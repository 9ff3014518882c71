------------------------------ MODULE LmtAgent ------------------------------
(* The Cerebro metric modules of a Lustre server (cerebro/metric), with the *)
(* encoders of liblmt and the /proc readers of libproc they run.            *)
(*                                                                          *)
(* cerebrod calls _get_metric_value of each module once per period.  The    *)
(* call opens one small file after another; between two opens a target may  *)
(* be mounted or unmounted and the Lustre modules may be removed.  The call *)
(* either returns a string that describes every target of the node, or      *)
(* fails.  One open file or directory at a time is kept in the context,     *)
(* and assertions stop cerebrod when that is violated.                      *)
(*                                                                          *)
(* A call is a program: a sequence of steps, one per file that is opened.   *)
(* Numbers, percentages and wording are left out; a field of the string is  *)
(* the target and the column it was read for.                               *)
EXTENDS LustreStats, FiniteSets, TLC

CONSTANTS
    OstName, MdtName, OscName,  \* targets of the node, sorted by name
    Export,         \* clients of an MDT, in the order of its exports directory
    OstKey, MdtOp,  \* statistics the OST and the MDT metric report
    StatsFile,      \* possible contents of a stats file: sequences of lines
    Versions,       \* Lustre versions to check: a subset of Version
    Capacity,       \* CEREBRO_MAX_DATA_STRING_LEN
    HeadWidth, ItemWidth, WideItemWidth,   \* the text's share of it
    MaxChanges,     \* changes of the node during a behaviour
    MaxErrors       \* reads that fail though the file is there

\* Versions that take different paths: "2.0" is 2.0.0 to 2.0.55, "2.8" and
\* older have a version file of several lines, "2.12" is later than 2.10.8.
Version == {"1.8", "2.0", "2.8", "2.12"}

Kind == {"ost", "mdt", "osc", "router"}

\* All modules ask for the same period; cerebrod calls them in turn.
Turn == <<"ost", "mdt", "osc", "router">>

ASSUME AgentAssumption ==
    /\ Versions \subseteq Version
    /\ {HeadWidth, ItemWidth, WideItemWidth, Capacity} \subseteq Nat
    /\ HeadWidth < Capacity
    /\ OstName \in Seq(Range(OstName)) /\ MdtName \in Seq(Range(MdtName))
    /\ OscName \in Seq(Range(OscName)) /\ MdtOp \in Seq(Range(MdtOp))
    /\ {MaxChanges, MaxErrors} \subseteq Nat

\* What the statistics rely on: STATS_HASH_SIZE, the hash function, names as
\* in optab_mdt_v1, two characters or more and none that begins with "mds_".
ASSUME StatsAssumption ==
    /\ Size = 64
    /\ NULL \notin Nat
    /\ Prefix \in Seq(Nat)
    /\ StatsFile \subseteq Seq([key : Seq(Nat), val : Nat])
    /\ \A key \in Range(OstKey) \cup Range(MdtOp) : key \in Seq(Nat)
    /\ \A op \in Range(MdtOp) : /\ Len(op) >= 2 /\ ~HasPrefix(op)
                                /\ SnapshotTime \notin {op, Prefix \o op}
    /\ \A key \in Range(OstKey) \cup Range(MdtOp) :
          \A k \in {key, Prefix \o key} : key_f(k) = hash_key_string(k)

VARIABLES
    ver,        \* the installed Lustre version
    loaded,     \* the Lustre modules are loaded: fs/lustre exists
    mounted,    \* the targets that are mounted
    routing,    \* LNet routing is enabled
    wide,       \* the counters have grown: the texts are wide
    changes, errors,    \* what is left of MaxChanges and MaxErrors
    due,        \* metrics that are still to be collected in this period
    pc,         \* "idle", "call", "deliver", "aborted"
    why,        \* the assertion that failed
    metric,     \* the metric of the call
    prog,       \* the steps that are left
    names,      \* the targets listed at the start of the call
    done,       \* how many of them are in the text
    half,       \* the version file was read once and is to be read again
    path,       \* the last path built is the one this version uses
    lv,         \* lustre_version of proc_lustre_hashstats
    ctx,        \* pctx_fp, pctx_dp: "closed" or "open"
    stats,      \* the stats hash of the target being read, or NULL
    raw,        \* history: the lines that went into it
    exports,    \* the exports that are left to read
    text, used  \* the string so far, and its length

env == <<ver, loaded, mounted, routing, wide, changes, errors>>
Locals == <<names, done, half, path, lv, raw, exports, text, used>>
call == <<metric, Locals>>
vars == <<env, due, pc, why, prog, ctx, stats, call>>

-----------------------------------------------------------------------------
(* Programs.                                                                *)

S(op, file) == [op |-> op, file |-> file]
Path == S("version", "path")    \* _find_mdt_dir, _find_osd_dir and the like
Again == S("version", "again")  \* a second version, for the same path
Lv == S("version", "lv")

\* _readint1 and _readstr1: the path of an MDT's file depends on the version.
ReadOne(k, file) == (IF k = "mdt" THEN <<Path>> ELSE <<>>) \o <<S("read", file)>>

proc_lustre_uuid(k) == ReadOne(k, "uuid")

proc_lustre_files(k) == ReadOne(k, "filesfree") \o ReadOne(k, "filestotal")

proc_lustre_kbytes(k) == ReadOne(k, "kbytesfree") \o ReadOne(k, "kbytestotal")

proc_lustre_num_exports(k) == ReadOne(k, "num_exports")

proc_lustre_ldlm == <<S("ldlm", "lock_count"), S("ldlm", "grant_rate"),
                      S("ldlm", "cancel_rate")>>

proc_lustre_hashrecov(k) == ReadOne(k, "recovery_status")

\* A file without "status:" fails like one that cannot be read.
get_recovstr(k) == proc_lustre_hashrecov(k)

_get_iops == <<S("optional", "brw_stats")>>

proc_lustre_oscinfo == <<Path, S("read", "ost_server_uuid")>>

proc_lustre_lnet_newbytes == <<Path, S("read", "lnet_stats")>>

proc_stat2 == <<S("node", "stat")>>

_get_mem_usage == <<S("node", "meminfo")>>

\* _aggregate_mdt_export_stats
Aggregate == <<Path, Again, S("exports", "exports"), S("export", "stats")>>

proc_lustre_ostlist == <<S("list", "obdfilter")>>

proc_lustre_mdtlist == <<S("exists", "fs/lustre"), Path, S("list", "mdt")>>

proc_lustre_osclist == <<Path, S("list", "osc")>>

proc_lustre_lnet_routing_enabled == <<Path, S("list", "routes")>>

\* The call up to its first fields.
lmt_ost_string_v2 ==
    proc_lustre_ostlist \o proc_stat2 \o _get_mem_usage \o <<S("head", "")>>

lmt_mdt_string_v3 ==
    proc_lustre_mdtlist \o proc_stat2 \o _get_mem_usage \o <<S("head", "")>>

lmt_osc_string_v1 == proc_lustre_osclist \o <<S("head", "")>>

lmt_router_string_v1 ==
    proc_lustre_lnet_routing_enabled \o proc_stat2 \o _get_mem_usage
        \o <<S("head", "")>>

Begin == [ost |-> lmt_ost_string_v2, mdt |-> lmt_mdt_string_v3,
          osc |-> lmt_osc_string_v1, router |-> lmt_router_string_v1]

\* What is read for one target.
_get_oststring_v2 ==
    proc_lustre_uuid("ost") \o <<S("stats", "stats")>> \o _get_iops
        \o proc_lustre_files("ost") \o proc_lustre_kbytes("ost")
        \o proc_lustre_num_exports("ost") \o proc_lustre_ldlm
        \o get_recovstr("ost") \o <<S("encode", "")>>

_get_mdtstring ==
    proc_lustre_uuid("mdt") \o proc_lustre_files("mdt") \o proc_lustre_kbytes("mdt")
        \o <<Lv, Path, Again, S("stats", "md_stats")>>
        \o get_recovstr("mdt") \o <<S("encode", "")>>

_get_oscstring == proc_lustre_oscinfo \o <<S("encode", "")>>

Item == [ost |-> _get_oststring_v2, mdt |-> _get_mdtstring, osc |-> _get_oscstring,
         router |-> proc_lustre_lnet_newbytes \o <<S("encode", "")>>]

\* The columns in the order the encoders print them; each operation of an MDT
\* has three (_get_mdtop).
_get_mdtop(o) == <<<<o, "count">>, <<o, "sum">>, <<o, "sumsq">>>>

MdtColumns ==
    <<"uuid", "filesfree", "filestotal", "kbytesfree", "kbytestotal", "recov">>
        \o [c \in 1 .. 3 * Len(MdtOp) |->
                _get_mdtop(MdtOp[((c - 1) \div 3) + 1])[((c - 1) % 3) + 1]]

OstColumns ==
    <<"uuid", "filesfree", "filestotal", "kbytesfree", "kbytestotal",
      "read_bytes", "write_bytes", "iops", "num_exports", "lock_count",
      "grant_rate", "cancel_rate", "connect", "reconnect", "recov">>

Columns == [ost |-> OstColumns, mdt |-> MdtColumns,
            osc |-> <<"uuid", "state">>, router |-> <<"newbytes">>]

HeadColumns == [
    ost |-> <<"version", "nodename", "cpupct", "mempct">>,
    mdt |-> <<"version", "nodename", "cpupct", "mempct">>,
    osc |-> <<"version", "nodename">>,
    router |-> <<"version", "nodename", "cpupct", "mempct">>]

Fields(of, columns) == [i \in DOMAIN columns |-> [of |-> of, col |-> columns[i]]]

-----------------------------------------------------------------------------
(* Where things are in /proc.                                               *)

\* The directories the readers choose for a version; "none" is a version that
\* could not be read.
Directory(v) == [
    ost |-> "obdfilter",
    mdt |-> IF v \in {"none", "1.8"} THEN "mds" ELSE "mdt",
    osc |-> IF v = "2.12" THEN "osp" ELSE "osc",
    router |-> IF v = "2.12" THEN "debugfs" ELSE "sys"]

RightPath(v) == Directory(v)[metric] = Directory(ver)[metric]

Target == [ost |-> OstName, mdt |-> MdtName, osc |-> OscName,
           router |-> <<"lnet">>]

\* The entries of the directory, as places in Target; "Routing enabled" counts
\* as one.
Entries == IF metric = "router"
           THEN {k \in 1 .. 1 : routing}
           ELSE {k \in DOMAIN Target[metric] : Target[metric][k] \in mounted}

\* The n entries in their order.
Listed(n) == {at \in [1 .. n -> Entries] :
                /\ \A j, k \in 1 .. n : j < k => at[j] < at[k]
                /\ \A e \in Entries : \E k \in 1 .. n : at[k] = e}

Current == names[done + 1]

\* The files of the target being read are there.
Present == IF metric = "router" THEN loaded ELSE Current \in mounted

-----------------------------------------------------------------------------
Init ==
    /\ ver \in Versions
    /\ loaded = TRUE
    /\ mounted = Range(OstName \o MdtName \o OscName)
    /\ routing = TRUE
    /\ wide = FALSE
    /\ changes = MaxChanges
    /\ errors = MaxErrors
    /\ due = Turn
    /\ pc = "idle"
    /\ why = "none"
    /\ metric = "ost"
    /\ prog = <<>>
    /\ names = <<>>
    /\ done = 0
    /\ half = FALSE
    /\ path = TRUE
    /\ lv = "none"
    /\ ctx = "closed"
    /\ stats = NULL
    /\ raw = [stats |-> <<>>, exports |-> <<>>]
    /\ exports = <<>>
    /\ text = <<>>
    /\ used = 0

-----------------------------------------------------------------------------
(* The node.                                                                *)

agent == <<due, pc, why, prog, ctx, stats, call>>

Change ==
    /\ changes > 0
    /\ changes' = changes - 1
    /\ UNCHANGED <<ver, errors, agent>>

Mount(t) ==
    /\ Change
    /\ loaded
    /\ t \notin mounted
    /\ mounted' = mounted \cup {t}
    /\ UNCHANGED <<loaded, routing, wide>>

Umount(t) ==
    /\ Change
    /\ t \in mounted
    /\ mounted' = mounted \ {t}
    /\ UNCHANGED <<loaded, routing, wide>>

\* What is still mounted is unmounted and the modules are removed.
Unload ==
    /\ Change
    /\ loaded
    /\ loaded' = FALSE
    /\ mounted' = {}
    /\ UNCHANGED <<routing, wide>>

Load ==
    /\ Change
    /\ ~loaded
    /\ loaded' = TRUE
    /\ UNCHANGED <<mounted, routing, wide>>

SetRouting ==
    /\ Change
    /\ routing' = ~routing
    /\ UNCHANGED <<loaded, mounted, wide>>

Grow ==
    /\ Change
    /\ wide' = ~wide
    /\ UNCHANGED <<loaded, mounted, routing>>

-----------------------------------------------------------------------------
(* cerebrod and _get_metric_value.                                          *)

\* A new period of LMT_UPDATE_INTERVAL seconds.
Period ==
    /\ pc = "idle"
    /\ due = <<>>
    /\ due' = Turn
    /\ UNCHANGED <<env, pc, why, prog, ctx, stats, call>>

\* cerebrod calls the module: proc_create, and an empty buffer.
_get_metric_value ==
    /\ pc = "idle"
    /\ due # <<>>
    /\ due' = Tail(due)
    /\ pc' = "call"
    /\ metric' = due[1]
    /\ prog' = Begin[due[1]]
    /\ UNCHANGED <<env, why, ctx, stats, Locals>>

\* The end of a call: hash_destroy, and proc_destroy, which asserts that
\* nothing is open.
proc_destroy(next) ==
    /\ IF ctx' = "closed"
       THEN pc' = next /\ why' = why
       ELSE pc' = "aborted" /\ why' = "destroy"
    /\ prog' = <<>>
    /\ stats' = NULL
    /\ raw' = [stats |-> <<>>, exports |-> <<>>]
    /\ exports' = <<>>
    /\ lv' = "none"
    /\ half' = FALSE
    /\ path' = TRUE

\* The call fails: nothing of it is left.
Fail ==
    /\ proc_destroy("idle")
    /\ names' = <<>>
    /\ done' = 0
    /\ text' = <<>>
    /\ used' = 0

\* A step that goes on to the next one.
Proceed ==
    /\ prog' = Tail(prog)
    /\ UNCHANGED <<pc, why>>

\* A step that opens a file.  proc_open and proc_openf assert that nothing is
\* open (property ContextSound).
Opens(op) ==
    /\ pc = "call"
    /\ prog[1].op = op

\* A read of a file that is there may fail with an error.
ReadError ==
    /\ errors > 0
    /\ errors' = errors - 1
    /\ UNCHANGED <<ver, loaded, mounted, routing, wide, changes>>

\* The open file is closed again: no step but "export" can leave one open.
proc_close == ctx' = "closed"

-----------------------------------------------------------------------------
(* The version: _packed_lustre_version.                                     *)

\* A bare version string has no value for _parse_stat, so the hash stays
\* empty and the file is opened a second time; when it is gone by then an
\* uninitialised buffer is taken for the version.
VersionRead ==
    IF loaded THEN {ver} ELSE IF half THEN Version \cup {"none"} ELSE {"none"}

_read_lustre_version_string ==
    /\ Opens("version")
    /\ proc_close
    /\ IF ver = "2.12" /\ loaded /\ ~half
       THEN half' = TRUE /\ UNCHANGED <<prog, path, lv>>
       ELSE \E v \in VersionRead :
            /\ half' = FALSE
            /\ prog' = Tail(prog)
            /\ IF prog[1].file = "lv"
               THEN lv' = v /\ path' = path
               ELSE /\ path' = (RightPath(v) /\ (prog[1].file = "again" => path))
                    /\ lv' = lv
    /\ UNCHANGED <<env, due, pc, why, stats, metric, names, done, raw, exports,
                   text, used>>

-----------------------------------------------------------------------------
(* The list of targets, and the node's own figures.                         *)

\* proc_exists (ctx, "fs/lustre")
ProcExists ==
    /\ Opens("exists")
    /\ ctx' = ctx
    /\ IF loaded
       THEN Proceed /\ UNCHANGED <<stats, Locals>>
       ELSE Fail
    /\ UNCHANGED <<env, due, metric>>

\* proc_lustre_ostlist, mdtlist, osclist and routing_enabled.  A node without
\* such targets has nothing to report.
_subdirlist ==
    /\ Opens("list")
    /\ proc_close
    /\ IF loaded /\ path /\ Entries # {}
       THEN /\ Proceed
            /\ \E n \in 1 .. Len(Target[metric]) :
               \E at \in Listed(n) : names' = [k \in 1 .. n |-> Target[metric][at[k]]]
            /\ UNCHANGED <<stats, done, half, path, lv, raw, exports, text, used>>
       ELSE Fail
    /\ UNCHANGED <<env, due, metric>>

\* proc_stat2 and proc_meminfo: these files are always there.
NodeUsage ==
    /\ Opens("node")
    /\ proc_close
    /\ \/ Proceed /\ UNCHANGED <<env, stats, Locals>>
       \/ ReadError /\ Fail
    /\ UNCHANGED <<due, metric>>

PrintHead ==
    /\ pc = "call"
    /\ prog[1].op = "head"
    /\ text' = Fields("node", HeadColumns[metric])
    /\ used' = HeadWidth
    /\ prog' = Item[metric]
    /\ UNCHANGED <<env, due, pc, why, ctx, stats, metric, names, done, half,
                   path, lv, raw, exports>>

-----------------------------------------------------------------------------
(* The files of a target.                                                   *)

\* Mutant: an early return when the file cannot be parsed, without proc_close.
MutReturnsEarly ==
    /\ Opens("read")
    /\ \/ proc_close /\ Present /\ path /\ Proceed /\ UNCHANGED <<env, stats, Locals>>
       \/ proc_close /\ ~(Present /\ path) /\ Fail /\ UNCHANGED env
       \/ Present /\ path /\ ReadError /\ ctx' = "open" /\ Fail
    /\ UNCHANGED <<due, metric>>

\* _readint1, _readstr1, proc_lustre_hashrecov with get_recovstr,
\* proc_lustre_oscinfo, proc_lustre_lnet_newbytes: a file that is missing or
\* cannot be parsed ends the call.
ReadFile ==
    /\ Opens("read")
    /\ proc_close
    /\ \/ Present /\ path /\ Proceed /\ UNCHANGED <<env, stats, Locals>>
       \/ ~(Present /\ path) /\ Fail /\ UNCHANGED env
       \/ Present /\ path /\ ReadError /\ Fail
    /\ UNCHANGED <<due, metric>>

\* Mutant: built without NONFATAL_MISSING_LDLM_STATS.
MutLdlmFatal ==
    /\ Opens("ldlm")
    /\ proc_close
    /\ \/ Proceed /\ UNCHANGED <<env, stats, Locals>>
       \/ Fail /\ UNCHANGED env
    /\ UNCHANGED <<due, metric>>

\* proc_lustre_ldlm_lock_count, _grant_rate and _cancel_rate: zero is
\* reported for a file that is missing, even on a mounted target.
ReadLdlm ==
    /\ Opens("ldlm")
    /\ proc_close
    /\ \/ Proceed /\ UNCHANGED <<env, stats, Locals>>
       \/ Present /\ ReadError /\ Fail
    /\ UNCHANGED <<due, metric>>

\* _get_iops: whatever goes wrong with brw_stats, zero is reported.
ReadBrwStats ==
    /\ Opens("optional")
    /\ proc_close
    /\ Proceed
    /\ UNCHANGED <<env, due, stats, call>>

\* hash_for_each (h, _rekey_mdt_stats), at the end of proc_lustre_hashstats.
Rekeyed(h) ==
    IF metric = "mdt" /\ lv \notin {"none", "1.8"}
    THEN hash_for_each(h, _rekey_mdt_stats)
    ELSE h

\* proc_lustre_hashstats up to the aggregation.  The result of proc_openf is
\* not looked at: reading a file that is gone fails an assertion of proc_gets.
proc_lustre_hashstats ==
    /\ Opens("stats")
    /\ \/ /\ Present /\ path
          /\ proc_close
          /\ \E lines \in StatsFile :
             LET h == _hash_stats(hash_create, lines)
                 old == metric = "mdt" /\ lv = "2.0"
             IN  /\ raw' = [stats |-> lines, exports |-> <<>>]
                 /\ stats' = IF old THEN h ELSE Rekeyed(h)
                 /\ prog' = IF old THEN Aggregate \o Tail(prog) ELSE Tail(prog)
          /\ UNCHANGED <<env, pc, why, names, done, half, path, lv, exports,
                         text, used>>
       \/ /\ ~(Present /\ path)
          /\ pc' = "aborted"
          /\ why' = "gets"
          /\ UNCHANGED <<env, prog, ctx, stats, Locals>>
       \/ Present /\ path /\ proc_close /\ ReadError /\ Fail
    /\ UNCHANGED <<due, metric>>

\* proc_lustre_mdt_exportlist: without a list there is nothing to add.
proc_lustre_mdt_exportlist ==
    /\ Opens("exports")
    /\ proc_close
    /\ Proceed
    /\ exports' = IF Present /\ path THEN Export ELSE <<>>
    /\ UNCHANGED <<env, due, stats, metric, names, done, half, path, lv, raw,
                   text, used>>

\* One export of the loop in _aggregate_mdt_export_stats, or its end: the loop
\* ends after the last export, and without an error at one that is gone (a
\* client may disconnect at any time).  An open that fails for another reason
\* and a read error end the call; the read error leaves the file open.
_aggregate_mdt_export_stats ==
    /\ Opens("export")
    /\ \/ /\ exports # <<>> /\ Present /\ path
          /\ proc_close
          /\ exports' = Tail(exports)
          /\ \E lines \in StatsFile :
             /\ stats' = _hash_aggregate_stats(stats, lines)
             /\ raw' = [raw EXCEPT !.exports = @ \o lines]
          /\ UNCHANGED <<env, pc, why, prog, names, done, half, path, lv, text,
                         used>>
       \/ /\ proc_close
          /\ Proceed
          /\ exports' = <<>>
          /\ stats' = Rekeyed(stats)
          /\ UNCHANGED <<env, names, done, half, path, lv, raw, text, used>>
       \/ /\ exports # <<>> /\ Present /\ path
          /\ ReadError
          /\ ctx' \in {"closed", "open"}
          /\ Fail
    /\ UNCHANGED <<due, metric>>

-----------------------------------------------------------------------------
(* The text of a target, and the end of the call.                           *)

Width == IF wide THEN WideItemWidth ELSE ItemWidth

\* Mutant: the result of snprintf is not compared with the room left, so a text
\* that does not fit is cut off and the loop goes on.
MutCutsOff ==
    /\ pc = "call"
    /\ prog[1].op = "encode"
    /\ ctx' = ctx
    /\ text' = text \o IF used + Width >= Capacity
                       THEN SubSeq(Fields(Current, Columns[metric]), 1, 1)
                       ELSE Fields(Current, Columns[metric])
    /\ used' = used + Width
    /\ done' = done + 1
    /\ names' = names
    /\ IF done + 1 < Len(names)
       THEN /\ prog' = Item[metric]
            /\ stats' = NULL
            /\ raw' = [stats |-> <<>>, exports |-> <<>>]
            /\ UNCHANGED <<pc, why, half, path, lv, exports>>
       ELSE proc_destroy("deliver")
    /\ UNCHANGED <<env, due, metric>>

\* snprintf: a text that does not fit ends the call.
Encode ==
    /\ pc = "call"
    /\ prog[1].op = "encode"
    /\ ctx' = ctx
    /\ IF used + Width >= Capacity
       THEN Fail
       ELSE /\ text' = text \o Fields(Current, Columns[metric])
            /\ used' = used + Width
            /\ done' = done + 1
            /\ names' = names
            /\ IF done + 1 < Len(names)
               THEN /\ prog' = Item[metric]
                    /\ stats' = NULL
                    /\ raw' = [stats |-> <<>>, exports |-> <<>>]
                    /\ UNCHANGED <<pc, why, half, path, lv, exports>>
               ELSE proc_destroy("deliver")
    /\ UNCHANGED <<env, due, metric>>

\* cerebrod sends the value and calls _destroy_metric_value.
_destroy_metric_value ==
    /\ pc = "deliver"
    /\ pc' = "idle"
    /\ names' = <<>>
    /\ done' = 0
    /\ text' = <<>>
    /\ used' = 0
    /\ UNCHANGED <<env, due, why, prog, ctx, stats, metric, half, path, lv, raw,
                   exports>>

Step ==
    \/ _read_lustre_version_string
    \/ ProcExists
    \/ _subdirlist
    \/ NodeUsage
    \/ PrintHead
    \/ ReadFile
    \/ ReadLdlm
    \/ ReadBrwStats
    \/ proc_lustre_hashstats
    \/ proc_lustre_mdt_exportlist
    \/ _aggregate_mdt_export_stats
    \/ Encode

Cerebrod ==
    \/ Period
    \/ _get_metric_value
    \/ _destroy_metric_value

Environment ==
    \/ \E t \in Range(OstName \o MdtName \o OscName) : Mount(t) \/ Umount(t)
    \/ Unload
    \/ Load
    \/ SetRouting
    \/ Grow

Next == Step \/ Cerebrod \/ Environment

Spec == Init /\ [][Next]_vars

\* cerebrod keeps calling and a call runs to its end; nothing is assumed of
\* the node.
FairSpec == Spec /\ WF_vars(Step \/ Cerebrod)

-----------------------------------------------------------------------------
(* The receiving side: ltop and the monitor module decode the string.       *)

\* strskip and strskipcpy on fields: n fields are skipped, or there are fewer.
strskip(s, n) == SubSeq(s, n + 1, Len(s))

strskipcpy(s, n, i) == SubSeq(s, (i - 1) * n + 1, i * n)

\* The fields that the sscanf calls of the decoders expect, in their order.
lmt_ost_decode_v2_ostinfo ==
    <<"uuid", "filesfree", "filestotal", "kbytesfree", "kbytestotal",
      "read_bytes", "write_bytes", "iops", "num_exports", "lock_count",
      "grant_rate", "cancel_rate", "connect", "reconnect", "recov">>

_lmt_mdt_decode_mdtinfo_helper ==
    <<"uuid", "filesfree", "filestotal", "kbytesfree", "kbytestotal", "recov">>

lmt_osc_decode_v1_oscinfo == <<"uuid", "state">>

DecodedColumns == [ost |-> lmt_ost_decode_v2_ostinfo,
                   mdt |-> _lmt_mdt_decode_mdtinfo_helper,
                   osc |-> lmt_osc_decode_v1_oscinfo,
                   router |-> <<"newbytes">>]

\* The loop "while ((cpy = strskipcpy (&s, n, ';')))" after skip fields: the
\* groups of n fields, and whether they exhaust the string.
Groups(s, skip, n) ==
    LET rest == strskip(s, skip)
    IN  [ok   |-> skip <= Len(s) /\ Len(rest) % n = 0,
         list |-> [i \in 1 .. Len(rest) \div n |-> strskipcpy(rest, n, i)]]

lmt_ost_decode_v2(s) == Groups(s, 4, 15)

lmt_mdt_decode_v1_v2_v3(s) == Groups(s, 4, 6 + 3 * Len(MdtOp))

lmt_osc_decode_v1(s) == Groups(s, 2, 2)

lmt_router_decode_v1(s) == Groups(s, 4, 1)

Decode(k, s) == CASE k = "ost"    -> lmt_ost_decode_v2(s)
                  [] k = "mdt"    -> lmt_mdt_decode_v1_v2_v3(s)
                  [] k = "osc"    -> lmt_osc_decode_v1(s)
                  [] k = "router" -> lmt_router_decode_v1(s)

\* lmt_mdt_decode_v1_mdops: three fields per operation, which are taken for
\* the operations of the table in turn.
DecodedOp(g, j) == SubSeq(g, 6 + 3 * (j - 1) + 1, 6 + 3 * j)

-----------------------------------------------------------------------------
(* Properties.                                                              *)

\* What is delivered decodes, and to exactly the targets that were listed when
\* the call began, in their order, each with every column where the decoder
\* looks for it: a target that goes away, a read that fails or a text that
\* does not fit withholds the whole metric.
SentIsWhole ==
    pc = "deliver" =>
        LET decoded == Decode(metric, text)
        IN  /\ decoded.ok
            /\ Len(decoded.list) = Len(names)
            /\ \A i \in DOMAIN names :
               /\ SubSeq(decoded.list[i], 1, Len(DecodedColumns[metric]))
                    = Fields(names[i], DecodedColumns[metric])
               /\ metric = "mdt" =>
                    \A j \in DOMAIN MdtOp :
                        DecodedOp(decoded.list[i], j) =
                            Fields(names[i], _get_mdtop(MdtOp[j]))

\* What is reported of a statistic is what a reader of the files would add up:
\* hash collisions, repeated keys, keys with the prefix and several exports
\* change nothing, provided the version could be read.
StatsReported ==
    /\ pc = "call"
    /\ prog[1].op = "encode"
    /\ metric \in {"ost", "mdt"}
    /\ metric = "mdt" => lv = ver
    =>  \A key \in Range(IF metric = "ost" THEN OstKey ELSE MdtOp) :
            proc_lustre_parsestat(stats, key) =
                IF metric = "ost" \/ ver = "1.8"
                THEN LastValue(raw.stats, {key})
                ELSE Reported(raw.stats, raw.exports, key)

\* Between two files nothing is open, so that the assertions of proc_open
\* hold; and proc_destroy finds something open only in an MDT metric, after
\* the statistics of an export could not be read.
ContextSound ==
    /\ pc \in {"idle", "call", "deliver"} => ctx = "closed"
    /\ why = "destroy" => metric = "mdt"

\* What makes SentIsWhole and ContextSound inductive.  A call first runs the
\* steps of its header, which find the targets, and prints the header; then it
\* runs the steps of one target after another, each ending with the text of
\* that target.  Exports are read only for an MDT.
HeadOps == {"exists", "version", "list", "node"}
ItemOps == {"version", "read", "stats", "optional", "ldlm", "exports", "export"}

Ending(p, ops, last) ==
    /\ p # <<>>
    /\ p[Len(p)].op = last
    /\ \A i \in 1 .. Len(p) - 1 : p[i].op \in ops

TextOf(n) ==
    LET head == Len(HeadColumns[metric])
        w    == Len(Columns[metric])
    IN  /\ Len(text) = head + n * w
        /\ \A i \in 1 .. n : \A c \in 1 .. w :
              text[head + (i - 1) * w + c] = [of |-> names[i], col |-> Columns[metric][c]]

InHeader ==
    /\ done = 0
    /\ Ending(prog, HeadOps, "head")
    /\ names # <<>> \/ \E i \in 1 .. Len(prog) : prog[i].op = "list"

InTarget ==
    /\ done < Len(names)
    /\ TextOf(done)
    /\ Ending(prog, ItemOps, "encode")
    /\ \A i \in 1 .. Len(prog) : prog[i].op = "export" => metric = "mdt"

Calls ==
    /\ pc = "idle" => names = <<>> /\ done = 0
    /\ pc = "call" => InHeader \/ InTarget
    /\ pc = "deliver" => done = Len(names) /\ TextOf(done)
    /\ why # "none" => pc = "aborted"

FileName ==
    {"", "path", "again", "lv", "obdfilter", "mdt", "osc", "routes", "fs/lustre",
     "stat", "meminfo", "uuid", "filesfree", "filestotal", "kbytesfree",
     "kbytestotal", "num_exports", "lock_count", "grant_rate", "cancel_rate",
     "recovery_status", "brw_stats", "stats", "md_stats", "exports",
     "ost_server_uuid", "lnet_stats"}

AnyStep == [op : HeadOps \cup ItemOps \cup {"head", "encode"}, file : FileName]
NodeTarget == UNION {Range(Target[k]) : k \in Kind}

CallType ==
    /\ pc \in {"idle", "call", "deliver", "aborted"}
    /\ due \in Seq(Kind) /\ metric \in Kind
    /\ prog \in Seq(AnyStep)
    /\ names \in Seq(NodeTarget) /\ done \in Nat

IInv == CallType /\ Calls /\ ContextSound

\* The assertions of proc.c hold (proc_gets: "path || ctx->pctx_fp").
AssertionsHold == why = "none"

\* A node that has something to report, that fits.
CanReport(k) ==
    /\ loaded
    /\ ~wide
    /\ IF k = "router" THEN routing ELSE Range(Target[k]) \cap mounted # {}

\* However the node was disturbed before, a metric it can report is delivered
\* again and again, unless cerebrod was aborted.
Delivers ==
    \A k \in Kind :
        <>[]CanReport(k) =>
            []<>(pc = "deliver" /\ metric = k) \/ <>(pc = "aborted")

=============================================================================
