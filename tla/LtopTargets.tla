---------------------------- MODULE LtopTargets ----------------------------
(***************************************************************************)
(* What ltop (src/utils/ltop.c) knows of the targets of a file system: the *)
(* list of OSTs (or MDTs) it fills from cerebro's metrics, and the list of *)
(* servers it sums up from it for the compressed view.                     *)
(*                                                                         *)
(* One instance is one of the two lists: Kind is "ost" or "mdt".           *)
(*                                                                         *)
(* Abstractions.                                                           *)
(*  - Samples that every function treats alike are one field: "rbytes"     *)
(*    stands for wbytes, iops, lock_count, kbytes_free and kbytes_total,   *)
(*    "connect" for grant_rate and cancel_rate, "pct_cpu" for pct_mem,     *)
(*    "open" for the other operations and the inodes of an MDT,            *)
(*    "kbytes_free" (mdt) for its kbytes_total.                            *)
(*  - A metric carries one number per target, which all its fields take.   *)
(*  - The lists are sorted by whatever column the user chose: here a list  *)
(*    has no order, and a loop over it meets its targets in any.           *)
(*  - The user may press a key, and the sample period may end, at any time.*)
(***************************************************************************)
EXTENDS LtopSample, FiniteSets

CONSTANTS
    Kind,          \* which of the two lists
    Target,        \* names of targets
    Fs,            \* names of file systems
    TargetFs,      \* the file system of a target
    Mds,           \* servers that report the OSTs' states (lmt_osc)
    TargetReport,  \* what the servers may say of their targets
    OscReport,     \* what an MDS may say of the OSTs
    StaleSecs,     \* stale_secs
    MaxTime,       \* bound: the clock stops here
    MaxEvents      \* bound: reports, failovers and keys

Field == IF Kind = "ost" THEN {"rbytes", "connect", "num_exports", "pct_cpu"}
                         ELSE {"open", "kbytes_free", "pct_cpu"}

\* An operation an MDT has not served is missing from its metric.
Optional == Field \cap {"open"}

State == {"F", "D"}
Recovery == {"COMPLETE", "RECOVERING"}

\* What a metric says of one target.
Reading == [n : Nat, recov : Recovery, fields : SUBSET Field]

ASSUME TargetsAssumption ==
    /\ Kind \in {"ost", "mdt"}
    /\ TargetFs \in [Target -> Fs]
    /\ TargetReport \subseteq [Target -> Reading]
    /\ \A v \in TargetReport : \A t \in Target : Field \ Optional \subseteq v[t].fields
    /\ OscReport \subseteq [Target -> State]
    /\ {StaleSecs, MaxTime, MaxEvents} \subseteq Nat
    /\ None \notin Server

VARIABLES
    now,           \* time (NULL)
    events,        \* events still to come
    owner,         \* the server each target runs on
    cer,           \* cerebro: the last lmt_ost / lmt_mdt metric of each server
    osc,           \* cerebro: the last lmt_osc metric of each MDS
    fs,            \* the file system shown
    target_view,   \* ostview / mdtview: targets are shown, not servers
    tcycle,        \* the time of the data shown
    last_sample,   \* the time of the last attempt to poll
    target_data,   \* ost_data / mdt_data
    server_data,   \* oss_data / mds_data
    polled,        \* metrics of this poll still to decode
    polled_osc,
    queue,         \* targets still to be summed up
    pc             \* "idle" (display and getch), "repoll", "poll", "summarize"

worldVars == <<now, events, owner, cer, osc>>
clusterVars == <<now, owner, cer, osc>>
userVars == <<fs, target_view>>
vars == <<worldVars, userVars, tcycle, last_sample, target_data, server_data,
          polled, polled_osc, queue, pc>>

EmptyList == [x \in {} |-> x]

\* _create_oststat, _create_mdtstat
NewTarget ==
    [servername |-> None, ts |-> 0, recov_status |-> "", tgtstate |-> "",
     tag |-> FALSE, samples |-> [f \in Field |-> sample_create]]

\* list_find_first, and list_append of a new record when there is none
Find(list, t) == IF t \in DOMAIN list THEN list[t] ELSE NewTarget

InFs(t) == TargetFs[t] = fs

---------------------------------------------------------------------------
\* ltop is running: its first poll found targets, if only of the other list.
Init ==
    /\ now = StaleSecs + 1
    /\ events = MaxEvents
    /\ owner \in [Target -> Server]
    /\ cer = [s \in Server |-> [trcv |-> 0, vals |-> EmptyList]]
    /\ osc = [m \in Mds |-> [trcv |-> 0, states |-> EmptyList]]
    /\ fs \in Fs
    /\ target_view = TRUE
    /\ tcycle = now
    /\ last_sample = now
    /\ target_data = EmptyList
    /\ server_data = EmptyList
    /\ polled = {} /\ polled_osc = {} /\ queue = {}
    /\ pc = "repoll"

---------------------------------------------------------------------------
\* Something happens between two refreshes.
Event == pc = "idle" /\ events > 0 /\ events' = events - 1

(* The cluster and cerebro.  A poll takes all metrics at once, so that what *)
(* arrives while it decodes them might as well arrive before or after.      *)

Tick ==
    /\ pc = "idle" /\ now < MaxTime
    /\ now' = now + 1
    /\ UNCHANGED <<events, owner, cer, osc, userVars, tcycle, last_sample, target_data,
                   server_data, polled, polled_osc, queue, pc>>

\* A target moves to another server; the old one's metric stays in cerebro
\* until the old server reports again.
Failover(t, s) ==
    /\ Event /\ owner[t] # s
    /\ owner' = [owner EXCEPT ![t] = s]
    /\ UNCHANGED <<now, cer, osc, userVars, tcycle, last_sample, target_data,
                   server_data, polled, polled_osc, queue, pc>>

Report(s) ==
    /\ Event
    /\ \E v \in TargetReport :
          cer' = [cer EXCEPT ![s] =
              [trcv |-> now, vals |-> [t \in {t \in Target : owner[t] = s} |-> v[t]]]]
    /\ UNCHANGED <<now, owner, osc, userVars, tcycle, last_sample, target_data,
                   server_data, polled, polled_osc, queue, pc>>

ReportOsc(m) ==
    /\ Event /\ Kind = "ost"
    /\ \E st \in OscReport :
          osc' = [osc EXCEPT ![m] = [trcv |-> now, states |-> st]]
    /\ UNCHANGED <<now, owner, cer, userVars, tcycle, last_sample, target_data,
                   server_data, polled, polled_osc, queue, pc>>

---------------------------------------------------------------------------
(* The end of the main loop: recompute.                                    *)

\* _summarize_target empties the list of servers and walks over the targets.
\* In the target view nothing is summed up.
Recompute(targets, view) ==
    IF view
    THEN pc' = "idle" /\ UNCHANGED <<server_data, queue>>
    ELSE pc' = "summarize" /\ server_data' = EmptyList /\ queue' = DOMAIN targets

---------------------------------------------------------------------------
(* _poll_cerebro                                                           *)

\* lmt_cbr_get_metrics answers with the metrics of every node, lmt_osc last.
\* When a call to libcerebro fails _get_metric_data returns a retval it never
\* set: the poll is given up (PollFails) or goes on without the nodes left.
PollStart ==
    /\ pc \in {"idle", "repoll"}
    /\ tcycle' = now
    /\ last_sample' = now
    /\ \E got \in SUBSET {s \in Server : cer[s].trcv # 0} :
          polled' = {[node |-> s, trcv |-> cer[s].trcv, vals |-> cer[s].vals] : s \in got}
    /\ \E got \in SUBSET {m \in Mds : osc[m].trcv # 0} : polled_osc' = {osc[m] : m \in got}
    /\ pc' = "poll"
    /\ UNCHANGED <<worldVars, userVars, target_data, server_data, queue>>

\* lmt_cbr_get_metrics fails: tcycle is left as it is.
PollFails ==
    /\ pc \in {"idle", "repoll"}
    /\ last_sample' = now
    /\ Recompute(target_data, target_view)
    /\ UNCHANGED <<worldVars, userVars, tcycle, target_data, polled, polled_osc>>

\* The samples a server's failover makes worthless.
Invalidated == Field \ {"connect"}

\* Mutant of AfterFailover: the servers' names are not compared.
MutNoInvalidation(o, s) == o.samples

\* The samples of a target before a metric of server s is taken in.
AfterFailover(o, s) ==
    [f \in Field |-> IF s # o.servername /\ f \in Invalidated
                     THEN sample_invalidate(o.samples[f])
                     ELSE o.samples[f]]

\* Mutant of Update: an older metric is taken in as well.
MutTakesOlder(o, s, r, trcv) ==
    [o EXCEPT !.servername = s,
              !.ts = trcv,
              !.recov_status = r.recov,
              !.samples = [f \in Field |->
                  sample_update(AfterFailover(o, s)[f], [n |-> r.n, by |-> s], trcv)]]

\* Mutant of Update: the timestamp of the target is forgotten.
MutOldTimestamp(o, s, r, trcv) ==
    IF o.ts < trcv
    THEN [o EXCEPT !.servername = s,
                   !.ts = IF s = o.servername THEN @ ELSE trcv,
                   !.recov_status = r.recov,
                   !.samples = [f \in Field |->
                       sample_update(AfterFailover(o, s)[f], [n |-> r.n, by |-> s], trcv)]]
    ELSE o

\* _update_ost, _update_mdt: only a metric newer than the last one counts.
Update(o, s, r, trcv) ==
    IF o.ts < trcv
    THEN [o EXCEPT !.servername = s,
                   !.ts = trcv,
                   !.recov_status = r.recov,
                   !.samples = [f \in Field |->
                       IF f \in r.fields
                       THEN sample_update(AfterFailover(o, s)[f], [n |-> r.n, by |-> s], trcv)
                       ELSE AfterFailover(o, s)[f]]]
    ELSE o

\* _decode_ost_v2, _decode_mdt_v2, _decode_mdt_v3
Decode(m) ==
    LET ts == {t \in DOMAIN m.vals : InFs(t)} IN
    /\ pc = "poll"
    /\ polled' = polled \ {m}
    /\ target_data' = [t \in DOMAIN target_data \cup ts |->
           IF t \in ts THEN Update(Find(target_data, t), m.node, m.vals[t], m.trcv)
           ELSE target_data[t]]
    /\ UNCHANGED <<worldVars, userVars, tcycle, last_sample, server_data,
                   polled_osc, queue, pc>>

\* _decode_osc_v1 and _update_osc
DecodeOsc(m) ==
    LET ts == {t \in DOMAIN m.states : InFs(t)} IN
    /\ pc = "poll" /\ polled = {}
    /\ polled_osc' = polled_osc \ {m}
    /\ target_data' = [t \in DOMAIN target_data \cup ts |->
           IF t \in ts
           THEN [Find(target_data, t) EXCEPT !.tgtstate =
                    IF Expired(m.trcv, tcycle, StaleSecs) THEN "" ELSE m.states[t]]
           ELSE target_data[t]]
    /\ UNCHANGED <<worldVars, userVars, tcycle, last_sample, server_data,
                   polled, queue, pc>>

PollEnds ==
    /\ pc = "poll" /\ polled = {} /\ polled_osc = {}
    /\ Recompute(target_data, target_view)
    /\ UNCHANGED <<worldVars, userVars, tcycle, last_sample, target_data,
                   polled, polled_osc>>

---------------------------------------------------------------------------
(* _summarize_target                                                       *)

Added == Field \cap {"rbytes", "connect", "open", "kbytes_free"}
Lowest == Field \cap {"num_exports"}

\* _copy_mdtstat copies the pointers of these samples, not the samples.
Shared == IF Kind = "mdt" THEN Field \cap {"kbytes_free"} ELSE {}

\* The server's sample of a field, wherever it is kept.
ServerSample(targets, server, f) ==
    IF f \in Shared THEN targets[server.first].samples[f] ELSE server.samples[f]

\* _copy_oststat, _copy_mdtstat: first keeps whom a shared sample belongs to.
CopyOf(t) ==
    [rec |-> target_data[t], samples |-> target_data[t].samples, first |-> t, count |-> 1]

\* _single_ost_update_summary, _single_mdt_update_summary
Summed(server, t, f) ==
    LET s1 == ServerSample(target_data, server, f)
        s2 == target_data[t].samples[f]
    IN  IF f \in Added THEN sample_add(s1, s2)
        ELSE IF f \in Lowest THEN sample_min(s1, s2)
        ELSE s1

\* Mutant of Merged: the last target's state wins, full or not.
MutLastStateWins(server, t) ==
    LET o == target_data[t] IN
    [server EXCEPT
        !.rec.ts = IF o.ts < @ THEN o.ts ELSE @,
        !.rec.tgtstate = o.tgtstate,
        !.rec.recov_status = o.recov_status,
        !.count = @ + 1,
        !.samples = [f \in Field |-> Summed(server, t, f)]]

\* Mutant of Merged: the sums are left out.
MutNothingSummed(server, t) ==
    LET o == target_data[t] IN
    [server EXCEPT !.rec.ts = IF o.ts < @ THEN o.ts ELSE @, !.count = @ + 1]

\* A further target of a server.
Merged(server, t) ==
    LET o == target_data[t]
        r == server.rec
    IN  [server EXCEPT
            !.rec = [r EXCEPT
                !.ts = IF o.ts < r.ts THEN o.ts ELSE r.ts,
                !.tgtstate = IF o.tgtstate # "F" THEN o.tgtstate ELSE r.tgtstate,
                !.recov_status =
                    IF o.recov_status # "COMPLETE" THEN o.recov_status ELSE r.recov_status,
                !.tag = r.tag \/ o.tag],
            !.count = server.count + 1,
            !.samples = [f \in Field |->
                IF f \in Shared THEN server.samples[f] ELSE Summed(server, t, f)]]

\* A sum that goes into a shared sample goes into its owner's.
WriteShared(server, t) ==
    [target_data EXCEPT ![server.first].samples =
        [f \in Field |-> IF f \in Shared THEN Summed(server, t, f) ELSE @[f]]]

\* One target of the loop.
Summarize(t) ==
    LET s == target_data[t].servername IN
    /\ pc = "summarize" /\ t \in queue
    /\ queue' = queue \ {t}
    /\ \/ /\ Expired(target_data[t].ts, tcycle, StaleSecs)
          /\ UNCHANGED <<server_data, target_data>>
       \/ /\ ~Expired(target_data[t].ts, tcycle, StaleSecs)
          /\ s \notin DOMAIN server_data
          /\ server_data' = [x \in DOMAIN server_data \cup {s} |->
                                IF x = s THEN CopyOf(t) ELSE server_data[x]]
          /\ UNCHANGED target_data
       \/ /\ ~Expired(target_data[t].ts, tcycle, StaleSecs)
          /\ s \in DOMAIN server_data
          /\ server_data' = [server_data EXCEPT ![s] = Merged(@, t)]
          /\ target_data' = WriteShared(server_data[s], t)
    /\ UNCHANGED <<worldVars, userVars, tcycle, last_sample, polled, polled_osc, pc>>

SummarizeEnds ==
    /\ pc = "summarize" /\ queue = {}
    /\ pc' = "idle"
    /\ UNCHANGED <<worldVars, userVars, tcycle, last_sample, target_data,
                   server_data, polled, polled_osc, queue>>

---------------------------------------------------------------------------
(* Keys.                                                                   *)

\* c: toggle the compressed server view
ToggleView ==
    /\ Event
    /\ target_view' = ~target_view
    /\ Recompute(target_data, target_view')
    /\ UNCHANGED <<clusterVars, fs, tcycle, last_sample, target_data, polled, polled_osc>>

\* Mutant of ChooseFs: the targets of the old file system stay.
MutKeepsTargets(f) ==
    /\ Event /\ f # fs
    /\ \E t \in Target : TargetFs[t] = f /\ \E s \in Server : t \in DOMAIN cer[s].vals
    /\ fs' = f
    /\ pc' = "repoll"
    /\ UNCHANGED <<clusterVars, target_view, tcycle, last_sample, target_data,
                   server_data, polled, polled_osc, queue>>

\* f: another file system, among those cerebro has targets of
ChooseFs(f) ==
    /\ Event /\ f # fs
    /\ \E t \in Target :
          /\ TargetFs[t] = f
          /\ \/ \E s \in Server : t \in DOMAIN cer[s].vals
             \/ \E m \in Mds : t \in DOMAIN osc[m].states
    /\ fs' = f
    /\ target_data' = EmptyList
    /\ pc' = "repoll"
    /\ UNCHANGED <<clusterVars, target_view, tcycle, last_sample, server_data,
                   polled, polled_osc, queue>>

\* The member ossname of oststat_t is never assigned.
OssName(o) == None

\* _tag_ost_byoss
TagByOss(ossname, tagval) ==
    [t \in DOMAIN target_data |->
        IF OssName(target_data[t]) = ossname
        THEN [target_data[t] EXCEPT !.tag = tagval] ELSE target_data[t]]

\* SPACE: _tag_nth_ost on the list that is shown
TagTarget(t) ==
    /\ Event /\ Kind = "ost" /\ target_view /\ t \in DOMAIN target_data
    /\ target_data' = [target_data EXCEPT ![t].tag = ~@]
    /\ UNCHANGED <<clusterVars, userVars, tcycle, last_sample, server_data, polled,
                   polled_osc, queue, pc>>

TagServer(s) ==
    /\ Event /\ Kind = "ost" /\ ~target_view /\ s \in DOMAIN server_data
    /\ server_data' = [server_data EXCEPT ![s].rec.tag = ~@]
    /\ target_data' = TagByOss(OssName(server_data[s].rec), server_data'[s].rec.tag)
    /\ UNCHANGED <<clusterVars, userVars, tcycle, last_sample, polled, polled_osc, queue, pc>>

\* Delete: _clear_tags of both lists
ClearTags ==
    /\ Event /\ Kind = "ost"
    /\ target_data' = [t \in DOMAIN target_data |-> [target_data[t] EXCEPT !.tag = FALSE]]
    /\ server_data' = [s \in DOMAIN server_data |-> [server_data[s] EXCEPT !.rec.tag = FALSE]]
    /\ UNCHANGED <<clusterVars, userVars, tcycle, last_sample, polled, polled_osc, queue, pc>>

---------------------------------------------------------------------------
World ==
    \/ Tick
    \/ \E t \in Target, s \in Server : Failover(t, s)
    \/ \E s \in Server : Report(s)
    \/ \E m \in Mds : ReportOsc(m)

Poll ==
    \/ PollStart \/ PollFails \/ PollEnds
    \/ \E m \in polled : Decode(m)
    \/ \E m \in polled_osc : DecodeOsc(m)
    \/ \E t \in queue : Summarize(t)
    \/ SummarizeEnds

Key ==
    \/ ToggleView
    \/ \E f \in Fs : ChooseFs(f)
    \/ \E t \in DOMAIN target_data : TagTarget(t)
    \/ \E s \in DOMAIN server_data : TagServer(s)
    \/ ClearTags

Next == World \/ Poll \/ Key

Spec == Init /\ [][Next]_vars

---------------------------------------------------------------------------
(* Properties.                                                             *)

TargetRecord ==
    [servername : Server \cup {None}, ts : Nat, recov_status : Recovery \cup {""},
     tgtstate : State \cup {""}, tag : BOOLEAN, samples : [Field -> Sample]]

ServerRecord ==
    [rec : TargetRecord, samples : [Field -> Sample], first : Target, count : Nat]

\* A function from part of D to R.
Partial(g, D, R) ==
    /\ DOMAIN g \subseteq D
    /\ g = [x \in DOMAIN g |-> g[x]]
    /\ \A x \in DOMAIN g : g[x] \in R

Total(g, D) == g = [x \in D |-> g[x]]

\* The values the variables range over.
TypeOK ==
    /\ now \in Nat /\ events \in Nat /\ tcycle \in Nat /\ last_sample \in Nat
    /\ owner \in [Target -> Server]
    /\ Total(cer, Server)
    /\ \A s \in Server : cer[s].trcv \in Nat /\ Partial(cer[s].vals, Target, Reading)
    /\ Total(osc, Mds)
    /\ \A m \in Mds : osc[m].trcv \in Nat /\ Partial(osc[m].states, Target, State)
    /\ fs \in Fs /\ target_view \in BOOLEAN
    /\ Partial(target_data, Target, TargetRecord)
    /\ Partial(server_data, Server, ServerRecord)
    /\ \A m \in polled :
          m.node \in Server /\ m.trcv \in Nat /\ Partial(m.vals, Target, Reading)
    /\ \A m \in polled_osc : m.trcv \in Nat /\ Partial(m.states, Target, State)
    /\ queue \subseteq Target
    /\ pc \in {"idle", "repoll", "poll", "summarize"}

Ordered(s) == s.valid = 2 => s.time0 < s.time1

\* sample_rate never divides by zero, nor by a negative time: two valid
\* readings of a target or of a server are of different times, in order.
SampleOrdered ==
    /\ \A t \in DOMAIN target_data : \A f \in Field : Ordered(target_data[t].samples[f])
    /\ \A s \in DOMAIN server_data : \A f \in Field : Ordered(server_data[s].samples[f])

\* A rate is never computed from counters of two servers, whatever order the
\* metrics of a failover and a failback are decoded in.  (The connect, grant
\* and cancel counters are not invalidated, and left out here.)
OneServerRates ==
    \A t \in DOMAIN target_data : \A f \in Invalidated :
        LET s == target_data[t].samples[f] IN
        /\ s.valid >= 1 => s.val1.by = target_data[t].servername
        /\ s.valid = 2 => s.val0.by = target_data[t].servername

\* No step takes a target back to an older metric or moves it to another
\* server without a newer one: in whatever order a poll meets them, the metric
\* a failed server left behind in cerebro never wins over its successor's.
NeverBack ==
    [][\A t \in DOMAIN target_data \cap DOMAIN target_data' :
          /\ target_data'[t].ts >= target_data[t].ts
          /\ target_data'[t].servername # target_data[t].servername
                => target_data'[t].ts > target_data[t].ts]_vars

\* A row that is not "stale" has the values of its own timestamp, none of
\* them expired, and a server is as old as the oldest of its targets.
RowsFresh ==
    /\ \A t \in DOMAIN target_data : \A f \in Field \ Optional :
          LET s == target_data[t].samples[f] IN
          target_data[t].ts # 0 => s.valid > 0 /\ s.time1 = target_data[t].ts
    /\ pc = "idle" /\ ~target_view => \A s \in DOMAIN server_data :
          /\ ~Expired(server_data[s].rec.ts, tcycle, StaleSecs)
          /\ \A t \in DOMAIN target_data :
                target_data[t].servername = s /\ ~Expired(target_data[t].ts, tcycle, StaleSecs)
                    => server_data[s].rec.ts <= target_data[t].ts

\* Only targets of the file system that was chosen are listed.
OwnFs == \A t \in DOMAIN target_data : InFs(t)

FreshOn(s) ==
    {t \in DOMAIN target_data :
        target_data[t].servername = s /\ ~Expired(target_data[t].ts, tcycle, StaleSecs)}

\* The sums of two targets whose samples are of the same times.
PairSums(list, r, t, u) ==
    \A f \in Field \ Shared :
        LET a == list[t].samples[f]
            b == list[u].samples[f]
            c == r.samples[f]
        IN  SameTimes(a, b) /\ a.valid > 0 =>
              /\ f \in Added => c.val1.n = a.val1.n + b.val1.n
              /\ f \in Lowest => c.val1.n = Smaller(a.val1.n, b.val1.n)

\* The server view sums up each live target once: the servers shown are those
\* of live targets, the count is theirs, and when their samples are of the
\* same times the read rate is the sum and the exports the minimum.
SummaryMatches ==
    pc = "idle" /\ ~target_view =>
        /\ \A s \in Server : s \in DOMAIN server_data <=> FreshOn(s) # {}
        /\ \A s \in DOMAIN server_data :
              /\ server_data[s].count = Cardinality(FreshOn(s))
              /\ \A t, u \in FreshOn(s) : t # u /\ FreshOn(s) = {t, u} =>
                    PairSums(target_data, server_data[s], t, u)

\* A server is shown full and recovered only if all its live targets are.
NonFullShown ==
    pc = "idle" /\ ~target_view => \A s \in DOMAIN server_data : \A t \in FreshOn(s) :
        /\ server_data[s].rec.tgtstate = "F" => target_data[t].tgtstate = "F"
        /\ server_data[s].rec.recov_status = "COMPLETE"
              => target_data[t].recov_status = "COMPLETE"

\* What the invariants above rest on.  Times have passed StaleSecs, so that a
\* target never heard of (timestamp 0) has expired.
ClockPast == now > StaleSecs /\ tcycle > StaleSecs

\* A target with a timestamp has the name of the server it came from.
HasServer ==
    \A t \in DOMAIN target_data :
        target_data[t].ts # 0 => target_data[t].servername \in Server

\* While servers are summed up the list of targets stays as it was.
SummaryReady ==
    pc = "summarize" =>
        /\ queue \subseteq DOMAIN target_data
        /\ \A s \in DOMAIN server_data : server_data[s].first \in DOMAIN target_data

\* The inductive invariant.
IInv ==
    /\ TypeOK /\ SampleOrdered /\ OneServerRates /\ OwnFs
    /\ ClockPast /\ HasServer /\ SummaryReady

\* Every metric cerebro keeps, and every one being decoded, has all fields of a
\* target but the optional ones.
FieldsComplete ==
    /\ \A s \in Server : \A t \in DOMAIN cer[s].vals :
          Field \ Optional \subseteq cer[s].vals[t].fields
    /\ \A m \in polled : \A t \in DOMAIN m.vals : Field \ Optional \subseteq m.vals[t].fields

\* A target never heard of has no readings; those of the others are as new as
\* its last metric.
Current(o) ==
    \A f \in Field \ Optional :
        IF o.ts = 0 THEN o.samples[f].valid = 0
                    ELSE o.samples[f].valid > 0 /\ o.samples[f].time1 = o.ts

ReadingsCurrent == \A t \in DOMAIN target_data : Current(target_data[t])

\* What the record r of a server is when it sums up the targets D of a list.
SumsUp(list, at, r, D) ==
    /\ IsFiniteSet(D) /\ r.count = Cardinality(D)
    /\ ~Expired(r.rec.ts, at, StaleSecs)
    /\ \A t \in D :
          /\ r.rec.ts <= list[t].ts
          /\ r.rec.tgtstate = "F" => list[t].tgtstate = "F"
          /\ r.rec.recov_status = "COMPLETE" => list[t].recov_status = "COMPLETE"
          /\ D = {t} => \A f \in Field \ Shared : r.samples[f] = list[t].samples[f]
    /\ \A t, u \in D : t # u /\ D = {t, u} => PairSums(list, r, t, u)

\* The targets of a server that the loop of _summarize_target has met.
SummedOn(s) == FreshOn(s) \ queue

\* The servers' records while they are summed up, and shown.
SummaryPartial ==
    /\ pc # "summarize" => queue = {}
    /\ pc = "summarize" \/ (pc = "idle" /\ ~target_view) =>
          /\ \A s \in Server : s \in DOMAIN server_data <=> SummedOn(s) # {}
          /\ \A s \in DOMAIN server_data : SumsUp(target_data, tcycle, server_data[s], SummedOn(s))

\* Summing up re-creates the servers' records and leaves the targets alone:
\* all samples of a target that were read together hold what was read.
OwnReadings ==
    \A t \in DOMAIN target_data : \A f, g \in Field :
        LET a == target_data[t].samples[f]
            b == target_data[t].samples[g]
        IN  a.valid > 0 /\ b.valid > 0 /\ a.time1 = b.time1 => a.val1 = b.val1

=============================================================================
