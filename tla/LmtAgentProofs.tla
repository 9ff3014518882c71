---------------------------- MODULE LmtAgentProofs ----------------------------
(* A metric is sent whole or not at all, and the context is closed between  *)
(* two files, for any number of targets, of operations of an MDT and of     *)
(* exports, and however often the node changes; and the statistics it       *)
(* reports are those a reader of the files would add up.                    *)
(*                                                                          *)
(* The steps of a call are taken from fixed programs; the lemmas about them *)
(* say which operations a program holds and how it ends.  The second half   *)
(* follows the nodes of one key through the hash table.                     *)
EXTENDS LmtAgent, LmtLemmas, SequenceTheorems

\* The invariant with the type of the text, whose columns are names and, for
\* the operations of an MDT, pairs.
Field == [of : NodeTarget \cup {"node"},
          col : UNION {Range(HeadColumns[k]) \cup Range(Columns[k]) : k \in Kind}]

CallInv == IInv /\ text \in Seq(Field)

-----------------------------------------------------------------------------
(* Programs.                                                                *)

Body(A) == Seq([op : A, file : FileName])
Has(p, op) == \E i \in 1 .. Len(p) : p[i].op = op

(* Steps followed by a last one.                                            *)
LEMMA Ended ==
    ASSUME NEW A \in SUBSET (HeadOps \cup ItemOps), NEW p \in Body(A),
           NEW last \in {"head", "encode"}
    PROVE  /\ p \o <<S(last, "")>> \in Seq(AnyStep)
           /\ Ending(p \o <<S(last, "")>>, A, last)
<1> DEFINE s == S(last, "")
           q == p \o <<s>>
<1>1. /\ p \in Seq(AnyStep) /\ s \in AnyStep /\ s.op = last
      /\ Len(p) \in Nat /\ \A i \in 1 .. Len(p) : p[i].op \in A
  <2>1. s \in AnyStep /\ s.op = last
    <3>1. "" \in FileName
      BY DEF FileName
    <3> QED
      BY <3>1 DEF AnyStep, S
  <2> DEFINE T == [op : A, file : FileName]
  <2>2. T \subseteq AnyStep /\ \A r \in T : r.op \in A
    BY DEF AnyStep
  <2>3. p \in Seq(T)
    BY DEF Body
  <2> HIDE DEF T, s
  <2>4. p \in Seq(AnyStep) /\ Len(p) \in Nat /\ \A i \in 1 .. Len(p) : p[i] \in T
    BY <2>2, <2>3
  <2> QED
    BY <2>1, <2>2, <2>4
<1> HIDE DEF s
<1>2. /\ q \in Seq(AnyStep) /\ Len(q) = Len(p) + 1
      /\ \A i \in 1 .. Len(p) : q[i] = p[i]
      /\ q[Len(p) + 1] = s
  BY <1>1
<1> HIDE DEF q
<1>3. Ending(q, A, last)
  <2>1. q # <<>> /\ Len(q) - 1 = Len(p)
    BY <1>1, <1>2
  <2>2. q[Len(q)].op = last
    BY <1>1, <1>2
  <2>3. \A i \in 1 .. Len(p) : q[i].op \in A
    BY <1>1, <1>2
  <2> QED
    BY <2>1, <2>2, <2>3 DEF Ending
<1> QED
  BY <1>2, <1>3 DEF q, s

(* A step stays in a longer program.                                        *)
LEMMA HasConcat ==
    ASSUME NEW T, NEW p \in Seq(T), NEW q \in Seq(T), NEW op, Has(p, op)
    PROVE  Has(p \o q, op)
<1>1. PICK i \in 1 .. Len(p) : p[i].op = op
  BY DEF Has
<1>2. i \in 1 .. Len(p \o q) /\ (p \o q)[i] = p[i]
  OBVIOUS
<1> QED
  BY <1>1, <1>2 DEF Has

(* The program of the header lists the targets and ends by printing it.     *)
LEMMA Headers ==
    ASSUME NEW k \in Kind
    PROVE  /\ Begin[k] \in Seq(AnyStep)
           /\ Ending(Begin[k], HeadOps, "head")
           /\ Has(Begin[k], "list")
<1> DEFINE T == [op : HeadOps, file : FileName]
           node == S("node", "stat")
           mem  == S("node", "meminfo")
           head == S("head", "")
<1>a. /\ {"", "stat", "meminfo", "obdfilter", "mdt", "osc", "routes", "fs/lustre", "path"}
           \subseteq FileName
      /\ {"list", "node", "exists", "version"} \subseteq HeadOps
  BY DEF FileName, HeadOps
<1>1. Path \in T
  BY <1>a DEF S, Path
<1>2. ASSUME NEW p \in Seq(T), Has(p, "list")
      PROVE  /\ p \o <<head>> \in Seq(AnyStep)
             /\ Ending(p \o <<head>>, HeadOps, "head")
             /\ Has(p \o <<head>>, "list")
  <2>1. /\ p \o <<head>> \in Seq(AnyStep)
        /\ Ending(p \o <<head>>, HeadOps, "head")
    BY Ended DEF Body
  <2>2. p \in Seq(AnyStep) /\ <<head>> \in Seq(AnyStep)
    <3>1. T \subseteq AnyStep /\ head \in AnyStep
      BY <1>a DEF AnyStep, S
    <3> HIDE DEF T, head
    <3> QED
      BY <3>1
  <2> HIDE DEF head
  <2> QED
    BY <1>2, <2>1, <2>2, HasConcat
<1>3. ASSUME NEW p \in Seq(T), Has(p, "list")
      PROVE  /\ p \o proc_stat2 \o _get_mem_usage \in Seq(T)
             /\ Has(p \o proc_stat2 \o _get_mem_usage, "list")
  <2>1. proc_stat2 \in Seq(T) /\ _get_mem_usage \in Seq(T)
    <3>1. node \in T /\ mem \in T
      BY <1>a DEF S
    <3> HIDE DEF T
    <3> QED
      BY <3>1 DEF proc_stat2, _get_mem_usage
  <2>2. p \o proc_stat2 \in Seq(T) /\ p \o proc_stat2 \o _get_mem_usage \in Seq(T)
    <3> HIDE DEF T
    <3> QED
      BY <2>1
  <2>3. Has(p \o proc_stat2, "list")
    BY <1>3, <2>1, HasConcat
  <2> QED
    BY <2>1, <2>2, <2>3, HasConcat
<1>4. /\ proc_lustre_ostlist \in Seq(T) /\ Has(proc_lustre_ostlist, "list")
      /\ proc_lustre_mdtlist \in Seq(T) /\ Has(proc_lustre_mdtlist, "list")
      /\ proc_lustre_osclist \in Seq(T) /\ Has(proc_lustre_osclist, "list")
      /\ proc_lustre_lnet_routing_enabled \in Seq(T)
      /\ Has(proc_lustre_lnet_routing_enabled, "list")
  <2>1. /\ S("list", "obdfilter") \in T /\ S("list", "mdt") \in T
        /\ S("list", "osc") \in T /\ S("list", "routes") \in T
        /\ S("exists", "fs/lustre") \in T
    BY <1>a DEF S
  <2>2. /\ S("list", "obdfilter").op = "list" /\ S("list", "mdt").op = "list"
        /\ S("list", "osc").op = "list" /\ S("list", "routes").op = "list"
    BY DEF S
  <2> HIDE DEF T
  <2>3. proc_lustre_ostlist \in Seq(T) /\ Has(proc_lustre_ostlist, "list")
    BY <2>1, <2>2 DEF proc_lustre_ostlist, Has
  <2>4. proc_lustre_mdtlist \in Seq(T) /\ Has(proc_lustre_mdtlist, "list")
    <3>1. proc_lustre_mdtlist[3].op = "list" /\ 3 \in 1 .. Len(proc_lustre_mdtlist)
      BY <2>2 DEF proc_lustre_mdtlist
    <3>2. proc_lustre_mdtlist \in Seq(T)
      BY <1>1, <2>1 DEF proc_lustre_mdtlist
    <3> QED
      BY <3>1, <3>2 DEF Has
  <2>5. proc_lustre_osclist \in Seq(T) /\ Has(proc_lustre_osclist, "list")
    <3>1. proc_lustre_osclist[2].op = "list" /\ 2 \in 1 .. Len(proc_lustre_osclist)
      BY <2>2 DEF proc_lustre_osclist
    <3>2. proc_lustre_osclist \in Seq(T)
      BY <1>1, <2>1 DEF proc_lustre_osclist
    <3> QED
      BY <3>1, <3>2 DEF Has
  <2>6. /\ proc_lustre_lnet_routing_enabled \in Seq(T)
        /\ Has(proc_lustre_lnet_routing_enabled, "list")
    <3> DEFINE r == proc_lustre_lnet_routing_enabled
    <3>1. r[2].op = "list" /\ 2 \in 1 .. Len(r)
      BY <2>2 DEF proc_lustre_lnet_routing_enabled
    <3>2. r \in Seq(T)
      BY <1>1, <2>1 DEF proc_lustre_lnet_routing_enabled
    <3> QED
      BY <3>1, <3>2 DEF Has
  <2> QED
    BY <2>3, <2>4, <2>5, <2>6
<1> HIDE DEF T
<1>5. CASE k = "ost"
  <2>1. Begin[k] = proc_lustre_ostlist \o proc_stat2 \o _get_mem_usage \o <<head>>
    BY <1>5 DEF Begin, lmt_ost_string_v2
  <2> HIDE DEF head
  <2> QED
    BY <2>1, <1>2, <1>3, <1>4
<1>6. CASE k = "mdt"
  <2>1. Begin[k] = proc_lustre_mdtlist \o proc_stat2 \o _get_mem_usage \o <<head>>
    BY <1>6 DEF Begin, lmt_mdt_string_v3
  <2> HIDE DEF head
  <2> QED
    BY <2>1, <1>2, <1>3, <1>4
<1>7. CASE k = "osc"
  <2>1. Begin[k] = proc_lustre_osclist \o <<head>>
    BY <1>7 DEF Begin, lmt_osc_string_v1
  <2> HIDE DEF head
  <2> QED
    BY <2>1, <1>2, <1>4
<1>8. CASE k = "router"
  <2>1. Begin[k] = proc_lustre_lnet_routing_enabled \o proc_stat2 \o _get_mem_usage \o <<head>>
    BY <1>8 DEF Begin, lmt_router_string_v1
  <2> HIDE DEF head
  <2> QED
    BY <2>1, <1>2, <1>3, <1>4
<1> QED
  BY <1>5, <1>6, <1>7, <1>8 DEF Kind

(* The program of a target ends with its text, and holds no export step.    *)
LEMMA Items ==
    ASSUME NEW k \in Kind
    PROVE  /\ Item[k] \in Seq(AnyStep)
           /\ Ending(Item[k], ItemOps, "encode")
           /\ \A i \in 1 .. Len(Item[k]) : Item[k][i].op # "export"
<1> DEFINE A == ItemOps \ {"export"}
           T == [op : A, file : FileName]
           enc == S("encode", "")
<1>1. /\ {"version", "read", "stats", "optional", "ldlm"} \subseteq A
      /\ A \in SUBSET (HeadOps \cup ItemOps) /\ A \subseteq ItemOps
      /\ "export" \notin A /\ "encode" \notin A
  BY DEF ItemOps
<1>2. ASSUME NEW p \in Seq(T)
      PROVE  /\ p \o <<enc>> \in Seq(AnyStep)
             /\ Ending(p \o <<enc>>, ItemOps, "encode")
             /\ \A i \in 1 .. Len(p \o <<enc>>) : (p \o <<enc>>)[i].op # "export"
  <2> DEFINE q == p \o <<enc>>
  <2>1. q \in Seq(AnyStep) /\ Ending(q, A, "encode")
    <3> HIDE DEF A
    <3> QED
      BY <1>1, Ended DEF Body
  <2> HIDE DEF q, A
  <2>2. Ending(q, ItemOps, "encode")
    BY <2>1, <1>1 DEF Ending
  <2>3. ASSUME NEW i \in 1 .. Len(q) PROVE q[i].op # "export"
    <3>1. Len(q) \in Nat
      BY <2>1
    <3>2. i = Len(q) \/ i \in 1 .. Len(q) - 1
      BY <3>1
    <3>3. q[Len(q)].op = "encode" /\ \A j \in 1 .. Len(q) - 1 : q[j].op \in A
      BY <2>1 DEF Ending
    <3> QED
      BY <3>2, <3>3, <1>1
  <2> QED
    BY <2>1, <2>2, <2>3 DEF q
<1>3. /\ \A f \in FileName : S("read", f) \in T /\ S("stats", f) \in T
      /\ \A f \in FileName : S("optional", f) \in T /\ S("ldlm", f) \in T
      /\ \A f \in FileName : S("version", f) \in T
  <2> HIDE DEF A
  <2> QED
    BY <1>1 DEF S
<1>4. /\ "path" \in FileName /\ "again" \in FileName /\ "lv" \in FileName
      /\ "uuid" \in FileName /\ "filesfree" \in FileName /\ "filestotal" \in FileName
      /\ "kbytesfree" \in FileName /\ "kbytestotal" \in FileName
      /\ "num_exports" \in FileName /\ "lock_count" \in FileName
      /\ "grant_rate" \in FileName /\ "cancel_rate" \in FileName
      /\ "recovery_status" \in FileName /\ "brw_stats" \in FileName
      /\ "stats" \in FileName /\ "md_stats" \in FileName
      /\ "ost_server_uuid" \in FileName /\ "lnet_stats" \in FileName
  BY DEF FileName
<1> HIDE DEF T
<1>5. Path \in T /\ Again \in T /\ Lv \in T
  BY <1>3, <1>4 DEF Path, Again, Lv
<1>6. ASSUME NEW f \in FileName, NEW kk PROVE ReadOne(kk, f) \in Seq(T)
  BY <1>3, <1>5 DEF ReadOne
<1>7. /\ proc_lustre_uuid("ost") \in Seq(T) /\ proc_lustre_uuid("mdt") \in Seq(T)
      /\ proc_lustre_num_exports("ost") \in Seq(T)
      /\ get_recovstr("ost") \in Seq(T) /\ get_recovstr("mdt") \in Seq(T)
  BY <1>4, <1>6 DEF proc_lustre_uuid, proc_lustre_num_exports, get_recovstr,
     proc_lustre_hashrecov
<1>8. ASSUME NEW kk
      PROVE  proc_lustre_files(kk) \in Seq(T) /\ proc_lustre_kbytes(kk) \in Seq(T)
  <2>1. /\ ReadOne(kk, "filesfree") \in Seq(T) /\ ReadOne(kk, "filestotal") \in Seq(T)
        /\ ReadOne(kk, "kbytesfree") \in Seq(T) /\ ReadOne(kk, "kbytestotal") \in Seq(T)
    BY <1>4, <1>6
  <2> QED
    BY <2>1, ConcatProperties DEF proc_lustre_files, proc_lustre_kbytes
<1>9. /\ proc_lustre_ldlm \in Seq(T) /\ _get_iops \in Seq(T)
      /\ proc_lustre_oscinfo \in Seq(T) /\ proc_lustre_lnet_newbytes \in Seq(T)
      /\ <<S("stats", "stats")>> \in Seq(T)
      /\ <<Lv, Path, Again, S("stats", "md_stats")>> \in Seq(T)
  BY <1>3, <1>4, <1>5 DEF proc_lustre_ldlm, _get_iops, proc_lustre_oscinfo,
     proc_lustre_lnet_newbytes
<1>10. \A p, q \in Seq(T) : p \o q \in Seq(T)
  BY ConcatProperties
<1>11. CASE k = "ost"
  <2> DEFINE p == proc_lustre_uuid("ost") \o <<S("stats", "stats")>> \o _get_iops
                    \o proc_lustre_files("ost") \o proc_lustre_kbytes("ost")
                    \o proc_lustre_num_exports("ost") \o proc_lustre_ldlm
                    \o get_recovstr("ost")
  <2>1. Item[k] = p \o <<enc>>
    BY <1>11 DEF Item, _get_oststring_v2
  <2>2. p \in Seq(T)
    BY <1>7, <1>8, <1>9, <1>10
  <2> HIDE DEF p, enc
  <2> QED
    BY <2>1, <2>2, <1>2
<1>12. CASE k = "mdt"
  <2> DEFINE p == proc_lustre_uuid("mdt") \o proc_lustre_files("mdt")
                    \o proc_lustre_kbytes("mdt")
                    \o <<Lv, Path, Again, S("stats", "md_stats")>> \o get_recovstr("mdt")
  <2>1. Item[k] = p \o <<enc>>
    BY <1>12 DEF Item, _get_mdtstring
  <2>2. p \in Seq(T)
    BY <1>7, <1>8, <1>9, <1>10
  <2> HIDE DEF p, enc
  <2> QED
    BY <2>1, <2>2, <1>2
<1>13. CASE k = "osc"
  <2>1. Item[k] = proc_lustre_oscinfo \o <<enc>>
    BY <1>13 DEF Item, _get_oscstring
  <2> HIDE DEF enc
  <2> QED
    BY <2>1, <1>2, <1>9
<1>14. CASE k = "router"
  <2>1. Item[k] = proc_lustre_lnet_newbytes \o <<enc>>
    BY <1>14 DEF Item
  <2> HIDE DEF enc
  <2> QED
    BY <2>1, <1>2, <1>9
<1> QED
  BY <1>11, <1>12, <1>13, <1>14 DEF Kind

(* The steps that proc_lustre_hashstats puts in front for old servers.      *)
LEMMA Aggregates ==
    ASSUME NEW p \in Seq(AnyStep), Ending(p, ItemOps, "encode")
    PROVE  /\ Aggregate \o p \in Seq(AnyStep)
           /\ Ending(Aggregate \o p, ItemOps, "encode")
<1> DEFINE q == Aggregate \o p
<1>1. /\ Aggregate \in Seq(AnyStep) /\ Len(Aggregate) = 4
      /\ \A i \in 1 .. 4 : Aggregate[i].op \in ItemOps
  <2>1. /\ "path" \in FileName /\ "again" \in FileName /\ "exports" \in FileName
        /\ "stats" \in FileName /\ "version" \in ItemOps /\ "exports" \in ItemOps
        /\ "export" \in ItemOps
    BY DEF FileName, ItemOps
  <2>2. /\ Path \in AnyStep /\ Again \in AnyStep
        /\ S("exports", "exports") \in AnyStep /\ S("export", "stats") \in AnyStep
        /\ Path.op \in ItemOps /\ Again.op \in ItemOps
        /\ S("exports", "exports").op \in ItemOps /\ S("export", "stats").op \in ItemOps
    BY <2>1 DEF Path, Again, S, AnyStep
  <2>3. Aggregate \in Seq(AnyStep) /\ Len(Aggregate) = 4
    BY <2>2 DEF Aggregate
  <2>4. /\ Aggregate[1].op \in ItemOps /\ Aggregate[2].op \in ItemOps
        /\ Aggregate[3].op \in ItemOps /\ Aggregate[4].op \in ItemOps
    BY <2>2 DEF Aggregate
  <2>5. \A i \in 1 .. 4 : i = 1 \/ i = 2 \/ i = 3 \/ i = 4
    OBVIOUS
  <2> QED
    BY <2>3, <2>4, <2>5
<1>2. /\ q \in Seq(AnyStep) /\ Len(q) = 4 + Len(p) /\ Len(p) \in Nat
      /\ \A i \in 1 .. 4 + Len(p) : q[i] = IF i <= 4 THEN Aggregate[i] ELSE p[i - 4]
  <2>1. /\ q \in Seq(AnyStep) /\ Len(q) = Len(Aggregate) + Len(p)
        /\ \A i \in 1 .. Len(Aggregate) + Len(p) :
             q[i] = IF i <= Len(Aggregate) THEN Aggregate[i] ELSE p[i - Len(Aggregate)]
    BY <1>1, ConcatProperties
  <2> HIDE DEF q
  <2>2. Len(p) \in Nat
    OBVIOUS
  <2> QED
    BY <2>1, <2>2, <1>1
<1>3. /\ p # <<>> /\ p[Len(p)].op = "encode" /\ Len(p) > 0
      /\ \A i \in 1 .. Len(p) - 1 : p[i].op \in ItemOps
  BY DEF Ending
<1> HIDE DEF q
<1>4. q # <<>> /\ q[Len(q)].op = "encode"
  BY <1>2, <1>3
<1>5. ASSUME NEW i \in 1 .. Len(q) - 1 PROVE q[i].op \in ItemOps
  <2>1. CASE i <= 4
    <3>1. i \in 1 .. 4 /\ q[i] = Aggregate[i]
      BY <2>1, <1>2, <1>5
    <3> QED
      BY <3>1, <1>1
  <2>2. CASE i > 4
    <3>1. i - 4 \in 1 .. Len(p) - 1 /\ q[i] = p[i - 4]
      BY <2>2, <1>2, <1>5
    <3> QED
      BY <3>1, <1>3
  <2> QED
    BY <2>1, <2>2, <1>2
<1> QED
  BY <1>2, <1>4, <1>5 DEF Ending, q

-----------------------------------------------------------------------------
(* The text.                                                                *)

Skip == [ost |-> 4, mdt |-> 4, osc |-> 2, router |-> 4]
Wide == [ost |-> 15, mdt |-> 6 + 3 * Len(MdtOp), osc |-> 2, router |-> 1]

(* A tuple is a sequence over its own elements.                             *)
LEMMA OwnRange ==
    ASSUME NEW T, NEW s \in Seq(T)
    PROVE  s \in Seq(Range(s)) /\ Len(s) \in Nat /\ Range(s) \subseteq T
<1>1. s \in [1 .. Len(s) -> Range(s)] /\ Len(s) \in Nat
  BY DEF Range
<1>2. Range(s) \subseteq T
  BY DEF Range
<1> HIDE DEF Range
<1>3. s \in Seq(Range(s))
  BY <1>1, FcnSeq
<1> QED
  BY <1>1, <1>2, <1>3

(* What the encoders print is what the decoders look for: as many columns,  *)
(* the same ones in the same places, and for an MDT the three columns of    *)
(* each operation behind them.                                              *)
LEMMA Layout ==
    ASSUME NEW k \in Kind
    PROVE  /\ Columns[k] \in Seq(Range(Columns[k])) /\ Len(Columns[k]) = Wide[k]
           /\ HeadColumns[k] \in Seq(Range(HeadColumns[k]))
           /\ Len(HeadColumns[k]) = Skip[k]
           /\ Wide[k] \in Nat \ {0} /\ Skip[k] \in Nat
           /\ Len(DecodedColumns[k]) \in 1 .. Wide[k]
           /\ DecodedColumns[k] \in Seq(Range(Columns[k]))
           /\ \A c \in 1 .. Len(DecodedColumns[k]) : DecodedColumns[k][c] = Columns[k][c]
<1> DEFINE four == <<"version", "nodename", "cpupct", "mempct">>
           two  == <<"version", "nodename">>
<1>1. /\ four \in Seq(Range(four)) /\ Len(four) = 4
      /\ two \in Seq(Range(two)) /\ Len(two) = 2
  <2>1. /\ four \in Seq({"version", "nodename", "cpupct", "mempct"}) /\ Len(four) = 4
        /\ two \in Seq({"version", "nodename"}) /\ Len(two) = 2
    OBVIOUS
  <2> HIDE DEF four, two
  <2> QED
    BY <2>1, OwnRange
<1>2. CASE k = "ost"
  <2> DEFINE X == {"uuid", "filesfree", "filestotal", "kbytesfree", "kbytestotal",
                   "read_bytes", "write_bytes", "iops", "num_exports", "lock_count",
                   "grant_rate", "cancel_rate", "connect", "reconnect", "recov"}
  <2>1. OstColumns \in Seq(X) /\ Len(OstColumns) = 15
    BY DEF OstColumns
  <2>2. lmt_ost_decode_v2_ostinfo = OstColumns
    BY DEF lmt_ost_decode_v2_ostinfo, OstColumns
  <2>3. /\ Columns[k] = OstColumns /\ HeadColumns[k] = four
        /\ DecodedColumns[k] = lmt_ost_decode_v2_ostinfo
        /\ Wide[k] = 15 /\ Skip[k] = 4
    BY <1>2 DEF Columns, HeadColumns, DecodedColumns, Wide, Skip
  <2> HIDE DEF four, X
  <2>4. OstColumns \in Seq(Range(OstColumns))
    BY <2>1, OwnRange
  <2> QED
    BY <2>1, <2>2, <2>3, <2>4, <1>1
<1>3. CASE k = "mdt"
  <2> DEFINE ops == [c \in 1 .. 3 * Len(MdtOp) |->
                       _get_mdtop(MdtOp[((c - 1) \div 3) + 1])[((c - 1) % 3) + 1]]
             first == _lmt_mdt_decode_mdtinfo_helper
             m == 3 * Len(MdtOp)
             X == {"uuid", "filesfree", "filestotal", "kbytesfree", "kbytestotal", "recov"}
             Y == X \cup Range(ops)
  <2>1. m \in Nat
    BY AgentAssumption
  <2>2. first \in Seq(X) /\ Len(first) = 6
    BY DEF _lmt_mdt_decode_mdtinfo_helper
  <2>3. ops \in [1 .. m -> Range(ops)]
    BY DEF Range
  <2>4. MdtColumns = first \o ops
    BY DEF MdtColumns, _lmt_mdt_decode_mdtinfo_helper
  <2>5. /\ Columns[k] = MdtColumns /\ HeadColumns[k] = four
        /\ DecodedColumns[k] = first
        /\ Wide[k] = 6 + m /\ Skip[k] = 4
    BY <1>3 DEF Columns, HeadColumns, DecodedColumns, Wide, Skip
  <2> HIDE DEF ops, first, X, m, four
  <2>6. ops \in Seq(Range(ops)) /\ Len(ops) = m
    BY <2>1, <2>3
  <2>7. first \in Seq(Y) /\ ops \in Seq(Y)
    BY <2>2, <2>6
  <2> HIDE DEF Y
  <2>8. /\ MdtColumns \in Seq(Y) /\ Len(MdtColumns) = 6 + m
        /\ \A c \in 1 .. 6 : MdtColumns[c] = first[c]
    <3>1. /\ first \o ops \in Seq(Y) /\ Len(first \o ops) = Len(first) + Len(ops)
          /\ \A c \in 1 .. Len(first) + Len(ops) :
               (first \o ops)[c] = IF c <= Len(first) THEN first[c] ELSE ops[c - Len(first)]
      BY <2>7, ConcatProperties
    <3>2. \A c \in 1 .. 6 : c \in 1 .. Len(first) + Len(ops) /\ c <= Len(first)
      BY <2>1, <2>2, <2>6
    <3> HIDE DEF MdtColumns
    <3> QED
      BY <3>1, <3>2, <2>2, <2>4, <2>6
  <2>9. MdtColumns \in Seq(Range(MdtColumns))
    BY <2>8, OwnRange
  <2>10. first \in Seq(Range(MdtColumns))
    <3>1. \A c \in 1 .. 6 : first[c] \in Range(MdtColumns)
      BY <2>1, <2>8, <2>9
    <3>2. first \in [1 .. 6 -> Range(MdtColumns)]
      BY <3>1, <2>2
    <3> QED
      BY <3>2, FcnSeq
  <2>11. Len(first) \in 1 .. 6 + m /\ 6 + m \in Nat \ {0}
    BY <2>1, <2>2
  <2>12. /\ Columns[k] \in Seq(Range(Columns[k])) /\ Len(Columns[k]) = Wide[k]
         /\ DecodedColumns[k] \in Seq(Range(Columns[k]))
    BY <2>5, <2>8, <2>9, <2>10
  <2>13. \A c \in 1 .. Len(DecodedColumns[k]) : DecodedColumns[k][c] = Columns[k][c]
    BY <2>2, <2>5, <2>8
  <2>14. /\ HeadColumns[k] \in Seq(Range(HeadColumns[k])) /\ Len(HeadColumns[k]) = Skip[k]
         /\ Skip[k] \in Nat
    BY <2>5, <1>1
  <2>15. Wide[k] \in Nat \ {0} /\ Len(DecodedColumns[k]) \in 1 .. Wide[k]
    BY <2>5, <2>11
  <2> QED
    BY <2>12, <2>13, <2>14, <2>15
<1>4. CASE k = "osc"
  <2> DEFINE o == <<"uuid", "state">>
  <2>1. o \in Seq({"uuid", "state"}) /\ Len(o) = 2
    OBVIOUS
  <2>2. /\ Columns[k] = o /\ HeadColumns[k] = two /\ DecodedColumns[k] = o
        /\ Wide[k] = 2 /\ Skip[k] = 2
    BY <1>4 DEF Columns, HeadColumns, DecodedColumns, Wide, Skip, lmt_osc_decode_v1_oscinfo
  <2> HIDE DEF o, two
  <2>3. o \in Seq(Range(o))
    BY <2>1, OwnRange
  <2> QED
    BY <2>1, <2>2, <2>3, <1>1
<1>5. CASE k = "router"
  <2> DEFINE r == <<"newbytes">>
  <2>1. r \in Seq({"newbytes"}) /\ Len(r) = 1
    OBVIOUS
  <2>2. /\ Columns[k] = r /\ HeadColumns[k] = four /\ DecodedColumns[k] = r
        /\ Wide[k] = 1 /\ Skip[k] = 4
    BY <1>5 DEF Columns, HeadColumns, DecodedColumns, Wide, Skip
  <2> HIDE DEF r, four
  <2>3. r \in Seq(Range(r))
    BY <2>1, OwnRange
  <2> QED
    BY <2>1, <2>2, <2>3, <1>1
<1> QED
  BY <1>2, <1>3, <1>4, <1>5 DEF Kind

LEMMA Thirds ==
    ASSUME NEW x \in Nat
    PROVE  /\ x = 3 * (x \div 3) + (x % 3)
           /\ x \div 3 \in Nat /\ x % 3 \in 0 .. 2
OBVIOUS

LEMMA MdtLayout ==
    ASSUME NEW j \in 1 .. Len(MdtOp), NEW c \in 1 .. 3
    PROVE  /\ 6 + 3 * (j - 1) + c \in 1 .. Wide["mdt"]
           /\ Columns["mdt"][6 + 3 * (j - 1) + c] = _get_mdtop(MdtOp[j])[c]
<1> DEFINE ops == [x \in 1 .. 3 * Len(MdtOp) |->
                     _get_mdtop(MdtOp[((x - 1) \div 3) + 1])[((x - 1) % 3) + 1]]
           first == _lmt_mdt_decode_mdtinfo_helper
           m == 3 * Len(MdtOp)
           y == 3 * (j - 1) + c
<1>1. m \in Nat /\ y \in 1 .. m /\ ((y - 1) \div 3) + 1 = j /\ ((y - 1) % 3) + 1 = c
  <2> DEFINE l == Len(MdtOp)
  <2>1. l \in Nat /\ j \in 1 .. l
    BY AgentAssumption
  <2> HIDE DEF l
  <2>2. 3 * l \in Nat /\ y \in 1 .. 3 * l
    BY <2>1
  <2>3. c = 1 \/ c = 2 \/ c = 3
    OBVIOUS
  <2>4. ((y - 1) \div 3) + 1 = j /\ ((y - 1) % 3) + 1 = c
    <3> DEFINE i == j - 1
    <3>1. i \in Nat
      BY <2>1
    <3>2. \A z \in 0 .. 2 : (3 * i + z) \div 3 = i /\ (3 * i + z) % 3 = z
      <4> HIDE DEF i
      <4>1. ASSUME NEW x \in Nat
            PROVE  /\ x = 3 * (x \div 3) + (x % 3)
                   /\ x \div 3 \in Nat /\ x % 3 \in 0 .. 2
        BY Thirds
      <4>2. ASSUME NEW z \in 0 .. 2, NEW q \in Nat, NEW r \in 0 .. 2, 3 * i + z = 3 * q + r
            PROVE  q = i /\ r = z
        BY <3>1, <4>2
      <4>3. ASSUME NEW z \in 0 .. 2
            PROVE  (3 * i + z) \div 3 = i /\ (3 * i + z) % 3 = z
        <5> DEFINE x == 3 * i + z
        <5>1. x \in Nat
          BY <3>1
        <5>2. x = 3 * (x \div 3) + (x % 3) /\ x \div 3 \in Nat /\ x % 3 \in 0 .. 2
          BY <5>1, <4>1
        <5> QED
          BY <5>2, <4>2
      <4> QED
        BY <4>3
    <3>3. c - 1 \in 0 .. 2 /\ y - 1 = 3 * i + (c - 1)
      BY <3>1
    <3>4. (y - 1) \div 3 = i /\ (y - 1) % 3 = c - 1
      BY <3>2, <3>3
    <3> QED
      BY <3>4, <3>1
  <2> QED
    BY <2>2, <2>4 DEF l
<1>2. ops[y] = _get_mdtop(MdtOp[j])[c]
  BY <1>1
<1>3. /\ Columns["mdt"] = first \o ops /\ Wide["mdt"] = 6 + m
  BY DEF Columns, MdtColumns, _lmt_mdt_decode_mdtinfo_helper, Wide
<1>4. ops \in [1 .. m -> Range(ops)]
  BY DEF Range
<1>5. first \in Seq({"uuid", "filesfree", "filestotal", "kbytesfree", "kbytestotal", "recov"})
      /\ Len(first) = 6
  BY DEF _lmt_mdt_decode_mdtinfo_helper
<1>6. 6 + 3 * (j - 1) + c = 6 + y
  OBVIOUS
<1> DEFINE X == Range(ops) \cup {"uuid", "filesfree", "filestotal", "kbytesfree",
                                 "kbytestotal", "recov"}
<1> HIDE DEF ops, first, m, y
<1>7. first \in Seq(X) /\ ops \in Seq(X) /\ Len(ops) = m
  BY <1>1, <1>4, <1>5
<1> HIDE DEF X
<1>8. (first \o ops)[6 + y] = ops[y]
  <2>1. \A i \in 1 .. Len(first) + Len(ops) :
          (first \o ops)[i] = IF i <= Len(first) THEN first[i] ELSE ops[i - Len(first)]
    BY <1>7, ConcatProperties
  <2>2. 6 + y \in 1 .. 6 + m /\ ~(6 + y <= 6) /\ (6 + y) - 6 = y
    BY <1>1
  <2> QED
    BY <2>1, <2>2, <1>5, <1>7
<1>9. 6 + y \in 1 .. 6 + m
  BY <1>1
<1> QED
  BY <1>2, <1>3, <1>6, <1>8, <1>9

(* The fields of a target are its columns.                                  *)
AreFields(f, x, cols, T) ==
    /\ f \in Seq([of : {x}, col : T])
    /\ Len(f) = Len(cols)
    /\ \A c \in 1 .. Len(cols) : f[c] = [of |-> x, col |-> cols[c]]

LEMMA FieldsAre ==
    ASSUME NEW T, NEW cols \in Seq(T), NEW x
    PROVE  AreFields(Fields(x, cols), x, cols, T)
<1>1. Len(cols) \in Nat /\ DOMAIN cols = 1 .. Len(cols)
  OBVIOUS
<1>2. Fields(x, cols) = [c \in 1 .. Len(cols) |-> [of |-> x, col |-> cols[c]]]
  BY <1>1 DEF Fields
<1>3. Fields(x, cols) \in [1 .. Len(cols) -> [of : {x}, col : T]]
  BY <1>1, <1>2
<1>4. Fields(x, cols) \in Seq([of : {x}, col : T]) /\ Len(Fields(x, cols)) = Len(cols)
  BY <1>1, <1>3, FcnSeq
<1> QED
  BY <1>2, <1>4 DEF AreFields

(* The text of n targets, with the widths the decoders assume.              *)
TextHas(t, nm, k, n) ==
    /\ Len(t) = Skip[k] + n * Wide[k]
    /\ \A i \in 1 .. n : \A c \in 1 .. Wide[k] :
          t[Skip[k] + (i - 1) * Wide[k] + c] = [of |-> nm[i], col |-> Columns[k][c]]

LEMMA FieldOf ==
    ASSUME NEW k \in Kind, NEW x \in NodeTarget \cup {"node"},
           NEW cols \in Seq(Range(HeadColumns[k]) \cup Range(Columns[k]))
    PROVE  Fields(x, cols) \in Seq(Field)
<1> DEFINE T == Range(HeadColumns[k]) \cup Range(Columns[k])
           F == [of : {x}, col : T]
<1>1. F \subseteq Field
  BY DEF Field
<1>2. Fields(x, cols) \in Seq(F)
  <2>1. AreFields(Fields(x, cols), x, cols, T)
    BY FieldsAre
  <2> QED
    BY <2>1 DEF AreFields
<1> HIDE DEF F
<1> QED
  BY <1>1, <1>2

(* Printing another target's columns.                                       *)
LEMMA TextGrows ==
    ASSUME NEW k \in Kind, NEW t \in Seq(Field), NEW nm \in Seq(NodeTarget),
           NEW n \in Nat, n < Len(nm), TextHas(t, nm, k, n)
    PROVE  /\ t \o Fields(nm[n + 1], Columns[k]) \in Seq(Field)
           /\ TextHas(t \o Fields(nm[n + 1], Columns[k]), nm, k, n + 1)
<1> DEFINE W == Wide[k]
           H == Skip[k]
           x == nm[n + 1]
           f == Fields(x, Columns[k])
           u == t \o f
           a == n * W
<1>1. /\ W \in Nat \ {0} /\ H \in Nat /\ Columns[k] \in Seq(Range(Columns[k]))
      /\ Len(Columns[k]) = W
  BY Layout
<1>2. x \in NodeTarget
  OBVIOUS
<1>3. f \in Seq(Field)
  <2>1. Columns[k] \in Seq(Range(HeadColumns[k]) \cup Range(Columns[k]))
    BY <1>1
  <2> HIDE DEF x
  <2> QED
    BY <2>1, <1>2, FieldOf
<1>4. Len(f) = W /\ \A c \in 1 .. W : f[c] = [of |-> x, col |-> Columns[k][c]]
  <2>1. /\ Len(f) = Len(Columns[k])
        /\ \A c \in 1 .. Len(Columns[k]) : f[c] = [of |-> x, col |-> Columns[k][c]]
    <3>1. AreFields(f, x, Columns[k], Range(Columns[k]))
      BY <1>1, FieldsAre
    <3> QED
      BY <3>1 DEF AreFields
  <2> HIDE DEF W, f, x
  <2> QED
    BY <2>1, <1>1
<1>5. a \in Nat /\ (n + 1) * W = a + W /\ Len(t) = H + a
      /\ \A i \in 1 .. n : (i - 1) * W \in Nat /\ (i - 1) * W + W <= a
  BY <1>1, Times DEF TextHas
<1> HIDE DEF f
<1>6. /\ u \in Seq(Field) /\ Len(u) = H + a + W
      /\ \A y \in 1 .. H + a + W : u[y] = IF y <= H + a THEN t[y] ELSE f[y - (H + a)]
  <2>1. /\ u \in Seq(Field) /\ Len(u) = Len(t) + Len(f)
        /\ \A y \in 1 .. Len(t) + Len(f) : u[y] = IF y <= Len(t) THEN t[y] ELSE f[y - Len(t)]
    BY <1>3, ConcatProperties
  <2> HIDE DEF u, a, H, W
  <2> QED
    BY <2>1, <1>4, <1>5
<1> HIDE DEF u
<1>7. ASSUME NEW i \in 1 .. n + 1, NEW c \in 1 .. W
      PROVE  u[H + (i - 1) * W + c] = [of |-> nm[i], col |-> Columns[k][c]]
  <2>1. CASE i \in 1 .. n
    <3> DEFINE b == (i - 1) * W
    <3>1. b \in Nat /\ b + W <= a
      BY <2>1, <1>5
    <3>2. t[H + b + c] = [of |-> nm[i], col |-> Columns[k][c]]
      BY <2>1 DEF TextHas
    <3> HIDE DEF a, b, H, W
    <3>3. H + b + c \in 1 .. H + a + W /\ H + b + c <= H + a
      BY <3>1, <1>1, <1>5
    <3> QED
      BY <3>2, <3>3, <1>6 DEF b
  <2>2. CASE i = n + 1
    <3>1. (i - 1) * W = a
      BY <2>2
    <3> HIDE DEF a, H, W, x
    <3>2. H + a + c \in 1 .. H + a + W /\ ~(H + a + c <= H + a) /\ (H + a + c) - (H + a) = c
      BY <1>1, <1>5
    <3>3. u[H + a + c] = f[c]
      BY <3>2, <1>6
    <3> QED
      BY <3>1, <3>3, <2>2, <1>4 DEF x
  <2> QED
    BY <2>1, <2>2
<1>8. TextHas(u, nm, k, n + 1)
  <2>1. Len(u) = Skip[k] + (n + 1) * Wide[k]
    <3> DEFINE b == (n + 1) * W
    <3>1. b = a + W
      BY <1>5
    <3>2. Len(u) = H + a + W /\ H \in Nat /\ W \in Nat /\ a \in Nat
      BY <1>1, <1>5, <1>6
    <3> HIDE DEF a, b, H, W
    <3>3. Len(u) = H + b
      BY <3>1, <3>2
    <3> QED
      BY <3>3 DEF b, H, W
  <2> QED
    BY <2>1, <1>7 DEF TextHas
<1> QED
  BY <1>6, <1>8 DEF u, f

(* A run of columns in the fields of one target.                            *)
OfTarget(g, x, k) ==
    /\ g \in Seq(Field) /\ Len(g) = Wide[k]
    /\ \A c \in 1 .. Wide[k] : g[c] = [of |-> x, col |-> Columns[k][c]]

Within(cols, a, k) ==
    /\ a + Len(cols) <= Wide[k]
    /\ \A c \in 1 .. Len(cols) : cols[c] = Columns[k][a + c]

LEMMA SameFields ==
    ASSUME NEW k \in Kind, NEW x \in NodeTarget, NEW g, OfTarget(g, x, k),
           NEW T, NEW cols \in Seq(T), NEW a \in Nat, Within(cols, a, k)
    PROVE  SubSeq(g, a + 1, a + Len(cols)) = Fields(x, cols)
<1> DEFINE l == Len(cols)
           s == SubSeq(g, a + 1, a + l)
           f == Fields(x, cols)
           W == Wide[k]
<1>1. l \in Nat /\ W \in Nat /\ a + l <= W /\ g \in Seq(Field) /\ Len(g) = W
  BY Layout DEF Within, OfTarget
<1>2. s \in Seq(Field) /\ Len(s) = l /\ \A c \in 1 .. l : s[c] = g[a + c]
  <2>1. Sliced(s, g, a, l, Field)
    <3> HIDE DEF l, W
    <3> QED
      BY <1>1, Slice
  <2> QED
    BY <2>1 DEF Sliced
<1>3. AreFields(f, x, cols, T)
  BY FieldsAre
<1> HIDE DEF s, f
<1>4. ASSUME NEW c \in 1 .. l PROVE s[c] = f[c]
  <2>1. a + c \in 1 .. Wide[k]
    <3> HIDE DEF l, W
    <3>1. a + c \in 1 .. W
      BY <1>1
    <3> QED
      BY <3>1 DEF W
  <2>2. g[a + c] = [of |-> x, col |-> Columns[k][a + c]] /\ cols[c] = Columns[k][a + c]
    BY <2>1 DEF OfTarget, Within
  <2>3. f[c] = [of |-> x, col |-> cols[c]]
    BY <1>3 DEF AreFields
  <2> QED
    BY <2>2, <2>3, <1>2
<1>5. Len(f) = l /\ DOMAIN f = 1 .. l
  BY <1>3 DEF AreFields
<1> HIDE DEF l
<1>6. f \in Seq(Field)
  <2>1. \A c \in 1 .. l : f[c] \in Field
    <3>1. \A c \in 1 .. l : s[c] \in Field
      BY <1>2
    <3> QED
      BY <3>1, <1>4
  <2>2. f \in [1 .. l -> Field]
    <3>1. f = [c \in 1 .. l |-> f[c]]
      BY <1>3, <1>5 DEF AreFields
    <3> QED
      BY <2>1, <3>1
  <2> QED
    BY <2>2, <1>1, FcnSeq
<1>7. s = f
  BY <1>2, <1>4, <1>5, <1>6, SameSeq
<1> QED
  BY <1>7 DEF s, f, l

(* The decoder's loop takes the text apart into the targets again.          *)
LEMMA GroupsAre ==
    ASSUME NEW k \in Kind, NEW t \in Seq(Field), NEW nm \in Seq(NodeTarget),
           TextHas(t, nm, k, Len(nm))
    PROVE  LET g == Groups(t, Skip[k], Wide[k])
           IN  /\ g.ok
               /\ Len(g.list) = Len(nm)
               /\ \A i \in 1 .. Len(nm) : OfTarget(g.list[i], nm[i], k)
<1> DEFINE W == Wide[k]
           H == Skip[k]
           n == Len(nm)
           a == n * W
           rest == strskip(t, H)
           list == [i \in 1 .. Len(rest) \div W |-> strskipcpy(rest, W, i)]
<1>1. W \in Nat \ {0} /\ H \in Nat /\ n \in Nat
  BY Layout
<1>2. /\ a \in Nat /\ Len(t) = H + a /\ a % W = 0 /\ a \div W = n
      /\ \A i \in 1 .. n : (i - 1) * W \in Nat /\ (i - 1) * W + W <= a
  <2>1. Len(t) = H + a
    BY DEF TextHas
  <2> HIDE DEF W, n
  <2> QED
    BY <2>1, <1>1, Times, Divides
<1>3. rest \in Seq(Field) /\ Len(rest) = a /\ \A x \in 1 .. a : rest[x] = t[H + x]
  <2> HIDE DEF a, H
  <2>1. H \in 0 .. Len(t) /\ Len(t) - H = a
    BY <1>1, <1>2
  <2>2. /\ rest \in Seq(Field) /\ Len(rest) = Len(t) - H
        /\ \A x \in 1 .. (Len(t) - H) : rest[x] = t[H + x]
    BY <2>1, WithoutFirst DEF strskip
  <2> QED
    BY <2>1, <2>2
<1> HIDE DEF rest
<1>4. /\ Groups(t, H, W).ok = (H <= Len(t) /\ Len(rest) % W = 0)
      /\ Groups(t, H, W).list = list
  BY DEF Groups, rest
<1>5. Groups(t, H, W).ok
  <2>1. H <= Len(t) /\ Len(rest) % W = 0
    <3>1. Len(rest) = a /\ a % W = 0
      BY <1>2, <1>3
    <3> HIDE DEF a, H, W
    <3>2. Len(rest) % W = 0
      BY <3>1, Zenon
    <3>3. H <= Len(t)
      BY <1>1, <1>2
    <3> QED
      BY <3>2, <3>3
  <2> QED
    BY <2>1, <1>4
<1>6. list = [i \in 1 .. n |-> strskipcpy(rest, W, i)]
  <2> HIDE DEF a, W, n
  <2> QED
    BY <1>2, <1>3
<1>7. ASSUME NEW i \in 1 .. n
      PROVE  OfTarget(list[i], nm[i], k)
  <2> DEFINE b == (i - 1) * W
             e == i * W
             g == SubSeq(rest, b + 1, e)
  <2>1. b \in Nat /\ b + W <= a /\ e = b + W
    <3>1. b \in Nat /\ b + W <= a
      BY <1>2
    <3>2. e = b + W
      BY <1>1
    <3> QED
      BY <3>1, <3>2
  <2>2. list[i] = g
    <3> HIDE DEF list
    <3> QED
      BY <1>6 DEF strskipcpy
  <2>3. \A c \in 1 .. W : t[H + b + c] = [of |-> nm[i], col |-> Columns[k][c]]
    BY DEF TextHas
  <2> HIDE DEF b, e, W, H, a, list
  <2>4. Sliced(SubSeq(rest, b + 1, b + W), rest, b, W, Field)
    BY <2>1, <1>1, <1>3, Slice
  <2>5. g \in Seq(Field) /\ Len(g) = W /\ \A c \in 1 .. W : g[c] = rest[b + c]
    BY <2>1, <2>4 DEF Sliced
  <2> HIDE DEF g
  <2>6. ASSUME NEW c \in 1 .. W PROVE g[c] = t[H + b + c]
    <3>1. b + c \in 1 .. a /\ H + (b + c) = H + b + c
      BY <2>1, <1>1, <1>2
    <3> QED
      BY <3>1, <2>5, <1>3
  <2> QED
    BY <2>2, <2>3, <2>5, <2>6 DEF OfTarget, W
<1>8. Len(list) = n
  <2> HIDE DEF n
  <2>1. list \in [1 .. n -> Seq(Field)]
    BY <1>6, <1>7 DEF OfTarget
  <2> HIDE DEF list
  <2> QED
    BY <2>1, <1>1, FcnSeq
<1> HIDE DEF list
<1> QED
  BY <1>4, <1>5, <1>7, <1>8

-----------------------------------------------------------------------------
(* The invariant.                                                           *)

LEMMA TextIs ==
    ASSUME metric \in Kind, NEW n
    PROVE  TextOf(n) <=> TextHas(text, names, metric, n)
<1>1. Len(HeadColumns[metric]) = Skip[metric] /\ Len(Columns[metric]) = Wide[metric]
  BY Layout
<1>2. TextOf(n) <=>
        /\ Len(text) = Len(HeadColumns[metric]) + n * Len(Columns[metric])
        /\ \A i \in 1 .. n : \A c \in 1 .. Len(Columns[metric]) :
              text[Len(HeadColumns[metric]) + (i - 1) * Len(Columns[metric]) + c]
                = [of |-> names[i], col |-> Columns[metric][c]]
  BY Zenon DEF TextOf
<1> QED
  BY <1>1, <1>2, Zenon DEF TextHas

(* What a sound call delivers is whole.                                     *)
LEMMA DeliversWhole == CallInv => SentIsWhole
<1> SUFFICES ASSUME CallInv, pc = "deliver" PROVE SentIsWhole
  BY DEF SentIsWhole
<1> DEFINE k == metric
           g == Groups(text, Skip[k], Wide[k])
<1>1. /\ k \in Kind /\ text \in Seq(Field) /\ names \in Seq(NodeTarget)
      /\ DOMAIN names = 1 .. Len(names)
  BY DEF CallInv, IInv, CallType
<1>2. TextHas(text, names, k, Len(names))
  <2>1. TextOf(Len(names))
    BY DEF CallInv, IInv, Calls
  <2> QED
    BY <2>1, <1>1, TextIs
<1>3. Decode(k, text) = g
  <2>1. CASE k = "ost"
    BY <2>1 DEF Decode, Skip, Wide, lmt_ost_decode_v2
  <2>2. CASE k = "mdt"
    BY <2>2 DEF Decode, Skip, Wide, lmt_mdt_decode_v1_v2_v3
  <2>3. CASE k = "osc"
    BY <2>3 DEF Decode, Skip, Wide, lmt_osc_decode_v1
  <2>4. CASE k = "router"
    BY <2>4 DEF Decode, Skip, Wide, lmt_router_decode_v1
  <2> QED
    BY <2>1, <2>2, <2>3, <2>4, <1>1 DEF Kind
<1>4. /\ g.ok
      /\ Len(g.list) = Len(names)
      /\ \A i \in 1 .. Len(names) : OfTarget(g.list[i], names[i], k)
  BY <1>1, <1>2, GroupsAre
<1> HIDE DEF g
<1>5. ASSUME NEW i \in 1 .. Len(names)
      PROVE  SubSeq(g.list[i], 1, Len(DecodedColumns[k])) = Fields(names[i], DecodedColumns[k])
  <2> DEFINE cols == DecodedColumns[k]
             r == g.list[i]
  <2>1. /\ cols \in Seq(Range(Columns[k])) /\ Len(cols) \in 1 .. Wide[k]
        /\ \A c \in 1 .. Len(cols) : cols[c] = Columns[k][c]
    BY <1>1, Layout
  <2>a. 0 + Len(cols) = Len(cols) /\ \A c \in 1 .. Len(cols) : 0 + c = c
    <3> HIDE DEF cols
    <3> QED
      BY <2>1
  <2>b. Within(cols, 0, k)
    BY <2>1, <2>a, <1>1, Layout DEF Within
  <2>2. OfTarget(r, names[i], k) /\ names[i] \in NodeTarget /\ 0 \in Nat
    BY <1>1, <1>4
  <2> HIDE DEF cols, r
  <2>3. SubSeq(r, 0 + 1, 0 + Len(cols)) = Fields(names[i], cols)
    BY <1>1, <2>1, <2>b, <2>2, SameFields
  <2>4. 0 + 1 = 1
    OBVIOUS
  <2> QED
    BY <2>a, <2>3, <2>4 DEF cols, r
<1>6. ASSUME NEW i \in 1 .. Len(names), metric = "mdt", NEW j \in DOMAIN MdtOp
      PROVE  DecodedOp(g.list[i], j) = Fields(names[i], _get_mdtop(MdtOp[j]))
  <2> DEFINE cols == _get_mdtop(MdtOp[j])
             r == g.list[i]
             a == 6 + 3 * (j - 1)
  <2>1. j \in 1 .. Len(MdtOp) /\ Len(MdtOp) \in Nat
    BY AgentAssumption
  <2>2. cols \in Seq(Range(cols)) /\ Len(cols) = 3
    <3>1. cols \in Seq({<<MdtOp[j], "count">>, <<MdtOp[j], "sum">>, <<MdtOp[j], "sumsq">>})
          /\ Len(cols) = 3
      BY DEF _get_mdtop
    <3> HIDE DEF cols
    <3> QED
      BY <3>1, OwnRange
  <2>3. /\ a \in Nat /\ 6 + 3 * j = a + 3
        /\ \A c \in 1 .. 3 : a + c \in 1 .. Wide["mdt"] /\ Columns["mdt"][a + c] = cols[c]
    <3>1. a \in Nat /\ 6 + 3 * j = a + 3
      <4>1. j \in Nat /\ j >= 1
        BY <2>1
      <4>2. \A y \in Nat : y >= 1 =>
              /\ 6 + 3 * (y - 1) \in Nat
              /\ 6 + 3 * y = (6 + 3 * (y - 1)) + 3
        OBVIOUS
      <4> QED
        BY <4>1, <4>2
    <3>2. ASSUME NEW c \in 1 .. 3
          PROVE  a + c \in 1 .. Wide["mdt"] /\ Columns["mdt"][a + c] = cols[c]
      BY <2>1, MdtLayout
    <3> QED
      BY <3>1, <3>2
  <2>4. Within(cols, a, k)
    <3> HIDE DEF a, cols
    <3>1. a + 3 \in 1 .. Wide["mdt"]
      BY <2>3
    <3>2. Wide["mdt"] \in Nat
      BY Layout DEF Kind
    <3>3. a + Len(cols) <= Wide["mdt"]
      BY <3>1, <3>2, <2>2
    <3>4. \A c \in 1 .. Len(cols) : cols[c] = Columns["mdt"][a + c]
      BY <2>2, <2>3
    <3> QED
      BY <3>3, <3>4, <1>6 DEF Within
  <2>5. OfTarget(r, names[i], k) /\ names[i] \in NodeTarget
    BY <1>1, <1>4
  <2>6. DecodedOp(r, j) = SubSeq(r, a + 1, a + Len(cols))
    <3>1. DecodedOp(r, j) = SubSeq(r, a + 1, 6 + 3 * j)
      BY DEF DecodedOp
    <3>2. 6 + 3 * j = a + Len(cols)
      <4> HIDE DEF cols, a
      <4> QED
        BY <2>2, <2>3
    <3> HIDE DEF cols, a, r
    <3> QED
      BY <3>1, <3>2
  <2> HIDE DEF cols, r, a
  <2>7. SubSeq(r, a + 1, a + Len(cols)) = Fields(names[i], cols)
    <3>1. k \in Kind /\ cols \in Seq(Range(cols)) /\ a \in Nat
      BY <1>1, <2>2, <2>3
    <3> HIDE DEF k
    <3> QED
      BY <3>1, <2>4, <2>5, SameFields
  <2> QED
    BY <2>6, <2>7 DEF cols, r
<1> QED
  BY <1>1, <1>3, <1>4, <1>5, <1>6 DEF SentIsWhole

-----------------------------------------------------------------------------
(* A call goes on, fails or delivers.                                       *)

(* The first step of a program that is not its last one.                    *)
LEMMA Tails ==
    ASSUME NEW p \in Seq(AnyStep), NEW A, NEW last, Ending(p, A, last), p[1].op # last
    PROVE  /\ p[1].op \in A
           /\ Tail(p) \in Seq(AnyStep)
           /\ Ending(Tail(p), A, last)
           /\ \A op : Has(Tail(p), op) => Has(p, op)
           /\ \A op : Has(p, op) => p[1].op = op \/ Has(Tail(p), op)
<1> DEFINE l == Len(p)
           q == Tail(p)
<1>1. /\ l \in Nat /\ p # <<>> /\ p[l].op = last
      /\ \A i \in 1 .. l - 1 : p[i].op \in A
  BY DEF Ending
<1>2. l > 1
  BY <1>1
<1>3. q \in Seq(AnyStep) /\ Len(q) = l - 1 /\ \A i \in 1 .. l - 1 : q[i] = p[i + 1]
  BY <1>1
<1> HIDE DEF l, q
<1>4. p[1].op \in A
  BY <1>1, <1>2
<1>5. Ending(q, A, last)
  <2>1. q # <<>> /\ q[Len(q)].op = last
    <3>1. l - 1 \in 1 .. l - 1 /\ (l - 1) + 1 = l
      BY <1>1, <1>2
    <3>2. q[l - 1] = p[l]
      BY <3>1, <1>3
    <3> QED
      BY <3>1, <3>2, <1>1, <1>3
  <2>2. ASSUME NEW i \in 1 .. Len(q) - 1 PROVE q[i].op \in A
    <3>1. i \in 1 .. l - 1 /\ i + 1 \in 1 .. l - 1
      BY <1>1, <1>2, <1>3
    <3> QED
      BY <3>1, <1>1, <1>3
  <2> QED
    BY <2>1, <2>2 DEF Ending
<1>6. ASSUME NEW op, Has(q, op) PROVE Has(p, op)
  <2>1. PICK i \in 1 .. l - 1 : q[i].op = op
    BY <1>3, <1>6 DEF Has
  <2>2. i + 1 \in 1 .. l
    BY <2>1, <1>1
  <2> QED
    BY <2>1, <2>2, <1>3 DEF Has, l
<1>7. ASSUME NEW op, Has(p, op), p[1].op # op PROVE Has(q, op)
  <2>1. PICK i \in 1 .. l : p[i].op = op
    BY <1>7 DEF Has, l
  <2>2. i - 1 \in 1 .. l - 1 /\ (i - 1) + 1 = i
    BY <2>1, <1>1, <1>7
  <2>3. q[i - 1].op = op
    BY <2>1, <2>2, <1>3
  <2> QED
    BY <2>2, <2>3, <1>3 DEF Has
<1> QED
  BY <1>3, <1>4, <1>5, <1>6, <1>7 DEF q

(* A call with its program p, its targets nm, d of them in the text t.      *)
Header(p, nm, d) ==
    d = 0 /\ Ending(p, HeadOps, "head") /\ (nm # <<>> \/ Has(p, "list"))

AtTarget(m, p, nm, d, t) ==
    /\ d < Len(nm) /\ TextHas(t, nm, m, d)
    /\ Ending(p, ItemOps, "encode") /\ (Has(p, "export") => m = "mdt")

LEMMA TextIsNext ==
    ASSUME metric' \in Kind, NEW n
    PROVE  TextOf(n)' <=> TextHas(text', names', metric', n)
<1>1. Len(HeadColumns[metric']) = Skip[metric'] /\ Len(Columns[metric']) = Wide[metric']
  BY Layout
<1>2. TextOf(n)' <=>
        /\ Len(text') = Len(HeadColumns[metric']) + n * Len(Columns[metric'])
        /\ \A i \in 1 .. n : \A c \in 1 .. Len(Columns[metric']) :
              text'[Len(HeadColumns[metric']) + (i - 1) * Len(Columns[metric']) + c]
                = [of |-> names'[i], col |-> Columns[metric'][c]]
  BY Zenon DEF TextOf
<1> QED
  BY <1>1, <1>2, Zenon DEF TextHas

(* A call that goes on to another step.                                     *)
LEMMA InCall ==
    ASSUME CallInv, pc = "call"
    PROVE  /\ why = "none" /\ ctx = "closed"
           /\ metric \in Kind /\ due \in Seq(Kind) /\ prog \in Seq(AnyStep)
           /\ names \in Seq(NodeTarget) /\ done \in Nat /\ text \in Seq(Field)
           /\ Header(prog, names, done) \/ AtTarget(metric, prog, names, done, text)
<1>1. /\ metric \in Kind /\ due \in Seq(Kind) /\ prog \in Seq(AnyStep)
      /\ names \in Seq(NodeTarget) /\ done \in Nat /\ text \in Seq(Field)
  BY DEF CallInv, IInv, CallType
<1>2. why = "none" /\ ctx = "closed" /\ (InHeader \/ InTarget)
  BY DEF CallInv, IInv, Calls, ContextSound
<1>3. CASE InHeader
  <2>1. Header(prog, names, done)
    BY <1>3 DEF InHeader, Header, Has
  <2> QED
    BY <2>1, <1>1, <1>2
<1>4. CASE InTarget
  <2>1. TextHas(text, names, metric, done)
    BY <1>1, <1>4, TextIs DEF InTarget
  <2>2. AtTarget(metric, prog, names, done, text)
    BY <2>1, <1>4 DEF InTarget, AtTarget, Has
  <2> QED
    BY <2>2, <1>1, <1>2
<1> QED
  BY <1>1, <1>2, <1>3, <1>4

LEMMA StillCalling ==
    ASSUME pc' = "call", why' = "none", ctx' = "closed",
           metric' \in Kind, due' \in Seq(Kind), prog' \in Seq(AnyStep),
           names' \in Seq(NodeTarget), done' \in Nat, text' \in Seq(Field),
           Header(prog', names', done') \/ AtTarget(metric', prog', names', done', text')
    PROVE  CallInv'
<1>1. CallType'
  BY DEF CallType
<1>2. InHeader' \/ InTarget'
  <2>1. CASE Header(prog', names', done')
    BY <2>1 DEF Header, InHeader, Has
  <2>2. CASE AtTarget(metric', prog', names', done', text')
    <3>1. TextOf(done)'
      BY <2>2, TextIsNext DEF AtTarget
    <3> QED
      BY <3>1, <2>2 DEF AtTarget, InTarget, Has
  <2> QED
    BY <2>1, <2>2
<1>3. Calls'
  BY <1>2 DEF Calls
<1>4. ContextSound'
  BY DEF ContextSound
<1> QED
  BY <1>1, <1>3, <1>4 DEF CallInv, IInv

(* A step that does what it is there for leaves the rest of its program;    *)
(* the step that lists the targets finds one.                               *)
Found == names' \in Seq(NodeTarget) /\ names' # <<>>

LEMMA Proceeds ==
    ASSUME CallInv, pc = "call", prog[1].op \notin {"head", "encode"},
           prog' = Tail(prog), pc' = pc, why' = why, due' = due, metric' = metric,
           done' = done, text' = text, ctx' = "closed",
           prog[1].op # "list" => names' = names,
           prog[1].op = "list" => Found
    PROVE  CallInv'
<1>1. /\ why = "none"
      /\ metric \in Kind /\ due \in Seq(Kind) /\ prog \in Seq(AnyStep)
      /\ names \in Seq(NodeTarget) /\ done \in Nat /\ text \in Seq(Field)
      /\ Header(prog, names, done) \/ AtTarget(metric, prog, names, done, text)
  BY InCall
<1>2. names' \in Seq(NodeTarget)
  BY <1>1 DEF Found
<1>3. CASE Header(prog, names, done)
  <2>1. /\ prog' \in Seq(AnyStep) /\ Ending(prog', HeadOps, "head")
        /\ Has(prog, "list") => prog[1].op = "list" \/ Has(prog', "list")
    BY <1>1, <1>3, Tails DEF Header
  <2>2. Header(prog', names', done')
    BY <2>1, <1>3 DEF Header, Found
  <2> QED
    BY <1>1, <1>2, <2>1, <2>2, StillCalling
<1>4. CASE AtTarget(metric, prog, names, done, text)
  <2>1. /\ prog[1].op \in ItemOps
        /\ prog' \in Seq(AnyStep) /\ Ending(prog', ItemOps, "encode")
        /\ Has(prog', "export") => Has(prog, "export")
    BY <1>1, <1>4, Tails DEF AtTarget
  <2>2. names' = names
    BY <2>1 DEF ItemOps
  <2>3. AtTarget(metric', prog', names', done', text')
    BY <2>1, <2>2, <1>4 DEF AtTarget
  <2> QED
    BY <1>1, <1>2, <2>1, <2>3, StillCalling
<1> QED
  BY <1>1, <1>3, <1>4

(* A call that fails is forgotten; only one of an MDT leaves a file open.   *)
LEMMA Fails ==
    ASSUME CallInv, pc = "call", Fail, due' = due, metric' = metric,
           ctx' = "closed" \/ metric = "mdt"
    PROVE  CallInv'
<1>1. why = "none" /\ metric \in Kind /\ due \in Seq(Kind)
  BY InCall
<1>2. /\ prog' = <<>> /\ names' = <<>> /\ done' = 0 /\ text' = <<>>
      /\ \/ ctx' = "closed" /\ pc' = "idle" /\ why' = "none"
         \/ metric = "mdt" /\ pc' = "aborted" /\ why' = "destroy"
  BY <1>1 DEF Fail, proc_destroy
<1>3. CallType'
  BY <1>1, <1>2 DEF CallType
<1>4. Calls'
  BY <1>2 DEF Calls
<1>5. ContextSound'
  BY <1>2 DEF ContextSound
<1>6. text' \in Seq(Field)
  BY <1>2
<1> QED
  BY <1>3, <1>4, <1>5, <1>6 DEF CallInv, IInv

(* Which steps belong to the header, and which to a target.                 *)
LEMMA First ==
    ASSUME CallInv, pc = "call"
    PROVE  /\ Header(prog, names, done) => prog[1].op \in HeadOps \cup {"head"}
           /\ AtTarget(metric, prog, names, done, text) =>
                prog[1].op \in ItemOps \cup {"encode"} /\ Has(prog, prog[1].op)
<1>1. prog \in Seq(AnyStep) /\ Len(prog) \in Nat
  BY InCall
<1>2. ASSUME NEW A, NEW last, Ending(prog, A, last)
      PROVE  prog[1].op \in A \cup {last} /\ Has(prog, prog[1].op)
  <2>1. Len(prog) >= 1
    BY <1>1, <1>2 DEF Ending
  <2>2. 1 \in 1 .. Len(prog) /\ (Len(prog) = 1 \/ 1 \in 1 .. Len(prog) - 1)
    <3> DEFINE l == Len(prog)
    <3>1. l \in Nat /\ l >= 1
      BY <2>1, <1>1
    <3> HIDE DEF l
    <3>2. 1 \in 1 .. l /\ (l = 1 \/ 1 \in 1 .. l - 1)
      BY <3>1
    <3> QED
      BY <3>2 DEF l
  <2> QED
    BY <2>2, <1>2 DEF Ending, Has
<1> QED
  BY <1>2 DEF Header, AtTarget

LEMMA AtItem ==
    ASSUME CallInv, pc = "call",
           prog[1].op \in {"stats", "exports", "export", "encode"}
    PROVE  /\ AtTarget(metric, prog, names, done, text)
           /\ prog[1].op = "export" => metric = "mdt"
<1>1. prog[1].op \notin HeadOps \cup {"head"}
  BY DEF HeadOps
<1>2. AtTarget(metric, prog, names, done, text)
  BY <1>1, First, InCall
<1>3. Has(prog, prog[1].op)
  BY <1>2, First
<1> QED
  BY <1>2, <1>3 DEF AtTarget

(* What is listed are targets of the node.                                  *)
LEMMA Targets ==
    ASSUME NEW k \in Kind
    PROVE  /\ Target[k] \in Seq(NodeTarget)
           /\ k = "router" => Len(Target[k]) = 1
<1>1. Target[k] \in Seq(Range(Target[k])) /\ (k = "router" => Len(Target[k]) = 1)
  <2>1. CASE k = "ost"
    BY <2>1, AgentAssumption DEF Target
  <2>2. CASE k = "mdt"
    BY <2>2, AgentAssumption DEF Target
  <2>3. CASE k = "osc"
    BY <2>3, AgentAssumption DEF Target
  <2>4. CASE k = "router"
    <3> DEFINE r == <<"lnet">>
    <3>1. Target[k] = r
      BY <2>4 DEF Target
    <3>2. r \in Seq({"lnet"}) /\ Len(r) = 1
      OBVIOUS
    <3> HIDE DEF r
    <3> QED
      BY <3>1, <3>2, OwnRange
  <2> QED
    BY <2>1, <2>2, <2>3, <2>4 DEF Kind
<1>2. Range(Target[k]) \subseteq NodeTarget
  BY DEF NodeTarget
<1> QED
  BY <1>1, <1>2

LEMMA ListsTargets ==
    ASSUME metric \in Kind, NEW n \in 1 .. Len(Target[metric]), NEW at \in Listed(n),
           names' = [k \in 1 .. n |-> Target[metric][at[k]]]
    PROVE  Found
<1> DEFINE t == Target[metric]
<1>1. t \in Seq(NodeTarget) /\ (metric = "router" => Len(t) = 1)
  BY Targets
<1>2. at \in [1 .. n -> Entries]
  BY DEF Listed
<1>3. Entries \subseteq 1 .. Len(t)
  <2>1. CASE metric = "router"
    BY <2>1, <1>1 DEF Entries
  <2>2. CASE metric # "router"
    <3>1. Entries \subseteq DOMAIN t
      BY <2>2 DEF Entries
    <3> HIDE DEF t
    <3> QED
      BY <3>1, <1>1
  <2> QED
    BY <2>1, <2>2
<1>4. n \in Nat \ {0}
  <2> HIDE DEF t
  <2>1. n \in 1 .. Len(t)
    BY DEF t
  <2> QED
    BY <2>1, <1>1
<1> HIDE DEF t
<1>5. ASSUME NEW k \in 1 .. n PROVE t[at[k]] \in NodeTarget
  <2>1. at[k] \in 1 .. Len(t)
    BY <1>2, <1>3
  <2> QED
    BY <2>1, <1>1
<1>6. names' \in [1 .. n -> NodeTarget]
  BY <1>5 DEF t
<1>7. names' \in Seq(NodeTarget) /\ Len(names') = n
  BY <1>4, <1>6, FcnSeq
<1> QED
  BY <1>4, <1>7 DEF Found

(* Each step of a call.                                                     *)
LEMMA HeaderSteps ==
    ASSUME CallInv,
           _read_lustre_version_string \/ ProcExists \/ _subdirlist \/ NodeUsage
    PROVE  CallInv'
<1>1. pc = "call"
  BY DEF _read_lustre_version_string, ProcExists, _subdirlist, NodeUsage, Opens
<1>2. /\ why = "none" /\ ctx = "closed"
      /\ metric \in Kind /\ due \in Seq(Kind) /\ prog \in Seq(AnyStep)
      /\ names \in Seq(NodeTarget) /\ done \in Nat /\ text \in Seq(Field)
      /\ Header(prog, names, done) \/ AtTarget(metric, prog, names, done, text)
  BY <1>1, InCall
<1>3. CASE _read_lustre_version_string
  <2>1. /\ prog[1].op = "version" /\ ctx' = "closed" /\ pc' = pc /\ why' = why
        /\ due' = due /\ metric' = metric /\ names' = names /\ done' = done
        /\ text' = text /\ (prog' = prog \/ prog' = Tail(prog))
    BY <1>3 DEF _read_lustre_version_string, Opens, proc_close, call, Locals
  <2>2. CASE prog' = prog
    BY <2>1, <2>2, <1>1, <1>2, StillCalling
  <2>3. CASE prog' = Tail(prog)
    BY <2>1, <2>3, <1>1, Proceeds
  <2> QED
    BY <2>1, <2>2, <2>3
<1>4. CASE ProcExists
  <2>1. /\ prog[1].op = "exists" /\ ctx' = "closed" /\ due' = due /\ metric' = metric
        /\ \/ Fail
           \/ /\ prog' = Tail(prog) /\ pc' = pc /\ why' = why
              /\ names' = names /\ done' = done /\ text' = text
    BY <1>2, <1>4 DEF ProcExists, Opens, Proceed, Locals
  <2>2. CASE Fail
    BY <2>1, <2>2, <1>1, Fails
  <2>3. CASE ~Fail
    BY <2>1, <2>3, <1>1, Proceeds
  <2> QED
    BY <2>2, <2>3
<1>5. CASE _subdirlist
  <2>1. /\ prog[1].op = "list" /\ ctx' = "closed" /\ due' = due /\ metric' = metric
        /\ \/ Fail
           \/ /\ prog' = Tail(prog) /\ pc' = pc /\ why' = why
              /\ done' = done /\ text' = text
              /\ \E n \in 1 .. Len(Target[metric]) : \E at \in Listed(n) :
                    names' = [k \in 1 .. n |-> Target[metric][at[k]]]
    BY <1>5 DEF _subdirlist, Opens, Proceed, proc_close
  <2>2. CASE Fail
    BY <2>1, <2>2, <1>1, Fails
  <2>3. CASE ~Fail
    <3>1. Found
      BY <2>1, <2>3, <1>2, ListsTargets
    <3> QED
      BY <3>1, <2>1, <2>3, <1>1, Proceeds
  <2> QED
    BY <2>2, <2>3
<1>6. CASE NodeUsage
  <2>1. /\ prog[1].op = "node" /\ ctx' = "closed" /\ due' = due /\ metric' = metric
        /\ \/ Fail
           \/ /\ prog' = Tail(prog) /\ pc' = pc /\ why' = why
              /\ names' = names /\ done' = done /\ text' = text
    BY <1>6 DEF NodeUsage, Opens, Proceed, Locals, proc_close
  <2>2. CASE Fail
    BY <2>1, <2>2, <1>1, Fails
  <2>3. CASE ~Fail
    BY <2>1, <2>3, <1>1, Proceeds
  <2> QED
    BY <2>2, <2>3
<1> QED
  BY <1>3, <1>4, <1>5, <1>6

LEMMA ReadSteps ==
    ASSUME CallInv, ReadFile \/ ReadLdlm \/ ReadBrwStats \/ proc_lustre_mdt_exportlist
    PROVE  CallInv'
<1>1. /\ pc = "call" /\ prog[1].op \in {"read", "ldlm", "optional", "exports"}
      /\ ctx' = "closed" /\ due' = due /\ metric' = metric
      /\ \/ Fail
         \/ /\ prog' = Tail(prog) /\ pc' = pc /\ why' = why
            /\ names' = names /\ done' = done /\ text' = text
  <2>1. CASE ReadFile
    BY <2>1 DEF ReadFile, Opens, Proceed, Locals, proc_close
  <2>2. CASE ReadLdlm
    BY <2>2 DEF ReadLdlm, Opens, Proceed, Locals, proc_close
  <2>3. CASE ReadBrwStats
    BY <2>3 DEF ReadBrwStats, Opens, Proceed, call, Locals, proc_close
  <2>4. CASE proc_lustre_mdt_exportlist
    BY <2>4 DEF proc_lustre_mdt_exportlist, Opens, Proceed, proc_close
  <2> QED
    BY <2>1, <2>2, <2>3, <2>4
<1>2. CASE Fail
  BY <1>1, <1>2, Fails
<1>3. CASE ~Fail
  BY <1>1, <1>3, Proceeds
<1> QED
  BY <1>2, <1>3

(* The statistics.  For an old server the steps over the exports are put    *)
(* in front of what is left; a missing file is an assertion that fails.     *)
LEMMA StatsStep ==
    ASSUME CallInv, proc_lustre_hashstats
    PROVE  CallInv'
<1>1. pc = "call" /\ prog[1].op = "stats" /\ due' = due /\ metric' = metric
  BY DEF proc_lustre_hashstats, Opens
<1>2. /\ why = "none" /\ ctx = "closed"
      /\ metric \in Kind /\ due \in Seq(Kind) /\ prog \in Seq(AnyStep)
      /\ names \in Seq(NodeTarget) /\ done \in Nat /\ text \in Seq(Field)
      /\ AtTarget(metric, prog, names, done, text)
  BY <1>1, InCall, AtItem
<1>3. \/ Fail /\ ctx' = "closed"
      \/ /\ ctx' = "closed" /\ pc' = pc /\ why' = why
         /\ names' = names /\ done' = done /\ text' = text
         /\ \/ prog' = Tail(prog)
            \/ prog' = Aggregate \o Tail(prog) /\ metric = "mdt"
      \/ /\ pc' = "aborted" /\ why' = "gets" /\ prog' = prog /\ ctx' = ctx
         /\ names' = names /\ done' = done /\ text' = text
  <2> DEFINE Reads(lines) ==
               LET h == _hash_stats(hash_create, lines)
                   old == metric = "mdt" /\ lv = "2.0"
               IN  /\ raw' = [stats |-> lines, exports |-> <<>>]
                   /\ stats' = IF old THEN h ELSE Rekeyed(h)
                   /\ prog' = IF old THEN Aggregate \o Tail(prog) ELSE Tail(prog)
  <2>1. ASSUME NEW lines, Reads(lines)
        PROVE  prog' = Tail(prog) \/ (prog' = Aggregate \o Tail(prog) /\ metric = "mdt")
    BY <2>1
  <2>2. \/ /\ ctx' = "closed" /\ \E lines \in StatsFile : Reads(lines)
           /\ UNCHANGED <<env, pc, why, names, done, half, path, lv, exports, text, used>>
        \/ pc' = "aborted" /\ why' = "gets" /\ UNCHANGED <<env, prog, ctx, stats, Locals>>
        \/ ctx' = "closed" /\ Fail
    BY DEF proc_lustre_hashstats, proc_close
  <2> HIDE DEF Reads
  <2> QED
    BY <2>1, <2>2 DEF Locals
<1>4. CASE Fail /\ ctx' = "closed"
  BY <1>1, <1>4, Fails
<1>5. CASE /\ prog' = Tail(prog) /\ ctx' = "closed" /\ pc' = pc /\ why' = why
           /\ names' = names /\ done' = done /\ text' = text
  BY <1>1, <1>5, Proceeds
<1>6. CASE /\ prog' = Aggregate \o Tail(prog) /\ metric = "mdt"
           /\ ctx' = "closed" /\ pc' = pc /\ why' = why
           /\ names' = names /\ done' = done /\ text' = text
  <2>1. Tail(prog) \in Seq(AnyStep) /\ Ending(Tail(prog), ItemOps, "encode")
    BY <1>1, <1>2, Tails DEF AtTarget
  <2>2. prog' \in Seq(AnyStep) /\ Ending(prog', ItemOps, "encode")
    BY <2>1, <1>6, Aggregates
  <2>3. AtTarget(metric', prog', names', done', text')
    BY <2>2, <1>1, <1>2, <1>6 DEF AtTarget
  <2> QED
    BY <2>2, <2>3, <1>1, <1>2, <1>6, StillCalling
<1>7. CASE /\ pc' = "aborted" /\ why' = "gets" /\ prog' = prog /\ ctx' = ctx
           /\ names' = names /\ done' = done /\ text' = text
  <2>1. CallType' /\ text' \in Seq(Field)
    BY <1>1, <1>2, <1>7 DEF CallType
  <2>2. Calls' /\ ContextSound'
    BY <1>7 DEF Calls, ContextSound
  <2> QED
    BY <2>1, <2>2 DEF CallInv, IInv
<1> QED
  BY <1>3, <1>4, <1>5, <1>6, <1>7

(* An export's file that cannot be read is left open: the only way that     *)
(* proc_destroy finds something open, and only for an MDT.                  *)
LEMMA ExportStep ==
    ASSUME CallInv, _aggregate_mdt_export_stats
    PROVE  CallInv'
<1>1. pc = "call" /\ prog[1].op = "export" /\ due' = due /\ metric' = metric
  BY DEF _aggregate_mdt_export_stats, Opens
<1>2. /\ why = "none"
      /\ metric \in Kind /\ due \in Seq(Kind) /\ prog \in Seq(AnyStep)
      /\ names \in Seq(NodeTarget) /\ done \in Nat /\ text \in Seq(Field)
      /\ AtTarget(metric, prog, names, done, text) /\ metric = "mdt"
  BY <1>1, InCall, AtItem
<1>3. \/ Fail
      \/ /\ ctx' = "closed" /\ pc' = pc /\ why' = why
         /\ names' = names /\ done' = done /\ text' = text
         /\ prog' = Tail(prog) \/ prog' = prog
  BY DEF _aggregate_mdt_export_stats, proc_close, Proceed
<1>4. CASE Fail
  BY <1>1, <1>2, <1>4, Fails
<1>5. CASE /\ prog' = Tail(prog) /\ ctx' = "closed" /\ pc' = pc /\ why' = why
           /\ names' = names /\ done' = done /\ text' = text
  BY <1>1, <1>5, Proceeds
<1>6. CASE /\ prog' = prog /\ ctx' = "closed" /\ pc' = pc /\ why' = why
           /\ names' = names /\ done' = done /\ text' = text
  BY <1>1, <1>2, <1>6, StillCalling
<1> QED
  BY <1>3, <1>4, <1>5, <1>6

(* After the header: the text of no target, and at least one to come.       *)
LEMMA HeadStep ==
    ASSUME CallInv, PrintHead
    PROVE  CallInv'
<1>1. /\ pc = "call" /\ prog[1].op = "head" /\ due' = due /\ metric' = metric
      /\ text' = Fields("node", HeadColumns[metric]) /\ prog' = Item[metric]
      /\ pc' = pc /\ why' = why /\ ctx' = ctx /\ names' = names /\ done' = done
  BY DEF PrintHead
<1>2. /\ why = "none" /\ ctx = "closed"
      /\ metric \in Kind /\ due \in Seq(Kind) /\ prog \in Seq(AnyStep)
      /\ names \in Seq(NodeTarget) /\ done \in Nat
      /\ Header(prog, names, done) \/ AtTarget(metric, prog, names, done, text)
  BY <1>1, InCall
<1>3. Header(prog, names, done)
  <2>1. prog[1].op \notin ItemOps \cup {"encode"}
    BY <1>1 DEF ItemOps
  <2> QED
    BY <2>1, <1>1, <1>2, First
<1>4. names # <<>>
  <2> DEFINE l == Len(prog)
  <2>1. l \in Nat /\ l >= 1
    BY <1>2, <1>3 DEF Header, Ending
  <2>2. \A i \in 1 .. l - 1 : prog[i].op \in HeadOps
    BY <1>3 DEF Header, Ending
  <2> HIDE DEF l
  <2>3. l = 1
    <3>1. "head" \notin HeadOps
      BY DEF HeadOps
    <3> QED
      BY <3>1, <2>1, <2>2, <1>1
  <2>4. ~Has(prog, "list")
    BY <2>3, <1>1 DEF Has, l
  <2> QED
    BY <2>4, <1>3 DEF Header
<1>5. /\ text' \in Seq(Field) /\ Len(text') = Skip[metric]
  <2>1. /\ HeadColumns[metric] \in Seq(Range(HeadColumns[metric]))
        /\ Len(HeadColumns[metric]) = Skip[metric]
    BY <1>2, Layout
  <2>2. HeadColumns[metric] \in Seq(Range(HeadColumns[metric]) \cup Range(Columns[metric]))
    BY <2>1
  <2>3. AreFields(text', "node", HeadColumns[metric], Range(HeadColumns[metric]))
    BY <2>1, <1>1, FieldsAre
  <2>4. text' \in Seq(Field)
    BY <2>2, <1>1, <1>2, FieldOf
  <2> QED
    BY <2>1, <2>3, <2>4 DEF AreFields
<1>6. TextHas(text', names, metric, 0)
  <2>1. Skip[metric] + 0 * Wide[metric] = Skip[metric] /\ 1 .. 0 = {}
    <3>1. Skip[metric] \in Nat /\ Wide[metric] \in Nat
      BY <1>2, Layout
    <3> QED
      BY <3>1
  <2> QED
    BY <2>1, <1>5 DEF TextHas
<1>7. /\ Item[metric] \in Seq(AnyStep) /\ Ending(Item[metric], ItemOps, "encode")
      /\ ~Has(Item[metric], "export")
  BY <1>2, Items DEF Has
<1>8. done = 0 /\ 0 < Len(names)
  BY <1>2, <1>3, <1>4 DEF Header
<1>9. AtTarget(metric', prog', names', done', text')
  BY <1>1, <1>6, <1>7, <1>8 DEF AtTarget
<1> QED
  BY <1>1, <1>2, <1>5, <1>7, <1>9, StillCalling

(* After a target: the next one, or the whole text is delivered.            *)
LEMMA EncodeStep ==
    ASSUME CallInv, Encode
    PROVE  CallInv'
<1>1. /\ pc = "call" /\ prog[1].op = "encode" /\ due' = due /\ metric' = metric
      /\ ctx' = ctx
  BY DEF Encode
<1>2. /\ why = "none" /\ ctx = "closed"
      /\ metric \in Kind /\ due \in Seq(Kind)
      /\ names \in Seq(NodeTarget) /\ done \in Nat /\ text \in Seq(Field)
      /\ AtTarget(metric, prog, names, done, text)
  BY <1>1, InCall, AtItem
<1>3. CASE Fail
  BY <1>1, <1>2, <1>3, Fails
<1>4. CASE ~Fail
  <2>1. /\ text' = text \o Fields(names[done + 1], Columns[metric])
        /\ done' = done + 1 /\ names' = names
        /\ IF done + 1 < Len(names)
           THEN prog' = Item[metric] /\ pc' = pc /\ why' = why
           ELSE proc_destroy("deliver")
    BY <1>4 DEF Encode, Current
  <2>2. done < Len(names) /\ TextHas(text, names, metric, done) /\ Len(names) \in Nat
    BY <1>2 DEF AtTarget
  <2>3. text' \in Seq(Field) /\ TextHas(text', names', metric', done')
    BY <2>1, <2>2, <1>1, <1>2, TextGrows
  <2>4. done' \in Nat
    BY <2>1, <1>2
  <2>5. CASE done + 1 < Len(names)
    <3>1. /\ Item[metric] \in Seq(AnyStep) /\ Ending(Item[metric], ItemOps, "encode")
          /\ ~Has(Item[metric], "export")
      BY <1>2, Items DEF Has
    <3>2. AtTarget(metric', prog', names', done', text')
      BY <3>1, <2>1, <2>3, <2>5 DEF AtTarget
    <3> QED
      BY <3>1, <3>2, <2>1, <2>3, <2>4, <2>5, <1>1, <1>2, StillCalling
  <2>6. CASE ~(done + 1 < Len(names))
    <3>1. pc' = "deliver" /\ why' = "none" /\ prog' = <<>> /\ ctx' = "closed"
      BY <2>1, <2>6, <1>1, <1>2 DEF proc_destroy
    <3>2. done' = Len(names')
      BY <2>1, <2>2, <2>6, <1>2
    <3>3. TextOf(done)'
      BY <2>3, <1>1, <1>2, TextIsNext
    <3>4. CallType'
      BY <3>1, <2>1, <2>4, <1>1, <1>2 DEF CallType
    <3>5. Calls' /\ ContextSound'
      BY <3>1, <3>2, <3>3 DEF Calls, ContextSound
    <3> QED
      BY <3>4, <3>5, <2>3 DEF CallInv, IInv
  <2> QED
    BY <2>5, <2>6
<1> QED
  BY <1>3, <1>4

LEMMA StepSound ==
    ASSUME CallInv, Step
    PROVE  CallInv'
BY HeaderSteps, ReadSteps, StatsStep, ExportStep, HeadStep, EncodeStep DEF Step

LEMMA CerebrodSound ==
    ASSUME CallInv, Cerebrod
    PROVE  CallInv'
<1>1. /\ metric \in Kind /\ due \in Seq(Kind) /\ prog \in Seq(AnyStep)
      /\ names \in Seq(NodeTarget) /\ done \in Nat /\ text \in Seq(Field)
  BY DEF CallInv, IInv, CallType
<1>2. CASE Period
  <2>1. /\ pc = "idle" /\ pc' = pc /\ why' = why /\ prog' = prog /\ ctx' = ctx
        /\ metric' = metric /\ names' = names /\ done' = done /\ text' = text
        /\ due' = Turn
    BY <1>2 DEF Period, call, Locals
  <2>2. Turn \in Seq(Kind)
    BY DEF Turn, Kind
  <2>3. CallType' /\ text' \in Seq(Field)
    BY <2>1, <2>2, <1>1 DEF CallType
  <2>4. Calls' /\ ContextSound'
    BY <2>1 DEF CallInv, IInv, Calls, ContextSound
  <2> QED
    BY <2>3, <2>4 DEF CallInv, IInv
<1>3. CASE _get_metric_value
  <2>1. /\ pc = "idle" /\ due # <<>> /\ due' = Tail(due) /\ pc' = "call"
        /\ metric' = due[1] /\ prog' = Begin[due[1]] /\ why' = why /\ ctx' = ctx
        /\ names' = names /\ done' = done /\ text' = text
    BY <1>3 DEF _get_metric_value, Locals
  <2>2. due[1] \in Kind /\ Tail(due) \in Seq(Kind)
    BY <2>1, <1>1
  <2>3. why = "none" /\ ctx = "closed" /\ done = 0
    BY <2>1 DEF CallInv, IInv, Calls, ContextSound
  <2>4. prog' \in Seq(AnyStep) /\ Header(prog', names', done')
    BY <2>1, <2>2, <2>3, Headers DEF Header
  <2> QED
    BY <2>1, <2>2, <2>3, <2>4, <1>1, StillCalling
<1>4. CASE _destroy_metric_value
  <2>1. /\ pc = "deliver" /\ pc' = "idle" /\ due' = due /\ why' = why /\ prog' = prog
        /\ ctx' = ctx /\ metric' = metric
        /\ names' = <<>> /\ done' = 0 /\ text' = <<>>
    BY <1>4 DEF _destroy_metric_value
  <2>2. CallType' /\ text' \in Seq(Field)
    BY <2>1, <1>1 DEF CallType
  <2>3. Calls' /\ ContextSound'
    BY <2>1 DEF CallInv, IInv, Calls, ContextSound
  <2> QED
    BY <2>2, <2>3 DEF CallInv, IInv
<1> QED
  BY <1>2, <1>3, <1>4 DEF Cerebrod

(* The node changes under a call without touching what the call holds.      *)
LEMMA NodeSound ==
    ASSUME CallInv, UNCHANGED agent
    PROVE  CallInv'
<1>1. /\ due' = due /\ pc' = pc /\ why' = why /\ prog' = prog /\ ctx' = ctx
      /\ metric' = metric /\ names' = names /\ done' = done /\ text' = text
  BY DEF agent, call, Locals
<1>2. \A n : TextOf(n)' <=> TextOf(n)
  BY <1>1, Zenon DEF TextOf
<1>3. CallType' /\ text' \in Seq(Field)
  BY <1>1 DEF CallInv, IInv, CallType
<1>4. InHeader' <=> InHeader
  BY <1>1, Zenon DEF InHeader
<1>5. InTarget' <=> InTarget
  BY <1>1, <1>2, Zenon DEF InTarget
<1>6. Calls' /\ ContextSound'
  BY <1>1, <1>2, <1>4, <1>5 DEF CallInv, IInv, Calls, ContextSound
<1> QED
  BY <1>3, <1>6 DEF CallInv, IInv

-----------------------------------------------------------------------------
(* Theorems.                                                                *)

(* A call is always in its header or at a target, with the text of the      *)
(* targets before it and a program that ends with the next text.            *)
THEOREM Inductive == Spec => []CallInv
<1>1. Init => CallInv
  <2> SUFFICES ASSUME Init PROVE CallInv
    OBVIOUS
  <2>1. /\ due = Turn /\ pc = "idle" /\ why = "none" /\ metric = "ost" /\ prog = <<>>
        /\ names = <<>> /\ done = 0 /\ ctx = "closed" /\ text = <<>>
    BY DEF Init
  <2>2. Turn \in Seq(Kind) /\ "ost" \in Kind
    BY DEF Turn, Kind
  <2>3. CallType /\ text \in Seq(Field)
    BY <2>1, <2>2 DEF CallType
  <2>4. Calls /\ ContextSound
    BY <2>1 DEF Calls, ContextSound
  <2> QED
    BY <2>3, <2>4 DEF CallInv, IInv
<1>2. CallInv /\ [Next]_vars => CallInv'
  <2> SUFFICES ASSUME CallInv, [Next]_vars PROVE CallInv'
    OBVIOUS
  <2>1. CASE Step
    BY <2>1, StepSound
  <2>2. CASE Cerebrod
    BY <2>2, CerebrodSound
  <2>3. CASE Environment
    <3>1. UNCHANGED agent
      BY <2>3 DEF Environment, Mount, Umount, Unload, Load, SetRouting, Grow, Change
    <3> QED
      BY <3>1, NodeSound
  <2>4. CASE UNCHANGED vars
    <3>1. UNCHANGED agent
      BY <2>4 DEF vars, agent
    <3> QED
      BY <3>1, NodeSound
  <2> QED
    BY <2>1, <2>2, <2>3, <2>4 DEF Next
<1> QED
  BY <1>1, <1>2, PTL DEF Spec

(* What cerebrod sends decodes to exactly the targets that were listed when *)
(* the call began, each with every column where the decoder looks for it.   *)
THEOREM MetricsWhole == Spec => []SentIsWhole
BY Inductive, DeliversWhole, PTL

(* proc_open never finds a file open, and proc_destroy only after an export *)
(* of an MDT could not be read.                                             *)
THEOREM ContextClosed == Spec => []ContextSound
<1>1. CallInv => ContextSound
  BY DEF CallInv, IInv
<1> QED
  BY <1>1, Inductive, PTL

-----------------------------------------------------------------------------
(* Hash tables.  Of the chain in one slot: its first node with a key in ks, *)
(* or that there is none.                                                   *)

HashNode == [hkey : Seq(Nat), data : Nat]
NodeOf(k, v) == [hkey |-> k, data |-> v]

Leads(c, ks, n) ==
    \E i \in 1 .. Len(c) : /\ c[i] = n /\ n.hkey \in ks
                           /\ \A j \in 1 .. i - 1 : c[j].hkey \notin ks

Without(c, ks) == \A i \in 1 .. Len(c) : c[i].hkey \notin ks

\* No key twice.
ChainOk(c) ==
    /\ c \in Seq(HashNode)
    /\ \A i, j \in 1 .. Len(c) : c[i].hkey = c[j].hkey => i = j

\* d is c but for the node of a key; what it has for others is the same.
Keeps(c, d, key) ==
    \A ks : key \notin ks => /\ Without(c, ks) => Without(d, ks)
                           /\ \A n : Leads(c, ks, n) => Leads(d, ks, n)

\* d has the value v for the key, in front of everything else.
Stored(c, d, key, v) ==
    /\ ChainOk(d)
    /\ Keeps(c, d, key)
    /\ \A ks : key \in ks => Leads(d, ks, NodeOf(key, v))

(* The place where the loops over a chain stop.                             *)
LEMMA MatchIs ==
    ASSUME NEW c \in Seq(HashNode), NEW key, ~Without(c, {key})
    PROVE  /\ Matches(c, key) # {}
           /\ FirstMatch(c, key) \in 1 .. Len(c)
           /\ c[FirstMatch(c, key)].hkey = key
           /\ \A j \in 1 .. FirstMatch(c, key) - 1 : c[j].hkey # key
<1>1. DOMAIN c = 1 .. Len(c) /\ Len(c) \in Nat
  OBVIOUS
<1>2. PICK m : m = Matches(c, key)
  OBVIOUS
<1>3. m = {i \in 1 .. Len(c) : c[i].hkey = key}
  BY <1>1, <1>2 DEF Matches
<1>4. m # {} /\ m \in SUBSET Nat
  BY <1>3 DEF Without
<1>5. \E i \in m : \A j \in m : i <= j
  BY <1>4, Least
<1>6. PICK f : f = FirstMatch(c, key)
  OBVIOUS
<1>7. f \in m /\ \A j \in m : f <= j
  BY <1>2, <1>5, <1>6, Zenon DEF FirstMatch
<1>8. ASSUME NEW j \in 1 .. f - 1 PROVE c[j].hkey # key
  <2>1. j \in 1 .. Len(c) /\ ~(f <= j)
    BY <1>1, <1>3, <1>7
  <2> QED
    BY <2>1, <1>3, <1>7
<1> QED
  BY <1>2, <1>3, <1>4, <1>6, <1>7, <1>8

(* A chain without a key has no node that matches it.                       *)
LEMMA NoMatch ==
    ASSUME NEW c \in Seq(HashNode), NEW key, Without(c, {key})
    PROVE  Matches(c, key) = {}
BY DEF Matches, Without

(* hash_find finds the node in front.                                       *)
LEMMA FindIs ==
    ASSUME NEW h, NEW key, NEW c \in Seq(HashNode), c = h.table[slot(key)]
    PROVE  /\ Without(c, {key}) => hash_find(h, key) = NULL
           /\ \A n : Leads(c, {key}, n) => hash_find(h, key) = n.data /\ n \in HashNode
           /\ ~Without(c, {key}) => \E n : Leads(c, {key}, n)
<1>1. ASSUME Without(c, {key}) PROVE hash_find(h, key) = NULL
  BY <1>1, NoMatch DEF hash_find
<1>2. ASSUME ~Without(c, {key})
      PROVE  \E i \in 1 .. Len(c) :
               /\ hash_find(h, key) = c[i].data /\ c[i].hkey = key
               /\ \A j \in 1 .. i - 1 : c[j].hkey # key
  <2>1. PICK f : f = FirstMatch(c, key)
    OBVIOUS
  <2>2. /\ Matches(c, key) # {} /\ f \in 1 .. Len(c) /\ c[f].hkey = key
        /\ \A j \in 1 .. f - 1 : c[j].hkey # key
    BY <2>1, <1>2, MatchIs
  <2>3. hash_find(h, key) = c[f].data
    BY <2>1, <2>2 DEF hash_find
  <2> QED
    BY <2>2, <2>3
<1>3. ASSUME NEW n, Leads(c, {key}, n)
      PROVE  hash_find(h, key) = n.data /\ n \in HashNode
  <2>1. PICK i \in 1 .. Len(c) : /\ c[i] = n /\ n.hkey = key
                                 /\ \A j \in 1 .. i - 1 : c[j].hkey # key
    BY <1>3 DEF Leads
  <2>2. ~Without(c, {key})
    BY <2>1 DEF Without
  <2>3. PICK f \in 1 .. Len(c) : /\ hash_find(h, key) = c[f].data /\ c[f].hkey = key
                                 /\ \A j \in 1 .. f - 1 : c[j].hkey # key
    BY <2>2, <1>2
  <2>4. i = f
    <3>1. ~(i < f) /\ ~(f < i)
      BY <2>1, <2>3
    <3> QED
      BY <3>1
  <2> QED
    BY <2>1, <2>3, <2>4
<1>4. ASSUME ~Without(c, {key}) PROVE \E n : Leads(c, {key}, n)
  <2>1. PICK f \in 1 .. Len(c) : /\ c[f].hkey = key
                                 /\ \A j \in 1 .. f - 1 : c[j].hkey # key
    BY <1>2, <1>4
  <2>2. Leads(c, {key}, c[f])
    BY <2>1 DEF Leads
  <2> QED
    BY <2>2
<1> QED
  BY <1>1, <1>3, <1>4

(* A chain without one of its nodes.                                        *)
LEMMA CutNode ==
    ASSUME NEW c, ChainOk(c), NEW k \in 1 .. Len(c), NEW key, key = c[k].hkey,
           NEW d, d = Rem(c, k)
    PROVE  ChainOk(d) /\ Without(d, {key}) /\ Keeps(c, d, key)
<1>1. /\ c \in Seq(HashNode) /\ Len(c) \in Nat
      /\ \A i, j \in 1 .. Len(c) : c[i].hkey = c[j].hkey => i = j
  BY DEF ChainOk
<1>2. d \in Seq(HashNode) /\ Len(d) = Len(c) - 1
  BY <1>1, CutOut
<1>3. ASSUME NEW j \in 1 .. Len(d) PROVE d[j] = IF j < k THEN c[j] ELSE c[j + 1]
  BY <1>2 DEF Rem
<1>4. ASSUME NEW i \in 1 .. Len(d), NEW j \in 1 .. Len(d), d[i].hkey = d[j].hkey
      PROVE  i = j
  <2>1. PICK a \in 1 .. Len(c) : a = IF i < k THEN i ELSE i + 1
    BY <1>1, <1>2
  <2>2. PICK b \in 1 .. Len(c) : b = IF j < k THEN j ELSE j + 1
    BY <1>1, <1>2
  <2>3. d[i] = c[a] /\ d[j] = c[b]
    BY <1>3, <2>1, <2>2
  <2>4. a = b
    BY <1>1, <1>4, <2>3
  <2> QED
    BY <2>1, <2>2, <2>4
<1>5. Without(d, {key})
  <2> SUFFICES ASSUME NEW j \in 1 .. Len(d), d[j].hkey = key PROVE FALSE
    BY DEF Without
  <2>1. PICK b \in 1 .. Len(c) : b = (IF j < k THEN j ELSE j + 1) /\ b # k
    BY <1>1, <1>2
  <2>2. d[j] = c[b]
    BY <1>3, <2>1
  <2> QED
    BY <1>1, <2>1, <2>2
<1>6. Keeps(c, d, key)
  <2> SUFFICES ASSUME NEW ks, key \notin ks
               PROVE  /\ Without(c, ks) => Without(d, ks)
                      /\ \A n : Leads(c, ks, n) => Leads(d, ks, n)
    BY DEF Keeps
  <2>1. ASSUME Without(c, ks) PROVE Without(d, ks)
    <3> SUFFICES ASSUME NEW j \in 1 .. Len(d) PROVE d[j].hkey \notin ks
      BY DEF Without
    <3>1. PICK b \in 1 .. Len(c) : b = IF j < k THEN j ELSE j + 1
      BY <1>1, <1>2
    <3>2. d[j] = c[b]
      BY <1>3, <3>1
    <3> QED
      BY <2>1, <3>2 DEF Without
  <2>2. ASSUME NEW n, Leads(c, ks, n) PROVE Leads(d, ks, n)
    <3>1. PICK i \in 1 .. Len(c) : /\ c[i] = n /\ n.hkey \in ks
                                   /\ \A j \in 1 .. i - 1 : c[j].hkey \notin ks
      BY <2>2 DEF Leads
    <3>2. i # k
      BY <3>1
    <3>3. PICK a \in 1 .. Len(d) : a = IF i < k THEN i ELSE i - 1
      BY <1>1, <1>2, <3>2
    <3>4. d[a] = c[i]
      BY <1>1, <1>3, <3>2, <3>3
    <3>5. ASSUME NEW j \in 1 .. a - 1 PROVE d[j].hkey \notin ks
      <4>1. PICK b \in 1 .. i - 1 : b = IF j < k THEN j ELSE j + 1
        BY <1>1, <1>2, <3>2, <3>3
      <4>2. j \in 1 .. Len(d) /\ d[j] = c[b]
        BY <1>2, <1>3, <3>3, <4>1
      <4> QED
        BY <3>1, <4>2
    <3> QED
      BY <3>1, <3>4, <3>5 DEF Leads
  <2> QED
    BY <2>1, <2>2
<1> QED
  BY <1>2, <1>4, <1>5, <1>6 DEF ChainOk

(* A chain with a node more, in front.                                      *)
LEMMA PutFirst ==
    ASSUME NEW c, ChainOk(c), NEW key \in Seq(Nat), NEW v \in Nat, Without(c, {key}),
           NEW d, d = <<NodeOf(key, v)>> \o c
    PROVE  Stored(c, d, key, v)
<1>1. /\ c \in Seq(HashNode) /\ Len(c) \in Nat
      /\ \A i, j \in 1 .. Len(c) : c[i].hkey = c[j].hkey => i = j
  BY DEF ChainOk
<1>2. PICK e : e = NodeOf(key, v)
  OBVIOUS
<1>3. e \in HashNode /\ e.hkey = key
  BY <1>2 DEF NodeOf, HashNode
<1>4. /\ d \in Seq(HashNode) /\ Len(d) = Len(c) + 1 /\ d[1] = e
      /\ \A j \in 2 .. Len(c) + 1 : d[j] = c[j - 1]
  BY <1>1, <1>2, <1>3
<1>5. \A j \in 1 .. Len(c) : c[j].hkey # key
  BY DEF Without
<1>6. ASSUME NEW i \in 1 .. Len(d), NEW j \in 1 .. Len(d), d[i].hkey = d[j].hkey
      PROVE  i = j
  <2>1. CASE i = 1
    <3>1. j # 1 => j - 1 \in 1 .. Len(c) /\ d[j] = c[j - 1]
      BY <1>1, <1>4
    <3> QED
      BY <1>3, <1>4, <1>5, <1>6, <2>1, <3>1
  <2>2. CASE j = 1
    <3>1. i # 1 => i - 1 \in 1 .. Len(c) /\ d[i] = c[i - 1]
      BY <1>1, <1>4
    <3> QED
      BY <1>3, <1>4, <1>5, <1>6, <2>2, <3>1
  <2>3. CASE i # 1 /\ j # 1
    <3>1. /\ i - 1 \in 1 .. Len(c) /\ d[i] = c[i - 1]
          /\ j - 1 \in 1 .. Len(c) /\ d[j] = c[j - 1]
      BY <1>1, <1>4, <2>3
    <3>2. i - 1 = j - 1
      BY <1>1, <1>6, <3>1
    <3> QED
      BY <3>2
  <2> QED
    BY <2>1, <2>2, <2>3
<1>7. ASSUME NEW ks, key \notin ks
      PROVE  /\ Without(c, ks) => Without(d, ks)
             /\ \A n : Leads(c, ks, n) => Leads(d, ks, n)
  <2>1. ASSUME Without(c, ks) PROVE Without(d, ks)
    <3> SUFFICES ASSUME NEW j \in 1 .. Len(d) PROVE d[j].hkey \notin ks
      BY DEF Without
    <3>1. j # 1 => j - 1 \in 1 .. Len(c) /\ d[j] = c[j - 1]
      BY <1>1, <1>4
    <3> QED
      BY <1>3, <1>4, <1>7, <2>1, <3>1 DEF Without
  <2>2. ASSUME NEW n, Leads(c, ks, n) PROVE Leads(d, ks, n)
    <3>1. PICK i \in 1 .. Len(c) : /\ c[i] = n /\ n.hkey \in ks
                                   /\ \A j \in 1 .. i - 1 : c[j].hkey \notin ks
      BY <2>2 DEF Leads
    <3>2. PICK a \in 1 .. Len(d) : a = i + 1 /\ d[a] = c[i]
      BY <1>1, <1>4
    <3>3. ASSUME NEW j \in 1 .. a - 1 PROVE d[j].hkey \notin ks
      <4>1. j # 1 => j - 1 \in 1 .. i - 1 /\ d[j] = c[j - 1]
        BY <1>1, <1>4, <3>2
      <4> QED
        BY <1>3, <1>4, <1>7, <3>1, <4>1
    <3> QED
      BY <3>1, <3>2, <3>3 DEF Leads
  <2> QED
    BY <2>1, <2>2
<1>8. ASSUME NEW ks, key \in ks PROVE Leads(d, ks, e)
  <2>1. 1 \in 1 .. Len(d) /\ 1 .. 1 - 1 = {}
    BY <1>1, <1>4
  <2> QED
    BY <2>1, <1>3, <1>4, <1>8 DEF Leads
<1> QED
  BY <1>2, <1>4, <1>6, <1>7, <1>8 DEF Stored, ChainOk, Keeps

HasSlots(h) == DOMAIN h.table = Slot

\* What a call on the table h for a key leaves in the slot s of g.
Inserted(h, g, s, key, v) ==
    /\ HasSlots(g)
    /\ slot(key) # s => g.table[s] = h.table[s]
    /\ /\ slot(key) = s /\ ChainOk(h.table[s]) /\ Without(h.table[s], {key})
       /\ key \in Seq(Nat) /\ v \in Nat
       => Stored(h.table[s], g.table[s], key, v)

Removed(h, g, s, key) ==
    /\ HasSlots(g)
    /\ slot(key) # s => g.table[s] = h.table[s]
    /\ slot(key) = s /\ ChainOk(h.table[s])
         => /\ ChainOk(g.table[s]) /\ Without(g.table[s], {key})
            /\ Keeps(h.table[s], g.table[s], key)

Set(h, g, s, key, v) ==
    /\ HasSlots(g)
    /\ slot(key) # s => g.table[s] = h.table[s]
    /\ slot(key) = s => Stored(h.table[s], g.table[s], key, v)

(* hash_insert and hash_remove, in the slot of the key and in others.       *)
LEMMA InsertIs ==
    ASSUME NEW h, HasSlots(h), NEW s \in Slot, NEW key, NEW v,
           NEW g, g = hash_insert(h, key, v)
    PROVE  Inserted(h, g, s, key, v)
<1>1. PICK t : t = slot(key)
  OBVIOUS
<1>2. \/ g = h
      \/ g.table = [h.table EXCEPT ![t] = <<NodeOf(key, v)>> \o @]
  BY <1>1 DEF hash_insert, NodeOf
<1>3. HasSlots(g) /\ (t # s => g.table[s] = h.table[s])
  BY <1>2 DEF HasSlots
<1>4. ASSUME t = s, ChainOk(h.table[s]), key \in Seq(Nat), v \in Nat,
             Without(h.table[s], {key})
      PROVE  Stored(h.table[s], g.table[s], key, v)
  <2>1. PICK c : c = h.table[s]
    OBVIOUS
  <2>2. Matches(c, key) = {}
    BY <1>4, <2>1, NoMatch DEF ChainOk
  <2>3. g.table = [h.table EXCEPT ![s] = <<NodeOf(key, v)>> \o @]
    BY <1>1, <1>4, <2>1, <2>2 DEF hash_insert, NodeOf
  <2>4. g.table[s] = <<NodeOf(key, v)>> \o c
    BY <2>1, <2>3 DEF HasSlots
  <2> QED
    BY <1>4, <2>1, <2>4, PutFirst
<1> QED
  BY <1>1, <1>3, <1>4 DEF Inserted

(* hash_remove cuts the first node of its key out of one slot, if there is  *)
(* one, and changes no other slot.                                          *)
LEMMA RemoveIs ==
    ASSUME NEW h, HasSlots(h), NEW s \in Slot, NEW key, NEW g, g = hash_remove(h, key)
    PROVE  Removed(h, g, s, key)
<1>1. PICK t : t = slot(key)
  OBVIOUS
<1>2. PICK c : c = h.table[t]
  OBVIOUS
<1>3. PICK k : k = FirstMatch(c, key)
  OBVIOUS
<1>4. PICK d : d = SubSeq(c, 1, k - 1) \o SubSeq(c, k + 1, Len(c))
  OBVIOUS
<1>5. g = IF Matches(c, key) = {} THEN h
          ELSE [table |-> [h.table EXCEPT ![t] = d], count |-> h.count - 1]
  BY <1>1, <1>2, <1>3, <1>4 DEF hash_remove
<1>6. HasSlots(g) /\ (t # s => g.table[s] = h.table[s])
  BY <1>5 DEF HasSlots
<1>7. ASSUME t = s, ChainOk(c)
      PROVE  /\ ChainOk(g.table[s]) /\ Without(g.table[s], {key})
             /\ Keeps(c, g.table[s], key)
  <2>1. CASE Without(c, {key})
    <3>1. g = h
      BY <1>5, <1>7, <2>1, NoMatch DEF ChainOk
    <3>2. Keeps(c, c, key)
      BY DEF Keeps
    <3> QED
      BY <1>2, <1>7, <2>1, <3>1, <3>2
  <2>2. CASE ~Without(c, {key})
    <3>1. /\ Matches(c, key) # {} /\ k \in 1 .. Len(c) /\ c[k].hkey = key
      BY <1>3, <1>7, <2>2, MatchIs DEF ChainOk
    <3>2. g.table[s] = d
      BY <1>5, <1>7, <3>1 DEF HasSlots
    <3>3. d = Rem(c, k)
      BY <1>4, <1>7, <3>1, CutOut DEF ChainOk
    <3> QED
      BY <1>7, <3>1, <3>2, <3>3, CutNode
  <2> QED
    BY <2>1, <2>2
<1> QED
  BY <1>1, <1>2, <1>6, <1>7 DEF Removed

(* An insertion after a removal sets the value of a key.                    *)
LEMMA Replaced ==
    ASSUME NEW h, NEW e, NEW g, NEW s \in Slot, NEW key \in Seq(Nat),
           NEW v, v \in Nat \/ slot(key) # s, ChainOk(h.table[s]),
           HasSlots(e), slot(key) # s => e.table[s] = h.table[s],
           slot(key) = s => /\ ChainOk(e.table[s]) /\ Without(e.table[s], {key})
                            /\ Keeps(h.table[s], e.table[s], key),
           Inserted(e, g, s, key, v)
    PROVE  Set(h, g, s, key, v)
<1>1. HasSlots(g) /\ (slot(key) # s => g.table[s] = h.table[s])
  BY DEF Inserted
<1>2. ASSUME slot(key) = s PROVE Stored(h.table[s], g.table[s], key, v)
  <2>1. Stored(e.table[s], g.table[s], key, v) /\ Keeps(h.table[s], e.table[s], key)
    BY <1>2 DEF Inserted
  <2>2. Keeps(e.table[s], g.table[s], key)
    BY <2>1 DEF Stored
  <2>3. Keeps(h.table[s], g.table[s], key)
    BY <2>1, <2>2, Zenon DEF Keeps
  <2> QED
    BY <2>1, <2>3 DEF Stored
<1> QED
  BY <1>1, <1>2 DEF Set

(* One line of a statistics file: the last one wins,                        *)
LEMMA StatsRound ==
    ASSUME NULL \notin Nat,
           NEW h, HasSlots(h), NEW s \in Slot, ChainOk(h.table[s]),
           NEW key \in Seq(Nat), NEW v \in Nat,
           NEW g, g = _hash_insert_lastinwins(h, key, v)
    PROVE  Set(h, g, s, key, v)
<1>1. PICK e : e = hash_remove(h, key)
  OBVIOUS
<1>2. /\ HasSlots(e)
      /\ slot(key) # s => e.table[s] = h.table[s]
      /\ slot(key) = s => /\ ChainOk(e.table[s]) /\ Without(e.table[s], {key})
                          /\ Keeps(h.table[s], e.table[s], key)
  <2>1. Removed(h, e, s, key)
    BY <1>1, RemoveIs
  <2> QED
    BY <2>1 DEF Removed
<1>3. CASE hash_find(h, key) = NULL
  <2>1. g = hash_insert(h, key, v)
    BY <1>3 DEF _hash_insert_lastinwins
  <2>2. ASSUME slot(key) = s PROVE Without(h.table[s], {key})
    <3> SUFFICES ASSUME ~Without(h.table[s], {key}) PROVE FALSE
      OBVIOUS
    <3>1. PICK n : Leads(h.table[s], {key}, n)
      BY <2>2, FindIs DEF ChainOk
    <3>2. hash_find(h, key) = n.data /\ n \in HashNode
      BY <2>2, <3>1, FindIs DEF ChainOk
    <3> QED
      BY <1>3, <3>2 DEF HashNode
  <2>3. Inserted(h, g, s, key, v)
    BY <2>1, InsertIs
  <2> QED
    BY <2>2, <2>3 DEF Inserted, Set
<1>4. CASE hash_find(h, key) # NULL
  <2>1. g = hash_insert(e, key, v)
    BY <1>1, <1>4 DEF _hash_insert_lastinwins
  <2>2. Inserted(e, g, s, key, v)
    BY <2>1, <1>2, InsertIs
  <2> QED
    BY <1>2, <2>2, Replaced
<1> QED
  BY <1>3, <1>4

(* and one line of an export: the value is added.                           *)
LEMMA AddRound ==
    ASSUME NEW h, HasSlots(h), NEW s \in Slot, ChainOk(h.table[s]),
           NEW key \in Seq(Nat), NEW v, v \in Nat \/ slot(key) # s,
           NEW g, g = hash_insert(hash_remove(h, key), key, v)
    PROVE  Set(h, g, s, key, v)
<1>1. PICK e : e = hash_remove(h, key)
  OBVIOUS
<1>2. /\ HasSlots(e)
      /\ slot(key) # s => e.table[s] = h.table[s]
      /\ slot(key) = s => /\ ChainOk(e.table[s]) /\ Without(e.table[s], {key})
                          /\ Keeps(h.table[s], e.table[s], key)
  <2>1. Removed(h, e, s, key)
    BY <1>1, RemoveIs
  <2> QED
    BY <2>1 DEF Removed
<1>3. Inserted(e, g, s, key, v)
  BY <1>1, <1>2, InsertIs
<1> QED
  BY <1>2, <1>3, Replaced

-----------------------------------------------------------------------------
(* Files: sequences of lines.                                               *)

Line == [key : Seq(Nat), val : Nat]

(* The last line that names one of the keys.                                *)
LEMMA LastIs ==
    ASSUME NEW f \in Seq(Line), NEW ks, Naming(f, ks) # {}
    PROVE  \E i \in 1 .. Len(f) : /\ LastOf(f, ks) = f[i] /\ f[i].key \in ks
                                  /\ \A j \in Naming(f, ks) : j <= i
<1>1. PICK m : m = Naming(f, ks)
  OBVIOUS
<1>2. m = {i \in 1 .. Len(f) : f[i].key \in ks} /\ Len(f) \in Nat
  BY <1>1 DEF Naming
<1>3. m \in SUBSET Nat /\ m # {} /\ \A j \in m : j <= Len(f)
  BY <1>1, <1>2
<1>4. \E i \in m : \A j \in m : j <= i
  BY <1>2, <1>3, Greatest
<1>5. PICK i : i = CHOOSE k \in m : \A j \in m : j <= k
  OBVIOUS
<1>6. i \in m /\ \A j \in m : j <= i
  BY <1>4, <1>5, Zenon
<1>7. LastOf(f, ks) = f[i]
  BY <1>1, <1>5 DEF LastOf
<1> QED
  BY <1>1, <1>2, <1>6, <1>7

(* One more line is the last one, or changes nothing.                       *)
OneMore(f, g, l, ks) ==
    /\ l.key \in ks => Naming(g, ks) # {} /\ LastOf(g, ks) = l
    /\ l.key \notin ks =>
         /\ (Naming(g, ks) = {}) <=> (Naming(f, ks) = {})
         /\ Naming(f, ks) # {} => LastOf(g, ks) = LastOf(f, ks)

(* One more line at the end of a file: it is the last one that names its    *)
(* key, and any other key is named where it was.                            *)
LEMMA NamingMore ==
    ASSUME NEW f \in Seq(Line), NEW l \in Line, NEW ks,
           NEW g, g = Append(f, l)
    PROVE  OneMore(f, g, l, ks)
<1>1. /\ g \in Seq(Line) /\ Len(g) = Len(f) + 1 /\ Len(f) \in Nat /\ g[Len(f) + 1] = l
      /\ \A i \in 1 .. Len(f) : g[i] = f[i]
  OBVIOUS
<1>2. /\ Naming(g, ks) = {i \in 1 .. Len(f) + 1 : g[i].key \in ks}
      /\ Naming(f, ks) = {i \in 1 .. Len(f) : f[i].key \in ks}
  BY <1>1 DEF Naming
<1>3. CASE l.key \in ks
  <2>1. Len(f) + 1 \in Naming(g, ks)
    BY <1>1, <1>2, <1>3
  <2>2. PICK i \in 1 .. Len(g) : /\ LastOf(g, ks) = g[i]
                                 /\ \A j \in Naming(g, ks) : j <= i
    BY <1>1, <2>1, LastIs
  <2>3. i = Len(f) + 1
    <3>1. Len(f) + 1 <= i
      BY <2>1, <2>2
    <3> QED
      BY <3>1, <1>1
  <2> QED
    BY <1>1, <1>3, <2>1, <2>2, <2>3 DEF OneMore
<1>4. CASE l.key \notin ks
  <2>1. Naming(g, ks) = Naming(f, ks)
    <3>1. ASSUME NEW i \in 1 .. Len(f) + 1
          PROVE  g[i].key \in ks <=> (i \in 1 .. Len(f) /\ f[i].key \in ks)
      <4>1. i = Len(f) + 1 \/ i \in 1 .. Len(f)
        BY <1>1
      <4>2. Len(f) + 1 \notin 1 .. Len(f)
        BY <1>1
      <4> QED
        BY <1>1, <1>4, <4>1, <4>2
    <3>2. 1 .. Len(f) \subseteq 1 .. Len(f) + 1
      BY <1>1
    <3> QED
      BY <1>2, <3>1, <3>2
  <2>2. ASSUME Naming(f, ks) # {} PROVE LastOf(g, ks) = LastOf(f, ks)
    <3>1. PICK i \in 1 .. Len(f) : /\ LastOf(f, ks) = f[i] /\ f[i].key \in ks
                                   /\ \A j \in Naming(f, ks) : j <= i
      BY <2>2, LastIs
    <3>2. PICK k \in 1 .. Len(g) : /\ LastOf(g, ks) = g[k] /\ g[k].key \in ks
                                   /\ \A j \in Naming(g, ks) : j <= k
      BY <1>1, <2>1, <2>2, LastIs
    <3>3. i \in Naming(f, ks) /\ k \in Naming(g, ks)
      BY <1>1, <1>2, <3>1, <3>2
    <3>4. i = k
      BY <1>1, <2>1, <3>1, <3>2, <3>3
    <3> QED
      BY <1>1, <3>1, <3>2, <3>4
  <2> QED
    BY <1>4, <2>1, <2>2 DEF OneMore
<1> QED
  BY <1>3, <1>4

(* What the last line says.                                                 *)
LEMMA LastType ==
    ASSUME NEW f \in Seq(Line), NEW ks
    PROVE  /\ LastValue(f, ks) \in Nat
           /\ Naming(f, ks) # {} => /\ LastOf(f, ks) \in Line /\ LastOf(f, ks).key \in ks
                                    /\ LastValue(f, ks) = LastOf(f, ks).val
<1>1. CASE Naming(f, ks) = {}
  BY <1>1 DEF LastValue
<1>2. CASE Naming(f, ks) # {}
  <2>1. PICK i \in 1 .. Len(f) : LastOf(f, ks) = f[i] /\ f[i].key \in ks
    BY <1>2, LastIs
  <2>2. LastOf(f, ks) \in Line /\ LastOf(f, ks).key \in ks
    BY <2>1
  <2>3. LastOf(f, ks).val \in Nat
    BY <2>2 DEF Line
  <2>4. LastValue(f, ks) = LastOf(f, ks).val
    BY <1>2 DEF LastValue
  <2> QED
    BY <2>2, <2>3, <2>4
<1> QED
  BY <1>1, <1>2

-----------------------------------------------------------------------------
(* Loops.  All of them go once through a sequence; what one round makes of  *)
(* the state a for the element l:                                           *)

Round(loop, key, a, l) ==
    IF loop = "hash" THEN ((31 + 1) * a + l) % Word
    ELSE IF loop = "sum" THEN a + (IF l.key = key THEN l.val ELSE 0)
    ELSE IF loop = "stats" THEN _hash_insert_lastinwins(a, l.key, l.val)
    ELSE IF l.key = SnapshotTime THEN a
    ELSE hash_insert(hash_remove(a, l.key), l.key, proc_lustre_parsestat(a, l.key) + l.val)

Runs(loop, key, f, a, q, n) ==
    /\ f = [i \in 0 .. n |-> f[i]]
    /\ f[0] = a
    /\ \A i \in 1 .. n : f[i] = Round(loop, key, f[i - 1], q[i])

(* The states of a loop exist,                                              *)
LEMMA RunsExist ==
    ASSUME NEW loop, NEW key, NEW a, NEW q, NEW n \in Nat
    PROVE  \E f : Runs(loop, key, f, a, q, n)
<1> DEFINE Bad == {l \in Nat : ~\E f : Runs(loop, key, f, a, q, l)}
<1>1. Bad = {}
  <2> SUFFICES ASSUME Bad # {} PROVE FALSE
    OBVIOUS
  <2>1. PICK l \in Bad : \A h \in Bad : l <= h
    <3>1. Bad \in SUBSET Nat
      OBVIOUS
    <3> HIDE DEF Bad
    <3> QED
      BY <3>1, Least
  <2>2. l # 0
    <3>1. PICK f : f = [i \in 0 .. 0 |-> a]
      OBVIOUS
    <3>2. f = [i \in 0 .. 0 |-> f[i]] /\ f[0] = a /\ 1 .. 0 = {}
      BY <3>1
    <3>3. Runs(loop, key, f, a, q, 0)
      BY <3>2 DEF Runs
    <3> QED
      BY <3>3
  <2>3. l - 1 \in Nat /\ ~(l <= l - 1)
    BY <2>2
  <2>4. PICK f : Runs(loop, key, f, a, q, l - 1)
    BY <2>1, <2>3
  <2>5. PICK e : e = Round(loop, key, f[l - 1], q[l])
    OBVIOUS
  <2>6. PICK g : g = [i \in 0 .. l |-> IF i = l THEN e ELSE f[i]]
    OBVIOUS
  <2>7. g = [i \in 0 .. l |-> g[i]]
    BY <2>6
  <2>8. g[0] = a
    <3>1. 0 \in 0 .. l /\ 0 # l
      BY <2>2
    <3> QED
      BY <2>4, <2>6, <3>1 DEF Runs
  <2>9. ASSUME NEW i \in 1 .. l PROVE g[i] = Round(loop, key, g[i - 1], q[i])
    <3>1. i - 1 \in 0 .. l /\ i - 1 # l /\ i \in 0 .. l
      OBVIOUS
    <3>2. g[i - 1] = f[i - 1]
      BY <2>6, <3>1
    <3>3. CASE i = l
      BY <2>5, <2>6, <3>1, <3>2, <3>3
    <3>4. CASE i # l
      <4>1. i \in 1 .. l - 1 /\ g[i] = f[i]
        BY <2>6, <3>1, <3>4
      <4> QED
        BY <2>4, <3>2, <4>1 DEF Runs
    <3> QED
      BY <3>3, <3>4
  <2>10. Runs(loop, key, g, a, q, l)
    BY <2>7, <2>8, <2>9 DEF Runs
  <2> QED
    BY <2>1, <2>10
<1> QED
  BY <1>1

Same(q, r, m) == \A i \in 1 .. m : q[i] = r[i]

(* and are the same for the same elements.                                  *)
LEMMA RunsAlike ==
    ASSUME NEW loop, NEW key, NEW a, NEW q, NEW r, NEW m \in Nat, NEW n \in Nat, m <= n,
           Same(q, r, m), NEW f, Runs(loop, key, f, a, q, m), NEW g, Runs(loop, key, g, a, r, n)
    PROVE  f[m] = g[m]
<1>0. \A i \in 1 .. m : q[i] = r[i]
  BY DEF Same
<1> DEFINE Bad == {i \in 0 .. m : f[i] # g[i]}
<1>1. Bad = {}
  <2> SUFFICES ASSUME Bad # {} PROVE FALSE
    OBVIOUS
  <2>1. PICK l \in Bad : \A h \in Bad : l <= h
    <3>1. Bad \in SUBSET Nat
      OBVIOUS
    <3> HIDE DEF Bad
    <3> QED
      BY <3>1, Least
  <2>2. l # 0
    BY DEF Runs
  <2>3. /\ l \in 1 .. m /\ l \in 1 .. n /\ l - 1 \in 0 .. m /\ ~(l <= l - 1)
    BY <2>2
  <2>4. f[l - 1] = g[l - 1]
    BY <2>1, <2>3
  <2>5. f[l] = Round(loop, key, f[l - 1], q[l]) /\ g[l] = Round(loop, key, g[l - 1], r[l])
    BY <2>3 DEF Runs
  <2> QED
    BY <1>0, <2>1, <2>3, <2>4, <2>5
<1>2. m \in 0 .. m
  OBVIOUS
<1> QED
  BY <1>1, <1>2

(* Adding up the values of a key.                                           *)
LEMMA SumRuns ==
    ASSUME NEW f \in Seq(Line), NEW key
    PROVE  \E g : Runs("sum", key, g, 0, f, Len(f)) /\ SumOf(f, key) = g[Len(f)]
<1> DEFINE Sums(g) == g = [i \in 0 .. Len(f) |->
                             IF i = 0 THEN 0
                             ELSE g[i - 1] + (IF f[i].key = key THEN f[i].val ELSE 0)]
<1>1. ASSUME NEW g PROVE Sums(g) <=> Runs("sum", key, g, 0, f, Len(f))
  <2>1. Len(f) \in Nat
    OBVIOUS
  <2>2. ASSUME Sums(g) PROVE Runs("sum", key, g, 0, f, Len(f))
    BY <2>1, <2>2 DEF Runs, Round
  <2>3. ASSUME Runs("sum", key, g, 0, f, Len(f)) PROVE Sums(g)
    <3>1. ASSUME NEW i \in 0 .. Len(f)
          PROVE  g[i] = IF i = 0 THEN 0
                        ELSE g[i - 1] + (IF f[i].key = key THEN f[i].val ELSE 0)
      <4>1. g[0] = 0
        BY <2>3 DEF Runs
      <4>2. ASSUME i # 0 PROVE g[i] = Round("sum", key, g[i - 1], f[i])
        BY <2>1, <2>3, <4>2 DEF Runs
      <4>3. CASE i # 0
        BY <4>2, <4>3 DEF Round
      <4> QED
        BY <4>1, <4>3
    <3>2. g = [i \in 0 .. Len(f) |-> g[i]]
      BY <2>3 DEF Runs
    <3> QED
      BY <3>1, <3>2
  <2> QED
    BY <2>2, <2>3
<1>2. SumOf(f, key) = (CHOOSE g : Sums(g))[Len(f)]
  BY DEF SumOf
<1>3. \E g : Sums(g)
  <2>1. Len(f) \in Nat
    OBVIOUS
  <2> HIDE DEF Sums
  <2> QED
    BY <1>1, <2>1, RunsExist
<1> HIDE DEF Sums
<1>4. Sums(CHOOSE g : Sums(g))
  BY <1>3, Zenon
<1> QED
  BY <1>1, <1>2, <1>4

(* The sum of a key's counts in a file, line by line.                       *)
LEMMA SumIs ==
    ASSUME NEW f \in Seq(Line), NEW key
    PROVE  /\ SumOf(f, key) \in Nat
           /\ Naming(f, {key}) = {} => SumOf(f, key) = 0
           /\ \A l \in Line : SumOf(Append(f, l), key) =
                                 SumOf(f, key) + (IF l.key = key THEN l.val ELSE 0)
<1>1. PICK g : Runs("sum", key, g, 0, f, Len(f)) /\ SumOf(f, key) = g[Len(f)]
  BY SumRuns
<1>2. Len(f) \in Nat
  OBVIOUS
<1>3. ASSUME NEW i \in 1 .. Len(f)
      PROVE  g[i] = g[i - 1] + (IF f[i].key = key THEN f[i].val ELSE 0)
  BY <1>1 DEF Runs, Round
<1>4. g[0] = 0
  BY <1>1 DEF Runs
<1>5. \A i \in 0 .. Len(f) : g[i] \in Nat /\ (Naming(f, {key}) = {} => g[i] = 0)
  <2> DEFINE Good(i) == g[i] \in Nat /\ (Naming(f, {key}) = {} => g[i] = 0)
             Bad == {i \in 0 .. Len(f) : ~Good(i)}
  <2> SUFFICES ASSUME Bad # {} PROVE FALSE
    OBVIOUS
  <2>1. PICK l \in Bad : \A h \in Bad : l <= h
    <3>1. Bad \in SUBSET Nat
      OBVIOUS
    <3> HIDE DEF Bad
    <3> QED
      BY <3>1, Least
  <2>2. l # 0
    BY <1>4
  <2>3. l \in 1 .. Len(f) /\ l - 1 \in 0 .. Len(f) /\ ~(l <= l - 1)
    BY <1>2, <2>2
  <2>4. Good(l - 1)
    BY <2>1, <2>3
  <2>5. f[l].val \in Nat /\ (Naming(f, {key}) = {} => f[l].key # key)
    <3>1. f[l] \in Line /\ DOMAIN f = 1 .. Len(f)
      BY <2>3
    <3>2. f[l].val \in Nat
      BY <3>1 DEF Line
    <3>3. f[l].key = key => l \in Naming(f, {key})
      BY <2>3, <3>1 DEF Naming
    <3> QED
      BY <3>2, <3>3
  <2>6. g[l] = g[l - 1] + (IF f[l].key = key THEN f[l].val ELSE 0)
    BY <1>3, <2>3
  <2>7. g[l] \in Nat /\ (Naming(f, {key}) = {} => g[l] = 0)
    <3>1. PICK b : b = g[l - 1]
      OBVIOUS
    <3>2. PICK w : w = f[l].val
      OBVIOUS
    <3>3. /\ b \in Nat /\ w \in Nat /\ g[l] = b + (IF f[l].key = key THEN w ELSE 0)
          /\ Naming(f, {key}) = {} => b = 0 /\ f[l].key # key
      BY <2>4, <2>5, <2>6, <3>1, <3>2
    <3> HIDE DEF Good, Bad
    <3>4. CASE f[l].key = key
      <4>1. g[l] = b + w /\ Naming(f, {key}) # {}
        BY <3>3, <3>4
      <4>2. b + w \in Nat
        BY <3>3
      <4> QED
        BY <4>1, <4>2
    <3>5. CASE f[l].key # key
      <4>1. g[l] = b
        <5>1. g[l] = b + 0
          BY <3>3, <3>5
        <5> QED
          BY <3>3, <5>1
      <4> QED
        BY <3>3, <4>1
    <3> QED
      BY <3>4, <3>5
  <2> QED
    BY <2>1, <2>7
<1>6. ASSUME NEW l \in Line
      PROVE  SumOf(Append(f, l), key) = SumOf(f, key) + (IF l.key = key THEN l.val ELSE 0)
  <2>1. PICK e : e = Append(f, l)
    OBVIOUS
  <2>2. /\ e \in Seq(Line) /\ Len(e) = Len(f) + 1 /\ e[Len(f) + 1] = l
        /\ \A i \in 1 .. Len(f) : f[i] = e[i]
    BY <2>1
  <2>3. PICK u : Runs("sum", key, u, 0, e, Len(e)) /\ SumOf(e, key) = u[Len(e)]
    BY <2>2, SumRuns
  <2>4. g[Len(f)] = u[Len(f)]
    <3>1. PICK m, n : m = Len(f) /\ n = Len(e)
      OBVIOUS
    <3>2. m \in Nat /\ n \in Nat /\ m <= n /\ Same(f, e, m)
      BY <1>2, <2>2, <3>1 DEF Same
    <3>3. Runs("sum", key, g, 0, f, m) /\ Runs("sum", key, u, 0, e, n)
      BY <1>1, <2>3, <3>1
    <3>4. g[m] = u[m]
      BY <3>2, <3>3, RunsAlike
    <3> QED
      BY <3>1, <3>4
  <2>5. u[Len(f) + 1] = u[Len(f)] + (IF l.key = key THEN l.val ELSE 0)
    <3>1. Len(f) + 1 \in 1 .. Len(e) /\ (Len(f) + 1) - 1 = Len(f)
      BY <1>2, <2>2
    <3> QED
      BY <2>2, <2>3, <3>1 DEF Runs, Round
  <2> QED
    BY <1>1, <1>2, <2>1, <2>2, <2>3, <2>4, <2>5
<1>7. SumOf(f, key) \in Nat /\ (Naming(f, {key}) = {} => SumOf(f, key) = 0)
  <2>1. Len(f) \in 0 .. Len(f)
    BY <1>2
  <2> QED
    BY <1>1, <1>5, <2>1
<1> QED
  BY <1>6, <1>7

-----------------------------------------------------------------------------
(* What a chain of the statistics hash says of the lines q of a statistics  *)
(* file and m of the exports that went into it, for the keys K.             *)

SumFor(q, m, key) == LastValue(q, {key}) + SumOf(m, key)

Chained(c, q, m, ks) ==
    /\ Naming(m, ks) # {} =>
         Leads(c, ks, NodeOf(LastOf(m, ks).key, SumFor(q, m, LastOf(m, ks).key)))
    /\ Naming(m, ks) = {} /\ Naming(q, ks) # {} =>
         Leads(c, ks, NodeOf(LastOf(q, ks).key, LastOf(q, ks).val))
    /\ Naming(m, ks) = {} /\ Naming(q, ks) = {} => Without(c, ks)

Sound(c, q, m, K) == \A ks \in SUBSET K : Chained(c, q, m, ks)

InFront(d, key, v) == \A ks : key \in ks => Leads(d, ks, NodeOf(key, v))

(* A line of the statistics file is taken in,                               *)
LEMMA SoundStats ==
    ASSUME NEW q \in Seq(Line), NEW l \in Line, NEW e, e = Append(q, l), NEW K,
           NEW c, Sound(c, q, <<>>, K), NEW d, Keeps(c, d, l.key),
           l.key \in K => InFront(d, l.key, l.val)
    PROVE  Sound(d, e, <<>>, K)
<1> SUFFICES ASSUME NEW ks \in SUBSET K PROVE Chained(d, e, <<>>, ks)
  BY DEF Sound
<1>0. OneMore(q, e, l, ks)
  BY NamingMore
<1>1. Chained(c, q, <<>>, ks) /\ Naming(<<>>, ks) = {}
  BY DEF Sound, Naming
<1>2. CASE l.key \in ks
  <2>1. Naming(e, ks) # {} /\ LastOf(e, ks) = l
    BY <1>2, <1>0 DEF OneMore
  <2>2. Leads(d, ks, NodeOf(l.key, l.val))
    BY <1>2 DEF InFront
  <2> QED
    BY <1>1, <2>1, <2>2 DEF Chained
<1>3. CASE l.key \notin ks
  <2>1. /\ (Naming(e, ks) = {}) <=> (Naming(q, ks) = {})
        /\ Naming(q, ks) # {} => LastOf(e, ks) = LastOf(q, ks)
    BY <1>3, <1>0 DEF OneMore
  <2>2. /\ Without(c, ks) => Without(d, ks)
        /\ \A n : Leads(c, ks, n) => Leads(d, ks, n)
    BY <1>3 DEF Keeps
  <2> QED
    BY <1>1, <2>1, <2>2 DEF Chained
<1> QED
  BY <1>2, <1>3

(* or one of an export.                                                     *)
LEMMA SoundAdd ==
    ASSUME NEW q \in Seq(Line), NEW m \in Seq(Line), NEW l \in Line,
           NEW e, e = Append(m, l), NEW K,
           NEW c, Sound(c, q, m, K), NEW d, Keeps(c, d, l.key),
           l.key \in K => InFront(d, l.key, SumFor(q, m, l.key) + l.val)
    PROVE  Sound(d, q, e, K)
<1> SUFFICES ASSUME NEW ks \in SUBSET K PROVE Chained(d, q, e, ks)
  BY DEF Sound
<1>0. OneMore(m, e, l, ks)
  BY NamingMore
<1>1. Chained(c, q, m, ks)
  BY DEF Sound
<1>2. CASE l.key \in ks
  <2>1. Naming(e, ks) # {} /\ LastOf(e, ks) = l
    BY <1>2, <1>0 DEF OneMore
  <2>2. Leads(d, ks, NodeOf(l.key, SumFor(q, m, l.key) + l.val))
    BY <1>2 DEF InFront
  <2>3. SumFor(q, m, l.key) + l.val = SumFor(q, e, l.key)
    <3>1. SumOf(e, l.key) = SumOf(m, l.key) + l.val /\ SumOf(m, l.key) \in Nat
      <4>1. SumOf(e, l.key) = SumOf(m, l.key) + (IF l.key = l.key THEN l.val ELSE 0)
        BY SumIs
      <4>2. SumOf(m, l.key) \in Nat
        BY SumIs
      <4> QED
        BY <4>1, <4>2
    <3>2. LastValue(q, {l.key}) \in Nat
      BY LastType
    <3>3. l.val \in Nat
      BY DEF Line
    <3> QED
      BY <3>1, <3>2, <3>3 DEF SumFor
  <2> QED
    BY <2>1, <2>2, <2>3 DEF Chained
<1>3. CASE l.key \notin ks
  <2>1. /\ (Naming(e, ks) = {}) <=> (Naming(m, ks) = {})
        /\ Naming(m, ks) # {} => LastOf(e, ks) = LastOf(m, ks)
    BY <1>3, <1>0 DEF OneMore
  <2>2. /\ Without(c, ks) => Without(d, ks)
        /\ \A n : Leads(c, ks, n) => Leads(d, ks, n)
    BY <1>3 DEF Keeps
  <2>3. ASSUME Naming(m, ks) # {}
        PROVE  SumFor(q, e, LastOf(m, ks).key) = SumFor(q, m, LastOf(m, ks).key)
    <3>1. PICK k : k = LastOf(m, ks).key
      OBVIOUS
    <3>2. k \in ks
      BY <2>3, <3>1, LastType
    <3>3. SumOf(e, k) = SumOf(m, k) + (IF l.key = k THEN l.val ELSE 0)
      BY SumIs
    <3>4. SumOf(m, k) \in Nat
      BY SumIs
    <3>5. SumOf(e, k) = SumOf(m, k)
      BY <1>3, <3>2, <3>3, <3>4
    <3> QED
      BY <3>1, <3>5 DEF SumFor
  <2> QED
    BY <1>1, <2>1, <2>2, <2>3 DEF Chained
<1> QED
  BY <1>2, <1>3

(* Such a chain gives a key its value.                                      *)
LEMMA SoundFind ==
    ASSUME NULL \notin Nat, NEW q \in Seq(Line), NEW m \in Seq(Line), NEW K, NEW k \in K,
           NEW h, NEW c \in Seq(HashNode), c = h.table[slot(k)], Sound(c, q, m, K)
    PROVE  proc_lustre_parsestat(h, k) = SumFor(q, m, k) /\ SumFor(q, m, k) \in Nat
<1>1. Chained(c, q, m, {k})
  BY DEF Sound
<1>2. LastValue(q, {k}) \in Nat /\ SumOf(m, k) \in Nat
  BY LastType, SumIs
<1>3. SumFor(q, m, k) \in Nat
  BY <1>2 DEF SumFor
<1>4. ASSUME NEW v \in Nat, Leads(c, {k}, NodeOf(k, v)) PROVE proc_lustre_parsestat(h, k) = v
  <2>1. hash_find(h, k) = NodeOf(k, v).data
    BY <1>4, FindIs
  <2>2. hash_find(h, k) = v
    BY <2>1 DEF NodeOf
  <2> QED
    BY <2>2 DEF proc_lustre_parsestat
<1>5. CASE Naming(m, {k}) # {}
  <2>a. /\ LastValue(m, {k}) \in Nat
        /\ Naming(m, {k}) # {} => /\ LastOf(m, {k}) \in Line /\ LastOf(m, {k}).key \in {k}
                                  /\ LastValue(m, {k}) = LastOf(m, {k}).val
    BY LastType, Zenon
  <2>1. LastOf(m, {k}).key = k
    BY <1>5, <2>a
  <2>2. Leads(c, {k}, NodeOf(k, SumFor(q, m, k)))
    BY <1>1, <1>5, <2>1 DEF Chained
  <2> QED
    BY <1>3, <1>4, <2>2
<1>6. CASE Naming(m, {k}) = {}
  <2>1. SumOf(m, k) = 0
    BY <1>6, SumIs
  <2>2. SumFor(q, m, k) = LastValue(q, {k})
    BY <1>2, <2>1 DEF SumFor
  <2>3. CASE Naming(q, {k}) # {}
    <3>a. /\ LastValue(q, {k}) \in Nat
          /\ Naming(q, {k}) # {} => /\ LastOf(q, {k}) \in Line /\ LastOf(q, {k}).key \in {k}
                                    /\ LastValue(q, {k}) = LastOf(q, {k}).val
      BY LastType, Zenon
    <3>1. LastOf(q, {k}).key = k /\ LastOf(q, {k}).val = LastValue(q, {k})
      BY <2>3, <3>a
    <3>2. Leads(c, {k}, NodeOf(k, LastValue(q, {k})))
      BY <1>1, <1>6, <2>3, <3>1 DEF Chained
    <3> QED
      BY <1>2, <1>3, <1>4, <2>2, <3>2
  <2>4. CASE Naming(q, {k}) = {}
    <3>1. Without(c, {k})
      BY <1>1, <1>6, <2>4 DEF Chained
    <3>2. hash_find(h, k) = NULL
      BY <3>1, FindIs
    <3>3. LastValue(q, {k}) = 0
      BY <2>4 DEF LastValue
    <3> QED
      BY <1>3, <2>2, <3>2, <3>3 DEF proc_lustre_parsestat
  <2> QED
    BY <2>3, <2>4
<1> QED
  BY <1>3, <1>5, <1>6

(* The statistics hash h after the lines q of a statistics file and m of    *)
(* exports, as far as the keys K go, which have the slot s.                 *)
Tab(h, s, q, m, K) ==
    /\ HasSlots(h)
    /\ ChainOk(h.table[s])
    /\ Sound(h.table[s], q, m, K)

InSlot(K, s) == s \in Slot /\ \A k \in K : slot(k) = s

TabOf(loop, h, s, q, m, K) ==
    IF loop = "stats" THEN Tab(h, s, m, <<>>, K) ELSE Tab(h, s, q, m, K)

(* proc_lustre_parsestat returns a count, also for a key that is missing.   *)
LEMMA ParseNat ==
    ASSUME NULL \notin Nat, NEW h, NEW key, h.table[slot(key)] \in Seq(HashNode)
    PROVE  proc_lustre_parsestat(h, key) \in Nat
<1>1. PICK c \in Seq(HashNode) : c = h.table[slot(key)]
  OBVIOUS
<1>2. CASE Without(c, {key})
  <2>1. hash_find(h, key) = NULL
    BY <1>1, <1>2, FindIs
  <2> QED
    BY <2>1 DEF proc_lustre_parsestat
<1>3. CASE ~Without(c, {key})
  <2>1. PICK n : Leads(c, {key}, n)
    BY <1>1, <1>3, FindIs
  <2>2. hash_find(h, key) = n.data /\ n \in HashNode
    BY <1>1, <2>1, FindIs
  <2>3. n.data \in Nat
    BY <2>2 DEF HashNode
  <2> QED
    BY <2>2, <2>3 DEF proc_lustre_parsestat
<1> QED
  BY <1>2, <1>3

(* One round of either loop.                                                *)
LEMMA SetKeeps ==
    ASSUME NEW h, NEW g, NEW s, NEW key, NEW v, Set(h, g, s, key, v), ChainOk(h.table[s])
    PROVE  /\ HasSlots(g) /\ ChainOk(g.table[s]) /\ Keeps(h.table[s], g.table[s], key)
           /\ slot(key) = s => InFront(g.table[s], key, v)
<1>1. CASE slot(key) = s
  BY <1>1 DEF Set, Stored, InFront
<1>2. CASE slot(key) # s
  <2>1. Keeps(h.table[s], h.table[s], key)
    BY DEF Keeps
  <2> QED
    BY <1>2, <2>1 DEF Set
<1> QED
  BY <1>1, <1>2

(* One line of either loop leaves the slot of a key as the lines so far     *)
(* would have it.                                                           *)
LEMMA RoundSound ==
    ASSUME NULL \notin Nat, NEW loop \in {"stats", "add"}, NEW key, NEW K,
           loop = "add" => SnapshotTime \notin K,
           NEW s, InSlot(K, s), NEW q \in Seq(Line), NEW m \in Seq(Line), NEW l \in Line,
           NEW h, TabOf(loop, h, s, q, m, K), NEW g, g = Round(loop, key, h, l),
           NEW e, e = Append(m, l)
    PROVE  TabOf(loop, g, s, q, e, K)
<1>1. l.key \in Seq(Nat) /\ l.val \in Nat /\ s \in Slot
  BY DEF Line, InSlot
<1>2. PICK c : c = h.table[s]
  OBVIOUS
<1>3. PICK d : d = g.table[s]
  OBVIOUS
<1>4. HasSlots(h) /\ ChainOk(c) /\ c \in Seq(HashNode)
  BY <1>2 DEF TabOf, Tab, ChainOk
<1>5. PICK k : k = l.key
  OBVIOUS
<1>6. k \in K => slot(k) = s
  BY DEF InSlot
<1>7. CASE loop = "stats"
  <2>1. g = _hash_insert_lastinwins(h, k, l.val)
    BY <1>5, <1>7 DEF Round
  <2>2. Set(h, g, s, k, l.val)
    BY <1>1, <1>2, <1>4, <1>5, <2>1, StatsRound
  <2>3. /\ HasSlots(g) /\ ChainOk(d) /\ Keeps(c, d, k)
        /\ slot(k) = s => InFront(d, k, l.val)
    BY <1>2, <1>3, <1>4, <2>2, SetKeeps
  <2>4. Sound(c, m, <<>>, K)
    BY <1>2, <1>7 DEF TabOf, Tab
  <2>5. Sound(d, e, <<>>, K)
    BY <1>5, <1>6, <2>3, <2>4, SoundStats
  <2> QED
    BY <1>3, <1>7, <2>3, <2>5 DEF TabOf, Tab
<1>8. CASE loop = "add"
  <2>1. Sound(c, q, m, K)
    BY <1>2, <1>8 DEF TabOf, Tab
  <2>2. CASE k = SnapshotTime
    <3>1. g = h
      BY <1>5, <1>8, <2>2 DEF Round
    <3>2. Keeps(c, d, k)
      BY <1>2, <1>3, <3>1 DEF Keeps
    <3>3. k \notin K
      BY <1>8, <2>2
    <3>4. Sound(d, q, e, K)
      BY <1>5, <2>1, <3>2, <3>3, SoundAdd
    <3> QED
      BY <1>2, <1>3, <1>4, <1>8, <3>1, <3>4 DEF TabOf, Tab
  <2>3. CASE k # SnapshotTime
    <3>1. PICK v : v = proc_lustre_parsestat(h, k) + l.val
      OBVIOUS
    <3>2. g = hash_insert(hash_remove(h, k), k, v)
      BY <1>5, <1>8, <2>3, <3>1 DEF Round
    <3>3. slot(k) = s => v \in Nat
      <4>1. ASSUME slot(k) = s PROVE proc_lustre_parsestat(h, k) \in Nat
        BY <1>2, <1>4, <4>1, ParseNat
      <4> QED
        BY <1>1, <3>1, <4>1
    <3>4. Set(h, g, s, k, v)
      BY <1>1, <1>2, <1>4, <1>5, <3>2, <3>3, AddRound
    <3>5. /\ HasSlots(g) /\ ChainOk(d) /\ Keeps(c, d, k)
          /\ slot(k) = s => InFront(d, k, v)
      BY <1>2, <1>3, <1>4, <3>4, SetKeeps
    <3>6. k \in K => v = SumFor(q, m, k) + l.val
      <4>1. ASSUME k \in K PROVE proc_lustre_parsestat(h, k) = SumFor(q, m, k)
        <5>1. c = h.table[slot(k)]
          BY <1>2, <1>6, <4>1
        <5> QED
          BY <1>4, <2>1, <4>1, <5>1, SoundFind
      <4> QED
        BY <3>1, <4>1
    <3>7. k \in K => InFront(d, k, SumFor(q, m, k) + l.val)
      BY <1>6, <3>5, <3>6
    <3>8. Sound(d, q, e, K)
      BY <1>5, <2>1, <3>5, <3>7, SoundAdd
    <3> QED
      BY <1>3, <1>8, <3>5, <3>8 DEF TabOf, Tab
  <2> QED
    BY <2>2, <2>3
<1> QED
  BY <1>7, <1>8

Upto(m, r, i) == m \o SubSeq(r, 1, i)

(* The lines a loop has read after i rounds.                                *)
LEMMA UptoIs ==
    ASSUME NEW m \in Seq(Line), NEW r \in Seq(Line)
    PROVE  /\ Upto(m, r, 0) = m /\ Upto(m, r, Len(r)) = m \o r
           /\ \A i \in 1 .. Len(r) : /\ Upto(m, r, i - 1) \in Seq(Line)
                                     /\ Upto(m, r, i) = Append(Upto(m, r, i - 1), r[i])
<1>1. Len(r) \in Nat
  OBVIOUS
<1>2. Upto(m, r, 0) = m
  <2>1. SubSeq(r, 1, 0) = <<>>
    OBVIOUS
  <2> QED
    BY <2>1 DEF Upto
<1>3. Upto(m, r, Len(r)) = m \o r
  <2>1. SubSeq(r, 1, Len(r)) = r
    OBVIOUS
  <2> QED
    BY <2>1 DEF Upto
<1>4. ASSUME NEW i \in 1 .. Len(r)
      PROVE  /\ Upto(m, r, i - 1) \in Seq(Line)
             /\ Upto(m, r, i) = Append(Upto(m, r, i - 1), r[i])
  <2>1. PICK a, b : a = SubSeq(r, 1, i - 1) /\ b = SubSeq(r, 1, i)
    OBVIOUS
  <2>2. /\ a \in Seq(Line) /\ Len(a) = i - 1 /\ \A j \in 1 .. i - 1 : a[j] = r[j]
        /\ b \in Seq(Line) /\ Len(b) = i /\ \A j \in 1 .. i : b[j] = r[j]
    <3>1. /\ Sliced(SubSeq(r, 0 + 1, 0 + (i - 1)), r, 0, i - 1, Line)
          /\ Sliced(SubSeq(r, 0 + 1, 0 + i), r, 0, i, Line)
      <4>1. 0 \in Nat /\ i - 1 \in Nat /\ i \in Nat /\ 0 + (i - 1) <= Len(r) /\ 0 + i <= Len(r)
        BY <1>1
      <4> QED
        BY <4>1, Slice
    <3> QED
      BY <2>1, <3>1 DEF Sliced
  <2>3. r[i] \in Line
    OBVIOUS
  <2>4. PICK x, y, z, l : x = m \o a /\ y = Append(x, l) /\ z = m \o b /\ l = r[i]
    OBVIOUS
  <2>5. l \in Line /\ Len(m) \in Nat /\ i \in Nat
    BY <1>1, <2>3, <2>4
  <2>6. /\ x \in Seq(Line) /\ Len(x) = Len(m) + (i - 1)
        /\ \A j \in 1 .. Len(m) + (i - 1) : x[j] = IF j <= Len(m) THEN m[j] ELSE a[j - Len(m)]
    BY <2>2, <2>4, ConcatProperties
  <2>7. /\ z \in Seq(Line) /\ Len(z) = Len(m) + i
        /\ \A j \in 1 .. Len(m) + i : z[j] = IF j <= Len(m) THEN m[j] ELSE b[j - Len(m)]
    BY <2>2, <2>4, ConcatProperties
  <2>8. /\ y \in Seq(Line) /\ Len(y) = Len(x) + 1 /\ y[Len(x) + 1] = l
        /\ \A j \in 1 .. Len(x) : y[j] = x[j]
    BY <2>4, <2>5, <2>6
  <2>9. Len(y) = Len(m) + i /\ Len(x) + 1 = Len(m) + i
    BY <2>5, <2>6, <2>8
  <2>10. ASSUME NEW j \in 1 .. Len(m) + i PROVE z[j] = y[j]
    <3>1. CASE j <= Len(m)
      <4>1. j \in 1 .. Len(m) + (i - 1) /\ j \in 1 .. Len(x)
        BY <2>5, <2>6, <3>1
      <4> QED
        BY <2>6, <2>7, <2>8, <3>1, <4>1
    <3>2. CASE j > Len(m) /\ j < Len(m) + i
      <4>1. /\ j - Len(m) \in 1 .. i - 1 /\ j - Len(m) \in 1 .. i /\ ~(j <= Len(m))
            /\ j \in 1 .. Len(m) + (i - 1) /\ j \in 1 .. Len(x)
        BY <2>5, <2>6, <3>2
      <4> QED
        BY <2>2, <2>6, <2>7, <2>8, <4>1
    <3>3. CASE j = Len(m) + i
      <4>1. j - Len(m) = i /\ i \in 1 .. i /\ ~(j <= Len(m))
        BY <2>5, <3>3
      <4> QED
        BY <2>2, <2>4, <2>7, <2>8, <2>9, <3>3, <4>1
    <3> QED
      BY <2>5, <3>1, <3>2, <3>3
  <2>11. z = y
    BY <2>7, <2>8, <2>9, <2>10, SameSeq
  <2> QED
    BY <2>1, <2>4, <2>6, <2>11 DEF Upto
<1> QED
  BY <1>2, <1>3, <1>4

(* The whole loop.                                                          *)
LEMMA LoopSound ==
    ASSUME NULL \notin Nat, NEW loop \in {"stats", "add"}, NEW key, NEW K,
           loop = "add" => SnapshotTime \notin K,
           NEW s, InSlot(K, s), NEW q \in Seq(Line), NEW m \in Seq(Line), NEW r \in Seq(Line),
           NEW h, TabOf(loop, h, s, q, m, K), NEW f, Runs(loop, key, f, h, r, Len(r))
    PROVE  TabOf(loop, f[Len(r)], s, q, m \o r, K)
<1> DEFINE Good(i) == TabOf(loop, f[i], s, q, Upto(m, r, i), K)
           Bad == {i \in 0 .. Len(r) : ~Good(i)}
<1>1. Len(r) \in Nat
  OBVIOUS
<1>2. Good(0)
  <2>1. f[0] = h /\ Upto(m, r, 0) = m
    BY UptoIs DEF Runs
  <2> QED
    BY <2>1
<1>3. ASSUME NEW i \in 1 .. Len(r), Good(i - 1) PROVE Good(i)
  <2>1. f[i] = Round(loop, key, f[i - 1], r[i])
    BY DEF Runs
  <2>2. Upto(m, r, i - 1) \in Seq(Line) /\ Upto(m, r, i) = Append(Upto(m, r, i - 1), r[i])
    BY UptoIs
  <2>3. r[i] \in Line
    OBVIOUS
  <2>4. PICK a, g, u, e, l : /\ a = f[i - 1] /\ g = f[i] /\ u = Upto(m, r, i - 1)
                             /\ e = Upto(m, r, i) /\ l = r[i]
    OBVIOUS
  <2>5. /\ TabOf(loop, a, s, q, u, K) /\ g = Round(loop, key, a, l) /\ e = Append(u, l)
        /\ u \in Seq(Line) /\ l \in Line
    BY <1>3, <2>1, <2>2, <2>3, <2>4
  <2>6. TabOf(loop, g, s, q, e, K)
    BY <2>5, RoundSound
  <2> QED
    BY <2>4, <2>6
<1> HIDE DEF Good
<1>4. Bad = {}
  <2> SUFFICES ASSUME Bad # {} PROVE FALSE
    OBVIOUS
  <2>1. PICK l \in Bad : \A i \in Bad : l <= i
    <3>1. Bad \in SUBSET Nat
      BY <1>1
    <3> HIDE DEF Bad
    <3> QED
      BY <3>1, Least
  <2>2. l # 0
    BY <1>2
  <2>3. l \in 1 .. Len(r) /\ l - 1 \in 0 .. Len(r) /\ ~(l <= l - 1)
    BY <1>1, <2>2
  <2> QED
    BY <1>3, <2>1, <2>3
<1>5. Good(Len(r))
  <2>1. Len(r) \in 0 .. Len(r)
    BY <1>1
  <2> QED
    BY <1>4, <2>1
<1>6. Upto(m, r, Len(r)) = m \o r
  BY UptoIs
<1> QED
  BY <1>5, <1>6 DEF Good

(* The loops of the code are such loops.                                    *)
LEMMA StatsRuns ==
    ASSUME NEW h, NEW r \in Seq(Line)
    PROVE  \E g : Runs("stats", NULL, g, h, r, Len(r)) /\ _hash_stats(h, r) = g[Len(r)]
<1> DEFINE Loops(g) ==
        g = [i \in 0 .. Len(r) |->
                IF i = 0 THEN h
                ELSE CHOOSE x \in {_hash_insert_lastinwins(a, r[i].key, r[i].val) :
                                   a \in {g[i - 1]}} : TRUE]
<1>1. Len(r) \in Nat
  OBVIOUS
<1>2. _hash_stats(h, r) = (CHOOSE g : Loops(g))[Len(r)]
  BY DEF _hash_stats, ForEachLine
<1>3. ASSUME NEW g, NEW i
      PROVE  (CHOOSE x \in {_hash_insert_lastinwins(a, r[i].key, r[i].val) :
                            a \in {g[i - 1]}} : TRUE)
                = Round("stats", NULL, g[i - 1], r[i])
  <2>1. PICK v : v = Round("stats", NULL, g[i - 1], r[i])
    OBVIOUS
  <2>2. {_hash_insert_lastinwins(a, r[i].key, r[i].val) : a \in {g[i - 1]}} = {v}
    BY <2>1 DEF Round
  <2>3. (CHOOSE x \in {v} : TRUE) = v
    OBVIOUS
  <2> QED
    BY <2>1, <2>2, <2>3
<1>4. ASSUME NEW g PROVE Loops(g) <=> Runs("stats", NULL, g, h, r, Len(r))
  <2>1. Loops(g) <=> g = [i \in 0 .. Len(r) |->
                            IF i = 0 THEN h ELSE Round("stats", NULL, g[i - 1], r[i])]
    BY <1>3
  <2> HIDE DEF Loops
  <2>2. ASSUME Loops(g) PROVE Runs("stats", NULL, g, h, r, Len(r))
    BY <1>1, <2>1, <2>2 DEF Runs
  <2>3. ASSUME Runs("stats", NULL, g, h, r, Len(r)) PROVE Loops(g)
    <3>1. g = [i \in 0 .. Len(r) |-> g[i]] /\ g[0] = h
      BY <2>3 DEF Runs
    <3>2. ASSUME NEW i \in 0 .. Len(r), i # 0
          PROVE  g[i] = Round("stats", NULL, g[i - 1], r[i])
      <4>1. i \in 1 .. Len(r)
        BY <1>1, <3>2
      <4> QED
        BY <2>3, <4>1 DEF Runs
    <3> QED
      BY <2>1, <3>1, <3>2
  <2> QED
    BY <2>2, <2>3
<1> HIDE DEF Loops
<1>5. \E g : Loops(g)
  BY <1>1, <1>4, RunsExist
<1>6. Loops(CHOOSE g : Loops(g))
  BY <1>5, Zenon
<1> QED
  BY <1>2, <1>4, <1>6

(* _hash_aggregate_stats is a run of its loop over the lines of an export.  *)
LEMMA AddRuns ==
    ASSUME NEW h, NEW r \in Seq(Line)
    PROVE  \E g : Runs("add", NULL, g, h, r, Len(r)) /\ _hash_aggregate_stats(h, r) = g[Len(r)]
<1> DEFINE Loops(g) ==
        g = [i \in 0 .. Len(r) |->
                IF i = 0 THEN h
                ELSE CHOOSE x \in {IF r[i].key = SnapshotTime
                                   THEN a
                                   ELSE hash_insert(hash_remove(a, r[i].key), r[i].key,
                                          proc_lustre_parsestat(a, r[i].key) + r[i].val) :
                                   a \in {g[i - 1]}} : TRUE]
<1>1. Len(r) \in Nat
  OBVIOUS
<1>2. _hash_aggregate_stats(h, r) = (CHOOSE g : Loops(g))[Len(r)]
  BY DEF _hash_aggregate_stats, ForEachLine
<1>3. ASSUME NEW g, NEW i
      PROVE  (CHOOSE x \in {IF r[i].key = SnapshotTime
                            THEN a
                            ELSE hash_insert(hash_remove(a, r[i].key), r[i].key,
                                   proc_lustre_parsestat(a, r[i].key) + r[i].val) :
                            a \in {g[i - 1]}} : TRUE)
                = Round("add", NULL, g[i - 1], r[i])
  <2>1. PICK v : v = Round("add", NULL, g[i - 1], r[i])
    OBVIOUS
  <2>2. {IF r[i].key = SnapshotTime
         THEN a
         ELSE hash_insert(hash_remove(a, r[i].key), r[i].key,
                proc_lustre_parsestat(a, r[i].key) + r[i].val) :
         a \in {g[i - 1]}} = {v}
    BY <2>1 DEF Round
  <2>3. (CHOOSE x \in {v} : TRUE) = v
    OBVIOUS
  <2> QED
    BY <2>1, <2>2, <2>3
<1>4. ASSUME NEW g PROVE Loops(g) <=> Runs("add", NULL, g, h, r, Len(r))
  <2>1. Loops(g) <=> g = [i \in 0 .. Len(r) |->
                            IF i = 0 THEN h ELSE Round("add", NULL, g[i - 1], r[i])]
    BY <1>3
  <2> HIDE DEF Loops
  <2>2. ASSUME Loops(g) PROVE Runs("add", NULL, g, h, r, Len(r))
    BY <1>1, <2>1, <2>2 DEF Runs
  <2>3. ASSUME Runs("add", NULL, g, h, r, Len(r)) PROVE Loops(g)
    <3>1. g = [i \in 0 .. Len(r) |-> g[i]] /\ g[0] = h
      BY <2>3 DEF Runs
    <3>2. ASSUME NEW i \in 0 .. Len(r), i # 0
          PROVE  g[i] = Round("add", NULL, g[i - 1], r[i])
      <4>1. i \in 1 .. Len(r)
        BY <1>1, <3>2
      <4> QED
        BY <2>3, <4>1 DEF Runs
    <3> QED
      BY <2>1, <3>1, <3>2
  <2> QED
    BY <2>2, <2>3
<1> HIDE DEF Loops
<1>5. \E g : Loops(g)
  BY <1>1, <1>4, RunsExist
<1>6. Loops(CHOOSE g : Loops(g))
  BY <1>5, Zenon
<1> QED
  BY <1>2, <1>4, <1>6

(* The hash after a statistics file, and after an export more.              *)
LEMMA HashStats ==
    ASSUME NULL \notin Nat, NEW K, NEW s, InSlot(K, s),
           NEW r \in Seq(Line)
    PROVE  Tab(_hash_stats(hash_create, r), s, r, <<>>, K)
<1>1. PICK h : h = hash_create
  OBVIOUS
<1>2. Tab(h, s, <<>>, <<>>, K)
  <2>1. HasSlots(h) /\ h.table[s] = <<>>
    BY <1>1 DEF hash_create, HasSlots, InSlot
  <2>2. ChainOk(<<>>)
    <3>1. <<>> \in Seq(HashNode) /\ 1 .. Len(<<>>) = {}
      OBVIOUS
    <3> QED
      BY <3>1 DEF ChainOk
  <2>3. Sound(<<>>, <<>>, <<>>, K)
    <3>1. ASSUME NEW ks PROVE Naming(<<>>, ks) = {} /\ Without(<<>>, ks)
      BY DEF Naming, Without
    <3> QED
      BY <3>1 DEF Sound, Chained
  <2> QED
    BY <2>1, <2>2, <2>3 DEF Tab
<1>3. PICK g : Runs("stats", NULL, g, h, r, Len(r)) /\ _hash_stats(h, r) = g[Len(r)]
  BY StatsRuns
<1>4. TabOf("stats", h, s, <<>>, <<>>, K)
  BY <1>2 DEF TabOf
<1>5. <<>> \in Seq(Line) /\ <<>> \o r = r
  OBVIOUS
<1>6. TabOf("stats", g[Len(r)], s, <<>>, <<>> \o r, K)
  <2>1. PICK l : l = "stats"
    OBVIOUS
  <2>2. l \in {"stats", "add"} /\ (l = "add" => SnapshotTime \notin K)
    BY <2>1
  <2>3. TabOf(l, g[Len(r)], s, <<>>, <<>> \o r, K)
    BY <1>3, <1>4, <1>5, <2>1, <2>2, LoopSound
  <2> QED
    BY <2>1, <2>3
<1>7. Tab(g[Len(r)], s, r, <<>>, K)
  BY <1>5, <1>6 DEF TabOf
<1> QED
  BY <1>1, <1>3, <1>7

(* What an export adds to the slot of a key: its lines are read after those *)
(* of the exports before.                                                   *)
LEMMA HashAdd ==
    ASSUME NULL \notin Nat, NEW K, SnapshotTime \notin K, NEW s, InSlot(K, s),
           NEW q \in Seq(Line), NEW m \in Seq(Line), NEW r \in Seq(Line),
           NEW h, Tab(h, s, q, m, K)
    PROVE  Tab(_hash_aggregate_stats(h, r), s, q, m \o r, K)
<1>1. PICK g : Runs("add", NULL, g, h, r, Len(r)) /\ _hash_aggregate_stats(h, r) = g[Len(r)]
  BY AddRuns
<1>2. PICK l : l = "add"
  OBVIOUS
<1>3. TabOf(l, h, s, q, m, K)
  BY <1>2 DEF TabOf
<1>4. TabOf(l, g[Len(r)], s, q, m \o r, K)
  BY <1>1, <1>2, <1>3, LoopSound
<1>5. Tab(g[Len(r)], s, q, m \o r, K)
  BY <1>2, <1>4 DEF TabOf
<1> QED
  BY <1>1, <1>5

-----------------------------------------------------------------------------
(* The hash function.                                                       *)

(* hash_key_string is a run of its loop over the characters of a key.       *)
LEMMA HashRuns ==
    ASSUME NEW k \in Seq(Nat)
    PROVE  \E g : Runs("hash", NULL, g, 0, k, Len(k)) /\ hash_key_string(k) = g[Len(k)]
<1> DEFINE Loops(g) ==
        g = [i \in 0 .. Len(k) |-> IF i = 0 THEN 0 ELSE ((31 + 1) * g[i - 1] + k[i]) % Word]
<1>1. Len(k) \in Nat
  OBVIOUS
<1>2. hash_key_string(k) = (CHOOSE g : Loops(g))[Len(k)]
  BY DEF hash_key_string
<1>3. ASSUME NEW g PROVE Loops(g) <=> Runs("hash", NULL, g, 0, k, Len(k))
  <2>1. Loops(g) <=> g = [i \in 0 .. Len(k) |->
                            IF i = 0 THEN 0 ELSE Round("hash", NULL, g[i - 1], k[i])]
    BY DEF Round
  <2> HIDE DEF Loops
  <2>2. ASSUME Loops(g) PROVE Runs("hash", NULL, g, 0, k, Len(k))
    BY <1>1, <2>1, <2>2 DEF Runs
  <2>3. ASSUME Runs("hash", NULL, g, 0, k, Len(k)) PROVE Loops(g)
    <3>1. g = [i \in 0 .. Len(k) |-> g[i]] /\ g[0] = 0
      BY <2>3 DEF Runs
    <3>2. ASSUME NEW i \in 0 .. Len(k), i # 0
          PROVE  g[i] = Round("hash", NULL, g[i - 1], k[i])
      <4>1. i \in 1 .. Len(k)
        BY <1>1, <3>2
      <4> QED
        BY <2>3, <4>1 DEF Runs
    <3> QED
      BY <2>1, <3>1, <3>2
  <2> QED
    BY <2>2, <2>3
<1> HIDE DEF Loops
<1>4. \E g : Loops(g)
  BY <1>1, <1>3, RunsExist
<1>5. Loops(CHOOSE g : Loops(g))
  BY <1>4, Zenon
<1> QED
  BY <1>2, <1>3, <1>5

(* Of a sum that is cut to the size of a word, what is left by Size.        *)
LEMMA Cut ==
    ASSUME NEW x \in Nat, NEW c \in Nat
    PROVE  /\ (32 * x + c) % Word \in Nat
           /\ \E n \in Nat : (32 * x + c) % Word = 32 * x + c - Word * n
<1> DEFINE y == 32 * x + c
<1>1. y \in Nat /\ Word = 16777216
  BY DEF Word
<1>2. ASSUME NEW z \in Nat
      PROVE  z % 16777216 \in Nat /\ z \div 16777216 \in Nat
             /\ z = 16777216 * (z \div 16777216) + (z % 16777216)
  OBVIOUS
<1>3. y % 16777216 \in Nat /\ y \div 16777216 \in Nat
      /\ y = 16777216 * (y \div 16777216) + (y % 16777216)
  BY <1>1, <1>2
<1>4. PICK r, n : r = y % 16777216 /\ n = y \div 16777216
  OBVIOUS
<1>5. r \in Nat /\ n \in Nat /\ y = 16777216 * n + r
  BY <1>3, <1>4
<1> HIDE DEF y
<1>6. r = y - 16777216 * n
  BY <1>1, <1>5
<1> QED
  BY <1>1, <1>4, <1>5, <1>6 DEF y

(* The last two characters of a key decide its slot.                        *)
LEMMA HashIs ==
    ASSUME NEW k \in Seq(Nat)
    PROVE  /\ hash_key_string(k) \in Nat
           /\ Len(k) >= 2 => hash_key_string(k) % 64 = (32 * k[Len(k) - 1] + k[Len(k)]) % 64
<1>1. PICK g : Runs("hash", NULL, g, 0, k, Len(k)) /\ hash_key_string(k) = g[Len(k)]
  BY HashRuns
<1>2. Len(k) \in Nat
  OBVIOUS
<1>3. ASSUME NEW i \in 1 .. Len(k) PROVE g[i] = (32 * g[i - 1] + k[i]) % Word
  <2>1. g[i] = ((31 + 1) * g[i - 1] + k[i]) % Word
    BY <1>1 DEF Runs, Round
  <2>2. 31 + 1 = 32
    OBVIOUS
  <2> QED
    BY <2>1, <2>2
<1>4. \A i \in 0 .. Len(k) : g[i] \in Nat
  <2> DEFINE Bad == {i \in 0 .. Len(k) : g[i] \notin Nat}
  <2> SUFFICES ASSUME Bad # {} PROVE FALSE
    OBVIOUS
  <2>1. PICK l \in Bad : \A i \in Bad : l <= i
    <3>1. Bad \in SUBSET Nat
      OBVIOUS
    <3> HIDE DEF Bad
    <3> QED
      BY <3>1, Least
  <2>2. l # 0
    BY <1>1 DEF Runs
  <2>3. l \in 1 .. Len(k) /\ l - 1 \in 0 .. Len(k) /\ ~(l <= l - 1)
    BY <1>2, <2>2
  <2>4. g[l - 1] \in Nat /\ k[l] \in Nat
    BY <2>1, <2>3
  <2>5. (32 * g[l - 1] + k[l]) % Word \in Nat
    BY <2>4, Cut
  <2>6. g[l] \in Nat
    BY <1>3, <2>3, <2>5
  <2> QED
    BY <2>1, <2>6
<1>5. hash_key_string(k) \in Nat
  BY <1>1, <1>2, <1>4
<1>6. ASSUME Len(k) >= 2
      PROVE  hash_key_string(k) % 64 = (32 * k[Len(k) - 1] + k[Len(k)]) % 64
  <2>1. PICK x, y, z, b, c : /\ x = g[Len(k) - 2] /\ y = g[Len(k) - 1] /\ z = g[Len(k)]
                             /\ b = k[Len(k) - 1] /\ c = k[Len(k)]
    OBVIOUS
  <2>2. x \in Nat /\ y \in Nat /\ z \in Nat /\ b \in Nat /\ c \in Nat
    <3>1. /\ {Len(k) - 2, Len(k) - 1, Len(k)} \subseteq 0 .. Len(k)
          /\ {Len(k) - 1, Len(k)} \subseteq 1 .. Len(k)
      BY <1>2, <1>6
    <3>2. x \in Nat /\ y \in Nat /\ z \in Nat
      BY <1>4, <2>1, <3>1
    <3>3. \A i \in 1 .. Len(k) : k[i] \in Nat
      OBVIOUS
    <3> QED
      BY <2>1, <3>1, <3>2, <3>3
  <2>3. y = (32 * x + b) % Word /\ z = (32 * y + c) % Word
    <3>1. /\ Len(k) - 1 \in 1 .. Len(k) /\ Len(k) \in 1 .. Len(k)
          /\ (Len(k) - 1) - 1 = Len(k) - 2
      BY <1>2, <1>6
    <3> QED
      BY <1>3, <2>1, <3>1
  <2>4. PICK m \in Nat : y = 32 * x + b - Word * m
    <3>1. \E t \in Nat : (32 * x + b) % Word = 32 * x + b - Word * t
      BY <2>2, Cut
    <3> QED
      BY <2>3, <3>1
  <2>5. PICK n \in Nat : z = 32 * y + c - Word * n
    <3>1. \E t \in Nat : (32 * y + c) % Word = 32 * y + c - Word * t
      BY <2>2, Cut
    <3> QED
      BY <2>3, <3>1
  <2>6. z = 32 * b + c + 64 * (16 * x - 8388608 * m - 262144 * n)
    BY <2>2, <2>4, <2>5 DEF Word
  <2>7. PICK w, u : w = 16 * x - 8388608 * m - 262144 * n /\ u = 32 * b + c
    OBVIOUS
  <2>8. w \in Int /\ u \in Nat /\ z = u + 64 * w
    BY <2>2, <2>6, <2>7
  <2>9. z % 64 = u % 64
    BY <2>2, <2>8
  <2> QED
    BY <1>1, <2>1, <2>7, <2>9
<1> QED
  BY <1>5, <1>6

-----------------------------------------------------------------------------
(* The two names of an operation.                                           *)

Spellings(op) == {op, Prefix \o op}

(* "mds_" in front of a key is cut off again, and nothing else is.          *)
LEMMA PrefixIs ==
    ASSUME NEW k \in Seq(Nat)
    PROVE  /\ Prefix \o k \in Seq(Nat) /\ HasPrefix(Prefix \o k) /\ Stripped(Prefix \o k) = k
           /\ Stripped(k) \in Seq(Nat)
           /\ HasPrefix(k) => k = Prefix \o Stripped(k)
<1>1. Prefix \in Seq(Nat) /\ Len(Prefix) \in Nat /\ Len(k) \in Nat
  BY StatsAssumption
<1>2. PICK p, n : p = Prefix /\ n = Len(Prefix)
  OBVIOUS
<1>3. PICK x : x = p \o k
  OBVIOUS
<1>4. /\ x \in Seq(Nat) /\ Len(x) = n + Len(k)
      /\ \A j \in 1 .. n + Len(k) : x[j] = IF j <= n THEN p[j] ELSE k[j - n]
  BY <1>1, <1>2, <1>3, ConcatProperties
<1>5. n \in Nat /\ n \in 0 .. Len(x) /\ p \in Seq(Nat) /\ Len(p) = n
  BY <1>1, <1>2, <1>4
<1>6. HasPrefix(x)
  <2>1. Sliced(SubSeq(x, 0 + 1, 0 + n), x, 0, n, Nat)
    BY <1>4, <1>5, Slice
  <2>2. PICK a : a = SubSeq(x, 1, n)
    OBVIOUS
  <2>3. a \in Seq(Nat) /\ Len(a) = n /\ \A j \in 1 .. n : a[j] = x[j]
    BY <2>1, <2>2 DEF Sliced
  <2>4. \A j \in 1 .. n : a[j] = p[j]
    <3>1. ASSUME NEW j \in 1 .. n PROVE x[j] = p[j]
      <4>1. j \in 1 .. n + Len(k) /\ j <= n
        BY <1>1, <1>5
      <4> QED
        BY <1>4, <4>1
    <3> QED
      BY <2>3, <3>1
  <2>5. a = p
    BY <1>5, <2>3, <2>4, SameSeq
  <2>6. SubSeq(p, 1, n) = p
    BY <1>5
  <2> QED
    BY <1>1, <1>2, <1>4, <1>5, <2>2, <2>5, <2>6 DEF HasPrefix, IsPrefix
<1>7. Stripped(x) = k
  <2>1. PICK a : a = Stripped(x)
    OBVIOUS
  <2>2. /\ a \in Seq(Nat) /\ Len(a) = Len(x) - n /\ \A j \in 1 .. Len(x) - n : a[j] = x[n + j]
    BY <1>2, <1>4, <1>5, <2>1, WithoutFirst DEF Stripped
  <2>3. Len(a) = Len(k)
    BY <1>1, <1>4, <1>5, <2>2
  <2>4. ASSUME NEW j \in 1 .. Len(k) PROVE a[j] = k[j]
    <3>1. n + j \in 1 .. n + Len(k) /\ ~(n + j <= n) /\ (n + j) - n = j /\ j \in 1 .. Len(x) - n
      BY <1>1, <1>4, <1>5
    <3> QED
      BY <1>4, <2>2, <3>1
  <2> QED
    BY <2>1, <2>2, <2>3, <2>4, SameSeq
<1>8. Stripped(k) \in Seq(Nat)
  BY <1>1 DEF Stripped
<1>9. ASSUME HasPrefix(k) PROVE k = Prefix \o Stripped(k)
  <2>1. n <= Len(k) /\ SubSeq(p, 1, n) = SubSeq(k, 1, n)
    BY <1>2, <1>9 DEF HasPrefix, IsPrefix
  <2>2. SubSeq(p, 1, n) = p
    BY <1>5
  <2>3. Sliced(SubSeq(k, 0 + 1, 0 + n), k, 0, n, Nat)
    BY <1>5, <2>1, Slice
  <2>4. \A j \in 1 .. n : p[j] = k[j]
    BY <2>1, <2>2, <2>3 DEF Sliced
  <2>5. PICK a : a = Stripped(k)
    OBVIOUS
  <2>6. n \in 0 .. Len(k)
    BY <1>1, <1>5, <2>1
  <2>7. /\ a \in Seq(Nat) /\ Len(a) = Len(k) - n /\ \A j \in 1 .. Len(k) - n : a[j] = k[n + j]
    BY <1>2, <2>5, <2>6, WithoutFirst DEF Stripped
  <2>8. PICK z : z = p \o a
    OBVIOUS
  <2>9. /\ z \in Seq(Nat) /\ Len(z) = n + Len(a)
        /\ \A j \in 1 .. n + Len(a) : z[j] = IF j <= n THEN p[j] ELSE a[j - n]
    BY <1>5, <2>7, <2>8, ConcatProperties
  <2>10. Len(z) = Len(k)
    BY <1>1, <1>5, <2>7, <2>9
  <2>11. ASSUME NEW j \in 1 .. Len(k) PROVE z[j] = k[j]
    <3>1. j \in 1 .. n + Len(a)
      BY <2>9, <2>10
    <3>2. CASE j <= n
      <4>1. j \in 1 .. n
        BY <1>5, <3>2
      <4> QED
        BY <2>4, <2>9, <3>1, <3>2, <4>1
    <3>3. CASE ~(j <= n)
      <4>1. j - n \in 1 .. Len(k) - n /\ n + (j - n) = j
        BY <1>1, <1>5, <3>3
      <4> QED
        BY <2>7, <2>9, <3>1, <3>3, <4>1
    <3> QED
      BY <3>2, <3>3
  <2>12. z = k
    BY <2>9, <2>10, <2>11, SameSeq
  <2> QED
    BY <1>2, <2>5, <2>8, <2>12
<1> QED
  BY <1>2, <1>3, <1>4, <1>6, <1>7, <1>8, <1>9

(* share a slot.                                                            *)
LEMMA SlotAlike ==
    ASSUME NEW op \in Range(MdtOp)
    PROVE  /\ op \in Seq(Nat) /\ Prefix \o op \in Seq(Nat)
           /\ InSlot(Spellings(op), slot(op)) /\ SnapshotTime \notin Spellings(op)
           /\ ~HasPrefix(op)
<1>1. op \in Range(OstKey) \cup Range(MdtOp)
  OBVIOUS
<1>2. op \in Seq(Nat) /\ Len(op) >= 2 /\ ~HasPrefix(op) /\ SnapshotTime \notin Spellings(op)
  BY <1>1, StatsAssumption DEF Spellings
<1>3. PICK k : k = Prefix \o op
  OBVIOUS
<1>4. /\ k \in Seq(Nat) /\ Len(k) >= 2
      /\ k[Len(k)] = op[Len(op)] /\ k[Len(k) - 1] = op[Len(op) - 1]
  <2>1. Prefix \in Seq(Nat) /\ Len(Prefix) \in Nat /\ Len(op) \in Nat
    BY <1>2, StatsAssumption
  <2>2. PICK n : n = Len(Prefix)
    OBVIOUS
  <2>3. /\ k \in Seq(Nat) /\ Len(k) = n + Len(op)
        /\ \A j \in 1 .. n + Len(op) : k[j] = IF j <= n THEN Prefix[j] ELSE op[j - n]
    BY <1>2, <1>3, <2>1, <2>2, ConcatProperties
  <2>4. /\ n + Len(op) \in 1 .. n + Len(op) /\ ~(n + Len(op) <= n)
        /\ (n + Len(op)) - n = Len(op)
        /\ (n + Len(op)) - 1 \in 1 .. n + Len(op) /\ ~((n + Len(op)) - 1 <= n)
        /\ ((n + Len(op)) - 1) - n = Len(op) - 1
        /\ n + Len(op) >= 2
    BY <1>2, <2>1, <2>2
  <2>5. k[n + Len(op)] = op[Len(op)]
    BY <2>3, <2>4
  <2>6. k[(n + Len(op)) - 1] = op[Len(op) - 1]
    BY <2>3, <2>4
  <2>7. k \in Seq(Nat) /\ Len(k) = n + Len(op)
    BY <2>3
  <2>8. Len(k) >= 2
    BY <2>4, <2>7
  <2> QED
    BY <2>5, <2>6, <2>7, <2>8, Zenon
<1>5. key_f(op) = hash_key_string(op) /\ key_f(k) = hash_key_string(k)
  BY <1>1, <1>3, StatsAssumption
<1>6. slot(op) = slot(k) /\ slot(op) \in Slot
  <2>1. hash_key_string(k) % 64 = hash_key_string(op) % 64
    BY <1>2, <1>4, HashIs
  <2>2. Size = 64
    BY StatsAssumption
  <2>3. hash_key_string(op) \in Nat
    BY <1>2, HashIs
  <2>4. hash_key_string(op) % 64 \in 0 .. 64 - 1
    BY <2>3
  <2> QED
    BY <1>5, <2>1, <2>2, <2>4 DEF slot, Slot
<1> QED
  BY <1>2, <1>3, <1>4, <1>6 DEF InSlot, Spellings

(* Cutting off the prefix makes them one.                                   *)
LEMMA RekeyIs ==
    ASSUME NEW op \in Seq(Nat), ~HasPrefix(op), NEW n \in HashNode,
           NEW r, r = _rekey_mdt_stats(n)
    PROVE  /\ r \in HashNode /\ r.data = n.data
           /\ r.hkey = op <=> n.hkey \in Spellings(op)
<1>1. n = [hkey |-> n.hkey, data |-> n.data] /\ n.hkey \in Seq(Nat) /\ n.data \in Nat
  BY DEF HashNode
<1>2. PICK k \in Seq(Nat) : k = n.hkey
  BY <1>1
<1>3. /\ Prefix \o op \in Seq(Nat) /\ HasPrefix(Prefix \o op) /\ Stripped(Prefix \o op) = op
  BY PrefixIs
<1>4. Stripped(k) \in Seq(Nat) /\ (HasPrefix(k) => k = Prefix \o Stripped(k))
  BY PrefixIs
<1>5. CASE HasPrefix(k)
  <2>1. r = [hkey |-> Stripped(k), data |-> n.data]
    BY <1>1, <1>2, <1>5 DEF _rekey_mdt_stats
  <2>2. r \in HashNode /\ r.data = n.data /\ r.hkey = Stripped(k)
    BY <1>1, <1>4, <2>1 DEF HashNode
  <2>3. Stripped(k) = op <=> k \in Spellings(op)
    BY <1>3, <1>4, <1>5 DEF Spellings
  <2> QED
    BY <1>2, <2>2, <2>3
<1>6. CASE ~HasPrefix(k)
  <2>1. r = n
    BY <1>2, <1>6 DEF _rekey_mdt_stats
  <2>2. k = op <=> k \in Spellings(op)
    BY <1>3, <1>6 DEF Spellings
  <2> QED
    BY <1>2, <2>1, <2>2
<1> QED
  BY <1>5, <1>6

(* What is found of an operation once the prefixes are cut off is what a    *)
(* reader of the files would report.                                        *)
LEMMA Renamed ==
    ASSUME NEW op \in Range(MdtOp), NEW q \in Seq(Line), NEW m \in Seq(Line),
           NEW h, Tab(h, slot(op), q, m, Spellings(op)),
           NEW g, g = hash_for_each(h, _rekey_mdt_stats)
    PROVE  proc_lustre_parsestat(g, op) = Reported(q, m, op)
<1>1. /\ op \in Seq(Nat) /\ InSlot(Spellings(op), slot(op)) /\ ~HasPrefix(op)
  BY SlotAlike
<1>2. PICK s, c, d, ks : s = slot(op) /\ c = h.table[s] /\ d = g.table[s] /\ ks = Spellings(op)
  OBVIOUS
<1>3. s \in Slot /\ ChainOk(c) /\ Chained(c, q, m, ks)
  BY <1>1, <1>2 DEF InSlot, Tab, Sound
<1>4. c \in Seq(HashNode) /\ Len(c) \in Nat /\ DOMAIN c = 1 .. Len(c)
  BY <1>3 DEF ChainOk
<1>5. d = [i \in 1 .. Len(c) |-> _rekey_mdt_stats(c[i])]
  <2>1. g.table = [t \in Slot |-> [i \in DOMAIN h.table[t] |-> _rekey_mdt_stats(h.table[t][i])]]
    BY DEF hash_for_each, Tab, HasSlots
  <2> QED
    BY <1>2, <1>3, <1>4, <2>1
<1>6. ASSUME NEW i \in 1 .. Len(c)
      PROVE  /\ d[i] \in HashNode /\ d[i].data = c[i].data
             /\ d[i].hkey = op <=> c[i].hkey \in ks
  <2>1. PICK n, r : n = c[i] /\ r = d[i]
    OBVIOUS
  <2>2. n \in HashNode /\ r = _rekey_mdt_stats(n)
    BY <1>4, <1>5, <2>1
  <2>3. r \in HashNode /\ r.data = n.data /\ (r.hkey = op <=> n.hkey \in Spellings(op))
    BY <1>1, <2>2, RekeyIs
  <2> QED
    BY <1>2, <2>1, <2>3
<1>7. d \in Seq(HashNode) /\ Len(d) = Len(c)
  <2>1. d \in [1 .. Len(c) -> HashNode]
    BY <1>5, <1>6
  <2> QED
    BY <1>4, <2>1, FcnSeq
<1>8. ASSUME Without(c, ks) PROVE proc_lustre_parsestat(g, op) = 0
  <2>1. Without(d, {op})
    BY <1>6, <1>7, <1>8 DEF Without
  <2>2. hash_find(g, op) = NULL
    BY <1>2, <1>7, <2>1, FindIs
  <2> QED
    BY <2>2 DEF proc_lustre_parsestat
<1>9. ASSUME NEW n, Leads(c, ks, n), n.data \in Nat
      PROVE  proc_lustre_parsestat(g, op) = n.data
  <2>1. PICK i \in 1 .. Len(c) : /\ c[i] = n /\ n.hkey \in ks
                                 /\ \A j \in 1 .. i - 1 : c[j].hkey \notin ks
    BY <1>9 DEF Leads
  <2>2. PICK r : r = d[i]
    OBVIOUS
  <2>3. r.hkey = op /\ r.data = n.data
    BY <1>6, <2>1, <2>2
  <2>4. \A j \in 1 .. i - 1 : d[j].hkey # op
    <3>1. \A j \in 1 .. i - 1 : j \in 1 .. Len(c)
      BY <1>4
    <3> QED
      BY <1>6, <2>1, <3>1
  <2>5. Leads(d, {op}, r)
    BY <1>7, <2>2, <2>3, <2>4 DEF Leads
  <2>6. hash_find(g, op) = r.data
    BY <1>2, <1>7, <2>5, FindIs
  <2> QED
    BY <1>9, <2>3, <2>6, StatsAssumption DEF proc_lustre_parsestat
<1>10. Reported(q, m, op) = IF Naming(m, ks) = {} THEN LastValue(q, ks)
                            ELSE SumFor(q, m, LastOf(m, ks).key)
  BY <1>2 DEF Reported, SumFor, Spellings
<1>11. CASE Naming(m, ks) # {}
  <2>1. PICK k : k = LastOf(m, ks).key
    OBVIOUS
  <2>2. Leads(c, ks, NodeOf(k, SumFor(q, m, k)))
    BY <1>3, <1>11, <2>1 DEF Chained
  <2>3. SumFor(q, m, k) \in Nat
    <3>1. LastValue(q, {k}) \in Nat
      BY LastType
    <3>2. SumOf(m, k) \in Nat
      BY SumIs
    <3> QED
      BY <3>1, <3>2 DEF SumFor
  <2>4. NodeOf(k, SumFor(q, m, k)).data = SumFor(q, m, k)
    BY DEF NodeOf
  <2>5. proc_lustre_parsestat(g, op) = SumFor(q, m, k)
    BY <1>9, <2>2, <2>3, <2>4
  <2> QED
    BY <1>10, <1>11, <2>1, <2>5
<1>12. CASE Naming(m, ks) = {} /\ Naming(q, ks) # {}
  <2>1. PICK k, v : k = LastOf(q, ks).key /\ v = LastOf(q, ks).val
    OBVIOUS
  <2>2. Leads(c, ks, NodeOf(k, v))
    BY <1>3, <1>12, <2>1 DEF Chained
  <2>3. LastValue(q, ks) \in Nat
    BY LastType
  <2>4. LastValue(q, ks) = v
    BY <1>12, <2>1 DEF LastValue
  <2>5. NodeOf(k, v).data = v
    BY DEF NodeOf
  <2>6. proc_lustre_parsestat(g, op) = v
    BY <1>9, <2>2, <2>3, <2>4, <2>5
  <2> QED
    BY <1>10, <1>12, <2>4, <2>6
<1>13. CASE Naming(m, ks) = {} /\ Naming(q, ks) = {}
  <2>1. Without(c, ks)
    BY <1>3, <1>13 DEF Chained
  <2>2. LastValue(q, ks) = 0
    BY <1>13 DEF LastValue
  <2> QED
    BY <1>8, <1>10, <1>13, <2>1, <2>2
<1> QED
  BY <1>11, <1>12, <1>13

-----------------------------------------------------------------------------
(* The statistics of a target are still to be read, or the exports are      *)
(* being added to them, or they are as they are going to be reported.       *)

Reads == {"stats", "export"}

\* No step of p reads statistics or the version that decides how.
Quiet(p) == \A j \in 1 .. Len(p) : p[j].op \notin Reads /\ p[j].file # "lv"
SameVersion(p) == \A j \in 1 .. Len(p) : p[j].file # "lv"

\* One step of p reads statistics.
Single(p, op) ==
    \E i \in 1 .. Len(p) :
        /\ p[i].op = op
        /\ \A j \in 1 .. i - 1 : p[j].op \notin Reads
        /\ \A j \in i + 1 .. Len(p) : p[j].op \notin Reads /\ p[j].file # "lv"

Renames(m, v) == m = "mdt" /\ v \notin {"none", "1.8"}

Adding(m, v, h, r) ==
    /\ Renames(m, v)
    /\ r \in [stats : Seq(Line), exports : Seq(Line)]
    /\ \A op \in Range(MdtOp) : Tab(h, slot(op), r.stats, r.exports, Spellings(op))

Told(m, v, h, r) ==
    \A key \in Range(IF m = "ost" THEN OstKey ELSE MdtOp) :
        proc_lustre_parsestat(h, key) =
            IF Renames(m, v) THEN Reported(r.stats, r.exports, key)
                             ELSE LastValue(r.stats, {key})

StatsOf(m, p, v, h, r) ==
    \/ Single(p, "stats")
    \/ Single(p, "export") /\ SameVersion(p) /\ Adding(m, v, h, r)
    \/ Quiet(p) /\ Told(m, v, h, r)

\* The state is that of a target with statistics.
Collects(c, m, p) ==
    c = "call" /\ m \in {"ost", "mdt"} /\ p # <<>> /\ p[Len(p)].op = "encode"

StatsInv ==
    /\ ver \in Version
    /\ Collects(pc, metric, prog) => StatsOf(metric, prog, lv, stats, raw)

(* A tail, and what one step that reads statistics leaves.                  *)
LEMMA TailOf ==
    ASSUME NEW p \in Seq(AnyStep), NEW op \in Reads
    PROVE  /\ Quiet(p) => Quiet(Tail(p))
           /\ SameVersion(p) => SameVersion(Tail(p))
           /\ Single(p, op) /\ p[1].op \notin Reads => Single(Tail(p), op)
           /\ Single(p, op) /\ p[1].op \in Reads => p[1].op = op /\ Quiet(Tail(p))
<1>1. CASE p = <<>>
  <2>1. Len(p) = 0 /\ 1 .. 0 = {}
    BY <1>1
  <2>2. ~Single(p, op)
    BY <2>1 DEF Single
  <2>3. Len(Tail(p)) = 0
    BY <1>1
  <2>4. Quiet(Tail(p)) /\ SameVersion(Tail(p))
    BY <2>1, <2>3 DEF Quiet, SameVersion
  <2> QED
    BY <2>2, <2>4
<1>2. CASE p # <<>>
  <2>1. PICK l, q : l = Len(p) /\ q = Tail(p)
    OBVIOUS
  <2>2. /\ l \in Nat /\ l >= 1 /\ Len(q) = l - 1
        /\ \A i \in 1 .. l - 1 : i + 1 \in 1 .. l /\ q[i] = p[i + 1]
    BY <1>2, <2>1
  <2>3. ASSUME Quiet(p) PROVE Quiet(q)
    BY <2>1, <2>2, <2>3 DEF Quiet
  <2>4. ASSUME SameVersion(p) PROVE SameVersion(q)
    BY <2>1, <2>2, <2>4 DEF SameVersion
  <2>5. ASSUME NEW i \in 1 .. l, p[i].op = op,
               \A j \in 1 .. i - 1 : p[j].op \notin Reads,
               \A j \in i + 1 .. l : p[j].op \notin Reads /\ p[j].file # "lv"
        PROVE  /\ p[1].op \notin Reads => Single(q, op)
               /\ p[1].op \in Reads => p[1].op = op /\ Quiet(q)
    <3>1. CASE i = 1
      <4>1. ASSUME NEW j \in 1 .. l - 1 PROVE q[j].op \notin Reads /\ q[j].file # "lv"
        <5>1. j + 1 \in i + 1 .. l /\ q[j] = p[j + 1]
          BY <2>2, <3>1
        <5> QED
          BY <2>5, <5>1
      <4>2. Quiet(q)
        BY <2>2, <4>1 DEF Quiet
      <4> QED
        BY <2>5, <3>1, <4>2
    <3>2. CASE i # 1
      <4>1. 1 \in 1 .. i - 1 /\ i - 1 \in 1 .. l - 1 /\ (i - 1) + 1 = i
        BY <2>2, <3>2
      <4>2. p[1].op \notin Reads /\ q[i - 1].op = op
        BY <2>2, <2>5, <4>1
      <4>3. ASSUME NEW j \in 1 .. (i - 1) - 1 PROVE q[j].op \notin Reads
        <5>1. j + 1 \in 1 .. i - 1 /\ j \in 1 .. l - 1
          BY <2>2, <3>2
        <5> QED
          BY <2>2, <2>5, <5>1
      <4>4. ASSUME NEW j \in (i - 1) + 1 .. l - 1
            PROVE  q[j].op \notin Reads /\ q[j].file # "lv"
        <5>1. j + 1 \in i + 1 .. l /\ j \in 1 .. l - 1
          BY <2>2, <3>2
        <5> QED
          BY <2>2, <2>5, <5>1
      <4>5. Single(q, op)
        BY <2>2, <4>1, <4>2, <4>3, <4>4 DEF Single
      <4> QED
        BY <4>2, <4>5
    <3> QED
      BY <3>1, <3>2
  <2> QED
    BY <2>1, <2>3, <2>4, <2>5 DEF Single
<1> QED
  BY <1>1, <1>2

(* Programs put together.                                                   *)
LEMMA SingleIn ==
    ASSUME NEW p \in Seq(AnyStep), NEW q \in Seq(AnyStep), NEW op
    PROVE  /\ Single(p, op) /\ Quiet(q) => Single(p \o q, op)
           /\ Single(q, op) /\ (\A i \in 1 .. Len(p) : p[i].op \notin Reads) => Single(p \o q, op)
           /\ SameVersion(p) /\ SameVersion(q) => SameVersion(p \o q)
<1>1. PICK m, n, r : m = Len(p) /\ n = Len(q) /\ r = p \o q
  OBVIOUS
<1>2. /\ m \in Nat /\ n \in Nat /\ Len(r) = m + n
      /\ \A i \in 1 .. m + n : r[i] = IF i <= m THEN p[i] ELSE q[i - m]
  BY <1>1, ConcatProperties
<1>3. ASSUME NEW i \in 1 .. m PROVE i \in 1 .. m + n /\ r[i] = p[i]
  <2>1. i \in 1 .. m + n /\ i <= m
    BY <1>2
  <2> QED
    BY <1>2, <2>1
<1>4. ASSUME NEW i \in m + 1 .. m + n PROVE i - m \in 1 .. n /\ r[i] = q[i - m]
  <2>1. i \in 1 .. m + n /\ ~(i <= m) /\ i - m \in 1 .. n
    BY <1>2
  <2> QED
    BY <1>2, <2>1
<1>5. ASSUME Single(p, op), Quiet(q) PROVE Single(r, op)
  <2>1. PICK i \in 1 .. m : /\ p[i].op = op
                            /\ \A j \in 1 .. i - 1 : p[j].op \notin Reads
                            /\ \A j \in i + 1 .. m : p[j].op \notin Reads /\ p[j].file # "lv"
    BY <1>1, <1>5 DEF Single
  <2>2. ASSUME NEW j \in 1 .. i - 1 PROVE r[j].op \notin Reads
    <3>1. j \in 1 .. m
      BY <1>2
    <3> QED
      BY <1>3, <2>1, <3>1
  <2>3. ASSUME NEW j \in i + 1 .. m + n PROVE r[j].op \notin Reads /\ r[j].file # "lv"
    <3>1. CASE j <= m
      <4>1. j \in 1 .. m /\ j \in i + 1 .. m
        BY <1>2, <3>1
      <4> QED
        BY <1>3, <2>1, <4>1
    <3>2. CASE j > m
      <4>1. j \in m + 1 .. m + n
        BY <1>2, <3>2
      <4> QED
        BY <1>1, <1>4, <1>5, <4>1 DEF Quiet
    <3> QED
      BY <1>2, <3>1, <3>2
  <2> QED
    BY <1>2, <1>3, <2>1, <2>2, <2>3 DEF Single
<1>6. ASSUME Single(q, op), \A i \in 1 .. Len(p) : p[i].op \notin Reads PROVE Single(r, op)
  <2>1. PICK i \in 1 .. n : /\ q[i].op = op
                            /\ \A j \in 1 .. i - 1 : q[j].op \notin Reads
                            /\ \A j \in i + 1 .. n : q[j].op \notin Reads /\ q[j].file # "lv"
    BY <1>1, <1>6 DEF Single
  <2>2. PICK k : k = i + m
    OBVIOUS
  <2>3. k \in 1 .. m + n /\ k \in m + 1 .. m + n /\ k - m = i
    BY <1>2, <2>2
  <2>4. r[k].op = op
    BY <1>4, <2>1, <2>3
  <2>5. ASSUME NEW j \in 1 .. k - 1 PROVE r[j].op \notin Reads
    <3>1. CASE j <= m
      <4>1. j \in 1 .. m
        BY <1>2, <3>1
      <4> QED
        BY <1>1, <1>3, <1>6, <4>1
    <3>2. CASE j > m
      <4>1. j \in m + 1 .. m + n /\ j - m \in 1 .. i - 1
        BY <1>2, <2>2, <3>2
      <4> QED
        BY <1>4, <2>1, <4>1
    <3> QED
      BY <1>2, <2>3, <3>1, <3>2
  <2>6. ASSUME NEW j \in k + 1 .. m + n PROVE r[j].op \notin Reads /\ r[j].file # "lv"
    <3>1. j \in m + 1 .. m + n /\ j - m \in i + 1 .. n
      BY <1>2, <2>2
    <3> QED
      BY <1>4, <2>1, <3>1
  <2> QED
    BY <1>2, <2>3, <2>4, <2>5, <2>6 DEF Single
<1>7. ASSUME SameVersion(p), SameVersion(q) PROVE SameVersion(r)
  <2> SUFFICES ASSUME NEW j \in 1 .. m + n PROVE r[j].file # "lv"
    BY <1>2 DEF SameVersion
  <2>1. CASE j <= m
    <3>1. j \in 1 .. m
      BY <1>2, <2>1
    <3> QED
      BY <1>1, <1>3, <1>7, <3>1 DEF SameVersion
  <2>2. CASE j > m
    <3>1. j \in m + 1 .. m + n
      BY <1>2, <2>2
    <3> QED
      BY <1>1, <1>4, <1>7, <3>1 DEF SameVersion
  <2> QED
    BY <1>2, <2>1, <2>2
<1> QED
  BY <1>1, <1>5, <1>6, <1>7

(* The program of a target reads statistics once,                           *)
LEMMA ItemReads ==
    ASSUME NEW k \in {"ost", "mdt"}
    PROVE  Single(Item[k], "stats")
<1> DEFINE V == [op : {"version", "read", "optional", "ldlm", "encode"},
                 file : FileName \ {"lv"}]
           enc == S("encode", "")
<1>0. PICK none \in FileName \ {"lv"} : enc = S("encode", none)
  BY Zenon DEF FileName
<1> HIDE DEF enc
<1>1. /\ \A f \in FileName \ {"lv"} : /\ S("read", f) \in V /\ S("optional", f) \in V
                                      /\ S("ldlm", f) \in V /\ S("version", f) \in V
                                      /\ S("encode", f) \in V
      /\ V \subseteq AnyStep
      /\ \A t \in V : t.op \notin Reads /\ t.file # "lv"
  BY DEF S, AnyStep, HeadOps, ItemOps, Reads
<1> HIDE DEF V
<1>2. /\ "path" \in FileName /\ "again" \in FileName /\ "uuid" \in FileName
      /\ "filesfree" \in FileName /\ "filestotal" \in FileName
      /\ "kbytesfree" \in FileName /\ "kbytestotal" \in FileName
      /\ "num_exports" \in FileName /\ "lock_count" \in FileName
      /\ "grant_rate" \in FileName /\ "cancel_rate" \in FileName
      /\ "recovery_status" \in FileName /\ "brw_stats" \in FileName
      /\ "stats" \in FileName /\ "md_stats" \in FileName /\ "lv" \in FileName
  BY Zenon DEF FileName
<1>3. Path \in V /\ Again \in V /\ enc \in V
  BY <1>0, <1>1, <1>2 DEF Path, Again
<1>4. ASSUME NEW f \in FileName \ {"lv"}, NEW kk PROVE ReadOne(kk, f) \in Seq(V)
  BY <1>1, <1>3 DEF ReadOne
<1>5. /\ proc_lustre_uuid("ost") \in Seq(V) /\ proc_lustre_uuid("mdt") \in Seq(V)
      /\ proc_lustre_num_exports("ost") \in Seq(V)
      /\ get_recovstr("ost") \in Seq(V) /\ get_recovstr("mdt") \in Seq(V)
  BY <1>2, <1>4 DEF proc_lustre_uuid, proc_lustre_num_exports, get_recovstr,
     proc_lustre_hashrecov
<1>6. ASSUME NEW kk
      PROVE  proc_lustre_files(kk) \in Seq(V) /\ proc_lustre_kbytes(kk) \in Seq(V)
  <2>1. /\ ReadOne(kk, "filesfree") \in Seq(V) /\ ReadOne(kk, "filestotal") \in Seq(V)
        /\ ReadOne(kk, "kbytesfree") \in Seq(V) /\ ReadOne(kk, "kbytestotal") \in Seq(V)
    BY <1>2, <1>4
  <2> QED
    BY <2>1, ConcatProperties DEF proc_lustre_files, proc_lustre_kbytes
<1>7. /\ proc_lustre_ldlm \in Seq(V) /\ _get_iops \in Seq(V) /\ <<enc>> \in Seq(V)
  BY <1>1, <1>2, <1>3 DEF proc_lustre_ldlm, _get_iops
<1>8. ASSUME NEW q \in Seq(V)
      PROVE  /\ q \in Seq(AnyStep) /\ Quiet(q)
             /\ \A i \in 1 .. Len(q) : q[i].op \notin Reads
  <2>1. q \in Seq(AnyStep) /\ \A i \in 1 .. Len(q) : q[i] \in V
    BY <1>1
  <2> QED
    BY <1>1, <2>1 DEF Quiet
<1>9. ASSUME NEW p \in Seq(AnyStep), Single(p, "stats"), NEW q \in Seq(V)
      PROVE  p \o q \in Seq(AnyStep) /\ Single(p \o q, "stats")
  <2>1. q \in Seq(AnyStep) /\ Quiet(q)
    BY <1>8
  <2>2. Single(p \o q, "stats")
    BY <1>9, <2>1, SingleIn
  <2> QED
    BY <2>1, <2>2, ConcatProperties
<1>10. ASSUME NEW p \in Seq(V), NEW q \in Seq(AnyStep), Single(q, "stats")
       PROVE  p \o q \in Seq(AnyStep) /\ Single(p \o q, "stats")
  <2>1. p \in Seq(AnyStep) /\ \A i \in 1 .. Len(p) : p[i].op \notin Reads
    BY <1>8
  <2>2. Single(p \o q, "stats")
    BY <1>10, <2>1, SingleIn
  <2> QED
    BY <2>1, <2>2, ConcatProperties
<1>11. CASE k = "ost"
  <2>1. PICK st : st = <<S("stats", "stats")>>
    OBVIOUS
  <2>2. st \in Seq(AnyStep) /\ Single(st, "stats")
    <3>1. S("stats", "stats") \in AnyStep /\ S("stats", "stats").op = "stats"
      BY <1>2 DEF S, AnyStep, ItemOps
    <3>2. /\ st \in Seq(AnyStep) /\ Len(st) = 1 /\ st[1].op = "stats"
          /\ 1 .. 1 - 1 = {} /\ 1 + 1 .. 1 = {}
      BY <2>1, <3>1
    <3> QED
      BY <3>2 DEF Single
  <2>3. PICK a, b, c, d, e, f, g : /\ a = proc_lustre_uuid("ost") /\ b = _get_iops
            /\ c = proc_lustre_files("ost") /\ d = proc_lustre_kbytes("ost")
            /\ e = proc_lustre_num_exports("ost") /\ f = proc_lustre_ldlm
            /\ g = get_recovstr("ost")
    OBVIOUS
  <2>4. PICK z : z = <<enc>>
    OBVIOUS
  <2>5. /\ a \in Seq(V) /\ b \in Seq(V) /\ c \in Seq(V) /\ d \in Seq(V) /\ e \in Seq(V)
        /\ f \in Seq(V) /\ g \in Seq(V) /\ z \in Seq(V)
    BY <1>5, <1>6, <1>7, <2>3, <2>4
  <2>6. Item[k] = a \o st \o b \o c \o d \o e \o f \o g \o z
    <3>1. Item[k] = proc_lustre_uuid("ost") \o <<S("stats", "stats")>> \o _get_iops
                      \o proc_lustre_files("ost") \o proc_lustre_kbytes("ost")
                      \o proc_lustre_num_exports("ost") \o proc_lustre_ldlm
                      \o get_recovstr("ost") \o <<enc>>
      BY <1>11, Zenon DEF Item, _get_oststring_v2, enc
    <3> QED
      BY <2>1, <2>3, <2>4, <3>1
  <2>7. a \o st \in Seq(AnyStep) /\ Single(a \o st, "stats")
    BY <1>10, <2>2, <2>5
  <2>8. PICK p : p = a \o st
    OBVIOUS
  <2>9. p \o b \in Seq(AnyStep) /\ Single(p \o b, "stats")
    BY <1>9, <2>5, <2>7, <2>8
  <2>10. p \o b \o c \in Seq(AnyStep) /\ Single(p \o b \o c, "stats")
    BY <1>9, <2>5, <2>9
  <2>11. p \o b \o c \o d \in Seq(AnyStep) /\ Single(p \o b \o c \o d, "stats")
    BY <1>9, <2>5, <2>10
  <2>12. p \o b \o c \o d \o e \in Seq(AnyStep) /\ Single(p \o b \o c \o d \o e, "stats")
    BY <1>9, <2>5, <2>11
  <2>13. /\ p \o b \o c \o d \o e \o f \in Seq(AnyStep)
         /\ Single(p \o b \o c \o d \o e \o f, "stats")
    BY <1>9, <2>5, <2>12
  <2>14. /\ p \o b \o c \o d \o e \o f \o g \in Seq(AnyStep)
         /\ Single(p \o b \o c \o d \o e \o f \o g, "stats")
    BY <1>9, <2>5, <2>13
  <2>15. Single(p \o b \o c \o d \o e \o f \o g \o z, "stats")
    BY <1>9, <2>5, <2>14
  <2> QED
    BY <2>6, <2>8, <2>15
<1>12. CASE k = "mdt"
  <2>1. PICK st : st = <<Lv, Path, Again, S("stats", "md_stats")>>
    OBVIOUS
  <2>2. st \in Seq(AnyStep) /\ Single(st, "stats")
    <3>1. /\ S("stats", "md_stats") \in AnyStep /\ S("stats", "md_stats").op = "stats"
          /\ Lv \in AnyStep /\ Lv.op \notin Reads
      BY <1>2 DEF S, Lv, AnyStep, HeadOps, ItemOps, Reads
    <3>2. Path \in AnyStep /\ Again \in AnyStep /\ Path.op \notin Reads /\ Again.op \notin Reads
      BY <1>1, <1>3
    <3>3. /\ st \in Seq(AnyStep) /\ Len(st) = 4 /\ st[4].op = "stats"
          /\ st[1].op \notin Reads /\ st[2].op \notin Reads /\ st[3].op \notin Reads
      BY <2>1, <3>1, <3>2
    <3>4. /\ \A j \in 1 .. 4 - 1 : j = 1 \/ j = 2 \/ j = 3
          /\ 4 + 1 .. 4 = {} /\ 4 \in 1 .. 4
      OBVIOUS
    <3> QED
      BY <3>3, <3>4 DEF Single
  <2>3. PICK a, b, c, d : /\ a = proc_lustre_uuid("mdt") /\ b = proc_lustre_files("mdt")
            /\ c = proc_lustre_kbytes("mdt") /\ d = get_recovstr("mdt")
    OBVIOUS
  <2>4. PICK z : z = <<enc>>
    OBVIOUS
  <2>5. a \in Seq(V) /\ b \in Seq(V) /\ c \in Seq(V) /\ d \in Seq(V) /\ z \in Seq(V)
    BY <1>5, <1>6, <1>7, <2>3, <2>4
  <2>6. Item[k] = a \o b \o c \o st \o d \o z
    <3>1. Item[k] = proc_lustre_uuid("mdt") \o proc_lustre_files("mdt")
                      \o proc_lustre_kbytes("mdt")
                      \o <<Lv, Path, Again, S("stats", "md_stats")>> \o get_recovstr("mdt")
                      \o <<enc>>
      BY <1>12, Zenon DEF Item, _get_mdtstring, enc
    <3> QED
      BY <2>1, <2>3, <2>4, <3>1
  <2>7. a \o b \o c \in Seq(V)
    BY <2>5, ConcatProperties
  <2>8. PICK p : p = a \o b \o c \o st
    OBVIOUS
  <2>9. p \in Seq(AnyStep) /\ Single(p, "stats")
    BY <1>10, <2>2, <2>7, <2>8
  <2>10. p \o d \in Seq(AnyStep) /\ Single(p \o d, "stats")
    BY <1>9, <2>5, <2>9
  <2>11. Single(p \o d \o z, "stats")
    BY <1>9, <2>5, <2>10
  <2> QED
    BY <2>6, <2>8, <2>11
<1> QED
  BY <1>11, <1>12

(* and for an old server the exports after that.                            *)
LEMMA AggregateReads ==
    ASSUME NEW p \in Seq(AnyStep), Quiet(p)
    PROVE  Single(Aggregate \o p, "export") /\ SameVersion(Aggregate \o p)
<1>1. PICK a : a = Aggregate
  OBVIOUS
<1>2. /\ a \in Seq(AnyStep) /\ Len(a) = 4 /\ a[4].op = "export"
      /\ a[1].op \notin Reads /\ a[2].op \notin Reads /\ a[3].op \notin Reads
      /\ a[1].file # "lv" /\ a[2].file # "lv" /\ a[3].file # "lv" /\ a[4].file # "lv"
  <2>1. /\ "path" \in FileName /\ "again" \in FileName /\ "exports" \in FileName
        /\ "stats" \in FileName
    BY DEF FileName
  <2>2. /\ Path \in AnyStep /\ Again \in AnyStep
        /\ S("exports", "exports") \in AnyStep /\ S("export", "stats") \in AnyStep
        /\ Path.op \notin Reads /\ Again.op \notin Reads
        /\ S("exports", "exports").op \notin Reads /\ S("export", "stats").op = "export"
        /\ Path.file # "lv" /\ Again.file # "lv"
        /\ S("exports", "exports").file # "lv" /\ S("export", "stats").file # "lv"
    BY <2>1 DEF Path, Again, S, AnyStep, HeadOps, ItemOps, Reads
  <2>3. a = <<Path, Again, S("exports", "exports"), S("export", "stats")>>
    BY <1>1 DEF Aggregate
  <2> QED
    BY <2>2, <2>3
<1>3. /\ \A j \in 1 .. 4 - 1 : j = 1 \/ j = 2 \/ j = 3
      /\ \A j \in 1 .. 4 : j = 1 \/ j = 2 \/ j = 3 \/ j = 4
      /\ 4 + 1 .. 4 = {} /\ 4 \in 1 .. 4
  OBVIOUS
<1>4. Single(a, "export") /\ SameVersion(a)
  BY <1>2, <1>3 DEF Single, SameVersion
<1>5. SameVersion(p)
  BY DEF Quiet, SameVersion
<1> QED
  BY <1>1, <1>2, <1>4, <1>5, SingleIn

-----------------------------------------------------------------------------
(* Steps of a call that do not read statistics leave them as they are.      *)
Untouched == metric' = metric /\ stats' = stats /\ raw' = raw

(* A call that is over, or that ends without a text, owes no statistics.    *)
LEMMA OffDuty ==
    ASSUME StatsInv, ver' = ver,
           pc' # "call" \/ prog' = <<>> \/ prog'[Len(prog')].op # "encode"
    PROVE  StatsInv'
BY DEF StatsInv, Collects

(* A call that fails is over.                                               *)
LEMMA FailsOff ==
    ASSUME StatsInv, ver' = ver, Fail
    PROVE  StatsInv'
<1>1. pc' # "call"
  BY DEF Fail, proc_destroy
<1> QED
  BY <1>1, OffDuty

(* The last step of a program is the last one of what is left of it.        *)
LEMMA LastOfTail ==
    ASSUME NEW p \in Seq(AnyStep), Tail(p) # <<>>
    PROVE  p # <<>> /\ Tail(p)[Len(Tail(p))] = p[Len(p)]
<1>1. CASE p = <<>>
  BY <1>1
<1>2. CASE p # <<>>
  <2>1. PICK l, q : l = Len(p) /\ q = Tail(p)
    OBVIOUS
  <2>2. /\ l \in Nat /\ l >= 1 /\ Len(q) = l - 1 /\ q # <<>>
        /\ \A i \in 1 .. l - 1 : q[i] = p[i + 1]
    BY <1>2, <2>1
  <2>3. l - 1 # 0
    BY <1>2, <2>1, <2>2
  <2>4. l - 1 \in 1 .. l - 1 /\ (l - 1) + 1 = l
    BY <2>2, <2>3
  <2>5. q[Len(q)] = p[l]
    BY <2>2, <2>4
  <2> QED
    BY <1>2, <2>1, <2>5
<1> QED
  BY <1>1, <1>2

(* A step that reads no statistics and renames nothing leaves what is owed. *)
LEMMA StepsOver ==
    ASSUME CallInv, StatsInv, pc = "call", prog[1].op \notin Reads,
           prog' = Tail(prog), Untouched, ver' = ver, lv' = lv \/ prog[1].file = "lv"
    PROVE  StatsInv'
<1>1. prog \in Seq(AnyStep)
  BY DEF CallInv, IInv, CallType
<1>2. SUFFICES ASSUME Collects(pc', metric', prog')
               PROVE  StatsOf(metric', prog', lv', stats', raw')
  BY DEF StatsInv
<1>3. /\ metric' = metric /\ metric \in {"ost", "mdt"}
      /\ prog' # <<>> /\ prog'[Len(prog')].op = "encode"
  BY <1>2 DEF Collects, Untouched
<1>4. prog # <<>> /\ prog[Len(prog)].op = "encode"
  BY <1>1, <1>3, LastOfTail
<1>5. StatsOf(metric, prog, lv, stats, raw)
  BY <1>3, <1>4 DEF StatsInv, Collects
<1>6. prog[1].file # "lv" => lv' = lv
  OBVIOUS
<1>7. {"stats", "export"} = Reads /\ 1 \in 1 .. Len(prog)
  BY <1>1, <1>4 DEF Reads
<1>8. CASE Single(prog, "stats")
  <2>1. Single(prog', "stats")
    BY <1>1, <1>7, <1>8, TailOf
  <2> QED
    BY <2>1 DEF StatsOf
<1>9. CASE Single(prog, "export") /\ SameVersion(prog) /\ Adding(metric, lv, stats, raw)
  <2>1. Single(prog', "export") /\ SameVersion(prog')
    BY <1>1, <1>7, <1>9, TailOf
  <2>2. lv' = lv
    BY <1>6, <1>7, <1>9 DEF SameVersion
  <2> QED
    BY <1>9, <2>1, <2>2 DEF StatsOf, Untouched
<1>10. CASE Quiet(prog) /\ Told(metric, lv, stats, raw)
  <2>1. Quiet(prog')
    BY <1>1, <1>7, <1>10, TailOf
  <2>2. lv' = lv
    BY <1>6, <1>7, <1>10 DEF Quiet
  <2> QED
    BY <1>10, <2>1, <2>2 DEF StatsOf, Untouched
<1> QED
  BY <1>5, <1>8, <1>9, <1>10 DEF StatsOf

(* A step that is repeated, with nothing read yet, leaves what is owed.     *)
LEMMA SameStats ==
    ASSUME StatsInv, pc' = pc, prog' = prog, Untouched, ver' = ver, lv' = lv
    PROVE  StatsInv'
BY DEF StatsInv, Untouched

(* All steps but the two that read statistics and the two that print.       *)
LEMMA QuietSteps ==
    ASSUME CallInv, StatsInv,
           \/ _read_lustre_version_string \/ ProcExists \/ _subdirlist \/ NodeUsage
           \/ ReadFile \/ ReadLdlm \/ ReadBrwStats \/ proc_lustre_mdt_exportlist
    PROVE  StatsInv'
<1>1. CASE _read_lustre_version_string
  <2>1. /\ pc = "call" /\ prog[1].op = "version" /\ pc' = pc /\ ver' = ver /\ Untouched
        /\ \/ prog' = prog /\ lv' = lv
           \/ prog' = Tail(prog) /\ (lv' = lv \/ prog[1].file = "lv")
    BY <1>1 DEF _read_lustre_version_string, Opens, env, Untouched
  <2>2. prog[1].op \notin Reads
    BY <2>1 DEF Reads
  <2> QED
    BY <2>1, <2>2, StepsOver, SameStats
<1>2. CASE ~_read_lustre_version_string
  <2>1. /\ pc = "call" /\ ver' = ver
        /\ prog[1].op \in {"exists", "list", "node", "read", "ldlm", "optional", "exports"}
        /\ Fail \/ (prog' = Tail(prog) /\ Untouched /\ lv' = lv)
    <3>1. CASE ProcExists
      BY <3>1 DEF ProcExists, Opens, Proceed, env, Untouched, Locals
    <3>2. CASE _subdirlist
      BY <3>2 DEF _subdirlist, Opens, Proceed, env, Untouched, Locals
    <3>3. CASE NodeUsage
      BY <3>3 DEF NodeUsage, Opens, Proceed, ReadError, env, Untouched, Locals
    <3>4. CASE ReadFile
      BY <3>4 DEF ReadFile, Opens, Proceed, ReadError, env, Untouched, Locals
    <3>5. CASE ReadLdlm
      BY <3>5 DEF ReadLdlm, Opens, Proceed, ReadError, env, Untouched, Locals
    <3>6. CASE ReadBrwStats
      BY <3>6 DEF ReadBrwStats, Opens, Proceed, env, Untouched, call, Locals
    <3>7. CASE proc_lustre_mdt_exportlist
      BY <3>7 DEF proc_lustre_mdt_exportlist, Opens, Proceed, env, Untouched, Locals
    <3> QED
      BY <1>2, <3>1, <3>2, <3>3, <3>4, <3>5, <3>6, <3>7
  <2>2. prog[1].op \notin Reads
    BY <2>1 DEF Reads
  <2> QED
    BY <2>1, <2>2, StepsOver, FailsOff
<1> QED
  BY <1>1, <1>2

(* A new target: its statistics are still to be read.                       *)
LEMMA NewTarget ==
    ASSUME StatsInv, ver' = ver, metric' = metric, prog' = Item[metric]
    PROVE  StatsInv'
<1> SUFFICES ASSUME Collects(pc', metric', prog')
             PROVE  StatsOf(metric', prog', lv', stats', raw')
  BY DEF StatsInv
<1>1. metric \in {"ost", "mdt"}
  BY DEF Collects
<1>2. Single(prog', "stats")
  BY <1>1, ItemReads
<1> QED
  BY <1>2 DEF StatsOf

(* Printing the header or a target goes on to the next target, of which     *)
(* nothing is read yet.                                                     *)
LEMMA PrintSteps ==
    ASSUME StatsInv, PrintHead \/ Encode
    PROVE  StatsInv'
<1>1. CASE PrintHead
  <2>1. ver' = ver /\ metric' = metric /\ prog' = Item[metric]
    BY <1>1 DEF PrintHead, env
  <2> QED
    BY <2>1, NewTarget
<1>2. CASE Encode
  <2>1. /\ ver' = ver /\ metric' = metric
        /\ Fail \/ prog' = Item[metric] \/ proc_destroy("deliver")
    BY <1>2 DEF Encode, env
  <2>2. ASSUME proc_destroy("deliver") PROVE pc' # "call"
    BY <2>2 DEF proc_destroy
  <2> QED
    BY <2>1, <2>2, FailsOff, NewTarget, OffDuty
<1> QED
  BY <1>1, <1>2

-----------------------------------------------------------------------------
(* The two steps that do read statistics.                                   *)

(* The slot in which a key is looked up is one of the table.                *)
LEMMA SlotIs ==
    ASSUME NEW key \in Range(OstKey) \cup Range(MdtOp)
    PROVE  InSlot({key}, slot(key))
<1>1. key \in Seq(Nat) /\ key_f(key) = hash_key_string(key) /\ Size = 64
  BY StatsAssumption
<1>2. hash_key_string(key) \in Nat
  BY <1>1, HashIs
<1>3. hash_key_string(key) % 64 \in 0 .. 64 - 1
  BY <1>2
<1> QED
  BY <1>1, <1>3 DEF InSlot, slot, Slot

(* A hash whose keys are left alone gives the last value of each.           *)
LEMMA PlainTold ==
    ASSUME NEW key \in Range(OstKey) \cup Range(MdtOp), NEW lines \in Seq(Line),
           NEW h, h = _hash_stats(hash_create, lines)
    PROVE  proc_lustre_parsestat(h, key) = LastValue(lines, {key})
<1>1. PICK K, s : K = {key} /\ s = slot(key)
  OBVIOUS
<1>2. NULL \notin Nat /\ InSlot(K, s)
  BY <1>1, SlotIs, StatsAssumption
<1>3. Tab(h, s, lines, <<>>, K)
  BY <1>2, HashStats
<1>4. PICK c : c = h.table[s]
  OBVIOUS
<1>5. c \in Seq(HashNode) /\ Sound(c, lines, <<>>, K)
  BY <1>3, <1>4 DEF Tab, ChainOk
<1>6. PICK m : m = <<>>
  OBVIOUS
<1>7. m \in Seq(Line) /\ Naming(m, {key}) = {}
  BY <1>6 DEF Naming
<1>8. proc_lustre_parsestat(h, key) = SumFor(lines, m, key)
  <2>1. NULL \notin Nat /\ key \in K /\ c = h.table[slot(key)] /\ Sound(c, lines, m, K)
    BY <1>1, <1>2, <1>4, <1>5, <1>6
  <2> QED
    BY <1>5, <1>7, <2>1, SoundFind
<1>9. SumOf(m, key) = 0
  BY <1>7, SumIs
<1>10. LastValue(lines, {key}) \in Nat
  BY LastType
<1> QED
  BY <1>8, <1>9, <1>10 DEF SumFor

(* A stats file whose keys stay as they are: each is looked up as its last  *)
(* line says.                                                               *)
LEMMA TellsPlain ==
    ASSUME NEW lines \in Seq(Line), NEW h, h = _hash_stats(hash_create, lines),
           NEW m, NEW v, ~Renames(m, v), NEW r, r.stats = lines
    PROVE  Told(m, v, h, r)
<1> SUFFICES ASSUME NEW key \in Range(IF m = "ost" THEN OstKey ELSE MdtOp)
             PROVE  proc_lustre_parsestat(h, key) = LastValue(lines, {key})
  BY DEF Told
<1>1. key \in Range(OstKey) \cup Range(MdtOp)
  OBVIOUS
<1> QED
  BY <1>1, PlainTold

(* The hash of an MDT once the prefixes are cut off.                        *)
LEMMA TellsRenamed ==
    ASSUME NEW m, NEW v, NEW h, NEW r, Adding(m, v, h, r),
           NEW g, g = hash_for_each(h, _rekey_mdt_stats)
    PROVE  Told(m, v, g, r)
<1>1. m = "mdt" /\ Renames(m, v)
  BY DEF Adding, Renames
<1>2. PICK q, x : q = r.stats /\ x = r.exports
  OBVIOUS
<1>3. q \in Seq(Line) /\ x \in Seq(Line)
  BY <1>2 DEF Adding
<1>4. ASSUME NEW op \in Range(MdtOp)
      PROVE  proc_lustre_parsestat(g, op) = Reported(q, x, op)
  <2>1. Tab(h, slot(op), q, x, Spellings(op))
    BY <1>2 DEF Adding
  <2> QED
    BY <1>3, <2>1, Renamed
<1> QED
  BY <1>1, <1>2, <1>4 DEF Told

(* The stats file of an MDT whose exports are to be added to it.            *)
LEMMA StartsAdding ==
    ASSUME NEW lines \in Seq(Line), NEW h, h = _hash_stats(hash_create, lines),
           NEW m, NEW v, Renames(m, v), NEW r, r = [stats |-> lines, exports |-> <<>>]
    PROVE  Adding(m, v, h, r)
<1>1. r \in [stats : Seq(Line), exports : Seq(Line)] /\ r.stats = lines /\ r.exports = <<>>
  OBVIOUS
<1>2. ASSUME NEW op \in Range(MdtOp)
      PROVE  Tab(h, slot(op), lines, <<>>, Spellings(op))
  <2>1. PICK K, s : K = Spellings(op) /\ s = slot(op)
    OBVIOUS
  <2>2. NULL \notin Nat /\ InSlot(K, s)
    BY <2>1, SlotAlike, StatsAssumption
  <2>3. Tab(h, s, lines, <<>>, K)
    BY <2>2, HashStats
  <2> QED
    BY <2>1, <2>3
<1> QED
  BY <1>1, <1>2 DEF Adding

(* One more export is added.                                                *)
LEMMA AddsOne ==
    ASSUME NEW m, NEW v, NEW h, NEW r, Adding(m, v, h, r), NEW lines \in Seq(Line),
           NEW g, g = _hash_aggregate_stats(h, lines),
           NEW e, e = [r EXCEPT !.exports = @ \o lines]
    PROVE  Adding(m, v, g, e)
<1>1. PICK q, x : q = r.stats /\ x = r.exports
  OBVIOUS
<1>2. q \in Seq(Line) /\ x \in Seq(Line) /\ e = [stats |-> q, exports |-> x \o lines]
  BY <1>1 DEF Adding
<1>3. PICK y : y = x \o lines
  OBVIOUS
<1>4. e \in [stats : Seq(Line), exports : Seq(Line)] /\ e.stats = q /\ e.exports = x \o lines
  <2>1. y \in Seq(Line)
    BY <1>2, <1>3, ConcatProperties
  <2>2. e = [stats |-> q, exports |-> y]
    BY <1>2, <1>3
  <2>3. PICK T : T = Seq(Line) /\ q \in T /\ y \in T
    BY <1>2, <2>1
  <2>4. e \in [stats : T, exports : T] /\ e.stats = q /\ e.exports = y
    BY ONLY <2>2, <2>3
  <2> QED
    BY <1>3, <2>3, <2>4, Zenon
<1>5. ASSUME NEW op \in Range(MdtOp)
      PROVE  Tab(g, slot(op), q, x \o lines, Spellings(op))
  <2>1. PICK K, s : K = Spellings(op) /\ s = slot(op)
    OBVIOUS
  <2>2. NULL \notin Nat /\ InSlot(K, s) /\ SnapshotTime \notin K
    BY <2>1, SlotAlike, StatsAssumption
  <2>3. Tab(h, s, q, x, K)
    BY <1>1, <2>1 DEF Adding
  <2>4. Tab(g, s, q, x \o lines, K)
    BY <1>2, <2>2, <2>3, HashAdd
  <2> QED
    BY <2>1, <2>4
<1> QED
  BY <1>4, <1>5 DEF Adding

(* Where a call is when it reads statistics.                                *)
LEMMA Reading ==
    ASSUME CallInv, StatsInv, pc = "call", prog[1].op \in Reads, metric \in {"ost", "mdt"}
    PROVE  /\ prog \in Seq(AnyStep) /\ Tail(prog) \in Seq(AnyStep) /\ Quiet(Tail(prog))
           /\ prog[1].op = "export" =>
                Single(prog, "export") /\ SameVersion(prog) /\ Adding(metric, lv, stats, raw)
<1>1. prog[1].op \in {"stats", "export"}
  BY DEF Reads
<1>2. prog \in Seq(AnyStep) /\ AtTarget(metric, prog, names, done, text)
  BY <1>1, InCall, AtItem
<1>3. prog # <<>> /\ prog[Len(prog)].op = "encode"
  BY <1>2 DEF AtTarget, Ending
<1>4. StatsOf(metric, prog, lv, stats, raw)
  BY <1>3 DEF StatsInv, Collects
<1>5. ~Quiet(prog)
  <2>1. 1 \in 1 .. Len(prog)
    BY <1>2, <1>3
  <2> QED
    BY <2>1 DEF Quiet
<1>6. "stats" \in Reads /\ "export" \in Reads /\ "stats" # "export"
  BY DEF Reads
<1>7. Single(prog, "stats") => prog[1].op = "stats" /\ Quiet(Tail(prog))
  BY <1>2, <1>6, TailOf
<1>8. Single(prog, "export") => prog[1].op = "export" /\ Quiet(Tail(prog))
  BY <1>2, <1>6, TailOf
<1>9. Tail(prog) \in Seq(AnyStep)
  BY <1>2, <1>3
<1> QED
  BY <1>2, <1>4, <1>5, <1>6, <1>7, <1>8, <1>9 DEF StatsOf

(* The statistics of a target are read,                                     *)
LEMMA StatsRead ==
    ASSUME CallInv, StatsInv, proc_lustre_hashstats
    PROVE  StatsInv'
<1>1. /\ pc = "call" /\ prog[1].op = "stats" /\ prog[1].op \in Reads /\ metric' = metric
      /\ ver' = ver
  BY DEF proc_lustre_hashstats, Opens, Reads, env, ReadError
<1>2. CASE Fail
  BY <1>1, <1>2, FailsOff
<1>3. CASE pc' = "aborted"
  BY <1>1, <1>3, OffDuty
<1>4. CASE \E lines \in StatsFile :
              /\ raw' = [stats |-> lines, exports |-> <<>>]
              /\ stats' = IF metric = "mdt" /\ lv = "2.0"
                          THEN _hash_stats(hash_create, lines)
                          ELSE Rekeyed(_hash_stats(hash_create, lines))
              /\ prog' = IF metric = "mdt" /\ lv = "2.0"
                         THEN Aggregate \o Tail(prog) ELSE Tail(prog)
              /\ lv' = lv
  <2> SUFFICES ASSUME Collects(pc', metric', prog')
               PROVE  StatsOf(metric', prog', lv', stats', raw')
    BY <1>1 DEF StatsInv
  <2>1. PICK lines \in StatsFile :
              /\ raw' = [stats |-> lines, exports |-> <<>>]
              /\ stats' = IF metric = "mdt" /\ lv = "2.0"
                          THEN _hash_stats(hash_create, lines)
                          ELSE Rekeyed(_hash_stats(hash_create, lines))
              /\ prog' = IF metric = "mdt" /\ lv = "2.0"
                         THEN Aggregate \o Tail(prog) ELSE Tail(prog)
              /\ lv' = lv
    BY <1>4
  <2>2. lines \in Seq(Line) /\ metric \in {"ost", "mdt"}
    BY <1>1, StatsAssumption DEF Line, Collects
  <2>3. Tail(prog) \in Seq(AnyStep) /\ Quiet(Tail(prog))
    BY <1>1, <2>2, Reading
  <2>4. PICK h, m, v, r : /\ h = _hash_stats(hash_create, lines) /\ m = metric /\ v = lv
                          /\ r = [stats |-> lines, exports |-> <<>>]
    OBVIOUS
  <2>5. /\ metric' = m /\ lv' = v /\ raw' = r
        /\ stats' = (IF m = "mdt" /\ v = "2.0" THEN h ELSE Rekeyed(h))
        /\ prog' = (IF m = "mdt" /\ v = "2.0" THEN Aggregate \o Tail(prog) ELSE Tail(prog))
        /\ Rekeyed(h) = IF Renames(m, v) THEN hash_for_each(h, _rekey_mdt_stats) ELSE h
    BY <1>1, <2>1, <2>4 DEF Rekeyed, Renames
  <2>6. CASE m = "mdt" /\ v = "2.0"
    <3>1. Renames(m, v) /\ stats' = h /\ prog' = Aggregate \o Tail(prog)
      BY <2>5, <2>6 DEF Renames
    <3>2. Single(prog', "export") /\ SameVersion(prog')
      BY <2>3, <3>1, AggregateReads
    <3>3. Adding(m, v, h, r)
      BY <2>2, <2>4, <3>1, StartsAdding
    <3> QED
      BY <2>5, <3>1, <3>2, <3>3 DEF StatsOf
  <2>7. CASE ~(m = "mdt" /\ v = "2.0")
    <3>1. stats' = Rekeyed(h) /\ prog' = Tail(prog)
      BY <2>5, <2>7
    <3>2. CASE Renames(m, v)
      <4>1. PICK g : g = hash_for_each(h, _rekey_mdt_stats)
        OBVIOUS
      <4>2. stats' = g
        BY <2>5, <3>1, <3>2, <4>1
      <4>3. Adding(m, v, h, r)
        BY <2>2, <2>4, <3>2, StartsAdding
      <4>4. Told(m, v, g, r)
        BY <4>1, <4>3, TellsRenamed
      <4> QED
        BY <2>3, <2>5, <3>1, <4>2, <4>4 DEF StatsOf
    <3>3. CASE ~Renames(m, v)
      <4>1. stats' = h
        BY <2>5, <3>1, <3>3
      <4>2. r.stats = lines
        BY <2>4
      <4>3. Told(m, v, h, r)
        BY <2>2, <2>4, <3>3, <4>2, TellsPlain
      <4> QED
        BY <2>3, <2>5, <3>1, <4>1, <4>3 DEF StatsOf
    <3> QED
      BY <3>2, <3>3
  <2> QED
    BY <2>6, <2>7
<1>5. \/ Fail \/ pc' = "aborted"
      \/ \E lines \in StatsFile :
              /\ raw' = [stats |-> lines, exports |-> <<>>]
              /\ stats' = IF metric = "mdt" /\ lv = "2.0"
                          THEN _hash_stats(hash_create, lines)
                          ELSE Rekeyed(_hash_stats(hash_create, lines))
              /\ prog' = IF metric = "mdt" /\ lv = "2.0"
                         THEN Aggregate \o Tail(prog) ELSE Tail(prog)
              /\ lv' = lv
  BY Zenon DEF proc_lustre_hashstats
<1> QED
  BY <1>2, <1>3, <1>4, <1>5

(* or those of an export are added, until the last one is.                  *)
LEMMA ExportRead ==
    ASSUME CallInv, StatsInv, _aggregate_mdt_export_stats
    PROVE  StatsInv'
<1>1. /\ pc = "call" /\ prog[1].op = "export" /\ prog[1].op \in Reads /\ metric' = metric
      /\ ver' = ver
  BY DEF _aggregate_mdt_export_stats, Opens, Reads, env, ReadError
<1>2. \/ Fail
      \/ /\ prog' = prog /\ lv' = lv
         /\ \E lines \in StatsFile :
               /\ stats' = _hash_aggregate_stats(stats, lines)
               /\ raw' = [raw EXCEPT !.exports = @ \o lines]
      \/ /\ prog' = Tail(prog) /\ lv' = lv /\ raw' = raw /\ stats' = Rekeyed(stats)
  BY DEF _aggregate_mdt_export_stats, Proceed
<1>3. CASE Fail
  BY <1>1, <1>3, FailsOff
<1>4. CASE ~Fail
  <2> SUFFICES ASSUME Collects(pc', metric', prog')
               PROVE  StatsOf(metric', prog', lv', stats', raw')
    BY <1>1 DEF StatsInv
  <2>1. metric \in {"ost", "mdt"}
    BY <1>1 DEF Collects
  <2>2. /\ Quiet(Tail(prog)) /\ Single(prog, "export") /\ SameVersion(prog)
        /\ Adding(metric, lv, stats, raw)
    BY <1>1, <2>1, Reading
  <2>3. PICK m, v, h, r : m = metric /\ v = lv /\ h = stats /\ r = raw
    OBVIOUS
  <2>4. Adding(m, v, h, r) /\ Renames(m, v)
    BY <2>2, <2>3 DEF Adding
  <2>5. CASE /\ prog' = prog /\ lv' = lv
             /\ \E lines \in StatsFile :
                   /\ stats' = _hash_aggregate_stats(stats, lines)
                   /\ raw' = [raw EXCEPT !.exports = @ \o lines]
    <3>1. PICK lines \in StatsFile : /\ stats' = _hash_aggregate_stats(stats, lines)
                                     /\ raw' = [raw EXCEPT !.exports = @ \o lines]
      BY <2>5
    <3>2. lines \in Seq(Line)
      BY StatsAssumption DEF Line
    <3>3. PICK g, e : g = _hash_aggregate_stats(h, lines) /\ e = [r EXCEPT !.exports = @ \o lines]
      OBVIOUS
    <3>4. Adding(m, v, g, e)
      BY <2>4, <3>2, <3>3, AddsOne
    <3>5. stats' = g /\ raw' = e /\ metric' = m /\ lv' = v
      BY <1>1, <2>3, <2>5, <3>1, <3>3
    <3> QED
      BY <2>2, <2>5, <3>4, <3>5 DEF StatsOf
  <2>6. CASE prog' = Tail(prog) /\ lv' = lv /\ raw' = raw /\ stats' = Rekeyed(stats)
    <3>1. PICK g : g = hash_for_each(h, _rekey_mdt_stats)
      OBVIOUS
    <3>2. Told(m, v, g, r)
      BY <2>4, <3>1, TellsRenamed
    <3>3. stats' = g /\ raw' = r /\ metric' = m /\ lv' = v
      BY <1>1, <2>3, <2>4, <2>6, <3>1 DEF Rekeyed, Renames
    <3> QED
      BY <2>2, <2>6, <3>2, <3>3 DEF StatsOf
  <2> QED
    BY <1>2, <1>4, <2>5, <2>6
<1> QED
  BY <1>3, <1>4

(* Between calls, and when the node changes, nothing is collected.          *)
LEMMA CallsOff ==
    ASSUME CallInv, StatsInv, Cerebrod
    PROVE  StatsInv'
<1>1. CASE Period
  <2>1. ver' = ver /\ pc' = "idle"
    BY <1>1 DEF Period, env
  <2> QED
    BY <2>1, OffDuty
<1>2. CASE _destroy_metric_value
  <2>1. ver' = ver /\ pc' = "idle"
    BY <1>2 DEF _destroy_metric_value, env
  <2> QED
    BY <2>1, OffDuty
<1>3. CASE _get_metric_value
  <2>1. ver' = ver /\ prog' = Begin[due[1]] /\ due # <<>>
    BY <1>3 DEF _get_metric_value, env
  <2>2. due[1] \in Kind
    BY <2>1 DEF CallInv, IInv, CallType
  <2>3. prog'[Len(prog')].op = "head"
    BY <2>1, <2>2, Headers DEF Ending
  <2> QED
    BY <2>1, <2>3, OffDuty
<1> QED
  BY <1>1, <1>2, <1>3 DEF Cerebrod

(* What is told at the end of a target is what StatsReported asks for.      *)
LEMMA TellsReported ==
    ASSUME CallInv, StatsInv
    PROVE  StatsReported
<1> SUFFICES ASSUME pc = "call", prog[1].op = "encode", metric \in {"ost", "mdt"},
                    metric = "mdt" => lv = ver,
                    NEW key \in Range(IF metric = "ost" THEN OstKey ELSE MdtOp)
             PROVE  proc_lustre_parsestat(stats, key) =
                        IF metric = "ost" \/ ver = "1.8"
                        THEN LastValue(raw.stats, {key})
                        ELSE Reported(raw.stats, raw.exports, key)
  BY DEF StatsReported
<1>1. prog \in Seq(AnyStep) /\ AtTarget(metric, prog, names, done, text)
  BY InCall, AtItem
<1>2. /\ prog # <<>> /\ prog[Len(prog)].op = "encode"
      /\ \A i \in 1 .. Len(prog) - 1 : prog[i].op \in ItemOps
  BY <1>1 DEF AtTarget, Ending
<1>3. Len(prog) = 1
  <2>1. PICK l : l = Len(prog)
    OBVIOUS
  <2>2. l \in Nat /\ l >= 1
    BY <1>1, <1>2, <2>1
  <2>3. "encode" \notin ItemOps
    BY DEF ItemOps
  <2>4. 1 \notin 1 .. l - 1
    BY <1>2, <2>1, <2>3
  <2>5. l = 1
    BY <2>2, <2>4
  <2> QED
    BY <2>1, <2>5
<1>4. StatsOf(metric, prog, lv, stats, raw)
  BY <1>2 DEF StatsInv, Collects
<1>5. ~Single(prog, "stats") /\ ~Single(prog, "export")
  <2>1. \A i \in 1 .. Len(prog) : i = 1
    BY <1>3
  <2> QED
    BY <2>1 DEF Single
<1>6. Told(metric, lv, stats, raw)
  BY <1>4, <1>5 DEF StatsOf
<1>7. Renames(metric, lv) <=> ~(metric = "ost" \/ ver = "1.8")
  BY DEF StatsInv, Version, Renames
<1> QED
  BY <1>6, <1>7 DEF Told

-----------------------------------------------------------------------------
(* The statistics that are reported for a target are those a reader of its  *)
(* files would add up: neither the slots of the hash nor its chains, nor a  *)
(* key that is there twice or under both its names, change a value.         *)
THEOREM StatisticsReported == Spec => []StatsReported
<1>1. Init => StatsInv
  BY AgentAssumption DEF Init, StatsInv, Collects
<1>2. CallInv /\ StatsInv /\ [Next]_vars => StatsInv'
  <2> SUFFICES ASSUME CallInv, StatsInv, [Next]_vars PROVE StatsInv'
    OBVIOUS
  <2>1. CASE Step
    <3>1. CASE PrintHead \/ Encode
      BY <3>1, PrintSteps
    <3>2. CASE proc_lustre_hashstats
      BY <3>2, StatsRead
    <3>3. CASE _aggregate_mdt_export_stats
      BY <3>3, ExportRead
    <3>4. CASE \/ _read_lustre_version_string \/ ProcExists \/ _subdirlist \/ NodeUsage
               \/ ReadFile \/ ReadLdlm \/ ReadBrwStats \/ proc_lustre_mdt_exportlist
      BY <3>4, QuietSteps
    <3> QED
      BY <2>1, <3>1, <3>2, <3>3, <3>4, Zenon DEF Step
  <2>2. CASE Cerebrod
    BY <2>2, CallsOff
  <2>3. CASE Environment \/ UNCHANGED vars
    <3>1. /\ pc' = pc /\ prog' = prog /\ ver' = ver /\ lv' = lv
          /\ metric' = metric /\ stats' = stats /\ raw' = raw
      <4>1. CASE Environment
        <5>1. UNCHANGED <<ver, agent>>
          BY <4>1 DEF Environment, Mount, Umount, Unload, Load, SetRouting, Grow, Change
        <5> QED
          BY <5>1 DEF agent, call, Locals
      <4>2. CASE UNCHANGED vars
        BY <4>2 DEF vars, env, call, Locals
      <4> QED
        BY <2>3, <4>1, <4>2
    <3> QED
      BY <3>1, SameStats DEF Untouched
  <2> QED
    BY <2>1, <2>2, <2>3 DEF Next
<1>3. CallInv /\ StatsInv => StatsReported
  BY TellsReported
<1> QED
  BY <1>1, <1>2, <1>3, Inductive, PTL DEF Spec

=============================================================================
