---------------------------- MODULE LmtDbProofs ----------------------------
(***************************************************************************)
(* Proofs about LmtDb: its type invariant, the soundness of the handles'   *)
(* caches, referential integrity of the DATA tables, and the join between  *)
(* MDS_OPS_DATA and MDS_DATA, for every set of metrics, every naming of    *)
(* file systems, and every bound.                                          *)
(*                                                                         *)
(* ReferencesExist is not inductive: a row takes its ids from the handle's *)
(* caches, so the caches must be sound (IdhashSound, StampSound) and set   *)
(* when a statement uses them (StatementReady).  OpsJoinMds also needs the *)
(* shape of what a handler has still to do (TodoShape, MdsRowFirst).       *)
(***************************************************************************)
EXTENDS LmtDb, SequenceTheorems, TLAPS

---------------------------------------------------------------------------
(* Operators of LmtMysql and handlers of lmtdb.c.                          *)

\* Sequences of one and of two elements.
LEMMA SeqOne ==
    ASSUME NEW S, NEW a \in S
    PROVE  <<a>> \in Seq(S) /\ Len(<<a>>) = 1 /\ <<a>>[1] = a
OBVIOUS

LEMMA SeqTwo ==
    ASSUME NEW S, NEW a \in S, NEW b \in S
    PROVE  /\ <<a, b>> \in Seq(S) /\ Len(<<a, b>>) = 2
           /\ <<a, b>>[1] = a /\ <<a, b>>[2] = b
OBVIOUS

\* A function on the domain of a sequence, or on 1 .. n, is a sequence.
LEMMA SeqMap ==
    ASSUME NEW S, NEW s \in Seq(S), NEW T, NEW f \in [DOMAIN s -> T]
    PROVE  f \in Seq(T) /\ Len(f) = Len(s) /\ DOMAIN s = 1 .. Len(s)
OBVIOUS

LEMMA SeqFunction ==
    ASSUME NEW S, NEW n \in Nat, NEW f \in [1 .. n -> S]
    PROVE  f \in Seq(S) /\ Len(f) = n
OBVIOUS

\* _svc_to_db answers with a database when one matches.
LEMMA SvcToDb ==
    ASSUME NEW s \in Svc, HasDb(s)
    PROVE  _svc_to_db(s) \in Db
<1>1. (CHOOSE i \in FirstMatch(s) : TRUE) \in FirstMatch(s)
    BY DEF HasDb
<1> QED BY <1>1 DEF _svc_to_db, FirstMatch, Db

\* An insert is well-typed.
LEMMA InsertTyped ==
    ASSUME NEW f \in Db, NEW k \in Kind, NEW n \in Name, NEW h \in Host,
           NEW o \in Seq(Op), NEW b \in BOOLEAN
    PROVE  Insert(f, k, n, h, o, b) \in Job
BY DEF Insert, Job

\* The groups a handler makes are well-typed, begin with the target they are
\* about, and only MDT groups hold operations.
WellFormed(g) == g \in Seq(Job) /\ GroupShape(g) /\ StartsFresh(g)

LEMMA EmptyGroup == WellFormed(<<>>)
BY DEF WellFormed, GroupShape, StartsFresh

LEMMA OstGroups ==
    ASSUME NEW m \in Metric, NEW s \in Svc
    PROVE  WellFormed(_insert_ostinfo(m, s)) /\ WellFormed(_insert_ost_v1(m, s))
<1>1. CASE ~HasDb(s)
    BY <1>1, EmptyGroup DEF _insert_ostinfo, _insert_ost_v1
<1>2. CASE HasDb(s)
    <2> DEFINE a == Insert(_svc_to_db(s), "ost", s, m.host, <<>>, TRUE)
               b == Insert(_svc_to_db(s), "oss", m.host, m.host, <<>>, TRUE)
    <2>1. _svc_to_db(s) \in Db /\ m.host \in Host /\ m.host \in Name /\ s \in Name
          /\ <<>> \in Seq(Op)
        BY <1>2, SvcToDb, MetricAssumption DEF Name
    <2>2. a \in Job /\ b \in Job
        BY <2>1, InsertTyped DEF Kind
    <2>3. a.kind = "ost" /\ b.kind = "oss"
        BY DEF Insert
    <2> HIDE DEF a, b
    <2>4. WellFormed(<<a, b>>)
        BY <2>2, <2>3, SeqTwo DEF WellFormed, GroupShape, StartsFresh
    <2>5. WellFormed(<<a>>)
        BY <2>2, <2>3, SeqOne DEF WellFormed, GroupShape, StartsFresh
    <2> QED BY <1>2, <2>4, <2>5 DEF _insert_ostinfo, _insert_ost_v1, a, b
<1> QED BY <1>1, <1>2

LEMMA MdsGroup ==
    ASSUME NEW m \in Metric, NEW s \in Svc
    PROVE  WellFormed(_insert_mds(m, s))
<1>1. CASE ~HasDb(s)
    BY <1>1, EmptyGroup DEF _insert_mds
<1>2. CASE HasDb(s)
    <2> DEFINE g == _insert_mds(m, s)
               n == Len(m.ops) + 1
    <2>1. /\ _svc_to_db(s) \in Db /\ m.host \in Host /\ s \in Name
          /\ <<>> \in Seq(Op) /\ m.ops \in Seq(Op) /\ n \in Nat
        BY <1>2, SvcToDb, MetricAssumption DEF Name
    <2>2. \A i \in 2 .. n : /\ m.ops[i - 1] \in Op /\ <<m.ops[i - 1]>> \in Seq(Op)
                             /\ <<m.ops[i - 1]>> # <<>>
        BY <2>1
    <2> DEFINE a == Insert(_svc_to_db(s), "mds", s, m.host, <<>>, TRUE)
               b(i) == Insert(_svc_to_db(s), "ops", s, m.host, <<m.ops[i - 1]>>, FALSE)
    <2>g. g = [i \in 1 .. n |-> IF i = 1 THEN a ELSE b(i)]
        BY <1>2, Zenon DEF _insert_mds
    <2>3. DOMAIN g = 1 .. n /\ g[1] = a
        <3> HIDE DEF a, b, g, n
        <3>1. 1 \in 1 .. n
            BY <2>1 DEF n
        <3> QED BY <2>g, <3>1
    <2>4. \A i \in 2 .. n : g[i] = b(i)
        <3> HIDE DEF a, b, g, n
        <3>1. \A i \in 2 .. n : i \in 1 .. n /\ i # 1
            BY <2>1
        <3> QED BY <2>g, <3>1
    <2>5. g[1] \in Job
        BY <2>1, <2>3, InsertTyped DEF Kind
    <2>6. \A i \in 2 .. n : g[i] \in Job
        BY <2>1, <2>2, <2>4, InsertTyped DEF Kind
    <2>7. g = [i \in 1 .. n |-> g[i]]
        BY <2>g
    <2>8. g \in Seq(Job) /\ Len(g) = n
        <3> HIDE DEF g, n
        <3>1. \A i \in 1 .. n : i = 1 \/ i \in 2 .. n
            BY <2>1
        <3>2. g \in [1 .. n -> Job]
            BY <2>5, <2>6, <2>7, <3>1
        <3> QED BY <2>1, <3>2, SeqFunction
    <2>9. g[1].kind = "mds" /\ g[1].fatal /\ g[1].fs = _svc_to_db(s) /\ g[1].name = s
        BY <2>3 DEF Insert
    <2>10. \A i \in 2 .. n :
              /\ g[i].kind = "ops" /\ ~g[i].fatal /\ g[i].ops # <<>>
              /\ g[i].fs = _svc_to_db(s) /\ g[i].name = s
        <3> TAKE i \in 2 .. n
        <3> HIDE DEF g, n
        <3>1. /\ b(i).kind = "ops" /\ ~b(i).fatal /\ b(i).ops = <<m.ops[i - 1]>>
              /\ b(i).fs = _svc_to_db(s) /\ b(i).name = s
            BY DEF Insert
        <3> HIDE DEF b
        <3>2. b(i).ops # <<>>
            BY <2>2, <3>1, Zenon
        <3> QED BY <2>4, <3>1, <3>2
    <2> HIDE DEF g
    <2> QED BY <2>1, <2>8, <2>9, <2>10 DEF WellFormed, GroupShape, StartsFresh, g
<1> QED BY <1>1, <1>2

LEMMA ServerGroups ==
    ASSUME NEW m \in Metric
    PROVE  WellFormed(_insert_router(m)) /\ WellFormed(_insert_oss_v1(m))
<1> DEFINE g == _insert_router(m)
           h == _insert_oss_v1(m)
<1>1. /\ m.host \in Host /\ m.host \in Name /\ <<>> \in Seq(Op)
      /\ FsOrder \in Seq(FsName) /\ \A i \in DOMAIN FsOrder : FsOrder[i] \in Db
    BY MetricAssumption, ConfigAssumption DEF Name, Db
<1>2. \A f \in Db, k \in Kind : Insert(f, k, m.host, m.host, <<>>, TRUE) \in Job
    BY <1>1, InsertTyped
<1>3. g \in [DOMAIN FsOrder -> Job] /\ h \in [DOMAIN FsOrder -> Job]
    BY <1>1, <1>2 DEF _insert_router, _insert_oss_v1, Kind
<1>4. \A i \in DOMAIN FsOrder : g[i].kind = "router" /\ h[i].kind = "oss_v1"
    BY DEF _insert_router, _insert_oss_v1, Insert
<1> HIDE DEF g, h
<1>5. g \in Seq(Job) /\ h \in Seq(Job) /\ Len(g) = Len(FsOrder) /\ Len(h) = Len(FsOrder)
      /\ DOMAIN FsOrder = 1 .. Len(FsOrder)
    BY <1>1, <1>3, SeqMap
<1>6. WellFormed(g) /\ WellFormed(h)
    BY <1>1, <1>4, <1>5, SMTT(30) DEF WellFormed, GroupShape, StartsFresh
<1> QED BY <1>6 DEF g, h

\* What _metric_update hands to the inserts, whatever the metric.
LEMMA HandlerTyped ==
    ASSUME NEW m \in Metric
    PROVE  /\ Handler(m) \in Seq(Seq(Job))
           /\ \A k \in 1 .. Len(Handler(m)) :
                 GroupShape(Handler(m)[k]) /\ StartsFresh(Handler(m)[k])
<1> DEFINE W == {g \in Seq(Job) : WellFormed(g)}
<1>1. m.svcs \in Seq(Svc) /\ \A i \in DOMAIN m.svcs : m.svcs[i] \in Svc
    BY MetricAssumption
<1>2. \A f \in [DOMAIN m.svcs -> W] : f \in Seq(W)
    BY <1>1, SeqMap
<1>3. /\ [i \in DOMAIN m.svcs |-> _insert_ostinfo(m, m.svcs[i])] \in Seq(W)
      /\ [i \in DOMAIN m.svcs |-> _insert_mds(m, m.svcs[i])] \in Seq(W)
      /\ [i \in DOMAIN m.svcs |-> _insert_ost_v1(m, m.svcs[i])] \in Seq(W)
    BY <1>1, <1>2, OstGroups, MdsGroup DEF WellFormed
<1>4. _insert_router(m) \in W /\ _insert_oss_v1(m) \in W
    BY ServerGroups DEF WellFormed
<1>5. <<_insert_router(m)>> \in Seq(W) /\ <<_insert_oss_v1(m)>> \in Seq(W) /\ <<>> \in Seq(W)
    BY <1>4, SeqOne
<1>6. Handler(m) \in Seq(W)
    BY <1>3, <1>5 DEF Handler
<1>7. W \subseteq Seq(Job) /\ \A g \in W : GroupShape(g) /\ StartsFresh(g)
    BY DEF WellFormed
<1> HIDE DEF W
<1>8. \A k \in 1 .. Len(Handler(m)) : Handler(m)[k] \in W
    BY <1>6
<1>9. Handler(m) \in Seq(Seq(Job))
    BY <1>6, <1>7, SeqMonotonic
<1> QED BY <1>7, <1>8, <1>9

---------------------------------------------------------------------------
(* The insert at work.                                                     *)

LEMMA CurTyped ==
    ASSUME TypeOK, todo # <<>>, Group # <<>>
    PROVE  /\ Group \in Seq(Job) /\ Group = todo[1] /\ Len(todo) >= 1
           /\ Cur \in Job /\ Cur = Group[1] /\ Len(Group) >= 1
           /\ Cur.fs \in Db /\ Cur.name \in Name /\ Cur.host \in Name
           /\ HashType(Cur.kind) \in SvcType
           /\ TableOf(HashType(Cur.kind)) \in Table
           /\ CurId \in Nat
<1>1. todo \in Seq(Seq(Job))
    BY DEF TypeOK
<1>2. Group \in Seq(Job) /\ Group = todo[1] /\ Len(todo) >= 1
    BY <1>1 DEF Group
<1>3. Cur \in Job /\ Cur = Group[1] /\ Len(Group) >= 1
    BY <1>2 DEF Cur
<1>4. Cur.fs \in Db /\ Cur.name \in Name /\ Cur.host \in Name /\ Cur.kind \in Kind
    BY <1>3 DEF Job, Name
<1>5. HashType(Cur.kind) \in SvcType /\ TableOf(HashType(Cur.kind)) \in Table
    BY <1>4 DEF Kind, HashType, SvcType, TableOf, Table
<1>6. CurId \in Nat
    BY <1>4, <1>5 DEF CurId, TypeOK
<1> QED BY <1>2, <1>3, <1>4, <1>5, <1>6

\* What an insert that ends leaves to do.  Operations are next only after
\* their own MDT or another operation of it, and never after its failure.
NextIsOps ==
    Group' # <<>> /\ Cur'.kind = "ops" =>
        /\ Cur.kind \in {"mds", "ops"}
        /\ Cur'.fs = Cur.fs /\ Cur'.name = Cur.name

LEMMA Finished ==
    ASSUME TypeOK, TodoShape, todo # <<>>, Group # <<>>, Done \/ Error
    PROVE  /\ todo' \in Seq(Seq(Job)) /\ todo' # <<>> /\ TodoShape'
           /\ pc' = "start" /\ reconnect_needed' \in BOOLEAN
           /\ NextIsOps
           /\ Error /\ Group' # <<>> /\ Cur'.kind = "ops" => Cur.kind = "ops"
<1>1. /\ Group \in Seq(Job) /\ Group = todo[1] /\ Len(todo) >= 1
      /\ Cur \in Job /\ Cur = Group[1] /\ Len(Group) >= 1
    BY CurTyped
<1>2. todo \in Seq(Seq(Job)) /\ reconnect_needed \in BOOLEAN
    BY DEF TypeOK
<1>3. PICK g \in Seq(Job) : /\ g = <<>> \/ g = Tail(Group)
                            /\ Error /\ Cur.fatal => g = <<>>
                            /\ todo' = [todo EXCEPT ![1] = g]
    <2>1. <<>> \in Seq(Job) /\ Tail(Group) \in Seq(Job)
        BY <1>1
    <2>2. CASE Done
        BY <2>1, <2>2, <1>1 DEF Done, Error
    <2>3. CASE Error
        BY <2>1, <2>3, <1>1 DEF Error
    <2> QED BY <2>2, <2>3
<1>4. /\ todo' \in Seq(Seq(Job)) /\ todo' # <<>> /\ Len(todo') = Len(todo)
      /\ todo'[1] = g /\ \A k \in 2 .. Len(todo) : todo'[k] = todo[k]
    BY <1>1, <1>2, <1>3
<1>5. Group' = g
    BY <1>4 DEF Group
<1>6. pc' = "start" /\ reconnect_needed' \in BOOLEAN
    BY <1>2 DEF Done, Error
<1>7. GroupShape(Group)
    BY <1>1 DEF TodoShape
<1>8. \A i \in 1 .. Len(g) : i + 1 \in 1 .. Len(Group) /\ g[i] = Group[i + 1]
    BY <1>1, <1>3
<1>9. GroupShape(g)
    <2> SUFFICES ASSUME NEW i \in 1 .. Len(g)
                 PROVE  /\ g[i].kind = "mds" => g[i].fatal
                        /\ g[i].kind = "ops" =>
                              /\ g[i].ops # <<>> /\ ~g[i].fatal
                              /\ \A j \in 1 .. i :
                                    /\ g[j].kind \in {"mds", "ops"}
                                    /\ g[j].fs = g[i].fs /\ g[j].name = g[i].name
        BY DEF GroupShape
    <2>1. i + 1 \in 1 .. Len(Group) /\ g[i] = Group[i + 1]
        BY <1>8
    <2>2. \A j \in 1 .. i : j + 1 \in 1 .. i + 1 /\ g[j] = Group[j + 1]
        BY <1>8, <1>3
    <2>3. /\ Group[i + 1].kind = "mds" => Group[i + 1].fatal
          /\ Group[i + 1].kind = "ops" =>
                /\ Group[i + 1].ops # <<>> /\ ~Group[i + 1].fatal
                /\ \A k \in 1 .. i + 1 :
                      /\ Group[k].kind \in {"mds", "ops"}
                      /\ Group[k].fs = Group[i + 1].fs /\ Group[k].name = Group[i + 1].name
        BY ONLY <1>7, <2>1 DEF GroupShape
    <2>4. g[i].kind = "mds" => g[i].fatal
        BY <2>1, <2>3, Zenon
    <2>5. g[i].kind = "ops" => g[i].ops # <<>> /\ ~g[i].fatal
        BY <2>1, <2>3, Zenon
    <2>6. ASSUME g[i].kind = "ops", NEW j \in 1 .. i
          PROVE  /\ g[j].kind \in {"mds", "ops"}
                 /\ g[j].fs = g[i].fs /\ g[j].name = g[i].name
        BY ONLY <2>1, <2>2, <2>3, <2>6
    <2> QED BY <2>4, <2>5, <2>6
<1>10. TodoShape'
    BY <1>4, <1>9 DEF TodoShape
<1>11. NextIsOps
    BY <1>1, <1>3, <1>5, <1>7, <1>8 DEF NextIsOps, Cur, GroupShape
<1>12. Error /\ Group' # <<>> /\ Cur'.kind = "ops" => Cur.kind = "ops"
    BY <1>1, <1>3, <1>5, <1>7, <1>11 DEF NextIsOps, GroupShape
<1> QED BY <1>4, <1>6, <1>10, <1>11, <1>12

\* The invariants on what is left to do, after an insert that ends and leaves
\* the caches alone.
LEMMA EndStep ==
    ASSUME IInv, todo # <<>>, Group # <<>>,
           UNCHANGED <<cacheVars, dbs>>,
           \A f \in Db : data[f] \subseteq data'[f],
           \/ Error
           \/ /\ Done
              /\ Cur.kind = "mds" /\ CurId # 0 =>
                   /\ timestamp_id[Cur.fs] # 0
                   /\ [table |-> "mds", id |-> CurId, ts |-> timestamp_id[Cur.fs]]
                         \in data'[Cur.fs]
    PROVE  /\ todo' \in Seq(Seq(Job)) /\ pc' = "start" /\ reconnect_needed' \in BOOLEAN
           /\ StatementReady' /\ TodoShape' /\ MdsRowFirst' /\ HandlerHasHandles'
           /\ HandlesOpen'
<1>1. TypeOK /\ TodoShape /\ HandlerHasHandles
    BY DEF IInv
<1>2. /\ todo' \in Seq(Seq(Job)) /\ todo' # <<>> /\ TodoShape'
      /\ pc' = "start" /\ reconnect_needed' \in BOOLEAN
      /\ NextIsOps
      /\ Error /\ Group' # <<>> /\ Cur'.kind = "ops" => Cur.kind = "ops"
    BY <1>1, Finished
<1>3. StatementReady'
    BY <1>2 DEF StatementReady
<1>4. HandlerHasHandles' /\ HandlesOpen'
    BY <1>1 DEF HandlerHasHandles, HandlesOpen
<1>5. MdsRowFirst'
    <2> SUFFICES ASSUME Group' # <<>>, Cur'.kind = "ops", CurId' # 0
                 PROVE  /\ timestamp_id[Cur.fs] # 0
                        /\ [table |-> "mds", id |-> CurId, ts |-> timestamp_id[Cur.fs]]
                               \in data'[Cur.fs]
                        /\ CurId' = CurId /\ Cur'.fs = Cur.fs
        BY DEF MdsRowFirst, cacheVars
    <2>1. Cur.kind \in {"mds", "ops"} /\ Cur'.fs = Cur.fs /\ Cur'.name = Cur.name
        BY <1>2 DEF NextIsOps
    <2>2. CurId' = CurId
        BY <2>1 DEF CurId, HashType, cacheVars
    <2>3. Cur.fs \in Db
        BY <1>1, CurTyped
    <2>4. CASE Cur.kind = "ops"
        BY <2>1, <2>2, <2>3, <2>4 DEF IInv, MdsRowFirst
    <2>5. CASE Cur.kind = "mds"
        BY <1>2, <2>1, <2>2, <2>5
    <2> QED BY <2>1, <2>2, <2>4, <2>5
<1> QED BY <1>2, <1>3, <1>4, <1>5

\* The same for a statement after which the insert goes on.
LEMMA MoveStep ==
    ASSUME IInv, NEW p \in PC, todo # <<>>, Group # <<>>, MoveTo(p), UNCHANGED dbs
    PROVE  /\ todo' \in Seq(Seq(Job)) /\ pc' \in PC /\ reconnect_needed' \in BOOLEAN
           /\ TodoShape' /\ HandlerHasHandles' /\ HandlesOpen'
           /\ Group' = Group /\ Cur' = Cur /\ todo' = todo /\ pc' = p
BY DEF IInv, MoveTo, TypeOK, TodoShape, HandlerHasHandles, HandlesOpen, Group, Cur

---------------------------------------------------------------------------
(* The tables only grow.                                                   *)

Grows ==
    \A f \in Db : \A t \in Table :
        /\ Len(info[f][t]) <= Len(info'[f][t])
        /\ \A i \in 1 .. Len(info[f][t]) : info'[f][t][i] = info[f][t][i]

\* A row added to a table.
Adds(f, t, row) == info' = [info EXCEPT ![f][t] = Append(@, row)]

LEMMA AddsRow ==
    ASSUME TypeOK, NEW f \in Db, NEW t \in Table, NEW row \in Row,
           Adds(f, t, row)
    PROVE  /\ info' \in [Db -> [Table -> Seq(Row)]] /\ Grows
           /\ \A g \in Db : \A u \in Table :
                 IF g = f /\ u = t
                 THEN /\ Len(info'[g][u]) = Len(info[g][u]) + 1
                      /\ info'[g][u][Len(info[g][u]) + 1] = row
                 ELSE info'[g][u] = info[g][u]
<1>1. info \in [Db -> [Table -> Seq(Row)]]
    BY DEF TypeOK
<1>0. info' = [info EXCEPT ![f][t] = Append(@, row)]
    BY DEF Adds
<1>2. Append(info[f][t], row) \in Seq(Row)
    BY <1>1
<1>3. info' \in [Db -> [Table -> Seq(Row)]]
    BY <1>0, <1>1, <1>2
<1>4. /\ info'[f][t] = Append(info[f][t], row)
      /\ \A g \in Db : \A u \in Table : g # f \/ u # t => info'[g][u] = info[g][u]
    BY <1>0, <1>1
<1>5. \A g \in Db : \A u \in Table : Len(info[g][u]) \in Nat
    BY <1>1
<1>6. /\ Len(info'[f][t]) = Len(info[f][t]) + 1
      /\ info'[f][t][Len(info[f][t]) + 1] = row
      /\ \A i \in 1 .. Len(info[f][t]) : info'[f][t][i] = info[f][t][i]
    BY <1>1, <1>4
<1>7. Grows
    BY <1>4, <1>5, <1>6, SMTT(30) DEF Grows
<1> QED BY <1>3, <1>4, <1>6, <1>7

LEMMA RowAdded ==
    ASSUME TypeOK, NEW f \in Db, NEW t \in Table, NEW row \in Row,
           info' = [info EXCEPT ![f][t] = Append(@, row)]
    PROVE  /\ info' \in [Db -> [Table -> Seq(Row)]] /\ Grows
           /\ \A g \in Db : \A u \in Table :
                 IF g = f /\ u = t
                 THEN /\ Len(info'[g][u]) = Len(info[g][u]) + 1
                      /\ info'[g][u][Len(info[g][u]) + 1] = row
                 ELSE info'[g][u] = info[g][u]
<1>1. Adds(f, t, row)
    BY DEF Adds
<1> QED BY <1>1, AddsRow

LEMMA MatchingGrows ==
    ASSUME TypeOK, Grows, info' \in [Db -> [Table -> Seq(Row)]],
           NEW f \in Db, NEW p \in SvcType, NEW n
    PROVE  Matching(info[f], p, n) \subseteq Matching(info'[f], p, n)
<1>1. TableOf(p) \in Table
    BY DEF TableOf, SvcType, Table
<1>2. Len(info[f][TableOf(p)]) \in Nat /\ Len(info'[f][TableOf(p)]) \in Nat
    BY <1>1 DEF TypeOK
<1> QED BY <1>1, <1>2 DEF Grows, Matching

\* Growing tables keep the caches sound and the stored samples referring to
\* rows that exist, if a new OST row names its OSS.
LEMMA GrowthIsSafe ==
    ASSUME IInv, NEW f \in Db, NEW t \in Table, NEW row \in Row,
           info' = [info EXCEPT ![f][t] = Append(@, row)],
           UNCHANGED <<tsinfo, data, opsdata, cacheVars>>,
           t = "ost" => row.oss_id \in Matching(info[f], "oss", row.host)
    PROVE  /\ info' \in [Db -> [Table -> Seq(Row)]]
           /\ IdhashSound' /\ StampSound' /\ ReferencesExist' /\ OpsJoinMds'
<1>1. /\ TypeOK /\ IdhashSound /\ StampSound /\ ReferencesExist /\ OpsJoinMds
    BY DEF IInv
<1>2. info' \in [Db -> [Table -> Seq(Row)]] /\ Grows
    BY <1>1, RowAdded
<1>3. IdhashSound'
    BY <1>1, <1>2, MatchingGrows DEF IdhashSound, cacheVars
<1>4. StampSound' /\ OpsJoinMds'
    BY <1>1 DEF StampSound, OpsJoinMds, cacheVars
<1>5. /\ info \in [Db -> [Table -> Seq(Row)]] /\ data \in [Db -> SUBSET DataRow]
      /\ \A g \in Db : \A u \in Table :
            Len(info[g][u]) \in Nat /\ Len(info'[g][u]) \in Nat
      /\ "mds" \in Table /\ "oss" \in Table /\ "ost" \in Table
    <2>1. /\ info \in [Db -> [Table -> Seq(Row)]] /\ data \in [Db -> SUBSET DataRow]
        BY <1>1 DEF TypeOK
    <2>2. \A g \in Db : \A u \in Table :
            info[g][u] \in Seq(Row) /\ info'[g][u] \in Seq(Row)
        BY <1>2, <2>1
    <2> QED BY <2>1, <2>2 DEF Table
<1>6. ASSUME NEW g \in Db
      PROVE  /\ \A r \in data[g] :
                   r.id \in 1 .. Len(info'[g][r.table]) /\ r.ts \in 1 .. Len(tsinfo[g])
             /\ \A r \in opsdata[g] :
                   r.id \in 1 .. Len(info'[g]["mds"]) /\ r.ts \in 1 .. Len(tsinfo[g])
    <2>1. ASSUME NEW r \in data[g]
          PROVE  r.id \in 1 .. Len(info'[g][r.table]) /\ r.ts \in 1 .. Len(tsinfo[g])
        <3>1. r.table \in Table
            BY <1>5 DEF DataRow
        <3>2. r.id \in 1 .. Len(info[g][r.table]) /\ r.ts \in 1 .. Len(tsinfo[g])
            BY <1>1 DEF ReferencesExist
        <3>3. Len(info[g][r.table]) <= Len(info'[g][r.table])
            BY <1>2, <3>1 DEF Grows
        <3> QED BY <1>5, <3>1, <3>2, <3>3
    <2>2. ASSUME NEW r \in opsdata[g]
          PROVE  r.id \in 1 .. Len(info'[g]["mds"]) /\ r.ts \in 1 .. Len(tsinfo[g])
        <3>1. r.id \in 1 .. Len(info[g]["mds"]) /\ r.ts \in 1 .. Len(tsinfo[g])
            BY <1>1 DEF ReferencesExist
        <3>2. Len(info[g]["mds"]) <= Len(info'[g]["mds"])
            BY <1>2, <1>5, SMTT(30) DEF Grows
        <3> QED BY <1>5, <3>1, <3>2
    <2> QED BY <2>1, <2>2
<1>7. ASSUME NEW g \in Db, NEW i \in 1 .. Len(info'[g]["ost"])
      PROVE  /\ info'[g]["ost"][i].oss_id \in 1 .. Len(info'[g]["oss"])
             /\ info'[g]["oss"][info'[g]["ost"][i].oss_id].name = info'[g]["ost"][i].host
    <2>1. CASE i \in 1 .. Len(info[g]["ost"])
        <3> DEFINE o == info[g]["ost"][i]
        <3>1. o.oss_id \in 1 .. Len(info[g]["oss"]) /\ info[g]["oss"][o.oss_id].name = o.host
            BY <1>1, <2>1 DEF ReferencesExist
        <3>2. info'[g]["ost"][i] = o
            BY <1>2, <1>5, <2>1 DEF Grows
        <3>3. /\ Len(info[g]["oss"]) <= Len(info'[g]["oss"])
              /\ info'[g]["oss"][o.oss_id] = info[g]["oss"][o.oss_id]
            BY <1>2, <1>5, <3>1 DEF Grows
        <3> HIDE DEF o
        <3>4. Len(info[g]["oss"]) \in Nat /\ Len(info'[g]["oss"]) \in Nat
            BY <1>5
        <3>5. o.oss_id \in 1 .. Len(info'[g]["oss"])
            BY <3>1, <3>3, <3>4
        <3>6. info'[g]["oss"][o.oss_id].name = o.host
            BY <3>1, <3>3
        <3> QED BY <3>2, <3>5, <3>6, Zenon
    <2>2. CASE i \notin 1 .. Len(info[g]["ost"])
        <3>1. g = f /\ t = "ost" /\ info'[g]["ost"][i] = row
            <4>1. IF g = f /\ "ost" = t
                  THEN /\ Len(info'[g]["ost"]) = Len(info[g]["ost"]) + 1
                       /\ info'[g]["ost"][Len(info[g]["ost"]) + 1] = row
                  ELSE info'[g]["ost"] = info[g]["ost"]
                BY <1>1, <1>5, RowAdded
            <4> QED BY <1>5, <2>2, <4>1
        <3>2. row.oss_id \in 1 .. Len(info[f]["oss"]) /\ info[f]["oss"][row.oss_id].name = row.host
            BY <3>1 DEF Matching, TableOf, Column
        <3> QED BY <1>2, <1>5, <3>1, <3>2 DEF Grows
    <2> QED BY <2>1, <2>2, Zenon
<1>8. ReferencesExist'
    BY <1>6, <1>7 DEF ReferencesExist
<1> QED BY <1>2, <1>3, <1>4, <1>8

---------------------------------------------------------------------------
(* Each step keeps IInv.                                                   *)

\* A statement that fails without effect.
LEMMA FailedStep ==
    ASSUME IInv, todo # <<>>, Group # <<>>, Failed, Quiet,
           pc # "start"
    PROVE  IInv'
<1>1. Error /\ UNCHANGED <<tableVars, cacheVars, dbs, now, up, last_connect, tried>>
      /\ alive' \subseteq Db /\ faults' \in Nat
    BY DEF Failed, Quiet, FailsOn, Fault, clockVars, IInv, TypeOK
<1>3. /\ todo' \in Seq(Seq(Job)) /\ pc' = "start" /\ reconnect_needed' \in BOOLEAN
      /\ StatementReady' /\ TodoShape' /\ MdsRowFirst' /\ HandlerHasHandles'
      /\ HandlesOpen'
    BY <1>1, EndStep DEF tableVars
<1>4. TypeOK'
    BY <1>1, <1>3 DEF IInv, TypeOK, tableVars, cacheVars, PC
<1>5. IdhashSound' /\ StampSound' /\ ReferencesExist' /\ OpsJoinMds' /\ ClockStarted'
    BY <1>1 DEF IInv, IdhashSound, StampSound, ReferencesExist, OpsJoinMds,
                ClockStarted, tableVars, cacheVars
<1> QED BY <1>3, <1>4, <1>5 DEF IInv

\* Inserting a row into a *_INFO table.
LEMMA InsertRowStep ==
    ASSUME IInv, NEW p \in {"insert_oss", "insert_info"}, NEW t \in Table, NEW row \in Row,
           NEW next \in {"select_oss", "select_mds", "select_info"},
           InsertRow(p, t, row, next),
           t = "ost" => row.oss_id \in Matching(info[Cur.fs], "oss", row.host),
           Cur.kind # "ops",
           next = "select_oss" => Cur.kind = "ost"
    PROVE  IInv'
<1>1. /\ todo # <<>> /\ Group # <<>> /\ pc # "start" /\ Quiet
      /\ \/ Succeeds(Cur.fs) /\ AddRow(t, row) /\ MoveTo(next)
         \/ LosesReply(Cur.fs) /\ AddRow(t, row) /\ Error
         \/ Failed
    BY DEF InsertRow, AtStatement
<1>2. TypeOK /\ Cur.fs \in Db
    BY <1>1, CurTyped DEF IInv
<1>3. CASE Failed
    BY <1>1, <1>3, FailedStep
<1>4. ASSUME AddRow(t, row)
      PROVE  /\ info' \in [Db -> [Table -> Seq(Row)]]
             /\ IdhashSound' /\ StampSound' /\ ReferencesExist' /\ OpsJoinMds'
             /\ UNCHANGED <<tsinfo, data, opsdata, cacheVars, dbs, now, up, last_connect, tried>>
    BY <1>1, <1>2, <1>4, GrowthIsSafe DEF AddRow, Quiet, clockVars
<1>5. CASE LosesReply(Cur.fs) /\ AddRow(t, row) /\ Error
    <2>1. alive' \subseteq Db /\ faults' \in Nat
        BY <1>2, <1>5 DEF LosesReply, Fault, TypeOK
    <2>2. /\ todo' \in Seq(Seq(Job)) /\ pc' = "start" /\ reconnect_needed' \in BOOLEAN
          /\ StatementReady' /\ TodoShape' /\ MdsRowFirst' /\ HandlerHasHandles'
          /\ HandlesOpen'
        BY <1>1, <1>4, <1>5, EndStep
    <2>3. TypeOK' /\ ClockStarted'
        BY <1>2, <1>4, <1>5, <2>1, <2>2 DEF IInv, TypeOK, ClockStarted, cacheVars, PC
    <2> QED BY <1>4, <1>5, <2>2, <2>3 DEF IInv
<1>6. CASE Succeeds(Cur.fs) /\ AddRow(t, row) /\ MoveTo(next)
    <2>1. next \in PC
        BY DEF PC
    <2>2. /\ todo' \in Seq(Seq(Job)) /\ pc' \in PC /\ reconnect_needed' \in BOOLEAN
          /\ TodoShape' /\ HandlerHasHandles' /\ HandlesOpen'
          /\ Group' = Group /\ Cur' = Cur /\ todo' = todo /\ pc' = next
        BY <1>1, <1>4, <1>6, <2>1, MoveStep
    <2>3. StatementReady' /\ MdsRowFirst'
        BY <1>1, <2>2 DEF StatementReady, MdsRowFirst
    <2>4. TypeOK' /\ ClockStarted'
        BY <1>2, <1>4, <1>6, <2>2 DEF IInv, TypeOK, ClockStarted, cacheVars, Succeeds
    <2> QED BY <1>4, <1>6, <2>2, <2>3, <2>4 DEF IInv
<1> QED BY <1>1, <1>3, <1>5, <1>6

\* Selecting a row back and hashing its id.
LEMMA SelectRowStep ==
    ASSUME IInv, NEW p \in {"select_oss", "select_mds", "select_info"},
           NEW pfx \in SvcType, NEW n \in Name,
           NEW next \in {"insert_info", "select_info", "timestamp"},
           SelectRow(p, pfx, n, next),
           Cur.kind # "ops",
           next = "insert_info" => pfx = "oss" /\ n = Cur.host,
           next = "timestamp" => pfx = HashType(Cur.kind) /\ n = Cur.name
    PROVE  IInv'
<1>1. /\ todo # <<>> /\ Group # <<>> /\ pc # "start" /\ Quiet
    BY DEF SelectRow, AtStatement
<1>2. TypeOK /\ Cur.fs \in Db /\ Cur.host \in Name
    BY <1>1, CurTyped DEF IInv
<1>3. CASE Failed
    BY <1>1, <1>3, FailedStep
<1>4. CASE Succeeds(Cur.fs) /\ Error /\ UNCHANGED <<tableVars, cacheVars>>
    <2>1. UNCHANGED <<tableVars, cacheVars, dbs, now, up, last_connect, tried, alive, faults>>
        BY <1>1, <1>4 DEF Quiet, clockVars, Succeeds
    <2>2. /\ todo' \in Seq(Seq(Job)) /\ pc' = "start" /\ reconnect_needed' \in BOOLEAN
          /\ StatementReady' /\ TodoShape' /\ MdsRowFirst' /\ HandlerHasHandles'
          /\ HandlesOpen'
        BY <1>1, <1>4, <2>1, EndStep DEF tableVars
    <2>3. TypeOK' /\ ClockStarted'
        BY <1>2, <2>1, <2>2 DEF IInv, TypeOK, ClockStarted, tableVars, cacheVars, PC
    <2>4. IdhashSound' /\ StampSound' /\ ReferencesExist' /\ OpsJoinMds'
        BY <2>1 DEF IInv, IdhashSound, StampSound, ReferencesExist, OpsJoinMds,
                    tableVars, cacheVars
    <2> QED BY <2>2, <2>3, <2>4 DEF IInv
<1>5. ASSUME Succeeds(Cur.fs), MoveTo(next), UNCHANGED <<tableVars, timestamp, timestamp_id>>,
             NEW id \in Matching(info[Cur.fs], pfx, n),
             idhash' = [idhash EXCEPT ![Cur.fs] = HashInsert(@, pfx, n, id)]
      PROVE  IInv'
    <2>1. UNCHANGED <<tableVars, timestamp, timestamp_id, dbs, now, up, last_connect, tried, alive, faults>>
        BY <1>1, <1>5 DEF Quiet, clockVars, Succeeds
    <2>2. id \in Nat /\ id # 0
        <3>1. TableOf(pfx) \in Table
            BY DEF TableOf, SvcType, Table
        <3> QED BY <1>2, <3>1 DEF Matching, TypeOK
    <2>3. /\ idhash' \in [Db -> [SvcType -> [Name -> Nat]]]
          /\ idhash'[Cur.fs][pfx][n] = id
          /\ \A f \in Db : \A q \in SvcType : \A o \in Name :
                 <<f, q, o>> # <<Cur.fs, pfx, n>> => idhash'[f][q][o] = idhash[f][q][o]
        BY <1>2, <1>5, <2>2 DEF TypeOK, HashInsert
    <2>4. next \in PC
        BY DEF PC
    <2>5. /\ todo' \in Seq(Seq(Job)) /\ pc' \in PC /\ reconnect_needed' \in BOOLEAN
          /\ TodoShape' /\ HandlerHasHandles' /\ HandlesOpen'
          /\ Group' = Group /\ Cur' = Cur /\ todo' = todo /\ pc' = next
        BY <1>1, <1>5, <2>1, <2>4, MoveStep
    <2>6. IdhashSound'
        BY <1>5, <2>1, <2>3 DEF IInv, IdhashSound, tableVars
    <2>7. StatementReady' /\ MdsRowFirst'
        BY <1>1, <2>2, <2>3, <2>5 DEF StatementReady, MdsRowFirst, CurId
    <2>8. TypeOK' /\ ClockStarted'
        BY <1>2, <2>1, <2>3, <2>5 DEF IInv, TypeOK, ClockStarted, tableVars
    <2>9. StampSound' /\ ReferencesExist' /\ OpsJoinMds'
        BY <2>1 DEF IInv, StampSound, ReferencesExist, OpsJoinMds, tableVars
    <2> QED BY <2>5, <2>6, <2>7, <2>8, <2>9 DEF IInv
<1> QED BY <1>3, <1>4, <1>5 DEF SelectRow

\* The statements that add to the *_INFO tables, and those that read back.
LEMMA InsertOssStep ==
    ASSUME IInv, InsertOss
    PROVE  IInv'
<1> DEFINE row == [name |-> Cur.host, host |-> Cur.host, oss_id |-> 0]
<1>1. AtStatement("insert_oss") /\ InsertRow("insert_oss", "oss", row, "select_oss")
    BY DEF InsertOss, InsertRow
<1>2. Cur.kind = "ost" /\ Cur.host \in Name
    BY <1>1, CurTyped DEF IInv, StatementReady, AtStatement
<1>3. row \in Row /\ "oss" \in Table
    BY <1>2 DEF Row, Table
<1> HIDE DEF row
<1> QED BY <1>1, <1>2, <1>3, InsertRowStep

LEMMA InsertInfoStep ==
    ASSUME IInv, InsertInfo
    PROVE  IInv'
<1> DEFINE id == IF Cur.kind = "ost" THEN idhash[Cur.fs]["oss"][Cur.host] ELSE 0
           row == [name |-> Cur.name, host |-> Cur.host, oss_id |-> id]
           t == TableOf(HashType(Cur.kind))
           next == IF Cur.kind = "mds" THEN "select_mds" ELSE "select_info"
<1>1. AtStatement("insert_info") /\ InsertRow("insert_info", t, row, next)
    BY DEF InsertInfo, InsertRow
<1>2. /\ Cur.kind # "ops" /\ Cur.fs \in Db /\ Cur.host \in Name /\ Cur.name \in Name
      /\ Cur \in Job /\ t \in Table
      /\ Cur.kind = "ost" => idhash[Cur.fs]["oss"][Cur.host] # 0
    BY <1>1, CurTyped DEF IInv, StatementReady, AtStatement
<1>3. "oss" \in SvcType /\ id \in Nat
    BY <1>2 DEF IInv, TypeOK, SvcType
<1>4. Cur.kind = "ost" => id \in Matching(info[Cur.fs], "oss", Cur.host)
    BY <1>2, <1>3 DEF IInv, IdhashSound
<1>5. t = "ost" => Cur.kind = "ost"
    BY <1>2 DEF TableOf, HashType, Job, Kind
<1> HIDE DEF id, t
<1>6. row \in Row
    BY <1>2, <1>3 DEF Row
<1>7. row.oss_id = id /\ row.host = Cur.host
    OBVIOUS
<1>8. next \in {"select_mds", "select_info"}
    OBVIOUS
<1> HIDE DEF row, next
<1> QED BY <1>1, <1>2, <1>4, <1>5, <1>6, <1>7, <1>8, InsertRowStep

LEMMA SelectSteps ==
    ASSUME IInv, SelectOss \/ SelectMds \/ SelectInfo
    PROVE  IInv'
<1>1. PICK p \in {"select_oss", "select_mds", "select_info"} : AtStatement(p)
    BY DEF SelectOss, SelectMds, SelectInfo, SelectRow
<1>2. /\ Cur.kind # "ops" /\ Cur.host \in Name /\ Cur.name \in Name
      /\ HashType(Cur.kind) \in SvcType
    BY <1>1, CurTyped DEF IInv, StatementReady, AtStatement
<1>3. "oss" \in SvcType /\ "mds" \in SvcType
    BY DEF SvcType
<1>4. CASE SelectOss
    BY <1>2, <1>3, <1>4, SelectRowStep DEF SelectOss
<1>5. CASE SelectMds
    BY <1>2, <1>3, <1>5, SelectRowStep DEF SelectMds
<1>6. CASE SelectInfo
    BY <1>2, <1>6, SelectRowStep DEF SelectInfo
<1> QED BY <1>4, <1>5, <1>6

\* Rounding down stays positive once the clock has passed one interval.
LEMMA RoundDownPositive ==
    ASSUME NEW t \in Nat, NEW d \in Nat \ {0}, t >= d
    PROVE  RoundDown(t, d) \in Nat /\ RoundDown(t, d) > 0
<1>1. t % d \in 0 .. d - 1
    OBVIOUS
<1> QED BY <1>1 DEF RoundDown

\* _update_timestamp: TIMESTAMP_INFO grows, the caches point at its new row,
\* and what the earlier rows are referred to by stays.
LEMMA StampAdded ==
    ASSUME IInv, NEW f \in Db, NEW s \in Nat,
           tsinfo' = [tsinfo EXCEPT ![f] = Append(@, s)],
           UNCHANGED <<info, data, opsdata, idhash>>
    PROVE  /\ tsinfo' \in [Db -> Seq(Nat)]
           /\ tsinfo'[f][Len(tsinfo[f]) + 1] = s
           /\ Len(tsinfo[f]) + 1 \in 1 .. Len(tsinfo'[f])
           /\ \A g \in Db : \A i \in 1 .. Len(tsinfo[g]) :
                 i \in 1 .. Len(tsinfo'[g]) /\ tsinfo'[g][i] = tsinfo[g][i]
           /\ IdhashSound' /\ ReferencesExist' /\ OpsJoinMds'
<1>1. tsinfo \in [Db -> Seq(Nat)]
    BY DEF IInv, TypeOK
<1>2. tsinfo' \in [Db -> Seq(Nat)]
    BY <1>1
<1>3. \A g \in Db : tsinfo'[g] = IF g = f THEN Append(tsinfo[f], s) ELSE tsinfo[g]
    BY <1>1
<1>4. tsinfo'[f] = Append(tsinfo[f], s) /\ tsinfo[f] \in Seq(Nat)
    BY <1>1, <1>3
<1>5. /\ tsinfo'[f][Len(tsinfo[f]) + 1] = s
      /\ Len(tsinfo[f]) + 1 \in 1 .. Len(tsinfo'[f])
    BY <1>4
<1>6. \A g \in Db : \A i \in 1 .. Len(tsinfo[g]) :
          i \in 1 .. Len(tsinfo'[g]) /\ tsinfo'[g][i] = tsinfo[g][i]
    <2> TAKE g \in Db
    <2>1. CASE g = f
        BY <1>4, <2>1
    <2>2. CASE g # f
        BY <1>3, <2>2
    <2> QED BY <2>1, <2>2
<1>7. IdhashSound' /\ OpsJoinMds'
    BY DEF IInv, IdhashSound, OpsJoinMds
<1>8. ReferencesExist'
    BY <1>6 DEF IInv, ReferencesExist
<1> QED BY <1>2, <1>5, <1>6, <1>7, <1>8

LEMMA UpdateTimestampStep ==
    ASSUME IInv, UpdateTimestamp
    PROVE  IInv'
<1> DEFINE s == RoundDown(now, Interval)
<1>1. /\ todo # <<>> /\ Group # <<>> /\ pc = "timestamp" /\ Quiet
      /\ UNCHANGED <<dbs, now, up, last_connect, tried>>
    BY DEF UpdateTimestamp, AtStatement, Quiet, clockVars
<1>2. TypeOK /\ Cur.fs \in Db
    BY <1>1, CurTyped DEF IInv
<1>3. s \in Nat /\ s > 0
    BY <1>2, TimeAssumption, RoundDownPositive DEF IInv, ClockStarted, TypeOK
<1>4. Cur.kind # "ops" /\ CurId # 0 /\ "data" \in PC
    BY <1>1 DEF IInv, StatementReady, PC
<1>5. CASE Failed
    BY <1>1, <1>5, FailedStep
<1>6. CASE s <= timestamp[Cur.fs] /\ MoveTo("data")
           /\ UNCHANGED <<faults, alive, tableVars, cacheVars>>
    <2>1. /\ todo' \in Seq(Seq(Job)) /\ pc' \in PC /\ reconnect_needed' \in BOOLEAN
          /\ TodoShape' /\ HandlerHasHandles' /\ HandlesOpen'
          /\ Group' = Group /\ Cur' = Cur /\ todo' = todo /\ pc' = "data"
        BY <1>1, <1>4, <1>6, MoveStep
    <2>2. timestamp[Cur.fs] # 0
        BY <1>2, <1>3, <1>6 DEF TypeOK
    <2>3. timestamp_id[Cur.fs] # 0
        BY <1>2, <2>2 DEF IInv, StampSound
    <2>4. StatementReady' /\ MdsRowFirst'
        BY <1>1, <1>4, <1>6, <2>1, <2>3 DEF StatementReady, MdsRowFirst, CurId, cacheVars
    <2>5. TypeOK' /\ ClockStarted'
        BY <1>1, <1>2, <1>6, <2>1 DEF IInv, TypeOK, ClockStarted, tableVars, cacheVars
    <2>6. IdhashSound' /\ StampSound' /\ ReferencesExist' /\ OpsJoinMds'
        BY <1>6 DEF IInv, IdhashSound, StampSound, ReferencesExist, OpsJoinMds,
                    tableVars, cacheVars
    <2> QED BY <2>1, <2>4, <2>5, <2>6 DEF IInv
<1>7. ASSUME AddTimestamp
      PROVE  /\ tsinfo' \in [Db -> Seq(Nat)]
             /\ tsinfo'[Cur.fs][Len(tsinfo[Cur.fs]) + 1] = s
             /\ Len(tsinfo[Cur.fs]) + 1 \in 1 .. Len(tsinfo'[Cur.fs])
             /\ \A g \in Db : \A i \in 1 .. Len(tsinfo[g]) :
                   i \in 1 .. Len(tsinfo'[g]) /\ tsinfo'[g][i] = tsinfo[g][i]
             /\ IdhashSound' /\ ReferencesExist' /\ OpsJoinMds'
             /\ UNCHANGED <<info, data, opsdata, idhash>>
    BY <1>2, <1>3, <1>7, StampAdded DEF AddTimestamp
<1>8. CASE /\ LosesReply(Cur.fs) /\ AddTimestamp
           /\ UNCHANGED <<timestamp, timestamp_id>> /\ Error
    <2>1. alive' \subseteq Db /\ faults' \in Nat
        BY <1>2, <1>8 DEF LosesReply, Fault, TypeOK
    <2>2. UNCHANGED <<cacheVars, dbs>> /\ UNCHANGED data
        BY <1>1, <1>7, <1>8 DEF cacheVars
    <2>3. /\ todo' \in Seq(Seq(Job)) /\ pc' = "start" /\ reconnect_needed' \in BOOLEAN
          /\ StatementReady' /\ TodoShape' /\ MdsRowFirst' /\ HandlerHasHandles'
          /\ HandlesOpen'
        BY <1>1, <1>8, <2>2, EndStep
    <2>4. TypeOK' /\ ClockStarted'
        BY <1>1, <1>2, <1>7, <1>8, <2>1, <2>2, <2>3 DEF IInv, TypeOK, ClockStarted, cacheVars, PC
    <2>5. StampSound'
        BY <1>7, <1>8 DEF IInv, StampSound
    <2> QED BY <1>7, <1>8, <2>3, <2>4, <2>5 DEF IInv
<1>9. CASE /\ Succeeds(Cur.fs) /\ AddTimestamp /\ MoveTo("data")
           /\ timestamp' = [timestamp EXCEPT ![Cur.fs] = s]
           /\ timestamp_id' = [timestamp_id EXCEPT ![Cur.fs] = Len(tsinfo[Cur.fs]) + 1]
    <2>1. /\ todo' \in Seq(Seq(Job)) /\ pc' \in PC /\ reconnect_needed' \in BOOLEAN
          /\ TodoShape' /\ HandlerHasHandles' /\ HandlesOpen'
          /\ Group' = Group /\ Cur' = Cur /\ todo' = todo /\ pc' = "data"
        BY <1>1, <1>4, <1>9, MoveStep
    <2>2. Len(tsinfo[Cur.fs]) + 1 \in Nat /\ Len(tsinfo[Cur.fs]) + 1 # 0
        BY <1>2 DEF TypeOK
    <2>3. /\ timestamp' \in [Db -> Nat] /\ timestamp_id' \in [Db -> Nat]
          /\ timestamp'[Cur.fs] = s /\ timestamp_id'[Cur.fs] = Len(tsinfo[Cur.fs]) + 1
          /\ \A g \in Db \ {Cur.fs} : /\ timestamp'[g] = timestamp[g]
                                      /\ timestamp_id'[g] = timestamp_id[g]
        <3> HIDE DEF s
        <3> QED BY <1>2, <1>3, <1>9, <2>2 DEF TypeOK
    <2> HIDE DEF s
    <2>4. StampSound'
        <3> SUFFICES ASSUME NEW f \in Db
                     PROVE  /\ timestamp'[f] = 0 <=> timestamp_id'[f] = 0
                            /\ timestamp_id'[f] # 0 =>
                                  /\ timestamp_id'[f] \in 1 .. Len(tsinfo'[f])
                                  /\ tsinfo'[f][timestamp_id'[f]] = timestamp'[f]
            BY DEF StampSound
        <3>1. CASE f = Cur.fs
            BY <1>3, <1>7, <1>9, <2>2, <2>3, <3>1
        <3>2. CASE f # Cur.fs
            BY <1>7, <1>9, <2>3, <3>2, ZenonT(60) DEF IInv, StampSound
        <3> QED BY <3>1, <3>2
    <2>5. StatementReady' /\ MdsRowFirst'
        <3>1. CurId' = CurId
            BY <1>7, <1>9, <2>1 DEF CurId
        <3> QED BY <1>1, <1>4, <2>1, <2>2, <2>3, <3>1 DEF StatementReady, MdsRowFirst
    <2>6. TypeOK' /\ ClockStarted'
        BY <1>1, <1>2, <1>7, <1>9, <2>1, <2>3, SMTT(30) DEF IInv, TypeOK, ClockStarted, Succeeds
    <2> QED BY <1>7, <1>9, <2>1, <2>4, <2>5, <2>6 DEF IInv
<1> QED BY <1>5, <1>6, <1>8, <1>9 DEF UpdateTimestamp

\* The ids an insert of data uses exist.
LEMMA IdsExist ==
    ASSUME IInv, todo # <<>>, Group # <<>>, pc = "data"
    PROVE  /\ CurId \in 1 .. Len(info[Cur.fs][TableOf(HashType(Cur.kind))])
           /\ timestamp_id[Cur.fs] \in 1 .. Len(tsinfo[Cur.fs])
           /\ timestamp_id[Cur.fs] \in Nat
<1>1. CurId # 0 /\ timestamp_id[Cur.fs] # 0
    BY DEF IInv, StatementReady
<1>2. /\ Cur.fs \in Db /\ Cur.name \in Name /\ HashType(Cur.kind) \in SvcType
    BY CurTyped DEF IInv
<1>3. CurId \in Matching(info[Cur.fs], HashType(Cur.kind), Cur.name)
    BY <1>1, <1>2 DEF IInv, IdhashSound, CurId
<1>4. timestamp_id[Cur.fs] \in 1 .. Len(tsinfo[Cur.fs]) /\ timestamp_id[Cur.fs] \in Nat
    BY <1>1, <1>2 DEF IInv, StampSound, TypeOK
<1> QED BY <1>3, <1>4 DEF Matching

\* A copy AddCopy stores differs from the rows there are in its number only.
LEMMA CopyTyped ==
    ASSUME NEW rows, NEW j, NEW r \in AddCopy(rows, j), r \notin rows
    PROVE  \E n \in 1 .. MaxCopies : r = OpsRowOf(j, n)
BY DEF AddCopy

LEMMA DataAdded ==
    ASSUME IInv, todo # <<>>, Group # <<>>, pc = "data", AddData
    PROVE  /\ data' \in [Db -> SUBSET DataRow] /\ opsdata' \in [Db -> SUBSET OpsRow]
           /\ ReferencesExist' /\ OpsJoinMds'
           /\ \A f \in Db : data[f] \subseteq data'[f]
           /\ Cur.kind = "mds" => [table |-> "mds", id |-> CurId, ts |-> timestamp_id[Cur.fs]]
                                      \in data'[Cur.fs]
<1> DEFINE t == TableOf(HashType(Cur.kind))
           new == [table |-> t, id |-> CurId, ts |-> timestamp_id[Cur.fs]]
<1>1. /\ TypeOK /\ Cur.fs \in Db /\ t \in Table /\ CurId \in Nat /\ Cur \in Job
    BY CurTyped DEF IInv
<1>2. /\ CurId \in 1 .. Len(info[Cur.fs][t])
      /\ timestamp_id[Cur.fs] \in 1 .. Len(tsinfo[Cur.fs])
      /\ timestamp_id[Cur.fs] \in Nat
    BY IdsExist
<1>3. UNCHANGED <<info, tsinfo>>
    BY DEF AddData
<1>4. data \in [Db -> SUBSET DataRow] /\ opsdata \in [Db -> SUBSET OpsRow]
    BY <1>1 DEF TypeOK
<1>5. CASE Cur.kind # "ops"
    <2>1. data' = [data EXCEPT ![Cur.fs] = @ \cup {new}] /\ UNCHANGED opsdata
        BY <1>5 DEF AddData
    <2>2. Cur.kind = "mds" => t = "mds"
        BY DEF TableOf, HashType
    <2>3. new \in DataRow /\ new.table = t /\ new.id = CurId /\ new.ts = timestamp_id[Cur.fs]
        BY <1>1, <1>2 DEF DataRow
    <2>4. Cur.kind = "mds" => new = [table |-> "mds", id |-> CurId, ts |-> timestamp_id[Cur.fs]]
        BY <2>2
    <2> HIDE DEF new, t
    <2>5. /\ data' \in [Db -> SUBSET DataRow] /\ data'[Cur.fs] = data[Cur.fs] \cup {new}
          /\ \A f \in Db \ {Cur.fs} : data'[f] = data[f]
        BY <1>1, <1>4, <2>1, <2>3
    <2>6. \A f \in Db : \A r \in data'[f] : r \in data[f] \/ (f = Cur.fs /\ r = new)
        BY <2>5
    <2>7. ReferencesExist'
        BY <1>2, <1>3, <2>1, <2>3, <2>6 DEF IInv, ReferencesExist
    <2>8. \A f \in Db : data[f] \subseteq data'[f]
        BY <2>5
    <2>9. OpsJoinMds'
        BY <2>1, <2>8 DEF IInv, OpsJoinMds
    <2> QED BY <1>4, <2>1, <2>4, <2>5, <2>7, <2>8, <2>9
<1>6. CASE Cur.kind = "ops"
    <2>1. opsdata' = [opsdata EXCEPT ![Cur.fs] = AddCopy(@, Cur)] /\ UNCHANGED data
        BY <1>6 DEF AddData
    <2>2. t = "mds"
        BY <1>6 DEF TableOf, HashType
    <2>3. Cur.ops[1] \in Op
        <3>1. GroupShape(Group) /\ Cur = Group[1] /\ Len(Group) >= 1
            BY CurTyped DEF IInv, TodoShape
        <3>2. Cur.ops # <<>> /\ Cur.ops \in Seq(Op)
            BY <1>1, <1>6, <3>1 DEF GroupShape, Job
        <3> QED BY <3>2
    <2>4. \A n \in 1 .. MaxCopies :
             /\ OpsRowOf(Cur, n) \in OpsRow /\ OpsRowOf(Cur, n).id = CurId
             /\ OpsRowOf(Cur, n).ts = timestamp_id[Cur.fs]
        BY <1>1, <1>2, <2>3, TimeAssumption DEF OpsRowOf, OpsRow
    <2>5. /\ opsdata'[Cur.fs] = AddCopy(opsdata[Cur.fs], Cur)
          /\ \A f \in Db \ {Cur.fs} : opsdata'[f] = opsdata[f]
          /\ opsdata' = [f \in Db |-> opsdata'[f]]
        BY <1>1, <1>4, <2>1
    <2>6. \A f \in Db : \A r \in opsdata'[f] :
             \/ r \in opsdata[f]
             \/ /\ f = Cur.fs /\ r \in OpsRow
                /\ r.id = CurId /\ r.ts = timestamp_id[Cur.fs]
        BY <2>4, <2>5, CopyTyped
    <2>7. opsdata' \in [Db -> SUBSET OpsRow]
        BY <1>4, <2>5, <2>6
    <2> HIDE DEF t
    <2>8. ReferencesExist'
        BY <1>2, <1>3, <2>1, <2>2, <2>6 DEF IInv, ReferencesExist
    <2>9. CurId # 0
        BY DEF IInv, StatementReady
    <2>10. [table |-> "mds", id |-> CurId, ts |-> timestamp_id[Cur.fs]] \in data[Cur.fs]
        BY <1>6, <2>9 DEF IInv, MdsRowFirst
    <2>11. OpsJoinMds'
        BY <2>1, <2>6, <2>10 DEF IInv, OpsJoinMds
    <2> QED BY <1>4, <1>6, <2>1, <2>7, <2>8, <2>11
<1> QED BY <1>5, <1>6

LEMMA InsertDataStep ==
    ASSUME IInv, InsertData
    PROVE  IInv'
<1>1. /\ todo # <<>> /\ Group # <<>> /\ pc = "data" /\ Quiet
      /\ UNCHANGED <<dbs, now, up, last_connect, tried>>
    BY DEF InsertData, AtStatement, Quiet, clockVars
<1>2. CASE Failed
    BY <1>1, <1>2, FailedStep
<1>3. CASE AddData /\ ((Succeeds(Cur.fs) /\ Done) \/ (LosesReply(Cur.fs) /\ Error))
    <2>1. TypeOK /\ alive' \subseteq Db /\ faults' \in Nat
        BY <1>3 DEF LosesReply, Fault, Succeeds, IInv, TypeOK
    <2>2. /\ data' \in [Db -> SUBSET DataRow] /\ opsdata' \in [Db -> SUBSET OpsRow]
          /\ ReferencesExist' /\ OpsJoinMds'
          /\ \A f \in Db : data[f] \subseteq data'[f]
          /\ Cur.kind = "mds" => [table |-> "mds", id |-> CurId, ts |-> timestamp_id[Cur.fs]]
                                     \in data'[Cur.fs]
        BY <1>1, <1>3, DataAdded
    <2>3. UNCHANGED <<info, tsinfo, cacheVars>>
        BY <1>3 DEF AddData
    <2>4. timestamp_id[Cur.fs] # 0
        BY <1>1 DEF IInv, StatementReady
    <2>5. /\ todo' \in Seq(Seq(Job)) /\ pc' = "start" /\ reconnect_needed' \in BOOLEAN
          /\ StatementReady' /\ TodoShape' /\ MdsRowFirst' /\ HandlerHasHandles'
          /\ HandlesOpen'
        BY <1>1, <1>3, <2>2, <2>3, <2>4, EndStep
    <2>6. TypeOK' /\ ClockStarted'
        BY <1>1, <2>1, <2>2, <2>3, <2>5 DEF IInv, TypeOK, ClockStarted, cacheVars, PC
    <2>7. IdhashSound' /\ StampSound'
        BY <2>3 DEF IInv, IdhashSound, StampSound, cacheVars
    <2> QED BY <2>2, <2>5, <2>6, <2>7 DEF IInv
<1> QED BY <1>2, <1>3 DEF InsertData

\* The head of an insert.
LEMMA StartInsertStep ==
    ASSUME IInv, StartInsert
    PROVE  IInv'
<1>1. /\ todo # <<>> /\ Group # <<>> /\ pc = "start"
      /\ UNCHANGED <<dbs, now, up, last_connect, tried, faults, alive, tableVars, cacheVars>>
    BY DEF StartInsert, AtStatement, Quiet, clockVars
<1>2. ASSUME TypeOK'
      PROVE  /\ IdhashSound' /\ StampSound' /\ ReferencesExist' /\ OpsJoinMds' /\ ClockStarted'
    BY <1>1 DEF IInv, IdhashSound, StampSound, ReferencesExist, OpsJoinMds,
                ClockStarted, tableVars, cacheVars
<1>3. CASE Done /\ (CurId = 0 \/ Cur.kind = "ops")
    <2>1. /\ todo' \in Seq(Seq(Job)) /\ pc' = "start" /\ reconnect_needed' \in BOOLEAN
          /\ StatementReady' /\ TodoShape' /\ MdsRowFirst' /\ HandlerHasHandles'
          /\ HandlesOpen'
        BY <1>1, <1>3, EndStep DEF tableVars
    <2>2. TypeOK'
        BY <1>1, <2>1 DEF IInv, TypeOK, tableVars, cacheVars, PC
    <2> QED BY <1>2, <2>1, <2>2 DEF IInv
<1>4. ASSUME NEW p \in {"timestamp", "insert_oss", "insert_info", "data"}, MoveTo(p),
             p = "insert_oss" => Cur.kind = "ost",
             p \in {"timestamp", "insert_info"} => Cur.kind # "ops",
             p = "insert_info" /\ Cur.kind = "ost" => idhash[Cur.fs]["oss"][Cur.host] # 0,
             p \in {"timestamp", "data"} => CurId # 0,
             p = "data" => Cur.kind = "ops"
      PROVE  IInv'
    <2>1. /\ todo' \in Seq(Seq(Job)) /\ pc' \in PC /\ reconnect_needed' \in BOOLEAN
          /\ TodoShape' /\ HandlerHasHandles' /\ HandlesOpen'
          /\ Group' = Group /\ Cur' = Cur /\ todo' = todo /\ pc' = p
        BY <1>1, <1>4, MoveStep DEF PC
    <2>2. CurId' = CurId
        BY <1>1, <2>1 DEF CurId, cacheVars
    <2>3. MdsRowFirst'
        BY <1>1, <2>1, <2>2 DEF IInv, MdsRowFirst, tableVars, cacheVars
    <2>4. p = "data" => timestamp_id[Cur.fs] # 0
        BY <1>1, <1>4 DEF IInv, MdsRowFirst
    <2>5. StatementReady'
        BY <1>1, <1>4, <2>1, <2>2, <2>4 DEF StatementReady, cacheVars
    <2>6. TypeOK'
        BY <1>1, <2>1 DEF IInv, TypeOK, tableVars, cacheVars
    <2> QED BY <1>2, <2>1, <2>3, <2>5, <2>6 DEF IInv
<1>5. /\ FirstStatement \in {"insert_oss", "insert_info"}
      /\ FirstStatement = "insert_oss" => Cur.kind = "ost"
      /\ FirstStatement = "insert_info" /\ Cur.kind = "ost"
            => idhash[Cur.fs]["oss"][Cur.host] # 0
    BY DEF FirstStatement
<1>6. CASE Cur.kind # "ops" /\ CurId # 0 /\ MoveTo("timestamp")
    BY <1>4, <1>6
<1>7. CASE Cur.kind # "ops" /\ MoveTo(FirstStatement)
    <2> DEFINE p == FirstStatement
    <2>1. p \in {"insert_oss", "insert_info"} /\ MoveTo(p)
        BY <1>5, <1>7
    <2> HIDE DEF p
    <2> QED BY <1>4, <1>5, <1>7, <2>1 DEF p
<1>8. CASE Cur.kind = "ops" /\ CurId # 0 /\ MoveTo("data")
    BY <1>4, <1>8
<1> QED BY <1>3, <1>6, <1>7, <1>8 DEF StartInsert

\* The loop over the targets of a metric.
LEMMA NextGroupStep ==
    ASSUME IInv, NextGroup
    PROVE  IInv'
<1>1. /\ todo \in Seq(Seq(Job)) /\ todo # <<>> /\ Len(todo) >= 1 /\ todo' = Tail(todo)
      /\ UNCHANGED <<now, up, faults, alive, tableVars, monitorVars, cacheVars, pc>>
    BY DEF IInv, TypeOK, NextGroup, clockVars
<1>2. /\ todo' \in Seq(Seq(Job)) /\ Len(todo') = Len(todo) - 1
      /\ \A k \in 1 .. Len(todo') : k + 1 \in 2 .. Len(todo) /\ todo'[k] = todo[k + 1]
    BY <1>1
<1>3. \A k \in 1 .. Len(todo') : GroupShape(todo'[k]) /\ StartsFresh(todo'[k])
    BY <1>1, <1>2 DEF IInv, TodoShape
<1>4. TodoShape' /\ TypeOK' /\ HandlerHasHandles' /\ HandlesOpen' /\ ClockStarted'
    BY <1>1, <1>2, <1>3 DEF IInv, TodoShape, TypeOK, HandlerHasHandles, HandlesOpen,
                            ClockStarted, tableVars, monitorVars, cacheVars
<1>5. IdhashSound' /\ StampSound' /\ ReferencesExist' /\ OpsJoinMds'
    BY <1>1 DEF IInv, IdhashSound, StampSound, ReferencesExist, OpsJoinMds,
                tableVars, cacheVars
<1>6. pc = "start" /\ pc' = "start"
    BY <1>1 DEF IInv, StatementReady, NextGroup
<1>7. todo' # <<>> /\ Group' # <<>> => Cur'.kind # "ops"
    <2> SUFFICES ASSUME todo' # <<>>, Group' # <<>>
                 PROVE  Cur'.kind # "ops"
        OBVIOUS
    <2>1. Group' = todo'[1] /\ Group' \in Seq(Job) /\ StartsFresh(Group')
        BY <1>2, <1>3 DEF Group
    <2>2. Cur' = Group'[1] /\ Len(Group') > 0
        BY <2>1 DEF Cur
    <2> QED BY <2>1, <2>2 DEF StartsFresh
<1>8. StatementReady' /\ MdsRowFirst'
    BY <1>6, <1>7 DEF StatementReady, MdsRowFirst
<1> QED BY <1>4, <1>5, <1>8 DEF IInv

\* A handler that starts, on the handles there are or on fresh ones.
LEMMA HandlerStarts ==
    ASSUME NEW m \in Metric, todo' = Handler(m), pc' = "start"
    PROVE  /\ todo' \in Seq(Seq(Job)) /\ pc' \in PC
           /\ TodoShape' /\ StatementReady' /\ MdsRowFirst'
<1>1. /\ todo' \in Seq(Seq(Job))
      /\ \A k \in 1 .. Len(todo') : GroupShape(todo'[k]) /\ StartsFresh(todo'[k])
    BY HandlerTyped
<1>2. TodoShape'
    BY <1>1 DEF TodoShape
<1>3. todo' # <<>> /\ Group' # <<>> => Cur'.kind # "ops"
    <2> SUFFICES ASSUME todo' # <<>>, Group' # <<>>
                 PROVE  Cur'.kind # "ops"
        OBVIOUS
    <2>1. Group' = todo'[1] /\ Group' \in Seq(Job) /\ StartsFresh(Group')
        BY <1>1 DEF Group
    <2>2. Cur' = Group'[1] /\ Len(Group') > 0
        BY <2>1 DEF Cur
    <2> QED BY <2>1, <2>2 DEF StartsFresh
<1>4. StatementReady' /\ MdsRowFirst' /\ pc' \in PC
    BY <1>3 DEF StatementReady, MdsRowFirst, PC
<1> QED BY <1>1, <1>2, <1>4

LEMMA UseHandlesStep ==
    ASSUME IInv, NEW m \in Metric, UseHandles(m)
    PROVE  IInv'
<1>1. /\ ~reconnect_needed /\ todo' = Handler(m) /\ pc' = "start"
      /\ UNCHANGED <<now, up, faults, alive, tableVars, monitorVars, cacheVars>>
    BY DEF UseHandles, clockVars
<1>2. /\ todo' \in Seq(Seq(Job)) /\ pc' \in PC
      /\ TodoShape' /\ StatementReady' /\ MdsRowFirst'
    BY <1>1, HandlerStarts
<1>3. TypeOK' /\ HandlerHasHandles' /\ HandlesOpen' /\ ClockStarted'
    BY <1>1, <1>2 DEF IInv, TypeOK, HandlerHasHandles, HandlesOpen, ClockStarted,
                      tableVars, monitorVars, cacheVars
<1>4. IdhashSound' /\ StampSound' /\ ReferencesExist' /\ OpsJoinMds'
    BY <1>1 DEF IInv, IdhashSound, StampSound, ReferencesExist, OpsJoinMds,
                tableVars, cacheVars
<1> QED BY <1>2, <1>3, <1>4 DEF IInv

\* Empty caches are sound.
LEMMA FreshCaches ==
    ASSUME IInv, UNCHANGED tableVars,
           timestamp' = [f \in Db |-> 0], timestamp_id' = [f \in Db |-> 0]
    PROVE  /\ timestamp' \in [Db -> Nat] /\ timestamp_id' \in [Db -> Nat]
           /\ StampSound' /\ ReferencesExist' /\ OpsJoinMds'
<1>1. StampSound'
    BY DEF StampSound
<1>2. ReferencesExist' /\ OpsJoinMds'
    BY DEF IInv, ReferencesExist, OpsJoinMds, tableVars
<1> QED BY <1>1, <1>2

\* The handles go, and no handler is left: throttled, failed or restarted.
LEMMA DisconnectedStep ==
    ASSUME IInv, Disconnected, UNCHANGED tableVars, UNCHANGED clockVars,
           todo' = <<>>, pc' = "start", reconnect_needed' = TRUE,
           last_connect' \in Nat, tried' \in Nat, faults' \in Nat
    PROVE  IInv'
<1>1. /\ dbs' = "NULL" /\ alive' = {} /\ timestamp' = [f \in Db |-> 0]
      /\ timestamp_id' = [f \in Db |-> 0] /\ idhash' = [f \in Db |-> EmptyHash]
      /\ UNCHANGED <<now, up>>
    BY DEF Disconnected, clockVars
<1>2. /\ timestamp' \in [Db -> Nat] /\ timestamp_id' \in [Db -> Nat]
      /\ StampSound' /\ ReferencesExist' /\ OpsJoinMds'
    BY <1>1, FreshCaches
<1>3. /\ idhash' \in [Db -> [SvcType -> [Name -> Nat]]] /\ IdhashSound'
    BY <1>1 DEF EmptyHash, IdhashSound
<1>4. TypeOK'
    BY <1>1, <1>2, <1>3 DEF IInv, TypeOK, tableVars, PC
<1>5. /\ HandlerHasHandles' /\ HandlesOpen' /\ ClockStarted' /\ StatementReady'
      /\ TodoShape' /\ MdsRowFirst'
    BY <1>1 DEF IInv, HandlerHasHandles, HandlesOpen, ClockStarted, StatementReady,
                TodoShape, MdsRowFirst
<1> QED BY <1>2, <1>3, <1>4, <1>5 DEF IInv

\* The hash read from the tables holds ids of the rows it was read from.
LEMMA PopulateSound ==
    ASSUME NEW tables \in [Table -> Seq(Row)], NEW p \in SvcType, NEW n \in Name
    PROVE  /\ _populate_idhash(tables)[p][n] \in Nat
           /\ _populate_idhash(tables)[p][n] # 0 =>
                 _populate_idhash(tables)[p][n] \in Matching(tables, p, n)
<1>1. _populate_idhash(tables)[p][n] =
        IF Matching(tables, p, n) = {} THEN 0 ELSE CHOOSE i \in Matching(tables, p, n) : TRUE
    BY DEF _populate_idhash
<1>2. TableOf(p) \in Table
    BY DEF TableOf, SvcType, Table
<1>3. Matching(tables, p, n) \subseteq Nat
    BY <1>2 DEF Matching
<1> QED BY <1>1, <1>3

LEMMA ConnectStep ==
    ASSUME IInv, NEW m \in Metric, Connect(m)
    PROVE  IInv'
<1>1. /\ last_connect' = now /\ tried' = now /\ reconnect_needed' = FALSE /\ dbs' = "open" /\ alive' = Db
      /\ timestamp' = [f \in Db |-> 0] /\ timestamp_id' = [f \in Db |-> 0]
      /\ idhash' = [f \in Db |-> _populate_idhash(info[f])]
      /\ todo' = Handler(m) /\ pc' = "start"
      /\ UNCHANGED <<now, up, faults, tableVars>>
    BY DEF Connect, clockVars
<1>2. /\ todo' \in Seq(Seq(Job)) /\ pc' \in PC
      /\ TodoShape' /\ StatementReady' /\ MdsRowFirst'
    BY <1>1, HandlerStarts
<1>3. /\ timestamp' \in [Db -> Nat] /\ timestamp_id' \in [Db -> Nat]
      /\ StampSound' /\ ReferencesExist' /\ OpsJoinMds'
    BY <1>1, FreshCaches
<1>4. \A f \in Db : info[f] \in [Table -> Seq(Row)] /\ info'[f] = info[f]
    BY <1>1 DEF IInv, TypeOK, tableVars
<1>5. \A f \in Db : _populate_idhash(info[f]) \in [SvcType -> [Name -> Nat]]
    BY <1>4, PopulateSound DEF _populate_idhash
<1>6. idhash' \in [Db -> [SvcType -> [Name -> Nat]]]
    BY <1>1, <1>5
<1>7. IdhashSound'
    <2>1. \A f \in Db : idhash'[f] = _populate_idhash(info[f])
        BY <1>1
    <2> QED BY <1>4, <2>1, PopulateSound DEF IdhashSound
<1>8. TypeOK' /\ HandlerHasHandles' /\ HandlesOpen' /\ ClockStarted'
    BY <1>1, <1>2, <1>3, <1>6 DEF IInv, TypeOK, HandlerHasHandles, HandlesOpen,
                                  ClockStarted, tableVars
<1> QED BY <1>2, <1>3, <1>7, <1>8 DEF IInv

\* Time and the server leave the monitor and its tables alone.
LEMMA WorldStep ==
    ASSUME IInv, now' \in Nat, now' >= now, up' \in BOOLEAN, alive' \subseteq alive,
           UNCHANGED <<faults, tableVars, monitorVars, cacheVars, todo, pc>>
    PROVE  IInv'
<1>1. TypeOK' /\ ClockStarted'
    BY TimeAssumption DEF IInv, TypeOK, ClockStarted, tableVars, monitorVars, cacheVars
<1>2. IdhashSound' /\ StampSound' /\ ReferencesExist' /\ OpsJoinMds'
    BY DEF IInv, IdhashSound, StampSound, ReferencesExist, OpsJoinMds,
           tableVars, cacheVars
<1>3. HandlerHasHandles' /\ HandlesOpen' /\ TodoShape'
    BY DEF IInv, HandlerHasHandles, HandlesOpen, TodoShape, monitorVars
<1>4. Group' = Group /\ Cur' = Cur /\ CurId' = CurId
    BY DEF Group, Cur, CurId, cacheVars
<1>5. StatementReady' /\ MdsRowFirst'
    BY <1>4 DEF IInv, StatementReady, MdsRowFirst, tableVars, cacheVars
<1> QED BY <1>1, <1>2, <1>3, <1>5 DEF IInv

---------------------------------------------------------------------------
(* The theorems.                                                           *)

LEMMA InitIInv == Init => IInv
<1> SUFFICES ASSUME Init PROVE IInv
    OBVIOUS
<1>1. TypeOK /\ ClockStarted
    BY TimeAssumption DEF Init, TypeOK, ClockStarted, EmptyHash, PC
<1>2. IdhashSound /\ StampSound /\ OpsJoinMds
    BY DEF Init, IdhashSound, StampSound, OpsJoinMds, EmptyHash
<1>3. ReferencesExist
    BY DEF Init, ReferencesExist, Table
<1>4. HandlerHasHandles /\ HandlesOpen /\ StatementReady /\ TodoShape /\ MdsRowFirst
    BY DEF Init, HandlerHasHandles, HandlesOpen, StatementReady, TodoShape, MdsRowFirst
<1> QED BY <1>1, <1>2, <1>3, <1>4 DEF IInv

LEMMA MetricUpdateStep ==
    ASSUME IInv, NEW m \in Metric, MetricUpdate(m)
    PROVE  IInv'
<1>1. reconnect_needed \in BOOLEAN /\ now \in Nat /\ last_connect \in Nat
      /\ tried \in Nat /\ faults \in Nat
    BY DEF IInv, TypeOK
<1>2. Idle => pc = "start"
    BY DEF IInv, StatementReady, Idle
<1>3. CASE UseHandles(m)
    BY <1>3, UseHandlesStep
<1>4. CASE Throttled
    BY <1>1, <1>2, <1>4, DisconnectedStep DEF Throttled, Idle
<1>5. CASE ConnectFails
    <2>1. faults' \in Nat
        BY <1>1, <1>5 DEF ConnectFails, Fault
    <2> QED BY <1>1, <1>2, <1>5, <2>1, DisconnectedStep DEF ConnectFails, Idle
<1>6. CASE Connect(m)
    BY <1>6, ConnectStep
<1> QED BY <1>3, <1>4, <1>5, <1>6 DEF MetricUpdate

LEMMA NextIInv == IInv /\ [Next]_vars => IInv'
<1> SUFFICES ASSUME IInv, [Next]_vars PROVE IInv'
    OBVIOUS
<1>1. now \in Nat /\ up \in BOOLEAN /\ faults \in Nat
    BY DEF IInv, TypeOK
<1>2. CASE \E m \in Metric : MetricUpdate(m)
    BY <1>2, MetricUpdateStep
<1>3. CASE Statement
    BY <1>3, NextGroupStep, StartInsertStep, InsertOssStep, InsertInfoStep, SelectSteps,
       UpdateTimestampStep, InsertDataStep DEF Statement
<1>4. CASE Tick
    BY <1>1, <1>4, WorldStep DEF Tick
<1>5. CASE ServerDown
    <2>1. now' = now /\ up' = FALSE /\ alive' = {}
          /\ UNCHANGED <<faults, tableVars, monitorVars, cacheVars, todo, pc>>
        BY <1>5 DEF ServerDown
    <2>2. now' \in Nat /\ now' >= now
        BY <1>1, <2>1
    <2>3. up' \in BOOLEAN /\ alive' \subseteq alive
        BY <2>1, Zenon
    <2> QED BY <2>1, <2>2, <2>3, WorldStep
<1>8. CASE ServerUp
    <2>1. now' = now /\ up' = TRUE /\ alive' = alive
          /\ UNCHANGED <<faults, tableVars, monitorVars, cacheVars, todo, pc>>
        BY <1>8 DEF ServerUp
    <2> QED BY <1>1, <2>1, WorldStep
<1>6. CASE Restart
    BY <1>1, <1>6, DisconnectedStep DEF Restart, Fault
<1>7. CASE UNCHANGED vars
    BY <1>1, <1>7, WorldStep DEF vars, clockVars
<1> QED BY <1>2, <1>3, <1>4, <1>5, <1>6, <1>7, <1>8 DEF Next

\* IInv is an invariant of the monitor, for every value of the constants.
THEOREM Inductive == Spec => []IInv
BY InitIInv, NextIInv, PTL DEF Spec

\* Type correctness: whatever arrives and whatever fails, handles, caches,
\* tables and the handler's work stay well-typed.
THEOREM TypeCorrect == Spec => []TypeOK
<1>1. IInv => TypeOK
    BY DEF IInv
<1> QED BY <1>1, Inductive, PTL

\* The idhash of a handle always agrees with the *_INFO tables it stands for,
\* through every failed statement, lost reply and reconnect.
THEOREM CachesSound == Spec => []IdhashSound
<1>1. IInv => IdhashSound
    BY DEF IInv
<1> QED BY <1>1, Inductive, PTL

\* timestamp and timestamp_id of lmt_db_t always name one row of
\* TIMESTAMP_INFO, or none: _update_timestamp sets both or neither.
THEOREM StampsSound == Spec => []StampSound
<1>1. IInv => StampSound
    BY DEF IInv
<1> QED BY <1>1, Inductive, PTL

\* Referential integrity without foreign keys: every sample and every OST
\* stored through the lmt_db_insert_* functions refers to rows that exist.
THEOREM References == Spec => []ReferencesExist
<1>1. IInv => ReferencesExist
    BY DEF IInv
<1> QED BY <1>1, Inductive, PTL

\* lmt_db_insert_mds_ops_data joins the MDS_DATA row of its own metric.
THEOREM OpsJoin == Spec => []OpsJoinMds
<1>1. IInv => OpsJoinMds
    BY DEF IInv
<1> QED BY <1>1, Inductive, PTL

\* A handler at work always has handles.
THEOREM HandlesStay == Spec => []HandlerHasHandles
<1>1. IInv => HandlerHasHandles
    BY DEF IInv
<1> QED BY <1>1, Inductive, PTL

---------------------------------------------------------------------------
(* The throttle.                                                           *)

\* last_connect is the time of the last attempt, whatever happened since: an
\* attempt that fails is recorded, and nothing but an attempt or a new cerebrod
\* changes it.
Recorded == tried = last_connect

LEMMA AttemptsRecorded == Spec => []Recorded
<1>1. Init => Recorded
    BY DEF Init, Recorded
<1>2. ASSUME Recorded, [Next]_vars PROVE Recorded'
    <2>1. CASE \E m \in Metric : MetricUpdate(m)
        BY <1>2, <2>1 DEF MetricUpdate, UseHandles, Throttled, ConnectFails, Connect,
                          monitorVars, Recorded
    <2>2. CASE Tick \/ ServerDown \/ ServerUp \/ Restart
        BY <1>2, <2>2 DEF Tick, ServerDown, ServerUp, Restart, monitorVars, Recorded
    <2>3. CASE Statement
        BY <1>2, <2>3 DEF Statement, NextGroup, StartInsert, InsertOss, InsertInfo, SelectOss,
                          SelectMds, SelectInfo, InsertRow, SelectRow, UpdateTimestamp,
                          InsertData, Quiet, monitorVars, Recorded
    <2>4. CASE UNCHANGED vars
        BY <1>2, <2>4 DEF vars, monitorVars, Recorded
    <2> QED BY <1>2, <2>1, <2>2, <2>3, <2>4 DEF Next
<1> QED BY <1>1, <1>2, PTL DEF Spec

\* The throttle of _init_db_ifneeded holds between what really happened: any
\* two attempts of one cerebrod, whether they failed or not, are
\* MIN_RECONNECT_SECS apart.
THEOREM Throttling == Spec => AttemptsApart
<1> DEFINE Step == Attempt /\ tried # 0 => now - tried >= MinReconnectSecs
<1>1. ASSUME TypeOK, Recorded PROVE Step
    <2>1. now \in Nat /\ last_connect \in Nat /\ MinReconnectSecs \in Nat
        BY <1>1, TimeAssumption DEF TypeOK
    <2>2. Attempt => ~ThrottledConnect
        BY DEF Attempt, ConnectFails, Connect
    <2> QED BY <1>1, <2>1, <2>2 DEF Recorded, ThrottledConnect
<1>2. TypeOK /\ Recorded /\ [Next]_vars => [Step]_vars
    BY <1>1
<1> HIDE DEF Step
<1>3. Spec => [][Step]_vars
    BY <1>2, TypeCorrect, AttemptsRecorded, PTL DEF Spec
<1> QED BY <1>3 DEF AttemptsApart, Step

---------------------------------------------------------------------------
(* Where targets are recorded.                                             *)

\* What the jobs and the rows of OST_INFO and MDS_INFO are about.
JobFits(j) == j.kind \in {"ost", "mds"} => Assigned(j.fs, j.name)

GroupFits(g) == \A i \in DOMAIN g : JobFits(g[i])

TodoFits == \A k \in 1 .. Len(todo) : GroupFits(todo[k])

RowFits(f, t, row) == t \in {"ost", "mds"} => Assigned(f, row.name)

RowsFit ==
    \A f \in Db : \A t \in {"ost", "mds"} : \A i \in 1 .. Len(info[f][t]) :
        RowFits(f, t, info[f][t][i])

\* _svc_to_db chooses a target's database when its job is made.
LEMMA OstFits ==
    ASSUME NEW m \in Metric, NEW s \in Svc
    PROVE  GroupFits(_insert_ostinfo(m, s)) /\ GroupFits(_insert_ost_v1(m, s))
<1>1. CASE ~HasDb(s)
    BY <1>1 DEF _insert_ostinfo, _insert_ost_v1, GroupFits
<1>2. CASE HasDb(s)
    <2> DEFINE a == Insert(_svc_to_db(s), "ost", s, m.host, <<>>, TRUE)
               b == Insert(_svc_to_db(s), "oss", m.host, m.host, <<>>, TRUE)
    <2>1. a.kind = "ost" /\ a.fs = _svc_to_db(s) /\ a.name = s /\ b.kind = "oss"
        BY DEF Insert
    <2>2. Assigned(_svc_to_db(s), s)
        BY <1>2 DEF Assigned
    <2> HIDE DEF a, b
    <2>3. JobFits(a) /\ JobFits(b)
        BY <2>1, <2>2 DEF JobFits
    <2>4. GroupFits(<<a, b>>) /\ GroupFits(<<a>>)
        BY <2>3 DEF GroupFits
    <2> QED BY <1>2, <2>4 DEF _insert_ostinfo, _insert_ost_v1, a, b
<1> QED BY <1>1, <1>2

LEMMA MdsFits ==
    ASSUME NEW m \in Metric, m.type = "mdt", NEW k \in DOMAIN m.svcs, m.svcs[k] \in Svc
    PROVE  GroupFits(_insert_mds(m, m.svcs[k]))
<1> DEFINE s == m.svcs[k]
<1>1. CASE ~HasDb(s)
    BY <1>1 DEF _insert_mds, GroupFits
<1>2. CASE HasDb(s)
    <2> DEFINE g == _insert_mds(m, s)
               n == Len(m.ops) + 1
               a == Insert(_svc_to_db(s), "mds", s, m.host, <<>>, TRUE)
               b(i) == Insert(_svc_to_db(s), "ops", s, m.host, <<m.ops[i - 1]>>, FALSE)
    <2>1. g = [i \in 1 .. n |-> IF i = 1 THEN a ELSE b(i)]
        BY <1>2, Zenon DEF _insert_mds
    <2>2. /\ a.kind = "mds" /\ a.fs = _svc_to_db(s) /\ a.name = s /\ a.host = m.host
          /\ \A i : b(i).kind = "ops"
        BY DEF Insert
    <2>3. Assigned(_svc_to_db(s), s)
        BY <1>2 DEF Assigned
    <2> HIDE DEF g, n, a, b, s
    <2>5. JobFits(a) /\ \A i : JobFits(b(i))
        BY <2>2, <2>3 DEF JobFits
    <2>6. GroupFits(g)
        BY <2>1, <2>5 DEF GroupFits
    <2> QED BY <2>6 DEF g, s
<1> QED BY <1>1, <1>2

LEMMA HandlerFits ==
    ASSUME NEW m \in Metric, NEW k \in 1 .. Len(Handler(m))
    PROVE  GroupFits(Handler(m)[k])
<1>1. m.svcs \in Seq(Svc) /\ DOMAIN m.svcs = 1 .. Len(m.svcs)
      /\ \A i \in DOMAIN m.svcs : m.svcs[i] \in Svc
    BY MetricAssumption
<1>2. Handler(m) \in Seq(Seq(Job))
    BY HandlerTyped
<1>3. k \in DOMAIN Handler(m)
    BY <1>2
<1>4. CASE m.type = "ost_v2"
    BY <1>1, <1>3, <1>4, OstFits DEF Handler
<1>5. CASE m.type = "mdt"
    BY <1>1, <1>3, <1>5, MdsFits DEF Handler
<1>6. CASE m.type = "ost_v1"
    BY <1>1, <1>3, <1>6, OstFits DEF Handler
<1>7. GroupFits(_insert_router(m)) /\ GroupFits(_insert_oss_v1(m))
    BY DEF _insert_router, _insert_oss_v1, Insert, GroupFits, JobFits
<1>8. CASE m.type \notin {"ost_v2", "mdt", "ost_v1"}
    <2>1. Handler(m) \in {<<_insert_router(m)>>, <<_insert_oss_v1(m)>>, <<>>}
        BY <1>8 DEF Handler
    <2> QED BY <1>3, <1>7, <2>1
<1> QED BY <1>4, <1>5, <1>6, <1>8

\* How a step changes what is left to do: not at all, to a metric's handler, to
\* nothing, or by the end of a group or of an insert.
TodoMoves ==
    \/ todo' = todo \/ todo' = <<>>
    \/ \E m \in Metric : todo' = Handler(m)
    \/ todo # <<>> /\ todo' = Tail(todo)
    \/ todo # <<>> /\ Group # <<>> /\ (Done \/ Error)

\* How a step changes the *_INFO tables: not at all, or by the row of the insert
\* at work.
Adding(p, t, row) == AtStatement(p) /\ Adds(Cur.fs, t, row)

OssRow == [name |-> Cur.host, host |-> Cur.host, oss_id |-> 0]

InfoRow ==
    [name |-> Cur.name, host |-> Cur.host,
     oss_id |-> IF Cur.kind = "ost" THEN idhash[Cur.fs]["oss"][Cur.host] ELSE 0]

InfoMoves ==
    \/ info' = info
    \/ Adding("insert_oss", "oss", OssRow)
    \/ Adding("insert_info", TableOf(HashType(Cur.kind)), InfoRow)

LEMMA RowsTyped ==
    ASSUME IInv, todo # <<>>, Group # <<>>
    PROVE  OssRow \in Row /\ InfoRow \in Row
<1>1. /\ Cur.fs \in Db /\ Cur.host \in Name /\ Cur.name \in Name
    BY CurTyped DEF IInv
<1>2. idhash[Cur.fs]["oss"][Cur.host] \in Nat
    BY <1>1 DEF IInv, TypeOK, SvcType
<1> QED BY <1>1, <1>2 DEF OssRow, InfoRow, Row

LEMMA Moves ==
    ASSUME [Next]_vars
    PROVE  TodoMoves /\ InfoMoves
<1>1. CASE \E m \in Metric : MetricUpdate(m)
    BY <1>1 DEF MetricUpdate, UseHandles, Throttled, ConnectFails, Connect, TodoMoves,
                InfoMoves, tableVars
<1>2. CASE NextGroup
    BY <1>2 DEF NextGroup, TodoMoves, InfoMoves, tableVars
<1>3. CASE StartInsert
    <2>1. info' = info
        BY <1>3 DEF StartInsert, tableVars
    <2>2. todo # <<>> /\ Group # <<>> /\ (todo' = todo \/ Done)
        BY <1>3 DEF StartInsert, AtStatement, MoveTo
    <2> QED BY <2>1, <2>2 DEF TodoMoves, InfoMoves
<1>4. ASSUME NEW p, NEW t, NEW row, NEW next, InsertRow(p, t, row, next)
      PROVE  TodoMoves /\ (info' = info \/ Adding(p, t, row))
    BY <1>4 DEF InsertRow, AddRow, Adding, Adds, AtStatement, Failed, MoveTo, TodoMoves, tableVars
<1>5. CASE InsertOss
    BY <1>4, <1>5 DEF InsertOss, InfoMoves, OssRow
<1>6. CASE InsertInfo
    BY <1>4, <1>6 DEF InsertInfo, InfoMoves, InfoRow
<1>7. ASSUME NEW p, NEW pfx, NEW n, NEW next, SelectRow(p, pfx, n, next)
      PROVE  TodoMoves /\ info' = info
    BY <1>7 DEF SelectRow, AtStatement, Failed, MoveTo, TodoMoves, tableVars
<1>8. CASE SelectOss \/ SelectMds \/ SelectInfo
    BY <1>7, <1>8 DEF SelectOss, SelectMds, SelectInfo, InfoMoves
<1>9. CASE UpdateTimestamp
    BY <1>9 DEF UpdateTimestamp, AtStatement, AddTimestamp, Failed, MoveTo, TodoMoves,
                InfoMoves, tableVars
<1>10. CASE InsertData
    BY <1>10 DEF InsertData, AtStatement, AddData, Failed, TodoMoves, InfoMoves, tableVars
<1>11. CASE Tick \/ ServerDown \/ ServerUp \/ Restart \/ UNCHANGED vars
    BY <1>11 DEF Tick, ServerDown, ServerUp, Restart, vars, TodoMoves, InfoMoves, tableVars
<1> QED BY <1>1, <1>2, <1>3, <1>5, <1>6, <1>8, <1>9, <1>10, <1>11 DEF Next, Statement

\* The jobs keep fitting.
LEMMA TodoKeepsFitting ==
    ASSUME TypeOK, TodoFits, TodoMoves
    PROVE  TodoFits'
<1>1. todo \in Seq(Seq(Job))
    BY DEF TypeOK
<1>2. CASE todo' = todo \/ todo' = <<>>
    BY <1>2 DEF TodoFits
<1>3. CASE \E m \in Metric : todo' = Handler(m)
    BY <1>3, HandlerFits DEF TodoFits
<1>4. CASE todo # <<>> /\ todo' = Tail(todo)
    <2>1. \A k \in 1 .. Len(todo') : k + 1 \in 1 .. Len(todo) /\ todo'[k] = todo[k + 1]
        BY <1>1, <1>4
    <2> QED BY <2>1 DEF TodoFits
<1>5. CASE todo # <<>> /\ Group # <<>> /\ (Done \/ Error)
    <2>1. Group \in Seq(Job) /\ Group = todo[1] /\ Len(todo) >= 1
        BY <1>5, CurTyped
    <2>2. PICK g \in {<<>>, Tail(Group)} : todo' = [todo EXCEPT ![1] = g]
        BY <1>5, <2>1 DEF Done, Error
    <2>3. GroupFits(Group)
        BY <2>1 DEF TodoFits
    <2>4. \A i \in DOMAIN Tail(Group) : i + 1 \in DOMAIN Group /\ Tail(Group)[i] = Group[i + 1]
        BY <1>5, <2>1
    <2>5. GroupFits(g)
        <3>1. GroupFits(<<>>)
            BY DEF GroupFits
        <3>2. GroupFits(Tail(Group))
            BY <2>3, <2>4 DEF GroupFits
        <3> QED BY <2>2, <3>1, <3>2
    <2>6. \A k \in 1 .. Len(todo') : k \in 1 .. Len(todo) /\ (k = 1 => todo'[k] = g)
              /\ (k # 1 => todo'[k] = todo[k])
        BY <1>1, <2>1, <2>2
    <2> QED BY <2>5, <2>6 DEF TodoFits
<1> QED BY <1>2, <1>3, <1>4, <1>5 DEF TodoMoves

\* The rows keep fitting: a row is that of the job at work.
LEMMA RowsKeepFitting ==
    ASSUME IInv, TodoFits, RowsFit, InfoMoves
    PROVE  RowsFit'
<1>1. CASE info' = info
    BY <1>1 DEF RowsFit
<1>2. ASSUME NEW p, NEW t \in Table, NEW row \in Row, Adding(p, t, row),
             RowFits(Cur.fs, t, row)
      PROVE  RowsFit'
    <2>1. TypeOK /\ Cur.fs \in Db
        BY <1>2, CurTyped DEF IInv, Adding, AtStatement
    <2> DEFINE here == Cur.fs
    <2>a. Adds(here, t, row) /\ here \in Db
        BY <1>2, <2>1 DEF Adding
    <2>f. RowFits(here, t, row)
        BY <1>2
    <2> HIDE DEF here
    <2>2. /\ \A f \in Db : \A u \in Table :
                 IF f = here /\ u = t
                 THEN /\ Len(info'[f][u]) = Len(info[f][u]) + 1
                      /\ info'[f][u][Len(info[f][u]) + 1] = row
                 ELSE info'[f][u] = info[f][u]
          /\ Grows
        BY <2>1, <2>a, AddsRow
    <2>3. ASSUME NEW f \in Db, NEW u \in {"ost", "mds"}, NEW i \in 1 .. Len(info'[f][u])
          PROVE  RowFits(f, u, info'[f][u][i])
        <3>1. u \in Table /\ Len(info[f][u]) \in Nat
            BY <2>1, SMTT(30) DEF TypeOK, Table
        <3>2. CASE i \in 1 .. Len(info[f][u])
            BY <2>2, <3>1, <3>2 DEF RowsFit, Grows
        <3>3. CASE i \notin 1 .. Len(info[f][u])
            <4>1. f = here /\ u = t
                BY <2>2, <3>1, <3>3
            <4>2. info'[f][u][i] = row
                BY <2>2, <3>1, <3>3, <4>1
            <4> QED BY <2>f, <4>1, <4>2
        <3> QED BY <3>2, <3>3
    <2> QED BY <2>3 DEF RowsFit
<1>3. CASE Adding("insert_oss", "oss", OssRow)
    <2>1. OssRow \in Row /\ "oss" \in Table /\ RowFits(Cur.fs, "oss", OssRow)
        BY <1>3, RowsTyped DEF Adding, AtStatement, Table, RowFits
    <2> QED BY <1>2, <1>3, <2>1
<1>4. CASE Adding("insert_info", TableOf(HashType(Cur.kind)), InfoRow)
    <2>1. /\ todo # <<>> /\ Group # <<>> /\ pc = "insert_info" /\ TypeOK
        BY <1>4 DEF Adding, AtStatement, IInv
    <2>2. /\ Group \in Seq(Job) /\ Group = todo[1] /\ Len(todo) >= 1
          /\ Cur = Group[1] /\ Len(Group) >= 1 /\ Cur \in Job
          /\ TableOf(HashType(Cur.kind)) \in Table
        BY <2>1, CurTyped
    <2>3. JobFits(Cur)
        <3>1. GroupFits(Group)
            BY <2>1, <2>2 DEF TodoFits, TypeOK
        <3> QED BY <2>2, <3>1 DEF GroupFits
    <2>4. Cur.kind # "ops"
        BY <2>1 DEF IInv, StatementReady
    <2>5. /\ TableOf(HashType(Cur.kind)) = "ost" => Cur.kind = "ost"
          /\ TableOf(HashType(Cur.kind)) = "mds" => Cur.kind = "mds"
        BY <2>2, <2>4 DEF TableOf, HashType, Job, Kind
    <2>6. InfoRow.name = Cur.name /\ InfoRow.host = Cur.host
        BY DEF InfoRow
    <2>7. RowFits(Cur.fs, TableOf(HashType(Cur.kind)), InfoRow)
        BY <2>3, <2>5, <2>6 DEF RowFits, JobFits
    <2>8. InfoRow \in Row
        BY <2>1, RowsTyped
    <2> QED BY <1>2, <1>4, <2>2, <2>7, <2>8
<1> QED BY <1>1, <1>3, <1>4 DEF InfoMoves

LEMMA FitsMeans ==
    ASSUME IInv
    PROVE  TodoFits /\ RowsFit <=> TargetsAssigned
<1>1. todo \in Seq(Seq(Job)) /\ \A k \in 1 .. Len(todo) : DOMAIN todo[k] = 1 .. Len(todo[k])
    BY DEF IInv, TypeOK
<1>2. TodoFits <=> \A j \in Jobs : JobFits(j)
    <2>1. \A j : j \in Jobs <=> \E k \in 1 .. Len(todo) : \E i \in 1 .. Len(todo[k]) : j = todo[k][i]
        BY DEF Jobs
    <2> QED BY <1>1, <2>1 DEF TodoFits, GroupFits
<1>3. RowsFit <=>
        \A f \in Db : \A t \in {"ost", "mds"} : \A i \in 1 .. Len(info[f][t]) :
            Assigned(f, info[f][t][i].name)
    BY DEF RowsFit, RowFits
<1> QED BY <1>2, <1>3 DEF TargetsAssigned, JobFits

\* The jobs and the rows are in the databases _svc_to_db chose.
Fitting == TodoFits /\ RowsFit

LEMMA FittingAlways == Spec => []Fitting
<1>1. Init => Fitting
    BY DEF Init, Fitting, TodoFits, RowsFit, Table
<1>2. IInv /\ Fitting /\ [Next]_vars => Fitting'
    BY Moves, TodoKeepsFitting, RowsKeepFitting DEF Fitting, IInv
<1> QED BY <1>1, <1>2, Inductive, PTL DEF Spec

\* Every target a handler is at work on, and every one in OST_INFO and
\* MDS_INFO, is in the database that _svc_to_db chooses for its name: no retry,
\* no row added by a lost reply and no rebuilt hash moves it to another.
THEOREM TargetsChosen == Spec => []TargetsAssigned
<1>1. IInv /\ Fitting => TargetsAssigned
    BY FitsMeans DEF Fitting
<1> QED BY <1>1, Inductive, FittingAlways, PTL

=============================================================================
