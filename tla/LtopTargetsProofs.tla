------------------------- MODULE LtopTargetsProofs -------------------------
(***************************************************************************)
(* Proofs about ltop's lists, for every set of servers, targets and        *)
(* reports.  A list is good when each of its records is: samples in order, *)
(* and counters of one server.  The functions on samples and on one target *)
(* keep a record good; the actions apply them to the lists.                *)
(***************************************************************************)
EXTENDS LtopTargets, FiniteSetTheorems, TLAPS

\* What OneServerRates says of one target.
OneServer(o) ==
    \A f \in Invalidated :
        /\ o.samples[f].valid >= 1 => o.samples[f].val1.by = o.servername
        /\ o.samples[f].valid = 2 => o.samples[f].val0.by = o.servername

GoodTarget(o) ==
    /\ o \in TargetRecord
    /\ \A f \in Field : Ordered(o.samples[f])
    /\ OneServer(o)
    /\ o.ts # 0 => o.servername \in Server

GoodServer(r) ==
    /\ r \in ServerRecord
    /\ \A f \in Field : Ordered(r.samples[f])

GoodTargets(list) ==
    /\ Partial(list, Target, TargetRecord)
    /\ \A t \in DOMAIN list : GoodTarget(list[t])

GoodServers(list) ==
    /\ Partial(list, Server, ServerRecord)
    /\ \A s \in DOMAIN list : GoodServer(list[s])

---------------------------------------------------------------------------
(* Samples.                                                                *)

\* A new sample is a sample without readings.
LEMMA CreateTyped ==
    sample_create \in Sample /\ sample_create.valid = 0 /\ Ordered(sample_create)
BY DEF sample_create, Sample, NoValue, Value, Ordered

\* sample_update keeps the readings in order, the newer one being the new.
LEMMA UpdateSample ==
    ASSUME NEW s \in Sample, NEW v \in Value, NEW t \in Nat, Ordered(s)
    PROVE  /\ sample_update(s, v, t) \in Sample
           /\ Ordered(sample_update(s, v, t))
<1>1. CASE s.valid = 0
  <2>1. sample_update(s, v, t) = [s EXCEPT !.time1 = t, !.val1 = v, !.valid = 1]
    BY <1>1 DEF sample_update
  <2>2. 1 \in 0 .. 2
    OBVIOUS
  <2>3. sample_update(s, v, t) \in Sample /\ sample_update(s, v, t).valid = 1
    BY <2>1, <2>2 DEF Sample
  <2> QED BY <2>3 DEF Ordered
<1>2. CASE s.valid # 0 /\ s.time1 < t
  <2>1. sample_update(s, v, t) =
            [valid |-> 2, time0 |-> s.time1, time1 |-> t, val0 |-> s.val1, val1 |-> v]
    BY <1>2 DEF sample_update
  <2>2. s.time1 \in Nat /\ s.val1 \in Value
    BY DEF Sample
  <2> QED BY <1>2, <2>1, <2>2 DEF Sample, Ordered
<1>3. CASE s.valid # 0 /\ ~(s.time1 < t)
    BY <1>3 DEF sample_update
<1> QED BY <1>1, <1>2, <1>3

\* Where the readings of an updated sample come from.
LEMMA UpdateBy ==
    ASSUME NEW s \in Sample, NEW v \in Value, NEW t \in Nat, NEW w,
           s.valid >= 1 => s.val1.by = w,
           s.valid = 2 => s.val0.by = w,
           v.by = w
    PROVE  LET u == sample_update(s, v, t) IN
           /\ u.valid >= 1 => u.val1.by = w
           /\ u.valid = 2 => u.val0.by = w
BY DEF sample_update, Sample, Value

\* An invalidated sample has no readings.
LEMMA InvalidateTyped ==
    ASSUME NEW s \in Sample
    PROVE  /\ sample_invalidate(s) \in Sample
           /\ sample_invalidate(s).valid = 0
           /\ Ordered(sample_invalidate(s))
BY DEF sample_invalidate, Sample, Ordered

\* sample_add is Combined of two numbers.
LEMMA AddTyped ==
    ASSUME NEW s1 \in Sample, NEW s2 \in Sample
    PROVE  \E n1, n0 \in Nat : sample_add(s1, s2) = Combined(s1, s2, n1, n0)
<1>1. s1.val1.n + s2.val1.n \in Nat /\ s1.val0.n + s2.val0.n \in Nat
    BY DEF Sample, Value
<1> QED BY <1>1 DEF sample_add

\* So is sample_min.
LEMMA MinTyped ==
    ASSUME NEW s1 \in Sample, NEW s2 \in Sample
    PROVE  \E n1, n0 \in Nat : sample_min(s1, s2) = Combined(s1, s2, n1, n0)
<1>1. Smaller(s1.val1.n, s2.val1.n) \in Nat /\ Smaller(s1.val0.n, s2.val0.n) \in Nat
    BY DEF Sample, Value, Smaller
<1> QED BY <1>1 DEF sample_min

\* What Summed makes of the server's sample.
LEMMA SummedTyped ==
    ASSUME NEW s1 \in Sample, NEW s2 \in Sample,
           NEW c, c \in {sample_add(s1, s2), sample_min(s1, s2), s1}
    PROVE  /\ c \in Sample
           /\ c.valid = s1.valid /\ c.time0 = s1.time0 /\ c.time1 = s1.time1
           /\ c.val0.by = s1.val0.by /\ c.val1.by = s1.val1.by
<1>1. CASE c = s1
    BY <1>1
<1>2. CASE c # s1
  <2>1. PICK n1 \in Nat, n0 \in Nat : c = Combined(s1, s2, n1, n0)
    BY <1>2, AddTyped, MinTyped
  <2> QED BY <2>1 DEF Combined, Sample, Value
<1> QED BY <1>1, <1>2

---------------------------------------------------------------------------
(* One target.                                                             *)

\* A new record is good.
LEMMA NewTargetGood == GoodTarget(NewTarget)
<1>1. \A f \in Field : NewTarget.samples[f] = sample_create
    BY DEF NewTarget
<1>2. NewTarget \in TargetRecord
    BY CreateTyped DEF NewTarget, TargetRecord
<1>3. Invalidated \subseteq Field
    BY DEF Invalidated
<1>4. NewTarget.ts = 0
    BY DEF NewTarget
<1> QED BY <1>1, <1>2, <1>3, <1>4, CreateTyped DEF GoodTarget, OneServer

\* list_find_first, or a new record.
LEMMA FindGood ==
    ASSUME NEW list, GoodTargets(list), NEW t
    PROVE  GoodTarget(Find(list, t))
BY NewTargetGood DEF Find, GoodTargets

\* Before a metric of server s is taken in, the readings left are of s.
LEMMA AfterFailoverGood ==
    ASSUME NEW o, GoodTarget(o), NEW s \in Server
    PROVE  /\ AfterFailover(o, s) \in [Field -> Sample]
           /\ \A f \in Field : Ordered(AfterFailover(o, s)[f])
           /\ \A f \in Invalidated :
                 /\ AfterFailover(o, s)[f].valid >= 1 => AfterFailover(o, s)[f].val1.by = s
                 /\ AfterFailover(o, s)[f].valid = 2 => AfterFailover(o, s)[f].val0.by = s
<1> USE DEF GoodTarget
<1>1. o.samples \in [Field -> Sample]
    BY DEF TargetRecord
<1>2. ASSUME NEW f \in Field
      PROVE  /\ AfterFailover(o, s)[f] = o.samples[f]
                \/ AfterFailover(o, s)[f] = sample_invalidate(o.samples[f])
             /\ AfterFailover(o, s)[f] \in Sample
             /\ Ordered(AfterFailover(o, s)[f])
    BY <1>1, InvalidateTyped DEF AfterFailover
<1>3. AfterFailover(o, s) \in [Field -> Sample]
    BY <1>2 DEF AfterFailover
<1>4. ASSUME NEW f \in Invalidated
      PROVE  /\ AfterFailover(o, s)[f].valid >= 1 => AfterFailover(o, s)[f].val1.by = s
             /\ AfterFailover(o, s)[f].valid = 2 => AfterFailover(o, s)[f].val0.by = s
  <2>1. f \in Field
    BY DEF Invalidated
  <2>2. CASE s # o.servername
    BY <1>1, <2>1, <2>2, InvalidateTyped DEF AfterFailover
  <2>3. CASE s = o.servername
    BY <2>1, <2>3 DEF AfterFailover, OneServer
  <2> QED BY <2>2, <2>3
<1> QED BY <1>2, <1>3, <1>4

\* _update_ost and _update_mdt keep a record good and never take it back.
LEMMA UpdateGood ==
    ASSUME NEW o, GoodTarget(o), NEW s \in Server, NEW r \in Reading, NEW trcv \in Nat
    PROVE  /\ GoodTarget(Update(o, s, r, trcv))
           /\ Update(o, s, r, trcv).ts >= o.ts
           /\ Update(o, s, r, trcv).servername # o.servername
                 => Update(o, s, r, trcv).ts > o.ts
<1> DEFINE u == Update(o, s, r, trcv)
           v == [n |-> r.n, by |-> s]
           new == [f \in Field |-> IF f \in r.fields
                                   THEN sample_update(AfterFailover(o, s)[f], v, trcv)
                                   ELSE AfterFailover(o, s)[f]]
<1>1. o \in TargetRecord /\ o.ts \in Nat
    BY DEF GoodTarget, TargetRecord
<1>2. CASE ~(o.ts < trcv)
    BY <1>1, <1>2 DEF Update
<1>3. CASE o.ts < trcv
  <2>1. u = [o EXCEPT !.servername = s, !.ts = trcv, !.recov_status = r.recov, !.samples = new]
    BY <1>3 DEF Update
  <2>2. v \in Value /\ v.by = s
    BY DEF Value, Reading
  <2>3. ASSUME NEW f \in Field
        PROVE  new[f] \in Sample /\ Ordered(new[f])
    BY <2>2, AfterFailoverGood, UpdateSample
  <2>4. new \in [Field -> Sample]
    BY <2>3
  <2>5. u \in TargetRecord /\ u.samples = new /\ u.servername = s /\ u.ts = trcv
    BY <1>1, <2>1, <2>4 DEF TargetRecord, Reading
  <2>6. ASSUME NEW f \in Invalidated
        PROVE  /\ new[f].valid >= 1 => new[f].val1.by = s
               /\ new[f].valid = 2 => new[f].val0.by = s
    <3>1. f \in Field
      BY DEF Invalidated
    <3>2. AfterFailover(o, s)[f] \in Sample
      BY <3>1, AfterFailoverGood
    <3>3. CASE f \in r.fields
      <4>1. new[f] = sample_update(AfterFailover(o, s)[f], v, trcv)
        BY <3>1, <3>3
      <4> HIDE DEF new, v
      <4> QED BY <2>2, <3>2, <4>1, AfterFailoverGood, UpdateBy
    <3>4. CASE f \notin r.fields
      BY <3>1, <3>4, AfterFailoverGood
    <3> QED BY <3>3, <3>4
  <2> HIDE DEF new, u
  <2>7. GoodTarget(u)
    BY <2>3, <2>5, <2>6 DEF GoodTarget, OneServer
  <2> QED BY <1>1, <1>3, <2>5, <2>7 DEF u
<1> QED BY <1>2, <1>3

---------------------------------------------------------------------------
(* The inductive invariant, with the lists' parts gathered record by       *)
(* record.                                                                 *)

\* The cluster, cerebro, and the metrics of the current poll.
MetricsTyped ==
    /\ now \in Nat /\ events \in Nat
    /\ owner \in [Target -> Server]
    /\ Total(cer, Server)
    /\ \A s \in Server : cer[s].trcv \in Nat /\ Partial(cer[s].vals, Target, Reading)
    /\ Total(osc, Mds)
    /\ \A m \in Mds : osc[m].trcv \in Nat /\ Partial(osc[m].states, Target, State)

PolledTyped ==
    /\ \A m \in polled :
          m.node \in Server /\ m.trcv \in Nat /\ Partial(m.vals, Target, Reading)
    /\ \A m \in polled_osc : m.trcv \in Nat /\ Partial(m.states, Target, State)

ControlTyped ==
    /\ tcycle \in Nat /\ last_sample \in Nat
    /\ fs \in Fs /\ target_view \in BOOLEAN
    /\ queue \subseteq Target
    /\ pc \in {"idle", "repoll", "poll", "summarize"}

Good ==
    /\ MetricsTyped /\ PolledTyped /\ ControlTyped
    /\ GoodTargets(target_data) /\ GoodServers(server_data)
    /\ OwnFs /\ ClockPast /\ SummaryReady

\* It says no less than the invariants the runs check.
LEMMA GoodIInv == Good => IInv
<1> SUFFICES ASSUME Good PROVE IInv
    OBVIOUS
<1>1. TypeOK
    BY DEF Good, MetricsTyped, PolledTyped, ControlTyped, GoodTargets, GoodServers, TypeOK
<1>2. SampleOrdered
    BY DEF Good, GoodTargets, GoodServers, GoodTarget, GoodServer, SampleOrdered
<1>3. OneServerRates /\ HasServer
    BY DEF Good, GoodTargets, GoodTarget, OneServer, OneServerRates, HasServer
<1> QED BY <1>1, <1>2, <1>3 DEF Good, IInv

\* The list is empty at the start and after another file system is chosen.
LEMMA EmptyGood == GoodTargets(EmptyList) /\ GoodServers(EmptyList) /\ DOMAIN EmptyList = {}
BY DEF EmptyList, GoodTargets, GoodServers, Partial

\* The first state, before anything has been decoded.
LEMMA InitGood == Init => Good
<1> SUFFICES ASSUME Init PROVE Good
    OBVIOUS
<1>1. StaleSecs \in Nat /\ MaxEvents \in Nat
    BY TargetsAssumption
<1>2. MetricsTyped
    BY <1>1 DEF Init, MetricsTyped, Total, Partial, EmptyList
<1>3. PolledTyped /\ ControlTyped /\ ClockPast /\ SummaryReady
    BY <1>1 DEF Init, PolledTyped, ControlTyped, ClockPast, SummaryReady
<1>4. OwnFs
    BY EmptyGood DEF Init, OwnFs
<1> QED BY <1>2, <1>3, <1>4, EmptyGood DEF Init, Good

---------------------------------------------------------------------------
(* One lemma per action, or group of actions that leave the lists alone.   *)

\* The clock, a failover, a report: the world changes, ltop does not.
LEMMA WorldGood == Good /\ World => Good'
<1> SUFFICES ASSUME Good, World PROVE Good'
    OBVIOUS
<1> USE DEF Good
<1>1. UNCHANGED <<fs, target_view, tcycle, last_sample, target_data, server_data,
                  polled, polled_osc, queue, pc>>
    BY DEF World, Tick, Failover, Report, ReportOsc, userVars
<1>2. MetricsTyped' /\ now' >= now
  <2>1. CASE Tick
    BY <2>1 DEF Tick, MetricsTyped
  <2>2. ASSUME NEW t \in Target, NEW s \in Server, Failover(t, s)
        PROVE  MetricsTyped' /\ now' >= now
    BY <2>2 DEF Failover, Event, MetricsTyped
  <2>3. ASSUME NEW s \in Server, Report(s)
        PROVE  MetricsTyped' /\ now' >= now
    <3>1. PICK v \in TargetReport :
              cer' = [cer EXCEPT ![s] =
                [trcv |-> now, vals |-> [t \in {t \in Target : owner[t] = s} |-> v[t]]]]
      BY <2>3 DEF Report
    <3>2. v \in [Target -> Reading]
      BY TargetsAssumption
    <3>3. Partial([t \in {t \in Target : owner[t] = s} |-> v[t]], Target, Reading)
      BY <3>2 DEF Partial
    <3>4. /\ Total(cer, Server)' /\ now \in Nat
          /\ \A x \in Server : cer'[x].trcv \in Nat /\ Partial(cer'[x].vals, Target, Reading)
      BY <3>1, <3>3 DEF MetricsTyped, Total
    <3> QED BY <2>3, <3>4 DEF Report, Event, MetricsTyped
  <2>4. ASSUME NEW m \in Mds, ReportOsc(m)
        PROVE  MetricsTyped' /\ now' >= now
    <3>1. PICK st \in OscReport : osc' = [osc EXCEPT ![m] = [trcv |-> now, states |-> st]]
      BY <2>4 DEF ReportOsc
    <3>2. Partial(st, Target, State)
      BY TargetsAssumption DEF Partial
    <3>3. /\ Total(osc, Mds)' /\ now \in Nat
          /\ \A x \in Mds : osc'[x].trcv \in Nat /\ Partial(osc'[x].states, Target, State)
      BY <3>1, <3>2 DEF MetricsTyped, Total
    <3> QED BY <2>4, <3>3 DEF ReportOsc, Event, MetricsTyped
  <2> QED BY <2>1, <2>2, <2>3, <2>4 DEF World
<1>3. PolledTyped' /\ ControlTyped' /\ OwnFs' /\ SummaryReady'
    BY <1>1 DEF PolledTyped, ControlTyped, OwnFs, InFs, SummaryReady
<1>4. ClockPast'
    BY <1>1, <1>2, TargetsAssumption DEF ClockPast, MetricsTyped
<1> QED BY <1>1, <1>2, <1>3, <1>4

\* What recompute leaves behind: an empty list of servers, or the old one.
LEMMA RecomputeGood ==
    ASSUME Good, NEW view, Recompute(target_data, view), UNCHANGED target_data
    PROVE  /\ GoodServers(server_data)' /\ SummaryReady'
           /\ queue' \subseteq Target /\ pc' \in {"idle", "summarize"}
<1>1. DOMAIN target_data \subseteq Target /\ queue \subseteq Target
    BY DEF Good, GoodTargets, Partial, ControlTyped
<1>2. CASE view
    BY <1>1, <1>2 DEF Recompute, Good, SummaryReady, GoodServers, GoodServer
<1>3. CASE ~view
    BY <1>1, <1>3, EmptyGood DEF Recompute, SummaryReady
<1> QED BY <1>2, <1>3

\* A poll takes copies of cerebro's metrics, or fails.
LEMMA PollStartGood == Good /\ PollStart => Good'
<1> SUFFICES ASSUME Good, PollStart PROVE Good'
    OBVIOUS
<1> USE DEF Good, PollStart
<1>1. MetricsTyped' /\ ControlTyped' /\ OwnFs' /\ ClockPast' /\ SummaryReady'
    BY DEF MetricsTyped, ControlTyped, OwnFs, InFs, ClockPast, SummaryReady,
           worldVars, userVars
<1>2. \A m \in polled' : m.node \in Server /\ m.trcv \in Nat /\ Partial(m.vals, Target, Reading)
  <2>1. PICK got \in SUBSET {s \in Server : cer[s].trcv # 0} :
            polled' = {[node |-> s, trcv |-> cer[s].trcv, vals |-> cer[s].vals] : s \in got}
    OBVIOUS
  <2> QED BY <2>1 DEF MetricsTyped
<1>3. \A m \in polled_osc' : m.trcv \in Nat /\ Partial(m.states, Target, State)
  <2>1. PICK got \in SUBSET {m \in Mds : osc[m].trcv # 0} : polled_osc' = {osc[m] : m \in got}
    OBVIOUS
  <2> QED BY <2>1 DEF MetricsTyped
<1>4. PolledTyped'
    BY <1>2, <1>3 DEF PolledTyped
<1> QED BY <1>1, <1>4

\* A poll that fails or has decoded everything recomputes the summary.
LEMMA PollStopsGood == Good /\ (PollFails \/ PollEnds) => Good'
<1> SUFFICES ASSUME Good, PollFails \/ PollEnds PROVE Good'
    OBVIOUS
<1>1. /\ Recompute(target_data, target_view)
      /\ UNCHANGED <<worldVars, userVars, tcycle, target_data, polled, polled_osc>>
      /\ last_sample' \in {now, last_sample} /\ last_sample' \in Nat
    BY DEF PollFails, PollEnds, Good, MetricsTyped, ControlTyped
<1>2. /\ GoodServers(server_data)' /\ SummaryReady'
      /\ queue' \subseteq Target /\ pc' \in {"idle", "summarize"}
    BY <1>1, RecomputeGood
<1>3. MetricsTyped' /\ PolledTyped' /\ OwnFs' /\ ClockPast' /\ GoodTargets(target_data)'
    BY <1>1 DEF Good, MetricsTyped, PolledTyped, OwnFs, InFs, ClockPast, worldVars, userVars
<1>4. ControlTyped'
    BY <1>1, <1>2 DEF Good, ControlTyped, userVars
<1> QED BY <1>2, <1>3, <1>4 DEF Good

\* A metric goes into the targets it names, one record at a time.
LEMMA DecodeGood ==
    ASSUME Good, NEW m \in polled, Decode(m)
    PROVE  /\ Good'
           /\ \A t \in DOMAIN target_data :
                 /\ t \in DOMAIN target_data'
                 /\ target_data'[t].ts >= target_data[t].ts
                 /\ target_data'[t].servername # target_data[t].servername
                       => target_data'[t].ts > target_data[t].ts
<1> DEFINE ts == {t \in DOMAIN m.vals : InFs(t)}
<1> USE DEF Good, Decode
<1>1. /\ m.node \in Server /\ m.trcv \in Nat
      /\ ts \subseteq Target /\ \A t \in ts : m.vals[t] \in Reading
    BY DEF PolledTyped, Partial
<1>2. target_data' = [t \in DOMAIN target_data \cup ts |->
           IF t \in ts THEN Update(Find(target_data, t), m.node, m.vals[t], m.trcv)
           ELSE target_data[t]]
    OBVIOUS
<1>3. \A t \in ts : InFs(t)
    OBVIOUS
<1>4. MetricsTyped' /\ ControlTyped' /\ PolledTyped' /\ ClockPast' /\ SummaryReady'
    BY DEF MetricsTyped, ControlTyped, PolledTyped, ClockPast, SummaryReady,
           worldVars, userVars
<1> HIDE DEF ts
<1>5. OwnFs'
    BY <1>2, <1>3 DEF OwnFs, InFs, userVars
<1>6. ASSUME NEW t \in DOMAIN target_data \cup ts
      PROVE  GoodTarget(target_data'[t])
  <2>1. CASE t \in ts
    <3>1. GoodTarget(Find(target_data, t))
      BY FindGood
    <3>2. target_data'[t] = Update(Find(target_data, t), m.node, m.vals[t], m.trcv)
      BY <1>2, <2>1
    <3> QED BY ONLY <1>1, <2>1, <3>1, <3>2, UpdateGood
  <2>2. CASE t \notin ts
    BY <1>2, <2>2 DEF GoodTargets
  <2> QED BY <2>1, <2>2
<1>7. GoodTargets(target_data')
  <2>1. DOMAIN target_data' = DOMAIN target_data \cup ts
    BY <1>2
  <2>2. DOMAIN target_data' \subseteq Target
    BY <1>1, <2>1 DEF GoodTargets, Partial
  <2>3. target_data' = [t \in DOMAIN target_data' |-> target_data'[t]]
    BY <1>2
  <2> QED BY <1>6, <2>1, <2>2, <2>3 DEF GoodTargets, GoodTarget, Partial
<1>8. ASSUME NEW t \in DOMAIN target_data
      PROVE  /\ t \in DOMAIN target_data'
             /\ target_data'[t].ts >= target_data[t].ts
             /\ target_data'[t].servername # target_data[t].servername
                   => target_data'[t].ts > target_data[t].ts
  <2>1. GoodTarget(target_data[t]) /\ target_data[t].ts \in Nat
    BY DEF GoodTargets, GoodTarget, TargetRecord
  <2>2. CASE t \in ts
    BY <1>1, <1>2, <2>1, <2>2, UpdateGood DEF Find
  <2>3. CASE t \notin ts
    BY <1>2, <2>1, <2>3
  <2> QED BY <1>2, <2>2, <2>3
<1> QED BY <1>4, <1>5, <1>7, <1>8

\* A record with another target state is as good as it was.
LEMMA StateGood ==
    ASSUME NEW o, GoodTarget(o), NEW st \in State \cup {""}
    PROVE  LET u == [o EXCEPT !.tgtstate = st] IN
           GoodTarget(u) /\ u.ts = o.ts /\ u.servername = o.servername
<1> DEFINE u == [o EXCEPT !.tgtstate = st]
<1>1. /\ u \in TargetRecord /\ u.samples = o.samples
      /\ u.servername = o.servername /\ u.ts = o.ts
    BY DEF GoodTarget, TargetRecord
<1> HIDE DEF u
<1>2. GoodTarget(u)
    BY <1>1 DEF GoodTarget, OneServer
<1> QED BY <1>1, <1>2 DEF u

\* So is a record with another tag.
LEMMA TagGood ==
    ASSUME NEW o, GoodTarget(o), NEW b \in BOOLEAN
    PROVE  LET u == [o EXCEPT !.tag = b] IN
           GoodTarget(u) /\ u.ts = o.ts /\ u.servername = o.servername
<1> DEFINE u == [o EXCEPT !.tag = b]
<1>1. /\ u \in TargetRecord /\ u.samples = o.samples
      /\ u.servername = o.servername /\ u.ts = o.ts
    BY DEF GoodTarget, TargetRecord
<1> HIDE DEF u
<1>2. GoodTarget(u)
    BY <1>1 DEF GoodTarget, OneServer
<1> QED BY <1>1, <1>2 DEF u

\* No record that two lists share goes back, or changes server without a newer metric.
Forward(old, new) ==
    \A t \in DOMAIN old \cap DOMAIN new :
        /\ new[t].ts >= old[t].ts
        /\ new[t].servername # old[t].servername => new[t].ts > old[t].ts

\* What _decode_osc_v1 and the tags do to a list: each record, old or new, has
\* another state or another tag.
LEMMA TouchedGood ==
    ASSUME GoodTargets(target_data), NEW D, NEW list, D \subseteq Target,
           list = [t \in D |-> list[t]],
           \A t \in D : /\ GoodTarget(list[t])
                        /\ t \in DOMAIN target_data =>
                              /\ list[t].ts = target_data[t].ts
                              /\ list[t].servername = target_data[t].servername
    PROVE  GoodTargets(list) /\ Forward(target_data, list)
<1>1. DOMAIN list = D
    OBVIOUS
<1>2. GoodTargets(list)
    BY <1>1 DEF GoodTargets, Partial, GoodTarget
<1>3. \A t \in DOMAIN target_data : target_data[t].ts \in Nat
    BY DEF GoodTargets, Partial, TargetRecord
<1> QED BY <1>1, <1>2, <1>3 DEF Forward

\* The target states an MDS reports change no reading, time or server.
LEMMA DecodeOscGood ==
    ASSUME Good, NEW m \in polled_osc, DecodeOsc(m)
    PROVE  Good' /\ Forward(target_data, target_data')
<1> DEFINE ts == {t \in DOMAIN m.states : InFs(t)}
           D == DOMAIN target_data \cup ts
           st(t) == IF Expired(m.trcv, tcycle, StaleSecs) THEN "" ELSE m.states[t]
<1>1. ts \subseteq Target /\ \A t \in ts : st(t) \in State \cup {""}
    BY DEF Good, PolledTyped, Partial
<1>2. target_data' = [t \in D |->
           IF t \in ts THEN [Find(target_data, t) EXCEPT !.tgtstate = st(t)]
           ELSE target_data[t]]
    BY DEF DecodeOsc
<1>3. \A t \in ts : InFs(t)
    OBVIOUS
<1>4. MetricsTyped' /\ ControlTyped' /\ PolledTyped' /\ ClockPast' /\ SummaryReady'
      /\ GoodServers(server_data)' /\ fs' = fs
    BY DEF Good, DecodeOsc, MetricsTyped, ControlTyped, PolledTyped, ClockPast, SummaryReady,
           worldVars, userVars
<1>5. D \subseteq Target
    BY <1>1 DEF Good, GoodTargets, Partial
<1> HIDE DEF ts, st
<1>6. OwnFs'
    BY <1>2, <1>3, <1>4 DEF Good, OwnFs, InFs
<1>7. ASSUME NEW t \in D
      PROVE  /\ GoodTarget(target_data'[t])
             /\ t \in DOMAIN target_data =>
                   /\ target_data'[t].ts = target_data[t].ts
                   /\ target_data'[t].servername = target_data[t].servername
  <2>1. CASE t \in ts
    <3>1. GoodTarget(Find(target_data, t))
      BY FindGood DEF Good
    <3>2. target_data'[t] = [Find(target_data, t) EXCEPT !.tgtstate = st(t)]
      BY <1>2, <2>1
    <3>3. st(t) \in State \cup {""}
      BY <1>1, <2>1
    <3>4. t \in DOMAIN target_data => Find(target_data, t) = target_data[t]
      BY DEF Find
    <3> DEFINE o == Find(target_data, t)
               u == [o EXCEPT !.tgtstate = st(t)]
    <3>5. GoodTarget(u) /\ u.ts = o.ts /\ u.servername = o.servername
      BY ONLY <3>1, <3>3, StateGood, Zenon
    <3> HIDE DEF o
    <3> QED BY <3>2, <3>4, <3>5 DEF o
  <2>2. CASE t \notin ts
    BY <1>2, <2>2 DEF Good, GoodTargets
  <2> QED BY <2>1, <2>2
<1>8. target_data' = [t \in D |-> target_data'[t]]
    BY <1>2
<1> HIDE DEF D
<1>9. GoodTargets(target_data') /\ Forward(target_data, target_data')
    BY <1>5, <1>7, <1>8, TouchedGood DEF Good
<1> QED BY <1>4, <1>6, <1>9 DEF Good

---------------------------------------------------------------------------
(* The summary.                                                            *)

\* A target that is not stale has a server.
LEMMA LiveHasServer ==
    ASSUME Good, NEW t \in DOMAIN target_data, ~Expired(target_data[t].ts, tcycle, StaleSecs)
    PROVE  target_data[t].servername \in Server
<1>1. GoodTarget(target_data[t]) /\ target_data[t].ts \in Nat
    BY DEF Good, GoodTargets, Partial, TargetRecord
<1>2. tcycle \in Nat /\ StaleSecs \in Nat /\ tcycle > StaleSecs
    BY TargetsAssumption DEF Good, ControlTyped, ClockPast
<1>3. target_data[t].ts # 0
    BY <1>1, <1>2 DEF Expired
<1> QED BY <1>1, <1>3 DEF GoodTarget

\* The first target of a server becomes its record.
LEMMA CopyGood ==
    ASSUME Good, NEW t \in DOMAIN target_data
    PROVE  GoodServer(CopyOf(t)) /\ CopyOf(t).first = t
<1>1. GoodTarget(target_data[t]) /\ t \in Target
    BY DEF Good, GoodTargets, Partial
<1>2. target_data[t] \in TargetRecord /\ target_data[t].samples \in [Field -> Sample]
    BY <1>1 DEF GoodTarget, TargetRecord
<1>3. CopyOf(t) \in ServerRecord
    BY <1>1, <1>2 DEF CopyOf, ServerRecord
<1>4. CopyOf(t).samples = target_data[t].samples /\ CopyOf(t).first = t
    BY DEF CopyOf
<1> QED BY <1>1, <1>3, <1>4 DEF GoodServer, GoodTarget

\* A sum has the times of the server's sample, wherever that is kept.
LEMMA SummedGood ==
    ASSUME Good, NEW t \in DOMAIN target_data, NEW r, GoodServer(r),
           r.first \in DOMAIN target_data, NEW f \in Field
    PROVE  LET old == ServerSample(target_data, r, f)
               new == Summed(r, t, f)
           IN  /\ old \in Sample /\ Ordered(old)
               /\ new \in Sample /\ Ordered(new)
               /\ new.valid = old.valid /\ new.time1 = old.time1
               /\ new.val0.by = old.val0.by /\ new.val1.by = old.val1.by
<1> DEFINE old == ServerSample(target_data, r, f)
           s2 == target_data[t].samples[f]
           new == Summed(r, t, f)
<1>1. GoodTarget(target_data[t]) /\ GoodTarget(target_data[r.first])
    BY DEF Good, GoodTargets
<1>2. /\ target_data[t].samples \in [Field -> Sample]
      /\ target_data[r.first].samples \in [Field -> Sample]
      /\ r.samples \in [Field -> Sample]
    BY <1>1 DEF GoodTarget, TargetRecord, GoodServer, ServerRecord
<1>3. old \in Sample /\ Ordered(old) /\ s2 \in Sample
    BY <1>1, <1>2 DEF ServerSample, GoodTarget, GoodServer
<1>4. new \in {sample_add(old, s2), sample_min(old, s2), old}
    BY DEF Summed
<1> HIDE DEF old, s2, new
<1>5. /\ new \in Sample /\ new.valid = old.valid
      /\ new.time0 = old.time0 /\ new.time1 = old.time1
      /\ new.val0.by = old.val0.by /\ new.val1.by = old.val1.by
    BY ONLY <1>3, <1>4, SummedTyped
<1>6. Ordered(new)
    BY <1>3, <1>5 DEF Ordered
<1> QED BY <1>3, <1>5, <1>6 DEF old, new

\* A further target is summed into the server's record.
LEMMA MergedGood ==
    ASSUME Good, NEW t \in DOMAIN target_data, NEW r, GoodServer(r),
           r.first \in DOMAIN target_data
    PROVE  GoodServer(Merged(r, t)) /\ Merged(r, t).first = r.first
<1> DEFINE o == target_data[t]
           sums == [f \in Field |-> IF f \in Shared THEN r.samples[f] ELSE Summed(r, t, f)]
           ts == IF o.ts < r.rec.ts THEN o.ts ELSE r.rec.ts
           state == IF o.tgtstate # "F" THEN o.tgtstate ELSE r.rec.tgtstate
           recov == IF o.recov_status # "COMPLETE" THEN o.recov_status ELSE r.rec.recov_status
           tag == r.rec.tag \/ o.tag
           rec == [r.rec EXCEPT !.ts = ts, !.tgtstate = state, !.recov_status = recov,
                                !.tag = tag]
           count == r.count + 1
           new == [r EXCEPT !.rec = rec, !.count = count, !.samples = sums]
<1>1. o \in TargetRecord
    BY DEF Good, GoodTargets, Partial
<1>2. /\ r \in ServerRecord /\ r.rec \in TargetRecord
      /\ r.samples \in [Field -> Sample] /\ r.count \in Nat /\ r.first \in Target
    BY DEF GoodServer, ServerRecord
<1>3. count \in Nat
    BY <1>2
<1>4. ts \in Nat /\ state \in State \cup {""} /\ recov \in Recovery \cup {""}
    BY <1>1, <1>2 DEF TargetRecord
<1>5. tag \in BOOLEAN
    OBVIOUS
<1>6. ASSUME NEW f \in Field
      PROVE  sums[f] \in Sample /\ Ordered(sums[f])
    BY <1>2, SummedGood DEF GoodServer
<1>7. sums \in [Field -> Sample]
    BY <1>6
<1>8. Merged(r, t) = new
    BY DEF Merged
<1> HIDE DEF ts, state, recov, tag, sums
<1>9. rec \in TargetRecord
    BY <1>2, <1>4, <1>5 DEF TargetRecord
<1> HIDE DEF rec, count
<1>10. new \in ServerRecord /\ new.samples = sums /\ new.first = r.first
    BY <1>2, <1>3, <1>7, <1>9 DEF ServerRecord
<1> HIDE DEF new
<1> QED BY <1>6, <1>8, <1>10 DEF GoodServer

\* A sum written into the sample of a target has that target's origin.
LEMMA WriteSharedGood ==
    ASSUME Good, NEW t \in DOMAIN target_data, NEW r, GoodServer(r),
           r.first \in DOMAIN target_data
    PROVE  /\ GoodTargets(WriteShared(r, t))
           /\ DOMAIN WriteShared(r, t) = DOMAIN target_data
           /\ Forward(target_data, WriteShared(r, t))
<1> DEFINE list == WriteShared(r, t)
           o == target_data[r.first]
           sums == [f \in Field |-> IF f \in Shared THEN Summed(r, t, f) ELSE o.samples[f]]
           u == [o EXCEPT !.samples = sums]
<1>1. GoodTarget(o) /\ o.samples \in [Field -> Sample] /\ o \in TargetRecord
    BY DEF Good, GoodTargets, GoodTarget, TargetRecord
<1>2. ASSUME NEW f \in Field
      PROVE  /\ sums[f] \in Sample /\ Ordered(sums[f])
             /\ sums[f].valid = o.samples[f].valid
             /\ sums[f].val0.by = o.samples[f].val0.by
             /\ sums[f].val1.by = o.samples[f].val1.by
  <2>1. CASE f \in Shared
    BY <2>1, SummedGood DEF ServerSample
  <2>2. CASE f \notin Shared
    BY <1>1, <2>2 DEF GoodTarget
  <2> QED BY <2>1, <2>2
<1>3. sums \in [Field -> Sample]
    BY <1>2
<1>4. list = [target_data EXCEPT ![r.first] = u]
    BY DEF WriteShared
<1> HIDE DEF sums
<1>5. /\ u \in TargetRecord /\ u.samples = sums
      /\ u.servername = o.servername /\ u.ts = o.ts
    BY <1>1, <1>3 DEF TargetRecord
<1>6. OneServer(u)
    BY <1>1, <1>2, <1>5 DEF OneServer, GoodTarget, Invalidated
<1> HIDE DEF u
<1>7. GoodTarget(u)
    BY <1>1, <1>2, <1>5, <1>6 DEF GoodTarget
<1>8. DOMAIN list = DOMAIN target_data /\ DOMAIN target_data \subseteq Target
    BY <1>4 DEF Good, GoodTargets, Partial
<1>9. /\ list = [x \in DOMAIN target_data |-> list[x]]
      /\ list[r.first] = u
      /\ \A x \in DOMAIN target_data : x # r.first => list[x] = target_data[x]
    BY <1>4 DEF Good, GoodTargets, Partial
<1>10. \A x \in DOMAIN target_data :
          /\ GoodTarget(list[x])
          /\ list[x].ts = target_data[x].ts /\ list[x].servername = target_data[x].servername
    BY <1>5, <1>7, <1>9 DEF Good, GoodTargets
<1> HIDE DEF list
<1>11. GoodTargets(list) /\ Forward(target_data, list)
    BY <1>8, <1>9, <1>10, TouchedGood DEF Good
<1> QED BY <1>8, <1>11 DEF list

\* A list that does not change.
LEMMA SameForward == GoodTargets(target_data) => Forward(target_data, target_data)
<1> SUFFICES ASSUME GoodTargets(target_data), NEW t \in DOMAIN target_data
             PROVE  target_data[t].ts >= target_data[t].ts
    BY DEF Forward
<1>1. target_data[t].ts \in Nat
    BY DEF GoodTargets, Partial, TargetRecord
<1> QED BY <1>1

\* One target of the summary: skipped, copied or summed.
LEMMA SummarizeGood ==
    ASSUME Good, NEW t \in queue, Summarize(t)
    PROVE  Good' /\ Forward(target_data, target_data')
<1> DEFINE s == target_data[t].servername
<1>1. /\ pc = "summarize" /\ queue' = queue \ {t}
      /\ UNCHANGED <<worldVars, userVars, tcycle, last_sample, polled, polled_osc, pc>>
    BY DEF Summarize
<1>2. /\ t \in DOMAIN target_data /\ queue \subseteq DOMAIN target_data
      /\ \A x \in DOMAIN server_data : server_data[x].first \in DOMAIN target_data
    BY <1>1 DEF Good, SummaryReady
<1>3. MetricsTyped' /\ ControlTyped' /\ PolledTyped' /\ ClockPast'
    BY <1>1 DEF Good, MetricsTyped, ControlTyped, PolledTyped, ClockPast, worldVars, userVars
<1>4. ASSUME GoodTargets(target_data'), GoodServers(server_data'),
             DOMAIN target_data' = DOMAIN target_data,
             \A x \in DOMAIN server_data' : server_data'[x].first \in DOMAIN target_data
      PROVE  Good'
  <2>1. OwnFs'
    BY <1>1, <1>4 DEF Good, OwnFs, InFs, userVars
  <2>2. SummaryReady'
    BY <1>1, <1>2, <1>4 DEF SummaryReady
  <2> QED BY <1>3, <1>4, <2>1, <2>2 DEF Good
<1>5. CASE UNCHANGED <<server_data, target_data>>
    BY <1>2, <1>4, <1>5, SameForward DEF Good
<1>6. CASE /\ ~Expired(target_data[t].ts, tcycle, StaleSecs)
           /\ server_data' = [x \in DOMAIN server_data \cup {s} |->
                                 IF x = s THEN CopyOf(t) ELSE server_data[x]]
           /\ UNCHANGED target_data
  <2>1. s \in Server
    BY <1>2, <1>6, LiveHasServer
  <2>2. GoodServer(CopyOf(t)) /\ CopyOf(t).first = t
    BY <1>2, CopyGood
  <2> HIDE DEF s
  <2>3. \A x \in DOMAIN server_data' :
            GoodServer(server_data'[x]) /\ server_data'[x].first \in DOMAIN target_data
    BY <1>2, <1>6, <2>2 DEF Good, GoodServers
  <2>4. /\ DOMAIN server_data' \subseteq Server
        /\ server_data' = [x \in DOMAIN server_data' |-> server_data'[x]]
    BY <1>6, <2>1 DEF Good, GoodServers, Partial
  <2>5. GoodServers(server_data')
    BY <2>3, <2>4 DEF GoodServers, Partial, GoodServer
  <2> QED BY <1>4, <1>6, <2>3, <2>5, SameForward DEF Good
<1>7. CASE /\ s \in DOMAIN server_data
           /\ server_data' = [server_data EXCEPT ![s] = Merged(@, t)]
           /\ target_data' = WriteShared(server_data[s], t)
  <2>1. GoodServer(server_data[s]) /\ server_data[s].first \in DOMAIN target_data
    BY <1>2, <1>7 DEF Good, GoodServers
  <2>2. /\ GoodServer(Merged(server_data[s], t))
        /\ Merged(server_data[s], t).first = server_data[s].first
    BY <1>2, <2>1, MergedGood
  <2>3. /\ GoodTargets(target_data') /\ DOMAIN target_data' = DOMAIN target_data
        /\ Forward(target_data, target_data')
    BY <1>2, <1>7, <2>1, WriteSharedGood
  <2> HIDE DEF s
  <2>4. \A x \in DOMAIN server_data' :
            GoodServer(server_data'[x]) /\ server_data'[x].first \in DOMAIN target_data
    BY <1>2, <1>7, <2>1, <2>2 DEF Good, GoodServers
  <2>5. /\ DOMAIN server_data' \subseteq Server
        /\ server_data' = [x \in DOMAIN server_data' |-> server_data'[x]]
    BY <1>7 DEF Good, GoodServers, Partial
  <2>6. GoodServers(server_data')
    BY <2>4, <2>5 DEF GoodServers, Partial, GoodServer
  <2> QED BY <1>4, <2>3, <2>4, <2>6
<1> QED BY <1>5, <1>6, <1>7 DEF Summarize

---------------------------------------------------------------------------
(* Keys.                                                                   *)

\* Tags are the only thing that a tag key changes.
LEMMA TagServerGood ==
    ASSUME NEW r, GoodServer(r), NEW b \in BOOLEAN
    PROVE  LET u == [r EXCEPT !.rec.tag = b] IN GoodServer(u) /\ u.first = r.first
<1> DEFINE rec == [r.rec EXCEPT !.tag = b]
           u == [r EXCEPT !.rec = rec]
<1>1. r \in ServerRecord /\ r.rec \in TargetRecord
    BY DEF GoodServer, ServerRecord
<1>2. rec \in TargetRecord
    BY <1>1 DEF TargetRecord
<1>3. u = [r EXCEPT !.rec.tag = b]
    BY <1>1 DEF ServerRecord, TargetRecord
<1> HIDE DEF rec
<1>4. u \in ServerRecord /\ u.samples = r.samples /\ u.first = r.first
    BY <1>1, <1>2 DEF ServerRecord
<1> HIDE DEF u
<1>5. GoodServer(u)
    BY <1>4 DEF GoodServer
<1> QED BY <1>3, <1>4, <1>5

\* The other view is recomputed from the same targets.
LEMMA ToggleViewGood == Good /\ ToggleView => Good'
<1> SUFFICES ASSUME Good, ToggleView PROVE Good'
    OBVIOUS
<1>1. /\ Recompute(target_data, target_view') /\ target_view' \in BOOLEAN
      /\ events' \in Nat
      /\ UNCHANGED <<clusterVars, fs, tcycle, last_sample, target_data, polled, polled_osc>>
    BY DEF ToggleView, Event, Good, MetricsTyped
<1>2. /\ GoodServers(server_data)' /\ SummaryReady'
      /\ queue' \subseteq Target /\ pc' \in {"idle", "summarize"}
  <2> DEFINE view == target_view'
  <2>1. Recompute(target_data, view) /\ UNCHANGED target_data
    BY <1>1
  <2> HIDE DEF view
  <2> QED BY <2>1, RecomputeGood
<1>3. MetricsTyped' /\ PolledTyped' /\ OwnFs' /\ ClockPast' /\ GoodTargets(target_data)'
    BY <1>1 DEF Good, MetricsTyped, PolledTyped, OwnFs, InFs, ClockPast, clusterVars
<1>4. ControlTyped'
    BY <1>1, <1>2 DEF Good, ControlTyped
<1> QED BY <1>2, <1>3, <1>4 DEF Good

\* Another file system starts with an empty list.
LEMMA ChooseFsGood ==
    ASSUME Good, NEW f \in Fs, ChooseFs(f)
    PROVE  Good' /\ Forward(target_data, target_data')
<1>1. /\ target_data' = EmptyList /\ fs' = f /\ pc' = "repoll" /\ events' \in Nat
      /\ UNCHANGED <<clusterVars, target_view, tcycle, last_sample, server_data,
                     polled, polled_osc, queue>>
    BY DEF ChooseFs, Event, Good, MetricsTyped
<1>2. MetricsTyped' /\ PolledTyped' /\ ControlTyped' /\ ClockPast' /\ SummaryReady'
    BY <1>1 DEF Good, MetricsTyped, PolledTyped, ControlTyped, ClockPast, SummaryReady,
                clusterVars
<1>3. GoodTargets(target_data') /\ OwnFs' /\ Forward(target_data, target_data')
    BY <1>1, EmptyGood DEF OwnFs, Forward
<1> QED BY <1>1, <1>2, <1>3 DEF Good

\* What the three tag keys have in common.
TagsTouched ==
    /\ DOMAIN target_data' = DOMAIN target_data
    /\ target_data' = [t \in DOMAIN target_data |-> target_data'[t]]
    /\ \A t \in DOMAIN target_data :
          \/ target_data'[t] = target_data[t]
          \/ \E b \in BOOLEAN : target_data'[t] = [target_data[t] EXCEPT !.tag = b]
    /\ DOMAIN server_data' = DOMAIN server_data
    /\ server_data' = [s \in DOMAIN server_data |-> server_data'[s]]
    /\ \A s \in DOMAIN server_data :
          \/ server_data'[s] = server_data[s]
          \/ \E b \in BOOLEAN : server_data'[s] = [server_data[s] EXCEPT !.rec.tag = b]

TagStep ==
    /\ Event /\ TagsTouched
    /\ UNCHANGED <<clusterVars, userVars, tcycle, last_sample, polled, polled_osc, queue, pc>>

LEMMA TagStepGood ==
    ASSUME Good, TagStep
    PROVE  Good' /\ Forward(target_data, target_data')
<1> USE DEF TagStep, TagsTouched
<1>1. events' \in Nat /\ pc = "idle"
    BY DEF Event, Good, MetricsTyped
<1>2. MetricsTyped' /\ PolledTyped' /\ ControlTyped' /\ ClockPast' /\ OwnFs' /\ SummaryReady'
    BY <1>1 DEF Good, MetricsTyped, PolledTyped, ControlTyped, ClockPast, OwnFs, InFs,
                SummaryReady, clusterVars, userVars
<1>3. ASSUME NEW t \in DOMAIN target_data
      PROVE  /\ GoodTarget(target_data'[t])
             /\ target_data'[t].ts = target_data[t].ts
             /\ target_data'[t].servername = target_data[t].servername
  <2>1. GoodTarget(target_data[t])
    BY DEF Good, GoodTargets
  <2>2. CASE target_data'[t] = target_data[t]
    BY <2>1, <2>2
  <2>3. ASSUME NEW b \in BOOLEAN, target_data'[t] = [target_data[t] EXCEPT !.tag = b]
        PROVE  /\ GoodTarget(target_data'[t])
               /\ target_data'[t].ts = target_data[t].ts
               /\ target_data'[t].servername = target_data[t].servername
    <3> DEFINE o == target_data[t]
               u == [o EXCEPT !.tag = b]
    <3>1. GoodTarget(u) /\ u.ts = o.ts /\ u.servername = o.servername
      BY ONLY <2>1, b \in BOOLEAN, TagGood, Zenon
    <3> QED BY <2>3, <3>1
  <2> QED BY <2>2, <2>3
<1>4. DOMAIN target_data \subseteq Target
    BY DEF Good, GoodTargets, Partial
<1>5. GoodTargets(target_data') /\ Forward(target_data, target_data')
  <2> DEFINE D == DOMAIN target_data
  <2>1. /\ D \subseteq Target /\ target_data' = [t \in D |-> target_data'[t]]
        /\ \A t \in D : /\ GoodTarget(target_data'[t])
                         /\ target_data'[t].ts = target_data[t].ts
                         /\ target_data'[t].servername = target_data[t].servername
    BY <1>3, <1>4
  <2>2. GoodTargets(target_data)
    BY DEF Good
  <2> HIDE DEF D
  <2> QED BY <2>1, <2>2, TouchedGood
<1>6. ASSUME NEW s \in DOMAIN server_data
      PROVE  GoodServer(server_data'[s])
  <2>1. GoodServer(server_data[s])
    BY DEF Good, GoodServers
  <2>2. ASSUME NEW b \in BOOLEAN, server_data'[s] = [server_data[s] EXCEPT !.rec.tag = b]
        PROVE  GoodServer(server_data'[s])
    <3>1. GoodServer([server_data[s] EXCEPT !.rec.tag = b])
      BY ONLY <2>1, b \in BOOLEAN, TagServerGood, Zenon
    <3> QED BY <2>2, <3>1
  <2> QED BY <2>1, <2>2
<1>7. GoodServers(server_data')
    BY <1>6 DEF Good, GoodServers, Partial, GoodServer
<1> QED BY <1>2, <1>5, <1>7 DEF Good

\* The tag keys change tags and nothing else.
LEMMA TagKeysTouch ==
    ASSUME Good,
           \/ \E t \in DOMAIN target_data : TagTarget(t)
           \/ \E s \in DOMAIN server_data : TagServer(s)
           \/ ClearTags
    PROVE  TagStep
<1>1. /\ target_data = [t \in DOMAIN target_data |-> target_data[t]]
      /\ server_data = [s \in DOMAIN server_data |-> server_data[s]]
    BY DEF Good, GoodTargets, GoodServers, Partial
<1>2. ASSUME NEW t \in DOMAIN target_data, TagTarget(t)
      PROVE  TagStep
  <2>1. /\ DOMAIN target_data' = DOMAIN target_data
        /\ target_data' = [x \in DOMAIN target_data |-> target_data'[x]]
        /\ \A x \in DOMAIN target_data : x # t => target_data'[x] = target_data[x]
    BY <1>1, <1>2 DEF TagTarget
  <2>2. target_data'[t] = [target_data[t] EXCEPT !.tag = ~target_data[t].tag]
    BY <1>1, <1>2 DEF TagTarget
  <2>3. (~target_data[t].tag) \in BOOLEAN
    OBVIOUS
  <2>4. \A x \in DOMAIN target_data :
            \/ target_data'[x] = target_data[x]
            \/ \E b \in BOOLEAN : target_data'[x] = [target_data[x] EXCEPT !.tag = b]
    BY <2>1, <2>2, <2>3, Zenon
  <2>5. /\ Event /\ UNCHANGED server_data
        /\ UNCHANGED <<clusterVars, userVars, tcycle, last_sample, polled, polled_osc, queue, pc>>
    BY <1>2 DEF TagTarget
  <2> QED BY <1>1, <2>1, <2>4, <2>5 DEF TagStep, TagsTouched
<1>3. ASSUME NEW s \in DOMAIN server_data, TagServer(s)
      PROVE  TagStep
  <2> DEFINE b == ~server_data[s].rec.tag
  <2>1. /\ DOMAIN server_data' = DOMAIN server_data
        /\ server_data' = [x \in DOMAIN server_data |-> server_data'[x]]
        /\ \A x \in DOMAIN server_data : x # s => server_data'[x] = server_data[x]
    BY <1>1, <1>3 DEF TagServer
  <2>2. server_data'[s] = [server_data[s] EXCEPT !.rec.tag = b]
    BY <1>1, <1>3 DEF TagServer
  <2>3. b \in BOOLEAN
    OBVIOUS
  <2>4. server_data'[s].rec.tag = b
    <3>1. server_data[s] \in ServerRecord /\ server_data[s].rec \in TargetRecord
      BY DEF Good, GoodServers, GoodServer, ServerRecord
    <3> HIDE DEF b
    <3> QED BY <2>2, <3>1, ZenonT(60) DEF ServerRecord, TargetRecord
  <2> HIDE DEF b
  <2>5. target_data' = TagByOss(OssName(server_data[s].rec), b)
    BY <1>3, <2>4 DEF TagServer
  <2>6. /\ DOMAIN target_data' = DOMAIN target_data
        /\ target_data' = [x \in DOMAIN target_data |-> target_data'[x]]
        /\ \A x \in DOMAIN target_data :
              \/ target_data'[x] = target_data[x]
              \/ target_data'[x] = [target_data[x] EXCEPT !.tag = b]
    BY <2>5 DEF TagByOss
  <2>7. /\ Event
        /\ UNCHANGED <<clusterVars, userVars, tcycle, last_sample, polled, polled_osc, queue, pc>>
    BY <1>3 DEF TagServer
  <2>8. \A x \in DOMAIN server_data :
            \/ server_data'[x] = server_data[x]
            \/ \E c \in BOOLEAN : server_data'[x] = [server_data[x] EXCEPT !.rec.tag = c]
    BY <2>1, <2>2, <2>3, Zenon
  <2>9. \A x \in DOMAIN target_data :
            \/ target_data'[x] = target_data[x]
            \/ \E c \in BOOLEAN : target_data'[x] = [target_data[x] EXCEPT !.tag = c]
    BY <2>3, <2>6, Zenon
  <2> QED BY <2>1, <2>6, <2>7, <2>8, <2>9 DEF TagStep, TagsTouched
<1>4. ASSUME ClearTags
      PROVE  TagStep
  <2>1. /\ Event
        /\ UNCHANGED <<clusterVars, userVars, tcycle, last_sample, polled, polled_osc, queue, pc>>
    BY <1>4 DEF ClearTags
  <2>2. /\ DOMAIN target_data' = DOMAIN target_data
        /\ target_data' = [x \in DOMAIN target_data |-> target_data'[x]]
        /\ \A x \in DOMAIN target_data :
              \E c \in BOOLEAN : target_data'[x] = [target_data[x] EXCEPT !.tag = c]
    BY <1>4 DEF ClearTags
  <2>3. /\ DOMAIN server_data' = DOMAIN server_data
        /\ server_data' = [x \in DOMAIN server_data |-> server_data'[x]]
        /\ \A x \in DOMAIN server_data :
              \E c \in BOOLEAN : server_data'[x] = [server_data[x] EXCEPT !.rec.tag = c]
    BY <1>4 DEF ClearTags
  <2> QED BY <2>1, <2>2, <2>3 DEF TagStep, TagsTouched
<1> QED BY <1>2, <1>3, <1>4

LEMMA TagsGood ==
    ASSUME Good,
           \/ \E t \in DOMAIN target_data : TagTarget(t)
           \/ \E s \in DOMAIN server_data : TagServer(s)
           \/ ClearTags
    PROVE  Good' /\ Forward(target_data, target_data')
BY TagKeysTouch, TagStepGood

---------------------------------------------------------------------------
(* Every step.                                                             *)

\* Every step keeps the lists good and takes no target back.
LEMMA NextGood ==
    ASSUME Good, [Next]_vars
    PROVE  Good' /\ Forward(target_data, target_data')
<1>1. GoodTargets(target_data)
    BY DEF Good
<1>2. ASSUME Good', UNCHANGED target_data
      PROVE  Good' /\ Forward(target_data, target_data')
    BY <1>1, <1>2, SameForward
<1>3. CASE World
  <2>1. UNCHANGED target_data
    BY <1>3 DEF World, Tick, Failover, Report, ReportOsc
  <2> QED BY <1>2, <1>3, <2>1, WorldGood
<1>4. CASE PollStart \/ PollFails \/ PollEnds \/ ToggleView
  <2>1. UNCHANGED target_data
    BY <1>4 DEF PollStart, PollFails, PollEnds, ToggleView
  <2> QED BY <1>2, <1>4, <2>1, PollStartGood, PollStopsGood, ToggleViewGood
<1>5. ASSUME NEW m \in polled, Decode(m)
      PROVE  Good' /\ Forward(target_data, target_data')
    BY <1>5, DecodeGood DEF Forward
<1>6. ASSUME NEW m \in polled_osc, DecodeOsc(m)
      PROVE  Good' /\ Forward(target_data, target_data')
    BY <1>6, DecodeOscGood
<1>7. ASSUME NEW t \in queue, Summarize(t)
      PROVE  Good' /\ Forward(target_data, target_data')
    BY <1>7, SummarizeGood
<1>8. CASE SummarizeEnds
  <2>1. Good'
    BY <1>8 DEF SummarizeEnds, Good, MetricsTyped, PolledTyped, ControlTyped, OwnFs, InFs,
                ClockPast, SummaryReady, worldVars, userVars
  <2> QED BY <1>2, <1>8, <2>1 DEF SummarizeEnds
<1>9. ASSUME NEW f \in Fs, ChooseFs(f)
      PROVE  Good' /\ Forward(target_data, target_data')
    BY <1>9, ChooseFsGood
<1>10. CASE UNCHANGED vars
  <2>1. Good'
    BY <1>10 DEF vars, Good, MetricsTyped, PolledTyped, ControlTyped, OwnFs, InFs,
                 ClockPast, SummaryReady, worldVars, userVars
  <2> QED BY <1>2, <1>10, <2>1 DEF vars
<1> QED BY <1>3, <1>4, <1>5, <1>6, <1>7, <1>8, <1>9, <1>10, TagsGood DEF Next, Poll, Key

\* The inductive invariant holds throughout.
THEOREM Inductive == Spec => []Good
<1>1. Init => Good
    BY InitGood
<1>2. Good /\ [Next]_vars => Good'
    BY NextGood
<1> QED BY <1>1, <1>2, PTL DEF Spec

\* The variables keep their types: _update_ost and the summaries leave nothing
\* but samples, known states and known servers in the lists.
THEOREM TypeCorrect == Spec => []TypeOK
<1>1. Good => TypeOK
    BY GoodIInv DEF IInv
<1> QED BY <1>1, Inductive, PTL

\* sample_rate never divides by zero or by a negative time.
THEOREM RatesDefined == Spec => []SampleOrdered
<1>1. Good => SampleOrdered
    BY GoodIInv DEF IInv
<1> QED BY <1>1, Inductive, PTL

\* A rate is never computed from the counters of two servers, in whatever
\* order the metrics around a failover are decoded.
THEOREM RatesOfOneServer == Spec => []OneServerRates
<1>1. Good => OneServerRates
    BY GoodIInv DEF IInv
<1> QED BY <1>1, Inductive, PTL

\* Only targets of the chosen file system are listed.
THEOREM TargetsOfFs == Spec => []OwnFs
<1>1. Good => OwnFs
    BY DEF Good
<1> QED BY <1>1, Inductive, PTL

\* No step takes a target back to an older metric.
THEOREM TargetsForward == Spec => NeverBack
<1>1. Good /\ [Next]_vars =>
        [\A t \in DOMAIN target_data \cap DOMAIN target_data' :
            /\ target_data'[t].ts >= target_data[t].ts
            /\ target_data'[t].servername # target_data[t].servername
                  => target_data'[t].ts > target_data[t].ts]_vars
    BY NextGood DEF Forward
<1> QED BY <1>1, Inductive, PTL DEF Spec, NeverBack

---------------------------------------------------------------------------
(* Readings are as new as their target.                                    *)

\* What a metric of server s makes of a target whose readings are current.
LEMMA UpdateCurrent ==
    ASSUME NEW o, GoodTarget(o), Current(o), NEW s \in Server, NEW r \in Reading,
           NEW trcv \in Nat, Field \ Optional \subseteq r.fields
    PROVE  Current(Update(o, s, r, trcv))
<1> DEFINE u == Update(o, s, r, trcv)
           v == [n |-> r.n, by |-> s]
           new == [f \in Field |-> IF f \in r.fields
                                   THEN sample_update(AfterFailover(o, s)[f], v, trcv)
                                   ELSE AfterFailover(o, s)[f]]
<1>1. o \in TargetRecord
    BY DEF GoodTarget
<1>2. o.ts \in Nat /\ o.samples \in [Field -> Sample]
    BY <1>1 DEF TargetRecord
<1>3. CASE ~(o.ts < trcv)
    BY <1>3 DEF Update
<1>4. CASE o.ts < trcv
  <2>1. u = [o EXCEPT !.servername = s, !.ts = trcv, !.recov_status = r.recov, !.samples = new]
    BY <1>4 DEF Update
  <2> HIDE DEF new
  <2>2. u.ts = trcv /\ u.samples = new
    BY <1>1, <2>1 DEF TargetRecord
  <2>3. trcv # 0
    BY <1>4, <1>2
  <2>4. ASSUME NEW f \in Field \ Optional
        PROVE  new[f].valid > 0 /\ new[f].time1 = trcv
    <3> DEFINE a == AfterFailover(o, s)[f]
    <3>1. new[f] = sample_update(a, v, trcv)
      BY DEF new
    <3>2. a \in Sample /\ (a = o.samples[f] \/ a.valid = 0)
      BY <1>2, InvalidateTyped, AfterFailoverGood DEF AfterFailover
    <3>3. a.valid # 0 => a.time1 < trcv
      BY <1>4, <1>2, <3>2 DEF Current
    <3> HIDE DEF a, v
    <3>4. CASE a.valid = 0
      <4>1. new[f] = [a EXCEPT !.time1 = trcv, !.val1 = v, !.valid = 1]
        BY <3>1, <3>4 DEF sample_update
      <4> QED BY <3>2, <4>1 DEF Sample
    <3>5. CASE a.valid # 0
      <4>1. new[f] = [valid |-> 2, time0 |-> a.time1, time1 |-> trcv, val0 |-> a.val1, val1 |-> v]
        BY <3>1, <3>3, <3>5 DEF sample_update
      <4> QED BY <4>1
    <3> QED BY <3>4, <3>5
  <2> HIDE DEF u
  <2>5. Current(u)
    BY <2>2, <2>4, <2>3 DEF Current
  <2> QED BY <2>5 DEF u
<1> QED BY <1>3, <1>4

LEMMA NewCurrent == Current(NewTarget)
<1>1. NewTarget.ts = 0 /\ \A f \in Field : NewTarget.samples[f] = sample_create
    BY DEF NewTarget
<1> QED BY <1>1, CreateTyped DEF Current

\* A record with the same readings, of the same time, is as current.
LEMMA SameReadings ==
    ASSUME NEW o, NEW u, Current(o), u.ts = o.ts,
           \A f \in Field : u.samples[f].valid = o.samples[f].valid
                         /\ u.samples[f].time1 = o.samples[f].time1
    PROVE  Current(u)
BY DEF Current

LEMMA DecodeCurrent ==
    ASSUME Good, FieldsComplete, ReadingsCurrent, NEW m \in polled, Decode(m)
    PROVE  ReadingsCurrent'
<1> DEFINE ts == {t \in DOMAIN m.vals : InFs(t)}
<1>1. /\ m.node \in Server /\ m.trcv \in Nat
      /\ \A t \in ts : m.vals[t] \in Reading /\ Field \ Optional \subseteq m.vals[t].fields
    BY DEF Good, PolledTyped, Partial, FieldsComplete
<1>2. target_data' = [t \in DOMAIN target_data \cup ts |->
           IF t \in ts THEN Update(Find(target_data, t), m.node, m.vals[t], m.trcv)
           ELSE target_data[t]]
    BY DEF Decode
<1> HIDE DEF ts
<1>3. ASSUME NEW t \in DOMAIN target_data'
      PROVE  Current(target_data'[t])
  <2>1. CASE t \in ts
    <3>1. GoodTarget(Find(target_data, t))
      BY FindGood DEF Good
    <3>2. Current(Find(target_data, t))
      BY NewCurrent DEF Find, ReadingsCurrent
    <3>3. target_data'[t] = Update(Find(target_data, t), m.node, m.vals[t], m.trcv)
      BY <1>2, <2>1
    <3>4. /\ m.node \in Server /\ m.trcv \in Nat /\ m.vals[t] \in Reading
          /\ Field \ Optional \subseteq m.vals[t].fields
      BY <1>1, <2>1
    <3> QED BY ONLY <3>1, <3>2, <3>3, <3>4, UpdateCurrent
  <2>2. CASE t \notin ts
    BY <1>2, <2>2 DEF ReadingsCurrent
  <2> QED BY <2>1, <2>2
<1> QED BY <1>3 DEF ReadingsCurrent

LEMMA DecodeOscCurrent ==
    ASSUME Good, ReadingsCurrent, NEW m \in polled_osc, DecodeOsc(m)
    PROVE  ReadingsCurrent'
<1> DEFINE ts == {t \in DOMAIN m.states : InFs(t)}
           st(t) == IF Expired(m.trcv, tcycle, StaleSecs) THEN "" ELSE m.states[t]
<1>1. target_data' = [t \in DOMAIN target_data \cup ts |->
           IF t \in ts THEN [Find(target_data, t) EXCEPT !.tgtstate = st(t)]
           ELSE target_data[t]]
    BY DEF DecodeOsc
<1> HIDE DEF ts, st
<1>2. ASSUME NEW t \in DOMAIN target_data'
      PROVE  Current(target_data'[t])
  <2>1. CASE t \in ts
    <3> DEFINE o == Find(target_data, t)
    <3>1. Current(o) /\ o \in TargetRecord
      BY NewCurrent, NewTargetGood, FindGood DEF Find, ReadingsCurrent, Good, GoodTarget
    <3>2. target_data'[t] = [o EXCEPT !.tgtstate = st(t)]
      BY <1>1, <2>1
    <3> HIDE DEF o
    <3>3. target_data'[t].ts = o.ts /\ target_data'[t].samples = o.samples
      BY <3>1, <3>2 DEF TargetRecord
    <3> QED BY <3>1, <3>3, SameReadings
  <2>2. CASE t \notin ts
    BY <1>1, <2>2 DEF ReadingsCurrent
  <2> QED BY <2>1, <2>2
<1> QED BY <1>2 DEF ReadingsCurrent

---------------------------------------------------------------------------
(* What a tag, or a sum written into a shared sample, leaves of a list.    *)

\* Two records of a target, and two of a server, that differ in their tags and
\* in the numbers of shared samples.
Alike(o, u) ==
    /\ u.ts = o.ts /\ u.servername = o.servername
    /\ u.tgtstate = o.tgtstate /\ u.recov_status = o.recov_status
    /\ \A f \in Field : u.samples[f].valid = o.samples[f].valid
                     /\ u.samples[f].time1 = o.samples[f].time1
    /\ \A f \in Field \ Shared : u.samples[f] = o.samples[f]

AlikeServers(r, q) ==
    /\ q.count = r.count /\ q.samples = r.samples
    /\ q.rec.ts = r.rec.ts /\ q.rec.tgtstate = r.rec.tgtstate
    /\ q.rec.recov_status = r.rec.recov_status

SameTargets(old, new) ==
    DOMAIN new = DOMAIN old /\ \A t \in DOMAIN old : Alike(old[t], new[t])

SameServers(old, new) ==
    DOMAIN new = DOMAIN old /\ \A s \in DOMAIN old : AlikeServers(old[s], new[s])

LEMMA UnchangedSame ==
    ASSUME NEW list
    PROVE  SameTargets(list, list) /\ SameServers(list, list)
BY DEF SameTargets, SameServers, Alike, AlikeServers

LEMMA TagAlike ==
    ASSUME NEW o \in TargetRecord, NEW b \in BOOLEAN
    PROVE  Alike(o, [o EXCEPT !.tag = b])
<1> DEFINE u == [o EXCEPT !.tag = b]
<1>1. /\ u.ts = o.ts /\ u.servername = o.servername /\ u.samples = o.samples
      /\ u.tgtstate = o.tgtstate /\ u.recov_status = o.recov_status
    BY DEF TargetRecord
<1> HIDE DEF u
<1>2. Alike(o, u)
    BY <1>1 DEF Alike
<1> QED BY <1>2 DEF u

LEMMA TagServerAlike ==
    ASSUME NEW r \in ServerRecord, NEW b \in BOOLEAN
    PROVE  AlikeServers(r, [r EXCEPT !.rec.tag = b])
<1> DEFINE rec == [r.rec EXCEPT !.tag = b]
           u == [r EXCEPT !.rec = rec]
<1>1. r.rec \in TargetRecord
    BY DEF ServerRecord
<1>2. /\ rec.ts = r.rec.ts /\ rec.tgtstate = r.rec.tgtstate
      /\ rec.recov_status = r.rec.recov_status
    BY <1>1 DEF TargetRecord
<1>3. u = [r EXCEPT !.rec.tag = b]
    BY <1>1 DEF ServerRecord, TargetRecord
<1> HIDE DEF rec
<1>4. u.rec = rec /\ u.count = r.count /\ u.samples = r.samples
    BY DEF ServerRecord
<1> HIDE DEF u
<1>5. AlikeServers(r, u)
    BY <1>2, <1>4 DEF AlikeServers
<1> QED BY <1>3, <1>5

\* A tag key.
LEMMA TagStepSame ==
    ASSUME Good, TagStep
    PROVE  SameTargets(target_data, target_data') /\ SameServers(server_data, server_data')
<1>1. ASSUME NEW t \in DOMAIN target_data
      PROVE  Alike(target_data[t], target_data'[t])
  <2>1. target_data[t] \in TargetRecord
    BY DEF Good, GoodTargets, GoodTarget
  <2>2. ASSUME NEW b \in BOOLEAN, target_data'[t] = [target_data[t] EXCEPT !.tag = b]
        PROVE  Alike(target_data[t], target_data'[t])
    <3>1. Alike(target_data[t], [target_data[t] EXCEPT !.tag = b])
      BY ONLY <2>1, b \in BOOLEAN, TagAlike, Zenon
    <3> QED BY <2>2, <3>1, Zenon
  <2>3. CASE target_data'[t] = target_data[t]
    BY <2>3 DEF Alike
  <2> QED BY <2>2, <2>3, Zenon DEF TagStep, TagsTouched
<1>2. ASSUME NEW s \in DOMAIN server_data
      PROVE  AlikeServers(server_data[s], server_data'[s])
  <2>1. server_data[s] \in ServerRecord
    BY DEF Good, GoodServers, GoodServer
  <2>2. ASSUME NEW b \in BOOLEAN, server_data'[s] = [server_data[s] EXCEPT !.rec.tag = b]
        PROVE  AlikeServers(server_data[s], server_data'[s])
    <3>1. AlikeServers(server_data[s], [server_data[s] EXCEPT !.rec.tag = b])
      BY ONLY <2>1, b \in BOOLEAN, TagServerAlike, Zenon
    <3> QED BY <2>2, <3>1, Zenon
  <2>3. CASE server_data'[s] = server_data[s]
    BY <2>3 DEF AlikeServers
  <2> QED BY <2>2, <2>3, Zenon DEF TagStep, TagsTouched
<1> QED BY <1>1, <1>2 DEF TagStep, TagsTouched, SameTargets, SameServers

\* A sum written into a shared sample.
LEMMA WriteSharedSame ==
    ASSUME Good, NEW t \in DOMAIN target_data, NEW r, GoodServer(r),
           r.first \in DOMAIN target_data
    PROVE  SameTargets(target_data, WriteShared(r, t))
<1> DEFINE list == WriteShared(r, t)
           o == target_data[r.first]
           sums == [f \in Field |-> IF f \in Shared THEN Summed(r, t, f) ELSE o.samples[f]]
           u == [o EXCEPT !.samples = sums]
<1>1. o \in TargetRecord
    BY DEF Good, GoodTargets, GoodTarget
<1>2. ASSUME NEW f \in Field
      PROVE  /\ sums[f].valid = o.samples[f].valid /\ sums[f].time1 = o.samples[f].time1
             /\ f \notin Shared => sums[f] = o.samples[f]
  <2>1. CASE f \in Shared
    BY <2>1, SummedGood DEF ServerSample
  <2>2. CASE f \notin Shared
    BY <2>2
  <2> QED BY <2>1, <2>2
<1>3. list = [target_data EXCEPT ![r.first] = u]
    BY DEF WriteShared
<1> HIDE DEF sums
<1>4. /\ u.samples = sums /\ u.servername = o.servername /\ u.ts = o.ts
      /\ u.tgtstate = o.tgtstate /\ u.recov_status = o.recov_status
    BY <1>1 DEF TargetRecord
<1> HIDE DEF u
<1>5. Alike(o, u)
    BY <1>2, <1>4 DEF Alike
<1>6. /\ DOMAIN list = DOMAIN target_data /\ list[r.first] = u
      /\ \A x \in DOMAIN target_data : x # r.first => list[x] = target_data[x]
    BY <1>3 DEF Good, GoodTargets, Partial
<1> HIDE DEF list
<1>7. ASSUME NEW x \in DOMAIN target_data
      PROVE  Alike(target_data[x], list[x])
  <2>1. CASE x = r.first
    BY <1>5, <1>6, <2>1
  <2>2. CASE x # r.first
    BY <1>6, <2>2 DEF Alike
  <2> QED BY <2>1, <2>2
<1> QED BY <1>6, <1>7 DEF SameTargets, list

\* A list with the same readings is as current.
LEMMA SameCurrent ==
    ASSUME ReadingsCurrent, SameTargets(target_data, target_data')
    PROVE  ReadingsCurrent'
<1>1. ASSUME NEW t \in DOMAIN target_data'
      PROVE  Current(target_data'[t])
  <2>1. Current(target_data[t]) /\ Alike(target_data[t], target_data'[t])
    BY DEF ReadingsCurrent, SameTargets
  <2> QED BY <2>1, SameReadings DEF Alike
<1> QED BY <1>1 DEF ReadingsCurrent

\* The lists the summary and the tag keys leave behind.
LEMMA SummarizeSame ==
    ASSUME Good, NEW t \in queue, Summarize(t)
    PROVE  SameTargets(target_data, target_data')
<1> DEFINE s == target_data[t].servername
<1>1. CASE UNCHANGED target_data
    BY <1>1, UnchangedSame
<1>2. CASE s \in DOMAIN server_data /\ target_data' = WriteShared(server_data[s], t)
  <2>1. /\ t \in DOMAIN target_data /\ GoodServer(server_data[s])
        /\ server_data[s].first \in DOMAIN target_data
    BY <1>2 DEF Summarize, Good, SummaryReady, GoodServers
  <2> QED BY <1>2, <2>1, WriteSharedSame
<1> QED BY <1>1, <1>2 DEF Summarize

---------------------------------------------------------------------------
(* The targets' rows.                                                      *)

\* cerebro, and a poll, never have a metric without a field of a target.
LEMMA FieldsKept == Good /\ FieldsComplete /\ [Next]_vars => FieldsComplete'
<1> SUFFICES ASSUME Good, FieldsComplete, [Next]_vars PROVE FieldsComplete'
    OBVIOUS
<1>1. CASE UNCHANGED <<cer, polled>>
    BY <1>1 DEF FieldsComplete
<1>2. ASSUME NEW s \in Server, Report(s)
      PROVE  FieldsComplete'
  <2>1. PICK v \in TargetReport :
            cer' = [cer EXCEPT ![s] =
              [trcv |-> now, vals |-> [t \in {t \in Target : owner[t] = s} |-> v[t]]]]
    BY <1>2 DEF Report
  <2>2. \A t \in Target : Field \ Optional \subseteq v[t].fields
    BY TargetsAssumption
  <2> DEFINE vals == [t \in {t \in Target : owner[t] = s} |-> v[t]]
  <2>3. \A t \in DOMAIN vals : Field \ Optional \subseteq vals[t].fields
    BY <2>2
  <2>4. cer' = [cer EXCEPT ![s] = [trcv |-> now, vals |-> vals]]
    BY <2>1
  <2> HIDE DEF vals
  <2>5. cer'[s].vals = vals /\ \A x \in Server : x # s => cer'[x] = cer[x]
    BY <2>4 DEF Good, MetricsTyped, Total
  <2>6. polled' = polled
    BY <1>2 DEF Report
  <2> QED BY <2>3, <2>5, <2>6 DEF FieldsComplete
<1>3. CASE PollStart
  <2>1. PICK got \in SUBSET {s \in Server : cer[s].trcv # 0} :
            polled' = {[node |-> s, trcv |-> cer[s].trcv, vals |-> cer[s].vals] : s \in got}
    BY <1>3 DEF PollStart
  <2>2. cer' = cer
    BY <1>3 DEF PollStart, worldVars
  <2>3. \A m \in polled' : \E s \in Server : m.vals = cer[s].vals
    BY <2>1
  <2> QED BY <2>2, <2>3 DEF FieldsComplete
<1>4. CASE \E m \in polled : Decode(m)
    BY <1>4 DEF Decode, worldVars, FieldsComplete
<1>5. CASE World
    BY <1>1, <1>2, <1>5 DEF World, Tick, Failover, ReportOsc
<1>6. CASE Poll
    BY <1>1, <1>3, <1>4, <1>6 DEF Poll, PollFails, PollEnds, DecodeOsc, Summarize,
                                  SummarizeEnds, worldVars
<1>7. CASE Key
    BY <1>1, <1>7 DEF Key, ToggleView, ChooseFs, TagTarget, TagServer, ClearTags, clusterVars
<1>8. CASE UNCHANGED vars
    BY <1>1, <1>8 DEF vars, worldVars
<1> QED BY <1>5, <1>6, <1>7, <1>8 DEF Next

\* The readings of a target are as new as its last metric.
LEMMA CurrentKept ==
    Good /\ FieldsComplete /\ ReadingsCurrent /\ [Next]_vars => ReadingsCurrent'
<1> SUFFICES ASSUME Good, FieldsComplete, ReadingsCurrent, [Next]_vars PROVE ReadingsCurrent'
    OBVIOUS
<1>1. CASE UNCHANGED target_data
    BY <1>1 DEF ReadingsCurrent
<1>2. CASE \E t \in queue : Summarize(t)
    BY <1>2, SummarizeSame, SameCurrent
<1>3. CASE TagStep
    BY <1>3, TagStepSame, SameCurrent
<1>4. CASE \E f \in Fs : ChooseFs(f)
  <2>1. DOMAIN target_data' = {}
    BY <1>4, EmptyGood DEF ChooseFs
  <2> QED BY <2>1 DEF ReadingsCurrent
<1>5. CASE World \/ PollStart \/ PollFails \/ PollEnds \/ SummarizeEnds \/ ToggleView
    BY <1>1, <1>5 DEF World, Tick, Failover, Report, ReportOsc, PollStart, PollFails,
                      PollEnds, SummarizeEnds, ToggleView
<1>6. CASE UNCHANGED vars
    BY <1>1, <1>6 DEF vars
<1>7. CASE Poll
    BY <1>2, <1>5, <1>7, DecodeCurrent, DecodeOscCurrent DEF Poll
<1>8. CASE Key
    BY <1>3, <1>4, <1>5, <1>8, TagKeysTouch DEF Key
<1> QED BY <1>5, <1>6, <1>7, <1>8 DEF Next

\* The first state has neither metrics nor targets.
LEMMA CurrentFirst == Init => FieldsComplete /\ ReadingsCurrent
<1> SUFFICES ASSUME Init PROVE FieldsComplete /\ ReadingsCurrent
    OBVIOUS
<1>1. DOMAIN target_data = {} /\ polled = {}
    BY EmptyGood DEF Init
<1>2. \A s \in Server : DOMAIN cer[s].vals = {}
    BY EmptyGood DEF Init
<1> QED BY <1>1, <1>2 DEF FieldsComplete, ReadingsCurrent

\* The mandatory samples of a target that was heard of all hold a reading, of
\* the target's own timestamp; one never heard of has none.
THEOREM RowsCurrent == Spec => []ReadingsCurrent
<1>1. Init => FieldsComplete /\ ReadingsCurrent
    BY CurrentFirst
<1>2. Good /\ FieldsComplete /\ ReadingsCurrent /\ [Next]_vars
          => (FieldsComplete /\ ReadingsCurrent)'
    BY FieldsKept, CurrentKept
<1> QED BY <1>1, <1>2, Inductive, PTL DEF Spec

---------------------------------------------------------------------------
(* The servers' rows.                                                      *)

\* The servers' records and the list of targets may change in their tags and
\* their shared samples.
LEMMA SumsAlike ==
    ASSUME NEW old, NEW new, NEW at, NEW r, NEW q, NEW D, D \subseteq DOMAIN old,
           SameTargets(old, new), AlikeServers(r, q), SumsUp(old, at, r, D)
    PROVE  SumsUp(new, at, q, D)
<1>1. \A t \in D : Alike(old[t], new[t])
    BY DEF SameTargets
<1>2. /\ IsFiniteSet(D) /\ q.count = Cardinality(D)
      /\ ~Expired(q.rec.ts, at, StaleSecs)
    BY DEF SumsUp, AlikeServers
<1>3. ASSUME NEW t \in D
      PROVE  /\ q.rec.ts <= new[t].ts
             /\ q.rec.tgtstate = "F" => new[t].tgtstate = "F"
             /\ q.rec.recov_status = "COMPLETE" => new[t].recov_status = "COMPLETE"
             /\ D = {t} => \A f \in Field \ Shared : q.samples[f] = new[t].samples[f]
    BY <1>1 DEF SumsUp, AlikeServers, Alike
<1>4. ASSUME NEW t \in D, NEW u \in D, t # u, D = {t, u}
      PROVE  PairSums(new, q, t, u)
  <2>1. PairSums(old, r, t, u)
    BY <1>4 DEF SumsUp
  <2>2. ASSUME NEW f \in Field \ Shared
        PROVE  /\ new[t].samples[f] = old[t].samples[f]
               /\ new[u].samples[f] = old[u].samples[f] /\ q.samples[f] = r.samples[f]
    BY <1>1 DEF Alike, AlikeServers
  <2> QED BY <2>1, <2>2 DEF PairSums
<1> QED BY <1>2, <1>3, <1>4 DEF SumsUp

\* Which targets are live, and on which server, stays.
LEMMA FreshAlike ==
    ASSUME SameTargets(target_data, target_data'), tcycle' = tcycle
    PROVE  \A s : FreshOn(s)' = FreshOn(s)
<1>1. DOMAIN target_data' = DOMAIN target_data
    BY DEF SameTargets
<1>2. \A t \in DOMAIN target_data : /\ target_data'[t].ts = target_data[t].ts
                                    /\ target_data'[t].servername = target_data[t].servername
    BY DEF SameTargets, Alike
<1> QED BY <1>1, <1>2 DEF FreshOn

\* When the servers' records are those of the targets met so far.
Summing == pc = "summarize" \/ (pc = "idle" /\ ~target_view)

Summaries ==
    /\ \A s \in Server : s \in DOMAIN server_data <=> SummedOn(s) # {}
    /\ \A s \in DOMAIN server_data : SumsUp(target_data, tcycle, server_data[s], SummedOn(s))

LEMMA SummariesKept ==
    ASSUME Summaries, SameTargets(target_data, target_data'),
           SameServers(server_data, server_data'), UNCHANGED <<tcycle, queue>>
    PROVE  Summaries'
<1>1. \A s : SummedOn(s)' = SummedOn(s) /\ SummedOn(s) \subseteq DOMAIN target_data
    BY FreshAlike DEF SummedOn, FreshOn
<1>2. DOMAIN server_data' = DOMAIN server_data
    BY DEF SameServers
<1>3. ASSUME NEW s \in DOMAIN server_data
      PROVE  SumsUp(target_data', tcycle', server_data'[s], SummedOn(s))
  <2>1. SumsUp(target_data, tcycle, server_data[s], SummedOn(s))
    BY DEF Summaries
  <2>2. AlikeServers(server_data[s], server_data'[s])
    BY DEF SameServers
  <2> QED BY <1>1, <2>1, <2>2, SumsAlike
<1> QED BY <1>1, <1>2, <1>3 DEF Summaries

\* The first target of a server.
LEMMA CopySums ==
    ASSUME Good, NEW t \in DOMAIN target_data, ~Expired(target_data[t].ts, tcycle, StaleSecs)
    PROVE  SumsUp(target_data, tcycle, CopyOf(t), {t})
<1> DEFINE r == CopyOf(t)
<1>1. target_data[t].ts \in Nat
    BY DEF Good, GoodTargets, Partial, TargetRecord
<1>2. r.count = 1 /\ r.rec = target_data[t] /\ r.samples = target_data[t].samples
    BY DEF CopyOf
<1>3. IsFiniteSet({t}) /\ Cardinality({t}) = 1
    BY FS_Singleton
<1> HIDE DEF r
<1>4. SumsUp(target_data, tcycle, r, {t})
    BY <1>1, <1>2, <1>3 DEF SumsUp
<1> QED BY <1>4 DEF r

\* What sample_add and sample_min make of two samples of the same times.
LEMMA SumOfTwo ==
    ASSUME NEW a \in Sample, NEW b \in Sample, SameTimes(a, b), a.valid > 0
    PROVE  /\ sample_add(a, b).val1.n = a.val1.n + b.val1.n
           /\ sample_min(a, b).val1.n = Smaller(a.val1.n, b.val1.n)
<1>1. ASSUME NEW n1 \in Nat, NEW n0 \in Nat
      PROVE  Combined(a, b, n1, n0).val1.n = n1
    BY DEF Combined, Sample, Value
<1>2. /\ a.val1.n + b.val1.n \in Nat /\ a.val0.n + b.val0.n \in Nat
      /\ Smaller(a.val1.n, b.val1.n) \in Nat /\ Smaller(a.val0.n, b.val0.n) \in Nat
    BY DEF Sample, Value, Smaller
<1> QED BY <1>1, <1>2 DEF sample_add, sample_min

\* Whichever of the two targets came first.
LEMMA PairSymmetric ==
    ASSUME NEW list, NEW r, NEW t, NEW u, PairSums(list, r, t, u),
           list[t].samples \in [Field -> Sample], list[u].samples \in [Field -> Sample]
    PROVE  PairSums(list, r, u, t)
<1> SUFFICES ASSUME NEW f \in Field \ Shared,
                    SameTimes(list[u].samples[f], list[t].samples[f]),
                    list[u].samples[f].valid > 0
             PROVE  /\ f \in Added => r.samples[f].val1.n
                                 = list[u].samples[f].val1.n + list[t].samples[f].val1.n
                    /\ f \in Lowest => r.samples[f].val1.n
                                 = Smaller(list[u].samples[f].val1.n, list[t].samples[f].val1.n)
    BY DEF PairSums
<1> DEFINE a == list[t].samples[f]
           b == list[u].samples[f]
<1>1. a \in Sample /\ b \in Sample
    OBVIOUS
<1>2. a.val1.n \in Nat /\ b.val1.n \in Nat
    BY <1>1 DEF Sample, Value
<1>3. SameTimes(a, b) /\ a.valid > 0
    BY <1>1 DEF SameTimes
<1>4. /\ f \in Added => r.samples[f].val1.n = a.val1.n + b.val1.n
      /\ f \in Lowest => r.samples[f].val1.n = Smaller(a.val1.n, b.val1.n)
    BY <1>3 DEF PairSums
<1> HIDE DEF a, b
<1>5. a.val1.n + b.val1.n = b.val1.n + a.val1.n /\ Smaller(a.val1.n, b.val1.n) = Smaller(b.val1.n, a.val1.n)
    BY <1>2 DEF Smaller
<1> QED BY <1>4, <1>5 DEF a, b

\* A further target of a server.
LEMMA MergedSums ==
    ASSUME Good, NEW t \in DOMAIN target_data, NEW r, GoodServer(r),
           r.first \in DOMAIN target_data,
           ~Expired(target_data[t].ts, tcycle, StaleSecs),
           NEW D, D \subseteq DOMAIN target_data, D # {}, t \notin D,
           SumsUp(target_data, tcycle, r, D)
    PROVE  SumsUp(target_data, tcycle, Merged(r, t), D \cup {t})
<1> DEFINE o == target_data[t]
           sums == [f \in Field |-> IF f \in Shared THEN r.samples[f] ELSE Summed(r, t, f)]
           ts == IF o.ts < r.rec.ts THEN o.ts ELSE r.rec.ts
           state == IF o.tgtstate # "F" THEN o.tgtstate ELSE r.rec.tgtstate
           recov == IF o.recov_status # "COMPLETE" THEN o.recov_status ELSE r.rec.recov_status
           tag == r.rec.tag \/ o.tag
           rec == [r.rec EXCEPT !.ts = ts, !.tgtstate = state, !.recov_status = recov,
                                !.tag = tag]
           count == r.count + 1
           new == [r EXCEPT !.rec = rec, !.count = count, !.samples = sums]
           E == D \cup {t}
<1>1. o.ts \in Nat /\ \A x \in DOMAIN target_data : target_data[x].ts \in Nat
    BY DEF Good, GoodTargets, Partial, TargetRecord
<1>2. \A x \in DOMAIN target_data : target_data[x].samples \in [Field -> Sample]
    BY DEF Good, GoodTargets, Partial, TargetRecord
<1>3. r \in ServerRecord /\ r.rec \in TargetRecord
    BY DEF GoodServer, ServerRecord
<1>4. r.rec.ts \in Nat /\ r.count \in Nat
    BY <1>3 DEF ServerRecord, TargetRecord
<1>5. Merged(r, t) = new
    BY DEF Merged
<1>6. /\ ts \in Nat /\ ts <= o.ts /\ ts <= r.rec.ts /\ ts \in {o.ts, r.rec.ts}
    BY <1>1, <1>4
<1>7. /\ state = "F" => o.tgtstate = "F" /\ r.rec.tgtstate = "F"
      /\ recov = "COMPLETE" => o.recov_status = "COMPLETE" /\ r.rec.recov_status = "COMPLETE"
    OBVIOUS
<1> HIDE DEF ts, state, recov, tag, sums, count
<1>8. rec.ts = ts /\ rec.tgtstate = state /\ rec.recov_status = recov
    BY <1>3 DEF TargetRecord
<1> HIDE DEF rec
<1>9. new.rec = rec /\ new.count = count /\ new.samples = sums
    BY <1>3 DEF ServerRecord
<1> HIDE DEF new
<1>10. IsFiniteSet(E) /\ new.count = Cardinality(E)
  <2>1. IsFiniteSet(D) /\ r.count = Cardinality(D)
    BY DEF SumsUp
  <2> QED BY <1>9, <2>1, FS_AddElement DEF count
<1>11. ~Expired(new.rec.ts, tcycle, StaleSecs)
    BY <1>6, <1>8, <1>9 DEF SumsUp
<1>12. ASSUME NEW x \in E
       PROVE  /\ new.rec.ts <= target_data[x].ts
              /\ new.rec.tgtstate = "F" => target_data[x].tgtstate = "F"
              /\ new.rec.recov_status = "COMPLETE" => target_data[x].recov_status = "COMPLETE"
  <2>1. CASE x = t
    BY <1>6, <1>7, <1>8, <1>9, <2>1
  <2>2. CASE x \in D
    <3>1. /\ r.rec.ts <= target_data[x].ts /\ target_data[x].ts \in Nat
          /\ r.rec.tgtstate = "F" => target_data[x].tgtstate = "F"
          /\ r.rec.recov_status = "COMPLETE" => target_data[x].recov_status = "COMPLETE"
      BY <1>1, <2>2 DEF SumsUp
    <3> QED BY <1>4, <1>6, <1>7, <1>8, <1>9, <3>1
  <2> QED BY <2>1, <2>2
<1>13. \A x \in E : E # {x}
    OBVIOUS
<1>14. ASSUME NEW d, D = {d}
       PROVE  PairSums(target_data, new, d, t) /\ PairSums(target_data, new, t, d)
  <2>1. d \in DOMAIN target_data /\ d \in D
    BY <1>14
  <2>2. ASSUME NEW f \in Field \ Shared,
               SameTimes(target_data[d].samples[f], o.samples[f]),
               target_data[d].samples[f].valid > 0
        PROVE  /\ f \in Added => new.samples[f].val1.n
                       = target_data[d].samples[f].val1.n + o.samples[f].val1.n
               /\ f \in Lowest => new.samples[f].val1.n
                       = Smaller(target_data[d].samples[f].val1.n, o.samples[f].val1.n)
    <3> DEFINE a == target_data[d].samples[f]
               b == o.samples[f]
    <3>1. a \in Sample /\ b \in Sample
      BY <1>2, <2>1
    <3>2. r.samples[f] = a
      BY <1>14, <2>1 DEF SumsUp
    <3>3. new.samples[f] = Summed(r, t, f)
      BY <1>9 DEF sums
    <3>4. Summed(r, t, f) = IF f \in Added THEN sample_add(a, b)
                            ELSE IF f \in Lowest THEN sample_min(a, b) ELSE a
      BY <3>2 DEF Summed, ServerSample
    <3>5. f \in Lowest => f \notin Added
      BY DEF Added, Lowest
    <3>6. SameTimes(a, b) /\ a.valid > 0
      BY <2>2
    <3> HIDE DEF a, b
    <3>7. /\ sample_add(a, b).val1.n = a.val1.n + b.val1.n
          /\ sample_min(a, b).val1.n = Smaller(a.val1.n, b.val1.n)
      BY <3>1, <3>6, SumOfTwo
    <3>8. /\ f \in Added => new.samples[f].val1.n = a.val1.n + b.val1.n
          /\ f \in Lowest => new.samples[f].val1.n = Smaller(a.val1.n, b.val1.n)
      BY <3>3, <3>4, <3>5, <3>7
    <3> QED BY <3>8 DEF a, b
  <2>3. PairSums(target_data, new, d, t)
    BY <2>2 DEF PairSums
  <2> QED BY <1>2, <2>1, <2>3, PairSymmetric
<1>15. ASSUME NEW x \in E, NEW y \in E, x # y, E = {x, y}
       PROVE  PairSums(target_data, new, x, y)
  <2>1. CASE x = t
    <3>1. D = {y}
      BY <1>15, <2>1
    <3> QED BY <1>14, <2>1, <3>1
  <2>2. CASE y = t
    <3>1. D = {x}
      BY <1>15, <2>2
    <3> QED BY <1>14, <2>2, <3>1
  <2> QED BY <1>15, <2>1, <2>2
<1> HIDE DEF E
<1>16. SumsUp(target_data, tcycle, new, E)
    BY <1>10, <1>11, <1>12, <1>13, <1>15 DEF SumsUp
<1> QED BY <1>5, <1>16 DEF E

\* One target of the loop of _summarize_target: skipped when it has expired,
\* else copied or summed into its server's record.
LEMMA SummarizeSums ==
    ASSUME Good, Summaries, NEW t \in queue, Summarize(t)
    PROVE  Summaries'
<1>0. PICK s : s = target_data[t].servername
    OBVIOUS
<1>1. /\ pc = "summarize" /\ queue' = queue \ {t} /\ tcycle' = tcycle
    BY DEF Summarize
<1>2. /\ t \in DOMAIN target_data
      /\ \A x \in DOMAIN server_data : server_data[x].first \in DOMAIN target_data
    BY <1>1 DEF Good, SummaryReady
<1>3. SameTargets(target_data, target_data')
    BY SummarizeSame
<1>4. \A x : FreshOn(x)' = FreshOn(x)
    BY <1>1, <1>3, FreshAlike
<1>5. \A x : SummedOn(x) \subseteq DOMAIN target_data /\ t \notin SummedOn(x)
    BY DEF SummedOn, FreshOn
<1>6. \A x : SummedOn(x)' = IF t \in FreshOn(x) THEN SummedOn(x) \cup {t} ELSE SummedOn(x)
    BY <1>1, <1>4 DEF SummedOn
<1>7. CASE /\ Expired(target_data[t].ts, tcycle, StaleSecs)
           /\ UNCHANGED <<server_data, target_data>>
  <2>1. \A x : SummedOn(x)' = SummedOn(x)
    BY <1>6, <1>7 DEF FreshOn
  <2> QED BY <1>1, <1>7, <2>1 DEF Summaries
<1>8. ASSUME ~Expired(target_data[t].ts, tcycle, StaleSecs)
      PROVE  /\ s \in Server
             /\ \A x : SummedOn(x)' = IF x = s THEN SummedOn(x) \cup {t} ELSE SummedOn(x)
  <2>1. \A x : t \in FreshOn(x) <=> x = s
    BY <1>0, <1>2, <1>8 DEF FreshOn
  <2> QED BY <1>0, <1>2, <1>6, <1>8, <2>1, LiveHasServer
<1>9. CASE /\ ~Expired(target_data[t].ts, tcycle, StaleSecs)
           /\ s \notin DOMAIN server_data
           /\ server_data' = [x \in DOMAIN server_data \cup {s} |->
                                 IF x = s THEN CopyOf(t) ELSE server_data[x]]
           /\ UNCHANGED target_data
  <2>1. /\ s \in Server
        /\ \A x : SummedOn(x)' = IF x = s THEN {t} ELSE SummedOn(x)
    BY <1>8, <1>9 DEF Summaries
  <2>2. SumsUp(target_data, tcycle, CopyOf(t), {t})
    BY <1>2, <1>9, CopySums
  <2>3. /\ DOMAIN server_data' = DOMAIN server_data \cup {s} /\ server_data'[s] = CopyOf(t)
        /\ \A x \in DOMAIN server_data : x # s => server_data'[x] = server_data[x]
    BY <1>9
  <2>4. \A x \in Server : x \in DOMAIN server_data' <=> SummedOn(x)' # {}
    BY <2>1, <2>3 DEF Summaries
  <2>5. ASSUME NEW x \in DOMAIN server_data'
        PROVE  SumsUp(target_data', tcycle', server_data'[x], SummedOn(x)')
    <3>1. CASE x = s
      BY <1>1, <1>9, <2>1, <2>2, <2>3, <3>1
    <3>2. CASE x # s
      <4>1. SumsUp(target_data, tcycle, server_data[x], SummedOn(x))
        BY <2>3, <3>2 DEF Summaries
      <4> QED BY <1>1, <1>9, <2>1, <2>3, <3>2, <4>1
    <3> QED BY <3>1, <3>2
  <2> QED BY <2>4, <2>5 DEF Summaries
<1>10. CASE /\ ~Expired(target_data[t].ts, tcycle, StaleSecs)
            /\ s \in DOMAIN server_data
            /\ server_data' = [server_data EXCEPT ![s] = Merged(@, t)]
  <2> DEFINE r == server_data[s]
             D == SummedOn(s)
  <2>1. /\ s \in Server
        /\ \A x : SummedOn(x)' = IF x = s THEN D \cup {t} ELSE SummedOn(x)
    BY <1>8, <1>10
  <2>2. /\ GoodServer(r) /\ r.first \in DOMAIN target_data /\ D # {}
        /\ SumsUp(target_data, tcycle, r, D) /\ D \subseteq DOMAIN target_data /\ t \notin D
    BY <1>2, <1>5, <1>10, <2>1 DEF Good, GoodServers, Summaries
  <2>3. /\ DOMAIN server_data' = DOMAIN server_data /\ server_data'[s] = Merged(r, t)
        /\ \A x \in DOMAIN server_data : x # s => server_data'[x] = server_data[x]
    BY <1>10 DEF Good, GoodServers, Partial
  <2> HIDE DEF r, D
  <2>4. SumsUp(target_data, tcycle, Merged(r, t), D \cup {t})
    BY <1>2, <1>10, <2>2, MergedSums
  <2>5. ASSUME NEW x \in DOMAIN server_data'
        PROVE  SumsUp(target_data', tcycle', server_data'[x], SummedOn(x)')
    <3> DEFINE q == server_data'[x]
               E == SummedOn(x)'
    <3>1. SumsUp(target_data, tcycle, q, E) /\ E \subseteq DOMAIN target_data
      <4>1. CASE x = s
        BY <1>2, <2>1, <2>2, <2>3, <2>4, <4>1
      <4>2. CASE x # s
        <5>1. SumsUp(target_data, tcycle, server_data[x], SummedOn(x))
          BY <2>3, <4>2 DEF Summaries
        <5> QED BY <1>5, <2>1, <2>3, <4>2, <5>1
      <4> QED BY <4>1, <4>2
    <3> HIDE DEF q, E
    <3>2. AlikeServers(q, q)
      BY DEF AlikeServers
    <3>3. SumsUp(target_data', tcycle, q, E)
      BY <1>3, <3>1, <3>2, SumsAlike
    <3> QED BY <1>1, <3>3 DEF q, E
  <2>6. \A x \in Server : x \in DOMAIN server_data' <=> SummedOn(x)' # {}
    BY <1>10, <2>1, <2>3 DEF Summaries
  <2> QED BY <2>5, <2>6 DEF Summaries
<1> QED BY <1>0, <1>7, <1>9, <1>10 DEF Summarize

LEMMA PartialParts ==
    SummaryPartial <=> (pc # "summarize" => queue = {}) /\ (Summing => Summaries)
BY DEF SummaryPartial, Summing, Summaries

\* recompute starts with no servers and all targets to come, or does nothing.
LEMMA RecomputeSums ==
    ASSUME SummaryPartial, pc # "summarize", UNCHANGED target_data,
           Recompute(target_data, target_view')
    PROVE  SummaryPartial'
<1>1. queue = {}
    BY DEF SummaryPartial
<1>2. CASE target_view'
  <2>1. pc' = "idle" /\ queue' = {}
    BY <1>1, <1>2 DEF Recompute
  <2> QED BY <1>2, <2>1 DEF SummaryPartial
<1>3. CASE ~target_view'
  <2>1. /\ pc' = "summarize" /\ DOMAIN server_data' = {} /\ queue' = DOMAIN target_data'
    BY <1>3, EmptyGood DEF Recompute
  <2>2. \A s : SummedOn(s)' = {}
    BY <2>1 DEF SummedOn, FreshOn
  <2> QED BY <2>1, <2>2 DEF SummaryPartial
<1> QED BY <1>2, <1>3

\* A step that leaves the summary alone.
LEMMA QuietSums ==
    ASSUME SummaryPartial, SameTargets(target_data, target_data'),
           SameServers(server_data, server_data'), UNCHANGED <<tcycle, queue>>,
           Summing' => Summing, pc' # "summarize" => queue = {}
    PROVE  SummaryPartial'
<1>1. Summing' => Summaries'
    BY SummariesKept, PartialParts
<1>2. pc' # "summarize" => queue' = {}
    OBVIOUS
<1>3. (SummaryPartial <=> (pc # "summarize" => queue = {}) /\ (Summing => Summaries))'
    BY DEF SummaryPartial, Summing, Summaries
<1> QED BY <1>1, <1>2, <1>3

\* While the list is polled or re-polled there is no summary to speak of.
LEMMA PolledSums ==
    ASSUME SummaryPartial, pc # "summarize", pc' \in {"poll", "repoll"}, queue' = queue
    PROVE  SummaryPartial'
BY DEF SummaryPartial

\* The servers' records sum up the targets met so far, whatever happens.
LEMMA SumsKept == Good /\ SummaryPartial /\ [Next]_vars => SummaryPartial'
<1> SUFFICES ASSUME Good, SummaryPartial, [Next]_vars PROVE SummaryPartial'
    OBVIOUS
<1>1. CASE World \/ UNCHANGED vars
  <2>1. UNCHANGED <<target_view, tcycle, target_data, server_data, queue, pc>>
    BY <1>1 DEF World, Tick, Failover, Report, ReportOsc, userVars, vars
  <2> QED BY <2>1 DEF SummaryPartial, SummedOn, FreshOn
<1>2. CASE PollFails \/ PollEnds
  <2>1. /\ pc # "summarize" /\ UNCHANGED <<target_data, target_view>>
        /\ Recompute(target_data, target_view)
    BY <1>2 DEF PollFails, PollEnds, userVars
  <2>2. Recompute(target_data, target_view')
    BY <2>1
  <2> QED BY <2>1, <2>2, RecomputeSums
<1>3. CASE ToggleView
  <2>1. /\ pc # "summarize" /\ UNCHANGED target_data
        /\ Recompute(target_data, target_view')
    BY <1>3 DEF ToggleView, Event
  <2> QED BY <2>1, RecomputeSums
<1>4. CASE \/ PollStart
           \/ \E m \in polled : Decode(m)
           \/ \E m \in polled_osc : DecodeOsc(m)
           \/ \E f \in Fs : ChooseFs(f)
  <2>1. pc # "summarize" /\ pc' \in {"poll", "repoll"} /\ queue' = queue
    BY <1>4 DEF PollStart, Decode, DecodeOsc, ChooseFs, Event
  <2> QED BY <2>1, PolledSums
<1>5. ASSUME NEW t \in queue, Summarize(t)
      PROVE  SummaryPartial'
  <2>1. Summaries /\ pc' = "summarize"
    BY <1>5, PartialParts DEF Summarize, Summing
  <2>2. Summaries'
    BY <1>5, <2>1, SummarizeSums
  <2> QED BY <2>1, <2>2 DEF SummaryPartial, Summaries
<1>6. CASE SummarizeEnds
  <2>1. /\ UNCHANGED <<target_data, server_data, tcycle, queue>>
        /\ queue = {} /\ pc = "summarize"
    BY <1>6 DEF SummarizeEnds
  <2>2. SameTargets(target_data, target_data') /\ SameServers(server_data, server_data')
    BY <2>1, UnchangedSame
  <2>3. Summing
    BY <2>1 DEF Summing
  <2> QED BY <2>1, <2>2, <2>3, QuietSums
<1>7. CASE TagStep
  <2>1. /\ UNCHANGED <<tcycle, queue, pc, target_view>> /\ pc = "idle"
    BY <1>7 DEF TagStep, Event, userVars
  <2>2. Summing' => Summing
    BY <2>1 DEF Summing
  <2>3. queue = {}
    BY <2>1 DEF SummaryPartial
  <2> QED BY <1>7, <2>1, <2>2, <2>3, TagStepSame, QuietSums
<1>8. CASE Poll
    BY <1>2, <1>4, <1>5, <1>6, <1>8 DEF Poll
<1>9. CASE Key
    BY <1>3, <1>4, <1>7, <1>9, TagKeysTouch DEF Key
<1> QED BY <1>1, <1>8, <1>9 DEF Next

\* The second part of the inductive invariant.
THEOREM SummaryInductive == Spec => []SummaryPartial
<1>1. Init => SummaryPartial
    BY DEF Init, SummaryPartial
<1>2. Good /\ SummaryPartial /\ [Next]_vars => SummaryPartial'
    BY SumsKept
<1> QED BY <1>1, <1>2, Inductive, PTL DEF Spec

\* When the server view is shown every live target has been met.
LEMMA ShownSums ==
    ASSUME SummaryPartial, pc = "idle", ~target_view
    PROVE  /\ \A s : SummedOn(s) = FreshOn(s)
           /\ \A s \in Server : s \in DOMAIN server_data <=> FreshOn(s) # {}
           /\ \A s \in DOMAIN server_data :
                 SumsUp(target_data, tcycle, server_data[s], FreshOn(s))
<1>1. \A s : SummedOn(s) = FreshOn(s)
    BY DEF SummaryPartial, SummedOn
<1>2. Summaries
    BY PartialParts DEF Summing
<1> QED BY <1>1, <1>2 DEF Summaries

\* A row that is not stale has the values of its own timestamp, and a server is
\* as old as the oldest of its live targets: _summarize_target keeps the least
\* timestamp, and a metric fills all mandatory samples of a target at once.
THEOREM RowsAreFresh == Spec => []RowsFresh
<1>1. Good /\ ReadingsCurrent /\ SummaryPartial => RowsFresh
  <2> SUFFICES ASSUME Good, ReadingsCurrent, SummaryPartial PROVE RowsFresh
    OBVIOUS
  <2>1. ASSUME NEW t \in DOMAIN target_data, NEW f \in Field \ Optional,
               target_data[t].ts # 0
        PROVE  /\ target_data[t].samples[f].valid > 0
               /\ target_data[t].samples[f].time1 = target_data[t].ts
    BY <2>1 DEF ReadingsCurrent, Current
  <2>2. ASSUME pc = "idle", ~target_view, NEW s \in DOMAIN server_data
        PROVE  /\ ~Expired(server_data[s].rec.ts, tcycle, StaleSecs)
               /\ \A t \in FreshOn(s) : server_data[s].rec.ts <= target_data[t].ts
    BY <2>2, ShownSums DEF SumsUp
  <2> QED BY <2>1, <2>2 DEF RowsFresh, FreshOn
<1> QED BY <1>1, Inductive, RowsCurrent, SummaryInductive, PTL

\* The server view sums up each live target once, however the loop of
\* _summarize_target meets them: the servers shown are those of live targets,
\* the counts are theirs, and two samples of the same times are added up.
THEOREM SummaryComplete == Spec => []SummaryMatches
<1>1. SummaryPartial => SummaryMatches
    BY ShownSums DEF SummaryMatches, SumsUp
<1> QED BY <1>1, SummaryInductive, PTL

\* A server is shown full and recovered only if all its live targets are.
THEOREM NonFullNotHidden == Spec => []NonFullShown
<1>1. SummaryPartial => NonFullShown
    BY ShownSums DEF NonFullShown, SumsUp
<1> QED BY <1>1, SummaryInductive, PTL

=============================================================================
