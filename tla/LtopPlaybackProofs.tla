-------------------------- MODULE LtopPlaybackProofs --------------------------
(***************************************************************************)
(* Playback keeps its marks, rows and batches in order, for recordings of  *)
(* any length, any targets and file systems, and any sequence of keys.     *)
(*                                                                         *)
(* A key composes _play_file, _rewind_file and _list_empty_out on a record *)
(* of the player's state.  Sound(m, f) says of such a record what the      *)
(* invariants say of the state; there is one lemma per function, and the   *)
(* lemma of a key strings them together.                                   *)
(***************************************************************************)
EXTENDS LtopPlayback, LmtLemmas, SequenceTheorems

USE PlaybackAssumption

PlayerType == [pos : Nat, eof : BOOLEAN, series : Seq(Mark), rows : [Target -> Nat],
               tcycle : Nat, period : Nat \ {0}, dead : BOOLEAN]

Ordered == /\ file \in Seq(Record)
           /\ \A j, k \in 1..Len(file) : j <= k => file[j].t <= file[k].t

Marked(m) ==
  /\ \A k \in 1..Len(m.series) : /\ m.series[k].p \in 1..m.pos
                                 /\ file[m.series[k].p].t = m.series[k].t
                                 /\ m.series[k].t <= m.tcycle
  /\ \A j, k \in 1..Len(m.series) : j < k => /\ m.series[j].p > m.series[k].p
                                             /\ m.series[j].t > m.series[k].t
  /\ m.pos < Len(file) => \A k \in 1..Len(m.series) : m.series[k].t < file[m.pos + 1].t

Shown(m, f) ==
  /\ \A x \in Target : m.rows[x] # 0 =>
       /\ FsOf[x] = f
       /\ \E k \in 1..Len(file) : /\ file[k].target = x
                                  /\ file[k].trcv = m.rows[x]
                                  /\ file[k].t <= m.tcycle
  /\ m.pos < Len(file) /\ m.rows # NoRows => m.tcycle <= file[m.pos + 1].t

Complete(m, f) ==
  m.rows # NoRows =>
    /\ m.series # << >> /\ m.series[1].t = m.tcycle
    /\ \A k \in 1..Len(file) :
         /\ file[k].t = m.tcycle /\ FsOf[file[k].target] = f
         /\ k >= m.series[1].p
         => m.rows[file[k].target] >= file[k].trcv

Sound(m, f) == /\ m \in PlayerType /\ m.pos <= Len(file)
               /\ Marked(m) /\ Shown(m, f) /\ Complete(m, f)

Whole(m) == m.pos < Len(file) /\ m.pos > 0 =>
              \/ file[m.pos].t # file[m.pos + 1].t
              \/ m.series = << >> /\ m.rows = NoRows

-------------------------------------------------------------------------------
(* Lemmas about the functions of playback.                                 *)

(* What is in the file.                                                    *)
LEMMA RecordAt ==
  ASSUME file \in Seq(Record)
  PROVE  /\ Len(file) \in Nat
         /\ \A k \in 1..Len(file) : /\ file[k].t \in Nat /\ file[k].t > 0
                                     /\ file[k].trcv \in Nat /\ file[k].trcv > 0
                                     /\ file[k].target \in Target
<1>1. \A k \in 1..Len(file) : file[k] \in Record
  OBVIOUS
<1> QED
  BY <1>1 DEF Record

(* A batch has an end: the last of the records that share the time of the  *)
(* first, and the record after it, if there is one, is later.              *)
LEMMA BatchEnds ==
  ASSUME Ordered, NEW p \in Nat, p < Len(file)
  PROVE  /\ BatchEnd(p) \in (p + 1)..Len(file)
         /\ \A j \in (p + 1)..BatchEnd(p) : file[j].t = file[p + 1].t
         /\ BatchEnd(p) < Len(file) => file[BatchEnd(p) + 1].t > file[p + 1].t
<1> DEFINE In == {k \in (p + 1)..Len(file) : InBatch(p, k)}
<1>1. p + 1 \in In
  BY DEF InBatch
<1>2. In \in SUBSET Nat /\ Len(file) \in Nat /\ \A k \in In : k <= Len(file)
  BY DEF Ordered
<1>3. PICK e \in In : \A k \in In : k <= e
  <2> HIDE DEF In
  <2> QED
    BY <1>1, <1>2, Greatest
<1>4. InBatch(p, e) /\ ~InBatch(p, e + 1)
  <2>1. ASSUME InBatch(p, e + 1) PROVE FALSE
    <3>1. e + 1 \in In
      BY <2>1 DEF InBatch
    <3> QED
      BY <3>1, <1>3
  <2> QED
    BY <2>1
<1>5. /\ BatchEnd(p) \in (p + 1)..Len(file)
      /\ InBatch(p, BatchEnd(p)) /\ ~InBatch(p, BatchEnd(p) + 1)
  BY <1>4 DEF BatchEnd
<1> HIDE DEF In
<1>6. \A j \in (p + 1)..BatchEnd(p) : file[j].t = file[p + 1].t
  BY <1>5 DEF InBatch
<1>7. ASSUME BatchEnd(p) < Len(file) PROVE file[BatchEnd(p) + 1].t > file[p + 1].t
  <2> DEFINE n == BatchEnd(p) + 1
  <2>1. n \in (p + 1)..Len(file)
    BY <1>5, <1>7
  <2>2. file[n].t # file[p + 1].t
    BY <1>5, <1>6, <2>1 DEF InBatch
  <2>3. file[p + 1].t <= file[n].t /\ file[n].t \in Nat /\ file[p + 1].t \in Nat
    BY <2>1, RecordAt DEF Ordered
  <2> QED
    BY <2>2, <2>3
<1> QED
  BY <1>5, <1>6, <1>7

(* Decoding keeps a row or takes the receive time of a record of the batch,*)
(* of a target of the file system.                                         *)
FromBatch(r, f, p, e) ==
  /\ Decoded(r, f, p, e) \in [Target -> Nat]
  /\ \A x \in Target : Decoded(r, f, p, e)[x] # r[x] =>
       /\ FsOf[x] = f
       /\ \E k \in (p + 1)..e : /\ file[k].target = x
                                /\ file[k].trcv = Decoded(r, f, p, e)[x]
  /\ \A x \in Target : \A k \in (p + 1)..e :
       FsOf[x] = f /\ file[k].target = x => Decoded(r, f, p, e)[x] >= file[k].trcv

LEMMA DecodedRows ==
  ASSUME file \in Seq(Record), NEW r \in [Target -> Nat], NEW f,
         NEW p \in Nat, NEW e \in 0..Len(file)
  PROVE  FromBatch(r, f, p, e)
<1> SUFFICES ASSUME NEW x \in Target
             PROVE  /\ Decoded(r, f, p, e)[x] \in Nat
                    /\ Decoded(r, f, p, e)[x] # r[x] =>
                         /\ FsOf[x] = f
                         /\ \E k \in (p + 1)..e : /\ file[k].target = x
                                                  /\ file[k].trcv = Decoded(r, f, p, e)[x]
                    /\ \A k \in (p + 1)..e : FsOf[x] = f /\ file[k].target = x =>
                         Decoded(r, f, p, e)[x] >= file[k].trcv
  BY DEF Decoded, FromBatch
<1> DEFINE places == {j \in (p + 1)..e : file[j].target = x}
           seen   == {file[k].trcv : k \in places} \cup {r[x]}
<1>1. places \subseteq 1..Len(file)
  OBVIOUS
<1>2. seen \in SUBSET Nat /\ r[x] \in seen
  BY <1>1, RecordAt
<1>3. \E b \in Nat : \A v \in seen : v <= b
  <2> DEFINE g == [k \in 1..Len(file) |-> file[k].trcv]
  <2>1. g \in [1..Len(file) -> Nat] /\ Len(file) \in Nat
    BY RecordAt
  <2>2. PICK b \in Nat : \A k \in 1..Len(file) : g[k] <= b
    <3> HIDE DEF g
    <3> QED
      BY <2>1, Bounded
  <2>3. \A k \in 1..Len(file) : file[k].trcv <= b /\ file[k].trcv \in Nat
    BY <2>2, RecordAt
  <2>4. \A v \in seen : v <= b + r[x]
    <3>1. \A k \in places : file[k].trcv <= b /\ file[k].trcv \in Nat
      BY <2>3, <1>1
    <3> HIDE DEF places
    <3> QED
      BY <3>1
  <2>5. b + r[x] \in Nat
    OBVIOUS
  <2> HIDE DEF seen
  <2> QED
    BY <2>4, <2>5
<1>4. \E v \in seen : \A w \in seen : w <= v
  <2> HIDE DEF seen
  <2> QED
    BY <1>2, <1>3, Greatest
<1>5. /\ (CHOOSE v \in seen : \A w \in seen : w <= v) \in seen
      /\ \A u \in seen : u <= CHOOSE v \in seen : \A w \in seen : w <= v
  <2> HIDE DEF seen
  <2> QED
    BY <1>4
<1>6. Decoded(r, f, p, e)[x] =
        IF FsOf[x] = f THEN CHOOSE v \in seen : \A w \in seen : w <= v ELSE r[x]
  BY DEF Decoded
<1>7. /\ Decoded(r, f, p, e)[x] \in seen
      /\ FsOf[x] # f => Decoded(r, f, p, e)[x] = r[x]
      /\ FsOf[x] = f => \A u \in seen : u <= Decoded(r, f, p, e)[x]
  <2> HIDE DEF seen
  <2> QED
    BY <1>2, <1>5, <1>6
<1>8. ASSUME NEW k \in (p + 1)..e, FsOf[x] = f, file[k].target = x
      PROVE  Decoded(r, f, p, e)[x] >= file[k].trcv
  <2>1. file[k].trcv \in seen
    BY <1>8
  <2> HIDE DEF seen
  <2>2. file[k].trcv <= Decoded(r, f, p, e)[x]
    BY <2>1, <1>7, <1>8
  <2>3. file[k].trcv \in Nat /\ Decoded(r, f, p, e)[x] \in Nat
    BY <2>1, <1>2, <1>7
  <2> QED
    BY <2>2, <2>3
<1> QED
  BY <1>2, <1>7, <1>8

(* Reading a batch keeps the player sound, and ends behind a whole batch,  *)
(* unless there was nothing to read.                                       *)
LEMMA Plays ==
  ASSUME Ordered, NEW f, NEW m, Sound(m, f)
  PROVE  /\ Sound(_play_file(m, f), f)
         /\ Whole(m) \/ (m.pos < Len(file) /\ ~m.eof /\ ~m.dead) => Whole(_play_file(m, f))
         /\ ~m.eof /\ ~m.dead /\ m.pos = Len(file) => _play_file(m, f).dead
<1> DEFINE n == _play_file(m, f)
<1>0. /\ m \in PlayerType /\ m.pos \in Nat /\ m.pos <= Len(file)
      /\ file \in Seq(Record) /\ Len(file) \in Nat
      /\ m.series \in Seq(Mark) /\ m.rows \in [Target -> Nat]
      /\ m.tcycle \in Nat /\ m.period \in Nat \ {0}
      /\ m.eof \in BOOLEAN /\ m.dead \in BOOLEAN
  BY DEF Sound, PlayerType, Ordered
<1>1. CASE m.eof \/ m.dead
  BY <1>1 DEF _play_file
<1>2. CASE ~m.eof /\ ~m.dead /\ m.pos = Len(file)
  <2>1. n = [m EXCEPT !.dead = TRUE, !.eof = TRUE]
    BY <1>2 DEF _play_file
  <2>2. /\ n \in PlayerType /\ n.dead
        /\ n.pos = m.pos /\ n.series = m.series /\ n.rows = m.rows /\ n.tcycle = m.tcycle
    BY <2>1, <1>0 DEF PlayerType
  <2> HIDE DEF n
  <2>3. Sound(n, f) /\ Whole(n)
    BY <2>2, <1>2 DEF Sound, Marked, Shown, Complete, Whole
  <2> QED
    BY <2>2, <2>3, <1>2 DEF n
<1>3. CASE ~m.eof /\ ~m.dead /\ m.pos < Len(file)
  <2> DEFINE e == BatchEnd(m.pos)
             t == file[m.pos + 1].t
             q == [p |-> m.pos + 1, t |-> t]
  <2>1. /\ e \in (m.pos + 1)..Len(file)
        /\ \A j \in (m.pos + 1)..e : file[j].t = t
        /\ e < Len(file) => file[e + 1].t > t
    BY <1>0, <1>3, BatchEnds
  <2>2. t \in Nat /\ (e < Len(file) => file[e + 1].t \in Nat)
    BY <1>0, <1>3, <2>1, RecordAt
  <2>3. n = [m EXCEPT !.pos = e, !.eof = e = Len(file),
                      !.rows = Decoded(m.rows, f, m.pos, e), !.series = <<q>> \o m.series,
                      !.tcycle = t,
                      !.period = IF e < Len(file) THEN file[e + 1].t - t ELSE m.period]
    BY <1>0, <1>3 DEF _play_file
  <2> HIDE DEF e, t
  <2>4. /\ Decoded(m.rows, f, m.pos, e) \in [Target -> Nat]
        /\ \A x \in Target : Decoded(m.rows, f, m.pos, e)[x] # m.rows[x] =>
              /\ FsOf[x] = f
              /\ \E k \in (m.pos + 1)..e : /\ file[k].target = x
                                           /\ file[k].trcv = Decoded(m.rows, f, m.pos, e)[x]
        /\ \A x \in Target : \A k \in (m.pos + 1)..e :
              FsOf[x] = f /\ file[k].target = x =>
                Decoded(m.rows, f, m.pos, e)[x] >= file[k].trcv
    <3>1. e \in 0..Len(file)
      BY <1>0, <2>1
    <3>2. FromBatch(m.rows, f, m.pos, e)
      BY <1>0, <3>1, DecodedRows
    <3> QED
      BY <3>2 DEF FromBatch
  <2>5. /\ <<q>> \o m.series \in Seq(Mark)
        /\ Len(<<q>> \o m.series) = Len(m.series) + 1
        /\ (<<q>> \o m.series)[1] = q
        /\ \A k \in 2..(Len(m.series) + 1) : (<<q>> \o m.series)[k] = m.series[k - 1]
    <3>1. q \in Mark
      BY <1>0, <2>2 DEF Mark
    <3> QED
      BY <1>0, <3>1
  <2>6. (IF e < Len(file) THEN file[e + 1].t - t ELSE m.period) \in Nat \ {0}
    BY <1>0, <2>1, <2>2
  <2>7. /\ n \in PlayerType
        /\ n.pos = e /\ n.series = <<q>> \o m.series /\ n.tcycle = t
        /\ n.rows = Decoded(m.rows, f, m.pos, e)
    <3> HIDE DEF q, n
    <3> DEFINE s == <<q>> \o m.series
               w == IF e < Len(file) THEN file[e + 1].t - t ELSE m.period
               r == Decoded(m.rows, f, m.pos, e)
               b == e = Len(file)
    <3>1. e \in Nat /\ b \in BOOLEAN
      BY <1>0, <2>1
    <3>2. n = [m EXCEPT !.pos = e, !.eof = b, !.rows = r, !.series = s,
                        !.tcycle = t, !.period = w]
      BY <2>3
    <3>3. s \in Seq(Mark) /\ w \in Nat \ {0} /\ r \in [Target -> Nat]
      BY <2>4, <2>5, <2>6
    <3> HIDE DEF s, w, r, b
    <3>4. /\ n \in PlayerType /\ n.pos = e /\ n.series = s /\ n.tcycle = t /\ n.rows = r
      BY <1>0, <2>2, <3>1, <3>2, <3>3 DEF PlayerType
    <3> QED
      BY <3>4 DEF s, r
  <2> HIDE DEF n
  <2>8. Marked(n)
    <3>1. /\ Len(n.series) = Len(m.series) + 1
          /\ n.series[1] = q
          /\ \A k \in 2..Len(n.series) : n.series[k] = m.series[k - 1]
      BY <2>5, <2>7
    <3>2. \A k \in 1..Len(m.series) :
             /\ m.series[k].p \in 1..m.pos
             /\ file[m.series[k].p].t = m.series[k].t
             /\ m.series[k].t < t /\ m.series[k].t \in Nat
      <4> SUFFICES ASSUME NEW k \in 1..Len(m.series)
                   PROVE  /\ m.series[k].p \in 1..m.pos
                          /\ file[m.series[k].p].t = m.series[k].t
                          /\ m.series[k].t < t /\ m.series[k].t \in Nat
        OBVIOUS
      <4>1. m.series[k] \in Mark
        BY <1>0
      <4> QED
        BY <4>1, <1>3 DEF Sound, Marked, Mark, t
    <3>3. \A k \in 1..Len(n.series) : /\ n.series[k].p \in 1..n.pos
                                      /\ file[n.series[k].p].t = n.series[k].t
                                      /\ n.series[k].t <= n.tcycle
                                      /\ n.series[k].t \in Nat
      <4> SUFFICES ASSUME NEW k \in 1..Len(n.series)
                   PROVE  /\ n.series[k].p \in 1..n.pos
                          /\ file[n.series[k].p].t = n.series[k].t
                          /\ n.series[k].t <= n.tcycle
                          /\ n.series[k].t \in Nat
        OBVIOUS
      <4>1. CASE k = 1
        <5>1. n.series[k].p = m.pos + 1 /\ n.series[k].t = t
          BY <4>1, <3>1
        <5>2. m.pos + 1 \in 1..n.pos /\ file[m.pos + 1].t = t /\ n.tcycle = t
          BY <2>1, <2>7, <1>0 DEF t
        <5> QED
          BY <5>1, <5>2, <2>2
      <4>2. CASE k # 1
        <5>1. k \in 2..Len(n.series) /\ k - 1 \in 1..Len(m.series)
          BY <4>2, <3>1, <1>0
        <5> DEFINE i == k - 1
        <5>2. n.series[k] = m.series[i]
          BY <5>1, <3>1
        <5>3. i \in 1..Len(m.series)
          BY <5>1
        <5>4. /\ m.series[i].p \in 1..m.pos
              /\ file[m.series[i].p].t = m.series[i].t
              /\ m.series[i].t < t /\ m.series[i].t \in Nat
          BY <5>3, <3>2
        <5>5. m.pos \in Nat /\ m.pos <= n.pos /\ n.pos \in Nat /\ n.tcycle = t
          BY <1>0, <2>1, <2>7
        <5> HIDE DEF i
        <5> QED
          BY <5>2, <5>4, <5>5, <2>2
      <4> QED
        BY <4>1, <4>2
    <3>4. ASSUME NEW j \in 1..Len(n.series), NEW k \in 1..Len(n.series), j < k
          PROVE  n.series[j].p > n.series[k].p /\ n.series[j].t > n.series[k].t
      <4>1. k \in 2..Len(n.series) /\ k - 1 \in 1..Len(m.series)
        BY <3>4, <3>1, <1>0
      <4>2. CASE j = 1
        <5> DEFINE i == k - 1
        <5>1. i \in 1..Len(m.series) /\ n.series[k] = m.series[i]
          BY <4>1, <3>1
        <5>2. m.series[i].p \in 1..m.pos /\ m.series[i].t < t
          BY <5>1, <3>2
        <5>3. n.series[j].p = m.pos + 1 /\ n.series[j].t = t /\ m.pos \in Nat
          BY <4>2, <3>1, <1>0
        <5> HIDE DEF i
        <5> QED
          BY <5>1, <5>2, <5>3
      <4>3. CASE j # 1
        <5>1. j \in 2..Len(n.series) /\ j - 1 \in 1..Len(m.series) /\ j - 1 < k - 1
          BY <4>1, <4>3, <3>4, <3>1
        <5>2. m.series[j - 1].p > m.series[k - 1].p /\ m.series[j - 1].t > m.series[k - 1].t
          BY <5>1, <4>1 DEF Sound, Marked
        <5> QED
          BY <5>1, <5>2, <4>1, <3>1
      <4> QED
        BY <4>2, <4>3
    <3>5. ASSUME n.pos < Len(file), NEW k \in 1..Len(n.series)
          PROVE  n.series[k].t < file[n.pos + 1].t
      <4>1. n.series[k].t <= t /\ n.series[k].t \in Nat
        BY <3>3, <2>7
      <4>2. file[n.pos + 1].t > t /\ file[n.pos + 1].t \in Nat
        BY <3>5, <2>1, <2>2, <2>7
      <4> QED
        BY <4>1, <4>2, <2>2
    <3> QED
      BY <3>3, <3>4, <3>5 DEF Marked
  <2>9. Shown(n, f)
    <3>1. ASSUME NEW x \in Target, n.rows[x] # 0
          PROVE  /\ FsOf[x] = f
                 /\ \E k \in 1..Len(file) : /\ file[k].target = x
                                            /\ file[k].trcv = n.rows[x]
                                            /\ file[k].t <= n.tcycle
      <4>1. CASE n.rows[x] # m.rows[x]
        <5> DEFINE d == Decoded(m.rows, f, m.pos, e)
        <5>1. n.rows = d /\ n.tcycle = t
          BY <2>7
        <5>2. d[x] # m.rows[x] => /\ FsOf[x] = f
                                  /\ \E k \in (m.pos + 1)..e : /\ file[k].target = x
                                                               /\ file[k].trcv = d[x]
          BY <2>4
        <5> HIDE DEF d
        <5>3. PICK k \in (m.pos + 1)..e : file[k].target = x /\ file[k].trcv = n.rows[x]
          BY <4>1, <5>1, <5>2
        <5>4. k \in 1..Len(file) /\ file[k].t = t
          BY <2>1, <1>0
        <5>5. file[k].t <= n.tcycle
          BY <5>1, <5>4, <2>2
        <5>6. FsOf[x] = f
          BY <4>1, <5>1, <5>2
        <5> QED
          BY <5>3, <5>4, <5>5, <5>6
      <4>2. CASE n.rows[x] = m.rows[x]
        <5>1. PICK k \in 1..Len(file) : /\ file[k].target = x
                                       /\ file[k].trcv = m.rows[x]
                                       /\ file[k].t <= m.tcycle
          BY <3>1, <4>2 DEF Sound, Shown
        <5>2. m.rows # NoRows
          BY <3>1, <4>2 DEF NoRows
        <5>3. m.tcycle <= t
          BY <5>2, <1>3 DEF Sound, Shown, t
        <5>4. file[k].t <= n.tcycle
          BY <5>1, <5>3, <1>0, <2>2, <2>7, RecordAt
        <5> QED
          BY <3>1, <4>2, <5>1, <5>4 DEF Sound, Shown
      <4> QED
        BY <4>1, <4>2
    <3>2. n.pos < Len(file) => n.tcycle <= file[n.pos + 1].t
      BY <2>1, <2>2, <2>7
    <3> QED
      BY <3>1, <3>2 DEF Shown
  <2>10. Complete(n, f)
    <3>1. n.series # << >> /\ n.series[1].t = n.tcycle /\ n.series[1].p = m.pos + 1
      <4>1. Len(n.series) > 0 /\ n.series[1] = q
        BY <2>5, <2>7, <1>0
      <4> QED
        BY <4>1, <2>7
    <3>2. ASSUME NEW k \in 1..Len(file), file[k].t = n.tcycle,
                 FsOf[file[k].target] = f, k >= n.series[1].p
          PROVE  n.rows[file[k].target] >= file[k].trcv
      <4>1. k <= e
        <5>1. SUFFICES ASSUME k > e PROVE FALSE
          BY <2>1
        <5>2. e < Len(file) /\ e + 1 \in 1..Len(file) /\ e + 1 <= k
          BY <5>1, <2>1, <1>0
        <5>3. file[e + 1].t <= file[k].t
          BY <5>2 DEF Ordered
        <5> QED
          BY <5>2, <5>3, <3>2, <2>1, <2>2, <2>7
      <4>2. k \in (m.pos + 1)..e
        BY <4>1, <3>1, <3>2, <2>1, <1>0
      <4>3. file[k].target \in Target
        BY <1>0, RecordAt
      <4> QED
        BY <4>2, <4>3, <3>2, <2>4, <2>7
    <3> QED
      BY <3>1, <3>2 DEF Complete
  <2>11. Whole(n)
    <3>1. n.pos < Len(file) => file[n.pos].t = t /\ file[n.pos + 1].t > t
      BY <2>1, <2>7, <1>0
    <3> QED
      BY <3>1, <2>2, <2>7 DEF Whole
  <2> QED
    <3>1. Sound(n, f)
      BY <2>1, <2>7, <2>8, <2>9, <2>10, <1>0 DEF Sound
    <3> QED
      BY <3>1, <2>11, <1>0, <1>3 DEF n
<1> QED
  BY <1>0, <1>1, <1>2, <1>3

(* With end of file not seen, _play_file ends behind a whole batch.        *)
LEMMA PlaysWhole ==
  ASSUME Ordered, NEW f, NEW m, Sound(m, f), Whole(m) \/ (~m.eof /\ ~m.dead)
  PROVE  Sound(_play_file(m, f), f) /\ Whole(_play_file(m, f))
<1>1. m.pos \in Nat /\ Len(file) \in Nat /\ m.pos <= Len(file)
  BY DEF Sound, PlayerType, Ordered
<1>2. m.pos = Len(file) => Whole(m)
  BY <1>1 DEF Whole
<1> QED
  BY <1>1, <1>2, Plays

(* _list_empty_out: no rows are rows of any file system.                   *)
LEMMA Empties ==
  ASSUME NEW f, NEW g, NEW m, Sound(m, f)
  PROVE  /\ Sound(_list_empty_out(m), g)
         /\ Whole(m) => Whole(_list_empty_out(m))
         /\ _list_empty_out(m) = [m EXCEPT !.rows = NoRows]
         /\ _list_empty_out(m).rows = NoRows /\ _list_empty_out(m).eof = m.eof
         /\ _list_empty_out(m).dead = m.dead /\ _list_empty_out(m).series = m.series
         /\ _list_empty_out(m).tcycle = m.tcycle
<1> DEFINE n == _list_empty_out(m)
<1>1. NoRows \in [Target -> Nat]
  BY DEF NoRows
<1>2. /\ n \in PlayerType /\ n.rows = NoRows /\ n.pos = m.pos /\ n.eof = m.eof
      /\ n.series = m.series /\ n.tcycle = m.tcycle /\ n.dead = m.dead
  BY <1>1 DEF _list_empty_out, Sound, PlayerType
<1> HIDE DEF n
<1>3. Marked(n)
  BY <1>2 DEF Sound, Marked
<1>4. Shown(n, g) /\ Complete(n, g)
  BY <1>2 DEF Shown, Complete, NoRows
<1>5. Sound(n, g)
  BY <1>2, <1>3, <1>4 DEF Sound
<1>6. Whole(m) => Whole(n)
  BY <1>2 DEF Whole
<1> QED
  BY <1>2, <1>5, <1>6 DEF n, _list_empty_out

(* Going back to a mark with no rows left: what is kept lies behind it.    *)
LEMMA GoesBack ==
  ASSUME Ordered, NEW f, NEW m, Sound(m, f), NEW k \in 0..Len(m.series),
         k = 0 \/ m.rows = NoRows
  PROVE  /\ Sound(BackTo(m, k), f)
         /\ BackTo(m, k).rows = m.rows /\ BackTo(m, k).dead = m.dead
         /\ BackTo(m, k).series \in Seq(Mark)
         /\ Len(BackTo(m, k).series) = Len(m.series) - k
         /\ k = 0 => BackTo(m, k) = m
         /\ k > 0 => ~BackTo(m, k).eof
<1>0. /\ m \in PlayerType /\ m.pos \in Nat /\ m.pos <= Len(file)
      /\ Len(file) \in Nat /\ m.series \in Seq(Mark) /\ Len(m.series) \in Nat
  BY DEF Sound, PlayerType, Ordered
<1>1. CASE k = 0
  BY <1>0, <1>1 DEF BackTo
<1>2. CASE k > 0
  <2> DEFINE n == BackTo(m, k)
             s == SubSeq(m.series, k + 1, Len(m.series))
             q == m.series[k].p
  <2>1. /\ q \in 1..m.pos /\ file[q].t = m.series[k].t
        /\ \A j \in 1..Len(m.series) : k < j => /\ m.series[j].p < q
                                                /\ m.series[j].t < file[q].t
    <3>1. k \in 1..Len(m.series)
      BY <1>2
    <3> QED
      BY <3>1 DEF Sound, Marked
  <2>2. /\ s \in Seq(Mark) /\ Len(s) = Len(m.series) - k
        /\ \A j \in 1..Len(s) : s[j] = m.series[k + j]
    BY <1>0, WithoutFirst
  <2>3. n = [m EXCEPT !.pos = q, !.eof = FALSE, !.series = s]
    BY <1>2 DEF BackTo
  <2> HIDE DEF s, q, n
  <2>4. /\ n \in PlayerType /\ n.pos = q /\ ~n.eof /\ n.series = s
        /\ n.rows = m.rows /\ n.dead = m.dead /\ n.tcycle = m.tcycle
    <3>1. q \in Nat
      BY <2>1
    <3> QED
      BY <1>0, <2>2, <2>3, <3>1 DEF PlayerType
  <2>5. \A j \in 1..Len(s) : /\ k + j \in 1..Len(m.series) /\ k < k + j
                             /\ s[j] = m.series[k + j]
    BY <1>0, <2>2
  <2>6. \A j \in 1..Len(s) : /\ s[j].p \in 1..q /\ s[j].t < file[q].t /\ s[j].t \in Nat
                             /\ file[s[j].p].t = s[j].t /\ s[j].t <= m.tcycle
    <3> SUFFICES ASSUME NEW j \in 1..Len(s)
                 PROVE  /\ s[j].p \in 1..q /\ s[j].t < file[q].t /\ s[j].t \in Nat
                        /\ file[s[j].p].t = s[j].t /\ s[j].t <= m.tcycle
      OBVIOUS
    <3> DEFINE i == k + j
    <3>1. i \in 1..Len(m.series) /\ k < i /\ s[j] = m.series[i]
      BY <2>5
    <3> HIDE DEF i
    <3>2. m.series[i] \in Mark
      BY <3>1, <1>0
    <3>3. /\ m.series[i].p \in 1..m.pos /\ file[m.series[i].p].t = m.series[i].t
          /\ m.series[i].t <= m.tcycle
      BY <3>1 DEF Sound, Marked
    <3>4. m.series[i].p < q /\ m.series[i].t < file[q].t
      BY <3>1, <2>1
    <3>5. m.series[i].p \in 1..q /\ m.series[i].t \in Nat
      <4>1. m.series[i].p \in Nat /\ m.series[i].t \in Nat
        BY <3>2 DEF Mark
      <4>2. q \in Nat /\ m.series[i].p >= 1
        BY <3>3, <2>1, <1>0
      <4> QED
        BY <4>1, <4>2, <3>4
    <3> QED
      BY <3>1, <3>3, <3>4, <3>5
  <2>7. ASSUME NEW i \in 1..Len(s), NEW j \in 1..Len(s), i < j
        PROVE  s[i].p > s[j].p /\ s[i].t > s[j].t
    <3>1. /\ k + i \in 1..Len(m.series) /\ k + j \in 1..Len(m.series) /\ k + i < k + j
      BY <2>5, <2>7
    <3>2. /\ m.series[k + i].p > m.series[k + j].p /\ m.series[k + i].t > m.series[k + j].t
      BY <3>1 DEF Sound, Marked
    <3> QED
      BY <3>2, <2>5
  <2>8. ASSUME q < Len(file), NEW j \in 1..Len(s)
        PROVE  s[j].t < file[q + 1].t
    <3>1. q \in 1..Len(file) /\ q + 1 \in 1..Len(file) /\ q <= q + 1
      BY <2>1, <2>8, <1>0
    <3>2. file[q].t <= file[q + 1].t /\ file[q].t \in Nat /\ file[q + 1].t \in Nat
      BY <3>1, RecordAt DEF Ordered
    <3> QED
      BY <3>2, <2>6
  <2>9. Marked(n)
    BY <2>4, <2>6, <2>7, <2>8 DEF Marked
  <2>10. Shown(n, f) /\ Complete(n, f)
    BY <2>4, <1>2 DEF Shown, Complete, NoRows
  <2>11. Sound(n, f)
    BY <2>1, <2>4, <2>9, <2>10, <1>0 DEF Sound
  <2> QED
    BY <2>2, <2>4, <2>11, <1>2 DEF n
<1> QED
  BY <1>1, <1>2

(* The rewinds of LEFT and BACKSPACE go back to a mark, or nowhere.        *)
LEMMA RewindsTo ==
  ASSUME NEW m \in PlayerType, NEW target \in Int
  PROVE  \E k \in 0..Len(m.series) :
           /\ _rewind_file_to(m, target) = BackTo(m, k)
           /\ k = 0 => m.series = << >>
<1>0. m.series \in Seq(Mark) /\ Len(m.series) \in Nat
  BY DEF PlayerType
<1> DEFINE reached == {k \in 1..Len(m.series) : m.series[k].t <= target}
           c == CHOOSE k \in reached : \A j \in reached : k <= j
<1>1. CASE reached = {}
  <2>1. _rewind_file_to(m, target) = BackTo(m, Len(m.series))
    BY <1>1 DEF _rewind_file_to
  <2>2. Len(m.series) = 0 => m.series = << >>
    BY <1>0
  <2> QED
    BY <1>0, <2>1, <2>2
<1>2. CASE reached # {}
  <2>1. reached \in SUBSET Nat
    BY <1>0
  <2>2. c \in reached
    <3> HIDE DEF reached
    <3> QED
      BY <1>2, <2>1, Least
  <2>3. _rewind_file_to(m, target) = BackTo(m, c)
    BY <1>2 DEF _rewind_file_to
  <2>4. c \in 1..Len(m.series)
    BY <2>2
  <2> HIDE DEF c, reached
  <2> QED
    BY <2>3, <2>4
<1> QED
  BY <1>1, <1>2

LEMMA Rewinds ==
  ASSUME NEW m \in PlayerType, NEW n \in Nat
  PROVE  \E k \in 0..Len(m.series) :
           /\ _rewind_file(m, n) = BackTo(m, k)
           /\ k = IF n < Len(m.series) THEN n ELSE Len(m.series)
<1>0. Len(m.series) \in Nat
  BY DEF PlayerType
<1>1. (IF n < Len(m.series) THEN n ELSE Len(m.series)) \in 0..Len(m.series)
  BY <1>0
<1> QED
  BY <1>1 DEF _rewind_file

(* Reading a batch ahead moves only the position, past a whole batch.      *)
LEMMA Peeks ==
  ASSUME Ordered, NEW f, NEW m, Sound(m, f), Whole(m)
  PROVE  Sound(Peeked(m), f) /\ Whole(Peeked(m))
<1> DEFINE n == _play_file(m, None)
           w == Peeked(m)
<1>0. /\ m \in PlayerType /\ m.pos \in Nat /\ m.pos <= Len(file)
      /\ Len(file) \in Nat /\ m.eof \in BOOLEAN /\ m.dead \in BOOLEAN
  BY DEF Sound, PlayerType, Ordered
<1>1. /\ n.pos \in Nat /\ n.eof \in BOOLEAN /\ n.dead \in BOOLEAN
      /\ \/ n.pos = m.pos
         \/ m.pos < Len(file) /\ n.pos = BatchEnd(m.pos)
  <2>1. CASE m.eof \/ m.dead
    BY <2>1, <1>0 DEF _play_file
  <2>2. CASE ~m.eof /\ ~m.dead /\ m.pos = Len(file)
    <3>1. n = [m EXCEPT !.dead = TRUE, !.eof = TRUE]
      BY <2>2 DEF _play_file
    <3> QED
      BY <3>1, <1>0 DEF PlayerType
  <2>3. CASE ~m.eof /\ ~m.dead /\ m.pos < Len(file)
    <3> DEFINE e == BatchEnd(m.pos)
               b == e = Len(file)
               t == file[m.pos + 1].t
               s == <<[p |-> m.pos + 1, t |-> t]>> \o m.series
               r == Decoded(m.rows, None, m.pos, e)
               d == IF e < Len(file) THEN file[e + 1].t - t ELSE m.period
    <3>1. e \in Nat
      BY <2>3, <1>0, BatchEnds
    <3>2. n = [m EXCEPT !.pos = e, !.eof = b, !.rows = r, !.series = s,
                        !.tcycle = t, !.period = d]
      BY <2>3, <1>0 DEF _play_file
    <3>3. b \in BOOLEAN
      OBVIOUS
    <3> HIDE DEF e, b, t, s, r, d, n
    <3>4. n.pos = e /\ n.eof = b /\ n.dead = m.dead
      BY <3>2, <1>0 DEF PlayerType
    <3> QED
      BY <3>1, <3>3, <3>4, <2>3, <1>0 DEF e
  <2> QED
    BY <2>1, <2>2, <2>3, <1>0
<1>2. w = [m EXCEPT !.pos = n.pos, !.eof = n.eof, !.dead = n.dead]
  BY DEF Peeked
<1> HIDE DEF n, w
<1>3. /\ w \in PlayerType /\ w.pos = n.pos /\ w.series = m.series
      /\ w.rows = m.rows /\ w.tcycle = m.tcycle
  BY <1>0, <1>1, <1>2 DEF PlayerType
<1>4. CASE n.pos = m.pos
  <2>1. Sound(w, f) /\ Whole(w)
    BY <1>0, <1>3, <1>4 DEF Sound, Marked, Shown, Complete, Whole
  <2> QED
    BY <2>1 DEF w
<1>5. CASE m.pos < Len(file) /\ n.pos = BatchEnd(m.pos)
  <2> DEFINE e == n.pos
  <2>1. /\ e \in (m.pos + 1)..Len(file)
        /\ \A j \in (m.pos + 1)..e : file[j].t = file[m.pos + 1].t
        /\ e < Len(file) => file[e + 1].t > file[m.pos + 1].t
    BY <1>0, <1>5, BatchEnds
  <2>2. \A k \in 1..Len(file) : file[k].t \in Nat
    BY RecordAt DEF Ordered
  <2>3. m.pos + 1 \in 1..Len(file) /\ e \in 1..Len(file)
        /\ (e < Len(file) => e + 1 \in 1..Len(file))
    BY <2>1, <1>0
  <2> HIDE DEF e
  <2>4. \A k \in 1..Len(m.series) :
          /\ m.series[k].p \in 1..e /\ file[m.series[k].p].t = m.series[k].t
          /\ m.series[k].t <= m.tcycle /\ m.series[k].t < file[m.pos + 1].t
          /\ m.series[k].t \in Nat
    <3>1. \A k \in 1..Len(m.series) : /\ m.series[k].p \in 1..m.pos
                                      /\ file[m.series[k].p].t = m.series[k].t
                                      /\ m.series[k].t <= m.tcycle
                                      /\ m.series[k].t < file[m.pos + 1].t
      BY <1>5 DEF Sound, Marked
    <3>2. 1..m.pos \subseteq 1..e /\ 1..m.pos \subseteq 1..Len(file)
      BY <2>1, <1>0
    <3> QED
      BY <3>1, <3>2, <2>2
  <2>5. Marked(w)
    <3>1. \A k \in 1..Len(m.series) : e < Len(file) => m.series[k].t < file[e + 1].t
      <4>1. e < Len(file) => file[m.pos + 1].t < file[e + 1].t /\ file[e + 1].t \in Nat
        BY <2>1, <2>2, <2>3
      <4>2. file[m.pos + 1].t \in Nat
        BY <2>2, <2>3
      <4> QED
        BY <4>1, <4>2, <2>4
    <3>2. \A j, k \in 1..Len(m.series) : j < k => /\ m.series[j].p > m.series[k].p
                                                  /\ m.series[j].t > m.series[k].t
      BY DEF Sound, Marked
    <3> QED
      BY <3>1, <3>2, <2>4, <1>3 DEF Marked, e
  <2>6. Shown(w, f)
    <3>1. m.tcycle \in Nat
      BY <1>0 DEF PlayerType
    <3>2. e < Len(file) /\ m.rows # NoRows => m.tcycle <= file[e + 1].t
      <4>1. m.rows # NoRows => m.tcycle <= file[m.pos + 1].t
        BY <1>5 DEF Sound, Shown
      <4> QED
        BY <4>1, <3>1, <2>1, <2>2, <2>3
    <3>3. \A x \in Target : m.rows[x] # 0 =>
             /\ FsOf[x] = f
             /\ \E k \in 1..Len(file) : /\ file[k].target = x
                                        /\ file[k].trcv = m.rows[x]
                                        /\ file[k].t <= m.tcycle
      BY DEF Sound, Shown
    <3> QED
      BY <3>2, <3>3, <1>3 DEF Shown, e
  <2>7. Whole(w)
    <3>1. e < Len(file) => file[e].t = file[m.pos + 1].t /\ file[e + 1].t > file[m.pos + 1].t
      BY <2>1
    <3> QED
      BY <3>1, <2>2, <2>3, <1>3 DEF Whole, e
  <2>8. Complete(w, f)
    BY <1>3 DEF Sound, Complete
  <2>9. Sound(w, f)
    BY <2>3, <2>5, <2>6, <2>8, <1>3, <1>0 DEF Sound, e
  <2> QED
    BY <2>7, <2>9 DEF w
<1> QED
  BY <1>1, <1>4, <1>5

-------------------------------------------------------------------------------
(* From the state to the record and back.                                  *)

LEMMA PlayerSound ==
  ASSUME IInv
  PROVE  /\ Ordered /\ Sound(Player, fs)
         /\ Player \in PlayerType /\ Player.dead = FALSE /\ Player.eof = eof
         /\ Player.series = series /\ Player.rows = rows /\ Player.pos = pos
         /\ phase = "play" => Whole(Player)
         /\ fs \in Fs \cup {None}
<1>1. /\ Player \in PlayerType /\ Player.dead = FALSE /\ Player.eof = eof
      /\ Player.series = series /\ Player.rows = rows /\ Player.tcycle = tcycle
      /\ Player.pos = pos /\ pos <= Len(file) /\ fs \in Fs \cup {None}
  BY DEF IInv, TypeOK, Player, PlayerType
<1>2. Ordered
  BY DEF IInv, TypeOK, FileOrdered, Ordered
<1>3. Marked(Player)
  BY <1>1 DEF IInv, SeriesSound, MarksBehind, Marked
<1>4. Shown(Player, fs) /\ Complete(Player, fs)
  BY <1>1 DEF IInv, NoFuture, RowsBehind, BatchShown, Shown, Complete
<1>5. phase = "play" => Whole(Player)
  BY <1>1 DEF IInv, BetweenBatches, Whole
<1> QED
  BY <1>1, <1>2, <1>3, <1>4, <1>5 DEF Sound

(* What a sound record becomes satisfies the invariant.                    *)
LEMMA BecomesSound ==
  ASSUME IInv, NEW m, NEW f \in Fs \cup {None}, Sound(m, f), m.dead \/ Whole(m),
         Becomes(m), fs' = f, file' = file,
         phase' \in {"play", "exit"}, m.dead => phase' = "exit",
         now' \in Nat \ {0}, heard' \in [Target -> Nat], recf' \in BOOLEAN,
         pause' \in BOOLEAN, until' \in Nat
  PROVE  IInv'
<1>0. /\ m \in PlayerType /\ m.pos <= Len(file) /\ file \in Seq(Record)
      /\ pos' = m.pos /\ eof' = m.eof /\ series' = m.series /\ rows' = m.rows
      /\ tcycle' = m.tcycle /\ sample_period' = m.period
  BY DEF Sound, Becomes, IInv, TypeOK
<1>1. TypeOK'
  <2>1. pos' \in 0..Len(file')
    BY <1>0 DEF PlayerType
  <2> QED
    BY <2>1, <1>0 DEF TypeOK, PlayerType
<1>2. FileOrdered' /\ NotStarted'
  BY DEF IInv, FileOrdered, NotStarted
<1>3. SeriesSound' /\ MarksBehind'
  BY <1>0 DEF Sound, Marked, SeriesSound, MarksBehind
<1>4. NoFuture' /\ RowsBehind' /\ BatchShown'
  <2>1. NoRows' = NoRows
    BY DEF NoRows
  <2>2. NoFuture' /\ RowsBehind'
    BY <2>1, <1>0 DEF Sound, Shown, NoFuture, RowsBehind
  <2>3. BatchShown'
    BY <2>1, <1>0 DEF Sound, Complete, BatchShown
  <2> QED
    BY <2>2, <2>3
<1>5. BetweenBatches'
  <2>1. NoRows' = NoRows
    BY DEF NoRows
  <2> QED
    BY <2>1, <1>0 DEF Whole, BetweenBatches
<1> QED
  BY <1>1, <1>2, <1>3, <1>4, <1>5 DEF IInv

LEMMA EndsSound ==
  ASSUME IInv, NEW m, NEW f \in Fs \cup {None}, Sound(m, f), Whole(m),
         Ends(m), fs' = f, pause' = pause, until' \in Nat
  PROVE  IInv'
<1>1. /\ now' \in Nat \ {0} /\ heard' \in [Target -> Nat] /\ recf' \in BOOLEAN
      /\ file' = file /\ pause' \in BOOLEAN
      /\ phase' \in {"play", "exit"} /\ (m.dead => phase' = "exit")
      /\ Becomes(m)
  BY DEF Ends, recording, IInv, TypeOK
<1> QED
  BY <1>1, BecomesSound

-------------------------------------------------------------------------------
(* The recording session.                                                  *)

(* While recording nothing has been played.                                *)
LEMMA StillRecording ==
  ASSUME IInv, phase = "record", phase' = phase, UNCHANGED <<player, fs, pause, until>>,
         now' \in Nat \ {0}, heard' \in [Target -> Nat], recf' \in BOOLEAN,
         file' \in Seq(Record), FileOrdered'
  PROVE  IInv'
<1>0. /\ pos' = 0 /\ ~eof' /\ series' = << >> /\ rows' = NoRows /\ tcycle' = 0
      /\ sample_period' = sample_period /\ NoRows' = NoRows
  BY DEF IInv, NotStarted, player, NoRows
<1>1. TypeOK'
  <2>1. Len(file') \in Nat
    OBVIOUS
  <2>2. pos' \in 0..Len(file')
    BY <2>1, <1>0
  <2>3. rows' \in [Target -> Nat]
    BY <1>0 DEF NoRows
  <2>4. eof' \in BOOLEAN /\ series' \in Seq(Mark)
    BY DEF player, IInv, TypeOK
  <2> QED
    BY <2>2, <2>3, <2>4, <1>0 DEF IInv, TypeOK
<1>2. NotStarted'
  BY <1>0 DEF NotStarted
<1>3. SeriesSound' /\ MarksBehind'
  BY <1>0 DEF SeriesSound, MarksBehind
<1>4. NoFuture' /\ RowsBehind' /\ BetweenBatches' /\ BatchShown'
  BY <1>0 DEF NoFuture, RowsBehind, BetweenBatches, BatchShown, NoRows
<1> QED
  BY <1>1, <1>2, <1>3, <1>4 DEF IInv

(* The clock of the recording is not behind what has been heard.           *)
LEMMA ClockAhead ==
  ASSUME IInv, phase = "record"
  PROVE  /\ \A x \in Target : heard[x] \in Nat /\ heard[x] <= now
         /\ \A k \in 1..Len(file) : file[k].t \in Nat /\ file[k].t <= now
         /\ \A j, k \in 1..Len(file) : j <= k => file[j].t <= file[k].t
<1>1. FileOrdered /\ heard \in [Target -> Nat] /\ file \in Seq(Record)
  BY DEF IInv, TypeOK
<1>2. \A x \in Target : heard[x] \in Nat
  BY <1>1
<1>3. \A k \in 1..Len(file) : file[k].t \in Nat
  BY <1>1, RecordAt
<1>4. \A j, k \in 1..Len(file) : j <= k => file[j].t <= file[k].t
  BY <1>1 DEF FileOrdered
<1>5. /\ \A k \in 1..Len(file) : file[k].t <= now
      /\ \A x \in Target : heard[x] <= now
  BY <1>1 DEF FileOrdered
<1> QED
  BY <1>2, <1>3, <1>4, <1>5

LEMMA Tick_Sound == ASSUME IInv, Tick PROVE IInv'
<1>0. /\ now \in Nat /\ now' = now + 1 /\ heard' = heard /\ file' = file
      /\ phase = "record" /\ phase' = phase /\ recf' = recf
      /\ heard \in [Target -> Nat] /\ file \in Seq(Record) /\ recf \in BOOLEAN
  BY DEF Tick, IInv, TypeOK
<1>1. FileOrdered'
  <2>1. \A k \in 1..Len(file) : file[k].t <= now + 1
    BY <1>0, ClockAhead
  <2>2. \A x \in Target : heard[x] <= now + 1
    BY <1>0, ClockAhead
  <2> QED
    BY <2>1, <2>2, <1>0, ClockAhead DEF FileOrdered
<1> QED
  BY <1>0, <1>1, StillRecording DEF Tick

LEMMA Report_Sound == ASSUME IInv, NEW x \in Target, Report(x) PROVE IInv'
<1>0. /\ now \in Nat \ {0} /\ now' = now /\ heard' = [heard EXCEPT ![x] = now]
      /\ file' = file /\ phase = "record" /\ phase' = phase /\ recf' = recf
      /\ heard \in [Target -> Nat] /\ file \in Seq(Record) /\ recf \in BOOLEAN
  BY DEF Report, IInv, TypeOK
<1>1. heard' \in [Target -> Nat] /\ \A y \in Target : heard'[y] <= now
  BY <1>0, ClockAhead
<1>2. FileOrdered'
  BY <1>0, <1>1 DEF IInv, FileOrdered
<1> QED
  BY <1>0, <1>1, <1>2, StillRecording DEF Report

LEMMA Poll_Sound == ASSUME IInv, Poll PROVE IInv'
<1>0. /\ now \in Nat \ {0} /\ phase = "record" /\ phase' = phase
      /\ now' = now /\ heard' = heard /\ recf' = recf
      /\ heard \in [Target -> Nat] /\ file \in Seq(Record) /\ recf \in BOOLEAN
  BY DEF Poll, IInv, TypeOK, recording
<1>a. PICK n \in 1..Len(Order) : \E at \in Answer(n) : file' = file \o Recorded(at, n)
  BY DEF Poll
<1>1. PICK at \in Answer(n) : file' = file \o Recorded(at, n)
  BY <1>a
<1> DEFINE r == Recorded(at, n)
<1>2. \A k \in 1..n : at[k] \in Known
  BY <1>1 DEF Answer
<1>3. \A k \in 1..n : /\ Order[at[k]] \in Target
                      /\ heard[Order[at[k]]] \in Nat \ {0}
  BY <1>0, <1>2 DEF Known
<1>4. r = [k \in 1..n |-> [t |-> now, trcv |-> heard[Order[at[k]]], target |-> Order[at[k]]]]
  BY DEF Recorded
<1>5. n \in Nat
  OBVIOUS
<1>6. r \in Seq(Record) /\ Len(r) = n /\ \A k \in 1..n : r[k].t = now
  <2>1. \A k \in 1..n : [t |-> now, trcv |-> heard[Order[at[k]]],
                         target |-> Order[at[k]]] \in Record
    BY <1>0, <1>3 DEF Record
  <2>2. r \in [1..n -> Record] /\ \A k \in 1..n : r[k].t = now
    BY <2>1, <1>4
  <2> HIDE DEF r
  <2> QED
    BY <2>2, <1>5
<1> HIDE DEF r
<1>7. /\ file' = file \o r /\ file' \in Seq(Record) /\ Len(file') = Len(file) + n
      /\ \A k \in 1..Len(file') : file'[k] = IF k <= Len(file) THEN file[k] ELSE r[k - Len(file)]
  <2>1. file' = file \o r
    BY <1>1 DEF r
  <2>2. /\ file \o r \in Seq(Record) /\ Len(file \o r) = Len(file) + n
        /\ \A k \in 1..(Len(file) + n) :
             (file \o r)[k] = IF k <= Len(file) THEN file[k] ELSE r[k - Len(file)]
    <3>1. file \in Seq(Record) /\ r \in Seq(Record)
      BY <1>0, <1>6
    <3> QED
      BY <3>1, <1>6, ConcatProperties
  <2> QED
    BY <2>1, <2>2
<1>8. \A k \in 1..Len(file) : file[k].t <= now
  BY <1>0, ClockAhead
<1>9. \A k \in 1..Len(file') : /\ k <= Len(file) => file'[k].t = file[k].t
                               /\ k > Len(file) => file'[k].t = now
                               /\ file'[k].t <= now
  <2> SUFFICES ASSUME NEW k \in 1..Len(file')
               PROVE  /\ k <= Len(file) => file'[k].t = file[k].t
                      /\ k > Len(file) => file'[k].t = now
                      /\ file'[k].t <= now
    OBVIOUS
  <2>1. CASE k <= Len(file)
    BY <2>1, <1>0, <1>7, <1>8
  <2>2. CASE k > Len(file)
    <3>1. Len(file) \in Nat /\ k - Len(file) \in 1..n
      BY <2>2, <1>0, <1>5, <1>7
    <3> QED
      BY <3>1, <2>2, <1>0, <1>6, <1>7
  <2> QED
    BY <2>1, <2>2, <1>0, <1>7
<1>10. ASSUME NEW j \in 1..Len(file'), NEW k \in 1..Len(file'), j <= k
       PROVE  file'[j].t <= file'[k].t
  <2>1. CASE k <= Len(file)
    <3>1. j \in 1..Len(file) /\ k \in 1..Len(file)
      BY <2>1, <1>0, <1>7, <1>10
    <3>2. file[j].t <= file[k].t
      BY <3>1, <1>10 DEF IInv, FileOrdered
    <3>3. file'[j].t = file[j].t /\ file'[k].t = file[k].t
      BY <3>1, <1>9
    <3> QED
      BY <3>2, <3>3
  <2>2. CASE k > Len(file)
    BY <2>2, <1>9
  <2> QED
    BY <2>1, <2>2, <1>0, <1>7
<1>11. FileOrdered'
  <2>1. \A x \in Target : heard'[x] <= now'
    BY <1>0, ClockAhead
  <2> QED
    BY <2>1, <1>0, <1>9, <1>10 DEF FileOrdered
<1> QED
  BY <1>0, <1>7, <1>11, StillRecording DEF Poll

LEMMA ToggleRecord_Sound == ASSUME IInv, ToggleRecord PROVE IInv'
<1>0. /\ now \in Nat \ {0} /\ phase = "record" /\ phase' = phase
      /\ now' = now /\ heard' = heard /\ recf' \in BOOLEAN
      /\ heard \in [Target -> Nat] /\ file \in Seq(Record)
      /\ file' = file \/ file' = << >>
  BY DEF ToggleRecord, IInv, TypeOK
<1>1. FileOrdered'
  <2>1. CASE file' = file
    BY <2>1, <1>0 DEF IInv, FileOrdered
  <2>2. CASE file' = << >>
    <3>1. 1..Len(file') = {}
      BY <2>2
    <3> QED
      BY <3>1, <1>0 DEF IInv, FileOrdered
  <2> QED
    BY <2>1, <2>2, <1>0
<1>2. file' \in Seq(Record)
  BY <1>0, EmptySeq
<1> QED
  BY <1>0, <1>1, <1>2, StillRecording DEF ToggleRecord

-------------------------------------------------------------------------------
(* The keys and the sample of playback.                                    *)

LEMMA StartedSound ==
  ASSUME IInv, NEW m, NEW f \in Fs \cup {None}, Sound(m, f), Whole(m), Started(m, f)
  PROVE  IInv'
<1> DEFINE n == _play_file(m, f)
<1>1. Ordered
  BY PlayerSound
<1>2. Sound(n, f) /\ Whole(n)
  BY <1>1, PlaysWhole
<1>3. /\ Becomes(n) /\ fs' = f /\ file' = file
      /\ phase' \in {"play", "exit"} /\ (n.dead => phase' = "exit")
      /\ now' = Interval /\ heard' = NoRows /\ recf' = FALSE
      /\ pause' = pause /\ until' = until
  BY DEF Started
<1>4. /\ now' \in Nat \ {0} /\ heard' \in [Target -> Nat] /\ recf' \in BOOLEAN
      /\ pause' \in BOOLEAN /\ until' \in Nat
  BY <1>3 DEF NoRows, IInv, TypeOK
<1> HIDE DEF n
<1> QED
  BY <1>2, <1>3, <1>4, BecomesSound

(* The file system playback starts with is one of a target in the file.    *)
LEMMA DefaultIsFs ==
  ASSUME Ordered
  PROVE  DefaultFs \in Fs \cup {None}
<1>1. CASE file = << >>
  BY <1>1 DEF DefaultFs
<1>2. CASE file # << >>
  <2> DEFINE batch == 1..BatchEnd(0)
             mdts  == {k \in batch : file[k].target \in Mdt}
             from  == IF mdts = {} THEN batch ELSE mdts
             first == CHOOSE k \in from : \A j \in from : k <= j
  <2>1. Len(file) \in Nat /\ 0 < Len(file) /\ file \in Seq(Record)
    BY <1>2 DEF Ordered
  <2>2. BatchEnd(0) \in 1..Len(file)
    <3>1. BatchEnd(0) \in (0 + 1)..Len(file)
      BY <2>1, BatchEnds
    <3> QED
      BY <3>1
  <2>3. from \in SUBSET Nat /\ from # {} /\ \A k \in from : k \in 1..Len(file)
    BY <2>1, <2>2
  <2> HIDE DEF from
  <2>4. first \in from
    <3>1. \E k \in from : \A j \in from : k <= j
      BY <2>3, Least
    <3> QED
      BY <3>1
  <2>5. file[first].target \in Target
    BY <2>1, <2>3, <2>4, RecordAt
  <2> HIDE DEF first
  <2>6. FsOf[file[first].target] \in Fs
    BY <2>5
  <2>7. DefaultFs = FsOf[file[first].target]
    BY <1>2 DEF DefaultFs, first, from
  <2> QED
    BY <2>6, <2>7
<1> QED
  BY <1>1, <1>2

LEMMA Start_Sound == ASSUME IInv, Start PROVE IInv'
<1>0. phase = "record"
  BY DEF Start, Started, StartWithFs, _find_first_fs
<1>1. Ordered /\ file \in Seq(Record)
  BY PlayerSound DEF Ordered
<1>2. pos = 0 /\ rows = NoRows
  BY <1>0 DEF IInv, NotStarted
<1>3. ASSUME NEW f PROVE Sound(Player, f) /\ Whole(Player)
  <2>1. Shown(Player, f) /\ Complete(Player, f)
    BY <1>2, PlayerSound DEF Shown, Complete, NoRows
  <2> QED
    BY <2>1, <1>2, PlayerSound DEF Sound, Whole
<1>4. CASE _find_first_fs
  <2> DEFINE f == DefaultFs
             m == Peeked(Player)
  <2>1. f \in Fs \cup {None}
    BY <1>1, DefaultIsFs
  <2>2. Started(m, f)
    BY <1>4 DEF _find_first_fs
  <2> HIDE DEF f
  <2>3. Sound(m, f) /\ Whole(m)
    BY <1>1, <1>3, Peeks
  <2> HIDE DEF m
  <2> QED
    BY <2>1, <2>2, <2>3, StartedSound
<1>5. ASSUME NEW f \in Fs, StartWithFs(f) PROVE IInv'
  BY <1>3, <1>5, StartedSound DEF StartWithFs
<1> QED
  BY <1>4, <1>5 DEF Start

LEMMA Sample_Sound == ASSUME IInv, Sample PROVE IInv'
<1>0. phase = "play" /\ fs' = fs /\ pause' = pause /\ until' = until /\ until \in Nat
  BY DEF Sample, Idle, IInv, TypeOK
<1>1. Sound(_play_file(Player, fs), fs) /\ Whole(_play_file(Player, fs))
  BY <1>0, PlayerSound, PlaysWhole
<1>2. Ends(_play_file(Player, fs))
  BY DEF Sample
<1> QED
  BY <1>0, <1>1, <1>2, PlayerSound, EndsSound

LEMMA TabStep_Sound == ASSUME IInv, TabStep PROVE IInv'
<1> DEFINE m == _play_file(Player, fs)
<1>0. phase = "play" /\ fs' = fs /\ pause' = pause /\ until \in Nat
  BY DEF TabStep, IInv, TypeOK
<1>1. Sound(m, fs) /\ Whole(m)
  BY <1>0, PlayerSound, PlaysWhole
<1>2. Ends(m) /\ until' \in Nat
  BY <1>0 DEF TabStep
<1> HIDE DEF m
<1> QED
  BY <1>0, <1>1, <1>2, PlayerSound, EndsSound

LEMMA Right_Sound == ASSUME IInv, Right PROVE IInv'
<1> DEFINE e == _list_empty_out(Player)
           m == _play_file(e, fs)
<1>0. phase = "play" /\ fs' = fs /\ pause' = pause /\ until' = until /\ until \in Nat
  BY DEF Right, Idle, IInv, TypeOK
<1>1. Sound(e, fs) /\ Whole(e)
  BY <1>0, PlayerSound, Empties
<1>2. Ends(m)
  BY DEF Right
<1> HIDE DEF e
<1>3. Sound(m, fs) /\ Whole(m)
  BY <1>1, PlayerSound, PlaysWhole
<1> HIDE DEF m
<1> QED
  BY <1>0, <1>2, <1>3, PlayerSound, EndsSound

(* LEFT empties the lists after the rewind; before it would be the same.   *)
LEMMA EmptyFirst ==
  ASSUME NEW m \in PlayerType, NEW k \in 0..Len(m.series)
  PROVE  _list_empty_out(BackTo(m, k)) = BackTo(_list_empty_out(m), k)
<1>1. CASE k = 0
  BY <1>1 DEF BackTo
<1>2. CASE k # 0
  <2> DEFINE q == m.series[k].p
             s == SubSeq(m.series, k + 1, Len(m.series))
             w == _list_empty_out(m)
  <2>1. BackTo(m, k) = [m EXCEPT !.pos = q, !.eof = FALSE, !.series = s]
    BY <1>2 DEF BackTo
  <2>2. w = [m EXCEPT !.rows = NoRows] /\ w.series = m.series
    BY DEF _list_empty_out, PlayerType
  <2>3. BackTo(w, k) = [w EXCEPT !.pos = q, !.eof = FALSE, !.series = s]
    <3> HIDE DEF w
    <3> QED
      BY <1>2, <2>2 DEF BackTo
  <2>4. _list_empty_out(BackTo(m, k)) = [BackTo(m, k) EXCEPT !.rows = NoRows]
    BY DEF _list_empty_out
  <2> HIDE DEF q, s, w
  <2> DEFINE Rec(p, e, l, r) == [pos |-> p, eof |-> e, series |-> l, rows |-> r,
                                 tcycle |-> m.tcycle, period |-> m.period, dead |-> m.dead]
  <2>5. m = Rec(m.pos, m.eof, m.series, m.rows)
    BY DEF PlayerType
  <2>6. BackTo(m, k) = Rec(q, FALSE, s, m.rows)
    BY <2>1, <2>5
  <2>7. w = Rec(m.pos, m.eof, m.series, NoRows)
    BY <2>2, <2>5
  <2>8. BackTo(w, k) = Rec(q, FALSE, s, NoRows)
    BY <2>3, <2>7
  <2>9. _list_empty_out(BackTo(m, k)) = Rec(q, FALSE, s, NoRows)
    <3> DEFINE a == BackTo(m, k)
    <3>1. /\ a = Rec(a.pos, a.eof, a.series, a.rows)
          /\ a.pos = q /\ a.eof = FALSE /\ a.series = s
      BY <2>6
    <3>2. _list_empty_out(a) = [a EXCEPT !.rows = NoRows]
      BY <2>4
    <3> HIDE DEF a
    <3>3. _list_empty_out(a) = Rec(a.pos, a.eof, a.series, NoRows)
      BY <3>1, <3>2
    <3> QED
      BY <3>1, <3>3 DEF a
  <2> QED
    BY <2>8, <2>9 DEF w
<1> QED
  BY <1>1, <1>2

LEMMA Left_Sound == ASSUME IInv, Left PROVE IInv'
<1> DEFINE back == _rewind_file(Player, 3)
           k    == Len(series) - Len(back.series)
           m    == IF k > 0 THEN _list_empty_out(back) ELSE back
           n    == CASE k <= 1 -> m
                     [] k = 2  -> _play_file(m, fs)
                     [] k = 3  -> _play_file(_play_file(m, fs), fs)
<1>0. phase = "play" /\ fs' = fs /\ pause' = pause /\ until' = until /\ until \in Nat
  BY DEF Left, Idle, IInv, TypeOK
<1>1. Ends(n)
  BY DEF Left
<1>2. /\ Ordered /\ Sound(Player, fs) /\ Player \in PlayerType /\ Player.series = series
      /\ Whole(Player) /\ Player.dead = FALSE /\ fs \in Fs \cup {None}
  BY <1>0, PlayerSound
<1>a. series \in Seq(Mark)
  BY DEF IInv, TypeOK
<1>b. Len(series) \in Nat
  BY <1>a
<1>3. PICK i \in 0..Len(series) : /\ back = BackTo(Player, i)
                                  /\ i = IF 3 < Len(series) THEN 3 ELSE Len(series)
  BY <1>2, Rewinds
<1>c. i \in Nat /\ i <= Len(series) /\ i \in 0..3 /\ (i = 1 => Len(series) = 1)
  <2> DEFINE l == Len(series)
  <2>1. i \in 0..l /\ i = (IF 3 < l THEN 3 ELSE l) /\ l \in Nat
    BY <1>3, <1>b
  <2> HIDE DEF l
  <2>2. i \in Nat /\ i <= l /\ i \in 0..3 /\ (i = 1 => l = 1)
    BY <2>1
  <2> QED
    BY <2>2 DEF l
<1> DEFINE e == _list_empty_out(Player)
<1>4. /\ Sound(e, fs) /\ Whole(e) /\ e.rows = NoRows /\ e.dead = FALSE /\ e.series = series
  BY <1>2, Empties
<1>5. _list_empty_out(back) = BackTo(e, i)
  BY <1>2, <1>3, EmptyFirst
<1> HIDE DEF e
<1> DEFINE b == BackTo(e, i)
<1>6. /\ Sound(b, fs) /\ b.rows = NoRows /\ b.dead = FALSE
      /\ Len(b.series) = Len(series) - i /\ b.series \in Seq(Mark)
      /\ i = 0 => b = e
      /\ i > 0 => ~b.eof
  <2>1. i \in 0..Len(e.series)
    BY <1>4
  <2> QED
    BY <2>1, <1>2, <1>4, GoesBack
<1>7. k = i
  <2>1. CASE i = 0
    <3>1. back = Player
      BY <2>1, <1>3 DEF BackTo
    <3> QED
      BY <3>1, <2>1, <1>2, <1>b
  <2>2. CASE i > 0
    <3> DEFINE s == SubSeq(series, i + 1, Len(series))
    <3>1. Len(s) = Len(series) - i
      BY <1>3, <1>a, WithoutFirst
    <3>2. back = [Player EXCEPT !.pos = Player.series[i].p, !.eof = FALSE, !.series = s]
      BY <2>2, <1>2, <1>3 DEF BackTo
    <3>3. back.series = s
      <4> HIDE DEF s, back
      <4> QED
        BY <3>2, <1>2 DEF PlayerType
    <3> HIDE DEF back, s
    <3> DEFINE l == Len(series)
               j == Len(back.series)
    <3>4. j = l - i /\ l \in Nat /\ i \in Nat
      BY <3>1, <3>3, <1>b, <1>c
    <3>5. k = l - j
      OBVIOUS
    <3> HIDE DEF l, j, k
    <3> QED
      BY <3>4, <3>5
  <2> QED
    BY <2>1, <2>2, <1>c
<1>8. /\ i = 0 => m = Player
      /\ i > 0 => m = b
  <2>1. i = 0 => back = Player
    BY <1>3 DEF BackTo
  <2> HIDE DEF k, back, b
  <2> QED
    BY <2>1, <1>3, <1>5, <1>7, <1>b DEF b
<1> HIDE DEF back, b, k, m
<1>10. CASE i = 0
  <2>1. n = Player
    BY <1>7, <1>8, <1>10
  <2> HIDE DEF n
  <2> QED
    BY <2>1, <1>0, <1>1, <1>2, EndsSound
<1>11. CASE i = 1
  <2>1. b.series = << >>
    <3>1. Len(b.series) = 0 /\ b.series \in Seq(Mark)
      BY <1>6, <1>c, <1>11
    <3> QED
      BY <3>1, EmptySeq
  <2>2. Whole(b)
    BY <2>1, <1>6 DEF Whole
  <2>3. n = b
    BY <1>7, <1>8, <1>11
  <2> HIDE DEF n
  <2> QED
    BY <2>2, <2>3, <1>0, <1>1, <1>2, <1>6, EndsSound
<1>12. CASE i = 2 \/ i = 3
  <2> DEFINE o == _play_file(b, fs)
             w == _play_file(o, fs)
  <2>1. Sound(o, fs) /\ Whole(o)
    BY <1>2, <1>6, <1>12, PlaysWhole
  <2>2. n = o \/ n = w
    BY <1>7, <1>8, <1>12
  <2> HIDE DEF o, n
  <2>3. Sound(w, fs) /\ Whole(w)
    BY <1>2, <2>1, PlaysWhole
  <2> HIDE DEF w
  <2> QED
    BY <2>1, <2>2, <2>3, <1>0, <1>1, <1>2, EndsSound
<1> QED
  BY <1>c, <1>10, <1>11, <1>12

LEMMA Backspace_Sound == ASSUME IInv, Backspace PROVE IInv'
<1> DEFINE e == _list_empty_out(Player)
           b == _rewind_file_to(e, tcycle - Minute)
           c == _rewind_file(b, 1)
           o == _play_file(c, fs)
           w == _play_file(o, fs)
<1>0. /\ phase = "play" /\ fs' = fs /\ pause' = pause /\ until' = until /\ until \in Nat
      /\ tcycle - Minute \in Int /\ 1 \in Nat
  BY DEF Backspace, Idle, IInv, TypeOK
<1>1. Ends(w)
  BY DEF Backspace
<1>2. Ordered /\ fs \in Fs \cup {None}
  BY PlayerSound
<1>3. /\ Sound(e, fs) /\ Whole(e) /\ e.rows = NoRows /\ e.dead = FALSE
  BY <1>0, PlayerSound, Empties
<1> HIDE DEF e
<1>4. PICK i \in 0..Len(e.series) : /\ b = BackTo(e, i)
                                    /\ i = 0 => e.series = << >>
  BY <1>0, <1>3, RewindsTo DEF Sound
<1>5. /\ Sound(b, fs) /\ b.rows = NoRows /\ b.dead = FALSE
      /\ i = 0 => b = e
      /\ i > 0 => ~b.eof
  BY <1>2, <1>3, <1>4, GoesBack
<1>6. Whole(b) \/ ~b.eof
  BY <1>3, <1>4, <1>5
<1> HIDE DEF b
<1>7. PICK j \in 0..Len(b.series) : c = BackTo(b, j)
  BY <1>0, <1>5, Rewinds DEF Sound
<1>8. /\ Sound(c, fs) /\ c.dead = FALSE
      /\ j = 0 => c = b
      /\ j > 0 => ~c.eof
  BY <1>2, <1>5, <1>7, GoesBack
<1>9. Whole(c) \/ (~c.eof /\ ~c.dead)
  BY <1>5, <1>6, <1>7, <1>8
<1> HIDE DEF c
<1>10. Sound(o, fs) /\ Whole(o)
  BY <1>2, <1>8, <1>9, PlaysWhole
<1> HIDE DEF o
<1>11. Sound(w, fs) /\ Whole(w)
  BY <1>2, <1>10, PlaysWhole
<1> HIDE DEF w
<1> QED
  BY <1>0, <1>1, <1>2, <1>11, EndsSound

(* TAB and the pause key change nothing the invariant speaks of.           *)
LEMMA SamePlayer ==
  ASSUME IInv, UNCHANGED <<phase, recording, file, player, fs>>,
         pause' \in BOOLEAN, until' \in Nat
  PROVE  IInv'
<1>1. /\ phase' = phase /\ now' = now /\ heard' = heard /\ recf' = recf /\ file' = file
      /\ pos' = pos /\ eof' = eof /\ series' = series /\ rows' = rows
      /\ tcycle' = tcycle /\ sample_period' = sample_period /\ fs' = fs
  BY DEF recording, player
<1>2. TypeOK'
  BY <1>1 DEF IInv, TypeOK
<1>3. FileOrdered' /\ SeriesSound' /\ MarksBehind'
  BY <1>1 DEF IInv, FileOrdered, SeriesSound, MarksBehind
<1>4. NotStarted' /\ NoFuture' /\ RowsBehind' /\ BetweenBatches' /\ BatchShown'
  BY <1>1 DEF IInv, NotStarted, NoFuture, RowsBehind, BetweenBatches, BatchShown, NoRows
<1> QED
  BY <1>2, <1>3, <1>4 DEF IInv

LEMMA Tab_Sound == ASSUME IInv, Tab PROVE IInv'
<1>1. UNCHANGED <<phase, recording, file, player, fs>> /\ pause' \in BOOLEAN /\ until' \in Nat
  BY DEF Tab, IInv, TypeOK
<1> QED
  BY <1>1, SamePlayer

LEMMA Pause_Sound == ASSUME IInv, Pause PROVE IInv'
<1>1. UNCHANGED <<phase, recording, file, player, fs>> /\ pause' \in BOOLEAN /\ until' \in Nat
  BY DEF Pause, IInv, TypeOK
<1> QED
  BY <1>1, SamePlayer

LEMMA ChooseFs_Sound == ASSUME IInv, ChooseFs PROVE IInv'
<1> DEFINE m == Peeked(Player)
<1>0. /\ phase = "play" /\ pause' = pause /\ until' = until /\ until \in Nat
      /\ file \in Seq(Record)
  BY DEF ChooseFs, Idle, IInv, TypeOK
<1>1. Ordered /\ fs \in Fs \cup {None} /\ Player.pos = pos /\ pos \in 0..Len(file)
  BY PlayerSound DEF IInv, TypeOK
<1>2. Sound(m, fs) /\ Whole(m)
  BY <1>0, PlayerSound, Peeks
<1>3. FsIn(Player) \subseteq Fs
  <2> SUFFICES ASSUME NEW f \in FsIn(Player) PROVE f \in Fs
    OBVIOUS
  <2>1. pos # Len(file)
    BY <1>1 DEF FsIn
  <2>2. BatchEnd(pos) \in (pos + 1)..Len(file)
    BY <2>1, <1>1, BatchEnds
  <2>3. PICK k \in (pos + 1)..BatchEnd(pos) : f = FsOf[file[k].target]
    BY <2>1, <1>1 DEF FsIn
  <2>4. k \in 1..Len(file)
    BY <2>2, <1>1
  <2> QED
    BY <2>3, <2>4, <1>0, RecordAt
<1>4. CASE Ends(m) /\ UNCHANGED fs
  <2> HIDE DEF m
  <2> QED
    BY <1>0, <1>1, <1>2, <1>4, EndsSound
<1>5. ASSUME NEW f \in FsIn(Player) \ {fs}, fs' = f,
             Ends(IF pause THEN _list_empty_out(m) ELSE _play_file(_list_empty_out(m), f))
      PROVE  IInv'
  <2> DEFINE e == _list_empty_out(m)
             n == _play_file(e, f)
  <2> HIDE DEF m
  <2>1. f \in Fs \cup {None} /\ pause \in BOOLEAN
    BY <1>3 DEF IInv, TypeOK
  <2>2. Sound(e, f) /\ Whole(e)
    BY <1>2, Empties
  <2> HIDE DEF e
  <2>3. Sound(n, f) /\ Whole(n)
    BY <1>1, <2>2, PlaysWhole
  <2>4. Ends(e) \/ Ends(n)
    BY <1>5, <2>1 DEF e
  <2> HIDE DEF n
  <2> QED
    BY <1>0, <1>5, <2>1, <2>2, <2>3, <2>4, EndsSound
<1> QED
  BY <1>4, <1>5 DEF ChooseFs

-------------------------------------------------------------------------------
(* Theorems.                                                               *)

LEMMA InitSound == Init => IInv
<1> SUFFICES ASSUME Init PROVE IInv
  OBVIOUS
<1>0. /\ phase = "record" /\ now = Interval /\ heard = NoRows /\ recf = TRUE
      /\ file = << >> /\ pos = 0 /\ eof = FALSE /\ series = << >> /\ rows = NoRows
      /\ tcycle = 0 /\ sample_period = 2 /\ fs = None /\ pause = FALSE /\ until = 0
      /\ NoRows \in [Target -> Nat] /\ 1..0 = {} /\ Len(<< >>) = 0
  BY DEF Init, NoRows
<1>1. TypeOK
  <2>1. file \in Seq(Record) /\ series \in Seq(Mark)
    BY <1>0, EmptySeq
  <2>2. Len(file) = 0
    BY <1>0
  <2>3. pos \in 0..Len(file) /\ 2 \in Nat \ {0}
    BY <2>2, <1>0
  <2> QED
    BY <2>1, <2>3, <1>0 DEF TypeOK
<1>2. FileOrdered
  BY <1>0 DEF FileOrdered, NoRows
<1>3. NotStarted /\ SeriesSound /\ MarksBehind
  BY <1>0 DEF NotStarted, SeriesSound, MarksBehind
<1>4. NoFuture /\ RowsBehind /\ BetweenBatches /\ BatchShown
  BY <1>0 DEF NoFuture, RowsBehind, BetweenBatches, BatchShown, NoRows
<1> QED
  BY <1>1, <1>2, <1>3, <1>4 DEF IInv

LEMMA StepSound == IInv /\ [Next]_vars => IInv'
<1> SUFFICES ASSUME IInv, [Next]_vars PROVE IInv'
  OBVIOUS
<1>1. CASE UNCHANGED vars
  <2>1. UNCHANGED <<phase, recording, file, player, fs>> /\ pause' \in BOOLEAN /\ until' \in Nat
    BY <1>1 DEF vars, IInv, TypeOK
  <2> QED
    BY <2>1, SamePlayer
<1>2. CASE Recording
  BY <1>2, Tick_Sound, Poll_Sound, ToggleRecord_Sound, Report_Sound DEF Recording
<1>3. CASE Key
  BY <1>3, Right_Sound, Left_Sound, Backspace_Sound, Tab_Sound, Pause_Sound,
     ChooseFs_Sound DEF Key
<1> QED
  BY <1>1, <1>2, <1>3, Start_Sound, Sample_Sound, TabStep_Sound DEF Next

(* Every reachable state satisfies IInv: whatever was recorded, however    *)
(* often the recording was restarted, and whatever keys are pressed.       *)
THEOREM Inductive == Spec => []IInv
BY InitSound, StepSound, PTL DEF Spec

(* The position stays within the file, and the sample period _play_file    *)
(* takes from the distance of two batches is never 0.                      *)
THEOREM TypeCorrect == Spec => []TypeOK
<1>1. IInv => TypeOK
  BY DEF IInv
<1> QED
  BY <1>1, Inductive, PTL

(* time_series always leads back through the file, in order.               *)
THEOREM MarksSound == Spec => []SeriesSound
<1>1. IInv => SeriesSound
  BY DEF IInv
<1> QED
  BY <1>1, Inductive, PTL

(* No row shows what the live ltop did not have at the time displayed, and *)
(* no row is of another file system than the one displayed.                *)
THEOREM NothingFromFuture == Spec => []NoFuture
<1>1. IInv => NoFuture
  BY DEF IInv
<1> QED
  BY <1>1, Inductive, PTL

(* No key, sample or menu stops playback within a batch, but for a rewind  *)
(* that runs out of marks and leaves nothing on screen.                    *)
THEOREM StopsBetweenBatches == Spec => []BetweenBatches
<1>1. IInv => BetweenBatches
  BY DEF IInv
<1> QED
  BY <1>1, Inductive, PTL

(* What is on screen is everything recorded of the file system at the time *)
(* displayed, from the mark of its batch on: whatever keys were pressed, a *)
(* batch is cut only in front of its mark.                                 *)
THEOREM ShownFromMark == Spec => []BatchShown
<1>1. IInv => BatchShown
  BY DEF IInv
<1> QED
  BY <1>1, Inductive, PTL
===============================================================================
