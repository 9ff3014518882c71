---------------------------- MODULE LmtInitProofs ----------------------------
(***************************************************************************)
(* Theorems about LmtInit, for any number of administrators, file systems, *)
(* commands and faults.                                                    *)
(***************************************************************************)
EXTENDS LmtInit, SequenceTheorems, TLAPS

AddJob == [cmd : {"add"}, fs : Fs, pc : {"create", "use", "schema", "row"},
           done : 0 .. Schema]
UpdateJob == [cmd : {"update"}, fs : Fs, chosen : BOOLEAN, pc : {"check", "insert"},
              todo : Seq(Op) \ {<<>>}]
Database == [gen : Nat, made : SUBSET (1 .. Tables), ops : SUBSET Op, late : SUBSET Op,
                  fsrow : BOOLEAN]

LEMMA SchemaNat == Schema \in Nat /\ Schema >= Tables /\ Tables = 2
  /\ \A k \in Nat : k > Tables /\ k <= Schema => SchemaOps[k - Tables] \in Op
BY LmtInitAssumption DEF Schema, Tables

\* The three kinds of jobs are told apart by cmd.
LEMMA Kinds ==
  ASSUME NEW j \in Job
  PROVE  /\ j.cmd = "add" => j \in AddJob
         /\ j.cmd = "update" => j \in UpdateJob
BY DEF Job, Idle, AddJob, UpdateJob

LEMMA GoesType ==
  ASSUME TypeOK, NEW a \in Admin, NEW j \in Job, Goes(a, j)
  PROVE  job' \in [Admin -> Job]
BY DEF TypeOK, Goes

LEMMA ExitsType ==
  ASSUME TypeOK, NEW a \in Admin, Exits(a)
  PROVE  job' \in [Admin -> Job]
<1>1. Idle \in Job
  BY DEF Job
<1> QED BY <1>1, GoesType DEF Exits

\* A job that ends, or that goes on within the schema, keeps SchemaAhead.
LEMMA ExitsAhead ==
  ASSUME IInv, NEW a \in Admin, Exits(a)
  PROVE  SchemaAhead'
<1>1. job \in [Admin -> Job]
  BY DEF IInv, TypeOK
<1>2. job' = [job EXCEPT ![a] = Idle]
  BY DEF Exits, Goes
<1> SUFFICES ASSUME NEW b \in Admin, job'[b].cmd = "add", job'[b].pc # "row"
             PROVE  job'[b].done < Schema
  BY DEF SchemaAhead
<1>3. b # a
  BY <1>1, <1>2 DEF Idle
<1>4. job'[b] = job[b]
  BY <1>1, <1>2, <1>3
<1> QED BY <1>4 DEF IInv, SchemaAhead

LEMMA GoesAhead ==
  ASSUME IInv, NEW a \in Admin, NEW j, Goes(a, j),
         j.cmd = "add" /\ j.pc # "row" => j.done < Schema
  PROVE  SchemaAhead'
<1>1. job \in [Admin -> Job] /\ job' = [job EXCEPT ![a] = j]
  BY DEF IInv, TypeOK, Goes
<1> SUFFICES ASSUME NEW b \in Admin, job'[b].cmd = "add", job'[b].pc # "row"
             PROVE  job'[b].done < Schema
  BY DEF SchemaAhead
<1>2. CASE b = a
  BY <1>1, <1>2
<1>3. CASE b # a
  <2>1. job'[b] = job[b]
    BY <1>1, <1>3
  <2> QED BY <2>1 DEF IInv, SchemaAhead
<1> QED BY <1>2, <1>3

\* What a statement on an existing database may do: tables and operations only
\* grow, the generation stays.
Grows(d, e) == e.gen = d.gen /\ (Tables \in d.made => Tables \in e.made) /\ d.ops \subseteq e.ops

LEMMA GrowthIInv ==
  ASSUME IInv, NEW g \in Fs, NEW e \in Database,
         db' = [db EXCEPT ![g] = e], Grows(db[g], e),
         UNCHANGED <<created, handles>>
  PROVE  /\ db' \in [Fs -> Database] /\ HandlesUsable' /\ GenerationsOld'
<1>1. db \in [Fs -> Database]
  BY DEF IInv, TypeOK, Database
<1>2. db' \in [Fs -> Database]
  BY <1>1
<1>3. ASSUME NEW f \in Fs PROVE Grows(db[f], db'[f])
  <2>1. CASE f = g
    BY <1>1, <2>1
  <2>2. CASE f # g
    <3>1. db'[f] = db[f]
      BY <1>1, <2>2
    <3> QED BY <3>1 DEF Grows
  <2> QED BY <2>1, <2>2
<1>4. HandlesUsable'
  <2> SUFFICES ASSUME NEW f \in Fs, handles[f].gen # 0, handles[f].gen = db'[f].gen
               PROVE  Tables \in db'[f].made /\ handles[f].ops \subseteq db'[f].ops
    BY DEF HandlesUsable
  <2>1. Grows(db[f], db'[f])
    BY <1>3
  <2>2. Tables \in db[f].made /\ handles[f].ops \subseteq db[f].ops
    BY <2>1 DEF IInv, HandlesUsable, Grows
  <2> QED BY <2>1, <2>2 DEF Grows
<1>5. GenerationsOld'
  <2> SUFFICES ASSUME NEW f \in Fs PROVE db'[f].gen <= created /\ handles[f].gen <= created
    BY DEF GenerationsOld
  <2>1. db'[f].gen = db[f].gen
    BY <1>3 DEF Grows
  <2> QED BY <2>1 DEF IInv, GenerationsOld
<1> QED BY <1>2, <1>4, <1>5

\* Steps that leave the databases and the handles alone.
LEMMA SameServer ==
  ASSUME IInv, UNCHANGED <<db, created, handles>>
  PROVE  HandlesUsable' /\ GenerationsOld'
BY DEF IInv, HandlesUsable, GenerationsOld

\* Closing all handles is always safe.
LEMMA NoHandlesIInv ==
  ASSUME IInv, UNCHANGED <<db, created>>, handles' = NoHandles
  PROVE  /\ handles' \in [Fs -> [gen : Nat, ops : SUBSET Op]]
         /\ HandlesUsable' /\ GenerationsOld'
<1>1. \A f \in Fs : handles'[f].gen = 0
  BY DEF NoHandles
<1>2. handles' \in [Fs -> [gen : Nat, ops : SUBSET Op]]
  BY DEF NoHandles
<1>3. HandlesUsable'
  BY <1>1 DEF HandlesUsable
<1>4. GenerationsOld'
  BY <1>1 DEF IInv, TypeOK, GenerationsOld
<1> QED BY <1>2, <1>3, <1>4

LEMMA InitIInv == Init => IInv
<1> SUFFICES ASSUME Init PROVE IInv
  OBVIOUS
<1>1. PICK old \in SUBSET Fs : db = [f \in Fs |-> IF f \in old
          THEN [NoDb EXCEPT !.gen = 1, !.made = 1 .. Tables, !.ops = OldOps, !.fsrow = TRUE]
          ELSE NoDb]
  BY DEF Init
<1>2. db \in [Fs -> [gen : Nat, made : SUBSET (1 .. Tables), ops : SUBSET Op, late : SUBSET Op,
                  fsrow : BOOLEAN]]
  BY <1>1, LmtInitAssumption DEF NoDb, Tables
<1>3. ASSUME NEW f \in Fs PROVE db[f].gen \in {0, 1} /\ handles[f].gen = 0
  <2>1. db[f].gen \in {0, 1}
    <3>1. CASE f \in old
      BY <1>1, <3>1 DEF NoDb
    <3>2. CASE f \notin old
      BY <1>1, <3>2 DEF NoDb
    <3> QED BY <3>1, <3>2
  <2>2. handles[f].gen = 0
    BY DEF Init, NoHandles
  <2> QED BY <2>1, <2>2
<1>4. handles \in [Fs -> [gen : Nat, ops : SUBSET Op]]
  BY DEF Init, NoHandles
<1>5. job \in [Admin -> Job]
  BY DEF Init, Job
<1>6. added \in [Fs -> Nat] /\ updated \in [Fs -> Nat]
  BY DEF Init
<1>7. TypeOK
  BY <1>2, <1>4, <1>5, <1>6 DEF TypeOK, Init
<1>8. HandlesUsable
  BY <1>3 DEF HandlesUsable
<1>9. GenerationsOld
  <2> SUFFICES ASSUME NEW f \in Fs PROVE db[f].gen <= created /\ handles[f].gen <= created
    BY DEF GenerationsOld
  <2>1. created = 1
    BY DEF Init
  <2>2. CASE db[f].gen = 0
    BY <1>3, <2>1, <2>2
  <2>3. CASE db[f].gen = 1
    BY <1>3, <2>1, <2>3
  <2> QED BY <1>3, <2>2, <2>3
<1>10. SchemaAhead
  BY DEF SchemaAhead, Init, Idle
<1> QED BY <1>7, <1>8, <1>9, <1>10 DEF IInv

-----------------------------------------------------------------------------
(* lmtinit.                                                                *)

Types == job' \in [Admin -> Job] /\ added' \in [Fs -> Nat] /\ updated' \in [Fs -> Nat]
         /\ commands' \in Nat /\ faults' \in Nat

\* With the types of the job and of the counters, a step of lmtinit that keeps
\* the three facts about databases and handles keeps the invariant.
LEMMA AdminIInv ==
  ASSUME IInv, UNCHANGED monitor, Types, created' \in Nat,
         db' \in [Fs -> Database], HandlesUsable', GenerationsOld', SchemaAhead'
  PROVE  IInv'
BY DEF IInv, TypeOK, Types, monitor, Database

LEMMA SameIInv ==
  ASSUME IInv, UNCHANGED <<monitor, db, created>>, Types, SchemaAhead'
  PROVE  IInv'
<1>1. HandlesUsable' /\ GenerationsOld'
  BY SameServer DEF monitor
<1>2. db' \in [Fs -> Database] /\ created' \in Nat
  BY DEF IInv, TypeOK, Database
<1> QED BY <1>1, <1>2, AdminIInv

LEMMA CommandTypes ==
  ASSUME IInv, NEW a \in Admin, Command(a)
  PROVE  /\ commands' \in Nat /\ faults' \in Nat /\ added' \in [Fs -> Nat]
         /\ UNCHANGED <<monitor, handles>>
BY DEF IInv, TypeOK, Command, monitor

LEMMA StepTypes ==
  ASSUME IInv, Step
  PROVE  /\ commands' \in Nat /\ faults' \in Nat /\ updated' \in [Fs -> Nat]
         /\ UNCHANGED <<monitor, handles>>
BY DEF IInv, TypeOK, Step, monitor

LEMMA FaultType == ASSUME IInv, Fault PROVE faults' \in Nat
BY DEF IInv, TypeOK, Fault

LEMMA AddJobs ==
  ASSUME IInv, NEW a \in Admin, job[a].cmd = "add"
  PROVE  job[a] \in AddJob /\ job[a].fs \in Fs /\ job[a].done \in 0 .. Schema
<1>1. job[a] \in Job
  BY DEF IInv, TypeOK
<1>2. job[a] \in AddJob
  BY <1>1, Kinds
<1> QED BY <1>2 DEF AddJob

LEMMA UpdateJobs ==
  ASSUME IInv, NEW a \in Admin, job[a].cmd = "update"
  PROVE  /\ job[a] \in UpdateJob /\ job[a].fs \in Fs
         /\ job[a].todo \in Seq(Op) /\ job[a].todo # <<>>
<1>1. job[a] \in Job
  BY DEF IInv, TypeOK
<1>2. job[a] \in UpdateJob
  BY <1>1, Kinds
<1> QED BY <1>2 DEF UpdateJob

LEMMA StartAddIInv ==
  ASSUME IInv, NEW a \in Admin, NEW f \in Fs, StartAdd(a, f)
  PROVE  IInv'
<1> DEFINE j == [cmd |-> "add", fs |-> f, pc |-> "create", done |-> 0]
<1>1. Command(a) /\ Goes(a, j) /\ UNCHANGED <<db, created, updated>>
  BY DEF StartAdd, server
<1>2. j \in Job /\ j.done < Schema
  BY SchemaNat DEF Job
<1> HIDE DEF j
<1>3. job' \in [Admin -> Job]
  BY <1>1, <1>2, GoesType DEF IInv
<1>4. Types
  BY <1>1, <1>3, CommandTypes DEF Types, IInv, TypeOK
<1>5. SchemaAhead'
  BY <1>1, <1>2, GoesAhead
<1>6. UNCHANGED monitor
  BY <1>1, CommandTypes
<1> QED BY <1>1, <1>4, <1>5, <1>6, SameIInv

LEMMA FreshDb ==
  ASSUME NEW n \in Nat
  PROVE  [NoDb EXCEPT !.gen = n] \in Database /\ [NoDb EXCEPT !.gen = n].gen = n
<1>1. NoDb \in Database
  BY DEF NoDb, Database, Tables
<1> QED BY <1>1 DEF Database

LEMMA CreateDbIInv ==
  ASSUME IInv, NEW a \in Admin, CreateDb(a)
  PROVE  IInv'
<1> DEFINE f == job[a].fs
           j == [job[a] EXCEPT !.pc = "use"]
<1>1. job[a].cmd = "add" /\ job[a].pc = "create" /\ Step /\ UNCHANGED added
  BY DEF CreateDb
<1>2. job[a] \in AddJob /\ f \in Fs
  BY <1>1, AddJobs
<1>3. added' \in [Fs -> Nat] /\ UNCHANGED <<monitor, handles>>
  BY <1>1, StepTypes DEF IInv, TypeOK
<1>4. CASE Exits(a) /\ UNCHANGED server
  <2>1. Types
    BY <1>1, <1>3, <1>4, StepTypes, ExitsType DEF Types, IInv
  <2> QED BY <1>3, <1>4, <2>1, ExitsAhead, SameIInv DEF server
<1>5. CASE /\ created' = created + 1
           /\ db' = [db EXCEPT ![f] = [NoDb EXCEPT !.gen = created']]
           /\ Goes(a, j)
  <2>1. j \in Job /\ (j.cmd = "add" /\ j.pc # "row" => j.done < Schema)
    <3>1. j \in AddJob
      BY <1>2 DEF AddJob
    <3>2. job[a].done < Schema
      BY <1>1 DEF IInv, SchemaAhead
    <3>3. j.done = job[a].done
      BY <1>2 DEF AddJob
    <3> QED BY <3>1, <3>2, <3>3 DEF Job, AddJob
  <2> HIDE DEF j
  <2>2. Types
    BY <1>1, <1>3, <1>5, <2>1, StepTypes, GoesType DEF Types, IInv
  <2>3. SchemaAhead'
    BY <1>5, <2>1, GoesAhead
  <2> DEFINE e == [NoDb EXCEPT !.gen = created']
  <2>4. created \in Nat /\ created' \in Nat /\ db \in [Fs -> Database]
        /\ handles \in [Fs -> [gen : Nat, ops : SUBSET Op]]
    BY <1>5 DEF IInv, TypeOK, Database
  <2>5. e \in Database /\ e.gen = created + 1
    BY <1>5, <2>4, FreshDb
  <2> HIDE DEF e
  <2>6. db' \in [Fs -> Database]
    BY <1>2, <1>5, <2>4, <2>5 DEF e
  <2>7. ASSUME NEW g \in Fs
        PROVE  /\ db'[g].gen <= created' /\ handles'[g].gen <= created'
               /\ handles'[g].gen # 0 /\ handles'[g].gen = db'[g].gen =>
                    Tables \in db'[g].made /\ handles'[g].ops \subseteq db'[g].ops
    <3>1. db[g].gen \in Nat /\ handles[g].gen \in Nat /\ handles' = handles
          /\ db[g].gen <= created /\ handles[g].gen <= created
      BY <1>3, <2>4 DEF Database, IInv, GenerationsOld
    <3>2. CASE g = f
      <4>1. db'[g].gen = created + 1
        BY <1>2, <1>5, <2>4, <2>5, <3>2 DEF e
      <4> QED BY <1>5, <2>4, <3>1, <4>1
    <3>3. CASE g # f
      <4>1. db'[g] = db[g]
        BY <1>5, <2>4, <3>3
      <4>2. db[g].gen <= created' /\ handles[g].gen <= created'
        BY <1>5, <2>4, <3>1
      <4>3. handles[g].gen # 0 /\ handles[g].gen = db[g].gen =>
                    Tables \in db[g].made /\ handles[g].ops \subseteq db[g].ops
        BY DEF IInv, HandlesUsable
      <4> QED BY <3>1, <4>1, <4>2, <4>3
    <3> QED BY <3>2, <3>3
  <2>8. HandlesUsable' /\ GenerationsOld'
    BY <2>7 DEF HandlesUsable, GenerationsOld
  <2> QED BY <1>3, <2>2, <2>3, <2>4, <2>6, <2>8, AdminIInv
<1> QED BY <1>4, <1>5 DEF CreateDb

LEMMA UseDbIInv ==
  ASSUME IInv, NEW a \in Admin, UseDb(a)
  PROVE  IInv'
<1> DEFINE j == [job[a] EXCEPT !.pc = "schema"]
<1>1. /\ job[a].cmd = "add" /\ job[a].pc = "use" /\ Step
      /\ UNCHANGED <<db, created, added>>
      /\ Exits(a) \/ Goes(a, j)
  BY DEF UseDb, server
<1>2. job[a] \in AddJob /\ job[a].fs \in Fs
  BY <1>1, AddJobs
<1>3. added' \in [Fs -> Nat] /\ UNCHANGED monitor
  BY <1>1, StepTypes DEF IInv, TypeOK
<1>4. CASE Exits(a)
  <2>1. Types
    BY <1>1, <1>3, <1>4, StepTypes, ExitsType DEF Types, IInv
  <2> QED BY <1>1, <1>3, <1>4, <2>1, ExitsAhead, SameIInv
<1>5. CASE Goes(a, j)
  <2>2. j \in AddJob /\ j.done = job[a].done
    BY <1>2 DEF AddJob
  <2>3. j \in Job /\ (j.cmd = "add" /\ j.pc # "row" => j.done < Schema)
    BY <1>1, <2>2 DEF Job, AddJob, IInv, SchemaAhead
  <2> HIDE DEF j
  <2>4. Types
    BY <1>1, <1>3, <1>5, <2>3, StepTypes, GoesType DEF Types, IInv
  <2> QED BY <1>1, <1>3, <1>5, <2>3, <2>4, GoesAhead, SameIInv
<1> QED BY <1>1, <1>4, <1>5

LEMMA ExecutedGrows ==
  ASSUME NEW d \in Database, NEW k \in 1 .. Schema, CanExecute(d, k)
  PROVE  Executed(d, k) \in Database /\ Grows(d, Executed(d, k))
<1>1. Schema \in Nat /\ Tables = 2 /\ k \in Nat /\ k >= 1 /\ k <= Schema
  BY SchemaNat DEF Database
<1>2. CASE k <= Tables
  <2>1. Executed(d, k) = [d EXCEPT !.made = @ \cup {k}]
    BY <1>2 DEF Executed
  <2>2. k \in 1 .. Tables
    BY <1>1, <1>2
  <2> QED BY <2>1, <2>2 DEF Database, Grows
<1>3. CASE ~(k <= Tables)
  <2> DEFINE o == SchemaOps[k - Tables]
  <2>1. Executed(d, k) = [d EXCEPT !.ops = @ \cup {o}]
    BY <1>3 DEF Executed
  <2>2. o \in Op
    BY <1>1, <1>3, SchemaNat
  <2> HIDE DEF o
  <2> QED BY <2>1, <2>2 DEF Database, Grows
<1> QED BY <1>2, <1>3

LEMMA SchemaStatementIInv ==
  ASSUME IInv, NEW a \in Admin, SchemaStatement(a)
  PROVE  IInv'
<1> DEFINE j == job[a]
           k == j.done + 1
           f == j.fs
           ok == Selected(j) /\ CanExecute(db[f], k)
           go == [j EXCEPT !.done = k, !.pc = IF k = Schema THEN "row" ELSE "schema"]
           row == [j EXCEPT !.pc = "row"]
<1>1. j.cmd = "add" /\ j.pc = "schema"
      /\ UNCHANGED <<created, commands, added, updated, monitor>>
  BY DEF SchemaStatement
<1>2. j \in AddJob /\ f \in Fs /\ j.done \in 0 .. Schema /\ Schema \in Nat
  BY <1>1, AddJobs, SchemaNat
<1>3. k \in 1 .. Schema /\ k \in 0 .. Schema
  <2>1. j.done < Schema
    BY <1>1 DEF IInv, SchemaAhead
  <2> QED BY <1>2, <2>1
<1>4. db[f] \in Database /\ UNCHANGED handles
  BY <1>1, <1>2 DEF IInv, TypeOK, Database, monitor
<1>5. CASE ok /\ db' = [db EXCEPT ![f] = Executed(db[f], k)] /\ Goes(a, go) /\ UNCHANGED faults
  <2>1. Executed(db[f], k) \in Database /\ Grows(db[f], Executed(db[f], k))
    BY <1>3, <1>4, <1>5, ExecutedGrows
  <2>2. db' \in [Fs -> Database] /\ HandlesUsable' /\ GenerationsOld'
    <3> DEFINE e == Executed(db[f], k)
    <3>1. e \in Database /\ Grows(db[f], e) /\ db' = [db EXCEPT ![f] = e]
      BY <1>5, <2>1
    <3> HIDE DEF e, f
    <3> QED BY <1>1, <1>2, <1>4, <3>1, GrowthIInv
  <2>3. go \in AddJob /\ go.done = k /\ (go.pc # "row" => k # Schema)
    BY <1>2, <1>3 DEF AddJob
  <2>4. go \in Job /\ (go.cmd = "add" /\ go.pc # "row" => go.done < Schema)
    BY <1>2, <1>3, <2>3 DEF Job, AddJob
  <2> HIDE DEF go
  <2>5. Types
    BY <1>1, <1>5, <2>4, GoesType DEF Types, IInv, TypeOK
  <2>6. SchemaAhead'
    BY <1>5, <2>4, GoesAhead
  <2>7. created' \in Nat
    BY <1>1 DEF IInv, TypeOK
  <2> QED BY <1>1, <2>2, <2>5, <2>6, <2>7, AdminIInv
<1>6. CASE UNCHANGED db /\ faults' \in Nat /\ Exits(a)
  <2>1. Types
    BY <1>1, <1>6, ExitsType DEF Types, IInv, TypeOK
  <2> QED BY <1>1, <1>6, <2>1, ExitsAhead, SameIInv
<1>7. CASE UNCHANGED db /\ faults' \in Nat /\ Goes(a, row)
  <2>1. row \in AddJob /\ row.pc = "row"
    BY <1>2 DEF AddJob
  <2>2. row \in Job
    BY <2>1 DEF Job, AddJob
  <2> HIDE DEF row
  <2>3. Types
    BY <1>1, <1>7, <2>2, GoesType DEF Types, IInv, TypeOK
  <2>4. SchemaAhead'
    BY <1>7, <2>1, GoesAhead
  <2> QED BY <1>1, <1>7, <2>3, <2>4, SameIInv
<1>8. \/ ok /\ db' = [db EXCEPT ![f] = Executed(@, k)] /\ Goes(a, go) /\ UNCHANGED faults
      \/ UNCHANGED db /\ faults' \in Nat /\ (Exits(a) \/ Goes(a, row))
  <2>1. UNCHANGED faults \/ Fault => faults' \in Nat
    BY FaultType DEF IInv, TypeOK
  <2> QED BY <2>1, Zenon DEF SchemaStatement
<1> QED BY <1>5, <1>6, <1>7, <1>8

LEMMA InsertFsRowIInv ==
  ASSUME IInv, NEW a \in Admin, InsertFsRow(a)
  PROVE  IInv'
<1> DEFINE f == job[a].fs
           e == [db[f] EXCEPT !.fsrow = TRUE]
<1>1. job[a].cmd = "add" /\ Exits(a) /\ Step /\ UNCHANGED created
  BY DEF InsertFsRow
<1>2. f \in Fs /\ db[f].gen \in Nat /\ db[f] \in Database /\ UNCHANGED <<monitor, handles>>
  BY <1>1, AddJobs, StepTypes DEF IInv, TypeOK, Database
<1>3. \/ db' = [db EXCEPT ![f] = e] /\ added' = [added EXCEPT ![f] = db[f].gen]
      \/ UNCHANGED <<db, added>>
  BY <1>2 DEF InsertFsRow
<1>4. added' \in [Fs -> Nat]
  BY <1>2, <1>3 DEF IInv, TypeOK
<1>5. Types
  BY <1>1, <1>4, StepTypes, ExitsType DEF Types, IInv
<1>6. SchemaAhead'
  BY <1>1, ExitsAhead
<1>7. CASE UNCHANGED db
  BY <1>1, <1>2, <1>5, <1>6, <1>7, SameIInv
<1>8. CASE db' = [db EXCEPT ![f] = e]
  <2>1. e \in Database /\ Grows(db[f], e)
    BY <1>2 DEF Database, Grows
  <2> HIDE DEF e, f
  <2>2. db' \in [Fs -> Database] /\ HandlesUsable' /\ GenerationsOld'
    BY <1>1, <1>2, <1>8, <2>1, GrowthIInv
  <2>3. created' \in Nat
    BY <1>1 DEF IInv, TypeOK
  <2> QED BY <1>2, <1>5, <1>6, <2>2, <2>3, AdminIInv
<1> QED BY <1>3, <1>7, <1>8

LEMMA DropIInv ==
  ASSUME IInv, NEW a \in Admin, NEW f \in Fs, lmt_db_drop(a, f)
  PROVE  IInv'
<1>1. Command(a) /\ db' = [db EXCEPT ![f] = NoDb] /\ UNCHANGED <<created, job, updated>>
  BY DEF lmt_db_drop
<1>2. UNCHANGED <<monitor, handles>>
  BY <1>1, CommandTypes
<1>3. Types
  BY <1>1, CommandTypes DEF Types, IInv, TypeOK
<1>4. NoDb \in Database /\ NoDb.gen = 0
  BY DEF NoDb, Database, Tables
<1>5. db \in [Fs -> Database] /\ created \in Nat
  BY DEF IInv, TypeOK, Database
<1>6. db' \in [Fs -> Database]
  BY <1>1, <1>4, <1>5
<1>7. ASSUME NEW g \in Fs PROVE db'[g] = db[g] \/ db'[g].gen = 0
  BY <1>1, <1>4, <1>5
<1>8. HandlesUsable'
  <2> SUFFICES ASSUME NEW g \in Fs, handles[g].gen # 0, handles[g].gen = db'[g].gen
               PROVE  Tables \in db'[g].made /\ handles[g].ops \subseteq db'[g].ops
    BY <1>2 DEF HandlesUsable
  <2>1. db'[g] = db[g]
    BY <1>7
  <2> QED BY <2>1 DEF IInv, HandlesUsable
<1>9. GenerationsOld'
  <2> SUFFICES ASSUME NEW g \in Fs PROVE db'[g].gen <= created /\ handles[g].gen <= created
    BY <1>1, <1>2 DEF GenerationsOld
  <2>1. db[g].gen <= created /\ handles[g].gen <= created
    BY DEF IInv, GenerationsOld
  <2>2. CASE db'[g] = db[g]
    BY <2>1, <2>2
  <2>3. CASE db'[g].gen = 0
    BY <1>5, <2>1, <2>3
  <2> QED BY <1>7, <2>2, <2>3
<1>10. SchemaAhead' /\ created' \in Nat
  BY <1>1, <1>5 DEF IInv, SchemaAhead
<1> QED BY <1>2, <1>3, <1>6, <1>8, <1>9, <1>10, AdminIInv

LEMMA UpdateOpsIInv ==
  ASSUME IInv, NEW a \in Admin, NEW f \in Fs, lmt_db_update_ops(a, f)
  PROVE  IInv'
<1> DEFINE j == [cmd |-> "update", fs |-> f, chosen |-> Exists(f), pc |-> "check",
                todo |-> AllOps]
<1>1. Command(a) /\ Goes(a, j) /\ UNCHANGED <<db, created>>
  BY DEF lmt_db_update_ops, server
<1>2. db[f].gen \in Nat
  BY DEF IInv, TypeOK
<1>3. j \in Job /\ j.cmd # "add"
  BY LmtInitAssumption DEF Job, Exists
<1> HIDE DEF j
<1>4. updated' \in [Fs -> Nat]
  BY <1>2 DEF lmt_db_update_ops, IInv, TypeOK
<1>5. job' \in [Admin -> Job]
  BY <1>1, <1>3, GoesType DEF IInv
<1>6. Types
  BY <1>1, <1>4, <1>5, CommandTypes DEF Types
<1>7. SchemaAhead'
  BY <1>1, <1>3, GoesAhead
<1>8. UNCHANGED monitor
  BY <1>1, CommandTypes
<1> QED BY <1>1, <1>6, <1>7, <1>8, SameIInv

\* The loop of lmt_db_update_ops stays within the names it has left.
LEMMA NextOpType ==
  ASSUME IInv, NEW a \in Admin, job[a].cmd = "update", NextOp(a)
  PROVE  job' \in [Admin -> Job] /\ SchemaAhead'
<1> DEFINE j == [job[a] EXCEPT !.todo = Tail(@), !.pc = "check"]
<1>1. /\ job[a] \in UpdateJob /\ job[a].todo \in Seq(Op) /\ job[a].todo # <<>>
  BY UpdateJobs
<1>2. CASE Len(job[a].todo) = 1
  <2>1. Exits(a)
    BY <1>2 DEF NextOp
  <2> QED BY <2>1, ExitsType, ExitsAhead DEF IInv
<1>3. CASE Len(job[a].todo) # 1
  <2>1. Goes(a, j)
    BY <1>3 DEF NextOp
  <2>2. Tail(job[a].todo) \in Seq(Op) \ {<<>>}
    <3> DEFINE t == job[a].todo
    <3>1. t \in Seq(Op) /\ t # <<>> /\ Len(t) # 1
      BY <1>1, <1>3
    <3> HIDE DEF t
    <3>2. Tail(t) \in Seq(Op) /\ Len(Tail(t)) = Len(t) - 1
      BY <3>1, HeadTailProperties
    <3>3. Len(Tail(t)) # 0
      BY <3>1, <3>2
    <3>4. Len(<<>>) = 0
      OBVIOUS
    <3>5. Tail(t) # <<>>
      BY <3>3, <3>4, Zenon
    <3> QED BY <3>2, <3>5 DEF t
  <2>3. j \in UpdateJob
    BY <1>1, <2>2 DEF UpdateJob
  <2>4. j \in Job /\ j.cmd # "add"
    BY <2>3 DEF Job, UpdateJob
  <2> HIDE DEF j
  <2> QED BY <2>1, <2>4, GoesType, GoesAhead DEF IInv
<1> QED BY <1>2, <1>3

LEMMA CheckOpIInv ==
  ASSUME IInv, NEW a \in Admin, CheckOp(a)
  PROVE  IInv'
<1> DEFINE j == [job[a] EXCEPT !.pc = "insert"]
<1>1. /\ job[a].cmd = "update" /\ Step /\ UNCHANGED <<db, created, added>>
      /\ Exits(a) \/ NextOp(a) \/ Goes(a, j)
  BY DEF CheckOp, server
<1>2. job' \in [Admin -> Job] /\ SchemaAhead'
  <2>1. CASE Exits(a)
    BY <2>1, ExitsType, ExitsAhead DEF IInv
  <2>2. CASE NextOp(a)
    BY <1>1, <2>2, NextOpType
  <2>3. CASE Goes(a, j)
    <3>1. job[a] \in UpdateJob
      BY <1>1, UpdateJobs
    <3>2. j \in UpdateJob
      BY <3>1 DEF UpdateJob
    <3>3. j \in Job /\ j.cmd # "add"
      BY <3>2 DEF Job, UpdateJob
    <3> HIDE DEF j
    <3> QED BY <2>3, <3>3, GoesType, GoesAhead DEF IInv
  <2> QED BY <1>1, <2>1, <2>2, <2>3
<1>3. Types
  BY <1>1, <1>2, StepTypes DEF Types, IInv, TypeOK
<1>4. UNCHANGED monitor
  BY <1>1, StepTypes
<1> QED BY <1>1, <1>2, <1>3, <1>4, SameIInv

LEMMA InsertOpIInv ==
  ASSUME IInv, NEW a \in Admin, InsertOp(a)
  PROVE  IInv'
<1> DEFINE f == job[a].fs
           o == Head(job[a].todo)
           e == [db[f] EXCEPT !.ops = @ \cup {o}]
<1>1. /\ job[a].cmd = "update" /\ Step /\ UNCHANGED <<created, added>>
  BY DEF InsertOp
<1>2. f \in Fs /\ job[a].todo \in Seq(Op) /\ job[a].todo # <<>>
  BY <1>1, UpdateJobs
<1>3. o \in Op /\ db[f] \in Database
  BY <1>2 DEF IInv, TypeOK, Database
<1>4. UNCHANGED <<monitor, handles>> /\ created' \in Nat
  BY <1>1, StepTypes DEF IInv, TypeOK
<1>5. \/ Exits(a) /\ UNCHANGED db
      \/ NextOp(a) /\ db' = [db EXCEPT ![f] = e]
  BY <1>2 DEF InsertOp
<1>6. job' \in [Admin -> Job] /\ SchemaAhead'
  BY <1>1, <1>5, ExitsType, ExitsAhead, NextOpType DEF IInv
<1>7. Types
  BY <1>1, <1>6, StepTypes DEF Types, IInv, TypeOK
<1>8. CASE UNCHANGED db
  BY <1>1, <1>4, <1>6, <1>7, <1>8, SameIInv
<1>9. CASE db' = [db EXCEPT ![f] = e]
  <2>1. e \in Database /\ Grows(db[f], e)
    <3> HIDE DEF o
    <3> QED BY <1>3 DEF Database, Grows
  <2> HIDE DEF e, f
  <2>2. db' \in [Fs -> Database] /\ HandlesUsable' /\ GenerationsOld'
    BY <1>1, <1>2, <1>4, <1>9, <2>1, GrowthIInv
  <2> QED BY <1>4, <1>6, <1>7, <2>2, AdminIInv
<1> QED BY <1>5, <1>8, <1>9

LEMMA InterruptedIInv ==
  ASSUME IInv, NEW a \in Admin, Interrupted(a)
  PROVE  IInv'
<1>1. Fault /\ Exits(a) /\ UNCHANGED <<db, created, commands, added, updated, monitor>>
  BY DEF Interrupted, server
<1>2. Types
  BY <1>1, FaultType, ExitsType DEF Types, IInv, TypeOK
<1> QED BY <1>1, <1>2, ExitsAhead, SameIInv

-----------------------------------------------------------------------------
(* The monitor.                                                            *)

LEMMA MonitorIInv ==
  ASSUME IInv, Quiet, faults' \in Nat,
         reconnect_needed' \in BOOLEAN, connecting' \in BOOLEAN, listing' \subseteq Fs,
         handles' \in [Fs -> [gen : Nat, ops : SUBSET Op]], HandlesUsable', GenerationsOld'
  PROVE  IInv'
<1>1. UNCHANGED <<db, created, job, commands, added, updated>>
  BY DEF Quiet, server, admins
<1>2. SchemaAhead'
  BY <1>1 DEF IInv, SchemaAhead
<1>3. TypeOK'
  BY <1>1 DEF IInv, TypeOK
<1> QED BY <1>2, <1>3 DEF IInv

LEMMA QuietServer == ASSUME Quiet PROVE UNCHANGED <<db, created>>
BY DEF Quiet, server

LEMMA CloseIInv ==
  ASSUME IInv, Quiet, faults' \in Nat, handles' = NoHandles,
         reconnect_needed' \in BOOLEAN, connecting' \in BOOLEAN, listing' \subseteq Fs
  PROVE  IInv'
BY QuietServer, NoHandlesIInv, MonitorIInv

LEMMA OpenIInv ==
  ASSUME IInv, NEW f \in Fs, lmt_db_create(f)
  PROVE  IInv'
<1> DEFINE h == [gen |-> db[f].gen, ops |-> db[f].ops]
<1>1. /\ CanOpen(f) /\ Quiet /\ UNCHANGED faults
      /\ handles' = [handles EXCEPT ![f] = h]
      /\ listing' = listing \ {f} /\ connecting' = (listing' # {})
      /\ reconnect_needed' = (listing' # {})
  BY DEF lmt_db_create
<1>2. /\ db[f].gen \in Nat /\ db[f].ops \subseteq Op /\ listing \subseteq Fs
      /\ handles \in [Fs -> [gen : Nat, ops : SUBSET Op]]
  BY DEF IInv, TypeOK
<1>3. handles' \in [Fs -> [gen : Nat, ops : SUBSET Op]]
  BY <1>1, <1>2
<1>4. ASSUME NEW g \in Fs
      PROVE  /\ handles'[g].gen # 0 /\ handles'[g].gen = db[g].gen =>
                   Tables \in db[g].made /\ handles'[g].ops \subseteq db[g].ops
             /\ handles'[g].gen <= created
  <2>1. CASE g = f
    <3>1. handles'[g] = h
      BY <1>1, <1>2, <2>1
    <3>2. Tables \in db[f].made /\ db[f].gen <= created
      BY <1>1 DEF CanOpen, IInv, GenerationsOld
    <3> QED BY <2>1, <3>1, <3>2
  <2>2. CASE g # f
    <3>1. handles'[g] = handles[g]
      BY <1>1, <1>2, <2>2
    <3> QED BY <3>1 DEF IInv, HandlesUsable, GenerationsOld
  <2> QED BY <2>1, <2>2
<1>5. UNCHANGED <<db, created>>
  BY <1>1, QuietServer
<1>6. HandlesUsable'
  BY <1>4, <1>5 DEF HandlesUsable
<1>7. GenerationsOld'
  BY <1>4, <1>5 DEF GenerationsOld, IInv
<1>8. faults' \in Nat /\ listing' \subseteq Fs
  BY <1>1, <1>2 DEF IInv, TypeOK
<1>9. reconnect_needed' \in BOOLEAN /\ connecting' \in BOOLEAN
  BY <1>1, Zenon
<1> QED BY <1>1, <1>3, <1>6, <1>7, <1>8, <1>9, MonitorIInv

LEMMA NextIInv == IInv /\ [Next]_vars => IInv'
<1> SUFFICES ASSUME IInv, [Next]_vars PROVE IInv'
  OBVIOUS
<1>0. faults \in Nat /\ listing \subseteq Fs /\ reconnect_needed \in BOOLEAN
      /\ connecting \in BOOLEAN
  BY DEF IInv, TypeOK
<1>1. CASE UNCHANGED vars
  BY <1>1 DEF IInv, TypeOK, HandlesUsable, GenerationsOld, SchemaAhead, vars, server,
              admins, monitor
<1>2. CASE \E a \in Admin : AdminStep(a) \/ Interrupted(a)
  BY <1>2, CreateDbIInv, UseDbIInv, SchemaStatementIInv, InsertFsRowIInv, CheckOpIInv,
     InsertOpIInv, InterruptedIInv, Zenon DEF AdminStep
<1>3. CASE \E a \in Admin, f \in Fs : AdminCommand(a, f)
  BY <1>3, StartAddIInv, DropIInv, UpdateOpsIInv, Zenon DEF AdminCommand
<1>4. CASE Throttled
  <2>1. /\ handles' = NoHandles /\ Quiet
        /\ UNCHANGED <<reconnect_needed, connecting, listing, faults>>
    BY <1>4 DEF Throttled
  <2> QED BY <1>0, <2>1, CloseIInv
<1>5. CASE lmt_db_list
  <2>1. /\ handles' = NoHandles /\ Quiet /\ UNCHANGED faults
        /\ listing' = {f \in Fs : Exists(f)} /\ connecting' = (listing' # {})
        /\ reconnect_needed' = (listing' # {})
    BY <1>5 DEF lmt_db_list
  <2>2. reconnect_needed' \in BOOLEAN /\ connecting' \in BOOLEAN
    BY <2>1, Zenon
  <2>3. listing' \subseteq Fs /\ faults' \in Nat
    BY <1>0, <2>1
  <2> QED BY <2>1, <2>2, <2>3, CloseIInv
<1>6. CASE \E f \in Fs : lmt_db_create(f)
  BY <1>6, OpenIInv
<1>7. CASE \E f \in Fs : CreateAllFails(f)
  <2>1. /\ handles' = NoHandles /\ listing' = {} /\ connecting' = FALSE /\ Quiet
        /\ UNCHANGED reconnect_needed
        /\ UNCHANGED faults \/ Fault
    BY <1>7 DEF CreateAllFails
  <2>2. faults' \in Nat /\ listing' \subseteq Fs
    BY <1>0, <2>1, FaultType
  <2>3. reconnect_needed' \in BOOLEAN /\ connecting' \in BOOLEAN
    BY <1>0, <2>1, Zenon
  <2> QED BY <2>1, <2>2, <2>3, CloseIInv
<1>8. CASE RestartCerebrod
  <2>1. /\ handles' = NoHandles /\ listing' = {} /\ connecting' = FALSE
        /\ reconnect_needed' = TRUE /\ Fault /\ Quiet
    BY <1>8 DEF RestartCerebrod
  <2>2. faults' \in Nat /\ listing' \subseteq Fs
    BY <2>1, FaultType
  <2>3. reconnect_needed' \in BOOLEAN /\ connecting' \in BOOLEAN
    BY <2>1, Zenon
  <2> QED BY <2>1, <2>2, <2>3, CloseIInv
<1>9. CASE \E f \in Fs : InsertFails(f)
  <2>1. /\ UNCHANGED <<connecting, listing, handles>> /\ reconnect_needed' = TRUE /\ Quiet
        /\ UNCHANGED faults \/ Fault
    BY <1>9 DEF InsertFails
  <2>2. faults' \in Nat /\ listing' \subseteq Fs
    BY <1>0, <2>1, FaultType
  <2>3. reconnect_needed' \in BOOLEAN /\ connecting' \in BOOLEAN
    BY <1>0, <2>1, Zenon
  <2>4. HandlesUsable' /\ GenerationsOld'
    BY <2>1, QuietServer, SameServer
  <2>5. handles' \in [Fs -> [gen : Nat, ops : SUBSET Op]]
    BY <2>1 DEF IInv, TypeOK
  <2> QED BY <2>1, <2>2, <2>3, <2>4, <2>5, MonitorIInv
<1> QED BY <1>1, <1>2, <1>3, <1>4, <1>5, <1>6, <1>7, <1>8, <1>9, Zenon DEF Next, Open

\* IInv is an invariant of lmtinit and the monitor, for every value of the
\* constants.
THEOREM Inductive == Spec => []IInv
BY InitIInv, NextIInv, PTL DEF Spec

\* Type correctness, with any number of commands at work and interrupted.
THEOREM TypeCorrect == Spec => []TypeOK
<1>1. IInv => TypeOK
  BY DEF IInv
<1> QED BY <1>1, Inductive, PTL

\* lmt_db_create never leaves a handle on a database whose schema is still
\* being loaded, and no cached operation is without its row.
THEOREM HandlesSound == Spec => []HandlesUsable
<1>1. IInv => HandlesUsable
  BY DEF IInv
<1> QED BY <1>1, Inductive, PTL

=============================================================================
