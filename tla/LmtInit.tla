------------------------------- MODULE LmtInit -------------------------------
(***************************************************************************)
(* lmtinit (src/utils/lmtinit.c) at work beside a running monitor.         *)
(* lmtinit -a, -d and -o create, drop and update the database of a file    *)
(* system, one SQL statement after the other, with nothing to undo what is *)
(* done when a later statement fails or lmtinit is interrupted.  The       *)
(* monitor opens every database there is, and needs all of them to open.   *)
(*                                                                         *)
(* Abstractions.  The tables of the schema come in two statements: the     *)
(* first, FILESYSTEM_INFO, whose failure mysql_query reports, and all that *)
(* lmt_db_create reads or prepares inserts for.  Of the rows the schema    *)
(* inserts, those of OPERATION_INFO are kept; the tables and rows only the *)
(* scripts use are left out.  A database that is dropped and created again *)
(* has a new generation.  The throttle of a reconnect is a choice here, it *)
(* is timed in LmtDb; so is what an insert does to the tables.             *)
(***************************************************************************)
EXTENDS Naturals, Sequences

CONSTANTS Fs, Admin,    \* file systems; users who run lmtinit
          Op,
          SchemaOps,    \* operations the schema inserts, in its order
          AllOps,       \* get_all_opnames, with its repetitions
          OldOps,       \* operations of a database made by an older LMT
          NamePrefix,   \* pairs of file systems, the first a prefix of the second
          EnforcesKeys, \* does the storage engine enforce foreign keys
          MaxCommands, MaxFaults   \* bounds on commands and on faults

ASSUME LmtInitAssumption ==
    /\ SchemaOps \in Seq(Op) /\ AllOps \in Seq(Op) \ {<<>>} /\ OldOps \subseteq Op
    /\ NamePrefix \subseteq Fs \X Fs
    /\ EnforcesKeys \in BOOLEAN
    /\ MaxCommands \in Nat /\ MaxFaults \in Nat

Rows(s) == {s[i] : i \in 1 .. Len(s)}

\* The statements that make tables: FILESYSTEM_INFO, and all the others.
Tables == 2
Schema == Tables + Len(SchemaOps)

VARIABLES
    db,         \* fs -> the database filesystem_<fs>
    created,    \* databases created so far
    job,        \* admin -> the lmtinit it runs
    commands, faults,
    reconnect_needed,
    connecting, \* is lmt_db_create_all at work,
    listing,    \* and on which databases of its list
    handles,    \* dbs: fs -> handle
    added, updated   \* history: generation that -a and -o were run on

server == <<db, created>>
admins == <<job, commands, added, updated>>
monitor == <<reconnect_needed, connecting, listing, handles>>
vars == <<server, admins, monitor, faults>>

\* late: history, the operations that lmtinit -o has inserted.
NoDb == [gen |-> 0, made |-> {}, ops |-> {}, late |-> {}, fsrow |-> FALSE]
Exists(f) == db[f].gen # 0
Idle == [cmd |-> "none"]
Busy(f) == \E a \in Admin : job[a] # Idle /\ job[a].fs = f
Adding(f) == \E a \in Admin : job[a].cmd = "add" /\ job[a].fs = f

NoHandles == [f \in Fs |-> [gen |-> 0, ops |-> {}]]

Init ==
    /\ \E old \in SUBSET Fs :
          db = [f \in Fs |-> IF f \in old
                    THEN [NoDb EXCEPT !.gen = 1, !.made = 1 .. Tables, !.ops = OldOps, !.fsrow = TRUE]
                    ELSE NoDb]
    /\ created = 1
    /\ job = [a \in Admin |-> Idle]
    /\ commands = 0 /\ faults = 0
    /\ reconnect_needed = TRUE /\ connecting = FALSE /\ listing = {}
    /\ handles = NoHandles
    /\ added = [f \in Fs |-> 0] /\ updated = [f \in Fs |-> 0]

-----------------------------------------------------------------------------
(* lmtinit.                                                                *)

Fault == faults < MaxFaults /\ faults' = faults + 1

\* mysql_real_connect has no default database.  The name that "use" or
\* mysql_select_db has set stays set when another session drops the database:
\* statements fail while it is gone, and go on in one created under its name.
Selected(j) == Exists(j.fs) /\ (j.cmd = "update" => j.chosen)

Command(a) ==
    /\ job[a] = Idle
    /\ commands < MaxCommands
    /\ commands' = commands + 1
    /\ UNCHANGED <<monitor, faults, added>>

Goes(a, j) == job' = [job EXCEPT ![a] = j]
Exits(a) == Goes(a, Idle)
Step == UNCHANGED <<commands, monitor, faults, updated>>

StartAdd(a, f) ==
    /\ Command(a)
    /\ Goes(a, [cmd |-> "add", fs |-> f, pc |-> "create", done |-> 0])
    /\ UNCHANGED <<server, updated>>

\* sql_create_fs fails when the database is there.
CreateDb(a) ==
    LET f == job[a].fs IN
    /\ job[a].cmd = "add" /\ job[a].pc = "create"
    /\ \/ /\ Exists(f)
          /\ Exits(a) /\ UNCHANGED server
       \/ /\ ~Exists(f)
          /\ created' = created + 1
          /\ db' = [db EXCEPT ![f] = [NoDb EXCEPT !.gen = created']]
          /\ Goes(a, [job[a] EXCEPT !.pc = "use"])
    /\ Step /\ UNCHANGED added

UseDb(a) ==
    LET f == job[a].fs IN
    /\ job[a].cmd = "add" /\ job[a].pc = "use"
    /\ \/ ~Exists(f) /\ Exits(a)
       \/ Exists(f) /\ Goes(a, [job[a] EXCEPT !.pc = "schema"])
    /\ Step /\ UNCHANGED <<server, added>>

\* Does statement k of the schema succeed on d: no table twice, none before
\* the one its foreign keys refer to, and OPERATION_NAME is unique.
CanExecute(d, k) ==
    IF k <= Tables THEN k \notin d.made /\ (k = 1 \/ 1 \in d.made \/ ~EnforcesKeys)
    ELSE Tables \in d.made /\ SchemaOps[k - Tables] \notin d.ops

\* Mutant of Executed: rows are counted like tables.
MutCountsRows(d, k) ==
    [d EXCEPT !.made = @ \cup {k}, !.ops = IF k <= Tables THEN @ ELSE @ \cup {SchemaOps[k - Tables]}]

Executed(d, k) ==
    IF k <= Tables THEN [d EXCEPT !.made = @ \cup {k}]
    ELSE [d EXCEPT !.ops = @ \cup {SchemaOps[k - Tables]}]

\* The server runs the statements of the schema one by one.  mysql_query
\* reports the failure of the first; mysql_next_result returning an error
\* ends the loop like its end, and the rest of the schema is not executed.
SchemaStatement(a) ==
    LET j == job[a]
        k == j.done + 1
        ok == Selected(j) /\ CanExecute(db[j.fs], k)
    IN
    /\ j.cmd = "add" /\ j.pc = "schema"
    /\ \/ /\ ok
          /\ db' = [db EXCEPT ![j.fs] = Executed(@, k)]
          /\ Goes(a, [j EXCEPT !.done = k, !.pc = IF k = Schema THEN "row" ELSE "schema"])
          /\ UNCHANGED faults
       \/ /\ \/ ~ok /\ UNCHANGED faults
             \/ ok /\ Fault
          /\ IF k = 1 THEN Exits(a) ELSE Goes(a, [j EXCEPT !.pc = "row"])
          /\ UNCHANGED db
    /\ UNCHANGED <<created, commands, added, updated, monitor>>

\* The row of FILESYSTEM_INFO, and exit (0).
InsertFsRow(a) ==
    LET f == job[a].fs
        ok == Selected(job[a]) /\ 1 \in db[f].made
    IN
    /\ job[a].cmd = "add" /\ job[a].pc = "row"
    /\ \/ /\ ok
          /\ db' = [db EXCEPT ![f].fsrow = TRUE]
          /\ added' = [added EXCEPT ![f] = db[f].gen]
       \/ ~ok /\ UNCHANGED <<db, added>>
    /\ Exits(a)
    /\ Step /\ UNCHANGED created

\* -d
lmt_db_drop(a, f) ==
    /\ Command(a) /\ Exists(f)
    /\ db' = [db EXCEPT ![f] = NoDb]
    /\ UNCHANGED <<created, job, updated>>

\* -o looks for a name that starts with filesystem_<fs>, and does not look at
\* the result of mysql_select_db.
lmt_db_update_ops(a, f) ==
    /\ Command(a)
    /\ \E g \in Fs : <<f, g>> \in NamePrefix /\ Exists(g)
    /\ Goes(a, [cmd |-> "update", fs |-> f, chosen |-> Exists(f), pc |-> "check",
                todo |-> AllOps])
    /\ updated' = [updated EXCEPT ![f] =
                      IF Tables \in db[f].made /\ ~Adding(f) THEN db[f].gen ELSE @]
    /\ UNCHANGED server

NextOp(a) ==
    LET j == job[a] IN
    IF Len(j.todo) = 1 THEN Exits(a)
    ELSE Goes(a, [j EXCEPT !.todo = Tail(@), !.pc = "check"])


\* _add_new_op asks first ...
CheckOp(a) ==
    LET j == job[a] IN
    /\ j.cmd = "update" /\ j.pc = "check"
    /\ \/ /\ ~Selected(j) \/ Tables \notin db[j.fs].made
          /\ Exits(a)
       \/ /\ Selected(j) /\ Tables \in db[j.fs].made
          /\ \/ Head(j.todo) \in db[j.fs].ops /\ NextOp(a)
             \/ /\ Head(j.todo) \notin db[j.fs].ops
                /\ Goes(a, [j EXCEPT !.pc = "insert"])
    /\ Step /\ UNCHANGED <<server, added>>

\* ... and inserts then: somebody may have been faster.
InsertOp(a) ==
    LET j == job[a] IN
    /\ j.cmd = "update" /\ j.pc = "insert"
    /\ \/ /\ \/ ~Selected(j) \/ Tables \notin db[j.fs].made
             \/ Head(j.todo) \in db[j.fs].ops
          /\ Exits(a) /\ UNCHANGED db
       \/ /\ Selected(j) /\ Tables \in db[j.fs].made
          /\ Head(j.todo) \notin db[j.fs].ops
          /\ db' = [db EXCEPT ![j.fs].ops = @ \cup {Head(j.todo)},
                              ![j.fs].late = @ \cup {Head(j.todo)}]
          /\ NextOp(a)
    /\ Step /\ UNCHANGED <<created, added>>

\* lmtinit is interrupted, loses its connection, or a statement fails.
Interrupted(a) ==
    /\ job[a] # Idle
    /\ Fault /\ Exits(a)
    /\ UNCHANGED <<server, commands, added, updated, monitor>>

-----------------------------------------------------------------------------
(* The monitor: _init_db_ifneeded and the first insert after it.           *)
Quiet == UNCHANGED <<server, admins>>

Throttled ==
    /\ reconnect_needed /\ ~connecting
    /\ handles' = NoHandles
    /\ UNCHANGED <<reconnect_needed, connecting, listing, faults>> /\ Quiet

\* lmt_db_create_all lists the databases ...
lmt_db_list ==
    /\ reconnect_needed /\ ~connecting
    /\ handles' = NoHandles
    /\ listing' = {f \in Fs : Exists(f)}
    /\ connecting' = (listing' # {})
    /\ reconnect_needed' = (listing' # {})
    /\ UNCHANGED faults /\ Quiet

\* Mutant of CanOpen: statements that cannot be prepared are not counted.
MutOpensAnything(f) == Exists(f)

\* All six inserts can be prepared and all tables read.
CanOpen(f) == Exists(f) /\ Tables \in db[f].made

\* ... and opens one after the other.
lmt_db_create(f) ==
    /\ connecting /\ f \in listing
    /\ CanOpen(f)
    /\ handles' = [handles EXCEPT ![f] = [gen |-> db[f].gen, ops |-> db[f].ops]]
    /\ listing' = listing \ {f}
    /\ connecting' = (listing' # {})
    /\ reconnect_needed' = (listing' # {})
    /\ UNCHANGED faults /\ Quiet

\* One database that does not open closes all of them.
CreateAllFails(f) ==
    /\ connecting /\ f \in listing
    /\ \/ ~CanOpen(f) /\ UNCHANGED faults
       \/ CanOpen(f) /\ Fault
    /\ handles' = NoHandles /\ listing' = {} /\ connecting' = FALSE
    /\ UNCHANGED reconnect_needed /\ Quiet


\* An insert on a handle fails when its connection is lost or its database
\* was dropped.  On a database created again the ids of the handle are those
\* of no row, which only a foreign key notices.  Metrics of a file system
\* without handle are ignored.
InsertFails(f) ==
    /\ ~reconnect_needed /\ handles[f].gen # 0
    /\ \/ /\ handles[f].gen # db[f].gen
          /\ EnforcesKeys \/ Tables \notin db[f].made
          /\ UNCHANGED faults
       \/ handles[f].gen = db[f].gen /\ Fault
    /\ reconnect_needed' = TRUE
    /\ UNCHANGED <<connecting, listing, handles>> /\ Quiet

RestartCerebrod ==
    /\ Fault
    /\ reconnect_needed' = TRUE /\ connecting' = FALSE /\ listing' = {}
    /\ handles' = NoHandles
    /\ Quiet

AdminStep(a) ==
    \/ CreateDb(a) \/ UseDb(a) \/ SchemaStatement(a) \/ InsertFsRow(a)
    \/ CheckOp(a) \/ InsertOp(a)

AdminCommand(a, f) == StartAdd(a, f) \/ lmt_db_drop(a, f) \/ lmt_db_update_ops(a, f)

Open == \E f \in Fs : lmt_db_create(f) \/ CreateAllFails(f)

Next ==
    \/ \E a \in Admin : AdminStep(a) \/ Interrupted(a)
    \/ \E a \in Admin, f \in Fs : AdminCommand(a, f)
    \/ Throttled \/ lmt_db_list \/ Open \/ RestartCerebrod
    \/ \E f \in Fs : InsertFails(f)

Spec == Init /\ [][Next]_vars

\* lmtinit runs to its end; metrics of every file system keep arriving.
FairSpec ==
    /\ Spec
    /\ \A a \in Admin : WF_vars(AdminStep(a))
    /\ WF_vars(lmt_db_list) /\ WF_vars(Open)
    /\ \A f \in Fs : WF_vars(InsertFails(f))

-----------------------------------------------------------------------------
(* Properties.                                                             *)

Job == {Idle}
       \cup [cmd : {"add"}, fs : Fs, pc : {"create", "use", "schema", "row"},
             done : 0 .. Schema]
       \cup [cmd : {"update"}, fs : Fs, chosen : BOOLEAN, pc : {"check", "insert"},
             todo : Seq(Op) \ {<<>>}]

TypeOK ==
    /\ db \in [Fs -> [gen : Nat, made : SUBSET (1 .. Tables),
                     ops : SUBSET Op, late : SUBSET Op, fsrow : BOOLEAN]]
    /\ created \in Nat /\ commands \in Nat /\ faults \in Nat
    /\ job \in [Admin -> Job]
    /\ reconnect_needed \in BOOLEAN /\ connecting \in BOOLEAN /\ listing \subseteq Fs
    /\ handles \in [Fs -> [gen : Nat, ops : SUBSET Op]]
    /\ added \in [Fs -> Nat] /\ updated \in [Fs -> Nat]

\* A handle is one on a database with its tables, and the operations it has
\* cached have rows there, though the schema may be loading while the monitor
\* connects and lmtinit -o may add rows behind its back.
HandlesUsable ==
    \A f \in Fs : handles[f].gen # 0 /\ handles[f].gen = db[f].gen =>
        Tables \in db[f].made /\ handles[f].ops \subseteq db[f].ops

\* The inductive invariant behind HandlesUsable: a generation is never given
\* twice, and the statement counter of lmtinit -a stays within the schema.
GenerationsOld == \A f \in Fs : db[f].gen <= created /\ handles[f].gen <= created
SchemaAhead ==
    \A a \in Admin : job[a].cmd = "add" /\ job[a].pc # "row" => job[a].done < Schema
IInv == TypeOK /\ HandlesUsable /\ GenerationsOld /\ SchemaAhead



=============================================================================
