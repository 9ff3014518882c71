------------------------------- MODULE LmtDb -------------------------------
(***************************************************************************)
(* The lmt_mysql cerebro monitor: cerebrod calls _metric_update            *)
(* (src/cerebro/monitor/mysql.c) for every metric string it receives, the  *)
(* handlers of src/liblmtdb/lmtdb.c split it into inserts, and             *)
(* src/liblmtdb/lmtmysql.c runs the SQL statements of each insert.         *)
(*                                                                         *)
(* One SQL statement is one step: between two of them the server may go    *)
(* away, the clock advances, or cerebrod is restarted.  A handler runs to  *)
(* its end before the next metric is taken (cerebrod's callback).          *)
(*                                                                         *)
(* A handler is the sequence todo of groups of inserts: one group per OST  *)
(* or MDT of the metric, or one for a router or a legacy OSS over all      *)
(* databases.  A failing insert that is "fatal" ends its group (the C code *)
(* goes to done or breaks), any other only itself.                         *)
(***************************************************************************)
EXTENDS LmtMysql

CONSTANTS
    FsName,            \* file system names, with or without a database
    FsOrder,           \* the filesystem_* databases in SHOW DATABASES order
    SvcFs,             \* the file system part of a target's name
    NamePrefix,        \* <<a, b>>: name a is a prefix of name b
    KnownOp,           \* per file system, the rows of OPERATION_INFO
    Metric,            \* the metric strings that may arrive
    Autoconf,          \* lmt_conf_get_db_autoconf()
    Interval,          \* LMT_UPDATE_INTERVAL
    MinReconnectSecs,  \* MIN_RECONNECT_SECS
    MaxTime,           \* bound: the clock stops here
    LastOutage,        \* bound: no outage and no fault from this time on
    MaxFaults,         \* bound: failures other than a server that is down
    MaxCopies          \* bound: copies of one MDS_OPS_DATA row told apart

Db == {FsOrder[i] : i \in DOMAIN FsOrder}

ASSUME ConfigAssumption ==
    /\ FsOrder \in Seq(FsName)
    /\ SvcFs \in [Svc -> FsName]
    /\ KnownOp \in [Db -> SUBSET Op]
    /\ Autoconf \in BOOLEAN

ASSUME TimeAssumption ==
    /\ Interval \in Nat \ {0}
    /\ MinReconnectSecs \in Nat
    /\ MinReconnectSecs >= Interval
    /\ {MaxTime, LastOutage, MaxFaults, MaxCopies} \subseteq Nat

\* A metric is a decoded string: its name and version, the host that sent
\* it, its targets, and the operations it counts for each of them (mdt).
MetricType == {"ost_v2", "mdt", "router_v1", "oss_v1", "ost_v1", "garbled"}

ASSUME MetricAssumption ==
    Metric \subseteq [type : MetricType, host : Host, svcs : Seq(Svc), ops : Seq(Op)]

VARIABLES
    now,               \* gettimeofday, in seconds
    up,                \* the MySQL server answers
    faults,            \* faults still to come
    alive,             \* databases whose connection still works
    info,              \* MDS_INFO, OSS_INFO, OST_INFO, ROUTER_INFO
    tsinfo,            \* TIMESTAMP_INFO
    data,              \* MDS_DATA, OSS_DATA, OST_DATA, ROUTER_DATA
    opsdata,           \* MDS_OPS_DATA
    dbs,               \* the list of handles: "NULL" or "open" (one per database)
    last_connect,
    tried,             \* history: when this cerebrod last tried to connect, 0 before
    reconnect_needed,
    timestamp,         \* per handle
    timestamp_id,      \* per handle
    idhash,            \* per handle
    todo,              \* inserts the running handler has still to make
    pc                 \* the statement the first of them is at

clockVars  == <<now, up>>
tableVars  == <<info, tsinfo, data, opsdata>>
cacheVars  == <<timestamp, timestamp_id, idhash>>
monitorVars == <<dbs, last_connect, tried, reconnect_needed>>
vars == <<clockVars, faults, alive, tableVars, monitorVars, cacheVars, todo, pc>>

Kind == {"ost", "oss", "oss_v1", "mds", "router", "ops"}

Job == [fs : Db, kind : Kind, name : Name, host : Host, ops : Seq(Op),
        fatal : BOOLEAN]

PC == {"start", "insert_oss", "select_oss", "insert_info", "select_mds",
       "select_info", "timestamp", "data"}

---------------------------------------------------------------------------
(* Handlers of lmtdb.c: from a metric to the inserts it stands for.        *)

\* Mutant of Matches: strncmp's result taken for a Boolean.
MutUnequal(s, i) == <<SvcFs[s], FsOrder[i]>> \notin NamePrefix

\* _svc_to_db: the first database whose name starts with the target's file
\* system name (strncmp over the length of the latter).
Matches(s, i) == <<SvcFs[s], FsOrder[i]>> \in NamePrefix

FirstMatch(s) ==
    {i \in DOMAIN FsOrder : Matches(s, i) /\ \A j \in 1 .. i - 1 : ~Matches(s, j)}

HasDb(s) == FirstMatch(s) # {}

_svc_to_db(s) == FsOrder[CHOOSE i \in FirstMatch(s) : TRUE]

Insert(f, k, n, h, o, fatal) ==
    [fs |-> f, kind |-> k, name |-> n, host |-> h, ops |-> o, fatal |-> fatal]

\* Mutant of _insert_ostinfo: ossname and ostname swapped in a call.
MutSwappedNames(m, s) ==
    IF HasDb(s)
    THEN <<Insert(_svc_to_db(s), "ost", m.host, s, <<>>, TRUE),
           Insert(_svc_to_db(s), "oss", m.host, m.host, <<>>, TRUE)>>
    ELSE <<>>

\* _insert_ostinfo: the OST, then its OSS.
_insert_ostinfo(m, s) ==
    IF HasDb(s)
    THEN <<Insert(_svc_to_db(s), "ost", s, m.host, <<>>, TRUE),
           Insert(_svc_to_db(s), "oss", m.host, m.host, <<>>, TRUE)>>
    ELSE <<>>

\* _insert_mds: the MDT, then each of its operations.
_insert_mds(m, s) ==
    IF HasDb(s)
    THEN [i \in 1 .. Len(m.ops) + 1 |->
             IF i = 1
             THEN Insert(_svc_to_db(s), "mds", s, m.host, <<>>, TRUE)
             ELSE Insert(_svc_to_db(s), "ops", s, m.host, <<m.ops[i - 1]>>, FALSE)]
    ELSE <<>>

\* lmt_db_insert_ost_v1: the OST alone.
_insert_ost_v1(m, s) ==
    IF HasDb(s)
    THEN <<Insert(_svc_to_db(s), "ost", s, m.host, <<>>, TRUE)>>
    ELSE <<>>

\* lmt_db_insert_router_v1: every database, until one of them fails.
_insert_router(m) ==
    [i \in DOMAIN FsOrder |->
        Insert(FsOrder[i], "router", m.host, m.host, <<>>, TRUE)]

\* lmt_db_insert_oss_v1: the same loop, with a lookup first (StartInsert).
_insert_oss_v1(m) ==
    [i \in DOMAIN FsOrder |->
        Insert(FsOrder[i], "oss_v1", m.host, m.host, <<>>, TRUE)]

\* The handler _metric_update picks; a string that does not decode is dropped.
Handler(m) ==
    IF m.type = "ost_v2" THEN [i \in DOMAIN m.svcs |-> _insert_ostinfo(m, m.svcs[i])]
    ELSE IF m.type = "mdt" THEN [i \in DOMAIN m.svcs |-> _insert_mds(m, m.svcs[i])]
    ELSE IF m.type = "ost_v1" THEN [i \in DOMAIN m.svcs |-> _insert_ost_v1(m, m.svcs[i])]
    ELSE IF m.type = "router_v1" THEN <<_insert_router(m)>>
    ELSE IF m.type = "oss_v1" THEN <<_insert_oss_v1(m)>>
    ELSE <<>>

---------------------------------------------------------------------------
Init ==
    /\ now = MinReconnectSecs
    /\ up = TRUE
    /\ faults = MaxFaults
    /\ alive = {}
    /\ info = [f \in Db |-> [t \in Table |-> <<>>]]
    /\ tsinfo = [f \in Db |-> <<>>]
    /\ data = [f \in Db |-> {}]
    /\ opsdata = [f \in Db |-> {}]
    /\ dbs = "NULL"
    /\ last_connect = 0
    /\ tried = 0
    /\ reconnect_needed = TRUE
    /\ timestamp = [f \in Db |-> 0]
    /\ timestamp_id = [f \in Db |-> 0]
    /\ idhash = [f \in Db |-> EmptyHash]
    /\ todo = <<>>
    /\ pc = "start"

---------------------------------------------------------------------------
(* _metric_update with the three outcomes of _init_db_ifneeded.            *)

Idle == todo = <<>>

\* Something fails that the server's being down does not explain.
Fault == faults > 0 /\ now < LastOutage /\ faults' = faults - 1

\* No reconnect needed: the handler runs on the handles there are.
UseHandles(m) ==
    /\ Idle
    /\ ~reconnect_needed
    /\ todo' = Handler(m)
    /\ pc' = "start"
    /\ UNCHANGED <<clockVars, faults, alive, tableVars, monitorVars, cacheVars>>

Disconnected ==
    /\ dbs' = "NULL"
    /\ alive' = {}
    /\ timestamp' = [f \in Db |-> 0]
    /\ timestamp_id' = [f \in Db |-> 0]
    /\ idhash' = [f \in Db |-> EmptyHash]

ThrottledConnect ==
    now - last_connect < MinReconnectSecs

\* Mutant of Throttled: the handler goes on after the handles are destroyed.
MutThrottledGoesOn ==
    /\ Idle
    /\ reconnect_needed
    /\ ThrottledConnect
    /\ Disconnected
    /\ \E m \in Metric : todo' = Handler(m)
    /\ UNCHANGED <<clockVars, faults, tableVars, last_connect, tried, reconnect_needed,
                   pc>>

\* MIN_RECONNECT_SECS have not passed: the old handles go, the metric is lost.
Throttled ==
    /\ Idle
    /\ reconnect_needed
    /\ ThrottledConnect
    /\ Disconnected
    /\ UNCHANGED <<clockVars, faults, tableVars, last_connect, tried, reconnect_needed,
                   todo, pc>>

\* lmt_db_create_all is all or nothing over the databases it lists.
CanCreateAll == up /\ \A f \in Db : Populates(info[f])

\* Mutant of ConnectFails: only a connection that succeeds is timed.
MutFailureUntimed ==
    /\ Idle
    /\ reconnect_needed
    /\ ~ThrottledConnect
    /\ \/ ~CanCreateAll /\ UNCHANGED faults
       \/ CanCreateAll /\ Fault
    /\ Disconnected
    /\ tried' = now
    /\ UNCHANGED <<clockVars, tableVars, last_connect, reconnect_needed, todo, pc>>

ConnectFails ==
    /\ Idle
    /\ reconnect_needed
    /\ ~ThrottledConnect
    /\ last_connect' = now
    /\ tried' = now
    /\ \/ ~CanCreateAll /\ UNCHANGED faults
       \/ CanCreateAll /\ Fault
    /\ Disconnected
    /\ UNCHANGED <<clockVars, tableVars, reconnect_needed, todo, pc>>

\* Fresh handles: no timestamp, the hash read from the tables; then the
\* handler runs on them.
Connect(m) ==
    /\ Idle
    /\ reconnect_needed
    /\ ~ThrottledConnect
    /\ CanCreateAll
    /\ last_connect' = now
    /\ tried' = now
    /\ reconnect_needed' = FALSE
    /\ dbs' = "open"
    /\ alive' = Db
    /\ timestamp' = [f \in Db |-> 0]
    /\ timestamp_id' = [f \in Db |-> 0]
    /\ idhash' = [f \in Db |-> _populate_idhash(info[f])]
    /\ todo' = Handler(m)
    /\ pc' = "start"
    /\ UNCHANGED <<clockVars, faults, tableVars>>

MetricUpdate(m) == UseHandles(m) \/ Throttled \/ ConnectFails \/ Connect(m)

---------------------------------------------------------------------------
(* The inserts of lmtmysql.c, one SQL statement per step.                  *)

Group == Head(todo)
Cur == Head(Group)
AtStatement(p) == todo # <<>> /\ Group # <<>> /\ pc = p

\* _lookup_idhash of the row an insert is about.
HashType(k) ==
    IF k \in {"mds", "ops"} THEN "mdt" ELSE IF k = "oss_v1" THEN "oss" ELSE k
CurId == idhash[Cur.fs][HashType(Cur.kind)][Cur.name]

\* The insert returned 0: on to the next one of the group.
Done ==
    /\ todo' = [todo EXCEPT ![1] = Tail(@)]
    /\ pc' = "start"
    /\ UNCHANGED reconnect_needed

\* Mutant of Error: the return value is not looked at.
MutNoTrigger ==
    /\ todo' = [todo EXCEPT ![1] = Tail(@)]
    /\ pc' = "start"
    /\ UNCHANGED reconnect_needed

\* The insert returned -1: _trigger_db_reconnect, and the group ends if the
\* caller goes to done.
Error ==
    /\ reconnect_needed' = TRUE
    /\ todo' = [todo EXCEPT ![1] = IF Cur.fatal THEN <<>> ELSE Tail(@)]
    /\ pc' = "start"

\* A statement fails without effect: its connection is gone, or a fault takes
\* the connection with it or leaves it usable (a full table, a lock timeout).
FailsOn(f) ==
    \/ f \notin alive /\ UNCHANGED <<alive, faults>>
    \/ f \in alive /\ Fault /\ alive' \in {alive, alive \ {f}}

\* The server ran the statement, the connection died before the answer.
LosesReply(f) ==
    f \in alive /\ Fault /\ alive' = alive \ {f}

Succeeds(f) == f \in alive /\ UNCHANGED <<alive, faults>>

Failed ==
    FailsOn(Cur.fs) /\ Error /\ UNCHANGED <<tableVars, cacheVars>>

MoveTo(p) == pc' = p /\ UNCHANGED <<todo, reconnect_needed>>

Quiet == UNCHANGED <<clockVars, dbs, last_connect, tried>>

\* The loop over the targets of a metric reaches its next one.
NextGroup ==
    /\ todo # <<>>
    /\ Group = <<>>
    /\ todo' = Tail(todo)
    /\ UNCHANGED <<clockVars, faults, alive, tableVars, monitorVars, cacheVars, pc>>

\* Mutant of FirstStatement: the OSS of a new OST is taken to be there.
MutOssAssumed == "insert_info"

\* The OSS of an unknown OST is looked up first, and added if unknown too.
FirstStatement ==
    IF Cur.kind = "ost" /\ idhash[Cur.fs]["oss"][Cur.host] = 0
    THEN "insert_oss" ELSE "insert_info"

\* Mutant of StartInsert: the operations take a timestamp of their own, as the
\* two commented-out lines of lmt_db_insert_mds_ops_data do.
MutOpsTakeTimestamp ==
    /\ AtStatement("start")
    /\ \/ /\ CurId # 0
          /\ MoveTo("timestamp")
       \/ /\ CurId = 0
          /\ MoveTo(FirstStatement)
    /\ Quiet /\ UNCHANGED <<faults, alive, tableVars, cacheVars>>

\* The head of lmt_db_insert_*_data.  An unknown target is added when
\* db_autoconf is on, but never by a legacy OSS metric; otherwise, and for an
\* unknown operation, 0 is returned.
StartInsert ==
    /\ AtStatement("start")
    /\ \/ /\ Cur.kind # "ops" /\ CurId # 0
          /\ MoveTo("timestamp")
       \/ /\ Cur.kind \notin {"ops", "oss_v1"} /\ CurId = 0 /\ Autoconf
          /\ MoveTo(FirstStatement)
       \/ /\ Cur.kind # "ops" /\ CurId = 0 /\ (Autoconf => Cur.kind = "oss_v1")
          /\ Done
       \/ /\ Cur.kind = "ops" /\ CurId # 0 /\ Cur.ops[1] \in KnownOp[Cur.fs]
          /\ MoveTo("data")
       \/ /\ Cur.kind = "ops" /\ (CurId = 0 \/ Cur.ops[1] \notin KnownOp[Cur.fs])
          /\ Done
    /\ Quiet /\ UNCHANGED <<faults, alive, tableVars, cacheVars>>

AddRow(t, row) ==
    /\ info' = [info EXCEPT ![Cur.fs][t] = Append(@, row)]
    /\ UNCHANGED <<tsinfo, data, opsdata, cacheVars>>

\* insert into OSS_INFO / OST_INFO / MDS_INFO / ROUTER_INFO
InsertRow(p, t, row, next) ==
    /\ AtStatement(p)
    /\ \/ Succeeds(Cur.fs) /\ AddRow(t, row) /\ MoveTo(next)
       \/ LosesReply(Cur.fs) /\ AddRow(t, row) /\ Error
       \/ Failed
    /\ Quiet

\* _insert_oss_info, called from _insert_ost_info
InsertOss ==
    InsertRow("insert_oss", "oss",
              [name |-> Cur.host, host |-> Cur.host, oss_id |-> 0], "select_oss")

\* _insert_mds_info, _insert_oss_info, _insert_ost_info, _insert_router_info
InsertInfo ==
    InsertRow("insert_info", TableOf(HashType(Cur.kind)),
              [name |-> Cur.name, host |-> Cur.host,
               oss_id |-> IF Cur.kind = "ost"
                          THEN idhash[Cur.fs]["oss"][Cur.host] ELSE 0],
              IF Cur.kind = "mds" THEN "select_mds" ELSE "select_info")

\* _populate_idhash_one: select the new row back and hash its id.
SelectRow(p, pfx, n, next) ==
    /\ AtStatement(p)
    /\ \/ /\ Succeeds(Cur.fs)
          /\ CanHash(idhash[Cur.fs], pfx, n)
          /\ \E id \in Matching(info[Cur.fs], pfx, n) :
                idhash' = [idhash EXCEPT ![Cur.fs] = HashInsert(@, pfx, n, id)]
          /\ MoveTo(next)
          /\ UNCHANGED <<tableVars, timestamp, timestamp_id>>
       \/ /\ Succeeds(Cur.fs)
          /\ ~CanHash(idhash[Cur.fs], pfx, n)
          /\ Error
          /\ UNCHANGED <<tableVars, cacheVars>>
       \/ Failed
    /\ Quiet

SelectOss == SelectRow("select_oss", "oss", Cur.host, "insert_info")
SelectMds == SelectRow("select_mds", "mds", Cur.host, "select_info")
SelectInfo == SelectRow("select_info", HashType(Cur.kind), Cur.name, "timestamp")

\* _update_timestamp
AddTimestamp ==
    /\ tsinfo' = [tsinfo EXCEPT ![Cur.fs] = Append(@, RoundDown(now, Interval))]
    /\ UNCHANGED <<info, data, opsdata, idhash>>

\* Mutant of UpdateTimestamp: the cached time is set before the insert.
MutStampSetEarly ==
    /\ AtStatement("timestamp")
    /\ LET stale == RoundDown(now, Interval) <= timestamp[Cur.fs] IN
       \/ /\ stale
          /\ MoveTo("data")
          /\ UNCHANGED <<faults, alive, tableVars, cacheVars>>
       \/ /\ ~stale
          /\ timestamp' = [timestamp EXCEPT ![Cur.fs] = RoundDown(now, Interval)]
          /\ \/ /\ Succeeds(Cur.fs)
                /\ AddTimestamp
                /\ timestamp_id' = [timestamp_id EXCEPT ![Cur.fs] = Len(tsinfo[Cur.fs]) + 1]
                /\ MoveTo("data")
             \/ /\ FailsOn(Cur.fs) /\ Error
                /\ UNCHANGED <<tableVars, timestamp_id, idhash>>
    /\ Quiet

\* Mutant of UpdateTimestamp: mysql_insert_id is not kept.
MutIdForgotten ==
    /\ AtStatement("timestamp")
    /\ \/ /\ RoundDown(now, Interval) <= timestamp[Cur.fs]
          /\ UNCHANGED <<tableVars, timestamp>>
       \/ /\ RoundDown(now, Interval) > timestamp[Cur.fs]
          /\ AddTimestamp
          /\ timestamp' = [timestamp EXCEPT ![Cur.fs] = RoundDown(now, Interval)]
    /\ MoveTo("data")
    /\ Quiet /\ UNCHANGED <<faults, alive, timestamp_id, idhash>>

UpdateTimestamp ==
    /\ AtStatement("timestamp")
    /\ LET stale == RoundDown(now, Interval) <= timestamp[Cur.fs] IN
       \/ /\ stale
          /\ MoveTo("data")
          /\ UNCHANGED <<faults, alive, tableVars, cacheVars>>
       \/ /\ ~stale
          /\ Succeeds(Cur.fs)
          /\ AddTimestamp
          /\ timestamp' = [timestamp EXCEPT ![Cur.fs] = RoundDown(now, Interval)]
          /\ timestamp_id' = [timestamp_id EXCEPT ![Cur.fs] = Len(tsinfo[Cur.fs]) + 1]
          /\ MoveTo("data")
       \/ /\ ~stale
          /\ LosesReply(Cur.fs)
          /\ AddTimestamp
          /\ UNCHANGED <<timestamp, timestamp_id>>
          /\ Error
       \/ /\ ~stale
          /\ Failed
    /\ Quiet

\* The prepared insert; ER_DUP_ENTRY counts as success.
\* MDS_OPS_DATA has no key: the n-th copy of a row is stored beside the others.
OpsRowOf(j, n) ==
    [id |-> CurId, op |-> j.ops[1], ts |-> timestamp_id[j.fs], copy |-> n]

AddCopy(rows, j) ==
    rows \cup {OpsRowOf(j, n) : n \in {n \in 1 .. MaxCopies :
                  \A k \in 1 .. n - 1 : OpsRowOf(j, k) \in rows}}

AddData ==
    /\ IF Cur.kind = "ops"
       THEN /\ opsdata' = [opsdata EXCEPT ![Cur.fs] = AddCopy(@, Cur)]
            /\ UNCHANGED data
       ELSE /\ data' = [data EXCEPT ![Cur.fs] = @ \cup
                   {[table |-> TableOf(HashType(Cur.kind)), id |-> CurId, ts |-> timestamp_id[Cur.fs]]}]
            /\ UNCHANGED opsdata
    /\ UNCHANGED <<info, tsinfo, cacheVars>>

InsertData ==
    /\ AtStatement("data")
    /\ \/ Succeeds(Cur.fs) /\ AddData /\ Done
       \/ LosesReply(Cur.fs) /\ AddData /\ Error
       \/ Failed
    /\ Quiet

\* The running handler's next statement.
Statement ==
    \/ NextGroup \/ StartInsert \/ InsertOss \/ SelectOss \/ InsertInfo
    \/ SelectMds \/ SelectInfo \/ UpdateTimestamp \/ InsertData

---------------------------------------------------------------------------
(* The rest of the world.                                                  *)

Tick ==
    /\ now < MaxTime
    /\ now >= LastOutage => up
    /\ now' = now + 1
    /\ UNCHANGED <<up, faults, alive, tableVars, monitorVars, cacheVars, todo, pc>>

\* The server goes away and takes the connections with it: libmysqlclient
\* does not reconnect by itself.
ServerDown ==
    /\ up /\ now < LastOutage
    /\ up' = FALSE
    /\ alive' = {}
    /\ UNCHANGED <<now, faults, tableVars, monitorVars, cacheVars, todo, pc>>

ServerUp ==
    /\ ~up
    /\ up' = TRUE
    /\ UNCHANGED <<now, faults, alive, tableVars, monitorVars, cacheVars, todo, pc>>

\* cerebrod dies, possibly inside a handler, and is started again.
Restart ==
    /\ Fault
    /\ Disconnected
    /\ last_connect' = 0
    /\ tried' = 0
    /\ reconnect_needed' = TRUE
    /\ todo' = <<>>
    /\ pc' = "start"
    /\ UNCHANGED <<clockVars, tableVars>>

Next ==
    \/ \E m \in Metric : MetricUpdate(m)
    \/ Statement
    \/ Tick \/ ServerDown \/ ServerUp \/ Restart

Spec == Init /\ [][Next]_vars

\* cerebrod keeps receiving metrics and returns from its callback, time
\* passes, and an outage ends.
Fairness ==
    /\ WF_vars(\E m \in Metric : MetricUpdate(m))
    /\ WF_vars(Statement)
    /\ WF_vars(Tick)
    /\ WF_vars(ServerUp)

FairSpec == Spec /\ Fairness

---------------------------------------------------------------------------
(* Properties.                                                             *)

DataRow == [table : Table, id : Nat, ts : Nat]
OpsRow == [id : Nat, op : Op, ts : Nat, copy : Nat]

\* The values the variables range over.
TypeOK ==
    /\ now \in Nat /\ up \in BOOLEAN /\ faults \in Nat
    /\ alive \subseteq Db
    /\ info \in [Db -> [Table -> Seq(Row)]]
    /\ tsinfo \in [Db -> Seq(Nat)]
    /\ data \in [Db -> SUBSET DataRow]
    /\ opsdata \in [Db -> SUBSET OpsRow]
    /\ dbs \in {"NULL", "open"}
    /\ last_connect \in Nat /\ tried \in Nat
    /\ reconnect_needed \in BOOLEAN
    /\ timestamp \in [Db -> Nat]
    /\ timestamp_id \in [Db -> Nat]
    /\ idhash \in [Db -> [SvcType -> [Name -> Nat]]]
    /\ todo \in Seq(Seq(Job))
    /\ pc \in PC

\* A cached id is the id of the row it was cached for: no reconnect, failed
\* insert or duplicate key leaves the hash of a handle at odds with the tables.
IdhashSound ==
    \A f \in Db : \A p \in SvcType : \A n \in Name :
        idhash[f][p][n] # 0 => idhash[f][p][n] \in Matching(info[f], p, n)

\* The cached TS_ID is the row that holds the cached timestamp.
StampSound ==
    \A f \in Db :
        /\ timestamp[f] = 0 <=> timestamp_id[f] = 0
        /\ timestamp_id[f] # 0 =>
              /\ timestamp_id[f] \in 1 .. Len(tsinfo[f])
              /\ tsinfo[f][timestamp_id[f]] = timestamp[f]

\* Every stored sample refers to a target and to a timestamp that exist,
\* though no statement checks it: ids and TS_ID come from the handle's caches.
ReferencesExist ==
    \A f \in Db :
        /\ \A r \in data[f] :
              r.id \in 1 .. Len(info[f][r.table]) /\ r.ts \in 1 .. Len(tsinfo[f])
        /\ \A r \in opsdata[f] :
              r.id \in 1 .. Len(info[f]["mds"]) /\ r.ts \in 1 .. Len(tsinfo[f])
        /\ \A i \in 1 .. Len(info[f]["ost"]) :
              LET ost == info[f]["ost"][i] IN
              /\ ost.oss_id \in 1 .. Len(info[f]["oss"])
              /\ info[f]["oss"][ost.oss_id].name = ost.host

\* Operation counts join the MDS sample of the same metric: the handler takes
\* the TS_ID once, for MDS_DATA, and lmt_db_insert_mds_ops_data reuses it even
\* when the clock has moved on.
OpsJoinMds ==
    \A f \in Db : \A r \in opsdata[f] :
        [table |-> "mds", id |-> r.id, ts |-> r.ts] \in data[f]

\* A handler at work has handles: neither an error of an earlier insert nor
\* the throttle takes the list away under it.
HandlerHasHandles == todo # <<>> => dbs = "open"

\* What each statement finds when it runs: the id and the TS_ID it inserts are
\* set, and the OSS of a new OST is known; between inserts there is none.
StatementReady ==
    /\ todo = <<>> \/ Group = <<>> => pc = "start"
    /\ todo # <<>> /\ Group # <<>> =>
        /\ pc \in {"insert_oss", "select_oss"} => Cur.kind = "ost"
        /\ pc \in {"insert_info", "select_mds", "select_info", "timestamp"} => Cur.kind # "ops"
        /\ pc = "insert_info" /\ Cur.kind = "ost" => idhash[Cur.fs]["oss"][Cur.host] # 0
        /\ pc \in {"timestamp", "data"} => CurId # 0
        /\ pc = "data" => timestamp_id[Cur.fs] # 0

\* The operations of a group belong to the MDT the group starts with.
GroupShape(g) ==
    \A i \in 1 .. Len(g) :
        /\ g[i].kind = "mds" => g[i].fatal
        /\ g[i].kind = "ops" =>
              /\ g[i].ops # <<>>
              /\ ~g[i].fatal
              /\ \A j \in 1 .. i : /\ g[j].kind \in {"mds", "ops"}
                                 /\ g[j].fs = g[i].fs /\ g[j].name = g[i].name

StartsFresh(g) == Len(g) > 0 => g[1].kind # "ops"

TodoShape ==
    \A k \in 1 .. Len(todo) :
        GroupShape(todo[k]) /\ (k > 1 => StartsFresh(todo[k]))

\* When the operations of an MDT are next, its MDS_DATA row is stored under
\* the TS_ID they will use.
MdsRowFirst ==
    todo # <<>> /\ Group # <<>> /\ Cur.kind = "ops" /\ CurId # 0 =>
        /\ timestamp_id[Cur.fs] # 0
        /\ [table |-> "mds", id |-> CurId, ts |-> timestamp_id[Cur.fs]] \in data[Cur.fs]

\* Handles exist whenever none are asked for.
HandlesOpen == ~reconnect_needed => dbs = "open"

ClockStarted == now >= Interval

\* The inductive invariant behind the invariants above.
IInv ==
    /\ TypeOK /\ IdhashSound /\ StampSound /\ ReferencesExist /\ OpsJoinMds
    /\ HandlerHasHandles /\ HandlesOpen /\ ClockStarted
    /\ StatementReady /\ TodoShape /\ MdsRowFirst

\* A target is recorded in the database of its own file system ("lc1-OST0000
\* corresponds to filesystem_lc1", lmtdb.c:119) -- or, when that has none, in
\* the first whose name begins with its name: strncmp over the length of its
\* own name (lmtdb.c:133) takes filesystem_lc10 for that of lc1.
OwnDatabase ==
    \A f \in Db : \A t \in {"ost", "mds"} : \A i \in 1 .. Len(info[f][t]) :
        LET home == SvcFs[info[f][t][i].name] IN
        home # f => home \notin Db /\ <<home, f>> \in NamePrefix

\* Two attempts of one cerebrod to connect, failed ones included, are
\* MIN_RECONNECT_SECS apart: an outage, an unreadable database or handlers
\* that fail one after the other do not make it hammer the server.  tried is
\* when it really tried; last_connect, its own record, decides.
Attempt == \E m \in Metric : ConnectFails \/ Connect(m)

AttemptsApart ==
    [][Attempt /\ tried # 0 => now - tried >= MinReconnectSecs]_vars

\* No target is stored twice, whatever fails: behind an error between storing
\* its row and reading back its id the handles are rebuilt from the tables
\* before anything looks for it again.  Not so an OSS: the next OST of the same
\* metric, still with the old handles, stores it again, and from then on no
\* reconnect can load OSS_INFO (_populate_idhash_one fails on the second key).
NamesOnce ==
    \A f \in Db : \A t \in {"ost", "mds", "router"} :
        \A i, j \in 1 .. Len(info[f][t]) : info[f][t][i].name = info[f][t][j].name => i = j

\* The databases _svc_to_db chose for the targets, in what is left to do and
\* in the tables, whatever names are prefixes of others.
Jobs == UNION {{g[i] : i \in 1 .. Len(g)} : g \in {todo[k] : k \in 1 .. Len(todo)}}

Assigned(f, s) == s \in Svc /\ HasDb(s) /\ _svc_to_db(s) = f

TargetsAssigned ==
    /\ \A j \in Jobs : j.kind \in {"ost", "mds"} => Assigned(j.fs, j.name)
    /\ \A f \in Db : \A t \in {"ost", "mds"} : \A i \in 1 .. Len(info[f][t]) :
          Assigned(f, info[f][t][i].name)

\* Once the outages and faults are over the monitor notices which of its
\* connections died, and is connected to every database for good.
Recovers == <>[](dbs = "open" /\ ~reconnect_needed /\ alive = Db)

=============================================================================
