------------------------------ MODULE LmtMysql ------------------------------
(***************************************************************************)
(* The database side of LMT: the tables of one "filesystem_<fs>" MySQL     *)
(* database per file system, and the part of a lmt_db_t handle             *)
(* (src/liblmtdb/lmtmysql.c) that caches them.                             *)
(*                                                                         *)
(* Abstractions.                                                           *)
(*  - A *_INFO table is the sequence of its rows; the auto_increment id of *)
(*    a row is its position.  Nothing in LMT deletes rows of these tables. *)
(*  - The DATA tables keep their keys only: the counters of a sample decide*)
(*    nothing.  MDS_DATA, OSS_DATA, OST_DATA and ROUTER_DATA have a primary*)
(*    key and are sets; MDS_OPS_DATA has none: its rows carry a copy number. *)
(*  - Foreign keys are not enforced (as with MyISAM), so a dangling id     *)
(*    would be stored, not rejected.                                       *)
(*  - The hash of svcid_t keyed by "<type>_<name>" is a function from      *)
(*    (type, name) to the id, 0 when the key is not in the hash.           *)
(***************************************************************************)
EXTENDS Naturals, Sequences

CONSTANTS
    Host,        \* names of servers (OSS, MDS, routers)
    Svc,         \* names of targets (OSTs and MDTs)
    Op           \* names of metadata operations

Name == Host \cup Svc

\* The four *_INFO tables, by the service type they describe.
Table == {"mds", "oss", "ost", "router"}

\* The prefixes of idhash keys that come from these tables.
SvcType == {"mds", "mdt", "oss", "ost", "router"}

\* Row of a *_INFO table; oss_id is used by OST_INFO only.
Row == [name : Name, host : Name, oss_id : Nat]

\* MDS_INFO is read twice: by HOSTNAME under "mds", by MDS_NAME under "mdt".
TableOf(pfx) == IF pfx = "mdt" THEN "mds" ELSE pfx

Column(pfx, row) == IF pfx = "mds" THEN row.host ELSE row.name

\* Ids whose key column holds n: the result of sql_sel_<pfx>_info_tmpl.
Matching(tables, pfx, n) ==
    {i \in 1 .. Len(tables[TableOf(pfx)]) :
        Column(pfx, tables[TableOf(pfx)][i]) = n}

EmptyHash == [p \in SvcType |-> [n \in Name |-> 0]]

\* _populate_idhash stops at the first key hash_insert finds already there.
Populates(tables) ==
    \A p \in SvcType : \A i, j \in 1 .. Len(tables[TableOf(p)]) :
        Column(p, tables[TableOf(p)][i]) = Column(p, tables[TableOf(p)][j])
            => i = j

\* Mutant of _populate_idhash: every table is keyed by HOSTNAME.
MutWrongColumn(tables) ==
    [p \in SvcType |-> [n \in Name |->
        LET rows == tables[TableOf(p)]
            ids == {i \in 1 .. Len(rows) : rows[i].host = n}
        IN  IF ids = {} THEN 0 ELSE CHOOSE i \in ids : TRUE]]

\* The hash _populate_idhash leaves behind when it succeeds.
_populate_idhash(tables) ==
    [p \in SvcType |-> [n \in Name |->
        IF Matching(tables, p, n) = {} THEN 0
        ELSE CHOOSE i \in Matching(tables, p, n) : TRUE]]

\* hash_insert refuses a key that is present (EEXIST).
CanHash(hash, pfx, n) == hash[pfx][n] = 0

HashInsert(hash, pfx, n, id) == [hash EXCEPT ![pfx][n] = id]

\* _update_timestamp rounds down to a multiple of LMT_UPDATE_INTERVAL.
RoundDown(t, interval) == t - (t % interval)

=============================================================================
