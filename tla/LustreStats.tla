---------------------------- MODULE LustreStats ----------------------------
(* The statistics hashes of libproc/lustre.c: "key value" lines of a stats  *)
(* file are hashed, per-export files of Lustre 2.0.0 to 2.0.55 are added    *)
(* up, and the "mds_" of Lustre 2.x key names is cut off in place.          *)
(*                                                                          *)
(* A line is [key, val]: the key a sequence of character codes, because     *)
(* where a key is found depends on them, the value its sample count.        *)
EXTENDS LsdHash, SequencesExt

CONSTANTS
    Prefix,         \* "mds_"
    SnapshotTime    \* the key "snapshot_time"

\* hash_key_string: hval += 31 * hval + c, in unsigned arithmetic.  TLC has
\* no 32 bit words; any word whose size Size divides gives the same slots.
Word == 16777216    \* 2^24

\* Mutant: the multiplier is 31, as its name says.
MutTimes31(str) ==
    LET hval[i \in 0 .. Len(str)] ==
            IF i = 0 THEN 0 ELSE (31 * hval[i - 1] + str[i]) % Word
    IN  hval[Len(str)]

hash_key_string(str) ==
    LET hval[i \in 0 .. Len(str)] ==
            IF i = 0 THEN 0 ELSE ((31 + 1) * hval[i - 1] + str[i]) % Word
    IN  hval[Len(str)]

\* A file is read line by line: a loop over a hash that starts as h.  (Binding
\* a to the one value it has makes TLC compute it only once.)
ForEachLine(h, lines, body(_, _)) ==
    LET loop[i \in 0 .. Len(lines)] ==
            IF i = 0 THEN h
            ELSE CHOOSE r \in {body(a, lines[i]) : a \in {loop[i - 1]}} : TRUE
    IN  loop[Len(lines)]

_hash_insert_lastinwins(h, key, data) ==
    IF hash_find(h, key) = NULL
    THEN hash_insert(h, key, data)
    ELSE hash_insert(hash_remove(h, key), key, data)

_hash_stats(h, lines) ==
    ForEachLine(h, lines,
        LAMBDA a, l : _hash_insert_lastinwins(a, l.key, l.val))

proc_lustre_parsestat(h, key) ==
    IF hash_find(h, key) = NULL THEN 0 ELSE hash_find(h, key)

_hash_aggregate_stats(h, lines) ==
    ForEachLine(h, lines,
        LAMBDA a, l :
            IF l.key = SnapshotTime
            THEN a
            ELSE hash_insert(hash_remove(a, l.key), l.key,
                             proc_lustre_parsestat(a, l.key) + l.val))

Stripped(key) == SubSeq(key, Len(Prefix) + 1, Len(key))

HasPrefix(key) == IsPrefix(Prefix, key)

_rekey_mdt_stats(node) ==
    IF HasPrefix(node.hkey)
    THEN [node EXCEPT !.hkey = Stripped(node.hkey)]
    ELSE node

-----------------------------------------------------------------------------
(* The reference: what a reader of the files would report for an operation. *)

\* The lines that name one of the keys, and the last of them.
Naming(lines, keys) == {i \in DOMAIN lines : lines[i].key \in keys}

LastOf(lines, keys) ==
    lines[CHOOSE i \in Naming(lines, keys) : \A j \in Naming(lines, keys) : j <= i]

LastValue(lines, keys) ==
    IF Naming(lines, keys) = {} THEN 0 ELSE LastOf(lines, keys).val

SumOf(lines, key) ==
    LET sum[i \in 0 .. Len(lines)] ==
            IF i = 0 THEN 0
            ELSE sum[i - 1] + (IF lines[i].key = key THEN lines[i].val ELSE 0)
    IN  sum[Len(lines)]

\* An operation has two names.  The last line that has one of them decides
\* which of the two counts; an export's value is added to those of the other
\* exports and of the target, any other value stands alone.
Reported(stats, exports, op) ==
    LET spellings == {op, Prefix \o op}
        key == LastOf(exports, spellings).key
    IN  IF Naming(exports, spellings) = {}
        THEN LastValue(stats, spellings)
        ELSE LastValue(stats, {key}) + SumOf(exports, key)

=============================================================================
