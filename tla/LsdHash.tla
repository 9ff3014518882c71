------------------------------ MODULE LsdHash ------------------------------
(* The hash table of liblsd/hash.c: Size slots, each a chain of nodes that  *)
(* point to an item and to the key inside it.  A table is a value, the      *)
(* operations are operators on it: its users hold no table across threads,  *)
(* so the mutex and the node allocator are left out.                        *)
(*                                                                          *)
(* The key of a node is the caller's memory (hkey), not a copy: nothing     *)
(* stops a callback of hash_for_each from changing it while the node stays  *)
(* in the slot it was inserted into (see LustreStats).                      *)
EXTENDS Naturals, Sequences

CONSTANTS
    Size,       \* slots, the first argument of hash_create
    key_f(_),   \* the hash function given to hash_create
    NULL

ASSUME SizeAssumption == Size \in Nat \ {0}

Slot == 0 .. Size - 1

hash_create == [table |-> [s \in Slot |-> <<>>], count |-> 0]

slot(key) == key_f(key) % Size

\* The places of a chain whose key compares equal, and the first of them,
\* where the loops of hash_find, hash_insert and hash_remove stop.
Matches(chain, key) == {i \in DOMAIN chain : chain[i].hkey = key}

FirstMatch(chain, key) ==
    CHOOSE i \in Matches(chain, key) : \A j \in Matches(chain, key) : i <= j

hash_find(h, key) ==
    LET chain == h.table[slot(key)]
    IN  IF Matches(chain, key) = {}
        THEN NULL
        ELSE chain[FirstMatch(chain, key)].data

\* A key that is there already is refused (EEXIST): the table is unchanged.
hash_insert(h, key, data) ==
    LET s == slot(key)
    IN  IF Matches(h.table[s], key) # {}
        THEN h
        ELSE [table |-> [h.table EXCEPT ![s] =
                            <<[hkey |-> key, data |-> data]>> \o @],
              count |-> h.count + 1]

hash_remove(h, key) ==
    LET s == slot(key)
        chain == h.table[s]
        i == FirstMatch(chain, key)
    IN  IF Matches(chain, key) = {}
        THEN h
        ELSE [table |-> [h.table EXCEPT ![s] =
                            SubSeq(chain, 1, i - 1)
                                \o SubSeq(chain, i + 1, Len(chain))],
              count |-> h.count - 1]

\* arg_f may write through the pointers it is given; what it makes of a node
\* is rekey(node).  Nodes keep their slot and their place in the chain.
hash_for_each(h, rekey(_)) ==
    [h EXCEPT !.table = [s \in Slot |->
        [i \in DOMAIN h.table[s] |-> rekey(h.table[s][i])]]]

=============================================================================
