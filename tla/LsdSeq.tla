-------------------------------- MODULE LsdSeq --------------------------------
(***************************************************************************)
(* What src/liblsd/list.h promises of a List: a sequence of items and      *)
(* iterators that keep their place while anybody else changes the list.    *)
(* No nodes, no pointers, no free list.                                    *)
(*                                                                         *)
(* There is one point on which list.c does not keep what list.h says, and  *)
(* Keeps tells the two apart.  "Removes from the list the last item        *)
(* returned via list iterator [i]" has no exception, which is Keeps = TRUE *)
(* here; in list.c an iterator has no last item any more once the item     *)
(* behind that is taken out, which is Keeps = FALSE.  LsdList implements   *)
(* the list with Keeps = FALSE.  Keeps = TRUE is refuted by two items, an  *)
(* iterator past the first, and the removal of the second by another one.  *)
(*                                                                         *)
(* An iterator has passed `at` items.  `last` says whether the item it     *)
(* returned last, seq[at], can still be removed through it.                *)
(***************************************************************************)
EXTENDS Integers, Sequences, FiniteSets, SequencesExt

CONSTANTS Item,     \* what the caller stores, never NULL
          Iter,     \* iterators
          Rank,     \* the order of the comparison function given to list_sort
          Pred,     \* the sets of items that callbacks accept
          NULL, Closed,
          Keeps     \* TRUE: a last item outlives the item behind it

VARIABLES seq,      \* the items, in order
          cur,      \* iterator -> its place, or Closed
          alive,    \* between list_create and list_destroy
          ret,      \* what the last call returned
          del       \* the items the last call handed to the ListDelF

vars == <<seq, cur, alive, ret, del>>

Place == [at : Nat, last : BOOLEAN]
Start == [at |-> 0, last |-> FALSE]

TypeOK == /\ seq \in Seq(Item)
          /\ cur \in [Iter -> Place \cup {Closed}]
          /\ alive \in BOOLEAN
          /\ del \in Seq(Item)

Open == {i \in Iter : cur[i] # Closed}

(* The place of each iterator after an item has gone in before seq[k+1].   *)
(* An iterator right there with no last item, a fresh one or one whose     *)
(* last item is gone, skips the new item (list.c:680).                     *)
AfterInsert(c, k) ==
  [i \in Iter |->
     IF c[i] = Closed THEN Closed
     ELSE IF c[i].at > k \/ (c[i].at = k /\ ~c[i].last)
     THEN [c[i] EXCEPT !.at = @ + 1] ELSE c[i]]

(* The place of each iterator after seq[k] has been taken out: one right   *)
(* behind it has no last item any more, and one right in front of it has   *)
(* none unless it Keeps it.                                                *)
AfterRemove(c, k) ==
  [i \in Iter |->
     IF c[i] = Closed THEN Closed
     ELSE IF c[i].at > k THEN [c[i] EXCEPT !.at = @ - 1]
     ELSE IF c[i].at \in {k - 1, k} THEN [at |-> k - 1, last |-> Keeps /\ c[i].at < k /\ c[i].last]
     ELSE c[i]]

Returns(v, d) == ret' = v /\ del' = d

Init == /\ seq = << >>
        /\ cur = [i \in Iter |-> Closed]
        /\ alive = FALSE
        /\ ret = NULL
        /\ del = << >>

list_create == /\ ~alive
               /\ alive' = TRUE
               /\ Returns(NULL, << >>)
               /\ UNCHANGED <<seq, cur>>

list_destroy == /\ alive
                /\ alive' = FALSE
                /\ seq' = << >>
                /\ cur' = [i \in Iter |-> Closed]
                /\ Returns(NULL, seq)

(* Insertion fails only for want of memory, and then changes nothing.      *)
Insert(k, x) == /\ Returns(x, << >>)
                /\ seq' = InsertAt(seq, k + 1, x)
                /\ cur' = AfterInsert(cur, k)
                /\ UNCHANGED alive

NoMemory == /\ alive
            /\ Returns(NULL, << >>)
            /\ UNCHANGED <<seq, cur, alive>>

list_append(x)    == alive /\ Insert(Len(seq), x)
list_prepend(x)   == alive /\ Insert(0, x)
list_insert(i, x) == /\ i \in Open
                     /\ Insert(IF cur[i].last THEN cur[i].at - 1 ELSE cur[i].at, x)

TakeOut(k, d) == /\ Returns(IF d THEN 1 ELSE seq[k], IF d THEN <<seq[k]>> ELSE << >>)
                 /\ seq' = RemoveAt(seq, k)
                 /\ cur' = AfterRemove(cur, k)
                 /\ UNCHANGED alive

Nothing(v) == Returns(v, << >>) /\ UNCHANGED <<seq, cur, alive>>

(* list_pop and list_dequeue.                                              *)
list_dequeue == /\ alive
                /\ \/ seq # << >> /\ TakeOut(1, FALSE)
                   \/ seq = << >> /\ Nothing(NULL)

list_remove(i, d) == /\ i \in Open
                     /\ \/ cur[i].last /\ TakeOut(cur[i].at, d)
                        \/ ~cur[i].last /\ Nothing(IF d THEN 0 ELSE NULL)

(* Of the places S of the sequence: how many are among the first k, which  *)
(* is the j-th, and what the sequence has there.                           *)
Among(S, k) == Cardinality({j \in S : j <= k})
Nth(S, j)   == CHOOSE k \in S : Among(S, k) = j
Part(S)     == [j \in 1..Cardinality(S) |-> seq[Nth(S, j)]]

(* Every item of P goes.  An iterator keeps the items ahead of it that     *)
(* stay, and its last item unless that went, or the next one (see Keeps).  *)
list_delete_all(P) ==
  LET gone == {k \in 1..Len(seq) : seq[k] \in P}
      kept == (1..Len(seq)) \ gone
  IN /\ alive
     /\ Returns(Cardinality(gone), Part(gone))
     /\ seq' = Part(kept)
     /\ cur' = [i \in Iter |->
                  IF cur[i] = Closed THEN Closed
                  ELSE [at   |-> Among(kept, cur[i].at),
                        last |-> /\ cur[i].last
                                 /\ cur[i].at \notin gone
                                 /\ Keeps \/ cur[i].at + 1 \notin gone]]
     /\ UNCHANGED alive

(* A stable sort: the unique order of the positions by rank, then by place.*)
Before(j, k) == \/ Rank[seq[j]] < Rank[seq[k]]
                \/ Rank[seq[j]] = Rank[seq[k]] /\ j < k
Order == CHOOSE o \in [1..Len(seq) -> 1..Len(seq)] :
           \A j, k \in 1..Len(seq) : j < k => Before(o[j], o[k])

list_sort == /\ alive
             /\ Returns(NULL, << >>)
             /\ seq' = [k \in 1..Len(seq) |-> seq[Order[k]]]
             /\ cur' = IF Len(seq) > 1
                       THEN [i \in Iter |-> IF i \in Open THEN Start ELSE Closed]
                       ELSE cur
             /\ UNCHANGED alive

(* list_count, list_peek, list_find_first and list_for_each, whose         *)
(* callback fails on the items of P.                                       *)
FirstIn(P) == {k \in 1..Len(seq) :
                 seq[k] \in P /\ \A j \in 1..(k - 1) : seq[j] \notin P}
list_count         == alive /\ Nothing(Len(seq))
list_peek          == alive /\ Nothing(IF seq = << >> THEN NULL ELSE seq[1])
list_find_first(P) == /\ alive
                      /\ \/ FirstIn(P) = {} /\ Nothing(NULL)
                         \/ \E k \in FirstIn(P) : Nothing(seq[k])
list_for_each(P)   == /\ alive
                      /\ \/ FirstIn(P) = {} /\ Nothing(Len(seq))
                         \/ \E k \in FirstIn(P) : Nothing(-k)

list_iterator_create(i)  == /\ alive
                            /\ cur[i] = Closed
                            /\ cur' = [cur EXCEPT ![i] = Start]
                            /\ Returns(NULL, << >>)
                            /\ UNCHANGED <<seq, alive>>
list_iterator_reset(i)   == /\ i \in Open
                            /\ cur' = [cur EXCEPT ![i] = Start]
                            /\ Returns(NULL, << >>)
                            /\ UNCHANGED <<seq, alive>>
list_iterator_destroy(i) == /\ i \in Open
                            /\ cur' = [cur EXCEPT ![i] = Closed]
                            /\ Returns(NULL, << >>)
                            /\ UNCHANGED <<seq, alive>>

(* list_find with the items of P; list_next is list_find with all of them. *)
list_find(i, P) ==
  /\ i \in Open
  /\ LET ahead == {k \in (cur[i].at + 1)..Len(seq) :
                     seq[k] \in P /\ \A j \in (cur[i].at + 1)..(k - 1) : seq[j] \notin P}
     IN \/ \E k \in ahead : /\ Returns(seq[k], << >>)
                            /\ cur' = [cur EXCEPT ![i] = [at |-> k, last |-> TRUE]]
        \/ /\ ahead = {}
           /\ Returns(NULL, << >>)
           /\ cur' = [cur EXCEPT ![i] = [at |-> Len(seq), last |-> FALSE]]
  /\ UNCHANGED <<seq, alive>>

OnList == \/ list_create \/ list_destroy \/ list_dequeue
          \/ list_sort \/ list_count \/ list_peek \/ NoMemory
          \/ \E x \in Item : list_append(x) \/ list_prepend(x)
          \/ \E P \in Pred :
               list_delete_all(P) \/ list_find_first(P) \/ list_for_each(P)

OnIterator(i) == \/ list_iterator_create(i) \/ list_iterator_reset(i)
                 \/ list_iterator_destroy(i)
                 \/ \E x \in Item : list_insert(i, x)
                 \/ \E d \in BOOLEAN : list_remove(i, d)
                 \/ \E P \in Pred : list_find(i, P)

Next == OnList \/ \E i \in Iter : OnIterator(i)

Spec == Init /\ [][Next]_vars
===============================================================================
