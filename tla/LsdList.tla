-------------------------------- MODULE LsdList -------------------------------
(***************************************************************************)
(* src/liblsd/list.c: a singly linked list whose nodes come from a free    *)
(* list, with iterators that every insertion and removal adjusts.          *)
(*                                                                         *)
(* A ListNode* is the address of a `next' pointer: that of the list's head *)
(* (LHead) or that of a node.  The cell c holds the pointer next[c].  One   *)
(* chunk of LIST_ALLOC nodes is allocated; malloc fails when it is used    *)
(* up.  Callbacks (ListFindF, ListForF) are the set of items they accept,  *)
(* ListCmpF is the order Rank.  The list is used by one thread: LMT builds *)
(* liblsd without WITH_PTHREADS.                                           *)
(***************************************************************************)
EXTENDS Integers, Sequences, FiniteSets, SequencesExt

CONSTANTS Node,     \* the nodes of the chunk
          Pred,     \* the sets of items that callbacks accept
          Item, Iter, Rank, NULL, Closed,
          LHead,     \* the cell l->head
          Freed     \* what the free list leaves in a node's data

Cell == Node \cup {LHead}
Ptr  == Node \cup {NULL}

ASSUME ListAssumption == /\ IsFiniteSet(Node)
                         /\ Pred \subseteq SUBSET Item
                         /\ Rank \in [Item -> Int]
                         /\ LHead \notin Node /\ NULL \notin Node \cup Item
                         /\ Freed \notin Item
                         /\ Closed \notin [pos : Ptr, prev : Cell]
                         /\ Closed \notin [at : Nat, last : BOOLEAN]

VARIABLES data,     \* node -> p->data
          next,     \* cell -> the pointer stored there
          tail,     \* l->tail, the cell that holds the final NULL
          count,    \* l->count
          it,       \* iterator -> [pos, prev], or Closed
          free,     \* the nodes on list_free_nodes, in any order
          alive, ret, del

list == <<data, next, tail, count, it, free>>
vars == <<data, next, tail, count, it, free, alive, ret, del>>

(* The nodes from the head on; longer than the chunk if there is a cycle.  *)
Chain == LET n == Cardinality(Node)
             p[k \in 1..(n + 1)] == IF k = 1 THEN next[LHead]
                                    ELSE IF p[k - 1] = NULL THEN NULL
                                    ELSE next[p[k - 1]]
         IN [k \in 1..Cardinality({j \in 1..(n + 1) : p[j] # NULL}) |-> p[k]]

Open == {i \in Iter : it[i] # Closed}

-------------------------------------------------------------------------------
(* list_node_create and list_node_destroy, the only code that links and    *)
(* unlinks nodes, as functions of the list's memory.                       *)
Memory == [data |-> data, next |-> next, tail |-> tail, count |-> count,
           it |-> it, free |-> free]

Becomes(m) == /\ data' = m.data /\ next' = m.next /\ tail' = m.tail
              /\ count' = m.count /\ it' = m.it /\ free' = m.free

(* Appending without moving l->tail.                                       *)
MutTailStays(m, pp, p, x) ==
  [m EXCEPT !.data[p] = x, !.next = [@ EXCEPT ![p] = m.next[pp], ![pp] = p],
            !.count = @ + 1, !.free = @ \ {p}]

list_node_create(m, pp, p, x) ==
  LET after == m.next[pp]
  IN [data  |-> [m.data EXCEPT ![p] = x],
      next  |-> [m.next EXCEPT ![p] = after, ![pp] = p],
      tail  |-> IF after = NULL THEN p ELSE m.tail,
      count |-> m.count + 1,
      it    |-> [i \in Iter |->
                   IF m.it[i] = Closed THEN Closed
                   ELSE IF m.it[i].prev = pp   THEN [m.it[i] EXCEPT !.prev = p]
                   ELSE IF m.it[i].pos = after THEN [m.it[i] EXCEPT !.pos = p]
                   ELSE m.it[i]],
      free  |-> m.free \ {p}]

(* An iterator forgets the last item it returned when the item after it    *)
(* goes: the plausible slip is to adjust pos and leave prev alone.         *)
MutKeepsPrev(m, pp) ==
  LET p == m.next[pp]
  IN [data  |-> [m.data EXCEPT ![p] = Freed],
      next  |-> [m.next EXCEPT ![pp] = m.next[p]],
      tail  |-> IF m.next[p] = NULL THEN pp ELSE m.tail,
      count |-> m.count - 1,
      it    |-> [i \in Iter |->
                   IF m.it[i] # Closed /\ m.it[i].pos = p
                   THEN [m.it[i] EXCEPT !.pos = m.next[p]] ELSE m.it[i]],
      free  |-> m.free \cup {p}]

list_node_destroy(m, pp) ==
  LET p == m.next[pp]
  IN [data  |-> [m.data EXCEPT ![p] = Freed],
      next  |-> [m.next EXCEPT ![pp] = m.next[p]],
      tail  |-> IF m.next[p] = NULL THEN pp ELSE m.tail,
      count |-> m.count - 1,
      it    |-> [i \in Iter |->
                   IF m.it[i] = Closed THEN Closed
                   ELSE IF m.it[i].pos = p  THEN [pos |-> m.next[p], prev |-> pp]
                   ELSE IF m.it[i].prev = p THEN [m.it[i] EXCEPT !.prev = pp]
                   ELSE m.it[i]],
      free  |-> m.free \cup {p}]

Returns(v, d) == ret' = v /\ del' = d
Nothing(v)    == Returns(v, << >>) /\ UNCHANGED <<list, alive>>

Create(pp, x) ==
  \/ /\ \E p \in free : Becomes(list_node_create(Memory, pp, p, x))
     /\ Returns(x, << >>)
     /\ UNCHANGED alive
  \/ /\ free = {}                         \* lsd_nomem_error
     /\ Nothing(NULL)

Destroy(pp) ==
  \/ /\ next[pp] = NULL
     /\ Nothing(NULL)
  \/ /\ next[pp] # NULL
     /\ Becomes(list_node_destroy(Memory, pp))
     /\ Returns(data[next[pp]], << >>)
     /\ UNCHANGED alive

-------------------------------------------------------------------------------
Init == /\ data = [n \in Node |-> Freed]
        /\ next = [c \in Cell |-> NULL]
        /\ tail = LHead
        /\ count = 0
        /\ it = [i \in Iter |-> Closed]
        /\ free = Node
        /\ alive = FALSE
        /\ ret = NULL
        /\ del = << >>

list_create == /\ ~alive
               /\ alive' = TRUE
               /\ next' = [next EXCEPT ![LHead] = NULL]
               /\ tail' = LHead
               /\ count' = 0
               /\ Returns(NULL, << >>)
               /\ UNCHANGED <<data, it, free>>

(* Nodes are freed in order; head, tail and count are left as they are     *)
(* until list_create.                                                      *)
list_destroy ==
  /\ alive
  /\ alive' = FALSE
  /\ it' = [i \in Iter |-> Closed]
  /\ data' = [n \in Node |-> Freed]
  /\ free' = free \cup ToSet(Chain)
  /\ Returns(NULL, [k \in 1..Len(Chain) |-> data[Chain[k]]])
  /\ UNCHANGED <<next, tail, count>>

(* list_enqueue is list_append, list_push is list_prepend and list_pop is  *)
(* list_dequeue, line by line.                                             *)
list_append(x)  == alive /\ Create(tail, x)
list_prepend(x) == alive /\ Create(LHead, x)
list_dequeue    == alive /\ Destroy(LHead)

list_count == alive /\ Nothing(count)
list_peek  == alive /\ Nothing(IF next[LHead] = NULL THEN NULL ELSE data[next[LHead]])

(* The first node whose item is in P, as its place in the chain.           *)
FirstIn(P) == {k \in 1..Len(Chain) : /\ data[Chain[k]] \in P
                                     /\ \A j \in 1..(k - 1) : data[Chain[j]] \notin P}

list_find_first(P) == /\ alive
                      /\ \/ FirstIn(P) = {} /\ Nothing(NULL)
                         \/ \E k \in FirstIn(P) : Nothing(data[Chain[k]])

list_for_each(P) == /\ alive
                    /\ \/ FirstIn(P) = {} /\ Nothing(Len(Chain))
                       \/ \E k \in FirstIn(P) : Nothing(-k)

(* One round of the loop: pp stays where a node was taken out.             *)
Visit(P, st) ==
  LET p == st.mem.next[st.pp]
      v == st.mem.data[p]
  IN IF v \in P
     THEN [mem |-> list_node_destroy(st.mem, st.pp), pp |-> st.pp, out |-> Append(st.out, v)]
     ELSE [st EXCEPT !.pp = p]

(* The rounds from the head on, one for each node that is in the list when *)
(* the call begins.                                                        *)
Visited(P) ==
  LET st[k \in 0..Len(Chain)] ==
        IF k = 0 THEN [mem |-> Memory, pp |-> LHead, out |-> << >>]
        ELSE Visit(P, st[k - 1])
  IN st[Len(Chain)]

list_delete_all(P) == LET end == Visited(P)
                      IN /\ alive
                         /\ Becomes(end.mem)
                         /\ Returns(Len(end.out), end.out)
                         /\ UNCHANGED alive

(* The search compared with <= instead of <.                               *)
MutUnstable(sorted, n) ==
  LET geq == {k \in 1..Len(sorted) : Rank[data[n]] <= Rank[data[sorted[k]]]}
  IN IF geq = {} THEN Append(sorted, n)
     ELSE InsertAt(sorted, CHOOSE k \in geq : \A j \in geq : k <= j, n)

(* Insertion sort: a node smaller than the one before it is moved in front *)
(* of the first node that is greater than it.                              *)
Insertion(sorted, n) ==
  LET greater == {k \in 1..Len(sorted) : Rank[data[n]] < Rank[data[sorted[k]]]}
  IN IF greater = {} THEN Append(sorted, n)
     ELSE InsertAt(sorted, CHOOSE k \in greater : \A j \in greater : k <= j, n)

Sorted == LET st[k \in 0..Len(Chain)] ==
                IF k = 0 THEN << >> ELSE Insertion(st[k - 1], Chain[k])
          IN st[Len(Chain)]

list_sort ==
  LET sorted == Sorted
      after(c) == IF c = LHead THEN 1
                  ELSE (CHOOSE k \in 1..Len(sorted) : sorted[k] = c) + 1
  IN /\ alive
     /\ \/ /\ count > 1
           /\ next' = [c \in Cell |->
                         IF c # LHead /\ c \notin ToSet(sorted) THEN next[c]
                         ELSE IF after(c) > Len(sorted) THEN NULL ELSE sorted[after(c)]]
           /\ tail' = sorted[Len(sorted)]
           /\ it' = [i \in Iter |->
                       IF i \in Open THEN [pos |-> sorted[1], prev |-> LHead] ELSE Closed]
        \/ /\ count <= 1
           /\ UNCHANGED <<next, tail, it>>
     /\ Returns(NULL, << >>)
     /\ UNCHANGED <<data, count, free, alive>>

-------------------------------------------------------------------------------
AtStart == [pos |-> next[LHead], prev |-> LHead]

list_iterator_create(i) == /\ alive
                           /\ it[i] = Closed
                           /\ it' = [it EXCEPT ![i] = AtStart]
                           /\ Returns(NULL, << >>)
                           /\ UNCHANGED <<data, next, tail, count, free, alive>>

list_iterator_reset(i) == /\ i \in Open
                          /\ it' = [it EXCEPT ![i] = AtStart]
                          /\ Returns(NULL, << >>)
                          /\ UNCHANGED <<data, next, tail, count, free, alive>>

list_iterator_destroy(i) == /\ i \in Open
                            /\ it' = [it EXCEPT ![i] = Closed]
                            /\ Returns(NULL, << >>)
                            /\ UNCHANGED <<data, next, tail, count, free, alive>>

(* list_next as a function of the iterator.                                *)
Advanced(j) == [pos  |-> IF j.pos = NULL THEN NULL ELSE next[j.pos],
                prev |-> IF next[j.prev] # j.pos THEN next[j.prev] ELSE j.prev]

(* list_find(i, f, key) repeats list_next; list_next is its first round,   *)
(* with an f that accepts every item.                                      *)
list_find(i, P) ==
  LET step[k \in 0..(count + 1)] == IF k = 0 THEN it[i] ELSE Advanced(step[k - 1])
      Stops(k) == step[k].pos = NULL \/ data[step[k].pos] \in P
      last     == CHOOSE k \in 0..count : Stops(k) /\ \A j \in 0..(k - 1) : ~Stops(j)
      found    == step[last].pos
  IN /\ i \in Open
     /\ it' = [it EXCEPT ![i] = step[last + 1]]
     /\ Returns(IF found = NULL THEN NULL ELSE data[found], << >>)
     /\ UNCHANGED <<data, next, tail, count, free, alive>>

list_insert(i, x) == i \in Open /\ Create(it[i].prev, x)

list_remove(i) == /\ i \in Open
                  /\ \/ next[it[i].prev] # it[i].pos /\ Destroy(it[i].prev)
                     \/ next[it[i].prev] = it[i].pos /\ Nothing(NULL)

(* list_remove and, if it removed something, fDel.                         *)
list_delete(i) ==
  /\ i \in Open
  /\ \/ /\ next[it[i].prev] # it[i].pos
        /\ next[it[i].prev] # NULL
        /\ Becomes(list_node_destroy(Memory, it[i].prev))
        /\ Returns(1, <<data[next[it[i].prev]]>>)
        /\ UNCHANGED alive
     \/ /\ \/ next[it[i].prev] = it[i].pos
           \/ next[it[i].prev] = NULL
        /\ Nothing(0)

OnList == \/ list_create \/ list_destroy \/ list_dequeue
          \/ list_sort \/ list_count \/ list_peek
          \/ \E x \in Item : list_append(x) \/ list_prepend(x)
          \/ \E P \in Pred :
               list_delete_all(P) \/ list_find_first(P) \/ list_for_each(P)

OnIterator(i) == \/ list_iterator_create(i) \/ list_iterator_reset(i)
                 \/ list_iterator_destroy(i) \/ list_remove(i) \/ list_delete(i)
                 \/ \E x \in Item : list_insert(i, x)
                 \/ \E P \in Pred : list_find(i, P)

Next == OnList \/ \E i \in Iter : OnIterator(i)

Spec == Init /\ [][Next]_vars

-------------------------------------------------------------------------------
(* Every node is in the list once or on the free list once, count and tail *)
(* agree with the chain: no call leaks a node, frees it twice or leaves a  *)
(* freed one linked.                                                       *)
ChainSound ==
  alive => /\ count = Len(Chain)
           /\ tail = IF Chain = << >> THEN LHead ELSE Chain[Len(Chain)]
           /\ IsInjective(Chain)
           /\ free = Node \ ToSet(Chain)
           /\ \A n \in Node : data[n] = Freed <=> n \in free

(* The assertion of list.c:684 and list.c:719, for every iterator and      *)
(* after every call, and what makes it safe to evaluate: both pointers of  *)
(* an iterator stay inside the list while others remove nodes under it.    *)
IterSound ==
  \A i \in Open : /\ it[i].prev \in ToSet(Chain) \cup {LHead}
                  /\ it[i].pos \in ToSet(Chain) \cup {NULL}
                  /\ \/ it[i].pos = next[it[i].prev]
                     \/ /\ next[it[i].prev] # NULL
                        /\ it[i].pos = next[next[it[i].prev]]

Passed(i) == IF it[i].pos = NULL THEN Len(Chain)
             ELSE (CHOOSE k \in 1..Len(Chain) : Chain[k] = it[i].pos) - 1
Items == IF alive THEN [k \in 1..Len(Chain) |-> data[Chain[k]]] ELSE << >>
Places == [i \in Iter |->
             IF it[i] = Closed THEN Closed
             ELSE [at |-> Passed(i), last |-> next[it[i].prev] # it[i].pos]]
Abstract == INSTANCE LsdSeq WITH seq <- Items, cur <- Places, Keeps <- FALSE

(* The list implements a sequence with iterators: same items, same         *)
(* results, same items deleted, and every iterator at the place the        *)
(* sequence gives it, whatever other callers do to the list.  The sequence *)
(* is that of list.h with one exception (Keeps FALSE): list.h has          *)
(* list_remove take out "the last item returned via list iterator [i]"     *)
(* whatever has become of the others; but when the item right behind it is *)
(* taken out, list_node_destroy (list.c:716) moves prev past it, and       *)
(* list_remove finds nothing.                                              *)
ImplementsSeq == Abstract!Spec
===============================================================================
