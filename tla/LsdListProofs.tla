---------------------------- MODULE LsdListProofs -----------------------------
(***************************************************************************)
(* list.c implements list.h, for any chunk of nodes, any number of         *)
(* iterators, any items and any comparison function.                       *)
(*                                                                         *)
(* The chain of a list is defined by walking it.  The invariant Inv turns  *)
(* this around: there is a sequence of distinct nodes that the pointers    *)
(* follow, and a place in it for each iterator.  What InsertAt and         *)
(* RemoveAt do to such a sequence, and to a place, is what                 *)
(* list_node_create and list_node_destroy do to the pointers; each call    *)
(* of list.c then has one lemma, Step_<call>.  The loops of list_find,     *)
(* list_delete_all and list_sort have an invariant each.                   *)
(***************************************************************************)
EXTENDS LsdList, LmtLemmas, SequenceTheorems

-------------------------------------------------------------------------------
(* What InsertAt computes, as a function of the positions.                 *)
Ins(s, k, e) == [j \in 1..(Len(s) + 1) |->
                   IF j < k THEN s[j] ELSE IF j = k THEN e ELSE s[j - 1]]

(* InsertAt as such a function.                                            *)
LEMMA InsertAtIs ==
  ASSUME NEW T, NEW s \in Seq(T), NEW e \in T, NEW k \in 1..(Len(s) + 1)
  PROVE  /\ InsertAt(s, k, e) = Ins(s, k, e)
         /\ Ins(s, k, e) \in Seq(T) /\ Len(Ins(s, k, e)) = Len(s) + 1
<1> DEFINE a == SubSeq(s, 1, k - 1)
           b == SubSeq(s, k, Len(s))
<1>1. Sliced(SubSeq(s, 0 + 1, 0 + (k - 1)), s, 0, k - 1, T)
  <2>1. k - 1 \in Nat /\ 0 + (k - 1) <= Len(s)
    OBVIOUS
  <2> QED
    BY <2>1, Slice
<1>2. a \in Seq(T) /\ Len(a) = k - 1 /\ \A j \in 1..(k - 1) : a[j] = s[j]
  BY <1>1 DEF Sliced
<1>3. k - 1 \in 0..Len(s) /\ (k - 1) + 1 = k
  OBVIOUS
<1>4. /\ SubSeq(s, (k - 1) + 1, Len(s)) \in Seq(T)
      /\ Len(SubSeq(s, (k - 1) + 1, Len(s))) = Len(s) - (k - 1)
      /\ \A j \in 1..(Len(s) - (k - 1)) : SubSeq(s, (k - 1) + 1, Len(s))[j] = s[(k - 1) + j]
  BY <1>3, WithoutFirst
<1>5. /\ b \in Seq(T) /\ Len(b) = Len(s) - (k - 1)
      /\ \A j \in 1..(Len(s) - (k - 1)) : b[j] = s[(k - 1) + j]
  BY <1>3, <1>4
<1> HIDE DEF a, b
<1>6. Ins(s, k, e) \in [1..(Len(s) + 1) -> T]
  BY DEF Ins
<1>7. Ins(s, k, e) \in Seq(T) /\ Len(Ins(s, k, e)) = Len(s) + 1
  BY <1>6, FcnSeq
<1>8. a \o <<e>> \in Seq(T) /\ Len(a \o <<e>>) = k
      /\ \A j \in 1..k : (a \o <<e>>)[j] = IF j < k THEN s[j] ELSE e
  BY <1>2
<1> DEFINE d == a \o <<e>>
<1> HIDE DEF d
<1>9. d \in Seq(T) /\ Len(d) = k
  BY <1>8 DEF d
<1> DEFINE r == d \o b
<1>10. /\ r \in Seq(T) /\ Len(r) = Len(d) + Len(b)
       /\ \A j \in 1..(Len(d) + Len(b)) : r[j] = IF j <= Len(d) THEN d[j] ELSE b[j - Len(d)]
  BY <1>5, <1>9, ConcatProperties
<1> HIDE DEF r
<1>11. Len(s) \in Nat /\ Len(d) + Len(b) = Len(s) + 1
  BY <1>5, <1>9
<1>12. ASSUME NEW j \in 1..(Len(s) + 1) PROVE r[j] = Ins(s, k, e)[j]
  <2>1. CASE j <= k
    BY <2>1, <1>8, <1>9, <1>10, <1>11 DEF Ins, d
  <2>2. CASE j > k
    <3>1. j - k \in 1..(Len(s) - (k - 1)) /\ (k - 1) + (j - k) = j - 1
      BY <2>2
    <3> QED
      BY <2>2, <3>1, <1>5, <1>9, <1>10, <1>11 DEF Ins
  <2> QED
    BY <2>1, <2>2, <1>11
<1>13. r = Ins(s, k, e)
  BY <1>7, <1>10, <1>11, <1>12, SameSeq
<1> QED
  BY <1>7, <1>13 DEF r, d, a, b, InsertAt

(* RemoveAt as such a function.                                            *)
LEMMA RemoveAtIs ==
  ASSUME NEW T, NEW s \in Seq(T), NEW k \in 1..Len(s)
  PROVE  /\ RemoveAt(s, k) = Rem(s, k)
         /\ Rem(s, k) \in Seq(T) /\ Len(Rem(s, k)) = Len(s) - 1
BY CutOut DEF RemoveAt

-------------------------------------------------------------------------------
(* The list's memory m holds the nodes c, in that order.  CellOf(c, k) is  *)
(* the cell that points to the (k+1)-th node, At(c, k) the k-th node.      *)
CellOf(c, k) == IF k = 0 THEN LHead ELSE c[k]
At(c, k)     == IF k \in 1..Len(c) THEN c[k] ELSE NULL
Unused(c)    == {n \in Node : \A k \in 1..Len(c) : c[k] # n}
Injective(c) == \A j, k \in 1..Len(c) : c[j] = c[k] => j = k
Follows(f, c) == \A k \in 0..Len(c) : f[CellOf(c, k)] = At(c, k + 1)
Filled(d, f) == \A n \in Node : d[n] = Freed <=> n \in f

Linked(m, c) ==
  /\ c \in Seq(Node) /\ Injective(c)
  /\ m.next \in [Cell -> Ptr] /\ Follows(m.next, c)
  /\ m.tail = CellOf(c, Len(c)) /\ m.count = Len(c)
  /\ m.free = Unused(c)
  /\ m.data \in [Node -> Item \cup {Freed}] /\ Filled(m.data, m.free)

(* The iterator j is at the place q of the nodes c.                        *)
Place == [at : Nat, last : BOOLEAN]
OnPlace(j, c, q) ==
  \/ q = Closed /\ j = Closed
  \/ /\ q \in Place /\ q.at <= Len(c) /\ (q.last => q.at >= 1)
     /\ j = [pos |-> At(c, q.at + 1), prev |-> CellOf(c, IF q.last THEN q.at - 1 ELSE q.at)]

OnPlaces(f, c, pl) == /\ f \in [Iter -> [pos : Ptr, prev : Cell] \cup {Closed}]
                      /\ pl \in [Iter -> Place \cup {Closed}]
                      /\ \A i \in Iter : OnPlace(f[i], c, pl[i])

Holds(m, c, pl) == Linked(m, c) /\ OnPlaces(m.it, c, pl)

(* The inductive invariant.  Between list_destroy and list_create every    *)
(* node is free and no iterator is left.                                   *)
Idle == /\ next \in [Cell -> Ptr]
        /\ data = [n \in Node |-> Freed]
        /\ it = [i \in Iter |-> Closed]
        /\ free = Node

Inv == /\ alive \in BOOLEAN
       /\ alive => Holds(Memory, Chain, Places)
       /\ ~alive => Idle

(* The first n numbers are n.                                              *)
LEMMA Upto ==
  ASSUME NEW n \in Nat
  PROVE  IsFiniteSet(1..n) /\ Cardinality(1..n) = n
<1>1. IsFiniteSet(1..n) /\ Cardinality(1..n) = IF 1 > n THEN 0 ELSE n - 1 + 1
  BY FS_Interval
<1> QED
  BY <1>1

(* A list of distinct nodes is no longer than the chunk.                   *)
LEMMA ShortList ==
  ASSUME NEW c \in Seq(Node), Injective(c)
  PROVE  Cardinality(Node) \in Nat /\ Len(c) <= Cardinality(Node)
<1>1. c \in Injection(1..Len(c), Node)
  BY DEF Injective, Injection, IsInjective
<1>2. IsFiniteSet(Node)
  BY ListAssumption
<1>3. Cardinality(1..Len(c)) <= Cardinality(Node) /\ Cardinality(Node) \in Nat
  BY <1>1, <1>2, FS_Injection, FS_CardinalityType
<1>4. Cardinality(1..Len(c)) = Len(c)
  BY Upto
<1> QED
  BY <1>3, <1>4

(* The walk from the head meets the nodes of the list and then NULL.       *)
Walk(f, p) == p = [k \in 1..(Cardinality(Node) + 1) |->
                     IF k = 1 THEN f[LHead]
                     ELSE IF p[k - 1] = NULL THEN NULL ELSE f[p[k - 1]]]

(* From the head, a list is walked node by node and then rests on NULL.    *)
LEMMA WalkExists ==
  ASSUME NEW c \in Seq(Node), Injective(c), NEW f \in [Cell -> Ptr], Follows(f, c)
  PROVE  Walk(f, [k \in 1..(Cardinality(Node) + 1) |-> At(c, k)])
<1> DEFINE n == Cardinality(Node)
           p == [k \in 1..(n + 1) |-> At(c, k)]
<1>1. n \in Nat /\ Len(c) \in Nat
  BY ShortList
<1> HIDE DEF n
<1>2. ASSUME NEW k \in 1..(n + 1)
      PROVE  At(c, k) = IF k = 1 THEN f[LHead]
                        ELSE IF p[k - 1] = NULL THEN NULL ELSE f[p[k - 1]]
  <2>1. CASE k = 1
    <3>1. 0 \in 0..Len(c) /\ CellOf(c, 0) = LHead
      BY <1>1 DEF CellOf
    <3> QED
      BY <2>1, <3>1 DEF Follows
  <2>2. CASE k # 1
    <3>1. k - 1 \in 1..(n + 1) /\ p[k - 1] = At(c, k - 1)
      BY <2>2, <1>1
    <3>2. CASE k - 1 \in 1..Len(c)
      <4>1. p[k - 1] = c[k - 1] /\ c[k - 1] \in Node /\ CellOf(c, k - 1) = c[k - 1]
        BY <3>1, <3>2, <2>2 DEF At, CellOf
      <4>2. f[CellOf(c, k - 1)] = At(c, (k - 1) + 1) /\ (k - 1) + 1 = k
        BY <3>2, <1>1 DEF Follows
      <4> QED
        BY <2>2, <4>1, <4>2, ListAssumption
    <3>3. CASE k - 1 \notin 1..Len(c)
      <4>1. p[k - 1] = NULL
        BY <3>1, <3>3 DEF At
      <4>2. k \notin 1..Len(c)
        BY <3>3, <2>2, <1>1
      <4> QED
        BY <4>1, <4>2, <2>2 DEF At
    <3> QED
      BY <3>2, <3>3
  <2> QED
    BY <2>1, <2>2
<1>3. p = [k \in 1..(n + 1) |->
             IF k = 1 THEN f[LHead] ELSE IF p[k - 1] = NULL THEN NULL ELSE f[p[k - 1]]]
  BY <1>2
<1> QED
  BY <1>3 DEF Walk, n

(* There is only one walk.                                                 *)
LEMMA WalkUnique ==
  ASSUME NEW f, NEW p, NEW q, Walk(f, p), Walk(f, q), Cardinality(Node) \in Nat
  PROVE  p = q
<1> DEFINE n == Cardinality(Node)
           Bad == {k \in 1..(n + 1) : p[k] # q[k]}
<1>0. n \in Nat
  OBVIOUS
<1> HIDE DEF n
<1>1. /\ \A k \in 1..(n + 1) : p[k] = IF k = 1 THEN f[LHead]
                              ELSE IF p[k - 1] = NULL THEN NULL ELSE f[p[k - 1]]
      /\ \A k \in 1..(n + 1) : q[k] = IF k = 1 THEN f[LHead]
                              ELSE IF q[k - 1] = NULL THEN NULL ELSE f[q[k - 1]]
  BY DEF Walk, n
<1>2. p = [k \in 1..(n + 1) |-> p[k]] /\ q = [k \in 1..(n + 1) |-> q[k]]
  BY DEF Walk, n
<1>3. Bad = {}
  <2> SUFFICES ASSUME Bad # {} PROVE FALSE
    OBVIOUS
  <2>1. PICK k \in Bad : \A j \in Bad : k <= j
    <3>1. Bad \in SUBSET Nat
      OBVIOUS
    <3> HIDE DEF Bad
    <3> QED
      BY <3>1, Least
  <2>2. k # 1
    BY <1>1
  <2>3. k - 1 \in 1..(n + 1) /\ ~(k <= k - 1)
    BY <2>2, <1>0
  <2>4. k - 1 \notin Bad
    BY <2>1, <2>3
  <2> QED
    BY <1>1, <2>2, <2>3, <2>4
<1> QED
  BY <1>2, <1>3

(* So the chain is the list.                                               *)
LEMMA ChainIs ==
  ASSUME NEW c, Linked(Memory, c)
  PROVE  Chain = c
<1> DEFINE n == Cardinality(Node)
           q == [k \in 1..(n + 1) |-> At(c, k)]
           p == CHOOSE p : p = [k \in 1..(n + 1) |->
                     IF k = 1 THEN next[LHead]
                     ELSE IF p[k - 1] = NULL THEN NULL ELSE next[p[k - 1]]]
<1>1. c \in Seq(Node) /\ Injective(c) /\ next \in [Cell -> Ptr] /\ Follows(next, c)
  BY DEF Linked, Memory
<1>2. n \in Nat /\ Len(c) \in Nat /\ Len(c) <= n
  BY <1>1, ShortList
<1>3. Walk(next, q)
  BY <1>1, WalkExists
<1>4. Walk(next, p)
  <2>1. p = CHOOSE z : Walk(next, z)
    BY DEF Walk
  <2> QED
    BY <1>3, <2>1
<1>5. p = q
  BY <1>2, <1>3, <1>4, WalkUnique
<1>6. Chain = [k \in 1..Cardinality({j \in 1..(n + 1) : p[j] # NULL}) |-> p[k]]
  BY DEF Chain
<1> HIDE DEF p, n
<1>7. {j \in 1..(n + 1) : p[j] # NULL} = 1..Len(c)
  <2>1. ASSUME NEW j \in 1..Len(c) PROVE c[j] # NULL /\ j \in 1..(n + 1)
    BY <1>1, <1>2, ListAssumption
  <2> QED
    BY <1>2, <1>5, <2>1 DEF At
<1>8. Cardinality(1..Len(c)) = Len(c)
  BY <1>2, Upto
<1>9. Chain = [k \in 1..Len(c) |-> p[k]]
  BY <1>6, <1>7, <1>8
<1>10. \A k \in 1..Len(c) : p[k] = c[k]
  BY <1>2, <1>5 DEF At
<1>11. c = [k \in 1..Len(c) |-> c[k]]
  BY <1>1
<1> QED
  BY <1>9, <1>10, <1>11

-------------------------------------------------------------------------------
(* What the two pointers of an iterator say about its place.               *)
Valid(q, c) == q \in Place /\ q.at <= Len(c) /\ (q.last => q.at >= 1)
Behind(q)  == IF q.last THEN q.at - 1 ELSE q.at
PosAt(q, c)  == At(c, q.at + 1)
PrevAt(q, c) == CellOf(c, Behind(q))

(* The cells of a list and what they hold.                                 *)
LEMMA Cells ==
  ASSUME NEW c \in Seq(Node), NEW k \in 0..Len(c)
  PROVE  CellOf(c, k) \in Cell /\ At(c, k + 1) \in Ptr
BY DEF CellOf, At, Cell, Ptr

(* Every place of a list has a cell of its own,                            *)
LEMMA DistinctCells ==
  ASSUME NEW c \in Seq(Node), Injective(c), NEW j \in 0..Len(c), NEW k \in 0..Len(c),
         CellOf(c, j) = CellOf(c, k)
  PROVE  j = k
<1>1. \A n \in 1..Len(c) : c[n] \in Node /\ c[n] # LHead
  BY ListAssumption
<1>2. CASE j = 0 \/ k = 0
  BY <1>1, <1>2 DEF CellOf
<1>3. CASE j # 0 /\ k # 0
  <2>1. j \in 1..Len(c) /\ k \in 1..Len(c)
    BY <1>3
  <2> QED
    BY <2>1, <1>3 DEF CellOf, Injective
<1> QED
  BY <1>2, <1>3

(* and holds a pointer of its own.                                         *)
LEMMA DistinctNodes ==
  ASSUME NEW c \in Seq(Node), Injective(c), NEW j \in 1..(Len(c) + 1), NEW k \in 1..(Len(c) + 1),
         At(c, j) = At(c, k)
  PROVE  j = k
<1>1. \A n \in 1..Len(c) : c[n] \in Node /\ c[n] # NULL
  BY ListAssumption
<1>2. Len(c) \in Nat
  OBVIOUS
<1>3. CASE j \in 1..Len(c) /\ k \in 1..Len(c)
  BY <1>3 DEF At, Injective
<1>4. CASE j = Len(c) + 1
  <2>1. j \notin 1..Len(c)
    BY <1>2, <1>4
  <2> QED
    BY <1>1, <1>2, <1>4, <2>1 DEF At
<1>5. CASE k = Len(c) + 1
  <2>1. k \notin 1..Len(c)
    BY <1>2, <1>5
  <2> QED
    BY <1>1, <1>2, <1>5, <2>1 DEF At
<1> QED
  BY <1>2, <1>3, <1>4, <1>5

(* An iterator is open in list.c exactly when it is in list.h, and then    *)
(* its two pointers follow from its place.                                 *)
LEMMA OpenPlace ==
  ASSUME NEW j, NEW c \in Seq(Node), NEW q, OnPlace(j, c, q)
  PROVE  /\ j = Closed <=> q = Closed
         /\ j # Closed => Valid(q, c) /\ j = [pos |-> PosAt(q, c), prev |-> PrevAt(q, c)]
<1>1. CASE q = Closed /\ j = Closed
  BY <1>1
<1>2. CASE Valid(q, c) /\ j = [pos |-> PosAt(q, c), prev |-> PrevAt(q, c)]
  <2>1. q # Closed
    BY <1>2, ListAssumption DEF Valid, Place
  <2>2. Behind(q) \in 0..Len(c) /\ q.at \in 0..Len(c)
    BY <1>2 DEF Valid, Place, Behind
  <2>3. PosAt(q, c) \in Ptr /\ PrevAt(q, c) \in Cell
    BY <2>2, Cells DEF PosAt, PrevAt
  <2>4. j \in [pos : Ptr, prev : Cell]
    BY <1>2, <2>3
  <2>5. j # Closed
    BY <2>4, ListAssumption
  <2> QED
    BY <1>2, <2>1, <2>5
<1> QED
  BY <1>1, <1>2 DEF OnPlace, Valid, PosAt, PrevAt, Behind

(* What list.c reads through those pointers tells whether the last item    *)
(* returned can still be removed.                                          *)
LEMMA PlaceOf ==
  ASSUME NEW c \in Seq(Node), Injective(c), NEW f \in [Cell -> Ptr], Follows(f, c),
         NEW q, Valid(q, c)
  PROVE  /\ Behind(q) \in 0..Len(c) /\ PrevAt(q, c) \in Cell
         /\ f[PrevAt(q, c)] = IF q.last THEN At(c, q.at) ELSE At(c, q.at + 1)
         /\ (f[PrevAt(q, c)] # PosAt(q, c)) <=> q.last
         /\ PosAt(q, c) = NULL <=> q.at = Len(c)
         /\ PosAt(q, c) # NULL => q.at + 1 \in 1..Len(c) /\ PosAt(q, c) = c[q.at + 1]
<1>1. q.at \in 0..Len(c) /\ q.last \in BOOLEAN /\ Len(c) \in Nat
  BY DEF Valid, Place
<1>2. Behind(q) \in 0..Len(c) /\ Behind(q) + 1 = IF q.last THEN q.at ELSE q.at + 1
  BY <1>1 DEF Valid, Behind
<1>3. f[PrevAt(q, c)] = At(c, Behind(q) + 1)
  BY <1>2 DEF Follows, PrevAt
<1>4. f[PrevAt(q, c)] = IF q.last THEN At(c, q.at) ELSE At(c, q.at + 1)
  BY <1>2, <1>3
<1>5. q.last => At(c, q.at) # At(c, q.at + 1)
  <2> SUFFICES ASSUME q.last, At(c, q.at) = At(c, q.at + 1) PROVE FALSE
    OBVIOUS
  <2>1. q.at \in 1..(Len(c) + 1) /\ q.at + 1 \in 1..(Len(c) + 1)
    BY <1>1 DEF Valid
  <2>2. q.at = q.at + 1
    BY <2>1, DistinctNodes
  <2> QED
    BY <2>2, <1>1
<1>6. (f[PrevAt(q, c)] # PosAt(q, c)) <=> q.last
  BY <1>1, <1>4, <1>5 DEF PosAt
<1>7. \A n \in 1..Len(c) : c[n] \in Node /\ c[n] # NULL
  BY ListAssumption
<1>8. /\ PosAt(q, c) = NULL <=> q.at = Len(c)
      /\ PosAt(q, c) # NULL => q.at + 1 \in 1..Len(c) /\ PosAt(q, c) = c[q.at + 1]
  BY <1>1, <1>7 DEF PosAt, At
<1>9. PrevAt(q, c) \in Cell
  BY <1>2, Cells DEF PrevAt
<1> QED
  BY <1>2, <1>4, <1>6, <1>8, <1>9

(* The places and items of the refinement mapping, once the list is known. *)
LEMMA PlacesAre ==
  ASSUME NEW c, NEW pl, Holds(Memory, c, pl)
  PROVE  Places = pl
<1>1. /\ c \in Seq(Node) /\ Injective(c) /\ next \in [Cell -> Ptr] /\ Follows(next, c)
      /\ Chain = c
  BY ChainIs DEF Holds, Linked, Memory
<1>2. OnPlaces(it, c, pl)
  BY DEF Holds, Memory
<1>3. pl \in [Iter -> Place \cup {Closed}]
  BY <1>2 DEF OnPlaces
<1>4. ASSUME NEW i \in Iter
      PROVE  pl[i] = IF it[i] = Closed THEN Closed
                     ELSE [at |-> Passed(i), last |-> next[it[i].prev] # it[i].pos]
  <2> DEFINE q == pl[i]
             j == it[i]
  <2>1. OnPlace(j, c, q)
    BY <1>2 DEF OnPlaces
  <2> HIDE DEF q, j
  <2>2. CASE j = Closed
    BY <2>1, <2>2, <1>1, OpenPlace DEF q, j
  <2>3. CASE j # Closed
    <3>1. Valid(q, c) /\ j = [pos |-> PosAt(q, c), prev |-> PrevAt(q, c)]
      BY <2>1, <2>3, <1>1, OpenPlace
    <3>2. j.pos = PosAt(q, c) /\ j.prev = PrevAt(q, c)
      BY <3>1
    <3>3. /\ (next[PrevAt(q, c)] # PosAt(q, c)) <=> q.last
          /\ PosAt(q, c) = NULL <=> q.at = Len(c)
          /\ PosAt(q, c) # NULL => q.at + 1 \in 1..Len(c) /\ PosAt(q, c) = c[q.at + 1]
      BY <1>1, <3>1, PlaceOf
    <3>4. q.at \in Nat /\ q.last \in BOOLEAN /\ q = [at |-> q.at, last |-> q.last]
      BY <3>1 DEF Valid, Place
    <3>5. (next[j.prev] # j.pos) = q.last
      BY <3>2, <3>3, <3>4, Zenon
    <3>6. Passed(i) = q.at
      <4>1. Passed(i) = IF j.pos = NULL THEN Len(c)
                        ELSE (CHOOSE k \in 1..Len(c) : c[k] = j.pos) - 1
        BY <1>1 DEF Passed, j
      <4>2. CASE j.pos = NULL
        BY <4>1, <4>2, <3>2, <3>3
      <4>3. CASE j.pos # NULL
        <5> DEFINE k == CHOOSE k \in 1..Len(c) : c[k] = j.pos
        <5>1. q.at + 1 \in 1..Len(c) /\ j.pos = c[q.at + 1]
          BY <4>3, <3>2, <3>3
        <5>2. k \in 1..Len(c) /\ c[k] = j.pos
          BY <5>1
        <5> HIDE DEF k
        <5>3. k = q.at + 1
          BY <5>1, <5>2, <1>1 DEF Injective
        <5>4. k - 1 = q.at
          BY <5>3, <3>4
        <5> QED
          BY <4>1, <4>3, <5>4 DEF k
      <4> QED
        BY <4>2, <4>3
    <3> QED
      BY <2>3, <3>4, <3>5, <3>6 DEF q, j
  <2> QED
    BY <2>2, <2>3
<1>5. pl = [i \in Iter |-> pl[i]]
  BY <1>3
<1> QED
  BY <1>4, <1>5 DEF Places

ItemsOf(d, c) == [k \in 1..Len(c) |-> d[c[k]]]

(* The items of a list.                                                    *)
LEMMA ItemsAre ==
  ASSUME NEW m, NEW c, Linked(m, c)
  PROVE  /\ ItemsOf(m.data, c) \in Seq(Item) /\ Len(ItemsOf(m.data, c)) = Len(c)
         /\ \A k \in 1..Len(c) : /\ ItemsOf(m.data, c)[k] = m.data[c[k]]
                                 /\ m.data[c[k]] \in Item
<1>1. c \in Seq(Node) /\ Len(c) \in Nat
  BY DEF Linked
<1>2. ASSUME NEW k \in 1..Len(c) PROVE m.data[c[k]] \in Item
  <2>1. c[k] \in Node /\ c[k] \notin m.free
    BY <1>1 DEF Linked, Unused
  <2> QED
    BY <2>1 DEF Linked, Filled
<1>3. ItemsOf(m.data, c) \in [1..Len(c) -> Item]
  BY <1>2 DEF ItemsOf
<1>4. ItemsOf(m.data, c) \in Seq(Item) /\ Len(ItemsOf(m.data, c)) = Len(c)
  BY <1>1, <1>3, FcnSeq
<1> QED
  BY <1>2, <1>4 DEF ItemsOf

(* What the actions' proofs use of the state: the list, and what the       *)
(* abstract specification sees of it.                                      *)
Sees(c, pl) == /\ Holds(Memory, c, pl)
               /\ Chain = c /\ Places = pl
               /\ Items = ItemsOf(data, c)

(* Between two calls, the refinement mapping shows the list and the places *)
(* of the invariant,                                                       *)
LEMMA SeesList ==
  ASSUME NEW c, NEW pl, Holds(Memory, c, pl), alive
  PROVE  Sees(c, pl)
<1>1. Chain = c /\ Places = pl
  BY ChainIs, PlacesAre DEF Holds
<1> QED
  BY <1>1 DEF Sees, Items, ItemsOf

SeesAll == \A c, pl : Holds(Memory, c, pl) /\ alive => Sees(c, pl)

(* before a step                                                           *)
LEMMA SeesNow == SeesAll
BY SeesList DEF SeesAll

(* and after it.                                                           *)
LEMMA SeesNext == SeesAll'
BY SeesNow, PTL

-------------------------------------------------------------------------------
(* The cells and nodes of the list with a node put in or taken out.        *)
WithNode(d, c, k, p) ==
  /\ d \in Seq(Node) /\ Len(d) = Len(c) + 1
  /\ \A j \in 0..(Len(c) + 1) :
       CellOf(d, j) = IF j <= k THEN CellOf(c, j)
                      ELSE IF j = k + 1 THEN p ELSE CellOf(c, j - 1)
  /\ \A j \in 1..(Len(c) + 2) :
       At(d, j) = IF j <= k THEN At(c, j) ELSE IF j = k + 1 THEN p ELSE At(c, j - 1)

WithoutNode(d, c, k) ==
  /\ d \in Seq(Node) /\ Len(d) = Len(c) - 1
  /\ \A j \in 0..(Len(c) - 1) : CellOf(d, j) = IF j < k THEN CellOf(c, j) ELSE CellOf(c, j + 1)
  /\ \A j \in 1..Len(c) : At(d, j) = IF j < k THEN At(c, j) ELSE At(c, j + 1)

(* The cells of a list with one node more,                                 *)
LEMMA InsCells ==
  ASSUME NEW c \in Seq(Node), NEW k \in 0..Len(c), NEW p \in Node
  PROVE  WithNode(Ins(c, k + 1, p), c, k, p)
<1> DEFINE d == Ins(c, k + 1, p)
<1>0. k + 1 \in 1..(Len(c) + 1) /\ Len(c) \in Nat /\ k \in Nat
  OBVIOUS
<1>1. d \in Seq(Node) /\ Len(d) = Len(c) + 1
  BY <1>0, InsertAtIs
<1>2. \A j \in 1..(Len(c) + 1) : d[j] = IF j < k + 1 THEN c[j]
                                       ELSE IF j = k + 1 THEN p ELSE c[j - 1]
  BY DEF Ins
<1> HIDE DEF d
<1>3. ASSUME NEW j \in 0..(Len(c) + 1)
      PROVE  CellOf(d, j) = IF j <= k THEN CellOf(c, j)
                            ELSE IF j = k + 1 THEN p ELSE CellOf(c, j - 1)
  <2>1. CASE j = 0
    BY <2>1, <1>0 DEF CellOf
  <2>2. CASE j # 0
    BY <2>2, <1>0, <1>2 DEF CellOf
  <2> QED
    BY <2>1, <2>2
<1>4. ASSUME NEW j \in 1..(Len(c) + 2)
      PROVE  At(d, j) = IF j <= k THEN At(c, j)
                        ELSE IF j = k + 1 THEN p ELSE At(c, j - 1)
  BY <1>0, <1>1, <1>2 DEF At
<1>5. WithNode(d, c, k, p)
  BY <1>1, <1>3, <1>4 DEF WithNode
<1> QED
  BY <1>5 DEF d

(* and with one less.                                                      *)
LEMMA RemCells ==
  ASSUME NEW c \in Seq(Node), NEW k \in 1..Len(c)
  PROVE  WithoutNode(Rem(c, k), c, k)
<1> DEFINE d == Rem(c, k)
<1>0. Len(c) \in Nat /\ k \in Nat /\ k >= 1
  OBVIOUS
<1>1. d \in Seq(Node) /\ Len(d) = Len(c) - 1
  BY RemoveAtIs
<1>2. \A j \in 1..(Len(c) - 1) : d[j] = IF j < k THEN c[j] ELSE c[j + 1]
  BY DEF Rem
<1> HIDE DEF d
<1>3. ASSUME NEW j \in 0..(Len(c) - 1)
      PROVE  CellOf(d, j) = IF j < k THEN CellOf(c, j) ELSE CellOf(c, j + 1)
  <2>1. CASE j = 0
    BY <2>1, <1>0 DEF CellOf
  <2>2. CASE j # 0
    BY <2>2, <1>0, <1>2 DEF CellOf
  <2> QED
    BY <2>1, <2>2
<1>4. ASSUME NEW j \in 1..Len(c)
      PROVE  At(d, j) = IF j < k THEN At(c, j) ELSE At(c, j + 1)
  BY <1>0, <1>1, <1>2 DEF At
<1>5. WithoutNode(d, c, k)
  BY <1>1, <1>3, <1>4 DEF WithoutNode
<1> QED
  BY <1>5 DEF d

(* list_node_create links the new node where its cell is, and l->tail and  *)
(* l->count follow.                                                        *)
LEMMA InsLinked ==
  ASSUME NEW m, NEW c, Linked(m, c), NEW k \in 0..Len(c), NEW p \in m.free, NEW x \in Item
  PROVE  Linked(list_node_create(m, CellOf(c, k), p, x), Ins(c, k + 1, p))
<1> DEFINE d == Ins(c, k + 1, p)
           pp == CellOf(c, k)
           r == list_node_create(m, CellOf(c, k), p, x)
<1>0. /\ c \in Seq(Node) /\ Injective(c) /\ m.next \in [Cell -> Ptr] /\ Follows(m.next, c)
      /\ m.tail = CellOf(c, Len(c)) /\ m.count = Len(c) /\ m.free = Unused(c)
      /\ m.data \in [Node -> Item \cup {Freed}] /\ Filled(m.data, m.free)
      /\ Len(c) \in Nat /\ k \in Nat
  BY DEF Linked
<1>1. p \in Node /\ (\A j \in 1..Len(c) : c[j] # p) /\ p # LHead /\ p # NULL
      /\ \A j \in 0..Len(c) : CellOf(c, j) # p
  BY <1>0, ListAssumption DEF Unused, CellOf
<1>2. /\ d \in Seq(Node) /\ Len(d) = Len(c) + 1
      /\ \A j \in 0..(Len(c) + 1) :
              CellOf(d, j) = IF j <= k THEN CellOf(c, j)
                             ELSE IF j = k + 1 THEN p ELSE CellOf(c, j - 1)
      /\ \A j \in 1..(Len(c) + 2) :
              At(d, j) = IF j <= k THEN At(c, j)
                         ELSE IF j = k + 1 THEN p ELSE At(c, j - 1)
  <2>1. WithNode(d, c, k, p)
    BY <1>0, <1>1, InsCells
  <2> HIDE DEF d
  <2> QED
    BY <2>1 DEF WithNode
<1>3. /\ r.data = [m.data EXCEPT ![p] = x]
      /\ r.next = [m.next EXCEPT ![p] = m.next[pp], ![pp] = p]
      /\ r.tail = IF m.next[pp] = NULL THEN p ELSE m.tail
      /\ r.count = m.count + 1
      /\ r.free = m.free \ {p}
  BY DEF list_node_create
<1>4. pp \in Cell /\ m.next[pp] = At(c, k + 1) /\ At(c, k + 1) \in Ptr
  BY <1>0, Cells DEF Follows
<1>d. \A j \in 1..(Len(c) + 1) : d[j] = IF j < k + 1 THEN c[j]
                                       ELSE IF j = k + 1 THEN p ELSE c[j - 1]
  BY DEF Ins
<1>e. \A j \in 0..Len(c) : CellOf(c, j) = pp => j = k
  BY <1>0, DistinctCells
<1> HIDE DEF d, r, pp
<1>5. Injective(d)
  <2> SUFFICES ASSUME NEW i \in 1..(Len(c) + 1), NEW j \in 1..(Len(c) + 1), d[i] = d[j], i < j
               PROVE  FALSE
    BY <1>0, <1>2 DEF Injective
  <2>1. CASE i < k + 1 /\ j < k + 1
    BY <2>1, <1>0, <1>d DEF Injective
  <2>2. CASE i < k + 1 /\ j = k + 1
    BY <2>2, <1>0, <1>1, <1>d
  <2>3. CASE i < k + 1 /\ j > k + 1
    <3>1. i \in 1..Len(c) /\ j - 1 \in 1..Len(c) /\ i # j - 1 /\ c[i] = c[j - 1]
      BY <2>3, <1>0, <1>d
    <3> QED
      BY <3>1, <1>0 DEF Injective
  <2>4. CASE i = k + 1 /\ j > k + 1
    <3>1. j - 1 \in 1..Len(c) /\ d[i] = p /\ d[j] = c[j - 1]
      BY <2>4, <1>0, <1>d
    <3> QED
      BY <3>1, <1>1
  <2>5. CASE i > k + 1 /\ j > k + 1
    <3>1. i - 1 \in 1..Len(c) /\ j - 1 \in 1..Len(c) /\ i - 1 # j - 1 /\ c[i - 1] = c[j - 1]
      BY <2>5, <1>0, <1>d
    <3> QED
      BY <3>1, <1>0 DEF Injective
  <2> QED
    BY <2>1, <2>2, <2>3, <2>4, <2>5, <1>0
<1>6. r.next \in [Cell -> Ptr]
  BY <1>0, <1>1, <1>3, <1>4 DEF Cell, Ptr
<1>7. \A z \in Cell : r.next[z] = IF z = pp THEN p ELSE IF z = p THEN m.next[pp] ELSE m.next[z]
  BY <1>0, <1>3
<1>8. Follows(r.next, d)
  <2> SUFFICES ASSUME NEW j \in 0..(Len(c) + 1)
               PROVE  r.next[CellOf(d, j)] = At(d, j + 1)
    BY <1>2 DEF Follows
  <2>0. j + 1 \in 1..(Len(c) + 2) /\ (j + 1) - 1 = j
    BY <1>0
  <2>1. CASE j < k
    <3>1. j \in 0..Len(c) /\ CellOf(d, j) = CellOf(c, j) /\ At(d, j + 1) = At(c, j + 1)
      BY <2>0, <2>1, <1>0, <1>2
    <3>2. CellOf(c, j) \in Cell /\ CellOf(c, j) # pp /\ CellOf(c, j) # p
      BY <3>1, <2>1, <1>0, <1>1, <1>e, Cells
    <3> QED
      BY <3>1, <3>2, <1>0, <1>7 DEF Follows
  <2>2. CASE j = k
    <3>1. CellOf(d, j) = pp /\ At(d, j + 1) = p
      BY <2>0, <2>2, <1>0, <1>2 DEF pp
    <3> QED
      BY <3>1, <1>4, <1>7
  <2>3. CASE j = k + 1
    <3>1. CellOf(d, j) = p /\ At(d, j + 1) = At(c, k + 1)
      BY <2>0, <2>3, <1>0, <1>2
    <3>2. p # pp /\ p \in Cell
      BY <1>1 DEF pp, Cell
    <3> QED
      BY <3>1, <3>2, <1>4, <1>7
  <2>4. CASE j > k + 1
    <3>1. /\ j - 1 \in 0..Len(c) /\ CellOf(d, j) = CellOf(c, j - 1) /\ At(d, j + 1) = At(c, j)
          /\ (j - 1) + 1 = j
      BY <2>0, <2>4, <1>0, <1>2
    <3>2. CellOf(c, j - 1) \in Cell /\ CellOf(c, j - 1) # pp /\ CellOf(c, j - 1) # p
      BY <3>1, <2>4, <1>0, <1>1, <1>e, Cells
    <3>3. m.next[CellOf(c, j - 1)] = At(c, (j - 1) + 1)
      BY <3>1, <1>0 DEF Follows
    <3> QED
      BY <3>1, <3>2, <3>3, <1>7
  <2> QED
    BY <2>1, <2>2, <2>3, <2>4, <1>0
<1>9. r.tail = CellOf(d, Len(d))
  <2>1. CASE k = Len(c)
    <3>1. At(c, k + 1) = NULL /\ CellOf(d, Len(d)) = p
      BY <2>1, <1>0, <1>2 DEF At
    <3> QED
      BY <3>1, <1>3, <1>4
  <2>2. CASE k # Len(c)
    <3>1. k + 1 \in 1..Len(c) /\ Len(c) >= k + 1 /\ (Len(c) + 1) - 1 = Len(c)
      BY <2>2, <1>0
    <3>2. At(c, k + 1) # NULL
      BY <3>1, <1>0, ListAssumption DEF At
    <3>3. CellOf(d, Len(d)) = CellOf(c, Len(c))
      BY <3>1, <1>0, <1>2
    <3> QED
      BY <3>2, <3>3, <1>0, <1>3, <1>4
  <2> QED
    BY <2>1, <2>2
<1>10. r.free = Unused(d)
  <2>1. ASSUME NEW n \in Node
        PROVE  (\A j \in 1..Len(d) : d[j] # n) <=> (n # p /\ \A j \in 1..Len(c) : c[j] # n)
    <3>1. ASSUME \A j \in 1..Len(d) : d[j] # n
          PROVE  n # p /\ \A j \in 1..Len(c) : c[j] # n
      <4>1. k + 1 \in 1..Len(d) /\ d[k + 1] = p
        BY <1>0, <1>2, <1>d
      <4>2. ASSUME NEW j \in 1..Len(c) PROVE c[j] # n
        <5>1. CASE j < k + 1
          <6>1. j \in 1..Len(d) /\ d[j] = c[j]
            BY <5>1, <1>0, <1>2, <1>d
          <6> QED
            BY <6>1, <3>1
        <5>2. CASE j >= k + 1
          <6>1. j + 1 \in 1..Len(d) /\ d[j + 1] = c[j]
            BY <5>2, <1>0, <1>2, <1>d
          <6> QED
            BY <6>1, <3>1
        <5> QED
          BY <5>1, <5>2, <1>0
      <4> QED
        BY <4>1, <4>2, <3>1
    <3>2. ASSUME n # p, \A j \in 1..Len(c) : c[j] # n, NEW j \in 1..Len(d)
          PROVE  d[j] # n
      <4>1. j < k + 1 => j \in 1..Len(c)
        BY <1>0, <1>2
      <4>2. j > k + 1 => j - 1 \in 1..Len(c)
        BY <1>0, <1>2
      <4>3. j < k + 1 \/ j = k + 1 \/ j > k + 1
        BY <1>0, <1>2
      <4>4. d[j] = IF j < k + 1 THEN c[j] ELSE IF j = k + 1 THEN p ELSE c[j - 1]
        BY <1>2, <1>d
      <4> QED
        BY <4>1, <4>2, <4>3, <4>4, <3>2, <1>0
    <3> QED
      BY <3>1, <3>2
  <2> QED
    BY <2>1, <1>0, <1>3 DEF Unused
<1>11. r.data \in [Node -> Item \cup {Freed}] /\ Filled(r.data, r.free)
  BY <1>0, <1>1, <1>3, ListAssumption DEF Filled
<1>12. r.count = Len(d)
  BY <1>0, <1>2, <1>3
<1>13. Linked(r, d)
  BY <1>2, <1>5, <1>6, <1>8, <1>9, <1>10, <1>11, <1>12 DEF Linked
<1> QED
  BY <1>13 DEF r, d, pp

(* list_node_destroy unlinks the node its cell points to.                  *)
LEMMA RemLinked ==
  ASSUME NEW m, NEW c, Linked(m, c), NEW k \in 1..Len(c)
  PROVE  /\ m.next[CellOf(c, k - 1)] = c[k]
         /\ Linked(list_node_destroy(m, CellOf(c, k - 1)), Rem(c, k))
<1> DEFINE d == Rem(c, k)
           pp == CellOf(c, k - 1)
           r == list_node_destroy(m, CellOf(c, k - 1))
           p == c[k]
<1>0. /\ c \in Seq(Node) /\ Injective(c) /\ m.next \in [Cell -> Ptr] /\ Follows(m.next, c)
      /\ m.tail = CellOf(c, Len(c)) /\ m.count = Len(c) /\ m.free = Unused(c)
      /\ m.data \in [Node -> Item \cup {Freed}] /\ Filled(m.data, m.free)
      /\ Len(c) \in Nat /\ k \in Nat /\ k >= 1 /\ k - 1 \in 0..Len(c) /\ k \in 0..Len(c)
  BY DEF Linked
<1>1. m.next[pp] = p /\ p \in Node /\ p = CellOf(c, k) /\ (k - 1) + 1 = k
  <2>1. m.next[pp] = At(c, (k - 1) + 1)
    BY <1>0 DEF Follows
  <2>2. (k - 1) + 1 = k
    BY <1>0
  <2> QED
    BY <2>1, <2>2, <1>0 DEF At, CellOf
<1>2. /\ d \in Seq(Node) /\ Len(d) = Len(c) - 1
      /\ \A j \in 0..(Len(c) - 1) : CellOf(d, j) = IF j < k THEN CellOf(c, j) ELSE CellOf(c, j + 1)
      /\ \A j \in 1..Len(c) : At(d, j) = IF j < k THEN At(c, j) ELSE At(c, j + 1)
  <2>1. WithoutNode(d, c, k)
    BY <1>0, RemCells
  <2> HIDE DEF d
  <2> QED
    BY <2>1 DEF WithoutNode
<1>3. /\ r.data = [m.data EXCEPT ![p] = Freed]
      /\ r.next = [m.next EXCEPT ![pp] = m.next[p]]
      /\ r.tail = IF m.next[p] = NULL THEN pp ELSE m.tail
      /\ r.count = m.count - 1
      /\ r.free = m.free \cup {p}
  BY <1>1 DEF list_node_destroy
<1>4. pp \in Cell /\ m.next[p] = At(c, k + 1) /\ At(c, k + 1) \in Ptr
  BY <1>0, <1>1, Cells DEF Follows
<1>d. \A j \in 1..(Len(c) - 1) : d[j] = IF j < k THEN c[j] ELSE c[j + 1]
  BY DEF Rem
<1>e. \A j \in 0..Len(c) : CellOf(c, j) = pp => j = k - 1
  BY <1>0, DistinctCells
<1> HIDE DEF d, r, pp, p
<1>5. Injective(d)
  <2> SUFFICES ASSUME NEW i \in 1..(Len(c) - 1), NEW j \in 1..(Len(c) - 1), d[i] = d[j], i < j
               PROVE  FALSE
    BY <1>0, <1>2 DEF Injective
  <2>1. CASE i < k /\ j < k
    BY <2>1, <1>0, <1>d DEF Injective
  <2>2. CASE i < k /\ j >= k
    <3>1. i \in 1..Len(c) /\ j + 1 \in 1..Len(c) /\ i # j + 1 /\ c[i] = c[j + 1]
      BY <2>2, <1>0, <1>d
    <3> QED
      BY <3>1, <1>0 DEF Injective
  <2>3. CASE i >= k /\ j >= k
    <3>1. i + 1 \in 1..Len(c) /\ j + 1 \in 1..Len(c) /\ i + 1 # j + 1 /\ c[i + 1] = c[j + 1]
      BY <2>3, <1>0, <1>d
    <3> QED
      BY <3>1, <1>0 DEF Injective
  <2> QED
    BY <2>1, <2>2, <2>3, <1>0
<1>6. r.next \in [Cell -> Ptr]
  BY <1>0, <1>3, <1>4
<1>7. \A z \in Cell : r.next[z] = IF z = pp THEN m.next[p] ELSE m.next[z]
  BY <1>0, <1>3
<1>8. Follows(r.next, d)
  <2> SUFFICES ASSUME NEW j \in 0..(Len(c) - 1)
               PROVE  r.next[CellOf(d, j)] = At(d, j + 1)
    BY <1>2 DEF Follows
  <2>0. j + 1 \in 1..Len(c) /\ j \in 0..Len(c) /\ j + 1 \in 0..Len(c)
    BY <1>0
  <2>1. CASE j < k - 1
    <3>1. CellOf(d, j) = CellOf(c, j) /\ At(d, j + 1) = At(c, j + 1)
      BY <2>0, <2>1, <1>0, <1>2
    <3>2. CellOf(c, j) \in Cell /\ CellOf(c, j) # pp
      BY <2>0, <2>1, <1>0, <1>e, Cells
    <3> QED
      BY <2>0, <3>1, <3>2, <1>0, <1>7 DEF Follows
  <2>2. CASE j = k - 1
    <3>1. CellOf(d, j) = pp /\ At(d, j + 1) = At(c, k + 1)
      BY <2>0, <2>2, <1>0, <1>2 DEF pp
    <3> QED
      BY <3>1, <1>4, <1>7
  <2>3. CASE j > k - 1
    <3>1. CellOf(d, j) = CellOf(c, j + 1) /\ At(d, j + 1) = At(c, (j + 1) + 1)
      BY <2>0, <2>3, <1>0, <1>2
    <3>2. CellOf(c, j + 1) \in Cell /\ CellOf(c, j + 1) # pp
      BY <2>0, <2>3, <1>0, <1>e, Cells
    <3>3. m.next[CellOf(c, j + 1)] = At(c, (j + 1) + 1)
      BY <2>0, <1>0 DEF Follows
    <3> QED
      BY <3>1, <3>2, <3>3, <1>7
  <2> QED
    BY <2>1, <2>2, <2>3, <1>0
<1>9. r.tail = CellOf(d, Len(d))
  <2>0. Len(c) - 1 \in 0..(Len(c) - 1)
    BY <1>0
  <2>1. CASE k = Len(c)
    <3>1. At(c, k + 1) = NULL /\ CellOf(d, Len(d)) = pp
      BY <2>0, <2>1, <1>0, <1>2 DEF At, pp
    <3> QED
      BY <3>1, <1>3, <1>4
  <2>2. CASE k # Len(c)
    <3>1. k + 1 \in 1..Len(c) /\ ~(Len(c) - 1 < k) /\ (Len(c) - 1) + 1 = Len(c)
      BY <2>2, <1>0
    <3>2. At(c, k + 1) # NULL
      BY <3>1, <1>0, ListAssumption DEF At
    <3>3. CellOf(d, Len(d)) = CellOf(c, Len(c))
      BY <2>0, <3>1, <1>2
    <3> QED
      BY <3>2, <3>3, <1>0, <1>3, <1>4
  <2> QED
    BY <2>1, <2>2
<1>10. r.free = Unused(d)
  <2>1. ASSUME NEW n \in Node
        PROVE  (\A j \in 1..Len(d) : d[j] # n) <=> (n = p \/ \A j \in 1..Len(c) : c[j] # n)
    <3>1. ASSUME \A j \in 1..Len(d) : d[j] # n, n # p, NEW j \in 1..Len(c)
          PROVE  c[j] # n
      <4>0. \A h \in 1..Len(d) : d[h] # n
        BY <3>1
      <4>1. CASE j < k
        <5>0. j \in 1..(Len(c) - 1)
          BY <4>1, <1>0
        <5>1. j \in 1..Len(d) /\ d[j] = c[j]
          BY <5>0, <4>1, <1>2, <1>d
        <5> QED
          BY <5>1, <4>0
      <4>2. CASE j > k
        <5>0. j - 1 \in 1..(Len(c) - 1) /\ ~(j - 1 < k) /\ (j - 1) + 1 = j
          BY <4>2, <1>0
        <5>1. Len(d) = Len(c) - 1 /\ d[j - 1] = c[j]
          BY <5>0, <1>2, <1>d
        <5> QED
          BY <5>0, <5>1, <4>0
      <4>3. CASE j = k
        BY <4>3, <3>1 DEF p
      <4> QED
        BY <4>1, <4>2, <4>3, <1>0
    <3>2. ASSUME n = p \/ \A j \in 1..Len(c) : c[j] # n, NEW j \in 1..Len(d)
          PROVE  d[j] # n
      <4>1. PICK i \in 1..Len(c) : i # k /\ d[j] = c[i]
        <5>1. CASE j < k
          <6>1. j \in 1..Len(c) /\ j # k /\ d[j] = c[j]
            BY <5>1, <1>0, <1>2, <1>d
          <6> QED
            BY <6>1
        <5>2. CASE j >= k
          <6>1. j + 1 \in 1..Len(c) /\ j + 1 # k /\ d[j] = c[j + 1]
            BY <5>2, <1>0, <1>2, <1>d
          <6> QED
            BY <6>1
        <5> QED
          BY <5>1, <5>2, <1>0, <1>2
      <4>2. c[i] # c[k]
        BY <4>1, <1>0 DEF Injective
      <4> QED
        BY <4>1, <4>2, <3>2 DEF p
    <3> QED
      BY <3>1, <3>2
  <2>2. r.free = Unused(c) \cup {p} /\ p \in Node
    BY <1>0, <1>1, <1>3
  <2> HIDE DEF r, d, p
  <2> QED
    BY <2>1, <2>2 DEF Unused
<1>11. r.data \in [Node -> Item \cup {Freed}] /\ Filled(r.data, r.free)
  BY <1>0, <1>1, <1>3, ListAssumption DEF Filled
<1>12. r.count = Len(d)
  BY <1>0, <1>2, <1>3
<1>13. Linked(r, d)
  BY <1>2, <1>5, <1>6, <1>8, <1>9, <1>10, <1>11, <1>12 DEF Linked
<1> QED
  BY <1>1, <1>13 DEF r, d, pp, p

(* An iterator that is not behind the new node keeps its place, the others *)
(* move with theirs: one of its two pointers, or both, or none changes.    *)
InsIter(j, pp, after, p) == IF j = Closed THEN Closed
                            ELSE IF j.prev = pp   THEN [j EXCEPT !.prev = p]
                            ELSE IF j.pos = after THEN [j EXCEPT !.pos = p]
                            ELSE j
InsPlace(q, k) == IF q = Closed THEN Closed
                  ELSE IF q.at > k \/ (q.at = k /\ ~q.last) THEN [q EXCEPT !.at = @ + 1] ELSE q
RemIter(j, pp, p, after) == IF j = Closed THEN Closed
                            ELSE IF j.pos = p  THEN [pos |-> after, prev |-> pp]
                            ELSE IF j.prev = p THEN [j EXCEPT !.prev = pp]
                            ELSE j
RemPlace(q, k) == IF q = Closed THEN Closed
                  ELSE IF q.at > k THEN [q EXCEPT !.at = @ - 1]
                  ELSE IF q.at \in {k - 1, k} THEN [at |-> k - 1, last |-> FALSE]
                  ELSE q

(* Two pointers of a place are an iterator on that place.                  *)
LEMMA Placed ==
  ASSUME NEW d \in Seq(Node), NEW at \in 0..Len(d), NEW last \in BOOLEAN, last => at >= 1,
         NEW b \in 0..Len(d), b = (IF last THEN at - 1 ELSE at),
         NEW j, j = [pos |-> At(d, at + 1), prev |-> CellOf(d, b)]
  PROVE  OnPlace(j, d, [at |-> at, last |-> last]) /\ j \in [pos : Ptr, prev : Cell]
<1>1. At(d, at + 1) \in Ptr /\ CellOf(d, b) \in Cell
  BY Cells
<1> QED
  BY <1>1 DEF OnPlace, Place

(* The loop over the iterators in list_node_create leaves each at the      *)
(* place AfterInsert gives it,                                             *)
LEMMA InsOnPlace ==
  ASSUME NEW c \in Seq(Node), Injective(c), NEW k \in 0..Len(c), NEW p \in Node,
         NEW d, WithNode(d, c, k, p), NEW j, NEW q, OnPlace(j, c, q)
  PROVE  /\ OnPlace(InsIter(j, CellOf(c, k), At(c, k + 1), p), d, InsPlace(q, k))
         /\ InsIter(j, CellOf(c, k), At(c, k + 1), p) \in [pos : Ptr, prev : Cell] \cup {Closed}
         /\ InsPlace(q, k) \in Place \cup {Closed}
<1> DEFINE J == InsIter(j, CellOf(c, k), At(c, k + 1), p)
           Q == InsPlace(q, k)
           b == Behind(q)
<1>1. CASE j = Closed
  <2>1. q = Closed
    BY <1>1, OpenPlace
  <2> QED
    BY <1>1, <2>1 DEF InsIter, InsPlace, OnPlace
<1>2. CASE j # Closed
  <2>1. q # Closed /\ Valid(q, c) /\ j = [pos |-> PosAt(q, c), prev |-> PrevAt(q, c)]
    BY <1>2, OpenPlace
  <2>2. /\ j.pos = At(c, q.at + 1) /\ j.prev = CellOf(c, b)
        /\ j = [pos |-> At(c, q.at + 1), prev |-> CellOf(c, b)]
    BY <2>1 DEF PosAt, PrevAt
  <2>3. /\ q.at \in 0..Len(c) /\ q.last \in BOOLEAN /\ (q.last => q.at >= 1)
        /\ b \in 0..Len(c) /\ b = (IF q.last THEN q.at - 1 ELSE q.at)
        /\ q = [at |-> q.at, last |-> q.last]
        /\ Len(c) \in Nat /\ k \in Nat
    BY <2>1 DEF Valid, Place, Behind
  <2>4. (j.prev = CellOf(c, k)) <=> (b = k)
    BY <2>2, <2>3, DistinctCells
  <2>5. (j.pos = At(c, k + 1)) <=> (q.at = k)
    <3>1. q.at + 1 \in 1..(Len(c) + 1) /\ k + 1 \in 1..(Len(c) + 1)
      BY <2>3
    <3>2. At(c, q.at + 1) = At(c, k + 1) => q.at + 1 = k + 1
      BY <3>1, DistinctNodes
    <3> QED
      BY <2>2, <2>3, <3>2
  <2>6. /\ d \in Seq(Node) /\ Len(d) = Len(c) + 1
        /\ \A i \in 0..(Len(c) + 1) :
             CellOf(d, i) = IF i <= k THEN CellOf(c, i)
                            ELSE IF i = k + 1 THEN p ELSE CellOf(c, i - 1)
        /\ \A i \in 1..(Len(c) + 2) :
             At(d, i) = IF i <= k THEN At(c, i) ELSE IF i = k + 1 THEN p ELSE At(c, i - 1)
    BY DEF WithNode
  <2> HIDE DEF b
  <2>7. CASE b = k
    <3>1. J = [pos |-> At(c, q.at + 1), prev |-> p]
      BY <1>2, <2>2, <2>4, <2>7 DEF InsIter
    <3>2. Q = [at |-> q.at + 1, last |-> q.last] /\ q.at >= k
      BY <2>1, <2>3, <2>7 DEF InsPlace
    <3>3. At(d, (q.at + 1) + 1) = At(c, q.at + 1) /\ CellOf(d, b + 1) = p
      <4>1. (q.at + 1) + 1 \in 1..(Len(c) + 2) /\ (q.at + 1) + 1 > k + 1
            /\ ((q.at + 1) + 1) - 1 = q.at + 1 /\ b + 1 \in 0..(Len(c) + 1)
        BY <2>3, <3>2
      <4> QED
        BY <4>1, <2>3, <2>6, <2>7
    <3>4. q.at + 1 \in 0..Len(d) /\ b + 1 \in 0..Len(d)
          /\ b + 1 = (IF q.last THEN (q.at + 1) - 1 ELSE q.at + 1)
      BY <2>3, <2>6
    <3>5. J = [pos |-> At(d, (q.at + 1) + 1), prev |-> CellOf(d, b + 1)]
      BY <3>1, <3>3
    <3>6. OnPlace(J, d, Q) /\ J \in [pos : Ptr, prev : Cell]
      <4> HIDE DEF J, Q
      <4>1. q.last => q.at + 1 >= 1
        BY <2>3
      <4> QED
        BY <2>3, <2>6, <3>2, <3>4, <3>5, <4>1, Placed
    <3>7. Q \in Place
      BY <2>3, <3>2 DEF Place
    <3> QED
      BY <3>6, <3>7
  <2>8. CASE b # k /\ q.at = k
    <3>0. q.last /\ b < k
      BY <2>3, <2>8
    <3>1. J = [pos |-> p, prev |-> CellOf(c, b)]
      BY <1>2, <2>2, <2>4, <2>5, <2>8 DEF InsIter
    <3>2. Q = q
      BY <2>1, <2>3, <2>8, <3>0 DEF InsPlace
    <3>3. At(d, q.at + 1) = p /\ CellOf(d, b) = CellOf(c, b)
      <4>1. q.at + 1 \in 1..(Len(c) + 2) /\ b \in 0..(Len(c) + 1) /\ b <= k
        BY <2>3, <3>0
      <4> QED
        BY <4>1, <2>3, <2>6, <2>8
    <3>4. q.at \in 0..Len(d) /\ b \in 0..Len(d)
      BY <2>3, <2>6
    <3>5. J = [pos |-> At(d, q.at + 1), prev |-> CellOf(d, b)]
      BY <3>1, <3>3
    <3>6. OnPlace(J, d, Q) /\ J \in [pos : Ptr, prev : Cell]
      <4> HIDE DEF J, Q
      <4> QED
        BY <2>3, <2>6, <3>2, <3>4, <3>5, Placed
    <3>7. Q \in Place
      BY <2>3, <3>2 DEF Place
    <3> QED
      BY <3>6, <3>7
  <2>9. CASE b # k /\ q.at < k
    <3>0. b <= q.at
      BY <2>3
    <3>1. J = j
      BY <1>2, <2>3, <2>4, <2>5, <2>9 DEF InsIter
    <3>2. Q = q
      BY <2>1, <2>3, <2>9 DEF InsPlace
    <3>3. At(d, q.at + 1) = At(c, q.at + 1) /\ CellOf(d, b) = CellOf(c, b)
      <4>1. q.at + 1 \in 1..(Len(c) + 2) /\ b \in 0..(Len(c) + 1) /\ b <= k /\ q.at + 1 <= k
        BY <2>3, <2>9, <3>0
      <4> QED
        BY <4>1, <2>6
    <3>4. q.at \in 0..Len(d) /\ b \in 0..Len(d)
      BY <2>3, <2>6
    <3>5. J = [pos |-> At(d, q.at + 1), prev |-> CellOf(d, b)]
      BY <2>2, <3>1, <3>3
    <3>6. OnPlace(J, d, Q) /\ J \in [pos : Ptr, prev : Cell]
      <4> HIDE DEF J, Q
      <4> QED
        BY <2>3, <2>6, <3>2, <3>4, <3>5, Placed
    <3>7. Q \in Place
      BY <2>3, <3>2 DEF Place
    <3> QED
      BY <3>6, <3>7
  <2>10. CASE b # k /\ q.at > k
    <3>0. b > k
      BY <2>3, <2>10
    <3>1. J = j
      BY <1>2, <2>3, <2>4, <2>5, <2>10 DEF InsIter
    <3>2. Q = [at |-> q.at + 1, last |-> q.last]
      BY <2>1, <2>3, <2>10 DEF InsPlace
    <3>3. At(d, (q.at + 1) + 1) = At(c, q.at + 1) /\ CellOf(d, b + 1) = CellOf(c, b)
      <4>1. /\ (q.at + 1) + 1 \in 1..(Len(c) + 2) /\ (q.at + 1) + 1 > k + 1
            /\ ((q.at + 1) + 1) - 1 = q.at + 1
        BY <2>3, <2>10
      <4>2. At(d, (q.at + 1) + 1) = At(c, q.at + 1)
        BY <4>1, <2>3, <2>6
      <4>3. b + 1 \in 0..(Len(c) + 1) /\ b + 1 > k + 1 /\ (b + 1) - 1 = b
        <5>1. b \in 0..Len(c) /\ Len(c) \in Nat /\ k \in Nat
          BY <2>3
        <5> QED
          BY <5>1, <3>0
      <4>4. CellOf(d, b + 1) = CellOf(c, b)
        BY <4>3, <2>3, <2>6
      <4> QED
        BY <4>2, <4>4
    <3>4. q.at + 1 \in 0..Len(d) /\ b + 1 \in 0..Len(d)
          /\ b + 1 = (IF q.last THEN (q.at + 1) - 1 ELSE q.at + 1)
      BY <2>3, <2>6
    <3>5. J = [pos |-> At(d, (q.at + 1) + 1), prev |-> CellOf(d, b + 1)]
      BY <2>2, <3>1, <3>3
    <3>6. OnPlace(J, d, Q) /\ J \in [pos : Ptr, prev : Cell]
      <4> HIDE DEF J, Q
      <4>1. q.last => q.at + 1 >= 1
        BY <2>3
      <4> QED
        BY <2>3, <2>6, <3>2, <3>4, <3>5, <4>1, Placed
    <3>7. Q \in Place
      BY <2>3, <3>2 DEF Place
    <3> QED
      BY <3>6, <3>7
  <2> QED
    BY <2>3, <2>7, <2>8, <2>9, <2>10
<1> QED
  BY <1>1, <1>2

(* and the one in list_node_destroy at the place AfterRemove gives it.     *)
LEMMA RemOnPlace ==
  ASSUME NEW c \in Seq(Node), Injective(c), NEW k \in 1..Len(c),
         NEW d, WithoutNode(d, c, k), NEW j, NEW q, OnPlace(j, c, q)
  PROVE  /\ OnPlace(RemIter(j, CellOf(c, k - 1), c[k], At(c, k + 1)), d, RemPlace(q, k))
         /\ RemIter(j, CellOf(c, k - 1), c[k], At(c, k + 1)) \in [pos : Ptr, prev : Cell] \cup {Closed}
         /\ RemPlace(q, k) \in Place \cup {Closed}
<1> DEFINE J == RemIter(j, CellOf(c, k - 1), c[k], At(c, k + 1))
           Q == RemPlace(q, k)
           b == Behind(q)
<1>1. CASE j = Closed
  <2>1. q = Closed
    BY <1>1, OpenPlace
  <2> QED
    BY <1>1, <2>1 DEF RemIter, RemPlace, OnPlace
<1>2. CASE j # Closed
  <2>1. q # Closed /\ Valid(q, c) /\ j = [pos |-> PosAt(q, c), prev |-> PrevAt(q, c)]
    BY <1>2, OpenPlace
  <2>2. /\ j.pos = At(c, q.at + 1) /\ j.prev = CellOf(c, b)
        /\ j = [pos |-> At(c, q.at + 1), prev |-> CellOf(c, b)]
    BY <2>1 DEF PosAt, PrevAt
  <2>3. /\ q.at \in 0..Len(c) /\ q.last \in BOOLEAN /\ (q.last => q.at >= 1)
        /\ b \in 0..Len(c) /\ b = (IF q.last THEN q.at - 1 ELSE q.at)
        /\ q = [at |-> q.at, last |-> q.last]
        /\ Len(c) \in Nat /\ k \in Nat /\ k >= 1
    BY <2>1 DEF Valid, Place, Behind
  <2>4. (j.prev = c[k]) <=> (b = k)
    <3>1. c[k] = CellOf(c, k) /\ k \in 0..Len(c)
      BY <2>3 DEF CellOf
    <3> QED
      BY <2>2, <2>3, <3>1, DistinctCells
  <2>5. (j.pos = c[k]) <=> (q.at = k - 1)
    <3>1. q.at + 1 \in 1..(Len(c) + 1) /\ k \in 1..(Len(c) + 1)
      BY <2>3
    <3>2. c[k] = At(c, k)
      BY DEF At
    <3>3. At(c, q.at + 1) = At(c, k) => q.at + 1 = k
      BY <3>1, DistinctNodes
    <3>4. q.at + 1 = k <=> q.at = k - 1
      BY <2>3
    <3> QED
      BY <2>2, <3>2, <3>3, <3>4
  <2>6. /\ d \in Seq(Node) /\ Len(d) = Len(c) - 1
        /\ \A i \in 0..(Len(c) - 1) : CellOf(d, i) = IF i < k THEN CellOf(c, i) ELSE CellOf(c, i + 1)
        /\ \A i \in 1..Len(c) : At(d, i) = IF i < k THEN At(c, i) ELSE At(c, i + 1)
    BY DEF WithoutNode
  <2>l. Len(d) = Len(c) - 1 /\ Len(c) \in Nat /\ k \in 1..Len(c)
    BY <2>6
  <2> HIDE DEF b
  <2>7. CASE q.at = k - 1 \/ q.at = k
    <3>1. J = [pos |-> At(c, k + 1), prev |-> CellOf(c, k - 1)]
      <4>1. CASE q.at = k - 1
        BY <1>2, <2>5, <4>1 DEF RemIter
      <4>2. CASE q.at = k
        <5>1. j.pos # c[k]
          BY <2>3, <2>5, <4>2
        <5>2. CASE q.last
          <6>1. b = k - 1 /\ b # k
            BY <2>3, <4>2, <5>2
          <6> QED
            BY <1>2, <2>2, <2>4, <4>2, <5>1, <6>1 DEF RemIter
        <5>3. CASE ~q.last
          <6>1. b = k
            BY <2>3, <4>2, <5>3
          <6> QED
            BY <1>2, <2>2, <2>4, <4>2, <5>1, <6>1 DEF RemIter
        <5> QED
          BY <5>2, <5>3
      <4> QED
        BY <2>7, <4>1, <4>2
    <3>2. Q = [at |-> k - 1, last |-> FALSE]
      <4>1. ~(q.at > k)
        BY <2>3, <2>7
      <4> QED
        BY <2>1, <2>7, <4>1 DEF RemPlace
    <3>3. At(d, (k - 1) + 1) = At(c, k + 1) /\ CellOf(d, k - 1) = CellOf(c, k - 1)
      <4>1. (k - 1) + 1 = k /\ k - 1 \in 0..(Len(c) - 1) /\ k - 1 < k
        BY <2>3
      <4> QED
        BY <4>1, <2>6
    <3>4. k - 1 \in 0..Len(d)
      BY <2>l
    <3>5. J = [pos |-> At(d, (k - 1) + 1), prev |-> CellOf(d, k - 1)]
      BY <3>1, <3>3
    <3>6. OnPlace(J, d, Q) /\ J \in [pos : Ptr, prev : Cell]
      <4> HIDE DEF J, Q
      <4> QED
        BY <2>6, <3>2, <3>4, <3>5, Placed
    <3>7. Q \in Place
      BY <2>3, <3>2 DEF Place
    <3> QED
      BY <3>6, <3>7
  <2>8. CASE q.at > k
    <3>0. b >= k /\ b - 1 \in 0..(Len(c) - 1) /\ (b - 1) + 1 = b
      BY <2>3, <2>8
    <3>9. j.pos # c[k]
      BY <2>3, <2>5, <2>8
    <3>1. J = [pos |-> At(c, q.at + 1), prev |-> IF b = k THEN CellOf(c, k - 1) ELSE CellOf(c, b)]
      BY <1>2, <2>2, <2>4, <3>9 DEF RemIter
    <3>2. Q = [at |-> q.at - 1, last |-> q.last]
      <4>1. q.at # k /\ q.at # k - 1
        BY <2>3, <2>8
      <4>2. Q = [q EXCEPT !.at = @ - 1]
        BY <2>1, <2>8, <4>1 DEF RemPlace
      <4>3. [q EXCEPT !.at = @ - 1] = [at |-> q.at - 1, last |-> q.last]
        BY <2>3
      <4> QED
        BY <4>2, <4>3
    <3>3. At(d, (q.at - 1) + 1) = At(c, q.at + 1)
      <4>1. (q.at - 1) + 1 = q.at /\ q.at \in 1..Len(c) /\ ~(q.at < k)
        BY <2>3, <2>8
      <4> QED
        BY <4>1, <2>6
    <3>4. CellOf(d, b - 1) = IF b = k THEN CellOf(c, k - 1) ELSE CellOf(c, b)
      <4>1. b = k => b - 1 < k
        BY <2>3
      <4>2. b # k => ~(b - 1 < k)
        BY <2>3, <3>0
      <4> QED
        BY <4>1, <4>2, <3>0, <2>6
    <3>5. /\ q.at - 1 \in 0..Len(d) /\ b - 1 \in 0..Len(d)
          /\ b - 1 = (IF q.last THEN (q.at - 1) - 1 ELSE q.at - 1)
          /\ (q.last => q.at - 1 >= 1)
      <4>1. q.at \in 0..Len(c) /\ q.last \in BOOLEAN
            /\ b = (IF q.last THEN q.at - 1 ELSE q.at)
        BY <2>3
      <4> QED
        BY <4>1, <2>l, <2>8, <3>0
    <3>6. J = [pos |-> At(d, (q.at - 1) + 1), prev |-> CellOf(d, b - 1)]
      BY <3>1, <3>3, <3>4
    <3>7. OnPlace(J, d, Q) /\ J \in [pos : Ptr, prev : Cell]
      <4> HIDE DEF J, Q
      <4> QED
        BY <2>3, <2>6, <3>2, <3>5, <3>6, Placed
    <3>8. Q \in Place
      BY <2>3, <2>8, <3>2 DEF Place
    <3> QED
      BY <3>7, <3>8
  <2>9. CASE q.at < k - 1
    <3>0. b <= q.at /\ b # k /\ q.at # k - 1 /\ q.at # k /\ ~(q.at > k)
      BY <2>3, <2>9
    <3>1. J = j
      BY <1>2, <2>4, <2>5, <3>0 DEF RemIter
    <3>2. Q = q
      BY <2>1, <3>0 DEF RemPlace
    <3>3. At(d, q.at + 1) = At(c, q.at + 1) /\ CellOf(d, b) = CellOf(c, b)
      <4>1. q.at + 1 \in 1..Len(c) /\ b \in 0..(Len(c) - 1) /\ b < k /\ q.at + 1 < k
        BY <2>3, <2>9, <3>0
      <4> QED
        BY <4>1, <2>6
    <3>4. q.at \in 0..Len(d) /\ b \in 0..Len(d)
      BY <2>3, <2>6, <2>9, <3>0
    <3>5. J = [pos |-> At(d, q.at + 1), prev |-> CellOf(d, b)]
      BY <2>2, <3>1, <3>3
    <3>6. OnPlace(J, d, Q) /\ J \in [pos : Ptr, prev : Cell]
      <4> HIDE DEF J, Q
      <4> QED
        BY <2>3, <2>6, <3>2, <3>4, <3>5, Placed
    <3>7. Q \in Place
      BY <2>3, <3>2 DEF Place
    <3> QED
      BY <3>6, <3>7
  <2> QED
    BY <2>3, <2>7, <2>8, <2>9
<1> QED
  BY <1>1, <1>2

InsPlaces(pl, k) == [i \in Iter |-> InsPlace(pl[i], k)]
RemPlaces(pl, k) == [i \in Iter |-> RemPlace(pl[i], k)]

(* list_node_create at the k-th cell puts the item in after k others and   *)
(* keeps every iterator on its place.                                      *)
LEMMA CreateHolds ==
  ASSUME NEW m, NEW c, NEW pl, Holds(m, c, pl), NEW k \in 0..Len(c), NEW p \in m.free,
         NEW x \in Item
  PROVE  /\ Holds(list_node_create(m, CellOf(c, k), p, x), Ins(c, k + 1, p), InsPlaces(pl, k))
         /\ ItemsOf(list_node_create(m, CellOf(c, k), p, x).data, Ins(c, k + 1, p))
              = Ins(ItemsOf(m.data, c), k + 1, x)
<1> DEFINE d == Ins(c, k + 1, p)
           r == list_node_create(m, CellOf(c, k), p, x)
<1>0. /\ Linked(m, c) /\ OnPlaces(m.it, c, pl)
      /\ c \in Seq(Node) /\ Injective(c) /\ Follows(m.next, c) /\ m.free = Unused(c)
      /\ m.data \in [Node -> Item \cup {Freed}]
      /\ Len(c) \in Nat /\ k \in Nat
  BY DEF Holds, Linked
<1>1. p \in Node /\ \A j \in 1..Len(c) : c[j] # p
  BY <1>0 DEF Unused
<1>2. Linked(r, d)
  BY <1>0, InsLinked
<1>3. WithNode(d, c, k, p)
  BY <1>0, <1>1, InsCells
<1>4. m.next[CellOf(c, k)] = At(c, k + 1)
  BY <1>0 DEF Follows
<1>5. r.it = [i \in Iter |-> InsIter(m.it[i], CellOf(c, k), At(c, k + 1), p)]
  BY <1>4 DEF list_node_create, InsIter
<1>6. r.data = [m.data EXCEPT ![p] = x]
  BY DEF list_node_create
<1>7. d = [j \in 1..(Len(c) + 1) |-> IF j < k + 1 THEN c[j] ELSE IF j = k + 1 THEN p ELSE c[j - 1]]
      /\ Len(d) = Len(c) + 1
  BY <1>3 DEF Ins, WithNode
<1> HIDE DEF d, r
<1>8. ASSUME NEW i \in Iter
      PROVE  /\ OnPlace(r.it[i], d, InsPlaces(pl, k)[i])
             /\ r.it[i] \in [pos : Ptr, prev : Cell] \cup {Closed}
             /\ InsPlaces(pl, k)[i] \in Place \cup {Closed}
  <2>1. OnPlace(m.it[i], c, pl[i])
    BY <1>0 DEF OnPlaces
  <2>2. /\ OnPlace(InsIter(m.it[i], CellOf(c, k), At(c, k + 1), p), d, InsPlace(pl[i], k))
        /\ InsIter(m.it[i], CellOf(c, k), At(c, k + 1), p) \in [pos : Ptr, prev : Cell] \cup {Closed}
        /\ InsPlace(pl[i], k) \in Place \cup {Closed}
    BY <1>0, <1>1, <1>3, <2>1, InsOnPlace
  <2>3. /\ r.it[i] = InsIter(m.it[i], CellOf(c, k), At(c, k + 1), p)
        /\ InsPlaces(pl, k)[i] = InsPlace(pl[i], k)
    BY <1>5 DEF InsPlaces
  <2> QED
    BY <2>2, <2>3
<1>9. OnPlaces(r.it, d, InsPlaces(pl, k))
  BY <1>5, <1>8 DEF OnPlaces, InsPlaces
<1>10. ItemsOf(r.data, d) = Ins(ItemsOf(m.data, c), k + 1, x)
  <2>1. Len(ItemsOf(m.data, c)) = Len(c) /\ \A j \in 1..Len(c) : ItemsOf(m.data, c)[j] = m.data[c[j]]
    BY <1>0, ItemsAre
  <2>2. ASSUME NEW j \in 1..(Len(c) + 1)
        PROVE  r.data[d[j]] = IF j < k + 1 THEN ItemsOf(m.data, c)[j]
                              ELSE IF j = k + 1 THEN x ELSE ItemsOf(m.data, c)[j - 1]
    <3>1. CASE j < k + 1
      <4>1. j \in 1..Len(c) /\ d[j] = c[j] /\ c[j] \in Node
        BY <3>1, <1>0, <1>7
      <4> QED
        BY <3>1, <4>1, <1>0, <1>1, <1>6, <2>1
    <3>2. CASE j = k + 1
      <4>1. d[j] = p
        BY <3>2, <1>0, <1>7
      <4> QED
        BY <3>2, <4>1, <1>0, <1>1, <1>6
    <3>3. CASE j > k + 1
      <4>1. j - 1 \in 1..Len(c) /\ d[j] = c[j - 1] /\ c[j - 1] \in Node
        BY <3>3, <1>0, <1>7
      <4> QED
        BY <3>3, <4>1, <1>0, <1>1, <1>6, <2>1
    <3> QED
      BY <3>1, <3>2, <3>3, <1>0
  <2> QED
    BY <2>1, <2>2, <1>7 DEF ItemsOf, Ins
<1> QED
  BY <1>2, <1>9, <1>10 DEF Holds, r, d

(* list_node_destroy at the cell before the k-th node takes that item out  *)
(* and keeps every iterator on its place.                                  *)
LEMMA DestroyHolds ==
  ASSUME NEW m, NEW c, NEW pl, Holds(m, c, pl), NEW k \in 1..Len(c)
  PROVE  /\ Holds(list_node_destroy(m, CellOf(c, k - 1)), Rem(c, k), RemPlaces(pl, k))
         /\ ItemsOf(list_node_destroy(m, CellOf(c, k - 1)).data, Rem(c, k))
              = Rem(ItemsOf(m.data, c), k)
         /\ m.next[CellOf(c, k - 1)] = c[k] /\ c[k] \in Node
<1> DEFINE d == Rem(c, k)
           r == list_node_destroy(m, CellOf(c, k - 1))
<1>0. /\ Linked(m, c) /\ OnPlaces(m.it, c, pl)
      /\ c \in Seq(Node) /\ Injective(c) /\ Follows(m.next, c)
      /\ m.data \in [Node -> Item \cup {Freed}]
      /\ Len(c) \in Nat /\ k \in Nat /\ k >= 1 /\ k \in 0..Len(c) /\ CellOf(c, k) = c[k]
  BY DEF Holds, Linked, CellOf
<1>1. c[k] \in Node
  BY <1>0
<1>2. Linked(r, d) /\ m.next[CellOf(c, k - 1)] = c[k]
  BY <1>0, RemLinked
<1>3. WithoutNode(d, c, k)
  BY <1>0, RemCells
<1>4. m.next[c[k]] = At(c, k + 1)
  BY <1>0 DEF Follows
<1>5. r.it = [i \in Iter |-> RemIter(m.it[i], CellOf(c, k - 1), c[k], At(c, k + 1))]
  BY <1>2, <1>4 DEF list_node_destroy, RemIter
<1>6. r.data = [m.data EXCEPT ![c[k]] = Freed]
  BY <1>2 DEF list_node_destroy
<1>7. d = [j \in 1..(Len(c) - 1) |-> IF j < k THEN c[j] ELSE c[j + 1]] /\ Len(d) = Len(c) - 1
  BY <1>3 DEF Rem, WithoutNode
<1> HIDE DEF d, r
<1>8. ASSUME NEW i \in Iter
      PROVE  /\ OnPlace(r.it[i], d, RemPlaces(pl, k)[i])
             /\ r.it[i] \in [pos : Ptr, prev : Cell] \cup {Closed}
             /\ RemPlaces(pl, k)[i] \in Place \cup {Closed}
  <2>1. OnPlace(m.it[i], c, pl[i])
    BY <1>0 DEF OnPlaces
  <2>2. /\ OnPlace(RemIter(m.it[i], CellOf(c, k - 1), c[k], At(c, k + 1)), d, RemPlace(pl[i], k))
        /\ RemIter(m.it[i], CellOf(c, k - 1), c[k], At(c, k + 1)) \in [pos : Ptr, prev : Cell] \cup {Closed}
        /\ RemPlace(pl[i], k) \in Place \cup {Closed}
    BY <1>0, <1>3, <2>1, RemOnPlace
  <2>3. /\ r.it[i] = RemIter(m.it[i], CellOf(c, k - 1), c[k], At(c, k + 1))
        /\ RemPlaces(pl, k)[i] = RemPlace(pl[i], k)
    BY <1>5 DEF RemPlaces
  <2> QED
    BY <2>2, <2>3
<1>9. OnPlaces(r.it, d, RemPlaces(pl, k))
  BY <1>5, <1>8 DEF OnPlaces, RemPlaces
<1>10. ItemsOf(r.data, d) = Rem(ItemsOf(m.data, c), k)
  <2>1. Len(ItemsOf(m.data, c)) = Len(c) /\ \A j \in 1..Len(c) : ItemsOf(m.data, c)[j] = m.data[c[j]]
    BY <1>0, ItemsAre
  <2>2. ASSUME NEW j \in 1..(Len(c) - 1)
        PROVE  r.data[d[j]] = IF j < k THEN ItemsOf(m.data, c)[j] ELSE ItemsOf(m.data, c)[j + 1]
    <3>1. CASE j < k
      <4>1. j \in 1..Len(c) /\ j # k /\ d[j] = c[j] /\ c[j] \in Node
        BY <3>1, <1>0, <1>7
      <4>2. c[j] # c[k]
        BY <4>1, <1>0 DEF Injective
      <4> QED
        BY <3>1, <4>1, <4>2, <1>0, <1>6, <2>1
    <3>2. CASE j >= k
      <4>1. j + 1 \in 1..Len(c) /\ j + 1 # k /\ d[j] = c[j + 1] /\ c[j + 1] \in Node
        BY <3>2, <1>0, <1>7
      <4>2. c[j + 1] # c[k]
        BY <4>1, <1>0 DEF Injective
      <4> QED
        BY <3>2, <4>1, <4>2, <1>0, <1>6, <2>1
    <3> QED
      BY <3>1, <3>2, <1>0
  <2> QED
    BY <2>1, <2>2, <1>7 DEF ItemsOf, Rem
<1> QED
  BY <1>1, <1>2, <1>9, <1>10 DEF Holds, r, d

-------------------------------------------------------------------------------
(* A call that leaves the memory m behind.                                 *)
LEMMA Reaches ==
  ASSUME NEW m, NEW c, NEW pl, Holds(m, c, pl), Becomes(m), alive' = TRUE
  PROVE  Inv' /\ Items' = ItemsOf(m.data, c) /\ Places' = pl
<1>1. /\ Memory'.next = m.next /\ Memory'.data = m.data /\ Memory'.tail = m.tail
      /\ Memory'.count = m.count /\ Memory'.it = m.it /\ Memory'.free = m.free
      /\ data' = m.data
  BY DEF Becomes, Memory
<1>2. Holds(Memory', c, pl)
  BY <1>1 DEF Holds, Linked
<1>3. Holds(Memory', c, pl) /\ alive' /\ Chain' = c /\ Places' = pl /\ Items' = ItemsOf(data', c)
  BY <1>2, SeesNext DEF SeesAll, Sees
<1> QED
  BY <1>1, <1>3 DEF Inv

(* A live list is a chain, with its iterators on their places.             *)
LEMMA Alive ==
  ASSUME Inv, alive
  PROVE  \E c, pl : Sees(c, pl)
BY SeesNow DEF Inv, SeesAll

(* An open iterator means a list.                                          *)
LEMMA OpenAlive ==
  ASSUME Inv, NEW i \in Iter, it[i] # Closed
  PROVE  alive
BY DEF Inv, Idle

(* The fields of what an action finds in memory.                           *)
LEMMA SeesFacts ==
  ASSUME NEW c, NEW pl, Sees(c, pl)
  PROVE  /\ c \in Seq(Node) /\ Injective(c) /\ Len(c) \in Nat
         /\ next \in [Cell -> Ptr] /\ Follows(next, c)
         /\ tail = CellOf(c, Len(c)) /\ count = Len(c) /\ free = Unused(c)
         /\ data \in [Node -> Item \cup {Freed}] /\ Filled(data, free)
         /\ OnPlaces(it, c, pl) /\ Holds(Memory, c, pl) /\ Linked(Memory, c)
         /\ Chain = c /\ Places = pl /\ Items = ItemsOf(data, c)
BY DEF Sees, Holds, Linked, Memory

(* Its items.                                                              *)
LEMMA SeesItems ==
  ASSUME NEW c, NEW pl, Sees(c, pl)
  PROVE  /\ Items \in Seq(Item) /\ Len(Items) = Len(c)
         /\ \A k \in 1..Len(c) : Items[k] = data[c[k]] /\ data[c[k]] \in Item
         /\ Memory.data = data
<1>1. Memory.data = data
  BY DEF Memory
<1> QED
  BY <1>1, ItemsAre, SeesFacts

(* A call that changes nothing.                                            *)
LEMMA Same ==
  ASSUME Inv, UNCHANGED <<list, alive>>
  PROVE  Inv' /\ Items' = Items /\ Places' = Places
<1>1. CASE alive
  <2>1. PICK c, pl : Sees(c, pl)
    BY <1>1, Alive
  <2>2. Becomes(Memory) /\ alive' = TRUE
    BY <1>1 DEF Becomes, Memory, list, Inv
  <2>3. Holds(Memory, c, pl)
    BY <2>1 DEF Sees
  <2>a. Memory.data = data
    BY DEF Memory
  <2>4. PICK mm : mm = Memory
    OBVIOUS
  <2>5. Inv' /\ Items' = ItemsOf(mm.data, c) /\ Places' = pl
    BY <2>2, <2>3, <2>4, Reaches
  <2> QED
    BY <2>1, <2>a, <2>4, <2>5 DEF Sees
<1>2. CASE ~alive
  <2>1. /\ Items = << >> /\ Items' = << >> /\ ~alive' /\ alive' = alive
    BY <1>2 DEF Items
  <2>2. Idle /\ Idle'
    BY <1>2 DEF Inv, Idle, list
  <2>3. Places = [i \in Iter |-> Closed] /\ Places' = [i \in Iter |-> Closed]
    BY <2>2 DEF Idle, Places
  <2> QED
    BY <2>1, <2>2, <2>3 DEF Inv
<1> QED
  BY <1>1, <1>2

(* Where list_append, list_prepend and list_insert call list_node_create,  *)
(* the sequence gets the item at that place, or there is no memory.        *)
LEMMA CreateStep ==
  ASSUME NEW c, NEW pl, Sees(c, pl), Inv, alive, NEW k \in 0..Len(c), NEW x \in Item,
         Create(CellOf(c, k), x)
  PROVE  Inv' /\ (Abstract!Insert(k, x) \/ Abstract!NoMemory)
<1>1. CASE free = {} /\ Nothing(NULL)
  <2>1. Inv' /\ Items' = Items /\ Places' = Places /\ alive' = alive /\ ret' = NULL /\ del' = << >>
    BY <1>1, Same DEF Nothing, Returns
  <2> QED
    BY <2>1 DEF Abstract!NoMemory, Abstract!Returns
<1>2. CASE /\ \E p \in free : Becomes(list_node_create(Memory, CellOf(c, k), p, x))
           /\ Returns(x, << >>) /\ UNCHANGED alive
  <2>1. PICK p \in free : Becomes(list_node_create(Memory, CellOf(c, k), p, x))
    BY <1>2
  <2>2. PICK m : m = Memory
    OBVIOUS
  <2>3. Holds(m, c, pl) /\ p \in m.free /\ m.data = data
    BY <2>1, <2>2, SeesFacts DEF Memory
  <2>4. PICK r : r = list_node_create(m, CellOf(c, k), p, x)
    OBVIOUS
  <2>5. /\ Holds(r, Ins(c, k + 1, p), InsPlaces(pl, k))
        /\ ItemsOf(r.data, Ins(c, k + 1, p)) = Ins(ItemsOf(m.data, c), k + 1, x)
    BY <2>3, <2>4, CreateHolds
  <2>6. Becomes(r) /\ alive' = TRUE
    BY <1>2, <2>1, <2>2, <2>4 DEF Inv
  <2>7. Inv' /\ Items' = ItemsOf(r.data, Ins(c, k + 1, p)) /\ Places' = InsPlaces(pl, k)
    BY <2>5, <2>6, Reaches
  <2>8. Items \in Seq(Item) /\ Len(Items) = Len(c) /\ Items = ItemsOf(data, c) /\ Places = pl
    BY SeesItems, SeesFacts
  <2>9. Items' = Ins(Items, k + 1, x)
    BY <2>3, <2>5, <2>7, <2>8
  <2>10. k + 1 \in 1..(Len(Items) + 1)
    BY <2>8
  <2>11. InsertAt(Items, k + 1, x) = Ins(Items, k + 1, x)
    BY <2>8, <2>10, InsertAtIs
  <2>12. Abstract!InsertAt(Items, k + 1, x) = InsertAt(Items, k + 1, x)
    BY DEF Abstract!InsertAt, InsertAt
  <2>13. Abstract!AfterInsert(Places, k) = InsPlaces(pl, k)
    BY <2>8 DEF Abstract!AfterInsert, InsPlaces, InsPlace
  <2>14. ret' = x /\ del' = << >> /\ alive' = alive
    BY <1>2 DEF Returns
  <2> QED
    BY <2>7, <2>9, <2>11, <2>12, <2>13, <2>14 DEF Abstract!Insert, Abstract!Returns
<1> QED
  BY <1>1, <1>2 DEF Create

(* Where list.c calls list_node_destroy, the sequence loses the item at    *)
(* that place.                                                             *)
LEMMA DestroyStep ==
  ASSUME NEW c, NEW pl, Sees(c, pl), Inv, alive, NEW k \in 1..Len(c), NEW d \in BOOLEAN,
         Becomes(list_node_destroy(Memory, CellOf(c, k - 1))), alive' = alive,
         Returns(IF d THEN 1 ELSE data[next[CellOf(c, k - 1)]],
                 IF d THEN <<data[next[CellOf(c, k - 1)]]>> ELSE << >>)
  PROVE  Inv' /\ Abstract!TakeOut(k, d)
<1>1. PICK m : m = Memory
  OBVIOUS
<1>2. Holds(m, c, pl) /\ m.data = data /\ m.next = next
  BY <1>1, SeesFacts DEF Memory
<1>3. PICK r : r = list_node_destroy(m, CellOf(c, k - 1))
  OBVIOUS
<1>4. /\ Holds(r, Rem(c, k), RemPlaces(pl, k))
      /\ ItemsOf(r.data, Rem(c, k)) = Rem(ItemsOf(m.data, c), k)
      /\ m.next[CellOf(c, k - 1)] = c[k]
  BY <1>2, <1>3, DestroyHolds
<1>5. Becomes(r) /\ alive' = TRUE
  BY <1>1, <1>3 DEF Inv
<1>6. Inv' /\ Items' = ItemsOf(r.data, Rem(c, k)) /\ Places' = RemPlaces(pl, k)
  BY <1>4, <1>5, Reaches
<1>7. /\ Items \in Seq(Item) /\ Len(Items) = Len(c) /\ Items = ItemsOf(data, c) /\ Places = pl
      /\ Items[k] = data[c[k]]
  BY SeesItems, SeesFacts
<1>8. Items' = Rem(Items, k)
  BY <1>2, <1>4, <1>6, <1>7
<1>9. RemoveAt(Items, k) = Rem(Items, k)
  BY <1>7, RemoveAtIs
<1>10. Abstract!RemoveAt(Items, k) = RemoveAt(Items, k)
  BY DEF Abstract!RemoveAt, RemoveAt
<1>11. Abstract!AfterRemove(Places, k) = RemPlaces(pl, k)
  BY <1>7 DEF Abstract!AfterRemove, RemPlaces, RemPlace
<1>12. /\ ret' = IF d THEN 1 ELSE Items[k]
       /\ del' = IF d THEN <<Items[k]>> ELSE << >>
  BY <1>2, <1>4, <1>7 DEF Returns
<1> QED
  BY <1>6, <1>8, <1>9, <1>10, <1>11, <1>12 DEF Abstract!TakeOut, Abstract!Returns

(* An iterator of the list that an action names.                           *)
IterFacts(j, c, q) ==
  /\ Valid(q, c)
  /\ j = [pos |-> PosAt(q, c), prev |-> PrevAt(q, c)]
  /\ j.pos = PosAt(q, c) /\ j.prev = CellOf(c, Behind(q)) /\ Behind(q) \in 0..Len(c)
  /\ next[j.prev] = (IF q.last THEN At(c, q.at) ELSE At(c, q.at + 1))
  /\ (next[j.prev] # j.pos) <=> q.last

(* An iterator of a live list and its place.                               *)
LEMMA SeesIter ==
  ASSUME NEW c, NEW pl, Sees(c, pl), NEW i \in Iter
  PROVE  /\ (it[i] = Closed) <=> (pl[i] = Closed)
         /\ it[i] # Closed => IterFacts(it[i], c, pl[i])
<1>1. c \in Seq(Node) /\ Injective(c) /\ next \in [Cell -> Ptr] /\ Follows(next, c)
      /\ OnPlaces(it, c, pl)
  BY SeesFacts
<1>2. OnPlace(it[i], c, pl[i])
  BY <1>1 DEF OnPlaces
<1>3. /\ it[i] = Closed <=> pl[i] = Closed
      /\ it[i] # Closed => /\ Valid(pl[i], c)
                           /\ it[i] = [pos |-> PosAt(pl[i], c), prev |-> PrevAt(pl[i], c)]
  BY <1>1, <1>2, OpenPlace
<1>4. ASSUME it[i] # Closed
      PROVE  IterFacts(it[i], c, pl[i])
  <2>2. PICK q : q = pl[i]
    OBVIOUS
  <2>3. PICK j : j = it[i]
    OBVIOUS
  <2>4. /\ Behind(q) \in 0..Len(c)
        /\ next[PrevAt(q, c)] = (IF q.last THEN At(c, q.at) ELSE At(c, q.at + 1))
        /\ (next[PrevAt(q, c)] # PosAt(q, c)) <=> q.last
    BY <1>1, <1>3, <1>4, <2>2, PlaceOf
  <2>5. Valid(q, c) /\ j = [pos |-> PosAt(q, c), prev |-> PrevAt(q, c)]
    BY <1>3, <1>4, <2>2, <2>3
  <2>6. j.pos = PosAt(q, c) /\ j.prev = PrevAt(q, c) /\ PrevAt(q, c) = CellOf(c, Behind(q))
    BY <2>5 DEF PrevAt
  <2>7. IterFacts(j, c, q)
    BY <2>4, <2>5, <2>6, Zenon DEF IterFacts
  <2> QED
    BY <2>2, <2>3, <2>7
<1> QED
  BY <1>3, <1>4

-------------------------------------------------------------------------------
(* One lemma per operation: it keeps the invariant and is the operation of *)
(* the same name on the sequence.                                          *)
LEMMA Step_create ==
  ASSUME Inv, list_create
  PROVE  Inv' /\ Abstract!list_create
<1>1. /\ ~alive /\ alive' = TRUE /\ next' = [next EXCEPT ![LHead] = NULL] /\ tail' = LHead
      /\ count' = 0 /\ ret' = NULL /\ del' = << >>
      /\ data' = data /\ it' = it /\ free' = free
  BY DEF list_create, Returns
<1>2. Idle
  BY <1>1 DEF Inv
<1> DEFINE c  == << >>
           pl == [i \in Iter |-> Closed]
<1>3. PICK m : m = [data |-> data, next |-> [next EXCEPT ![LHead] = NULL], tail |-> LHead,
                    count |-> 0, it |-> it, free |-> free]
  OBVIOUS
<1>4. Becomes(m)
  BY <1>1, <1>3 DEF Becomes
<1>5. c \in Seq(Node) /\ Len(c) = 0
  OBVIOUS
<1>6. m.next \in [Cell -> Ptr] /\ m.next[LHead] = NULL
  BY <1>2, <1>3 DEF Idle, Cell, Ptr
<1>7. Follows(m.next, c)
  BY <1>5, <1>6 DEF Follows, CellOf, At
<1>8. m.free = Unused(c) /\ m.tail = CellOf(c, Len(c)) /\ m.count = Len(c)
  BY <1>2, <1>3, <1>5 DEF Idle, Unused, CellOf
<1>9. m.data \in [Node -> Item \cup {Freed}] /\ Filled(m.data, m.free)
  BY <1>2, <1>3 DEF Idle, Filled
<1>10. Linked(m, c)
  BY <1>5, <1>6, <1>7, <1>8, <1>9 DEF Linked, Injective
<1>11. OnPlaces(m.it, c, pl)
  BY <1>2, <1>3 DEF Idle, OnPlaces, OnPlace
<1>12. Inv' /\ Items' = ItemsOf(m.data, c) /\ Places' = pl
  <2>1. Holds(m, c, pl)
    BY <1>10, <1>11 DEF Holds
  <2> HIDE DEF c, pl
  <2> QED
    BY <1>1, <1>4, <2>1, Reaches
<1>13. ItemsOf(m.data, c) = << >>
  BY <1>5 DEF ItemsOf
<1>14. Items = << >> /\ Places = pl
  BY <1>1, <1>2 DEF Items, Places, Idle
<1> QED
  BY <1>1, <1>12, <1>13, <1>14 DEF Abstract!list_create, Abstract!Returns

(* list_destroy frees every node of the chain.                             *)
LEMMA Step_destroy ==
  ASSUME Inv, list_destroy
  PROVE  Inv' /\ Abstract!list_destroy
<1>1. /\ alive /\ alive' = FALSE /\ it' = [i \in Iter |-> Closed] /\ data' = [n \in Node |-> Freed]
      /\ free' = free \cup ToSet(Chain) /\ ret' = NULL
      /\ del' = [k \in 1..Len(Chain) |-> data[Chain[k]]] /\ next' = next
  BY DEF list_destroy, Returns
<1>2. PICK c, pl : Sees(c, pl)
  BY <1>1, Alive
<1>3. del' = Items
  BY <1>1, <1>2, SeesFacts DEF ItemsOf
<1>4. free' = Node
  <2>1. c \in Seq(Node) /\ free = Unused(c) /\ Chain = c
    BY <1>2, SeesFacts
  <2>2. ToSet(c) = {c[k] : k \in 1..Len(c)}
    BY <2>1 DEF ToSet
  <2> QED
    BY <1>1, <2>1, <2>2 DEF Unused
<1>5. next' \in [Cell -> Ptr]
  BY <1>1, <1>2, SeesFacts
<1>6. Inv'
  BY <1>1, <1>4, <1>5 DEF Inv, Idle
<1>7. Items' = << >> /\ Places' = [i \in Iter |-> Closed]
  BY <1>1 DEF Items, Places
<1> QED
  BY <1>1, <1>3, <1>6, <1>7 DEF Abstract!list_destroy, Abstract!Returns

(* list_append and list_enqueue: l->tail is the cell behind the last node. *)
LEMMA Step_append ==
  ASSUME Inv, NEW x \in Item, list_append(x)
  PROVE  Inv' /\ (Abstract!list_append(x) \/ Abstract!NoMemory)
<1>1. alive /\ Create(tail, x)
  BY DEF list_append
<1>2. PICK c, pl : Sees(c, pl)
  BY <1>1, Alive
<1>3. /\ tail = CellOf(c, Len(c)) /\ Len(c) \in 0..Len(c)
      /\ Len(Items) = Len(c)
  BY <1>2, SeesFacts, SeesItems
<1>4. Inv' /\ (Abstract!Insert(Len(c), x) \/ Abstract!NoMemory)
  BY <1>1, <1>2, <1>3, CreateStep
<1> QED
  BY <1>1, <1>3, <1>4 DEF Abstract!list_append

(* list_prepend and list_push: the cell of the head.                       *)
LEMMA Step_prepend ==
  ASSUME Inv, NEW x \in Item, list_prepend(x)
  PROVE  Inv' /\ (Abstract!list_prepend(x) \/ Abstract!NoMemory)
<1>1. alive /\ Create(LHead, x)
  BY DEF list_prepend
<1>2. PICK c, pl : Sees(c, pl)
  BY <1>1, Alive
<1>3. LHead = CellOf(c, 0) /\ 0 \in 0..Len(c)
  BY <1>2, SeesFacts DEF CellOf
<1>4. Inv' /\ (Abstract!Insert(0, x) \/ Abstract!NoMemory)
  BY <1>1, <1>2, <1>3, CreateStep
<1> QED
  BY <1>1, <1>4 DEF Abstract!list_prepend

(* What a call that only reads leaves to show.                             *)
LEMMA Reads ==
  ASSUME Inv, NEW v, Nothing(v)
  PROVE  Inv' /\ Abstract!Nothing(v)
<1>1. Inv' /\ Items' = Items /\ Places' = Places /\ alive' = alive /\ ret' = v /\ del' = << >>
  BY Same DEF Nothing, Returns
<1> QED
  BY <1>1 DEF Abstract!Nothing, Abstract!Returns

(* list_dequeue and list_pop.                                              *)
LEMMA Step_dequeue ==
  ASSUME Inv, list_dequeue
  PROVE  Inv' /\ Abstract!list_dequeue
<1>1. alive /\ Destroy(LHead)
  BY DEF list_dequeue
<1>2. PICK c, pl : Sees(c, pl)
  BY <1>1, Alive
<1>3. /\ LHead = CellOf(c, 1 - 1) /\ c \in Seq(Node) /\ Len(c) \in Nat /\ next[LHead] = At(c, 1)
      /\ Len(Items) = Len(c) /\ Items \in Seq(Item)
  <2>1. LHead = CellOf(c, 0) /\ 0 \in 0..Len(c) /\ 1 - 1 = 0 /\ 0 + 1 = 1
    BY <1>2, SeesFacts DEF CellOf
  <2>2. next[CellOf(c, 0)] = At(c, 0 + 1)
    BY <1>2, <2>1, SeesFacts DEF Follows
  <2> QED
    BY <1>2, <2>1, <2>2, SeesFacts, SeesItems
<1>4. CASE next[LHead] = NULL
  <2>1. Len(c) = 0
    <3>1. ASSUME 1 \in 1..Len(c) PROVE FALSE
      BY <1>3, <1>4, <3>1, ListAssumption DEF At
    <3> QED
      BY <1>3, <3>1
  <2>2. Items = << >>
    BY <1>3, <2>1
  <2>3. Nothing(NULL)
    BY <1>1, <1>4 DEF Destroy
  <2> QED
    BY <1>1, <2>2, <2>3, Reads DEF Abstract!list_dequeue
<1>5. CASE next[LHead] # NULL
  <2>1. 1 \in 1..Len(c)
    BY <1>3, <1>5 DEF At
  <2>2. Items # << >>
    BY <1>3, <2>1
  <2>3. /\ Becomes(list_node_destroy(Memory, LHead)) /\ alive' = alive
        /\ Returns(data[next[LHead]], << >>)
    BY <1>1, <1>5 DEF Destroy
  <2>4. Inv' /\ Abstract!TakeOut(1, FALSE)
    BY <1>1, <1>2, <1>3, <2>1, <2>3, DestroyStep
  <2> QED
    BY <1>1, <2>2, <2>4 DEF Abstract!list_dequeue
<1> QED
  BY <1>4, <1>5

(* l->count is the length of the sequence.                                 *)
LEMMA Step_count ==
  ASSUME Inv, list_count
  PROVE  Inv' /\ Abstract!list_count
<1>1. alive /\ Nothing(count)
  BY DEF list_count
<1>2. PICK c, pl : Sees(c, pl)
  BY <1>1, Alive
<1>3. count = Len(Items)
  BY <1>2, SeesFacts, SeesItems
<1> QED
  BY <1>1, <1>3, Reads DEF Abstract!list_count

(* list_peek.                                                              *)
LEMMA Step_peek ==
  ASSUME Inv, list_peek
  PROVE  Inv' /\ Abstract!list_peek
<1>1. alive /\ Nothing(IF next[LHead] = NULL THEN NULL ELSE data[next[LHead]])
  BY DEF list_peek
<1>2. PICK c, pl : Sees(c, pl)
  BY <1>1, Alive
<1>3. /\ c \in Seq(Node) /\ Len(c) \in Nat /\ next[LHead] = At(c, 1)
      /\ Len(Items) = Len(c) /\ Items \in Seq(Item)
      /\ \A k \in 1..Len(c) : Items[k] = data[c[k]]
  <2>1. LHead = CellOf(c, 0) /\ 0 \in 0..Len(c) /\ 0 + 1 = 1
    BY <1>2, SeesFacts DEF CellOf
  <2>2. next[CellOf(c, 0)] = At(c, 0 + 1)
    BY <1>2, <2>1, SeesFacts DEF Follows
  <2> QED
    BY <1>2, <2>1, <2>2, SeesFacts, SeesItems
<1>4. CASE 1 \in 1..Len(c)
  <2>1. next[LHead] = c[1] /\ c[1] # NULL /\ Items # << >> /\ Items[1] = data[c[1]]
    BY <1>3, <1>4, ListAssumption DEF At
  <2> QED
    BY <1>1, <2>1, Reads DEF Abstract!list_peek
<1>5. CASE 1 \notin 1..Len(c)
  <2>1. next[LHead] = NULL /\ Items = << >>
    BY <1>3, <1>5 DEF At
  <2> QED
    BY <1>1, <2>1, Reads DEF Abstract!list_peek
<1> QED
  BY <1>4, <1>5

(* The first node a callback accepts holds the first item it accepts.      *)
LEMMA SameFirst ==
  ASSUME NEW c, NEW pl, Sees(c, pl), NEW P
  PROVE  /\ Abstract!FirstIn(P) = FirstIn(P) /\ Len(Items) = Len(Chain)
         /\ \A k \in FirstIn(P) : Items[k] = data[Chain[k]]
<1>1. Chain = c /\ Len(Items) = Len(c) /\ \A k \in 1..Len(c) : Items[k] = data[c[k]]
  BY SeesFacts, SeesItems
<1>2. ASSUME NEW k \in 1..Len(c), NEW j \in 1..(k - 1) PROVE Items[j] = data[c[j]]
  <2>1. j \in 1..Len(c)
    BY SeesFacts
  <2> QED
    BY <1>1, <2>1
<1> QED
  BY <1>1, <1>2 DEF FirstIn, Abstract!FirstIn

(* list_find_first.                                                        *)
LEMMA Step_find_first ==
  ASSUME Inv, NEW P, list_find_first(P)
  PROVE  Inv' /\ Abstract!list_find_first(P)
<1>1. alive
  BY DEF list_find_first
<1>2. PICK c, pl : Sees(c, pl)
  BY <1>1, Alive
<1>3. /\ Abstract!FirstIn(P) = FirstIn(P)
      /\ \A k \in FirstIn(P) : Items[k] = data[Chain[k]]
  BY <1>2, SameFirst
<1>4. CASE FirstIn(P) = {} /\ Nothing(NULL)
  BY <1>1, <1>3, <1>4, Reads DEF Abstract!list_find_first
<1>5. CASE \E k \in FirstIn(P) : Nothing(data[Chain[k]])
  <2>1. PICK k \in FirstIn(P) : Nothing(data[Chain[k]])
    BY <1>5
  <2>2. Nothing(Items[k])
    BY <1>3, <2>1
  <2>3. Inv' /\ Abstract!Nothing(Items[k])
    BY <2>2, Reads
  <2> QED
    BY <1>1, <1>3, <2>3 DEF Abstract!list_find_first
<1> QED
  BY <1>4, <1>5 DEF list_find_first

(* list_for_each.                                                          *)
LEMMA Step_for_each ==
  ASSUME Inv, NEW P, list_for_each(P)
  PROVE  Inv' /\ Abstract!list_for_each(P)
<1>1. alive
  BY DEF list_for_each
<1>2. PICK c, pl : Sees(c, pl)
  BY <1>1, Alive
<1>3. Abstract!FirstIn(P) = FirstIn(P) /\ Len(Items) = Len(Chain)
  BY <1>2, SameFirst
<1>4. CASE FirstIn(P) = {} /\ Nothing(Len(Chain))
  BY <1>1, <1>3, <1>4, Reads DEF Abstract!list_for_each
<1>5. CASE \E k \in FirstIn(P) : Nothing(-k)
  <2>1. PICK k \in FirstIn(P) : Nothing(-k)
    BY <1>5
  <2>2. Inv' /\ Abstract!Nothing(-k)
    BY <2>1, Reads
  <2> QED
    BY <1>1, <1>3, <2>2 DEF Abstract!list_for_each
<1> QED
  BY <1>4, <1>5 DEF list_for_each

(* The types of an iterator and its place.                                 *)
LEMMA OnPlaceType ==
  ASSUME NEW c \in Seq(Node), NEW j, NEW q, OnPlace(j, c, q)
  PROVE  j \in [pos : Ptr, prev : Cell] \cup {Closed} /\ q \in Place \cup {Closed}
<1>1. CASE q = Closed /\ j = Closed
  BY <1>1
<1>2. CASE Valid(q, c) /\ j = [pos |-> PosAt(q, c), prev |-> PrevAt(q, c)]
  <2>1. Behind(q) \in 0..Len(c) /\ q.at \in 0..Len(c) /\ q \in Place
    BY <1>2 DEF Valid, Place, Behind
  <2>2. PosAt(q, c) \in Ptr /\ PrevAt(q, c) \in Cell
    BY <2>1, Cells DEF PosAt, PrevAt
  <2> QED
    BY <1>2, <2>1, <2>2
<1> QED
  BY <1>1, <1>2 DEF OnPlace, Valid, PosAt, PrevAt, Behind

(* A call that moves one iterator.                                         *)
Rest == <<data, next, tail, count, free, alive>>

(* A call that moves one iterator and nothing else.                        *)
LEMMA Moves ==
  ASSUME Inv, alive, NEW c, NEW pl, Sees(c, pl), NEW i \in Iter, NEW j, NEW q,
         OnPlace(j, c, q), it' = [it EXCEPT ![i] = j], UNCHANGED Rest
  PROVE  Inv' /\ Items' = Items /\ Places' = [Places EXCEPT ![i] = q]
<1>1. /\ c \in Seq(Node) /\ OnPlaces(it, c, pl) /\ Linked(Memory, c)
      /\ Places = pl /\ Items = ItemsOf(data, c)
  BY SeesFacts
<1>2. PICK m : m = [data |-> data, next |-> next, tail |-> tail, count |-> count,
                    it |-> [it EXCEPT ![i] = j], free |-> free]
  OBVIOUS
<1>3. Becomes(m) /\ alive' = TRUE
  BY <1>2 DEF Becomes, Rest, Inv
<1>4. Linked(m, c)
  BY <1>1, <1>2 DEF Linked, Memory
<1>5. j \in [pos : Ptr, prev : Cell] \cup {Closed} /\ q \in Place \cup {Closed}
  BY <1>1, OnPlaceType
<1>6. OnPlaces(m.it, c, [pl EXCEPT ![i] = q])
  <2>1. m.it = [it EXCEPT ![i] = j]
    BY <1>2
  <2>2. it \in [Iter -> [pos : Ptr, prev : Cell] \cup {Closed}] /\ pl \in [Iter -> Place \cup {Closed}]
    BY <1>1 DEF OnPlaces
  <2>3. ASSUME NEW h \in Iter PROVE OnPlace(m.it[h], c, [pl EXCEPT ![i] = q][h])
    <3>1. OnPlace(it[h], c, pl[h])
      BY <1>1 DEF OnPlaces
    <3> QED
      BY <2>1, <2>2, <3>1
  <2> QED
    BY <2>1, <2>2, <2>3, <1>5 DEF OnPlaces
<1>7. PICK e : e = [pl EXCEPT ![i] = q]
  OBVIOUS
<1>8. Inv' /\ Items' = ItemsOf(m.data, c) /\ Places' = e
  BY <1>3, <1>4, <1>6, <1>7, Reaches DEF Holds
<1> QED
  BY <1>1, <1>2, <1>7, <1>8

(* A new iterator is in front of the list.                                 *)
LEMMA AtStartPlace ==
  ASSUME NEW c, NEW pl, Sees(c, pl)
  PROVE  OnPlace(AtStart, c, Abstract!Start)
<1>1. /\ c \in Seq(Node) /\ Len(c) \in Nat /\ CellOf(c, 0) = LHead /\ 0 \in 0..Len(c)
  BY SeesFacts DEF CellOf
<1>2. next[CellOf(c, 0)] = At(c, 0 + 1)
  BY <1>1, SeesFacts DEF Follows
<1> QED
  BY <1>1, <1>2 DEF OnPlace, AtStart, Abstract!Start, Place

(* list_iterator_create.                                                   *)
LEMMA Step_iterator_create ==
  ASSUME Inv, NEW i \in Iter, list_iterator_create(i)
  PROVE  Inv' /\ Abstract!list_iterator_create(i)
<1>1. /\ alive /\ it[i] = Closed /\ it' = [it EXCEPT ![i] = AtStart]
      /\ ret' = NULL /\ del' = << >> /\ UNCHANGED Rest /\ alive' = alive
  BY DEF list_iterator_create, Returns, Rest
<1>2. PICK c, pl : Sees(c, pl)
  BY <1>1, Alive
<1>3. PICK j : j = AtStart
  OBVIOUS
<1>4. PICK q : q = Abstract!Start
  OBVIOUS
<1>5. OnPlace(j, c, q)
  BY <1>2, <1>3, <1>4, AtStartPlace
<1>6. Inv' /\ Items' = Items /\ Places' = [Places EXCEPT ![i] = q]
  BY <1>1, <1>2, <1>3, <1>5, Moves
<1>7. Places[i] = Closed
  <2>1. Places = pl
    BY <1>2, SeesFacts
  <2>2. pl[i] = Closed
    BY <1>1, <1>2, SeesIter
  <2> QED
    BY <2>1, <2>2
<1> QED
  BY <1>1, <1>4, <1>6, <1>7 DEF Abstract!list_iterator_create, Abstract!Returns

(* What an action on an open iterator knows.                               *)
LEMMA Opened ==
  ASSUME Inv, NEW i \in Open
  PROVE  /\ i \in Iter /\ it[i] # Closed /\ alive /\ i \in Abstract!Open
<1>1. i \in Iter /\ it[i] # Closed
  BY DEF Open
<1>2. alive
  BY <1>1, OpenAlive
<1>3. PICK c, pl : Sees(c, pl)
  BY <1>2, Alive
<1>4. Places[i] # Closed
  <2>1. Places = pl
    BY <1>3, SeesFacts
  <2>2. pl[i] # Closed
    BY <1>1, <1>3, SeesIter
  <2> QED
    BY <2>1, <2>2
<1> QED
  BY <1>1, <1>2, <1>4 DEF Abstract!Open

(* list_iterator_reset.                                                    *)
LEMMA Step_iterator_reset ==
  ASSUME Inv, NEW i \in Iter, list_iterator_reset(i)
  PROVE  Inv' /\ Abstract!list_iterator_reset(i)
<1>1. /\ i \in Open /\ it' = [it EXCEPT ![i] = AtStart]
      /\ ret' = NULL /\ del' = << >> /\ UNCHANGED Rest /\ alive' = alive
  BY DEF list_iterator_reset, Returns, Rest
<1>2. alive /\ i \in Abstract!Open
  BY <1>1, Opened
<1>3. PICK c, pl : Sees(c, pl)
  BY <1>2, Alive
<1>4. PICK j : j = AtStart
  OBVIOUS
<1>5. PICK q : q = Abstract!Start
  OBVIOUS
<1>6. OnPlace(j, c, q)
  BY <1>3, <1>4, <1>5, AtStartPlace
<1>7. Inv' /\ Items' = Items /\ Places' = [Places EXCEPT ![i] = q]
  BY <1>1, <1>2, <1>3, <1>4, <1>6, Moves
<1> QED
  BY <1>1, <1>2, <1>5, <1>7 DEF Abstract!list_iterator_reset, Abstract!Returns

(* list_iterator_destroy.                                                  *)
LEMMA Step_iterator_destroy ==
  ASSUME Inv, NEW i \in Iter, list_iterator_destroy(i)
  PROVE  Inv' /\ Abstract!list_iterator_destroy(i)
<1>1. /\ i \in Open /\ it' = [it EXCEPT ![i] = Closed]
      /\ ret' = NULL /\ del' = << >> /\ UNCHANGED Rest /\ alive' = alive
  BY DEF list_iterator_destroy, Returns, Rest
<1>2. alive /\ i \in Abstract!Open
  BY <1>1, Opened
<1>3. PICK c, pl : Sees(c, pl)
  BY <1>2, Alive
<1>4. OnPlace(Closed, c, Closed)
  BY DEF OnPlace
<1>5. Inv' /\ Items' = Items /\ Places' = [Places EXCEPT ![i] = Closed]
  BY <1>1, <1>2, <1>3, <1>4, Moves
<1> QED
  BY <1>1, <1>2, <1>5 DEF Abstract!list_iterator_destroy, Abstract!Returns

(* list_insert puts the item in front of the one returned last, or, if     *)
(* that is gone, of the next one.                                          *)
LEMMA Step_insert ==
  ASSUME Inv, NEW i \in Iter, NEW x \in Item, list_insert(i, x)
  PROVE  Inv' /\ (Abstract!list_insert(i, x) \/ Abstract!NoMemory)
<1>1. i \in Open /\ Create(it[i].prev, x)
  BY DEF list_insert
<1>2. alive /\ i \in Abstract!Open /\ it[i] # Closed
  BY <1>1, Opened
<1>3. PICK c, pl : Sees(c, pl)
  BY <1>2, Alive
<1>4. it[i].prev = CellOf(c, Behind(pl[i])) /\ Behind(pl[i]) \in 0..Len(c) /\ Places = pl
  <2>1. Places = pl
    BY <1>3, SeesFacts
  <2>2. IterFacts(it[i], c, pl[i])
    BY <1>2, <1>3, SeesIter
  <2>3. it[i].prev = CellOf(c, Behind(pl[i])) /\ Behind(pl[i]) \in 0..Len(c)
    BY <2>2, Zenon DEF IterFacts
  <2> QED
    BY <2>1, <2>3
<1>5. PICK k \in 0..Len(c) : k = Behind(pl[i])
  BY <1>4
<1>6. Inv' /\ (Abstract!Insert(k, x) \/ Abstract!NoMemory)
  BY <1>1, <1>2, <1>3, <1>4, <1>5, CreateStep
<1>7. k = IF Places[i].last THEN Places[i].at - 1 ELSE Places[i].at
  BY <1>4, <1>5 DEF Behind
<1> QED
  BY <1>2, <1>6, <1>7 DEF Abstract!list_insert

(* The item an iterator can still remove is the one at its place.          *)
LEMMA LastItem ==
  ASSUME NEW c, NEW pl, Sees(c, pl), NEW i \in Iter, it[i] # Closed
  PROVE  /\ (next[it[i].prev] # it[i].pos) <=> Places[i].last
         /\ Places[i].last => /\ Places[i].at \in 1..Len(c)
                              /\ it[i].prev = CellOf(c, Places[i].at - 1)
                              /\ next[it[i].prev] # NULL
<1>1. c \in Seq(Node) /\ Len(c) \in Nat /\ Places = pl
  BY SeesFacts
<1>2. PICK q : q = pl[i]
  OBVIOUS
<1>3. /\ Valid(q, c) /\ it[i].prev = CellOf(c, Behind(q))
      /\ next[it[i].prev] = (IF q.last THEN At(c, q.at) ELSE At(c, q.at + 1))
      /\ (next[it[i].prev] # it[i].pos) <=> q.last
  <2>1. IterFacts(it[i], c, q)
    BY <1>2, SeesIter
  <2> QED
    BY <2>1, Zenon DEF IterFacts
<1>4. ASSUME q.last
      PROVE  q.at \in 1..Len(c) /\ it[i].prev = CellOf(c, q.at - 1) /\ next[it[i].prev] # NULL
  <2>1. q.at \in 1..Len(c)
    BY <1>1, <1>3, <1>4 DEF Valid, Place
  <2>2. At(c, q.at) = c[q.at] /\ c[q.at] \in Node
    BY <1>1, <2>1 DEF At
  <2> QED
    BY <1>3, <1>4, <2>1, <2>2, ListAssumption DEF Behind
<1> QED
  BY <1>1, <1>2, <1>3, <1>4

(* list_remove takes out the item returned last, or nothing,               *)
LEMMA Step_remove ==
  ASSUME Inv, NEW i \in Iter, list_remove(i)
  PROVE  Inv' /\ Abstract!list_remove(i, FALSE)
<1>1. i \in Open
  BY DEF list_remove
<1>2. alive /\ i \in Abstract!Open /\ it[i] # Closed
  BY <1>1, Opened
<1>3. PICK c, pl : Sees(c, pl)
  BY <1>2, Alive
<1>4. /\ (next[it[i].prev] # it[i].pos) <=> Places[i].last
      /\ Places[i].last => /\ Places[i].at \in 1..Len(c)
                           /\ it[i].prev = CellOf(c, Places[i].at - 1)
                           /\ next[it[i].prev] # NULL
  BY <1>2, <1>3, LastItem
<1>5. CASE Places[i].last
  <2>1. PICK k \in 1..Len(c) : k = Places[i].at
    BY <1>4, <1>5
  <2>2. /\ Becomes(list_node_destroy(Memory, it[i].prev)) /\ alive' = alive
        /\ Returns(data[next[it[i].prev]], << >>)
    BY <1>4, <1>5 DEF list_remove, Destroy
  <2>3. Inv' /\ Abstract!TakeOut(k, FALSE)
    BY <1>2, <1>3, <1>4, <1>5, <2>1, <2>2, DestroyStep
  <2> QED
    BY <1>2, <1>5, <2>1, <2>3 DEF Abstract!list_remove
<1>6. CASE ~Places[i].last
  <2>1. Nothing(NULL)
    BY <1>4, <1>6 DEF list_remove
  <2> QED
    BY <1>2, <1>6, <2>1, Reads DEF Abstract!list_remove
<1> QED
  BY <1>5, <1>6

(* and list_delete hands it to the ListDelF.                               *)
LEMMA Step_delete ==
  ASSUME Inv, NEW i \in Iter, list_delete(i)
  PROVE  Inv' /\ Abstract!list_remove(i, TRUE)
<1>1. i \in Open
  BY DEF list_delete
<1>2. alive /\ i \in Abstract!Open /\ it[i] # Closed
  BY <1>1, Opened
<1>3. PICK c, pl : Sees(c, pl)
  BY <1>2, Alive
<1>4. /\ (next[it[i].prev] # it[i].pos) <=> Places[i].last
      /\ Places[i].last => /\ Places[i].at \in 1..Len(c)
                           /\ it[i].prev = CellOf(c, Places[i].at - 1)
                           /\ next[it[i].prev] # NULL
  BY <1>2, <1>3, LastItem
<1>5. CASE Places[i].last
  <2>1. PICK k \in 1..Len(c) : k = Places[i].at
    BY <1>4, <1>5
  <2>2. /\ Becomes(list_node_destroy(Memory, it[i].prev)) /\ alive' = alive
        /\ Returns(1, <<data[next[it[i].prev]]>>)
    BY <1>4, <1>5 DEF list_delete
  <2>3. Inv' /\ Abstract!TakeOut(k, TRUE)
    BY <1>2, <1>3, <1>4, <1>5, <2>1, <2>2, DestroyStep
  <2> QED
    BY <1>2, <1>5, <2>1, <2>3 DEF Abstract!list_remove
<1>6. CASE ~Places[i].last
  <2>1. Nothing(0)
    BY <1>4, <1>6 DEF list_delete
  <2> QED
    BY <1>2, <1>6, <2>1, Reads DEF Abstract!list_remove
<1> QED
  BY <1>5, <1>6

-------------------------------------------------------------------------------
(* list_next moves an iterator to the next place.                          *)
IterOf(c, q)    == [pos |-> PosAt(q, c), prev |-> PrevAt(q, c)]
NextPlace(q, n) == IF q.at < n THEN [at |-> q.at + 1, last |-> TRUE]
                   ELSE [at |-> q.at, last |-> FALSE]

(* list_next passes one item, or stays at the end.                         *)
LEMMA AdvancedPlace ==
  ASSUME NEW c \in Seq(Node), Injective(c), next \in [Cell -> Ptr], Follows(next, c),
         NEW q, Valid(q, c)
  PROVE  /\ Advanced(IterOf(c, q)) = IterOf(c, NextPlace(q, Len(c)))
         /\ Valid(NextPlace(q, Len(c)), c)
<1> DEFINE r == NextPlace(q, Len(c))
           j == IterOf(c, q)
<1>1. q.at \in 0..Len(c) /\ q.last \in BOOLEAN /\ (q.last => q.at >= 1) /\ Len(c) \in Nat
  BY DEF Valid, Place
<1>2. j.pos = PosAt(q, c) /\ j.prev = PrevAt(q, c)
  BY DEF IterOf
<1>3. Advanced(j) = [pos  |-> IF j.pos = NULL THEN NULL ELSE next[j.pos],
                     prev |-> IF next[j.prev] # j.pos THEN next[j.prev] ELSE j.prev]
  BY DEF Advanced
<1> HIDE DEF j
<1>4. Advanced(j).prev = CellOf(c, q.at)
  <2>1. /\ (next[PrevAt(q, c)] # PosAt(q, c)) <=> q.last
        /\ next[PrevAt(q, c)] = (IF q.last THEN At(c, q.at) ELSE At(c, q.at + 1))
    BY PlaceOf
  <2>2. CASE q.last
    <3>1. q.at \in 1..Len(c) /\ q.at # 0
      BY <1>1, <2>2
    <3>2. At(c, q.at) = CellOf(c, q.at)
      BY <3>1 DEF At, CellOf
    <3> QED
      BY <1>2, <1>3, <2>1, <2>2, <3>2
  <2>3. CASE ~q.last
    <3>1. PrevAt(q, c) = CellOf(c, q.at)
      BY <2>3 DEF PrevAt, Behind
    <3> QED
      BY <1>2, <1>3, <2>1, <2>3, <3>1
  <2> QED
    BY <2>2, <2>3
<1>5. CASE q.at < Len(c)
  <2>1. r = [at |-> q.at + 1, last |-> TRUE]
    BY <1>5 DEF NextPlace
  <2>2. q.at + 1 \in 1..Len(c) /\ (q.at + 1) - 1 = q.at
    BY <1>1, <1>5
  <2>3. PosAt(q, c) = c[q.at + 1] /\ c[q.at + 1] \in Node /\ c[q.at + 1] = CellOf(c, q.at + 1)
    BY <1>1, <2>2 DEF PosAt, At, CellOf
  <2>4. next[c[q.at + 1]] = At(c, (q.at + 1) + 1)
    BY <1>1, <2>2, <2>3 DEF Follows
  <2>5. Advanced(j).pos = At(c, (q.at + 1) + 1)
    BY <1>2, <1>3, <2>3, <2>4, ListAssumption
  <2>6. PosAt(r, c) = At(c, (q.at + 1) + 1) /\ PrevAt(r, c) = CellOf(c, q.at)
    BY <2>1, <2>2 DEF PosAt, PrevAt, Behind
  <2>7. Valid(r, c)
    BY <1>1, <2>1, <2>2 DEF Valid, Place
  <2> QED
    BY <1>3, <1>4, <2>5, <2>6, <2>7 DEF IterOf, j
<1>6. CASE q.at = Len(c)
  <2>1. r = [at |-> q.at, last |-> FALSE]
    BY <1>1, <1>6 DEF NextPlace
  <2>2. q.at + 1 \notin 1..Len(c)
    BY <1>1, <1>6
  <2>3. PosAt(q, c) = NULL /\ PosAt(r, c) = NULL
    BY <2>1, <2>2 DEF PosAt, At
  <2>4. PrevAt(r, c) = CellOf(c, q.at)
    BY <2>1 DEF PrevAt, Behind
  <2>5. Valid(r, c)
    BY <1>1, <1>6, <2>1 DEF Valid, Place
  <2> QED
    BY <1>2, <1>3, <1>4, <2>3, <2>4, <2>5 DEF IterOf, j
<1> QED
  BY <1>1, <1>5, <1>6

(* The places that list_find passes, starting from q.                      *)
Round(q, n, k) == IF k = 0 THEN q
                  ELSE IF q.at + k <= n THEN [at |-> q.at + k, last |-> TRUE]
                  ELSE [at |-> n, last |-> FALSE]

(* Calls of list_next add up:                                              *)
LEMMA RoundStep ==
  ASSUME NEW n \in Nat, NEW q, q.at \in 0..n, NEW k \in Nat, k # 0
  PROVE  Round(q, n, k) = NextPlace(Round(q, n, k - 1), n)
<1> DEFINE a == q.at
           r == Round(q, n, k - 1)
<1>0. a \in 0..n
  OBVIOUS
<1>1. Round(q, n, k) = IF a + k <= n THEN [at |-> a + k, last |-> TRUE]
                       ELSE [at |-> n, last |-> FALSE]
  BY DEF Round
<1>2. k - 1 # 0 => r = IF a + (k - 1) <= n THEN [at |-> a + (k - 1), last |-> TRUE]
                       ELSE [at |-> n, last |-> FALSE]
  BY DEF Round
<1>3. k - 1 = 0 => r.at = a
  BY DEF Round
<1>4. NextPlace(r, n) = IF r.at < n THEN [at |-> r.at + 1, last |-> TRUE]
                        ELSE [at |-> r.at, last |-> FALSE]
  BY DEF NextPlace
<1> HIDE DEF a, r
<1>5. CASE a + k <= n
  <2>1. r.at = a + (k - 1)
    <3>1. CASE k - 1 = 0
      BY <1>0, <1>3, <3>1
    <3>2. CASE k - 1 # 0
      <4>1. a + (k - 1) <= n
        BY <1>0, <1>5
      <4> QED
        BY <1>2, <3>2, <4>1
    <3> QED
      BY <3>1, <3>2
  <2>2. a + (k - 1) < n /\ (a + (k - 1)) + 1 = a + k
    BY <1>0, <1>5
  <2> QED
    BY <1>1, <1>4, <1>5, <2>1, <2>2 DEF a, r
<1>6. CASE ~(a + k <= n)
  <2>1. r.at = n
    <3>1. CASE k - 1 = 0
      BY <1>0, <1>3, <1>6, <3>1
    <3>2. CASE k - 1 # 0
      <4>1. CASE a + (k - 1) <= n
        <5>1. a + (k - 1) = n
          BY <1>0, <1>6, <4>1
        <5> QED
          BY <1>2, <3>2, <4>1, <5>1
      <4>2. CASE ~(a + (k - 1) <= n)
        BY <1>2, <3>2, <4>2
      <4> QED
        BY <4>1, <4>2
    <3> QED
      BY <3>1, <3>2
  <2>2. ~(n < n)
    OBVIOUS
  <2> QED
    BY <1>1, <1>4, <1>6, <2>1, <2>2 DEF a, r
<1> QED
  BY <1>5, <1>6

(* after k of them the iterator has passed k items more, or is at the end. *)
LEMMA Rounds ==
  ASSUME NEW c \in Seq(Node), NEW q, Valid(q, c), NEW k \in Nat, k # 0
  PROVE  /\ Valid(Round(q, Len(c), k), c)
         /\ Round(q, Len(c), k) = NextPlace(Round(q, Len(c), k - 1), Len(c))
<1>1. q.at \in 0..Len(c) /\ Len(c) \in Nat /\ k >= 1
  BY DEF Valid, Place
<1>2. CASE q.at + k <= Len(c)
  <2>1. Round(q, Len(c), k) = [at |-> q.at + k, last |-> TRUE]
    BY <1>2 DEF Round
  <2>2. q.at + k \in Nat /\ q.at + k >= 1
    BY <1>1
  <2>3. Valid(Round(q, Len(c), k), c)
    BY <1>2, <2>1, <2>2 DEF Valid, Place
  <2> QED
    BY <1>1, <2>3, RoundStep
<1>3. CASE ~(q.at + k <= Len(c))
  <2>1. Round(q, Len(c), k) = [at |-> Len(c), last |-> FALSE]
    BY <1>3 DEF Round
  <2>2. Valid(Round(q, Len(c), k), c)
    BY <1>1, <2>1 DEF Valid, Place
  <2> QED
    BY <1>1, <2>2, RoundStep
<1> QED
  BY <1>2, <1>3

(* The rounds of list_find, as its definition writes them.                 *)
Steps(p, j, n) == p = [k \in 0..(n + 1) |-> IF k = 0 THEN j ELSE Advanced(p[k - 1])]

(* The loop of list_find goes through these places.                        *)
LEMMA StepsAre ==
  ASSUME NEW c \in Seq(Node), Injective(c), next \in [Cell -> Ptr], Follows(next, c),
         NEW q, Valid(q, c), NEW p, p = CHOOSE z : Steps(z, IterOf(c, q), Len(c))
  PROVE  \A k \in 0..(Len(c) + 1) : p[k] = IterOf(c, Round(q, Len(c), k))
<1> DEFINE n == Len(c)
           j == IterOf(c, q)
           g == [k \in 0..(n + 1) |-> IterOf(c, Round(q, n, k))]
<1>0. n \in Nat
  OBVIOUS
<1>1. Steps(g, j, n)
  <2>1. ASSUME NEW k \in 0..(n + 1), k # 0 PROVE g[k] = Advanced(g[k - 1])
    <3>1. k - 1 \in 0..(n + 1) /\ k \in Nat
      BY <2>1, <1>0
    <3>2. Valid(Round(q, n, k - 1), c)
      <4>1. CASE k = 1
        BY <4>1 DEF Round
      <4>2. CASE k # 1
        <5>1. k - 1 \in Nat /\ k - 1 # 0
          BY <3>1, <4>2
        <5> QED
          BY <5>1, Rounds
      <4> QED
        BY <4>1, <4>2
    <3>3. Round(q, n, k) = NextPlace(Round(q, n, k - 1), n)
      BY <2>1, <3>1, Rounds
    <3>4. Advanced(IterOf(c, Round(q, n, k - 1))) = IterOf(c, NextPlace(Round(q, n, k - 1), n))
      BY <3>2, AdvancedPlace
    <3> QED
      BY <3>1, <3>3, <3>4
  <2>2. g[0] = j
    BY <1>0 DEF Round
  <2>3. ASSUME NEW k \in 0..(n + 1)
        PROVE  g[k] = IF k = 0 THEN j ELSE Advanced(g[k - 1])
    BY <2>1, <2>2
  <2>4. g = [k \in 0..(n + 1) |-> g[k]]
    OBVIOUS
  <2> HIDE DEF g, j, n
  <2>5. g = [k \in 0..(n + 1) |-> IF k = 0 THEN j ELSE Advanced(g[k - 1])]
    BY <2>3, <2>4
  <2> QED
    BY <2>5 DEF Steps
<1> HIDE DEF g, j, n
<1>2. Steps(p, j, n)
  BY <1>1 DEF j, n
<1>3. /\ \A k \in 0..(n + 1) : p[k] = IF k = 0 THEN j ELSE Advanced(p[k - 1])
      /\ \A k \in 0..(n + 1) : g[k] = IF k = 0 THEN j ELSE Advanced(g[k - 1])
  BY <1>1, <1>2 DEF Steps
<1> DEFINE Bad == {k \in 0..(n + 1) : p[k] # g[k]}
<1>4. Bad = {}
  <2> SUFFICES ASSUME Bad # {} PROVE FALSE
    OBVIOUS
  <2>1. PICK k \in Bad : \A h \in Bad : k <= h
    <3>1. Bad \in SUBSET Nat
      OBVIOUS
    <3> HIDE DEF Bad
    <3> QED
      BY <3>1, Least
  <2>2. k # 0
    BY <1>0, <1>3
  <2>3. k - 1 \in 0..(n + 1) /\ ~(k <= k - 1)
    BY <2>2, <1>0
  <2>4. k - 1 \notin Bad
    BY <2>1, <2>3
  <2> QED
    BY <1>3, <2>2, <2>3, <2>4
<1> QED
  BY <1>4 DEF g, n

(* list_find stops at the first item ahead that the callback accepts, or   *)
(* at the end; list_next is its first round.                               *)
LEMMA Step_find ==
  ASSUME Inv, NEW i \in Iter, NEW P, list_find(i, P)
  PROVE  Inv' /\ Abstract!list_find(i, P)
<1> DEFINE step == CHOOSE step : step = [k \in 0..(count + 1) |->
                     IF k = 0 THEN it[i] ELSE Advanced(step[k - 1])]
           Stops(k) == step[k].pos = NULL \/ data[step[k].pos] \in P
           last == CHOOSE k \in 0..count : Stops(k) /\ \A j \in 0..(k - 1) : ~Stops(j)
           found == step[last].pos
<1>0. /\ it' = [it EXCEPT ![i] = step[last + 1]]
      /\ ret' = IF found = NULL THEN NULL ELSE data[found]
  BY Zenon DEF list_find, Returns
<1>1. i \in Open /\ del' = << >> /\ UNCHANGED Rest /\ alive' = alive
  BY Zenon DEF list_find, Returns, Rest
<1>2. alive /\ i \in Abstract!Open /\ it[i] # Closed
  BY <1>1, Opened
<1>3. PICK c, pl : Sees(c, pl)
  BY <1>2, Alive
<1>4. /\ c \in Seq(Node) /\ Injective(c) /\ Len(c) \in Nat
      /\ next \in [Cell -> Ptr] /\ Follows(next, c) /\ count = Len(c) /\ Places = pl
  BY <1>3, SeesFacts
<1>5. /\ Len(Items) = Len(c)
      /\ \A k \in 1..Len(c) : Items[k] = data[c[k]] /\ data[c[k]] \in Item
  BY <1>3, SeesItems
<1>6. PICK q : q = pl[i]
  OBVIOUS
<1>7. Valid(q, c) /\ it[i] = IterOf(c, q)
  <2>1. IterFacts(it[i], c, q)
    BY <1>2, <1>3, <1>6, SeesIter
  <2> QED
    BY <2>1 DEF IterFacts, IterOf
<1>8. PICK n \in Nat : n = Len(c)
  BY <1>4
<1>9. PICK a \in 0..n : a = q.at
  BY <1>7, <1>8 DEF Valid, Place
<1>10. PICK p : p = step
  OBVIOUS
<1>11. \A k \in 0..(n + 1) : p[k] = IterOf(c, Round(q, n, k))
  <2>1. p = CHOOSE z : Steps(z, IterOf(c, q), Len(c))
    BY <1>4, <1>7, <1>10 DEF Steps
  <2> QED
    BY <1>4, <1>7, <1>8, <2>1, StepsAre
<1>12. ASSUME NEW k \in 0..n
       PROVE  p[k].pos = IF a + k < n THEN c[a + k + 1] ELSE NULL
  <2>0. p[k] = IterOf(c, Round(q, n, k))
    <3>1. k \in 0..(n + 1)
      OBVIOUS
    <3> QED
      BY <1>11, <3>1
  <2>1. p[k].pos = At(c, Round(q, n, k).at + 1)
    BY <2>0 DEF IterOf, PosAt
  <2>2. Round(q, n, k).at = IF a + k <= n THEN a + k ELSE n
    <3>1. CASE k = 0
      BY <1>9, <3>1 DEF Round
    <3>2. CASE k # 0
      <4>1. CASE a + k <= n
        BY <1>9, <3>2, <4>1 DEF Round
      <4>2. CASE ~(a + k <= n)
        BY <1>9, <3>2, <4>2 DEF Round
      <4> QED
        BY <4>1, <4>2
    <3> QED
      BY <3>1, <3>2
  <2>3. CASE a + k < n
    <3>1. a + k <= n /\ a + k + 1 \in 1..n
      BY <2>3
    <3> QED
      BY <1>8, <2>1, <2>2, <2>3, <3>1 DEF At
  <2>4. CASE ~(a + k < n)
    <3>1. Round(q, n, k).at = n /\ n + 1 \notin 1..n
      <4>1. a + k <= n => a + k = n
        BY <2>4
      <4> QED
        BY <2>2, <4>1
    <3> QED
      BY <1>8, <2>1, <2>4, <3>1 DEF At
  <2> QED
    BY <2>3, <2>4
<1> DEFINE Stop(k) == IF a + k < n THEN Items[a + k + 1] \in P ELSE TRUE
<1>13. ASSUME NEW k \in 0..n PROVE Stops(k) <=> Stop(k)
  <2>1. CASE a + k < n
    <3>1. a + k + 1 \in 1..Len(c)
      BY <1>8, <2>1
    <3>2. c[a + k + 1] # NULL /\ Items[a + k + 1] = data[c[a + k + 1]]
      BY <1>4, <1>5, <3>1, ListAssumption
    <3>3. p[k].pos = c[a + k + 1]
      BY <1>12, <2>1
    <3> QED
      BY <1>10, <2>1, <3>2, <3>3
  <2>2. CASE ~(a + k < n)
    <3>1. p[k].pos = NULL
      BY <1>12, <2>2
    <3> QED
      BY <1>10, <2>2, <3>1
  <2> QED
    BY <2>1, <2>2
<1> HIDE DEF Stops, Stop, step
<1>14. PICK l \in 0..n : Stop(l) /\ \A j \in 0..(l - 1) : ~Stop(j)
  <2> DEFINE T == {k \in 0..n : Stop(k)}
  <2>1. n - a \in T
    <3>1. n - a \in 0..n /\ ~(a + (n - a) < n)
      OBVIOUS
    <3> QED
      BY <3>1 DEF Stop
  <2>2. T \in SUBSET Nat /\ T # {}
    BY <2>1
  <2> HIDE DEF T
  <2>3. PICK l \in T : \A j \in T : l <= j
    BY <2>2, Least
  <2> USE DEF T
  <2>4. ASSUME NEW j \in 0..(l - 1), Stop(j) PROVE FALSE
    <3>1. j \in 0..n /\ ~(l <= j)
      BY <2>3
    <3> QED
      BY <2>3, <2>4, <3>1
  <2> QED
    BY <2>3, <2>4
<1>15. last = l
  <2>1. ASSUME NEW k \in 0..n
        PROVE  (Stops(k) /\ \A j \in 0..(k - 1) : ~Stops(j))
                 <=> (Stop(k) /\ \A j \in 0..(k - 1) : ~Stop(j))
    <3>1. \A j \in 0..(k - 1) : j \in 0..n
      OBVIOUS
    <3> QED
      BY <1>13, <3>1
  <2>2. ASSUME NEW k \in 0..n, Stop(k), \A j \in 0..(k - 1) : ~Stop(j) PROVE k = l
    <3>1. ~(k < l)
      <4>1. k < l => k \in 0..(l - 1)
        OBVIOUS
      <4> QED
        BY <1>14, <2>2, <4>1
    <3>2. ~(l < k)
      <4>1. l < k => l \in 0..(k - 1)
        OBVIOUS
      <4> QED
        BY <1>14, <2>2, <4>1
    <3> QED
      BY <3>1, <3>2
  <2>3. count = n
    BY <1>4, <1>8
  <2> QED
    BY <1>14, <2>1, <2>2, <2>3
<1> HIDE DEF last
<1>16. found = IF a + l < n THEN c[a + l + 1] ELSE NULL
  BY <1>10, <1>12, <1>15
<1> HIDE DEF found
<1>17. OnPlace(p[l + 1], c, Round(q, n, l + 1))
  <2>1. l + 1 \in 0..(n + 1) /\ l + 1 \in Nat /\ l + 1 # 0
    OBVIOUS
  <2>2. p[l + 1] = IterOf(c, Round(q, n, l + 1))
    BY <1>11, <2>1
  <2>3. Valid(Round(q, n, l + 1), c)
    BY <1>4, <1>7, <1>8, <2>1, Rounds
  <2> QED
    BY <2>2, <2>3 DEF OnPlace, Valid, IterOf, PosAt, PrevAt, Behind
<1>18. PICK e : e = Round(q, n, l + 1)
  OBVIOUS
<1>19. PICK jj : jj = p[l + 1]
  OBVIOUS
<1>20. Inv' /\ Items' = Items /\ Places' = [Places EXCEPT ![i] = e]
  <2>1. it' = [it EXCEPT ![i] = jj]
    BY <1>0, <1>10, <1>15, <1>19
  <2>2. OnPlace(jj, c, e)
    BY <1>17, <1>18, <1>19
  <2> QED
    BY <1>1, <1>2, <1>3, <2>1, <2>2, Moves
<1> DEFINE ahead == {k \in (Places[i].at + 1)..Len(Items) :
                       Items[k] \in P /\ \A j \in (Places[i].at + 1)..(k - 1) : Items[j] \notin P}
<1>21. Places[i].at = a /\ Len(Items) = n
  BY <1>4, <1>5, <1>6, <1>8, <1>9
<1>22. CASE a + l < n
  <2> DEFINE k == a + l + 1
  <2>1. k \in (a + 1)..n /\ k \in 1..Len(c)
    BY <1>8, <1>22
  <2>2. found = c[k] /\ c[k] # NULL /\ Items[k] = data[c[k]]
    BY <1>4, <1>5, <1>16, <1>22, <2>1, ListAssumption
  <2>3. Items[k] \in P
    BY <1>14, <1>22 DEF Stop
  <2>4. ASSUME NEW j \in (a + 1)..(k - 1) PROVE Items[j] \notin P
    <3>1. j - a - 1 \in 0..(l - 1) /\ a + (j - a - 1) < n /\ a + (j - a - 1) + 1 = j
      BY <1>22
    <3> QED
      BY <1>14, <3>1 DEF Stop
  <2>5. e = [at |-> k, last |-> TRUE]
    <3>1. l + 1 # 0 /\ a + (l + 1) <= n /\ a + (l + 1) = k
      BY <1>22
    <3> QED
      BY <1>9, <1>18, <3>1 DEF Round
  <2>6. ret' = Items[k]
    BY <1>0, <2>2
  <2> HIDE DEF k
  <2>7. k \in ahead
    BY <1>21, <2>1, <2>3, <2>4
  <2> QED
    BY <1>1, <1>2, <1>20, <2>5, <2>6, <2>7 DEF Abstract!list_find, Abstract!Returns
<1>23. CASE ~(a + l < n)
  <2>1. found = NULL
    BY <1>16, <1>23
  <2>2. ASSUME NEW k \in (a + 1)..n, Items[k] \in P PROVE FALSE
    <3>1. k - a - 1 \in 0..(l - 1) /\ a + (k - a - 1) < n /\ a + (k - a - 1) + 1 = k
      BY <1>23
    <3> QED
      BY <1>14, <2>2, <3>1 DEF Stop
  <2>3. ahead = {}
    BY <1>21, <2>2
  <2>4. e = [at |-> Len(Items), last |-> FALSE]
    <3>1. l + 1 # 0 /\ ~(a + (l + 1) <= n)
      BY <1>23
    <3> QED
      BY <1>9, <1>18, <1>21, <3>1 DEF Round
  <2> QED
    BY <1>0, <1>1, <1>2, <1>20, <2>1, <2>3, <2>4 DEF Abstract!list_find, Abstract!Returns
<1> QED
  BY <1>22, <1>23

-------------------------------------------------------------------------------
(* Counting the places S of a sequence of length n.                        *)
LEMMA SameCardinality == \A S : Abstract!Cardinality(S) = Cardinality(S)
BY Zenon DEF Abstract!Cardinality, Cardinality

(* Counting the places of a set of places.                                 *)
LEMMA Count ==
  ASSUME NEW n \in Nat, NEW S \in SUBSET (1..n)
  PROVE  /\ Abstract!Among(S, 0) = 0
         /\ \A k \in 0..n : Abstract!Among(S, k) \in Nat
         /\ \A k \in 1..n : Abstract!Among(S, k) = IF k \in S THEN Abstract!Among(S, k - 1) + 1
                                                  ELSE Abstract!Among(S, k - 1)
         /\ Abstract!Among(S, n) = Cardinality(S)
<1> DEFINE T(k) == {j \in S : j <= k}
<1>1. ASSUME NEW k \in 0..n PROVE IsFiniteSet(T(k)) /\ Cardinality(T(k)) \in Nat
  <2>1. IsFiniteSet(1..n)
    BY Upto
  <2>2. T(k) \in SUBSET (1..n)
    OBVIOUS
  <2> HIDE DEF T
  <2>3. IsFiniteSet(T(k))
    BY <2>1, <2>2, FS_Subset
  <2> QED
    BY <2>3, FS_CardinalityType
<1>2. T(0) = {}
  <2>1. \A j \in S : j \in 1..n
    OBVIOUS
  <2>2. \A j \in 1..n : ~(j <= 0)
    OBVIOUS
  <2> QED
    BY <2>1, <2>2
<1>3. T(n) = S
  <2>1. \A j \in S : j \in 1..n
    OBVIOUS
  <2>2. \A j \in 1..n : j <= n
    OBVIOUS
  <2> QED
    BY <2>1, <2>2
<1>4. ASSUME NEW k \in 1..n
      PROVE  Cardinality(T(k)) = IF k \in S THEN Cardinality(T(k - 1)) + 1 ELSE Cardinality(T(k - 1))
  <2>1. k - 1 \in 0..n
    OBVIOUS
  <2>a. \A j \in S : j \in 1..n
    OBVIOUS
  <2>b. \A j \in 1..n : /\ (j <= k) <=> (j <= k - 1 \/ j = k)
                        /\ ~(k <= k - 1) /\ k <= k
    OBVIOUS
  <2>c. \A j \in S : /\ (j <= k) <=> (j <= k - 1 \/ j = k)
                     /\ ~(k <= k - 1) /\ k <= k
    BY <2>a, <2>b
  <2>2. CASE k \in S
    <3>1. T(k) = T(k - 1) \cup {k} /\ k \notin T(k - 1)
      BY <2>2, <2>c, Zenon
    <3>2. IsFiniteSet(T(k - 1))
      BY <1>1, <2>1
    <3> HIDE DEF T
    <3>3. Cardinality(T(k - 1) \cup {k}) = IF k \in T(k - 1) THEN Cardinality(T(k - 1))
                                           ELSE Cardinality(T(k - 1)) + 1
      BY <3>2, FS_AddElement
    <3> QED
      BY <2>2, <3>1, <3>3
  <2>3. CASE k \notin S
    <3>1. T(k) = T(k - 1)
      BY <2>3, <2>c, Zenon
    <3> HIDE DEF T
    <3> QED
      BY <2>3, <3>1
  <2> QED
    BY <2>2, <2>3
<1>5. Cardinality(T(0)) = 0
  <2>1. Cardinality({}) = 0
    BY FS_EmptySet
  <2> HIDE DEF T
  <2> QED
    BY <1>2, <2>1
<1>6. \A k : Abstract!Among(S, k) = Cardinality(T(k))
  BY SameCardinality, Zenon DEF Abstract!Among
<1> HIDE DEF T
<1>7. \A k \in 1..n : Abstract!Among(S, k) = IF k \in S THEN Abstract!Among(S, k - 1) + 1
                                            ELSE Abstract!Among(S, k - 1)
  BY <1>4, <1>6
<1> QED
  BY <1>1, <1>3, <1>5, <1>6, <1>7

(* As a function of k, so that arithmetic sees a number.                   *)
Counts(A, S, n) ==
  /\ A \in [0..n -> Nat] /\ A[0] = 0 /\ A[n] = Cardinality(S)
  /\ \A k \in 1..n : A[k] = IF k \in S THEN A[k - 1] + 1 ELSE A[k - 1]
  /\ \A k \in 0..n : Abstract!Among(S, k) = A[k]

(* The counts as a function.                                               *)
LEMMA CountFcn ==
  ASSUME NEW n \in Nat, NEW S \in SUBSET (1..n)
  PROVE  \E A : Counts(A, S, n)
<1> DEFINE A == [k \in 0..n |-> Abstract!Among(S, k)]
<1>1. /\ A[0] = 0 /\ A[n] = Cardinality(S) /\ A \in [0..n -> Nat]
      /\ \A k \in 0..n : Abstract!Among(S, k) = A[k]
  BY Count
<1>2. ASSUME NEW k \in 1..n PROVE A[k] = IF k \in S THEN A[k - 1] + 1 ELSE A[k - 1]
  <2>1. k - 1 \in 0..n /\ k \in 0..n
    OBVIOUS
  <2>a. \A h \in 1..n : Abstract!Among(S, h) = IF h \in S THEN Abstract!Among(S, h - 1) + 1
                                               ELSE Abstract!Among(S, h - 1)
    BY Count
  <2>2. Abstract!Among(S, k) = IF k \in S THEN Abstract!Among(S, k - 1) + 1
                               ELSE Abstract!Among(S, k - 1)
    BY <2>a
  <2>3. A[k] = Abstract!Among(S, k) /\ A[k - 1] = Abstract!Among(S, k - 1)
    BY <2>1
  <2> HIDE DEF A
  <2> QED
    BY <2>2, <2>3
<1> HIDE DEF A
<1>3. Counts(A, S, n)
  BY <1>1, <1>2 DEF Counts
<1> QED
  BY <1>3

(* It grows at the places of the set and nowhere else,                     *)
LEMMA CountMono ==
  ASSUME NEW n \in Nat, NEW S \in SUBSET (1..n), NEW A, Counts(A, S, n),
         NEW j \in 0..n, NEW k \in 0..n, j <= k
  PROVE  /\ A[j] <= A[k] /\ A[j] \in Nat /\ A[k] \in Nat
         /\ (j < k /\ k \in S) => A[j] < A[k]
<1>1. A \in [0..n -> Nat] /\ \A i \in 1..n : A[i] = IF i \in S THEN A[i - 1] + 1 ELSE A[i - 1]
  BY DEF Counts
<1> DEFINE Bad == {i \in j..n : A[i] < A[j]}
<1>2. Bad = {}
  <2> SUFFICES ASSUME Bad # {} PROVE FALSE
    OBVIOUS
  <2>1. PICK i \in Bad : \A h \in Bad : i <= h
    <3>1. Bad \in SUBSET Nat
      OBVIOUS
    <3> HIDE DEF Bad
    <3> QED
      BY <3>1, Least
  <2>2. i \in j..n /\ A[i] < A[j] /\ i # j
    BY <1>1, <2>1
  <2>3. i - 1 \in j..n /\ i \in 1..n /\ i - 1 \in 0..n /\ ~(i <= i - 1)
    BY <2>2
  <2>4. ~(A[i - 1] < A[j])
    BY <2>1, <2>3
  <2>5. A[i] = A[i - 1] + 1 \/ A[i] = A[i - 1]
    BY <1>1, <2>3
  <2>6. A[i] \in Nat /\ A[i - 1] \in Nat /\ A[j] \in Nat
    BY <1>1, <2>3
  <2> QED
    BY <2>2, <2>4, <2>5, <2>6
<1>3. ASSUME NEW i \in 0..n, j <= i PROVE A[j] <= A[i] /\ A[j] \in Nat /\ A[i] \in Nat
  <2>1. i \in j..n /\ i \notin Bad
    BY <1>2, <1>3
  <2>2. ~(A[i] < A[j]) /\ A[j] \in Nat /\ A[i] \in Nat
    BY <1>1, <2>1
  <2> QED
    BY <2>2
<1>4. ASSUME j < k, k \in S PROVE A[j] < A[k]
  <2>1. k - 1 \in 0..n /\ j <= k - 1 /\ k \in 1..n
    BY <1>4
  <2>2. A[j] <= A[k - 1] /\ A[j] \in Nat /\ A[k - 1] \in Nat
    BY <1>3, <2>1
  <2>3. A[k] = A[k - 1] + 1
    BY <1>1, <1>4, <2>1
  <2> QED
    BY <2>2, <2>3
<1> QED
  BY <1>3, <1>4

(* The A[k]-th place of S is k, for the places k of S.                     *)
LEMMA NthIs ==
  ASSUME NEW n \in Nat, NEW S \in SUBSET (1..n), NEW A, Counts(A, S, n), NEW k \in S
  PROVE  Abstract!Nth(S, A[k]) = k
<1>1. \A i \in S : i \in 0..n /\ Abstract!Among(S, i) = A[i]
  BY DEF Counts
<1>2. ASSUME NEW i \in S, Abstract!Among(S, i) = A[k] PROVE i = k
  <2>1. i \in 0..n /\ k \in 0..n /\ A[i] = A[k]
    BY <1>1, <1>2
  <2>2. ~(i < k)
    <3>1. ASSUME i < k PROVE A[i] < A[k] /\ A[i] \in Nat /\ A[k] \in Nat
      <4>1. i <= k
        BY <2>1, <3>1
      <4> QED
        BY <2>1, <3>1, <4>1, CountMono
    <3> QED
      BY <2>1, <3>1
  <2>3. ~(k < i)
    <3>1. ASSUME k < i PROVE A[k] < A[i] /\ A[i] \in Nat /\ A[k] \in Nat
      <4>1. k <= i
        BY <2>1, <3>1
      <4> QED
        BY <2>1, <3>1, <4>1, CountMono
    <3> QED
      BY <2>1, <3>1
  <2> QED
    BY <2>1, <2>2, <2>3
<1> QED
  BY <1>1, <1>2 DEF Abstract!Nth

(* And every number up to A[k] is that of a place of S up to k.            *)
NthUpto(S, A, k, j) ==
  /\ Abstract!Nth(S, j) \in S /\ Abstract!Nth(S, j) <= k /\ A[Abstract!Nth(S, j)] = j

(* so that every number up to the count is that of some place.             *)
LEMMA NthExists ==
  ASSUME NEW n \in Nat, NEW S \in SUBSET (1..n), NEW A, Counts(A, S, n),
         NEW k \in 0..n, NEW j \in 1..A[k]
  PROVE  NthUpto(S, A, k, j)
<1>1. /\ A \in [0..n -> Nat] /\ A[0] = 0
      /\ \A i \in 1..n : A[i] = IF i \in S THEN A[i - 1] + 1 ELSE A[i - 1]
  BY DEF Counts
<1> DEFINE T == {i \in 0..k : j <= A[i]}
<1>2. T \in SUBSET Nat /\ T # {}
  <2>1. k \in T
    BY <1>1
  <2> QED
    BY <2>1
<1>3. PICK i \in T : \A h \in T : i <= h
  <2> HIDE DEF T
  <2> QED
    BY <1>2, Least
<1>4. i \in 0..k /\ j <= A[i] /\ i # 0
  BY <1>1, <1>3
<1>5. i \in 1..n /\ i - 1 \in 0..k /\ i - 1 \in 0..n /\ i \in 0..n /\ ~(i <= i - 1)
  BY <1>4
<1>6. ~(j <= A[i - 1])
  BY <1>3, <1>5
<1>7. A[i] \in Nat /\ A[i - 1] \in Nat /\ j \in Nat
  BY <1>1, <1>5
<1>8. i \in S /\ A[i] = j
  <2>1. A[i] = IF i \in S THEN A[i - 1] + 1 ELSE A[i - 1]
    BY <1>1, <1>5
  <2> QED
    BY <1>4, <1>6, <1>7, <2>1
<1>9. Abstract!Nth(S, j) = i
  BY <1>8, NthIs
<1> QED
  BY <1>4, <1>8, <1>9 DEF NthUpto

(* After k rounds of list_delete_all: of the sequence s, what is in front  *)
(* of the k-th place is what of it is kept, and the rest is untouched.     *)
Kept(d, s, A, S, n, k) ==
  /\ Len(d) = A[k] + (n - k)
  /\ \A j \in S : j <= k => d[A[j]] = s[j]
  /\ \A j \in (k + 1)..n : d[A[k] + (j - k)] = s[j]

(* What was handed to the ListDelF.                                        *)
TakenOut(o, s, B, G, k) ==
  /\ o \in Seq(Item) /\ Len(o) = B[k]
  /\ \A j \in G : j <= k => o[B[j]] = s[j]

(* list_delete_all before its first round: everything is kept.             *)
LEMMA KeptStart ==
  ASSUME NEW n \in Nat, NEW S \in SUBSET (1..n), NEW A, Counts(A, S, n),
         NEW s, Len(s) = n
  PROVE  Kept(s, s, A, S, n, 0)
<1>1. \A j \in S : ~(j <= 0)
  OBVIOUS
<1>2. A[0] = 0 /\ \A j \in (0 + 1)..n : 0 + (j - 0) = j
  BY DEF Counts
<1> QED
  BY <1>1, <1>2 DEF Kept

(* A round that keeps a node,                                              *)
LEMMA KeptMove ==
  ASSUME NEW n \in Nat, NEW S \in SUBSET (1..n), NEW A, Counts(A, S, n),
         NEW k \in 1..n, k \in S, NEW s, NEW d, Kept(d, s, A, S, n, k - 1)
  PROVE  Kept(d, s, A, S, n, k) /\ A[k] = A[k - 1] + 1 /\ A[k - 1] \in Nat
<1>1. A[k] = A[k - 1] + 1 /\ A[k - 1] \in Nat
  <2>1. k - 1 \in 0..n
    OBVIOUS
  <2> QED
    BY <2>1 DEF Counts
<1>2. /\ Len(d) = A[k - 1] + (n - (k - 1))
      /\ \A j \in S : j <= k - 1 => d[A[j]] = s[j]
      /\ \A j \in k..n : d[A[k - 1] + (j - (k - 1))] = s[j]
  <2>1. (k - 1) + 1 = k
    OBVIOUS
  <2> QED
    BY <2>1, Zenon DEF Kept
<1>b. Len(d) = A[k - 1] + (n - (k - 1))
  BY <1>2
<1>3. d[A[k]] = s[k]
  <2>1. k \in k..n /\ A[k - 1] + (k - (k - 1)) = A[k]
    BY <1>1
  <2> QED
    BY <1>2, <2>1
<1>4. ASSUME NEW j \in S, j <= k PROVE d[A[j]] = s[j]
  <2>1. j = k \/ j <= k - 1
    BY <1>4
  <2> QED
    BY <1>2, <1>3, <2>1
<1>5. ASSUME NEW j \in (k + 1)..n PROVE d[A[k] + (j - k)] = s[j]
  <2>1. j \in k..n /\ A[k - 1] + (j - (k - 1)) = A[k] + (j - k)
    BY <1>1
  <2> QED
    BY <1>2, <2>1
<1>6. Len(d) = A[k] + (n - k)
  <2>1. PICK a \in Nat : a = A[k - 1]
    BY <1>1
  <2>2. a + (n - (k - 1)) = (a + 1) + (n - k)
    OBVIOUS
  <2> QED
    BY <1>1, <1>b, <2>1, <2>2
<1> QED
  BY <1>1, <1>4, <1>5, <1>6 DEF Kept

(* and one that destroys it.                                               *)
LEMMA KeptDrop ==
  ASSUME NEW n \in Nat, NEW S \in SUBSET (1..n), NEW A, Counts(A, S, n),
         NEW k \in 1..n, k \notin S, NEW s, NEW T, NEW d \in Seq(T), Kept(d, s, A, S, n, k - 1)
  PROVE  /\ Kept(Rem(d, A[k - 1] + 1), s, A, S, n, k)
         /\ A[k] = A[k - 1] /\ A[k - 1] \in Nat /\ A[k - 1] + 1 \in 1..Len(d)
<1>0. k - 1 \in 0..n
  OBVIOUS
<1>1. A[k] = A[k - 1] /\ A[k - 1] \in Nat
  BY <1>0 DEF Counts
<1>2. /\ Len(d) = A[k - 1] + (n - (k - 1))
      /\ \A j \in S : j <= k - 1 => d[A[j]] = s[j]
      /\ \A j \in k..n : d[A[k - 1] + (j - (k - 1))] = s[j]
  <2>1. (k - 1) + 1 = k
    OBVIOUS
  <2> QED
    BY <2>1, Zenon DEF Kept
<1>b. Len(d) = A[k - 1] + (n - (k - 1))
  BY <1>2
<1>3. PICK a \in Nat : a = A[k - 1]
  BY <1>1
<1>4. a + 1 \in 1..Len(d) /\ Len(d) - 1 = a + (n - k)
  <2>1. Len(d) = a + (n - (k - 1))
    BY <1>b, <1>3
  <2> QED
    BY <2>1
<1>5. /\ Len(Rem(d, a + 1)) = Len(d) - 1
      /\ \A j \in 1..(Len(d) - 1) : Rem(d, a + 1)[j] = IF j < a + 1 THEN d[j] ELSE d[j + 1]
  BY <1>4, RemoveAtIs DEF Rem
<1>6. ASSUME NEW j \in S, j <= k PROVE Rem(d, a + 1)[A[j]] = s[j]
  <2>1. j <= k - 1 /\ j \in 0..n /\ j \in 1..n
    <3>1. j # k
      OBVIOUS
    <3> QED
      BY <1>6, <3>1
  <2>2. A[j] <= a /\ A[j] \in Nat
    BY <1>0, <1>3, <2>1, CountMono
  <2>3. A[j] # 0
    <3>1. 0 \in 0..n /\ 0 <= j /\ 0 < j
      BY <2>1
    <3>2. A[0] < A[j] /\ A[0] = 0
      BY <2>1, <3>1, CountMono DEF Counts
    <3> QED
      BY <3>2, <2>2
  <2>4. A[j] \in 1..(Len(d) - 1) /\ A[j] < a + 1
    <3>1. PICK b \in Nat : b = A[j]
      BY <2>2
    <3>2. b <= a /\ b # 0 /\ Len(d) - 1 = a + (n - k)
      BY <1>4, <2>2, <2>3, <3>1
    <3>3. b \in 1..(Len(d) - 1) /\ b < a + 1
      BY <3>2
    <3> QED
      BY <3>1, <3>3
  <2> QED
    BY <1>2, <1>5, <2>1, <2>4
<1>7. ASSUME NEW j \in (k + 1)..n PROVE Rem(d, a + 1)[a + (j - k)] = s[j]
  <2>1. a + (j - k) \in 1..(Len(d) - 1) /\ ~(a + (j - k) < a + 1)
    BY <1>4
  <2>2. (a + (j - k)) + 1 = a + (j - (k - 1)) /\ j \in k..n
    OBVIOUS
  <2>3. Rem(d, a + 1)[a + (j - k)] = d[(a + (j - k)) + 1]
    BY <1>5, <2>1
  <2>4. d[a + (j - (k - 1))] = s[j]
    BY <1>2, <1>3, <2>2
  <2> QED
    BY <2>2, <2>3, <2>4
<1>8. Len(Rem(d, a + 1)) = a + (n - k)
  BY <1>4, <1>5
<1> QED
  BY <1>1, <1>3, <1>4, <1>6, <1>7, <1>8 DEF Kept

(* At the end it is the part of the sequence that is kept.                 *)
IsPart(d, s, S) ==
  d = [j \in 1..Cardinality(S) |-> s[Abstract!Nth(S, j)]] /\ Len(d) = Cardinality(S)

(* After the last round the items kept are a part of the sequence, as Part *)
(* gives it.                                                               *)
LEMMA KeptAll ==
  ASSUME NEW n \in Nat, NEW S \in SUBSET (1..n), NEW A, Counts(A, S, n),
         NEW s, NEW T, NEW d \in Seq(T), Len(d) = A[n], \A j \in S : d[A[j]] = s[j]
  PROVE  IsPart(d, s, S)
<1>1. Len(d) = Cardinality(S) /\ A[n] = Cardinality(S)
  BY DEF Counts
<1>2. ASSUME NEW j \in 1..A[n] PROVE d[j] = s[Abstract!Nth(S, j)]
  <2>1. n \in 0..n
    OBVIOUS
  <2>2. NthUpto(S, A, n, j)
    BY <2>1, NthExists
  <2>3. PICK h : h = Abstract!Nth(S, j)
    OBVIOUS
  <2>4. d[A[h]] = s[h]
    BY <2>2, <2>3 DEF NthUpto
  <2> QED
    BY <2>2, <2>3, <2>4 DEF NthUpto
<1>3. d = [j \in 1..Len(d) |-> d[j]]
  OBVIOUS
<1> QED
  BY <1>1, <1>2, <1>3 DEF IsPart

(* Where an iterator stands after k rounds.                                *)
MidAt(a, A, k)   == IF a <= k THEN A[a] ELSE A[k] + (a - k)
MidLast(q, G, k) == /\ q.last
                    /\ ~(q.at <= k /\ q.at \in G)
                    /\ ~(q.at + 1 <= k /\ q.at + 1 \in G)
MidPlace(q, A, G, k) == IF q = Closed THEN Closed
                        ELSE [at |-> MidAt(q.at, A, k), last |-> MidLast(q, G, k)]
MidPlaces(pl, A, G, k) == [i \in Iter |-> MidPlace(pl[i], A, G, k)]

(* The same for the places of iterators, before the first round,           *)
LEMMA MidStart ==
  ASSUME NEW n \in Nat, NEW S \in SUBSET (1..n), NEW A, Counts(A, S, n), NEW G, 0 \notin G,
         NEW q \in Place \cup {Closed}
  PROVE  MidPlace(q, A, G, 0) = q
<1>1. CASE q = Closed
  BY <1>1 DEF MidPlace
<1>2. CASE q # Closed
  <2>1. q \in Place /\ q.at \in Nat /\ q.last \in BOOLEAN /\ q = [at |-> q.at, last |-> q.last]
    BY <1>2 DEF Place
  <2>2. MidAt(q.at, A, 0) = q.at
    <3>1. q.at <= 0 => q.at = 0
      BY <2>1
    <3>2. A[0] = 0 /\ 0 + (q.at - 0) = q.at
      BY <2>1 DEF Counts
    <3> QED
      BY <3>1, <3>2 DEF MidAt
  <2>3. ~(q.at <= 0 /\ q.at \in G) /\ ~(q.at + 1 <= 0)
    BY <2>1
  <2>4. MidLast(q, G, 0) = q.last
    BY <2>1, <2>3 DEF MidLast
  <2> QED
    BY <1>2, <2>1, <2>2, <2>4 DEF MidPlace
<1> QED
  BY <1>1, <1>2

(* in a round that keeps a node,                                           *)
LEMMA MidMove ==
  ASSUME NEW n \in Nat, NEW S \in SUBSET (1..n), NEW A, Counts(A, S, n), NEW G,
         NEW k \in 1..n, k \in S, k \notin G, NEW q \in Place \cup {Closed}
  PROVE  MidPlace(q, A, G, k) = MidPlace(q, A, G, k - 1)
<1>1. CASE q = Closed
  BY <1>1 DEF MidPlace
<1>2. CASE q # Closed
  <2>1. q.at \in Nat /\ q.last \in BOOLEAN
    BY <1>2 DEF Place
  <2>2. PICK a \in Nat : a = q.at
    BY <2>1
  <2>3. A[k] = A[k - 1] + 1 /\ A[k - 1] \in Nat
    <3>1. k - 1 \in 0..n
      OBVIOUS
    <3> QED
      BY <3>1 DEF Counts
  <2>4. MidAt(a, A, k) = MidAt(a, A, k - 1)
    <3>1. CASE a = k
      <4>1. a <= k /\ ~(a <= k - 1) /\ a - (k - 1) = 1
        BY <3>1
      <4> QED
        BY <2>3, <3>1, <4>1 DEF MidAt
    <3>2. CASE a # k
      <4>1. (a <= k) <=> (a <= k - 1)
        BY <3>2
      <4>2. A[k] + (a - k) = A[k - 1] + (a - (k - 1))
        BY <2>3
      <4> QED
        BY <4>1, <4>2 DEF MidAt
    <3> QED
      BY <3>1, <3>2
  <2>5. (a # k => ((a <= k) <=> (a <= k - 1))) /\ (a + 1 # k => ((a + 1 <= k) <=> (a + 1 <= k - 1)))
    OBVIOUS
  <2>6. MidLast(q, G, k) = MidLast(q, G, k - 1)
    BY <2>1, <2>2, <2>5 DEF MidLast
  <2> QED
    BY <1>2, <2>2, <2>4, <2>6 DEF MidPlace
<1> QED
  BY <1>1, <1>2

(* and in one that destroys it.                                            *)
LEMMA MidDrop ==
  ASSUME NEW n \in Nat, NEW S \in SUBSET (1..n), NEW A, Counts(A, S, n),
         NEW G, \A j \in 1..n : j \in G \/ j \in S, NEW k \in 1..n, k \in G, k \notin S,
         NEW q \in Place \cup {Closed}, Closed \notin Place
  PROVE  RemPlace(MidPlace(q, A, G, k - 1), A[k - 1] + 1) = MidPlace(q, A, G, k)
<1>1. CASE q = Closed
  BY <1>1 DEF MidPlace, RemPlace
<1>2. CASE q # Closed
  <2>1. q.at \in Nat /\ q.last \in BOOLEAN
    BY <1>2 DEF Place
  <2>2. PICK a \in Nat : a = q.at
    BY <2>1
  <2>0. k \in 1..n /\ k \notin S /\ k - 1 \in 0..n /\ k \in 0..n
    OBVIOUS
  <2>3. A[k] = A[k - 1] /\ A[k - 1] \in Nat
    BY <2>0 DEF Counts
  <2>4. PICK b \in Nat : b = A[k - 1] /\ b = A[k]
    BY <2>3
  <2>5. PICK u : u = MidAt(a, A, k - 1)
    OBVIOUS
  <2>6. PICK l \in BOOLEAN : l = MidLast(q, G, k - 1)
    BY <2>1 DEF MidLast
  <2>7. PICK z : z = [at |-> u, last |-> l]
    OBVIOUS
  <2>8. MidPlace(q, A, G, k - 1) = z /\ z.at = u /\ z.last = l
    BY <1>2, <2>2, <2>5, <2>6, <2>7 DEF MidPlace
  <2>9. MidPlace(q, A, G, k) = [at |-> MidAt(a, A, k), last |-> MidLast(q, G, k)]
    BY <1>2, <2>2 DEF MidPlace
  <2>10. u \in Nat => RemPlace(z, b + 1) = IF u > b + 1 THEN [at |-> u - 1, last |-> l]
                                          ELSE IF u \in {b, b + 1} THEN [at |-> b, last |-> FALSE]
                                          ELSE z
    <3>1. ASSUME u \in Nat PROVE z # Closed
      BY <2>7, <3>1 DEF Place
    <3>2. (b + 1) - 1 = b
      OBVIOUS
    <3>3. [z EXCEPT !.at = @ - 1] = [at |-> u - 1, last |-> l]
      BY <2>7
    <3>4. RemPlace(z, b + 1) = IF z = Closed THEN Closed
                               ELSE IF u > b + 1 THEN [at |-> u - 1, last |-> l]
                               ELSE IF u \in {b, b + 1} THEN [at |-> b, last |-> FALSE] ELSE z
      BY <2>8, <3>2, <3>3, Zenon DEF RemPlace
    <3> QED
      BY <3>1, <3>4
  <2>11. CASE a > k
    <3>1. ~(a <= k) /\ ~(a <= k - 1) /\ ~(a + 1 <= k) /\ ~(a + 1 <= k - 1)
      BY <2>11, <2>0
    <3>2. u = b + (a - (k - 1)) /\ MidAt(a, A, k) = b + (a - k)
      BY <2>4, <2>5, <3>1 DEF MidAt
    <3>3. u \in Nat /\ u > b + 1 /\ u - 1 = b + (a - k)
      BY <2>0, <2>11, <3>2
    <3>4. MidLast(q, G, k) = l
      BY <2>1, <2>2, <2>6, <3>1 DEF MidLast
    <3> QED
      BY <2>4, <2>8, <2>9, <2>10, <3>2, <3>3, <3>4
  <2>12. CASE a = k
    <3>1. a <= k /\ ~(a <= k - 1) /\ b + (a - (k - 1)) = b + 1
      BY <2>12, <2>0
    <3>2. u = b + 1 /\ MidAt(a, A, k) = b
      BY <2>4, <2>5, <2>12, <3>1 DEF MidAt
    <3>3. MidLast(q, G, k) = FALSE
      BY <2>2, <2>12, <3>1 DEF MidLast
    <3>4. u \in Nat /\ ~(u > b + 1) /\ u \in {b, b + 1}
      BY <3>2
    <3> QED
      BY <2>4, <2>8, <2>9, <2>10, <3>2, <3>3, <3>4
  <2>13. CASE a = k - 1
    <3>1. a <= k /\ a <= k - 1 /\ a + 1 = k /\ a + 1 <= k
      BY <2>13, <2>0
    <3>2. u = b /\ MidAt(a, A, k) = b
      BY <2>4, <2>5, <2>13, <3>1 DEF MidAt
    <3>3. MidLast(q, G, k) = FALSE
      BY <2>2, <3>1 DEF MidLast
    <3>4. u \in Nat /\ ~(u > b + 1) /\ u \in {b, b + 1}
      BY <3>2
    <3> QED
      BY <2>4, <2>8, <2>9, <2>10, <3>2, <3>3, <3>4
  <2>14. CASE a < k - 1
    <3>1. /\ a <= k /\ a <= k - 1 /\ a + 1 <= k /\ a + 1 <= k - 1
          /\ a \in 0..n /\ a + 1 \in 0..n /\ a + 1 \in 1..n
      BY <2>14, <2>0
    <3>2. u = A[a] /\ MidAt(a, A, k) = u
      BY <2>5, <3>1 DEF MidAt
    <3>3. u <= b /\ u \in Nat
      BY <2>0, <2>4, <3>1, <3>2, CountMono
    <3>4. MidLast(q, G, k) = l
      BY <2>1, <2>2, <2>6, <3>1 DEF MidLast
    <3>5. u = b => l = FALSE
      <4>1. A[a + 1] <= b /\ A[a + 1] \in Nat
        BY <2>0, <2>4, <3>1, CountMono
      <4>2. (a + 1) - 1 = a
        OBVIOUS
      <4>3. A[a + 1] = IF a + 1 \in S THEN u + 1 ELSE u
        BY <3>1, <3>2, <4>2 DEF Counts
      <4>4. u = b => a + 1 \notin S
        BY <3>3, <4>1, <4>3
      <4>5. u = b => a + 1 \in G
        BY <3>1, <4>4
      <4> QED
        BY <2>2, <2>6, <3>1, <4>5 DEF MidLast
    <3>6. ~(u > b + 1) /\ u # b + 1
      BY <3>3
    <3> QED
      BY <2>4, <2>7, <2>8, <2>9, <2>10, <3>2, <3>3, <3>4, <3>5, <3>6
  <2>15. a > k \/ a = k \/ a = k - 1 \/ a < k - 1
    BY <2>0
  <2> QED
    BY <2>11, <2>12, <2>13, <2>14, <2>15
<1> QED
  BY <1>1, <1>2

(* The places where P lets go of an item, the others, and both counted.    *)
Divided(s, P, n, K, G, A, B) ==
  /\ n \in Nat /\ s \in Seq(Item) /\ Len(s) = n
  /\ G = {k \in 1..n : s[k] \in P} /\ K = (1..n) \ G
  /\ Counts(A, K, n) /\ Counts(B, G, n)

(* Every callback divides the places of a sequence.                        *)
LEMMA DividedExists ==
  ASSUME NEW s \in Seq(Item), NEW P, NEW n, n = Len(s)
  PROVE  \E K, G, A, B : Divided(s, P, n, K, G, A, B)
<1>1. PICK G : G = {k \in 1..n : s[k] \in P}
  OBVIOUS
<1>2. PICK K : K = (1..n) \ G
  OBVIOUS
<1>3. n \in Nat /\ G \in SUBSET (1..n) /\ K \in SUBSET (1..n)
  BY <1>1, <1>2
<1>4. PICK A : Counts(A, K, n)
  BY <1>3, CountFcn
<1>5. PICK B : Counts(B, G, n)
  BY <1>3, CountFcn
<1>6. Divided(s, P, n, K, G, A, B)
  BY <1>1, <1>2, <1>3, <1>4, <1>5 DEF Divided
<1> QED
  BY <1>6

(* The state of the loop after k rounds.                                   *)
LoopAt(st, c, s, pl, n, K, G, A, B, k) ==
  \E m, d, o : /\ st = [mem |-> m, pp |-> CellOf(d, A[k]), out |-> o]
               /\ Holds(m, d, MidPlaces(pl, A, G, k))
               /\ Kept(d, c, A, K, n, k) /\ Kept(ItemsOf(m.data, d), s, A, K, n, k)
               /\ TakenOut(o, s, B, G, k)

(* One more item handed to the ListDelF, or not.                           *)
LEMMA TakenRound ==
  ASSUME NEW n \in Nat, NEW G \in SUBSET (1..n), NEW B, Counts(B, G, n), NEW k \in 1..n,
         NEW s, NEW o, TakenOut(o, s, B, G, k - 1)
  PROVE  /\ k \notin G => TakenOut(o, s, B, G, k)
         /\ (k \in G /\ s[k] \in Item) => TakenOut(Append(o, s[k]), s, B, G, k)
<1>0. k - 1 \in 0..n /\ k \in 0..n
  OBVIOUS
<1>1. B[k] = (IF k \in G THEN B[k - 1] + 1 ELSE B[k - 1]) /\ B[k - 1] \in Nat
  BY <1>0 DEF Counts
<1>2. o \in Seq(Item) /\ Len(o) = B[k - 1] /\ \A j \in G : j <= k - 1 => o[B[j]] = s[j]
  BY DEF TakenOut
<1>3. \A j \in G : (j <= k) => (j <= k - 1 \/ j = k)
  OBVIOUS
<1>4. CASE k \notin G
  <2>1. \A j \in G : j <= k => o[B[j]] = s[j]
    BY <1>2, <1>3, <1>4
  <2> QED
    BY <1>1, <1>2, <1>4, <2>1 DEF TakenOut
<1>5. CASE k \in G /\ s[k] \in Item
  <2>1. PICK e : e = Append(o, s[k])
    OBVIOUS
  <2>2. /\ e \in Seq(Item) /\ Len(e) = Len(o) + 1 /\ e[Len(o) + 1] = s[k]
        /\ \A j \in 1..Len(o) : e[j] = o[j]
    BY <1>2, <1>5, <2>1
  <2>3. Len(e) = B[k] /\ e[B[k]] = s[k]
    BY <1>1, <1>2, <1>5, <2>2
  <2>4. ASSUME NEW j \in G, j <= k PROVE e[B[j]] = s[j]
    <3>1. CASE j = k
      BY <2>3, <3>1
    <3>2. CASE j # k
      <4>1. j <= k - 1 /\ j \in 0..n /\ 0 \in 0..n /\ 0 <= j /\ 0 < j
        BY <1>3, <2>4, <3>2
      <4>2. B[j] <= B[k - 1] /\ B[j] \in Nat
        BY <1>0, <4>1, CountMono
      <4>3. B[0] < B[j] /\ B[0] = 0
        BY <4>1, CountMono DEF Counts
      <4>4. B[j] \in 1..Len(o)
        BY <1>2, <4>2, <4>3
      <4> QED
        BY <1>2, <2>2, <4>1, <4>4
    <3> QED
      BY <3>1, <3>2
  <2>5. TakenOut(e, s, B, G, k)
    BY <2>2, <2>3, <2>4 DEF TakenOut
  <2> QED
    BY <1>5, <2>1, <2>5
<1> QED
  BY <1>4, <1>5

(* One round preserves the invariant of the loop.                          *)
LEMMA VisitRound ==
  ASSUME NEW c, NEW s, NEW pl \in [Iter -> Place \cup {Closed}], NEW P, NEW n,
         NEW K, NEW G, NEW A, NEW B, Divided(s, P, n, K, G, A, B),
         NEW k \in 1..n, NEW st, LoopAt(st, c, s, pl, n, K, G, A, B, k - 1)
  PROVE  LoopAt(Visit(P, st), c, s, pl, n, K, G, A, B, k)
<1>1. PICK m, d, o : /\ st = [mem |-> m, pp |-> CellOf(d, A[k - 1]), out |-> o]
                     /\ Holds(m, d, MidPlaces(pl, A, G, k - 1))
                     /\ Kept(d, c, A, K, n, k - 1) /\ Kept(ItemsOf(m.data, d), s, A, K, n, k - 1)
                     /\ TakenOut(o, s, B, G, k - 1)
  BY DEF LoopAt
<1>2. /\ n \in Nat /\ s \in Seq(Item) /\ Len(s) = n
      /\ G = {j \in 1..n : s[j] \in P} /\ K = (1..n) \ G
      /\ K \in SUBSET (1..n) /\ G \in SUBSET (1..n)
      /\ Counts(A, K, n) /\ Counts(B, G, n)
  BY DEF Divided
<1>3. s[k] \in Item /\ (k \in G <=> s[k] \in P) /\ (k \in K <=> k \notin G)
  BY <1>2
<1>a. n \in Nat /\ K \in SUBSET (1..n) /\ Counts(A, K, n) /\ \A j \in 1..n : j \in G \/ j \in K
  BY <1>2
<1>4. Linked(m, d) /\ d \in Seq(Node) /\ m.next \in [Cell -> Ptr] /\ Follows(m.next, d)
  BY <1>1 DEF Holds, Linked
<1>5. PICK a : a = A[k - 1]
  OBVIOUS
<1>6. a \in Nat /\ a + 1 \in 1..Len(d) /\ a \in 0..Len(d) /\ a + 1 \in 0..Len(d)
  <2>1. k - 1 \in 0..n
    BY <1>2
  <2>2. a \in Nat
    BY <1>2, <1>5, <2>1 DEF Counts
  <2>3. Len(d) = a + (n - (k - 1))
    BY <1>1, <1>5 DEF Kept
  <2> QED
    BY <1>2, <2>2, <2>3
<1>7. PICK i : i = ItemsOf(m.data, d)
  OBVIOUS
<1>8. /\ i \in Seq(Item) /\ Len(i) = Len(d)
      /\ \A j \in 1..Len(d) : i[j] = m.data[d[j]]
  BY <1>4, <1>7, ItemsAre
<1>9. i[a + 1] = s[k]
  <2>1. k \in ((k - 1) + 1)..n /\ k - (k - 1) = 1
    BY <1>2
  <2>2. \A j \in ((k - 1) + 1)..n : i[a + (j - (k - 1))] = s[j]
    BY <1>1, <1>5, <1>7, Zenon DEF Kept
  <2>3. i[a + (k - (k - 1))] = s[k]
    BY <2>1, <2>2, Zenon
  <2> QED
    BY <2>1, <2>3
<1>10. PICK pp : pp = CellOf(d, a)
  OBVIOUS
<1>11. m.next[pp] = d[a + 1] /\ d[a + 1] \in Node /\ m.data[d[a + 1]] = s[k]
  <2>1. m.next[pp] = At(d, a + 1)
    BY <1>4, <1>6, <1>10 DEF Follows
  <2> QED
    BY <1>4, <1>6, <1>8, <1>9, <2>1 DEF At
<1>12. st = [mem |-> m, pp |-> pp, out |-> o] /\ st.mem = m /\ st.pp = pp /\ st.out = o
  BY <1>1, <1>5, <1>10
<1>13. CASE k \in K
  <2>a. k \notin G
    BY <1>3, <1>13
  <2>1. Visit(P, st) = [mem |-> m, pp |-> d[a + 1], out |-> o]
    <3>1. [st EXCEPT !.pp = d[a + 1]] = [mem |-> m, pp |-> d[a + 1], out |-> o]
      BY <1>12
    <3> QED
      BY <1>3, <1>11, <1>12, <1>13, <3>1, Zenon DEF Visit
  <2>2. Kept(d, c, A, K, n, k) /\ Kept(i, s, A, K, n, k) /\ A[k] = a + 1
    BY <1>1, <1>2, <1>5, <1>7, <1>13, KeptMove
  <2>3. d[a + 1] = CellOf(d, A[k])
    BY <1>6, <2>2 DEF CellOf
  <2>4. TakenOut(o, s, B, G, k)
    BY <1>1, <1>2, <1>3, <1>13, TakenRound
  <2>5. MidPlaces(pl, A, G, k) = MidPlaces(pl, A, G, k - 1)
    <3>1. ASSUME NEW j \in Iter PROVE MidPlace(pl[j], A, G, k) = MidPlace(pl[j], A, G, k - 1)
      <4>1. PICK q \in Place \cup {Closed} : q = pl[j]
        OBVIOUS
      <4>2. MidPlace(q, A, G, k) = MidPlace(q, A, G, k - 1)
        BY <1>a, <1>13, <2>a, MidMove
      <4> QED
        BY <4>1, <4>2
    <3> QED
      BY <3>1 DEF MidPlaces
  <2> QED
    BY <1>1, <1>7, <2>1, <2>2, <2>3, <2>4, <2>5 DEF LoopAt
<1>14. CASE k \in G
  <2>a. k \notin K
    BY <1>3, <1>14
  <2>1. PICK r : r = list_node_destroy(m, pp)
    OBVIOUS
  <2>2. Visit(P, st) = [mem |-> r, pp |-> pp, out |-> Append(o, s[k])]
    BY <1>3, <1>11, <1>12, <1>14, <2>1, Zenon DEF Visit
  <2>3. a = (a + 1) - 1
    BY <1>6
  <2>4. PICK e : e = Rem(d, a + 1)
    OBVIOUS
  <2>5. /\ Holds(r, e, RemPlaces(MidPlaces(pl, A, G, k - 1), a + 1))
        /\ ItemsOf(r.data, e) = Rem(i, a + 1)
    BY <1>1, <1>6, <1>7, <1>10, <2>1, <2>3, <2>4, DestroyHolds
  <2>6. Kept(e, c, A, K, n, k) /\ A[k] = a
    BY <1>1, <1>2, <1>3, <1>4, <1>5, <1>14, <2>4, KeptDrop
  <2>7. Kept(Rem(i, a + 1), s, A, K, n, k)
    BY <1>1, <1>2, <1>3, <1>5, <1>7, <1>8, <1>14, KeptDrop
  <2>8. TakenOut(Append(o, s[k]), s, B, G, k)
    BY <1>1, <1>2, <1>3, <1>14, TakenRound
  <2>9. pp = CellOf(e, A[k])
    <3>1. WithoutNode(e, d, a + 1)
      BY <1>4, <1>6, <2>4, RemCells
    <3>2. a \in 0..(Len(d) - 1) /\ a < a + 1
      BY <1>6
    <3> QED
      BY <1>10, <2>6, <3>1, <3>2 DEF WithoutNode
  <2>10. RemPlaces(MidPlaces(pl, A, G, k - 1), a + 1) = MidPlaces(pl, A, G, k)
    <3>1. ASSUME NEW j \in Iter
          PROVE  RemPlace(MidPlace(pl[j], A, G, k - 1), a + 1) = MidPlace(pl[j], A, G, k)
      <4>1. PICK q \in Place \cup {Closed} : q = pl[j]
        OBVIOUS
      <4>2. Closed \notin Place
        BY ListAssumption DEF Place
      <4>3. RemPlace(MidPlace(q, A, G, k - 1), A[k - 1] + 1) = MidPlace(q, A, G, k)
        BY <1>a, <1>14, <2>a, <4>2, MidDrop
      <4> QED
        BY <1>5, <4>1, <4>3
    <3>2. \A j \in Iter : MidPlaces(pl, A, G, k - 1)[j] = MidPlace(pl[j], A, G, k - 1)
      BY DEF MidPlaces
    <3> QED
      BY <3>1, <3>2, Zenon DEF MidPlaces, RemPlaces
  <2> QED
    BY <2>2, <2>5, <2>6, <2>7, <2>8, <2>9, <2>10 DEF LoopAt
<1> QED
  BY <1>3, <1>13, <1>14

(* The rounds of list_delete_all, as its definition writes them.           *)
LoopStart == [mem |-> Memory, pp |-> LHead, out |-> << >>]
Loops(P, f, n) == f = [k \in 0..n |-> IF k = 0 THEN LoopStart ELSE Visit(P, f[k - 1])]

(* The states of the loop exist as a function,                             *)
LEMMA LoopsExist ==
  ASSUME NEW P, NEW n \in Nat
  PROVE  \E f : Loops(P, f, n)
<1> DEFINE Bad == {l \in Nat : ~\E f : Loops(P, f, l)}
<1>1. Bad = {}
  <2> SUFFICES ASSUME Bad # {} PROVE FALSE
    OBVIOUS
  <2>1. PICK l \in Bad : \A h \in Bad : l <= h
    <3>1. Bad \in SUBSET Nat
      OBVIOUS
    <3> HIDE DEF Bad
    <3> QED
      BY <3>1, Least
  <2>2. l # 0
    <3>1. PICK f : f = [k \in 0..0 |-> LoopStart]
      OBVIOUS
    <3>2. \A k \in 0..0 : f[k] = LoopStart /\ k = 0
      BY <3>1
    <3>3. f = [k \in 0..0 |-> IF k = 0 THEN LoopStart ELSE Visit(P, f[k - 1])]
      BY <3>1, <3>2
    <3>4. Loops(P, f, 0)
      BY <3>3 DEF Loops
    <3> QED
      BY <3>4
  <2>3. l - 1 \in Nat /\ ~(l <= l - 1)
    BY <2>2
  <2>4. PICK f : Loops(P, f, l - 1)
    BY <2>1, <2>3
  <2>5. PICK e : e = Visit(P, f[l - 1])
    OBVIOUS
  <2>6. PICK g : g = [k \in 0..l |-> IF k = l THEN e ELSE f[k]]
    OBVIOUS
  <2>7. ASSUME NEW k \in 0..l
        PROVE  g[k] = IF k = 0 THEN LoopStart ELSE Visit(P, g[k - 1])
    <3>1. CASE k = l
      <4>1. l - 1 \in 0..l /\ l - 1 # l
        BY <2>3
      <4>2. g[l - 1] = f[l - 1] /\ g[l] = e
        BY <2>6, <4>1
      <4> QED
        BY <2>2, <2>5, <3>1, <4>2
    <3>2. CASE k # l
      <4>1. k \in 0..(l - 1) /\ g[k] = f[k]
        BY <2>6, <3>2
      <4>2. f[k] = IF k = 0 THEN LoopStart ELSE Visit(P, f[k - 1])
        BY <2>4, <4>1 DEF Loops
      <4>3. k # 0 => (k - 1 \in 0..l /\ k - 1 # l)
        BY <4>1
      <4>4. k # 0 => g[k - 1] = f[k - 1]
        BY <2>6, <4>3
      <4> QED
        BY <4>1, <4>2, <4>4
    <3> QED
      BY <3>1, <3>2
  <2>8. g = [k \in 0..l |-> g[k]]
    BY <2>6
  <2>9. g = [k \in 0..l |-> IF k = 0 THEN LoopStart ELSE Visit(P, g[k - 1])]
    BY <2>7, <2>8
  <2>10. Loops(P, g, l)
    BY <2>9 DEF Loops
  <2> QED
    BY <2>1, <2>10
<1> QED
  BY <1>1

(* and the last of them satisfies the invariant.                           *)
LEMMA LoopsEnd ==
  ASSUME NEW c, NEW s, NEW pl, Sees(c, pl), s = Items, NEW P, NEW n,
         NEW K, NEW G, NEW A, NEW B, Divided(s, P, n, K, G, A, B)
  PROVE  LoopAt(Visited(P), c, s, pl, n, K, G, A, B, n)
<1>1. /\ c \in Seq(Node) /\ Chain = c /\ Holds(Memory, c, pl) /\ Items = ItemsOf(data, c)
      /\ OnPlaces(it, c, pl) /\ Len(Items) = Len(c) /\ Memory.data = data
  BY SeesFacts, SeesItems
<1>2. /\ n \in Nat /\ Len(s) = n /\ K \in SUBSET (1..n) /\ Counts(A, K, n)
      /\ G \in SUBSET (1..n) /\ Counts(B, G, n)
  BY DEF Divided
<1>3. Len(c) = n /\ Len(Chain) = n
  BY <1>1, <1>2
<1>4. pl \in [Iter -> Place \cup {Closed}]
  BY <1>1 DEF OnPlaces
<1>5. LoopAt(LoopStart, c, s, pl, n, K, G, A, B, 0)
  <2>1. A[0] = 0 /\ B[0] = 0
    BY <1>2 DEF Counts
  <2>2. LHead = CellOf(c, A[0])
    BY <2>1 DEF CellOf
  <2>3. Kept(c, c, A, K, n, 0) /\ Kept(s, s, A, K, n, 0)
    BY <1>2, <1>3, KeptStart
  <2>4. TakenOut(<< >>, s, B, G, 0)
    <3>1. \A j \in G : ~(j <= 0)
      BY <1>2
    <3> QED
      BY <2>1, <3>1 DEF TakenOut
  <2>5. MidPlaces(pl, A, G, 0) = pl
    <3>1. 0 \notin G
      BY <1>2
    <3>2. ASSUME NEW j \in Iter PROVE MidPlace(pl[j], A, G, 0) = pl[j]
      <4>1. PICK q \in Place \cup {Closed} : q = pl[j]
        BY <1>4
      <4> QED
        BY <1>2, <3>1, <4>1, MidStart
    <3> QED
      BY <1>4, <3>2 DEF MidPlaces
  <2>6. PICK m : m = Memory
    OBVIOUS
  <2>7. Holds(m, c, MidPlaces(pl, A, G, 0)) /\ ItemsOf(m.data, c) = s
    BY <1>1, <2>5, <2>6
  <2>8. LoopStart = [mem |-> m, pp |-> CellOf(c, A[0]), out |-> << >>]
    BY <2>2, <2>6 DEF LoopStart
  <2> QED
    BY <2>3, <2>4, <2>7, <2>8 DEF LoopAt
<1> DEFINE st == CHOOSE st : st = [k \in 0..Len(Chain) |->
                   IF k = 0 THEN [mem |-> Memory, pp |-> LHead, out |-> << >>]
                   ELSE Visit(P, st[k - 1])]
<1>6. Visited(P) = st[Len(Chain)]
  BY Zenon DEF Visited
<1>7. PICK f : f = st
  OBVIOUS
<1>8. Loops(P, f, n)
  <2>1. f = CHOOSE z : Loops(P, z, Len(Chain))
    BY <1>7 DEF Loops, LoopStart
  <2>2. \E z : Loops(P, z, Len(Chain))
    BY <1>2, <1>3, LoopsExist
  <2> HIDE DEF st
  <2>3. Loops(P, f, Len(Chain))
    BY <2>1, <2>2
  <2> QED
    BY <1>3, <2>3
<1> HIDE DEF st
<1>9. \A k \in 0..n : f[k] = IF k = 0 THEN LoopStart ELSE Visit(P, f[k - 1])
  BY <1>8 DEF Loops
<1> DEFINE Bad == {k \in 0..n : ~LoopAt(f[k], c, s, pl, n, K, G, A, B, k)}
<1>10. Bad = {}
  <2> SUFFICES ASSUME Bad # {} PROVE FALSE
    OBVIOUS
  <2>1. PICK k \in Bad : \A h \in Bad : k <= h
    <3>1. Bad \in SUBSET Nat
      OBVIOUS
    <3> HIDE DEF Bad
    <3> QED
      BY <3>1, Least
  <2>2. k # 0
    BY <1>5, <1>9, <2>1
  <2>3. k \in 1..n /\ k - 1 \in 0..n /\ ~(k <= k - 1)
    BY <1>2, <2>1, <2>2
  <2>4. LoopAt(f[k - 1], c, s, pl, n, K, G, A, B, k - 1)
    BY <2>1, <2>3
  <2>5. PICK z : z = f[k - 1]
    OBVIOUS
  <2>6. LoopAt(Visit(P, z), c, s, pl, n, K, G, A, B, k)
    BY <1>4, <2>3, <2>4, <2>5, VisitRound
  <2>7. f[k] = Visit(P, z)
    BY <1>9, <2>2, <2>3, <2>5
  <2> QED
    BY <2>1, <2>6, <2>7
<1>11. n \in 0..n
  BY <1>2
<1>12. LoopAt(f[n], c, s, pl, n, K, G, A, B, n)
  BY <1>10, <1>11
<1> QED
  BY <1>3, <1>6, <1>7, <1>12

(* list_delete_all: what is destroyed one by one is what list.h says goes  *)
(* at once, with the same effect on all iterators.                         *)
LEMMA Step_delete_all ==
  ASSUME Inv, NEW P, list_delete_all(P)
  PROVE  Inv' /\ Abstract!list_delete_all(P)
<1>1. PICK st : st = Visited(P)
  OBVIOUS
<1>2. alive /\ Becomes(st.mem) /\ ret' = Len(st.out) /\ del' = st.out /\ alive' = alive
  BY <1>1 DEF list_delete_all, Returns
<1>3. PICK c, pl : Sees(c, pl)
  BY <1>2, Alive
<1>4. PICK s : s = Items
  OBVIOUS
<1>5. s \in Seq(Item) /\ Places = pl /\ Len(s) = Len(c) /\ OnPlaces(it, c, pl)
  BY <1>3, <1>4, SeesFacts, SeesItems
<1>6. PICK n \in Nat : n = Len(s)
  BY <1>5
<1>7. PICK K, G, A, B : Divided(s, P, n, K, G, A, B)
  BY <1>5, <1>6, DividedExists
<1>8. LoopAt(st, c, s, pl, n, K, G, A, B, n)
  BY <1>1, <1>3, <1>4, <1>7, LoopsEnd
<1>9. PICK m, d, o : /\ st = [mem |-> m, pp |-> CellOf(d, A[n]), out |-> o]
                     /\ Holds(m, d, MidPlaces(pl, A, G, n))
                     /\ Kept(d, c, A, K, n, n) /\ Kept(ItemsOf(m.data, d), s, A, K, n, n)
                     /\ TakenOut(o, s, B, G, n)
  BY <1>8 DEF LoopAt
<1>10. st.mem = m /\ st.out = o
  BY <1>9
<1>11. /\ G = {k \in 1..n : s[k] \in P} /\ K = (1..n) \ G
       /\ K \in SUBSET (1..n) /\ G \in SUBSET (1..n)
       /\ Counts(A, K, n) /\ Counts(B, G, n)
  BY <1>7 DEF Divided
<1>12. Inv' /\ Items' = ItemsOf(m.data, d) /\ Places' = MidPlaces(pl, A, G, n)
  <2>1. Becomes(m) /\ alive' = TRUE
    BY <1>2, <1>10 DEF Inv
  <2> QED
    BY <1>9, <2>1, Reaches
<1>a. (\A j \in K : j <= n) /\ (\A j \in G : j <= n) /\ n - n = 0
  BY <1>11
<1>b. /\ K \in SUBSET (1..n) /\ G \in SUBSET (1..n)
      /\ Counts(A, K, n) /\ Counts(B, G, n)
  BY <1>11
<1>13. Items' = [j \in 1..Cardinality(K) |-> s[Abstract!Nth(K, j)]]
  <2>1. PICK i : i = ItemsOf(m.data, d)
    OBVIOUS
  <2>2. Linked(m, d)
    BY <1>9 DEF Holds
  <2>3. i \in Seq(Item)
    BY <2>1, <2>2, ItemsAre
  <2>4. Len(i) = A[n] + (n - n) /\ \A j \in K : i[A[j]] = s[j]
    BY <1>9, <1>a, <2>1 DEF Kept
  <2>5. A[n] \in Nat
    BY <1>11 DEF Counts
  <2>6. Len(i) = A[n]
    BY <1>a, <2>4, <2>5
  <2>7. IsPart(i, s, K)
    BY <1>b, <2>3, <2>4, <2>6, KeptAll
  <2> QED
    BY <1>12, <2>1, <2>7 DEF IsPart
<1>14. o = [j \in 1..Cardinality(G) |-> s[Abstract!Nth(G, j)]] /\ Len(o) = Cardinality(G)
  <2>1. o \in Seq(Item) /\ Len(o) = B[n] /\ \A j \in G : o[B[j]] = s[j]
    BY <1>9, <1>a DEF TakenOut
  <2>2. IsPart(o, s, G)
    BY <1>b, <2>1, KeptAll
  <2> QED
    BY <2>2 DEF IsPart
<1>15. MidPlaces(pl, A, G, n)
         = [i \in Iter |-> IF pl[i] = Closed THEN Closed
                           ELSE [at   |-> Abstract!Among(K, pl[i].at),
                                 last |-> /\ pl[i].last
                                          /\ pl[i].at \notin G
                                          /\ pl[i].at + 1 \notin G]]
  <2>1. ASSUME NEW i \in Iter, pl[i] # Closed
        PROVE  MidPlace(pl[i], A, G, n) = [at   |-> Abstract!Among(K, pl[i].at),
                                          last |-> /\ pl[i].last
                                                   /\ pl[i].at \notin G
                                                   /\ pl[i].at + 1 \notin G]
    <3>1. PICK q : q = pl[i]
      OBVIOUS
    <3>2. OnPlace(it[i], c, q)
      BY <1>5, <3>1 DEF OnPlaces
    <3>3. q \in Place /\ q.at <= Len(c)
      BY <2>1, <3>1, <3>2 DEF OnPlace
    <3>4. q.at \in 0..n /\ q.last \in BOOLEAN
      BY <1>5, <1>6, <3>3 DEF Place
    <3>5. MidAt(q.at, A, n) = Abstract!Among(K, q.at)
      <4>1. \A k \in 0..n : Abstract!Among(K, k) = A[k]
        BY <1>11 DEF Counts
      <4>2. q.at <= n
        BY <3>4
      <4> QED
        BY <3>4, <4>1, <4>2, Zenon DEF MidAt
    <3>6. MidLast(q, G, n) = (/\ q.last /\ q.at \notin G /\ q.at + 1 \notin G)
      BY <1>a, <3>4 DEF MidLast
    <3>7. MidPlace(q, A, G, n) = [at |-> MidAt(q.at, A, n), last |-> MidLast(q, G, n)]
      BY <2>1, <3>1 DEF MidPlace
    <3> QED
      BY <3>1, <3>5, <3>6, <3>7, Zenon
  <2>2. ASSUME NEW i \in Iter, pl[i] = Closed PROVE MidPlace(pl[i], A, G, n) = Closed
    BY <2>2 DEF MidPlace
  <2> QED
    BY <2>1, <2>2, Zenon DEF MidPlaces
<1> DEFINE gone == {k \in 1..Len(Items) : Items[k] \in P}
           kept == (1..Len(Items)) \ gone
<1>16. gone = G /\ kept = K
  BY <1>4, <1>6, <1>11
<1>17. /\ Abstract!Part(kept) = [j \in 1..Cardinality(K) |-> s[Abstract!Nth(K, j)]]
       /\ Abstract!Part(gone) = [j \in 1..Cardinality(G) |-> s[Abstract!Nth(G, j)]]
       /\ Abstract!Cardinality(gone) = Cardinality(G)
  <2> HIDE DEF gone, kept
  <2> QED
    BY <1>4, <1>16, SameCardinality, Zenon DEF Abstract!Part
<1>18. Places' = [i \in Iter |-> IF Places[i] = Closed THEN Closed
                           ELSE [at   |-> Abstract!Among(kept, Places[i].at),
                                 last |-> /\ Places[i].last
                                          /\ Places[i].at \notin gone
                                          /\ Places[i].at + 1 \notin gone]]
  <2> HIDE DEF gone, kept
  <2> QED
    BY <1>5, <1>12, <1>15, <1>16, Zenon
<1>19. ret' = Abstract!Cardinality(gone) /\ del' = Abstract!Part(gone) /\ Items' = Abstract!Part(kept)
  <2> HIDE DEF gone, kept
  <2> QED
    BY <1>2, <1>10, <1>13, <1>14, <1>17
<1> QED
  BY <1>2, <1>12, <1>18, <1>19, Zenon DEF Abstract!list_delete_all, Abstract!Returns

-------------------------------------------------------------------------------
(* Sorting.  v gives the places of a sequence their ranks; a permutation o *)
(* of the first n places is Increasing when it lists them by rank and, for *)
(* one rank, by place.                                                     *)
Prec(v, j, k) == v[j] < v[k] \/ (v[j] = v[k] /\ j < k)
Increasing(o, v, n) == /\ o \in [1..n -> 1..n]
                       /\ \A j, k \in 1..n : j < k => Prec(v, o[j], o[k])

Permutes(o, n) == /\ \A j, k \in 1..n : o[j] = o[k] => j = k
                  /\ \A i \in 1..n : \E j \in 1..n : o[j] = i

(* An order of n places, each strictly before the next, uses every place   *)
LEMMA IncreasingPermutes ==
  ASSUME NEW n \in Nat, NEW v \in [1..n -> Int], NEW o, Increasing(o, v, n)
  PROVE  Permutes(o, n)
<1>1. o \in [1..n -> 1..n] /\ \A j, k \in 1..n : j < k => Prec(v, o[j], o[k])
  BY DEF Increasing
<1>2. ASSUME NEW j \in 1..n, NEW k \in 1..n, j < k PROVE o[j] # o[k]
  <2>1. Prec(v, o[j], o[k]) /\ o[j] \in 1..n
    BY <1>1, <1>2
  <2>2. v[o[j]] \in Int
    BY <2>1
  <2>3. ASSUME o[j] = o[k] PROVE FALSE
    <3>1. PICK i \in 1..n : i = o[j]
      BY <2>1
    <3>2. Prec(v, i, i)
      BY <2>1, <2>3, <3>1
    <3>3. v[i] \in Int
      OBVIOUS
    <3> QED
      BY <3>2, <3>3 DEF Prec
  <2> QED
    BY <2>3
<1>3. \A j, k \in 1..n : o[j] = o[k] => j = k
  <2>1. ASSUME NEW j \in 1..n, NEW k \in 1..n, o[j] = o[k] PROVE j = k
    <3>1. ~(j < k) /\ ~(k < j)
      BY <1>2, <2>1
    <3> QED
      BY <3>1
  <2> QED
    BY <2>1
<1>4. o \in Injection(1..n, 1..n)
  BY <1>1, <1>3 DEF Injection, IsInjective
<1>5. IsFiniteSet(1..n)
  BY Upto
<1>6. o \in Surjection(1..n, 1..n)
  BY <1>4, <1>5, FS_Injection
<1>7. \A i \in 1..n : \E j \in 1..n : o[j] = i
  BY <1>6 DEF Surjection
<1> QED
  BY <1>3, <1>7 DEF Permutes

(* Where an increasing permutation first differs from another, both would  *)
(* have to be first.                                                       *)
LEMMA IncreasingAfter ==
  ASSUME NEW n \in Nat, NEW v \in [1..n -> Int], NEW o, NEW u,
         Increasing(o, v, n), Increasing(u, v, n), NEW k \in 1..n,
         \A j \in 1..(k - 1) : o[j] = u[j], o[k] # u[k]
  PROVE  Prec(v, u[k], o[k])
<1>1. o[k] \in 1..n
  BY DEF Increasing
<1>a. Permutes(o, n) /\ Permutes(u, n)
  BY IncreasingPermutes
<1>2. PICK j \in 1..n : u[j] = o[k]
  BY <1>1, <1>a DEF Permutes
<1>3. j # k
  BY <1>2
<1>4. ~(j < k)
  <2>1. ASSUME j < k PROVE FALSE
    <3>1. j \in 1..(k - 1)
      BY <2>1
    <3>2. o[j] = o[k]
      BY <1>2, <3>1
    <3>3. j = k
      BY <1>a, <3>2 DEF Permutes
    <3> QED
      BY <1>3, <3>3
  <2> QED
    BY <2>1
<1>5. k < j
  BY <1>3, <1>4
<1>6. Prec(v, u[k], u[j])
  BY <1>5 DEF Increasing
<1> QED
  BY <1>2, <1>6

(* and there is only one: a stable sort has one result.                    *)
LEMMA IncreasingUnique ==
  ASSUME NEW n \in Nat, NEW v \in [1..n -> Int], NEW o, NEW u,
         Increasing(o, v, n), Increasing(u, v, n)
  PROVE  o = u
<1> DEFINE Bad == {k \in 1..n : o[k] # u[k]}
<1>1. Bad = {}
  <2> SUFFICES ASSUME Bad # {} PROVE FALSE
    OBVIOUS
  <2>1. PICK k \in Bad : \A h \in Bad : k <= h
    <3>1. Bad \in SUBSET Nat
      OBVIOUS
    <3> HIDE DEF Bad
    <3> QED
      BY <3>1, Least
  <2>2. k \in 1..n /\ o[k] # u[k]
    BY <2>1
  <2>3. ASSUME NEW j \in 1..(k - 1) PROVE o[j] = u[j]
    <3>1. j \in 1..n /\ ~(k <= j)
      BY <2>2
    <3> QED
      BY <2>1, <3>1
  <2>4. Prec(v, u[k], o[k])
    BY <2>2, <2>3, IncreasingAfter
  <2>5. \A j \in 1..(k - 1) : u[j] = o[j]
    BY <2>3
  <2>6. Prec(v, o[k], u[k])
    BY <2>2, <2>5, IncreasingAfter
  <2>7. PICK a \in 1..n : a = o[k]
    BY <2>2 DEF Increasing
  <2>8. PICK b \in 1..n : b = u[k]
    BY <2>2 DEF Increasing
  <2>9. Prec(v, a, b) /\ Prec(v, b, a)
    BY <2>4, <2>6, <2>7, <2>8
  <2>10. PICK x \in Int : x = v[a]
    OBVIOUS
  <2>11. PICK y \in Int : y = v[b]
    OBVIOUS
  <2>12. (x < y \/ (x = y /\ a < b)) /\ (y < x \/ (y = x /\ b < a))
    BY <2>9, <2>10, <2>11 DEF Prec
  <2>13. a \in Int /\ b \in Int
    OBVIOUS
  <2> QED
    BY <2>12, <2>13
<1>2. o \in [1..n -> 1..n] /\ u \in [1..n -> 1..n]
  BY DEF Increasing
<1>3. \A k \in 1..n : o[k] = u[k]
  BY <1>1
<1> HIDE DEF Bad
<1>4. o = [k \in 1..n |-> o[k]] /\ u = [k \in 1..n |-> u[k]]
  BY <1>2
<1> QED
  BY <1>3, <1>4

(* Putting the place k in before the first of a greater rank.              *)
LEMMA IncreasingInsert ==
  ASSUME NEW k \in Nat, k # 0, NEW v, \A j \in 1..k : v[j] \in Int,
         NEW o, Increasing(o, v, k - 1),
         NEW p \in 1..k,
         \A h \in 1..(p - 1) : ~(v[k] < v[o[h]]),
         p < k => v[k] < v[o[p]],
         NEW u, u = [h \in 1..k |-> IF h < p THEN o[h] ELSE IF h = p THEN k ELSE o[h - 1]]
  PROVE  Increasing(u, v, k)
<1>0. k \in 1..k /\ v[k] \in Int
  OBVIOUS
<1>1. o \in [1..(k - 1) -> 1..(k - 1)] /\ \A j, h \in 1..(k - 1) : j < h => Prec(v, o[j], o[h])
  BY DEF Increasing
<1>2. \A h \in 1..(k - 1) : o[h] \in 1..(k - 1) /\ o[h] \in 1..k /\ v[o[h]] \in Int
  <2>1. \A h \in 1..(k - 1) : o[h] \in 1..(k - 1)
    BY <1>1
  <2>2. \A i \in 1..(k - 1) : i \in 1..k
    OBVIOUS
  <2>3. \A i \in 1..k : v[i] \in Int
    OBVIOUS
  <2> QED
    BY <2>1, <2>2, <2>3
<1>3. u \in [1..k -> 1..k]
  <2>1. ASSUME NEW h \in 1..k
        PROVE  (IF h < p THEN o[h] ELSE IF h = p THEN k ELSE o[h - 1]) \in 1..k
    <3>1. (h < p => h \in 1..(k - 1)) /\ ((~(h < p) /\ h # p) => h - 1 \in 1..(k - 1))
      OBVIOUS
    <3> QED
      BY <1>0, <1>2, <3>1
  <2> QED
    BY <2>1
<1>4. ASSUME NEW h \in 1..(k - 1), h < p PROVE Prec(v, o[h], k)
  <2>1. h \in 1..(p - 1)
    BY <1>4
  <2>2. ~(v[k] < v[o[h]])
    BY <2>1
  <2>3. PICK i \in 1..(k - 1) : i = o[h]
    BY <1>2
  <2>4. v[i] \in Int /\ i < k
    BY <1>2, <2>3
  <2> QED
    BY <1>0, <2>2, <2>3, <2>4 DEF Prec
<1>5. ASSUME NEW h \in 1..(k - 1), p <= h PROVE Prec(v, k, o[h])
  <2>1. p < k /\ p \in 1..(k - 1)
    BY <1>5
  <2>2. v[k] < v[o[p]] /\ v[o[p]] \in Int /\ v[o[h]] \in Int
    BY <1>2, <2>1
  <2>3. p # h => Prec(v, o[p], o[h])
    <3>1. p # h => p < h
      BY <1>5
    <3> QED
      BY <1>1, <2>1, <3>1
  <2>4. v[k] < v[o[h]]
    <3>1. CASE p = h
      BY <2>2, <3>1
    <3>2. CASE p # h
      <4>1. v[o[p]] < v[o[h]] \/ v[o[p]] = v[o[h]]
        BY <2>3, <3>2 DEF Prec
      <4>2. PICK x \in Int : x = v[o[p]]
        BY <2>2
      <4>3. PICK y \in Int : y = v[o[h]]
        BY <2>2
      <4>4. PICK z \in Int : z = v[k]
        BY <1>0
      <4>5. z < x /\ (x < y \/ x = y)
        BY <2>2, <4>1, <4>2, <4>3, <4>4
      <4>6. z < y
        BY <4>5
      <4> QED
        BY <4>3, <4>4, <4>6
    <3> QED
      BY <3>1, <3>2
  <2> QED
    BY <2>4 DEF Prec
<1>6. ASSUME NEW j \in 1..k, NEW h \in 1..k, j < h PROVE Prec(v, u[j], u[h])
  <2>1. CASE h < p
    <3>1. j < p /\ j \in 1..(k - 1) /\ h \in 1..(k - 1)
      BY <1>6, <2>1
    <3>2. u[j] = o[j] /\ u[h] = o[h]
      BY <2>1, <3>1
    <3> QED
      BY <1>1, <1>6, <3>1, <3>2
  <2>2. CASE h = p
    <3>1. j < p /\ j \in 1..(k - 1)
      BY <1>6, <2>2
    <3>2. u[j] = o[j] /\ u[h] = k
      BY <2>2, <3>1
    <3> QED
      BY <1>4, <3>1, <3>2
  <2>3. CASE h > p
    <3>1. h - 1 \in 1..(k - 1) /\ p <= h - 1 /\ ~(h < p) /\ h # p
      BY <2>3
    <3>2. u[h] = o[h - 1]
      BY <3>1
    <3>3. CASE j < p
      <4>1. j \in 1..(k - 1) /\ j < h - 1 /\ u[j] = o[j]
        BY <2>3, <3>1, <3>3
      <4> QED
        BY <1>1, <3>1, <3>2, <4>1
    <3>4. CASE j = p
      <4>1. u[j] = k
        BY <3>4
      <4> QED
        BY <1>5, <3>1, <3>2, <4>1
    <3>5. CASE j > p
      <4>1. j - 1 \in 1..(k - 1) /\ j - 1 < h - 1 /\ ~(j < p) /\ j # p
        BY <1>6, <3>5
      <4>2. u[j] = o[j - 1]
        BY <4>1
      <4> QED
        BY <1>1, <3>1, <3>2, <4>1, <4>2
    <3> QED
      BY <3>3, <3>4, <3>5
  <2> QED
    BY <2>1, <2>2, <2>3
<1> QED
  BY <1>3, <1>6 DEF Increasing

(* The nodes that are sorted after k rounds.                               *)
SortedAt(t, c, v, k) ==
  \E o : /\ Increasing(o, v, k)
         /\ t \in Seq(Node) /\ Len(t) = k /\ \A h \in 1..k : t[h] = c[o[h]]
RankOf(s) == [j \in 1..Len(s) |-> Rank[s[j]]]

(* The ranks of the items.                                                 *)
LEMMA RanksAre ==
  ASSUME NEW s \in Seq(Item)
  PROVE  /\ RankOf(s) \in [1..Len(s) -> Int]
         /\ \A j \in 1..Len(s) : RankOf(s)[j] = Rank[s[j]]
BY ListAssumption DEF RankOf

(* A node put behind all that are not greater and in front of one that is  *)
(* keeps the order.                                                        *)
LEMMA InsertedAt ==
  ASSUME NEW c \in Seq(Node), NEW k \in 1..Len(c), NEW v, \A j \in 1..k : v[j] \in Int,
         NEW o, Increasing(o, v, k - 1), NEW t \in Seq(Node), Len(t) = k - 1,
         \A h \in 1..(k - 1) : t[h] = c[o[h]],
         NEW p \in 1..k, \A h \in 1..(p - 1) : ~(v[k] < v[o[h]]), p < k => v[k] < v[o[p]]
  PROVE  SortedAt(Ins(t, p, c[k]), c, v, k)
<1> DEFINE u == [h \in 1..k |-> IF h < p THEN o[h] ELSE IF h = p THEN k ELSE o[h - 1]]
<1>1. k \in Nat /\ k # 0 /\ p \in 1..(Len(t) + 1) /\ Len(t) + 1 = k
  OBVIOUS
<1>2. Increasing(u, v, k)
  <2>1. PICK w : w = u
    OBVIOUS
  <2>2. Increasing(w, v, k)
    BY <1>1, <2>1, IncreasingInsert
  <2> QED
    BY <2>1, <2>2
<1>3. PICK r : r = Ins(t, p, c[k])
  OBVIOUS
<1>4. c[k] \in Node
  OBVIOUS
<1>5. r \in Seq(Node) /\ Len(r) = k
  BY <1>1, <1>3, <1>4, InsertAtIs
<1>6. \A h \in 1..k : r[h] = IF h < p THEN t[h] ELSE IF h = p THEN c[k] ELSE t[h - 1]
  BY <1>1, <1>3 DEF Ins
<1>7. ASSUME NEW h \in 1..k PROVE r[h] = c[u[h]]
  <2>1. (h < p => h \in 1..(k - 1)) /\ ((~(h < p) /\ h # p) => h - 1 \in 1..(k - 1))
    OBVIOUS
  <2> QED
    BY <1>6, <2>1
<1> HIDE DEF u
<1>8. SortedAt(r, c, v, k)
  BY <1>2, <1>5, <1>7 DEF SortedAt
<1> QED
  BY <1>3, <1>8

(* So does the inner loop of list_sort.                                    *)
LEMMA InsertionRound ==
  ASSUME NEW c, NEW pl, Sees(c, pl), NEW k \in 1..Len(c), NEW t,
         SortedAt(t, c, RankOf(Items), k - 1)
  PROVE  SortedAt(Insertion(t, c[k]), c, RankOf(Items), k)
<1>1. PICK s : s = Items
  OBVIOUS
<1>2. /\ c \in Seq(Node) /\ Len(c) \in Nat /\ s \in Seq(Item) /\ Len(s) = Len(c)
      /\ \A j \in 1..Len(c) : s[j] = data[c[j]]
  BY <1>1, SeesFacts, SeesItems
<1>3. PICK v : v = RankOf(s)
  OBVIOUS
<1>4. \A j \in 1..Len(c) : v[j] \in Int /\ v[j] = Rank[data[c[j]]]
  BY <1>2, <1>3, RanksAre
<1>5. PICK o : /\ Increasing(o, v, k - 1)
               /\ t \in Seq(Node) /\ Len(t) = k - 1 /\ \A h \in 1..(k - 1) : t[h] = c[o[h]]
  BY <1>1, <1>3 DEF SortedAt
<1>6. ASSUME NEW h \in 1..(k - 1)
      PROVE  Rank[data[t[h]]] = v[o[h]]
  <2>1. o[h] \in 1..(k - 1)
    BY <1>5 DEF Increasing
  <2>2. PICK i \in 1..(k - 1) : i = o[h]
    BY <2>1
  <2>3. i \in 1..Len(c)
    OBVIOUS
  <2> QED
    BY <1>4, <1>5, <2>2, <2>3
<1>7. PICK x : x = c[k]
  OBVIOUS
<1>8. Rank[data[x]] = v[k] /\ \A j \in 1..k : v[j] \in Int
  BY <1>4, <1>7
<1> DEFINE greater == {h \in 1..Len(t) : Rank[data[x]] < Rank[data[t[h]]]}
<1>9. \A h \in 1..(k - 1) : h \in greater <=> v[k] < v[o[h]]
  BY <1>5, <1>6, <1>8
<1>a. greater \subseteq 1..(k - 1)
  BY <1>5
<1>10. CASE greater = {}
  <2>1. Insertion(t, x) = Append(t, x)
    BY <1>10 DEF Insertion
  <2>2. Append(t, x) = Ins(t, k, x)
    <3>1. x \in Node /\ k \in 1..(Len(t) + 1) /\ Len(t) + 1 = k
      BY <1>2, <1>5, <1>7
    <3>2. Ins(t, k, x) \in Seq(Node) /\ Len(Ins(t, k, x)) = k
      BY <1>5, <3>1, InsertAtIs
    <3>3. /\ Append(t, x) \in Seq(Node) /\ Len(Append(t, x)) = k
          /\ \A h \in 1..k : Append(t, x)[h] = IF h < k THEN t[h] ELSE x
      BY <1>5, <3>1
    <3>4. \A h \in 1..k : Ins(t, k, x)[h] = IF h < k THEN t[h] ELSE x
      BY <3>1 DEF Ins
    <3>5. PICK a : a = Append(t, x)
      OBVIOUS
    <3>6. PICK b : b = Ins(t, k, x)
      OBVIOUS
    <3>7. a = b
      BY <3>2, <3>3, <3>4, <3>5, <3>6, SameSeq
    <3> QED
      BY <3>5, <3>6, <3>7
  <2>3. k \in 1..k /\ ~(k < k)
    OBVIOUS
  <2>4. \A h \in 1..(k - 1) : ~(v[k] < v[o[h]])
    BY <1>9, <1>10
  <2>5. SortedAt(Ins(t, k, c[k]), c, v, k)
    BY <1>2, <1>5, <1>8, <2>3, <2>4, InsertedAt
  <2> QED
    BY <1>1, <1>3, <1>7, <2>1, <2>2, <2>5
<1>11. CASE greater # {}
  <2> HIDE DEF greater
  <2>1. \E p \in greater : \A h \in greater : p <= h
    <3>1. greater \in SUBSET Nat
      BY <1>a
    <3> QED
      BY <1>11, <3>1, Least
  <2>2. PICK p : p = CHOOSE q \in greater : \A h \in greater : q <= h
    OBVIOUS
  <2>3. p \in greater /\ \A h \in greater : p <= h
    BY <2>1, <2>2, Zenon
  <2>4. p \in 1..(k - 1) /\ p \in 1..k
    BY <1>a, <2>3
  <2>5. v[k] < v[o[p]]
    BY <1>9, <2>3, <2>4
  <2>6. \A h \in 1..(p - 1) : ~(v[k] < v[o[h]])
    <3>1. ASSUME NEW h \in 1..(p - 1) PROVE ~(v[k] < v[o[h]])
      <4>1. h \in 1..(k - 1) /\ ~(p <= h)
        BY <2>4
      <4> QED
        BY <1>9, <2>3, <4>1
    <3> QED
      BY <3>1
  <2>7. Insertion(t, x) = InsertAt(t, p, x)
    BY <1>11, <2>2, Zenon DEF Insertion, greater
  <2>8. InsertAt(t, p, x) = Ins(t, p, x)
    <3>1. x \in Node /\ p \in 1..(Len(t) + 1)
      BY <1>2, <1>5, <1>7, <2>4
    <3> QED
      BY <1>5, <3>1, InsertAtIs
  <2>9. SortedAt(Ins(t, p, c[k]), c, v, k)
    BY <1>2, <1>5, <1>8, <2>4, <2>5, <2>6, InsertedAt
  <2> QED
    BY <1>1, <1>3, <1>7, <2>7, <2>8, <2>9
<1> QED
  BY <1>10, <1>11

(* The rounds of list_sort, as its definition writes them.                 *)
Inserts(c, f, n) == f = [k \in 0..n |-> IF k = 0 THEN << >> ELSE Insertion(f[k - 1], c[k])]

(* The states of its outer loop exist as a function,                       *)
LEMMA InsertsExist ==
  ASSUME NEW c, NEW n \in Nat
  PROVE  \E f : Inserts(c, f, n)
<1> DEFINE Bad == {l \in Nat : ~\E f : Inserts(c, f, l)}
<1>1. Bad = {}
  <2> SUFFICES ASSUME Bad # {} PROVE FALSE
    OBVIOUS
  <2>1. PICK l \in Bad : \A h \in Bad : l <= h
    <3>1. Bad \in SUBSET Nat
      OBVIOUS
    <3> HIDE DEF Bad
    <3> QED
      BY <3>1, Least
  <2>2. l # 0
    <3>1. PICK f : f = [k \in 0..0 |-> << >>]
      OBVIOUS
    <3>2. \A k \in 0..0 : f[k] = << >> /\ k = 0
      BY <3>1
    <3>3. f = [k \in 0..0 |-> IF k = 0 THEN << >> ELSE Insertion(f[k - 1], c[k])]
      BY <3>1, <3>2
    <3>4. Inserts(c, f, 0)
      BY <3>3 DEF Inserts
    <3> QED
      BY <3>4
  <2>3. l - 1 \in Nat /\ ~(l <= l - 1)
    BY <2>2
  <2>4. PICK f : Inserts(c, f, l - 1)
    BY <2>1, <2>3
  <2>5. PICK e : e = Insertion(f[l - 1], c[l])
    OBVIOUS
  <2>6. PICK g : g = [k \in 0..l |-> IF k = l THEN e ELSE f[k]]
    OBVIOUS
  <2>7. ASSUME NEW k \in 0..l
        PROVE  g[k] = IF k = 0 THEN << >> ELSE Insertion(g[k - 1], c[k])
    <3>1. CASE k = l
      <4>1. l - 1 \in 0..l /\ l - 1 # l
        BY <2>3
      <4>2. g[l - 1] = f[l - 1] /\ g[l] = e
        BY <2>6, <4>1
      <4> QED
        BY <2>2, <2>5, <3>1, <4>2
    <3>2. CASE k # l
      <4>1. k \in 0..(l - 1) /\ g[k] = f[k]
        BY <2>6, <3>2
      <4>2. f[k] = IF k = 0 THEN << >> ELSE Insertion(f[k - 1], c[k])
        BY <2>4, <4>1 DEF Inserts
      <4>3. k # 0 => (k - 1 \in 0..l /\ k - 1 # l)
        BY <4>1
      <4>4. k # 0 => g[k - 1] = f[k - 1]
        BY <2>6, <4>3
      <4> QED
        BY <4>1, <4>2, <4>4
    <3> QED
      BY <3>1, <3>2
  <2>8. g = [k \in 0..l |-> g[k]]
    BY <2>6
  <2>9. g = [k \in 0..l |-> IF k = 0 THEN << >> ELSE Insertion(g[k - 1], c[k])]
    BY <2>7, <2>8
  <2>10. Inserts(c, g, l)
    BY <2>9 DEF Inserts
  <2> QED
    BY <2>1, <2>10
<1> QED
  BY <1>1


(* and the last of them is sorted.                                         *)
LEMMA SortedEnd ==
  ASSUME NEW c, NEW pl, Sees(c, pl)
  PROVE  SortedAt(Sorted, c, RankOf(Items), Len(c))
<1>1. c \in Seq(Node) /\ Len(c) \in Nat /\ Chain = c
  BY SeesFacts
<1>2. PICK n \in Nat : n = Len(c)
  BY <1>1
<1>3. PICK v : v = RankOf(Items)
  OBVIOUS
<1> DEFINE st == CHOOSE st : st = [k \in 0..Len(Chain) |->
                   IF k = 0 THEN << >> ELSE Insertion(st[k - 1], Chain[k])]
<1>4. Sorted = st[Len(Chain)]
  BY Zenon DEF Sorted
<1>5. PICK f : f = st
  OBVIOUS
<1>6. Inserts(c, f, n)
  <2>1. f = CHOOSE z : Inserts(c, z, n)
    BY <1>1, <1>2, <1>5 DEF Inserts
  <2>2. \E z : Inserts(c, z, n)
    BY InsertsExist
  <2> HIDE DEF st
  <2> QED
    BY <2>1, <2>2
<1> HIDE DEF st
<1>7. \A k \in 0..n : f[k] = IF k = 0 THEN << >> ELSE Insertion(f[k - 1], c[k])
  BY <1>6 DEF Inserts
<1> DEFINE Bad == {k \in 0..n : ~SortedAt(f[k], c, v, k)}
<1>8. Bad = {}
  <2> SUFFICES ASSUME Bad # {} PROVE FALSE
    OBVIOUS
  <2>1. PICK k \in Bad : \A h \in Bad : k <= h
    <3>1. Bad \in SUBSET Nat
      OBVIOUS
    <3> HIDE DEF Bad
    <3> QED
      BY <3>1, Least
  <2>2. SortedAt(<< >>, c, v, 0)
    <3>1. PICK o : o = [j \in 1..0 |-> j]
      OBVIOUS
    <3>2. Increasing(o, v, 0)
      BY <3>1 DEF Increasing
    <3> QED
      BY <3>2 DEF SortedAt
  <2>3. k # 0
    BY <1>7, <2>1, <2>2
  <2>4. k \in 1..n /\ k - 1 \in 0..n /\ ~(k <= k - 1)
    BY <2>1, <2>3
  <2>5. PICK t : t = f[k - 1]
    OBVIOUS
  <2>6. SortedAt(t, c, v, k - 1)
    BY <2>1, <2>4, <2>5
  <2>7. SortedAt(Insertion(t, c[k]), c, v, k)
    BY <1>2, <1>3, <2>4, <2>6, InsertionRound
  <2>8. f[k] = Insertion(t, c[k])
    BY <1>7, <2>3, <2>4, <2>5
  <2> QED
    BY <2>1, <2>7, <2>8
<1>9. n \in 0..n
  OBVIOUS
<1>10. SortedAt(f[n], c, v, n)
  BY <1>8, <1>9
<1> QED
  BY <1>1, <1>2, <1>3, <1>4, <1>5, <1>10

(* The only increasing permutation is the order of the abstract sort.      *)
LEMMA OrderIs ==
  ASSUME Items \in Seq(Item), NEW n, n = Len(Items), NEW o, Increasing(o, RankOf(Items), n)
  PROVE  Abstract!Order = o
<1>1. PICK s : s = Items
  OBVIOUS
<1>2. s \in Seq(Item) /\ n \in Nat /\ n = Len(s)
  BY <1>1
<1>3. PICK v : v = RankOf(s)
  OBVIOUS
<1>4. v \in [1..n -> Int] /\ \A j \in 1..n : v[j] = Rank[s[j]]
  BY <1>2, <1>3, RanksAre
<1>5. ASSUME NEW j \in 1..n, NEW k \in 1..n PROVE Abstract!Before(j, k) <=> Prec(v, j, k)
  BY <1>1, <1>4 DEF Abstract!Before, Prec
<1>6. ASSUME NEW u \in [1..n -> 1..n]
      PROVE  (\A j, k \in 1..n : j < k => Abstract!Before(u[j], u[k])) <=> Increasing(u, v, n)
  <2>1. \A j, k \in 1..n : Abstract!Before(u[j], u[k]) <=> Prec(v, u[j], u[k])
    <3>1. \A j \in 1..n : u[j] \in 1..n
      OBVIOUS
    <3> QED
      BY <1>5, <3>1
  <2> QED
    BY <2>1 DEF Increasing
<1>7. Increasing(o, v, n) /\ o \in [1..n -> 1..n]
  BY <1>1, <1>3 DEF Increasing
<1>8. \A u : Increasing(u, v, n) => u = o
  BY <1>2, <1>4, <1>7, IncreasingUnique
<1>9. Abstract!Order = CHOOSE u \in [1..n -> 1..n] :
                         \A j, k \in 1..n : j < k => Abstract!Before(u[j], u[k])
  BY <1>1, <1>2, Zenon DEF Abstract!Order
<1> QED
  BY <1>6, <1>7, <1>8, <1>9

(* The sorted chain holds the items in the order of list.h.                *)
LEMMA SortedItems ==
  ASSUME NEW c, NEW pl, Sees(c, pl), NEW n, n = Len(c),
         NEW o, Increasing(o, RankOf(Items), n), NEW d \in Seq(Node), Len(d) = n,
         \A h \in 1..n : d[h] = c[o[h]]
  PROVE  /\ ItemsOf(data, d) = [k \in 1..Len(Items) |-> Items[Abstract!Order[k]]]
         /\ Injective(d) /\ Unused(d) = Unused(c)
<1>1. PICK s : s = Items
  OBVIOUS
<1>2. /\ c \in Seq(Node) /\ Injective(c) /\ n \in Nat /\ s \in Seq(Item) /\ Len(s) = n
      /\ \A j \in 1..n : s[j] = data[c[j]]
  BY <1>1, SeesFacts, SeesItems
<1>3. o \in [1..n -> 1..n]
  BY DEF Increasing
<1>4. Permutes(o, n)
  <2>1. PICK v : v = RankOf(s)
    OBVIOUS
  <2>2. v \in [1..n -> Int] /\ Increasing(o, v, n)
    BY <1>1, <1>2, <2>1, RanksAre
  <2> QED
    BY <1>2, <2>2, IncreasingPermutes
<1>5. Abstract!Order = o
  BY <1>1, <1>2, OrderIs
<1>6. ASSUME NEW h \in 1..n PROVE data[d[h]] = s[o[h]]
  <2>1. PICK i \in 1..n : i = o[h]
    BY <1>3
  <2> QED
    BY <1>2, <2>1
<1>7. ItemsOf(data, d) = [k \in 1..Len(Items) |-> Items[Abstract!Order[k]]]
  BY <1>1, <1>2, <1>5, <1>6 DEF ItemsOf
<1>8. Injective(d)
  <2>1. ASSUME NEW j \in 1..n, NEW k \in 1..n, d[j] = d[k] PROVE j = k
    <3>1. PICK a \in 1..n : a = o[j]
      BY <1>3
    <3>2. PICK b \in 1..n : b = o[k]
      BY <1>3
    <3>3. c[a] = c[b]
      BY <2>1, <3>1, <3>2
    <3>4. a = b
      BY <1>2, <3>3 DEF Injective
    <3> QED
      BY <1>4, <3>1, <3>2, <3>4 DEF Permutes
  <2> QED
    BY <2>1 DEF Injective
<1>9. ASSUME NEW p \in Node
      PROVE  (\A k \in 1..n : d[k] # p) <=> (\A k \in 1..n : c[k] # p)
  <2>1. ASSUME \A k \in 1..n : d[k] # p, NEW k \in 1..n PROVE c[k] # p
    <3>1. PICK j \in 1..n : o[j] = k
      BY <1>4 DEF Permutes
    <3> QED
      BY <2>1, <3>1
  <2>2. ASSUME \A k \in 1..n : c[k] # p, NEW k \in 1..n PROVE d[k] # p
    <3>1. PICK i \in 1..n : i = o[k]
      BY <1>3
    <3> QED
      BY <2>2, <3>1
  <2> QED
    BY <2>1, <2>2
<1>10. Unused(d) = Unused(c)
  BY <1>9 DEF Unused
<1> QED
  BY <1>7, <1>8, <1>10

(* list_sort relinks the same nodes in that order and puts every iterator  *)
(* back to the start.                                                      *)
LEMMA Step_sort ==
  ASSUME Inv, list_sort
  PROVE  Inv' /\ Abstract!list_sort
<1>1. PICK d : d = Sorted
  OBVIOUS
<1> DEFINE after(x) == IF x = LHead THEN 1 ELSE (CHOOSE k \in 1..Len(d) : d[k] = x) + 1
           f == [x \in Cell |-> IF x # LHead /\ x \notin ToSet(d) THEN next[x]
                                ELSE IF after(x) > Len(d) THEN NULL ELSE d[after(x)]]
           j == [i \in Iter |-> IF i \in Open THEN [pos |-> d[1], prev |-> LHead] ELSE Closed]
<1>2. /\ alive /\ ret' = NULL /\ del' = << >> /\ alive' = alive
      /\ data' = data /\ count' = count /\ free' = free
  BY DEF list_sort, Returns
<1>3. \/ count > 1 /\ next' = f /\ tail' = d[Len(d)] /\ it' = j
      \/ count <= 1 /\ UNCHANGED <<next, tail, it>>
  BY <1>1, SMT DEF list_sort
<1>4. PICK c, pl : Sees(c, pl)
  BY <1>2, Alive
<1>5. PICK n : n = Len(c)
  OBVIOUS
<1>6. /\ c \in Seq(Node) /\ n \in Nat /\ count = n /\ next \in [Cell -> Ptr]
      /\ Injective(c) /\ free = Unused(c) /\ OnPlaces(it, c, pl)
      /\ data \in [Node -> Item \cup {Freed}] /\ Filled(data, free)
      /\ Items \in Seq(Item) /\ Len(Items) = n /\ Places = pl
  BY <1>4, <1>5, SeesFacts, SeesItems
<1>7. CASE count <= 1
  <2>1. UNCHANGED <<list, alive>>
    BY <1>2, <1>3, <1>6, <1>7 DEF list
  <2>2. Inv' /\ Items' = Items /\ Places' = Places
    BY <2>1, Same
  <2>3. PICK o : o = [k \in 1..n |-> k]
    OBVIOUS
  <2>4. Increasing(o, RankOf(Items), n)
    <3>1. \A h, k \in 1..n : ~(h < k)
      BY <1>6, <1>7
    <3>2. o \in [1..n -> 1..n]
      BY <2>3
    <3> QED
      BY <3>1, <3>2 DEF Increasing
  <2>5. Abstract!Order = o
    BY <1>6, <2>4, OrderIs
  <2>6. Items = [k \in 1..Len(Items) |-> Items[Abstract!Order[k]]]
    <3>1. PICK s \in Seq(Item) : s = Items /\ Len(s) = n
      BY <1>6
    <3>2. s = [k \in 1..Len(s) |-> s[k]]
      OBVIOUS
    <3>3. \A k \in 1..n : o[k] = k
      BY <2>3
    <3> QED
      BY <2>5, <3>1, <3>2, <3>3
  <2>7. ~(Len(Items) > 1)
    BY <1>6, <1>7
  <2>8. /\ ret' = NULL /\ del' = << >> /\ alive /\ alive' = alive
        /\ Items' = [k \in 1..Len(Items) |-> Items[Abstract!Order[k]]]
        /\ Places' = Places
    BY <1>2, <2>2, <2>6
  <2>9. Abstract!list_sort
    BY <2>7, <2>8, Zenon DEF Abstract!list_sort, Abstract!Returns
  <2> QED
    BY <2>2, <2>9
<1>8. CASE count > 1
  <2>1. PICK o : /\ Increasing(o, RankOf(Items), n)
                 /\ d \in Seq(Node) /\ Len(d) = n /\ \A h \in 1..n : d[h] = c[o[h]]
    <3>1. SortedAt(d, c, RankOf(Items), n)
      BY <1>1, <1>4, <1>5, SortedEnd
    <3> QED
      BY <3>1 DEF SortedAt
  <2>2. /\ ItemsOf(data, d) = [k \in 1..Len(Items) |-> Items[Abstract!Order[k]]]
        /\ Injective(d) /\ Unused(d) = Unused(c)
    BY <1>4, <1>5, <2>1, SortedItems
  <2>3. n > 1 /\ n \in Nat /\ 1 \in 1..n /\ n \in 1..n
    BY <1>6, <1>8
  <2>a. \A k \in 1..n : d[k] \in Node /\ d[k] \in Cell /\ d[k] \in Ptr /\ d[k] # LHead
    BY <2>1, ListAssumption DEF Cell, Ptr
  <2>b. ToSet(d) = {d[k] : k \in 1..n}
    BY <2>1 DEF ToSet
  <2>4. ASSUME NEW k \in 1..n PROVE after(d[k]) = k + 1
    <3>1. \A h \in 1..n : d[h] = d[k] => h = k
      BY <2>1, <2>2 DEF Injective
    <3>2. (CHOOSE h \in 1..n : d[h] = d[k]) = k
      BY <3>1
    <3> QED
      BY <2>1, <2>a, <3>2
  <2>5. f \in [Cell -> Ptr]
    <3>1. ASSUME NEW x \in Cell
          PROVE  (IF x # LHead /\ x \notin ToSet(d) THEN next[x]
                  ELSE IF after(x) > Len(d) THEN NULL ELSE d[after(x)]) \in Ptr
      <4>1. CASE x # LHead /\ x \notin ToSet(d)
        BY <1>6, <4>1
      <4>2. CASE x = LHead
        BY <2>1, <2>3, <2>a, <4>2
      <4>3. CASE x # LHead /\ x \in ToSet(d)
        <5>1. PICK k \in 1..n : x = d[k]
          BY <2>b, <4>3
        <5>2. after(x) = k + 1
          BY <2>4, <5>1
        <5>3. k + 1 > n \/ k + 1 \in 1..n
          BY <2>3
        <5>4. NULL \in Ptr
          BY DEF Ptr
        <5> HIDE DEF after
        <5> QED
          BY <2>1, <2>a, <4>3, <5>2, <5>3, <5>4
      <4> QED
        BY <4>1, <4>2, <4>3
    <3> QED
      BY <3>1
  <2>6. Follows(f, d)
    <3>1. ASSUME NEW k \in 0..n PROVE f[CellOf(d, k)] = At(d, k + 1)
      <4>1. PICK x : x = CellOf(d, k)
        OBVIOUS
      <4>2. x \in Cell /\ (x = LHead \/ x \in ToSet(d)) /\ after(x) = k + 1
        <5>1. CASE k = 0
          BY <4>1, <5>1 DEF CellOf, Cell
        <5>2. CASE k # 0
          <6>1. k \in 1..n
            BY <5>2
          <6>2. x = d[k]
            BY <4>1, <5>2 DEF CellOf
          <6> QED
            BY <2>4, <2>a, <2>b, <6>1, <6>2
        <5> QED
          BY <5>1, <5>2
      <4>3. f[x] = IF k + 1 > n THEN NULL ELSE d[k + 1]
        <5> HIDE DEF after
        <5> QED
          BY <2>1, <4>2
      <4>4. k + 1 > n <=> ~(k + 1 \in 1..n)
        BY <2>3
      <4> HIDE DEF f
      <4> QED
        BY <2>1, <4>1, <4>3, <4>4 DEF At
    <3> HIDE DEF f
    <3> QED
      BY <2>1, <3>1 DEF Follows
  <2> HIDE DEF f, after
  <2>7. PICK m : m = [data |-> data, next |-> f, tail |-> d[n], count |-> n, it |-> j, free |-> free]
    OBVIOUS
  <2>8. Linked(m, d)
    <3>1. d[n] = CellOf(d, Len(d))
      BY <2>1, <2>3 DEF CellOf
    <3> HIDE DEF j
    <3>2. /\ m.next = f /\ m.tail = d[n] /\ m.count = n /\ m.free = free /\ m.data = data
      BY <2>7
    <3> QED
      BY <1>6, <2>1, <2>2, <2>5, <2>6, <3>1, <3>2 DEF Linked
  <2> DEFINE P == [i \in Iter |-> IF pl[i] = Closed THEN Closed ELSE [at |-> 0, last |-> FALSE]]
  <2>9. OnPlaces(m.it, d, P)
    <3>1. ASSUME NEW i \in Iter
          PROVE  OnPlace(j[i], d, P[i]) /\ j[i] \in [pos : Ptr, prev : Cell] \cup {Closed}
                 /\ P[i] \in Place \cup {Closed}
      <4>1. it[i] = Closed <=> pl[i] = Closed
        BY <1>4, SeesIter
      <4>2. CASE it[i] = Closed
        <5>1. j[i] = Closed /\ P[i] = Closed
          BY <4>1, <4>2 DEF Open
        <5> HIDE DEF j, P
        <5> QED
          BY <5>1 DEF OnPlace
      <4>3. CASE it[i] # Closed
        <5>1. j[i] = [pos |-> d[1], prev |-> LHead] /\ P[i] = [at |-> 0, last |-> FALSE]
          BY <4>1, <4>3 DEF Open
        <5>2. At(d, 0 + 1) = d[1] /\ CellOf(d, 0) = LHead /\ 0 \in 0..Len(d)
          BY <2>1, <2>3 DEF At, CellOf
        <5>3. PICK jj : jj = j[i]
          OBVIOUS
        <5>4. jj = [pos |-> At(d, 0 + 1), prev |-> CellOf(d, 0)]
          BY <5>1, <5>2, <5>3
        <5>5. /\ OnPlace(jj, d, [at |-> 0, last |-> FALSE])
              /\ jj \in [pos : Ptr, prev : Cell]
          BY <2>1, <5>2, <5>4, Placed
        <5>6. [at |-> 0, last |-> FALSE] \in Place
          BY DEF Place
        <5> HIDE DEF j, P
        <5> QED
          BY <5>1, <5>3, <5>5, <5>6
      <4> QED
        BY <4>2, <4>3
    <3>2. m.it = j /\ j = [i \in Iter |-> j[i]] /\ P = [i \in Iter |-> P[i]]
      BY <2>7
    <3> HIDE DEF j, P
    <3> QED
      BY <3>1, <3>2 DEF OnPlaces
  <2>10. Becomes(m)
    <3> HIDE DEF j
    <3> QED
      BY <1>2, <1>3, <1>6, <1>8, <2>1, <2>3, <2>7 DEF Becomes
  <2>11. Inv' /\ Items' = ItemsOf(m.data, d) /\ Places' = P
    <3>1. Holds(m, d, P) /\ alive' = TRUE
      BY <1>2, <2>8, <2>9 DEF Holds, Inv
    <3> HIDE DEF P
    <3> QED
      BY <2>10, <3>1, Reaches
  <2>12. P = IF Len(Items) > 1
             THEN [i \in Iter |-> IF i \in Abstract!Open THEN Abstract!Start ELSE Closed]
             ELSE Places
    <3>1. Len(Items) > 1
      BY <1>6, <2>3
    <3>2. \A i \in Iter : i \in Abstract!Open <=> pl[i] # Closed
      BY <1>6 DEF Abstract!Open
    <3> QED
      BY <3>1, <3>2 DEF Abstract!Start
  <2>13. m.data = data
    <3> HIDE DEF j
    <3> QED
      BY <2>7
  <2>14. /\ ret' = NULL /\ del' = << >> /\ alive /\ alive' = alive
         /\ Items' = [k \in 1..Len(Items) |-> Items[Abstract!Order[k]]]
         /\ Places' = P
    BY <1>2, <2>2, <2>11, <2>13
  <2> HIDE DEF P
  <2> QED
    BY <2>11, <2>12, <2>14, Zenon DEF Abstract!list_sort, Abstract!Returns
<1>9. count <= 1 \/ count > 1
  BY <1>6
<1> QED
  BY <1>7, <1>8, <1>9

-------------------------------------------------------------------------------
(* Before the first list_create.                                           *)
LEMMA InitHolds ==
  ASSUME Init
  PROVE  Inv /\ Abstract!Init
<1>1. Idle
  BY DEF Init, Idle, Ptr
<1>2. Items = << >> /\ Places = [i \in Iter |-> Closed]
  BY DEF Init, Items, Places
<1> QED
  BY <1>1, <1>2 DEF Init, Inv, Abstract!Init

(* Every call on a list,                                                   *)
LEMMA StepOnList ==
  ASSUME Inv, OnList
  PROVE  Inv' /\ Abstract!OnList
<1>1. CASE list_create
  BY <1>1, Step_create, Zenon DEF Abstract!OnList
<1>2. CASE list_destroy
  BY <1>2, Step_destroy, Zenon DEF Abstract!OnList
<1>3. CASE list_dequeue
  BY <1>3, Step_dequeue, Zenon DEF Abstract!OnList
<1>4. CASE list_sort
  BY <1>4, Step_sort, Zenon DEF Abstract!OnList
<1>5. CASE list_count
  BY <1>5, Step_count, Zenon DEF Abstract!OnList
<1>6. CASE list_peek
  BY <1>6, Step_peek, Zenon DEF Abstract!OnList
<1>7. ASSUME NEW x \in Item, list_append(x) PROVE Inv' /\ Abstract!OnList
  BY <1>7, Step_append, Zenon DEF Abstract!OnList
<1>8. ASSUME NEW x \in Item, list_prepend(x) PROVE Inv' /\ Abstract!OnList
  BY <1>8, Step_prepend, Zenon DEF Abstract!OnList
<1>9. ASSUME NEW P \in Pred, list_delete_all(P) PROVE Inv' /\ Abstract!OnList
  BY <1>9, Step_delete_all, Zenon DEF Abstract!OnList
<1>10. ASSUME NEW P \in Pred, list_find_first(P) PROVE Inv' /\ Abstract!OnList
  BY <1>10, Step_find_first, Zenon DEF Abstract!OnList
<1>11. ASSUME NEW P \in Pred, list_for_each(P) PROVE Inv' /\ Abstract!OnList
  BY <1>11, Step_for_each, Zenon DEF Abstract!OnList
<1> QED
  BY <1>1, <1>2, <1>3, <1>4, <1>5, <1>6, <1>7, <1>8, <1>9, <1>10, <1>11, Zenon DEF OnList

(* every call on an iterator                                               *)
LEMMA StepOnIterator ==
  ASSUME Inv, NEW i \in Iter, OnIterator(i)
  PROVE  Inv' /\ (Abstract!OnIterator(i) \/ Abstract!OnList)
<1>1. CASE list_iterator_create(i)
  BY <1>1, Step_iterator_create, Zenon DEF Abstract!OnIterator
<1>2. CASE list_iterator_reset(i)
  BY <1>2, Step_iterator_reset, Zenon DEF Abstract!OnIterator
<1>3. CASE list_iterator_destroy(i)
  BY <1>3, Step_iterator_destroy, Zenon DEF Abstract!OnIterator
<1>4. CASE list_remove(i)
  <2>1. FALSE \in BOOLEAN
    OBVIOUS
  <2> QED
    BY <1>4, <2>1, Step_remove, Zenon DEF Abstract!OnIterator
<1>5. CASE list_delete(i)
  <2>1. TRUE \in BOOLEAN
    OBVIOUS
  <2> QED
    BY <1>5, <2>1, Step_delete, Zenon DEF Abstract!OnIterator
<1>6. ASSUME NEW x \in Item, list_insert(i, x)
      PROVE  Inv' /\ (Abstract!OnIterator(i) \/ Abstract!OnList)
  BY <1>6, Step_insert, Zenon DEF Abstract!OnIterator, Abstract!OnList
<1>7. ASSUME NEW P \in Pred, list_find(i, P)
      PROVE  Inv' /\ (Abstract!OnIterator(i) \/ Abstract!OnList)
  BY <1>7, Step_find, Zenon DEF Abstract!OnIterator
<1> QED
  BY <1>1, <1>2, <1>3, <1>4, <1>5, <1>6, <1>7, Zenon DEF OnIterator

(* and so every step keeps the invariant and is one of the sequence, or    *)
(* shows no change.                                                        *)
LEMMA StepHolds ==
  ASSUME Inv, [Next]_vars
  PROVE  Inv' /\ [Abstract!Next]_(Abstract!vars)
<1>1. CASE OnList
  BY <1>1, StepOnList, Zenon DEF Abstract!Next
<1>2. ASSUME NEW i \in Iter, OnIterator(i) PROVE Inv' /\ Abstract!Next
  BY <1>2, StepOnIterator, Zenon DEF Abstract!Next
<1>3. CASE UNCHANGED vars
  <2>1. UNCHANGED <<list, alive>> /\ alive' = alive /\ ret' = ret /\ del' = del
    BY <1>3 DEF vars, list
  <2>2. Inv' /\ Items' = Items /\ Places' = Places
    BY <2>1, Same
  <2>3. UNCHANGED Abstract!vars
    BY <2>1, <2>2 DEF Abstract!vars
  <2> QED
    BY <2>2, <2>3
<1> QED
  BY <1>1, <1>2, <1>3, Zenon DEF Next

(* ---- What the invariant says of the chain and of the iterators. ------- *)
LEMMA InvChain ==
  ASSUME Inv
  PROVE  ChainSound
<1> SUFFICES ASSUME alive PROVE
           /\ count = Len(Chain)
           /\ tail = IF Chain = << >> THEN LHead ELSE Chain[Len(Chain)]
           /\ IsInjective(Chain)
           /\ free = Node \ ToSet(Chain)
           /\ \A n \in Node : data[n] = Freed <=> n \in free
  BY DEF ChainSound
<1>1. PICK c, pl : Sees(c, pl)
  BY Alive
<1>2. /\ Chain = c /\ c \in Seq(Node) /\ Injective(c) /\ Len(c) \in Nat /\ count = Len(c)
      /\ tail = CellOf(c, Len(c)) /\ free = Unused(c) /\ Filled(data, free)
  BY <1>1, SeesFacts
<1>3. tail = IF c = << >> THEN LHead ELSE c[Len(c)]
  BY <1>2 DEF CellOf
<1>4. IsInjective(c)
  BY <1>2 DEF IsInjective, Injective
<1>5. free = Node \ ToSet(c)
  BY <1>2 DEF Unused, ToSet
<1> QED
  BY <1>2, <1>3, <1>4, <1>5 DEF Filled

(* Both pointers of an iterator are inside the list, one or two steps      *)
(* apart.                                                                  *)
LEMMA InvIter ==
  ASSUME Inv
  PROVE  IterSound
<1> SUFFICES ASSUME NEW i \in Iter, it[i] # Closed
             PROVE  /\ it[i].prev \in ToSet(Chain) \cup {LHead}
                    /\ it[i].pos \in ToSet(Chain) \cup {NULL}
                    /\ \/ it[i].pos = next[it[i].prev]
                       \/ /\ next[it[i].prev] # NULL
                          /\ it[i].pos = next[next[it[i].prev]]
  BY DEF IterSound, Open
<1>1. PICK c, pl : Sees(c, pl)
  BY OpenAlive, Alive
<1>2. PICK q : q = pl[i]
  OBVIOUS
<1>3. PICK j : j = it[i]
  OBVIOUS
<1>4. IterFacts(j, c, q)
  BY <1>1, <1>2, <1>3, SeesIter
<1>5. /\ Chain = c /\ c \in Seq(Node) /\ Len(c) \in Nat /\ Follows(next, c)
      /\ ToSet(c) = {c[k] : k \in 1..Len(c)}
  BY <1>1, SeesFacts DEF ToSet
<1>6. /\ q.at \in 0..Len(c) /\ q.last \in BOOLEAN /\ (q.last => q.at >= 1)
      /\ j.pos = At(c, q.at + 1) /\ j.prev = CellOf(c, Behind(q)) /\ Behind(q) \in 0..Len(c)
      /\ next[j.prev] = (IF q.last THEN At(c, q.at) ELSE At(c, q.at + 1))
  BY <1>4 DEF IterFacts, Valid, Place, PosAt
<1>7. j.prev \in ToSet(c) \cup {LHead}
  <2>1. PICK b \in 0..Len(c) : b = Behind(q)
    BY <1>6
  <2>2. b = 0 \/ b \in 1..Len(c)
    BY <1>5
  <2> QED
    BY <1>5, <1>6, <2>1, <2>2 DEF CellOf
<1>8. j.pos \in ToSet(c) \cup {NULL}
  BY <1>5, <1>6 DEF At
<1>9. CASE q.last
  <2>1. q.at \in 1..Len(c)
    BY <1>6, <1>9
  <2>2. next[j.prev] = c[q.at] /\ c[q.at] \in Node /\ CellOf(c, q.at) = c[q.at]
    BY <1>5, <1>6, <1>9, <2>1 DEF At, CellOf
  <2>3. next[c[q.at]] = At(c, q.at + 1)
    BY <1>5, <1>6, <2>2 DEF Follows
  <2>4. next[j.prev] # NULL /\ j.pos = next[next[j.prev]]
    BY <1>6, <2>2, <2>3, ListAssumption
  <2> QED
    BY <1>3, <1>5, <1>7, <1>8, <2>4
<1>10. CASE ~q.last
  BY <1>3, <1>5, <1>6, <1>7, <1>8, <1>10
<1> QED
  BY <1>6, <1>9, <1>10

(* ---- Theorems ---------------------------------------------------------- *)
(* The invariant: between calls the list is a chain of distinct nodes, the *)
(* others are free, and each iterator is at a place of the chain.          *)
THEOREM InvHolds == Spec => []Inv
<1>1. Init => Inv
  BY InitHolds
<1>2. Inv /\ [Next]_vars => Inv'
  BY StepHolds
<1> QED
  BY <1>1, <1>2, PTL DEF Spec

(* No call of list.c leaks a node, frees it twice or leaves a freed one    *)
(* linked, and count and tail are those of the chain.                      *)
THEOREM ChainSoundHolds == Spec => []ChainSound
<1>1. Inv => ChainSound
  BY InvChain
<1> QED
  BY <1>1, InvHolds, PTL

(* The assertion of list_node_create and list_node_destroy on the two      *)
(* pointers of an iterator never fails, however calls alternate.           *)
THEOREM IterSoundHolds == Spec => []IterSound
<1>1. Inv => IterSound
  BY InvIter
<1> QED
  BY <1>1, InvHolds, PTL

(* list.c implements what list.h promises: each call does to the sequence  *)
(* of the items, and to the places of the iterators, what the call of the  *)
(* same name of LsdSeq does, and returns and deletes the same.             *)
THEOREM ListImplementsSeq == Spec => ImplementsSeq
<1>1. Init => Abstract!Init
  BY InitHolds
<1>2. Inv /\ [Next]_vars => [Abstract!Next]_(Abstract!vars)
  BY StepHolds
<1> QED
  BY <1>1, <1>2, InvHolds, PTL DEF Spec, ImplementsSeq, Abstract!Spec

=============================================================================
