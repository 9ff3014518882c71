------------------------------ MODULE LmtLemmas -------------------------------
(***************************************************************************)
(* Facts about natural numbers and sequences that the proofs of several    *)
(* modules need.  Least is induction: to show P for all naturals, look at  *)
(* the least one without P.                                                *)
(***************************************************************************)
EXTENDS Integers, FiniteSetTheorems, SequenceTheorems, WellFoundedInduction, TLAPS

(* A set of naturals that is not empty has a least element.                *)
LEMMA Least ==
  ASSUME NEW T \in SUBSET Nat, T # {}
  PROVE  \E x \in T : \A y \in T : x <= y
<1>1. PICK n \in T : TRUE
  OBVIOUS
<1> DEFINE Below == {0..x : x \in T \cap (0..n)}
           R     == StrictSubsetOrdering(0..n)
<1>2. IsWellFoundedOn(R, SUBSET (0..n))
  <2>1. IsFiniteSet(0..n)
    BY FS_Interval
  <2>2. IsWellFoundedOn(R, FiniteSubsetsOf(0..n))
    BY FS_StrictSubsetOrderingWellFounded
  <2> QED
    BY <2>1, <2>2, FS_FiniteSubsetsOfFinite
<1>3. Below \subseteq SUBSET (0..n) /\ Below # {}
  OBVIOUS
<1>4. \E X \in Below : \A Y \in Below : ~(<<Y, X>> \in R)
  BY <1>2, <1>3, WFMin, Zenon
<1>5. PICK x \in T \cap (0..n) : \A Y \in Below : ~(<<Y, 0..x>> \in R)
  BY <1>4
<1>6. ASSUME NEW y \in T, y < x PROVE FALSE
  <2>1. 0..y \in Below
    BY <1>6
  <2>2. /\ 0..y \subseteq 0..x /\ 0..y # 0..x
        /\ 0..x \subseteq 0..n /\ 0..y \subseteq 0..n
    <3>1. x \in 0..x /\ x \notin 0..y
      BY <1>6
    <3> QED
      BY <3>1, <1>6
  <2> QED
    BY <2>1, <2>2, <1>5 DEF StrictSubsetOrdering
<1> QED
  BY <1>5, <1>6

(* A bounded set of naturals that is not empty has a greatest element.     *)
LEMMA Greatest ==
  ASSUME NEW T \in SUBSET Nat, T # {}, NEW b \in Nat, \A y \in T : y <= b
  PROVE  \E x \in T : \A y \in T : y <= x
<1> DEFINE Bounds == {u \in Nat : \A y \in T : y <= u}
<1>1. PICK u \in Bounds : \A v \in Bounds : u <= v
  BY Least
<1>2. u \in T
  <2> SUFFICES ASSUME u \notin T PROVE FALSE
    OBVIOUS
  <2>1. PICK y \in T : TRUE
    OBVIOUS
  <2>2. u - 1 \in Bounds
    <3>1. ASSUME NEW z \in T PROVE z <= u - 1
      BY <3>1
    <3> QED
      BY <2>1, <3>1
  <2> QED
    BY <2>2, <1>1
<1> QED
  BY <1>1, <1>2

(* The values of a function of naturals on 1..n are bounded.               *)
LEMMA Bounded ==
  ASSUME NEW n \in Nat, NEW f \in [1..n -> Nat]
  PROVE  \E b \in Nat : \A k \in 1..n : f[k] <= b
<1> DEFINE P(j) == \E b \in Nat : \A k \in 1..j : f[k] <= b
           Bad  == {j \in 0..n : ~P(j)}
<1>1. P(0)
  BY 1..0 = {}
<1>2. ASSUME NEW j \in 1..n, P(j - 1) PROVE P(j)
  <2>1. PICK b \in Nat : \A k \in 1..(j - 1) : f[k] <= b
    BY <1>2
  <2>2. b + f[j] \in Nat /\ \A k \in 1..j : f[k] <= b + f[j]
    BY <2>1
  <2> QED
    BY <2>2
<1> HIDE DEF P
<1>3. Bad = {}
  <2> SUFFICES ASSUME Bad # {} PROVE FALSE
    OBVIOUS
  <2>0. Bad \in SUBSET Nat
    OBVIOUS
  <2> HIDE DEF Bad
  <2>1. PICK j \in Bad : \A i \in Bad : j <= i
    BY <2>0, Least
  <2> USE DEF Bad
  <2>2. j # 0
    BY <1>1
  <2>3. j - 1 \notin Bad
    BY <2>1
  <2> QED
    BY <1>2, <2>2, <2>3
<1>4. P(n)
  BY <1>3
<1> QED
  BY <1>4 DEF P

(* Facts about products that let a proof treat them as numbers.            *)
LEMMA Times ==
  ASSUME NEW n \in Nat, NEW w \in Nat
  PROVE  /\ n * w \in Nat /\ (n + 1) * w = n * w + w
         /\ \A i \in 1..n : (i - 1) * w \in Nat /\ (i - 1) * w + w <= n * w
<1>1. n * w \in Nat /\ (n + 1) * w = n * w + w
  OBVIOUS
<1>2. ASSUME NEW i \in 1..n
      PROVE  (i - 1) * w \in Nat /\ (i - 1) * w + w <= n * w
  <2>1. i - 1 \in Nat /\ n - i \in Nat
    OBVIOUS
  <2>2. (i - 1) * w \in Nat /\ (n - i) * w \in Nat
    BY <2>1
  <2>3. n * w = (n - i) * w + ((i - 1) * w + w)
    BY <2>1
  <2> QED
    BY <2>2, <2>3
<1> QED
  BY <1>1, <1>2

(* Dividing such a product gives it back.                                  *)
LEMMA Divides ==
  ASSUME NEW n \in Nat, NEW w \in Nat \ {0}
  PROVE  (n * w) % w = 0 /\ (n * w) \div w = n
<1> DEFINE a == n * w
           q == a \div w
           r == a % w
<1>1. a \in Nat
  OBVIOUS
<1>2. ASSUME NEW x \in Nat PROVE x = w * (x \div w) + (x % w)
  OBVIOUS
<1>a. ASSUME NEW x \in Nat PROVE x % w \in 0..(w - 1)
  OBVIOUS
<1>b. ASSUME NEW x \in Nat PROVE x \div w \in Nat
  OBVIOUS
<1>3. q \in Nat /\ r \in 0..(w - 1) /\ a = w * q + r
  BY <1>1, <1>2, <1>a, <1>b
<1> HIDE DEF q, r
<1>4. w * (n - q) = r
  BY <1>3
<1>5. CASE n - q >= 1
  <2>1. w * (n - q) >= w
    BY <1>5, <1>3
  <2> QED
    BY <2>1, <1>4, <1>3
<1>6. CASE n - q <= -1
  <2>1. w * (q - n) >= w
    BY <1>6, <1>3
  <2>2. w * (n - q) = -(w * (q - n))
    BY <1>3
  <2> QED
    BY <2>1, <2>2, <1>4, <1>3
<1>7. CASE n = q
  <2>1. w * (n - q) = 0
    BY <1>7, <1>3
  <2> QED
    BY <1>7, <2>1, <1>4 DEF q, r, a
<1> QED
  BY <1>5, <1>6, <1>7, <1>3

(* What is left of a sequence without its first k elements.                *)
LEMMA WithoutFirst ==
  ASSUME NEW S, NEW s \in Seq(S), NEW k \in 0..Len(s)
  PROVE  /\ SubSeq(s, k + 1, Len(s)) \in Seq(S)
         /\ Len(SubSeq(s, k + 1, Len(s))) = Len(s) - k
         /\ \A j \in 1..(Len(s) - k) : SubSeq(s, k + 1, Len(s))[j] = s[k + j]
<1>1. Len(s) \in Nat /\ k + 1 \in Int /\ Len(s) \in Int
  OBVIOUS
<1>2. \A i \in (k + 1)..Len(s) : s[i] \in S
  OBVIOUS
<1>3. /\ SubSeq(s, k + 1, Len(s)) \in Seq(S)
      /\ Len(SubSeq(s, k + 1, Len(s))) = IF k + 1 <= Len(s) THEN Len(s) - (k + 1) + 1 ELSE 0
      /\ \A i \in 1..(Len(s) - (k + 1) + 1) :
           SubSeq(s, k + 1, Len(s))[i] = s[(k + 1) + i - 1]
  BY <1>1, <1>2, SubSeqProperties
<1>4. \A i \in 1..(Len(s) - k) : (k + 1) + i - 1 = k + i
  BY <1>1
<1> QED
  BY <1>1, <1>3, <1>4

(* A function on 1..n is a sequence.                                       *)
LEMMA FcnSeq ==
  ASSUME NEW T, NEW n \in Nat, NEW f \in [1..n -> T]
  PROVE  f \in Seq(T) /\ Len(f) = n
OBVIOUS

(* Sequences with the same elements are the same.                          *)
LEMMA SameSeq ==
  ASSUME NEW T, NEW s \in Seq(T), NEW t \in Seq(T), Len(s) = Len(t),
         \A i \in 1..Len(s) : s[i] = t[i]
  PROVE  s = t
OBVIOUS

(* The l elements of a sequence from the a-th on.                          *)
Sliced(r, s, a, l, T) == r \in Seq(T) /\ Len(r) = l /\ \A c \in 1..l : r[c] = s[a + c]

LEMMA Slice ==
  ASSUME NEW T, NEW s \in Seq(T), NEW a \in Nat, NEW l \in Nat, a + l <= Len(s)
  PROVE  Sliced(SubSeq(s, a + 1, a + l), s, a, l, T)
<1> DEFINE m == a + 1
           n == a + l
           r == SubSeq(s, m, n)
<1>1. m \in Int /\ n \in Int /\ n <= Len(s) /\ m >= 1 /\ Len(s) \in Nat
  OBVIOUS
<1>2. n - m + 1 = l /\ (m <= n => l >= 1) /\ (~(m <= n) => l = 0)
      /\ \A c \in 1..l : m + c - 1 = a + c
  OBVIOUS
<1> HIDE DEF m, n
<1>3. \A i \in m..n : s[i] \in T
  BY <1>1
<1>4. /\ r \in Seq(T) /\ Len(r) = (IF m <= n THEN n - m + 1 ELSE 0)
      /\ \A i \in 1..(n - m + 1) : r[i] = s[m + i - 1]
  BY <1>1, <1>3, SubSeqProperties
<1> HIDE DEF r
<1>5. Len(r) = l
  BY <1>2, <1>4
<1>6. \A c \in 1..l : r[c] = s[a + c]
  BY <1>2, <1>4
<1>7. Sliced(r, s, a, l, T)
  BY <1>4, <1>5, <1>6 DEF Sliced
<1> QED
  BY <1>7 DEF r, m, n

(* A sequence without its k-th element.                                    *)
Rem(s, k) == [j \in 1..(Len(s) - 1) |-> IF j < k THEN s[j] ELSE s[j + 1]]

LEMMA CutOut ==
  ASSUME NEW T, NEW s \in Seq(T), NEW k \in 1..Len(s)
  PROVE  /\ SubSeq(s, 1, k - 1) \o SubSeq(s, k + 1, Len(s)) = Rem(s, k)
         /\ Rem(s, k) \in Seq(T) /\ Len(Rem(s, k)) = Len(s) - 1
<1> DEFINE a == SubSeq(s, 1, k - 1)
           b == SubSeq(s, k + 1, Len(s))
<1>1. Sliced(SubSeq(s, 0 + 1, 0 + (k - 1)), s, 0, k - 1, T)
  <2>1. k - 1 \in Nat /\ 0 + (k - 1) <= Len(s)
    OBVIOUS
  <2> QED
    BY <2>1, Slice
<1>2. a \in Seq(T) /\ Len(a) = k - 1 /\ \A j \in 1..(k - 1) : a[j] = s[j]
  BY <1>1 DEF Sliced
<1>3. k \in 0..Len(s)
  OBVIOUS
<1>5. /\ b \in Seq(T) /\ Len(b) = Len(s) - k
      /\ \A j \in 1..(Len(s) - k) : b[j] = s[k + j]
  BY <1>3, WithoutFirst
<1> HIDE DEF a, b
<1>6. Rem(s, k) \in [1..(Len(s) - 1) -> T] /\ Len(s) - 1 \in Nat
  BY DEF Rem
<1>7. Rem(s, k) \in Seq(T) /\ Len(Rem(s, k)) = Len(s) - 1
  BY <1>6, FcnSeq
<1> DEFINE r == a \o b
<1>8. /\ r \in Seq(T) /\ Len(r) = Len(a) + Len(b)
      /\ \A j \in 1..(Len(a) + Len(b)) : r[j] = IF j <= Len(a) THEN a[j] ELSE b[j - Len(a)]
  BY <1>2, <1>5, ConcatProperties
<1> HIDE DEF r
<1>9. Len(s) \in Nat /\ Len(a) + Len(b) = Len(s) - 1
  BY <1>2, <1>5
<1>10. ASSUME NEW j \in 1..(Len(s) - 1) PROVE r[j] = Rem(s, k)[j]
  <2>1. CASE j < k
    BY <2>1, <1>2, <1>8, <1>9 DEF Rem
  <2>2. CASE j >= k
    <3>1. j - (k - 1) \in 1..(Len(s) - k) /\ k + (j - (k - 1)) = j + 1
      BY <2>2
    <3>2. r[j] = b[j - (k - 1)]
      <4>1. Len(a) = k - 1 /\ j \in 1..(Len(a) + Len(b)) /\ ~(j <= Len(a))
        BY <2>2, <1>2, <1>9
      <4> QED
        BY <4>1, <1>8
    <3>3. r[j] = s[j + 1]
      BY <3>1, <3>2, <1>5
    <3> QED
      BY <2>2, <3>3 DEF Rem
  <2> QED
    BY <2>1, <2>2, <1>9
<1>11. r = Rem(s, k)
  BY <1>7, <1>8, <1>9, <1>10, SameSeq
<1> QED
  BY <1>7, <1>11 DEF r, a, b
===============================================================================
