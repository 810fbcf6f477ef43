----------------------------- MODULE OrderFacts -----------------------------
(***************************************************************************)
(* Facts that the proofs of several modules rest on: the least and the     *)
(* largest number of a set, the batches in which a cursor reads the keys   *)
(* of a bucket, and lists of bounded length.                               *)
(***************************************************************************)
EXTENDS Integers, FiniteSets, FiniteSetsExt, FiniteSetTheorems, SequenceTheorems,
        WellFoundedInduction, TLAPS

\* The order of the natural numbers, as a relation.
Less == { ss \in Nat \X Nat : ss[1] < ss[2] }

LEMMA LessIsWellFounded == IsWellFoundedOn(Less, Nat)
BY NatLessThanWellFounded DEF OpToRel, Less

LEMMA LeastOf ==
  ASSUME NEW T \in SUBSET Nat, T # {}
  PROVE  \E m \in T : \A n \in T : m <= n
<1>1. T \subseteq Nat
  OBVIOUS
<1>2. PICK m \in T : \A n \in T : ~ (<<n, m>> \in Less)
  BY WFMin, LessIsWellFounded, <1>1, Zenon
<1>3. \A n \in T : ~ (n < m)
  BY <1>1, <1>2 DEF Less
<1>4. \A n \in T : m <= n
  BY <1>1, <1>3
<1> QED
  BY <1>4

LEMMA MinIsLeast ==
  ASSUME NEW S \in SUBSET Nat, S # {}
  PROVE  Min(S) \in S /\ \A n \in S : Min(S) <= n
BY LeastOf DEF Min

\* The values of a finite sequence of numbers have a bound.
LEMMA BoundOf ==
  ASSUME NEW n \in Nat, NEW h \in [1 .. n -> Nat]
  PROVE  \E u \in Nat : \A j \in 1 .. n : h[j] <= u
<1> DEFINE Bounded(k) == \E u \in Nat : \A j \in 1 .. k : h[j] <= u
           Bad == { k \in 0 .. n : ~ Bounded(k) }
<1>1. Bounded(0)
  OBVIOUS
<1>2. ASSUME NEW k \in 0 .. n, k # 0, Bounded(k - 1)
      PROVE  Bounded(k)
  <2>1. PICK u \in Nat : \A j \in 1 .. k - 1 : h[j] <= u
    BY <1>2
  <2>2. k \in 1 .. n /\ h[k] \in Nat
    BY <1>2
  <2>3. PICK v \in Nat : v >= u /\ v >= h[k]
    <3>1. CASE u >= h[k]
      BY <3>1, <2>2
    <3>2. CASE ~ (u >= h[k])
      BY <3>2, <2>2
    <3> QED
      BY <3>1, <3>2
  <2>4. ASSUME NEW j \in 1 .. k PROVE h[j] <= v
    <3>1. h[j] \in Nat
      BY <2>2, <2>4
    <3>2. CASE j = k
      BY <3>2, <2>2, <2>3
    <3>3. CASE j # k
      <4>1. j \in 1 .. k - 1
        BY <2>4, <3>3, <2>2
      <4> QED
        BY <4>1, <3>1, <2>1, <2>3
    <3> QED
      BY <3>2, <3>3
  <2> QED
    BY <2>4
<1> HIDE DEF Bounded
<1>3. Bad = {}
  <2> SUFFICES ASSUME Bad # {} PROVE FALSE
    OBVIOUS
  <2>1. Bad \in SUBSET Nat
    OBVIOUS
  <2>2. PICK m \in Bad : \A k \in Bad : m <= k
    BY <2>1, LeastOf
  <2>3. m \in 0 .. n /\ ~ Bounded(m)
    BY <2>2
  <2>4. m # 0 /\ m - 1 \in 0 .. n /\ ~ (m <= m - 1)
    BY <2>3, <1>1
  <2>5. Bounded(m - 1)
    BY <2>2, <2>4
  <2> QED
    BY <2>3, <2>4, <2>5, <1>2
<1>4. n \in 0 .. n
  OBVIOUS
<1>5. Bounded(n)
  BY <1>3, <1>4
<1> QED
  BY <1>5 DEF Bounded

\* A finite set of numbers has a largest one.
LEMMA MaxIsLargest ==
  ASSUME NEW S \in SUBSET Nat, IsFiniteSet(S), S # {}
  PROVE  Max(S) \in S /\ \A n \in S : n <= Max(S)
<1>1. PICK n \in Nat : ExistsSurjection(1 .. n, S)
  BY FS_NatSurjection
<1>2. PICK h \in [1 .. n -> S] : \A x \in S : \E k \in 1 .. n : h[k] = x
  BY <1>1 DEF ExistsSurjection, Surjection
<1>3. h \in [1 .. n -> Nat]
  BY <1>2
<1>4. PICK u \in Nat : \A j \in 1 .. n : h[j] <= u
  BY <1>3, BoundOf
<1> DEFINE Bounds == { v \in Nat : \A x \in S : x <= v }
<1>5. Bounds \in SUBSET Nat /\ Bounds # {}
  <2>1. \A x \in S : x <= u
    BY <1>2, <1>4
  <2> QED
    BY <2>1
<1>6. PICK v \in Bounds : \A w \in Bounds : v <= w
  BY <1>5, LeastOf
<1>7. v \in Nat /\ \A x \in S : x \in Nat /\ x <= v
  BY <1>6
<1>8. ASSUME v \notin S PROVE FALSE
  <2>1. \A x \in S : x < v
    BY <1>7, <1>8
  <2>2. v # 0
    <3>1. PICK x \in S : x \in Nat
      BY <1>7
    <3> QED
      BY <3>1, <2>1, <1>7
  <2>3. v - 1 \in Nat /\ \A x \in S : x <= v - 1
    <3>1. ASSUME NEW x \in S PROVE x <= v - 1
      <4>1. x \in Nat /\ x < v
        BY <2>1, <1>7
      <4> QED
        BY <4>1, <1>7
    <3>2. v - 1 \in Nat
      BY <2>2, <1>7
    <3> QED
      BY <3>1, <3>2
  <2>4. v - 1 \in Bounds
    BY <2>3
  <2>5. v <= v - 1
    BY <2>4, <1>6
  <2> QED
    BY <2>5, <1>7
<1>9. \A x \in S : v >= x
  BY <1>7
<1> QED
  BY <1>7, <1>8, <1>9 DEF Max

\* The first n of the keys in S, in key order.
Batch(S, n) == { i \in S : Cardinality({ j \in S : j < i }) < n }

\* A batch leaves nothing out before its last key, and is empty only when no
\* key is left.
LEMMA BatchFacts ==
  ASSUME NEW S \in SUBSET Nat, IsFiniteSet(S), NEW n \in Nat \ {0}
  PROVE  /\ Batch(S, n) \subseteq S /\ IsFiniteSet(Batch(S, n))
         /\ \A i \in S, last \in Batch(S, n) : i <= last => i \in Batch(S, n)
         /\ S # {} => Batch(S, n) # {}
<1> DEFINE Before(j) == { i \in S : i < j }
<1>1. Batch(S, n) \subseteq S /\ IsFiniteSet(Batch(S, n))
  BY FS_Subset DEF Batch
<1>2. \A i \in S : i \in Batch(S, n) <=> Cardinality(Before(i)) < n
  BY DEF Batch
<1>3. \A i \in S : IsFiniteSet(Before(i)) /\ Cardinality(Before(i)) \in Nat
  BY FS_Subset, FS_CardinalityType
<1>4. ASSUME NEW i \in S, NEW last \in Batch(S, n), i <= last
      PROVE  i \in Batch(S, n)
  <2>1. i \in Nat /\ last \in Nat /\ last \in S
    BY <1>1
  <2>2. Before(i) \subseteq Before(last)
    <3>1. ASSUME NEW j \in S, j < i PROVE j < last
      BY <3>1, <2>1, <1>4
    <3> QED
      BY <3>1
  <2>3. Cardinality(Before(i)) <= Cardinality(Before(last))
    BY <2>1, <2>2, <1>3, FS_Subset
  <2>4. Cardinality(Before(last)) < n
    BY <2>1, <1>2
  <2>5. Cardinality(Before(i)) < n
    BY <2>1, <2>3, <2>4, <1>3
  <2> QED
    BY <2>5, <1>2
<1>5. ASSUME S # {} PROVE Batch(S, n) # {}
  <2>1. PICK m \in S : \A k \in S : m <= k
    BY <1>5, LeastOf
  <2>2. Before(m) = {}
    <3>1. ASSUME NEW k \in S PROVE ~ (k < m)
      <4>1. k \in Nat /\ m \in Nat /\ m <= k
        BY <2>1
      <4> QED
        BY <4>1
    <3> QED
      BY <3>1
  <2>3. Cardinality(Before(m)) < n
    BY <2>2, FS_EmptySet
  <2> QED
    BY <2>3, <1>2
<1> QED
  BY <1>1, <1>4, <1>5

\* Where a cursor stands after a batch: the last key of the batch, or where it
\* stood.
LEMMA CursorFacts ==
  ASSUME NEW K \in SUBSET (Nat \ {0}), IsFiniteSet(K), NEW n \in Nat \ {0},
         NEW after \in K \cup {0},
         NEW S \in SUBSET K, S = { i \in S : i > after }
  PROVE  LET last == Max(Batch(S, n) \cup {after})
         IN  /\ last \in K \cup {0} /\ after <= last
             /\ \A i \in S : i <= last => i \in Batch(S, n)
<1> DEFINE ids == Batch(S, n)
           last == Max(ids \cup {after})
<1>0. IsFiniteSet(S)
  BY FS_Subset
<1>1. K \subseteq Nat /\ K \cup {0} \subseteq Nat /\ S \subseteq Nat /\ IsFiniteSet(S)
  BY <1>0
<1>2. ids \subseteq S /\ IsFiniteSet(ids)
  BY <1>1, BatchFacts
<1>3. ids \cup {after} \in SUBSET Nat /\ IsFiniteSet(ids \cup {after}) /\ ids \cup {after} # {}
  <2>1. ids \subseteq Nat /\ after \in Nat
    BY <1>1, <1>2
  <2> HIDE DEF ids
  <2>2. IsFiniteSet(ids \cup {after})
    BY <1>2, FS_AddElement
  <2> QED
    BY <2>1, <2>2
<1>4. last \in ids \cup {after} /\ \A i \in ids \cup {after} : i <= last
  BY <1>3, MaxIsLargest
<1> HIDE DEF last
<1>5. ASSUME NEW i \in S, i <= last PROVE i \in ids
  <2>1. i \in Nat /\ after \in Nat /\ i > after
    BY <1>1
  <2>2. last # after
    BY <2>1, <1>5
  <2>3. last \in ids
    BY <2>2, <1>4
  <2> QED
    BY <2>3, <1>1, <1>5, BatchFacts
<1>6. last \in K \cup {0}
  BY <1>2, <1>4
<1>7. after <= last
  BY <1>4
<1> QED
  BY <1>5, <1>6, <1>7 DEF last

-----------------------------------------------------------------------------
\* A list of bounded length is a sequence of at most that length.
LEMMA BoundedLists ==
  ASSUME NEW S, NEW bound \in Nat, NEW s
  PROVE  s \in UNION {[1..n -> S] : n \in 0..bound} <=> s \in Seq(S) /\ Len(s) <= bound
<1>1. ASSUME s \in UNION {[1..n -> S] : n \in 0..bound} PROVE s \in Seq(S) /\ Len(s) <= bound
  <2>1. PICK n \in 0..bound : s \in [1..n -> S]
    BY <1>1
  <2>2. s \in Seq(S)
    BY <2>1, SeqDef
  <2>3. Len(s) \in Nat /\ 1..Len(s) = 1..n
    BY <2>1, <2>2, LenProperties
  <2>4. QED
    BY <2>1, <2>2, <2>3
<1>2. ASSUME s \in Seq(S), Len(s) <= bound PROVE s \in UNION {[1..n -> S] : n \in 0..bound}
  BY <1>2, LenProperties
<1>3. QED
  BY <1>1, <1>2
=============================================================================
