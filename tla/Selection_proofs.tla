-------------------------- MODULE Selection_proofs --------------------------
(***************************************************************************)
(* What the filtering loops of the code keep: for every list and every set *)
(* of elements to keep.                                                    *)
(***************************************************************************)
EXTENDS Selection, SequenceTheorems, FiniteSetTheorems, TLAPS

(* The ranks of the places of a list number them from 1 in their order.    *)
LEMMA RankProperties ==
  ASSUME NEW n \in Nat, NEW P \in SUBSET (1..n)
  PROVE  /\ IsFiniteSet(P) /\ Cardinality(P) \in Nat
         /\ \A i \in P : Rank(P, i) \in 1..Cardinality(P)
         /\ \A i, j \in P : i < j => Rank(P, i) < Rank(P, j)
<1> DEFINE Up(i) == {j \in P : j <= i}
<1>1. IsFiniteSet(P) /\ Cardinality(P) \in Nat
  <2>1. IsFiniteSet(1..n)
    BY FS_Interval
  <2>2. IsFiniteSet(P)
    BY <2>1, FS_Subset
  <2>3. QED
    BY <2>2, FS_CardinalityType
<1>2. ASSUME NEW i \in P
      PROVE  /\ IsFiniteSet(Up(i)) /\ Up(i) \in SUBSET P
             /\ Rank(P, i) = Cardinality(Up(i)) /\ Rank(P, i) \in 1..Cardinality(P)
  <2>1. Up(i) \in SUBSET P /\ i \in Up(i)
    OBVIOUS
  <2>2. IsFiniteSet(Up(i)) /\ Cardinality(Up(i)) <= Cardinality(P)
    BY <1>1, <2>1, FS_Subset
  <2>3. Cardinality(Up(i)) \in Nat /\ Cardinality(Up(i)) # 0
    BY <2>1, <2>2, FS_CardinalityType, FS_EmptySet
  <2>4. Rank(P, i) = Cardinality(Up(i))
    BY DEF Rank
  <2>5. QED
    BY <1>1, <2>1, <2>2, <2>3, <2>4
<1>3. ASSUME NEW i \in P, NEW j \in P, i < j
      PROVE  Rank(P, i) < Rank(P, j)
  <2>1. Up(i) \in SUBSET Up(j) /\ j \in Up(j) /\ j \notin Up(i)
    <3>1. \A m \in P : m \in Nat
      OBVIOUS
    <3>2. \A m \in P : m <= i => m <= j
      BY <1>3, <3>1
    <3>3. j <= j /\ ~(j <= i)
      BY <1>3, <3>1
    <3>4. QED
      BY <3>2, <3>3
  <2>2. Up(i) # Up(j)
    BY <2>1
  <2>3. Cardinality(Up(i)) <= Cardinality(Up(j)) /\ Cardinality(Up(j)) # Cardinality(Up(i))
    <3>1. IsFiniteSet(Up(j))
      BY <1>2
    <3> HIDE DEF Up
    <3>2. QED
      BY <2>1, <2>2, <3>1, FS_Subset
  <2>4. QED
    BY <1>2, <2>3
<1>4. QED
  BY <1>1, <1>2, <1>3

(* Every rank is that of one place.                                        *)
LEMMA RankOnto ==
  ASSUME NEW n \in Nat, NEW P \in SUBSET (1..n)
  PROVE  \A k \in 1..Cardinality(P) : \E i \in P : Rank(P, i) = k
<1> DEFINE T == 1..Cardinality(P)
           rank == [i \in P |-> Rank(P, i)]
<1>1. rank \in [P -> T] /\ Cardinality(P) \in Nat /\ IsFiniteSet(P)
  BY RankProperties
<1>2. \A i, j \in P : rank[i] = rank[j] => i = j
  <2> SUFFICES ASSUME NEW i \in P, NEW j \in P, i # j
               PROVE  rank[i] # rank[j]
    OBVIOUS
  <2>1. i < j \/ j < i
    OBVIOUS
  <2>2. Rank(P, i) \in Nat /\ Rank(P, j) \in Nat
    <3>1. Rank(P, i) \in 1..Cardinality(P) /\ Rank(P, j) \in 1..Cardinality(P)
      BY RankProperties
    <3>2. QED
      BY <3>1
  <2>3. Rank(P, i) < Rank(P, j) \/ Rank(P, j) < Rank(P, i)
    BY <2>1, RankProperties
  <2>4. QED
    BY <2>2, <2>3
<1>3. rank \in Injection(P, T)
  <2> HIDE DEF T
  <2>1. QED
    BY <1>1, <1>2 DEF Injection, IsInjective
<1>4. IsFiniteSet(T) /\ Cardinality(T) = Cardinality(P)
  <2>1. ASSUME NEW c \in Nat PROVE IsFiniteSet(1..c) /\ Cardinality(1..c) = c
    <3>1. 1 \in Int /\ c \in Int /\ (IF 1 > c THEN 0 ELSE c - 1 + 1) = c
      OBVIOUS
    <3>2. QED
      BY <3>1, FS_Interval
  <2>2. QED
    BY <1>1, <2>1
<1>5. rank \in Surjection(P, T)
  <2> HIDE DEF T, rank
  <2>1. QED
    BY <1>3, <1>4, FS_Injection
<1>6. QED
  BY <1>5 DEF Surjection

(* The place from which the k-th element was copied.                       *)
From(s, keep) == [k \in 1..Cardinality(Places(s, keep)) |->
  CHOOSE i \in Places(s, keep) : Rank(Places(s, keep), i) = k]

(* The places copied from go up through all the places to keep.            *)
THEOREM SelectedFrom ==
  ASSUME NEW S, NEW s \in Seq(S), NEW keep
  PROVE  /\ Selected(s, keep) \in Seq(S)
         /\ From(s, keep) \in [DOMAIN Selected(s, keep) -> DOMAIN s]
         /\ \A k \in DOMAIN Selected(s, keep) :
              /\ Selected(s, keep)[k] = s[From(s, keep)[k]]
              /\ Selected(s, keep)[k] \in keep
         /\ \A k, l \in DOMAIN Selected(s, keep) :
              k < l <=> From(s, keep)[k] < From(s, keep)[l]
         /\ \A i \in DOMAIN s : s[i] \in keep =>
              \E k \in DOMAIN Selected(s, keep) : From(s, keep)[k] = i
<1> DEFINE P == Places(s, keep)
           n == Cardinality(P)
           t == Selected(s, keep)
           from == From(s, keep)
<1>1. Len(s) \in Nat /\ DOMAIN s = 1..Len(s) /\ \A i \in 1..Len(s) : s[i] \in S
  OBVIOUS
<1>2. P \in SUBSET (1..Len(s)) /\ \A i \in DOMAIN s : i \in P <=> s[i] \in keep
  BY <1>1 DEF Places
<1>3. /\ n \in Nat
      /\ \A i \in P : Rank(P, i) \in 1..n
      /\ \A i, j \in P : i < j => Rank(P, i) < Rank(P, j)
      /\ \A k \in 1..n : \E i \in P : Rank(P, i) = k
  <2> HIDE DEF P
  <2>1. QED
    BY <1>1, <1>2, RankProperties, RankOnto
<1>4. /\ t = [k \in 1..n |-> s[from[k]]]
      /\ \A k \in 1..n : from[k] = CHOOSE i \in P : Rank(P, i) = k
  BY DEF Selected, From
<1>5. \A k \in 1..n : from[k] \in P /\ Rank(P, from[k]) = k
  <2> HIDE DEF P, n, from
  <2>1. QED
    BY <1>3, <1>4
<1>6. from \in [1..n -> DOMAIN s] /\ DOMAIN t = 1..n
  <2>1. from = [k \in 1..n |-> from[k]]
    BY DEF From
  <2> HIDE DEF P, n, from, t
  <2>2. QED
    BY <1>1, <1>2, <1>4, <1>5, <2>1
<1> HIDE DEF P, n, from, t
<1>7. t \in Seq(S)
  <2>1. \A k \in 1..n : s[from[k]] \in S
    BY <1>1, <1>2, <1>5
  <2>2. t \in [1..n -> S]
    BY <1>4, <2>1
  <2>3. QED
    BY <1>3, <2>2, SeqDef
<1>8. \A k, l \in 1..n : k < l <=> from[k] < from[l]
  <2> SUFFICES ASSUME NEW k \in 1..n, NEW l \in 1..n
               PROVE  k < l <=> from[k] < from[l]
    OBVIOUS
  <2>1. from[k] \in Nat /\ from[l] \in Nat
    <3>1. from[k] \in 1..Len(s) /\ from[l] \in 1..Len(s)
      BY <1>2, <1>5
    <3>2. QED
      BY <3>1
  <2>2. from[k] < from[l] => k < l
    BY <1>3, <1>5
  <2>3. from[l] < from[k] => l < k
    BY <1>3, <1>5
  <2>4. from[k] = from[l] => k = l
    BY <1>5
  <2>5. QED
    BY <1>3, <2>1, <2>2, <2>3, <2>4
<1>9. \A i \in DOMAIN s : s[i] \in keep => \E k \in 1..n : from[k] = i
  <2> SUFFICES ASSUME NEW i \in DOMAIN s, s[i] \in keep
               PROVE  \E k \in 1..n : from[k] = i
    OBVIOUS
  <2>1. i \in P /\ Rank(P, i) \in 1..n
    BY <1>2, <1>3
  <2>2. PICK k \in 1..n : k = Rank(P, i)
    BY <2>1
  <2>3. from[k] \in P /\ Rank(P, from[k]) = Rank(P, i)
    BY <1>5, <2>2
  <2>4. from[k] \in Nat /\ i \in Nat
    BY <1>1, <1>2, <2>1, <2>3
  <2>5. ~(from[k] < i) /\ ~(i < from[k])
    BY <1>3, <2>1, <2>3
  <2>6. QED
    BY <2>4, <2>5
<1>10. \A k \in 1..n : t[k] = s[from[k]] /\ t[k] \in keep
  BY <1>1, <1>2, <1>4, <1>5
<1>11. QED
  BY <1>6, <1>7, <1>8, <1>9, <1>10 DEF P, n, from, t

(* Nothing is added.                                                       *)
LEMMA SelectedLength ==
  ASSUME NEW S, NEW s \in Seq(S), NEW keep
  PROVE  Len(Selected(s, keep)) <= Len(s)
<1> DEFINE P == Places(s, keep)
<1>1. Len(s) \in Nat /\ DOMAIN s = 1..Len(s) /\ P \subseteq 1..Len(s)
  BY DEF Places
<1>2. IsFiniteSet(1..Len(s)) /\ Cardinality(1..Len(s)) = Len(s)
  <2>1. \A n \in Nat : IsFiniteSet(1..n) /\ Cardinality(1..n) = n
    <3> TAKE n \in Nat
    <3>1. /\ IsFiniteSet(1..n)
          /\ Cardinality(1..n) = IF 1 > n THEN 0 ELSE n - 1 + 1
      BY FS_Interval
    <3>2. QED
      BY <3>1
  <2>2. QED
    BY <1>1, <2>1
<1>3. Cardinality(P) \in Nat /\ Cardinality(P) <= Len(s)
  <2>1. IsFiniteSet(P) /\ Cardinality(P) <= Cardinality(1..Len(s))
    BY <1>1, <1>2, FS_Subset
  <2>2. QED
    BY <1>2, <2>1, FS_CardinalityType
<1>4. Selected(s, keep) =
        [k \in 1..Cardinality(P) |-> s[CHOOSE i \in P : Rank(P, i) = k]]
  BY DEF Selected
<1> HIDE DEF P
<1>5. Len(Selected(s, keep)) = Cardinality(P)
  <2> DEFINE f == [k \in 1..Cardinality(P) |-> s[CHOOSE i \in P : Rank(P, i) = k]]
  <2>1. DOMAIN f = 1..Cardinality(P)
    OBVIOUS
  <2> HIDE DEF f
  <2>2. Len(f) = Cardinality(P)
    BY <1>3, <2>1, LenProperties
  <2>3. QED
    BY <1>4, <2>2 DEF f
<1>6. QED
  BY <1>3, <1>5
=============================================================================
