-------------------------- MODULE Difficulty_proofs --------------------------
(***************************************************************************)
(* The bounds of the difficulty, for every time between blocks.            *)
(***************************************************************************)
EXTENDS Difficulty, FiniteSetTheorems, WellFoundedInduction, TLAPS

LEMMA DivUnique ==
  ASSUME NEW a \in Nat, NEW b \in Nat \ {0}
  PROVE  LET q == a \div b IN /\ q \in Nat
                              /\ q * b <= a
                              /\ a < (q + 1) * b
  OBVIOUS

(* One adjustment divides or multiplies a difficulty by at most four,      *)
(* whatever the clocks say: _AdjustDifficulty clamps the factor.           *)
THEOREM AdjustedBounds ==
  ASSUME NEW prev \in Nat, NEW actual \in Int
  PROVE  /\ Adjusted(prev, actual) \in Nat
         /\ Adjusted(prev, actual) >= prev \div MaxDifficultyAdjustFactor
         /\ Adjusted(prev, actual) <= prev * MaxDifficultyAdjustFactor
<1> USE DEF MaxDifficultyAdjustFactor, ExpectedTime, ExpectedMiningSpeedSeconds,
            DifficultyAdjustInterval
<1> DEFINE low == prev \div 4
<1>1. low \in Nat /\ low * 4 <= prev
  BY DivUnique
<1>2. CASE actual = 0
  BY <1>1, <1>2 DEF Adjusted
<1>3. CASE actual # 0 /\ (actual < 0 \/ actual >= 320)
  BY <1>1, <1>3 DEF Adjusted
<1>4. CASE actual > 0 /\ 4 * actual <= 80
  BY <1>1, <1>4 DEF Adjusted
<1>5. CASE actual < 320 /\ 4 * actual > 80
  <2> DEFINE q == (prev * 80) \div actual
  <2>1. Adjusted(prev, actual) = q
    BY <1>5 DEF Adjusted
  <2>2. q \in Nat /\ q * actual <= prev * 80 /\ prev * 80 < (q + 1) * actual
    BY <1>5, DivUnique
  <2>3. q >= low
    <3>1. low * actual <= low * 320
      BY <1>1, <1>5
    <3>2. low * actual < (q + 1) * actual
      BY <1>1, <1>5, <2>2, <3>1
    <3> HIDE DEF low, q
    <3>3. ~(low >= q + 1)
      <4> SUFFICES ASSUME low >= q + 1 PROVE FALSE
        OBVIOUS
      <4>1. low * actual >= (q + 1) * actual
        BY <1>1, <1>5, <2>2
      <4> QED BY <3>2, <4>1, <1>1, <1>5, <2>2
    <3> QED BY <3>3, <1>1, <2>2
  <2>4. q <= prev * 4
    <3> HIDE DEF q
    <3>1. q * 20 <= q * actual
      BY <1>5, <2>2
    <3> QED BY <3>1, <2>2
  <2> QED BY <2>1, <2>2, <2>3, <2>4
<1> QED BY <1>2, <1>3, <1>4, <1>5

-----------------------------------------------------------------------------
Blocks == [num : Nat, timestamp : Int, difficulty : Nat]

(* A block keeps the difficulty of the one below it, unless the number it  *)
(* claims adjusts: then it has a quarter of that or more.                  *)
LEMMA OneBlock ==
  ASSUME NEW chain \in Seq(Blocks), Adjusts(chain),
         NEW n \in 2..Len(chain)
  PROVE  IF Adjusting(chain[n].num)
         THEN chain[n].difficulty >= chain[n - 1].difficulty \div 4
         ELSE chain[n].difficulty = chain[n - 1].difficulty
<1> DEFINE below == SubSeq(chain, 1, n - 1)
<1>1. /\ below \in Seq(Blocks)
      /\ Len(below) = n - 1
      /\ \A k \in 1..(n - 1) : below[k] = chain[k]
  OBVIOUS
<1>2. chain[n].difficulty = AdjustDifficulty(below, chain[n].timestamp, chain[n].num)
  BY DEF Adjusts
<1>3. chain[n] \in Blocks /\ chain[n - 1] \in Blocks
  OBVIOUS
<1> HIDE DEF below
<1>4. CASE ~Adjusting(chain[n].num)
  BY <1>1, <1>2, <1>4 DEF AdjustDifficulty
<1>5. CASE Adjusting(chain[n].num)
  <2> DEFINE actual == chain[n].timestamp - WindowStart(below).timestamp
  <2>1. PICK k \in 1..Len(below) : WindowStart(below) = below[k]
    BY <1>1 DEF WindowStart, DifficultyAdjustInterval
  <2>2. actual \in Int
    <3>1. WindowStart(below) \in Blocks
      BY <1>1, <2>1
    <3>2. WindowStart(below).timestamp \in Int
      BY <3>1 DEF Blocks
    <3>3. chain[n].timestamp \in Int
      BY <1>3 DEF Blocks
    <3> QED BY <3>2, <3>3
  <2>3. chain[n].difficulty = Adjusted(chain[n - 1].difficulty, actual)
    BY <1>1, <1>2, <1>5 DEF AdjustDifficulty
  <2>4. chain[n - 1].difficulty \in Nat
    BY <1>3 DEF Blocks
  <2> HIDE DEF actual
  <2> QED BY <1>5, <2>2, <2>3, <2>4, AdjustedBounds DEF MaxDifficultyAdjustFactor
<1> QED BY <1>4, <1>5

(* The blocks of a chain up to place n whose claimed number adjusts.       *)
Adjustments(chain, n) == {k \in 2..n : Adjusting(chain[k].num)}

LEMMA AdjustmentsStep ==
  ASSUME NEW chain, NEW n \in Nat, n >= 2
  PROVE  /\ IsFiniteSet(Adjustments(chain, n - 1))
         /\ Cardinality(Adjustments(chain, n - 1)) \in Nat
         /\ Cardinality(Adjustments(chain, n)) =
              IF Adjusting(chain[n].num) THEN Cardinality(Adjustments(chain, n - 1)) + 1
              ELSE Cardinality(Adjustments(chain, n - 1))
<1> DEFINE S == Adjustments(chain, n - 1)
<1>1. IsFiniteSet(S)
  <2>1. S \in SUBSET (2..(n - 1)) /\ IsFiniteSet(2..(n - 1))
    BY FS_Interval DEF Adjustments
  <2> QED BY <2>1, FS_Subset
<1>2. Cardinality(S) \in Nat
  BY <1>1, FS_CardinalityType
<1>3. n \notin S
  BY DEF Adjustments
<1>4. Adjustments(chain, n) = IF Adjusting(chain[n].num) THEN S \cup {n} ELSE S
  BY DEF Adjustments
<1> HIDE DEF S
<1>5. Cardinality(S \cup {n}) = Cardinality(S) + 1
  BY <1>1, <1>3, FS_AddElement
<1>6. QED
  BY <1>1, <1>2, <1>4, <1>5 DEF S

LEMMA Smallest ==
  ASSUME NEW T, T \subseteq Nat, T # {}
  PROVE  \E x \in T : \A y \in T : x <= y
<1>1. PICK x \in T : \A y \in T : ~(<<y, x>> \in OpToRel(<, Nat))
  BY NatLessThanWellFounded, WFMin
<1>2. \A y \in T : ~(y < x)
  BY <1>1 DEF OpToRel
<1>3. QED
  BY <1>2

(* What is left of 512 * 64 after k adjustments, each down by four.        *)
AtLeast(difficulty, k) == /\ k = 0 => difficulty >= 32768
                          /\ k = 1 => difficulty >= 8192
                          /\ k = 2 => difficulty >= 2048
                          /\ k = 3 => difficulty >= 512
                          /\ k = 4 => difficulty >= 128

LEMMA AdjustmentsLeave ==
  ASSUME NEW chain \in Seq(Blocks), Adjusts(chain), chain[1] = FirstBlock,
         NEW n \in 1..Len(chain)
  PROVE  AtLeast(chain[n].difficulty, Cardinality(Adjustments(chain, n)))
<1> DEFINE Kept(k) == AtLeast(chain[k].difficulty, Cardinality(Adjustments(chain, k)))
           lost == {k \in 1..Len(chain) : ~Kept(k)}
<1>1. SUFFICES ASSUME lost # {}
               PROVE  FALSE
  OBVIOUS
<1>2. PICK k \in lost : \A l \in lost : k <= l
  <2>1. lost \subseteq Nat
    OBVIOUS
  <2> HIDE DEF lost
  <2> QED BY <1>1, <2>1, Smallest
<1>3. \A l \in 1..Len(chain) : chain[l].difficulty \in Nat
  <2>1. \A l \in 1..Len(chain) : chain[l] \in Blocks
    OBVIOUS
  <2> QED BY <2>1 DEF Blocks
<1>4. CASE k = 1
  <2>1. chain[1].difficulty = 32768
    BY DEF FirstBlock, InitialDifficulty, Unit
  <2>2. Adjustments(chain, 1) = {}
    BY DEF Adjustments
  <2>3. Cardinality(Adjustments(chain, 1)) = 0
    BY <2>2, FS_EmptySet
  <2> QED BY <1>2, <1>4, <2>1, <2>3 DEF AtLeast
<1>5. CASE k # 1
  <2> DEFINE a == Cardinality(Adjustments(chain, k - 1))
             b == Cardinality(Adjustments(chain, k))
             d == chain[k - 1].difficulty
             e == chain[k].difficulty
  <2>1. /\ k \in 2..Len(chain) /\ k - 1 \in 1..Len(chain)
        /\ k - 1 \notin lost
    BY <1>2, <1>5
  <2>2. AtLeast(d, a)
    BY <2>1
  <2>3. d \in Nat /\ e \in Nat
    BY <1>3, <2>1
  <2>4. a \in Nat /\ b = IF Adjusting(chain[k].num) THEN a + 1 ELSE a
    BY <2>1, AdjustmentsStep
  <2>5. IF Adjusting(chain[k].num) THEN e >= d \div 4 ELSE e = d
    BY <2>1, OneBlock
  <2> HIDE DEF a, b, d, e
  <2>6. AtLeast(e, b)
    BY <2>2, <2>3, <2>4, <2>5 DEF AtLeast
  <2> QED BY <1>2, <2>6 DEF b, e
<1>6. QED
  BY <1>4, <1>5

(* A chain from the first block that any node accepts has no block that    *)
(* NewProof cannot divide by, while no more than four of its blocks claim  *)
(* a number that adjusts, whatever the timestamps are.                     *)
THEOREM DifficultyLasts ==
  ASSUME NEW chain \in Seq(Blocks), Adjusts(chain), chain[1] = FirstBlock,
         NEW n \in 1..Len(chain),
         Cardinality(Adjustments(chain, n)) <= 4
  PROVE  Divisor(chain[n].difficulty) >= 1
<1> DEFINE a == Cardinality(Adjustments(chain, n))
           d == chain[n].difficulty
<1>1. AtLeast(d, a)
  BY AdjustmentsLeave
<1>2. d \in Nat
  <2>1. chain[n] \in Blocks
    OBVIOUS
  <2> QED BY <2>1 DEF Blocks
<1>3. a \in Nat
  <2>1. Adjustments(chain, n) \in SUBSET (2..n) /\ IsFiniteSet(2..n)
    BY FS_Interval DEF Adjustments
  <2> QED BY <2>1, FS_Subset, FS_CardinalityType
<1> HIDE DEF a, d
<1>4. a = 0 \/ a = 1 \/ a = 2 \/ a = 3 \/ a = 4
  BY <1>3 DEF a
<1>5. d >= 128
  BY <1>1, <1>2, <1>4 DEF AtLeast
<1>6. d \div 64 >= 1
  BY <1>2, <1>5
<1>7. QED
  BY <1>6 DEF d, Divisor, Unit

LEMMA FifthNumbers ==
  ASSUME NEW x \in 1..24, x % 5 = 0
  PROVE  x \in {5, 10, 15, 20}
<1>1. x = 5 * (x \div 5) + (x % 5) /\ x \div 5 \in Int
  OBVIOUS
<1>2. PICK i \in Int : x = 5 * i
  BY <1>1
<1>3. i = 1 \/ i = 2 \/ i = 3 \/ i = 4
  BY <1>2
<1>4. QED
  BY <1>2, <1>3

(* On a rightly numbered chain that is so before block number 26 (place    *)
(* 27): blocks 6, 11, 16 and 21 adjust.                                    *)
THEOREM DifficultyLastsNumbered ==
  ASSUME NEW chain \in Seq(Blocks), Adjusts(chain), chain[1] = FirstBlock,
         \A k \in 1..Len(chain) : chain[k].num = k - 1,
         NEW n \in 1..Len(chain), n <= 26
  PROVE  Divisor(chain[n].difficulty) >= 1
<1> DEFINE four == 1..4
           place == [i \in four |-> 5 * i + 2]
           places == {7, 12, 17, 22}
<1>1. Adjustments(chain, n) \in SUBSET places
  <2>1. SUFFICES ASSUME NEW k \in 2..n, Adjusting(chain[k].num)
                 PROVE  k \in places
    BY DEF Adjustments
  <2>2. k - 1 # 1 /\ (k - 1 - 1) % 5 = 0
    BY <2>1 DEF Adjusting, DifficultyAdjustInterval
  <2>3. k - 2 \in 1..24 /\ (k - 2) % 5 = 0
    BY <2>1, <2>2
  <2>4. k - 2 \in {5, 10, 15, 20}
    BY <2>3, FifthNumbers
  <2> QED BY <2>4
<1>2. IsFiniteSet(places) /\ Cardinality(places) <= 4
  <2>1. IsFiniteSet(four) /\ Cardinality(four) = 4
    <3>1. 1 \in Int /\ 4 \in Int
      OBVIOUS
    <3>2. IsFiniteSet(1..4)
      BY <3>1, FS_Interval
    <3>3. Cardinality(1..4) = IF 1 > 4 THEN 0 ELSE 4 - 1 + 1
      BY <3>1, FS_Interval
    <3> QED BY <3>2, <3>3
  <2>2. place \in Surjection(four, places)
    BY DEF Surjection
  <2> HIDE DEF four, place, places
  <2> QED BY <2>1, <2>2, FS_Surjection
<1>3. Cardinality(Adjustments(chain, n)) <= 4
  <2> HIDE DEF places
  <2>1. /\ IsFiniteSet(Adjustments(chain, n))
        /\ Cardinality(Adjustments(chain, n)) <= Cardinality(places)
    BY <1>1, <1>2, FS_Subset
  <2>2. Cardinality(places) \in Nat /\ Cardinality(Adjustments(chain, n)) \in Nat
    BY <1>2, <2>1, FS_CardinalityType
  <2> QED BY <1>2, <2>1, <2>2
<1>4. QED
  BY <1>3, DifficultyLasts
=============================================================================
