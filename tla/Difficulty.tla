----------------------------- MODULE Difficulty ------------------------------
(***************************************************************************)
(* The difficulty of the next block on a chain, and the target of its      *)
(* proof of work.  A block is [num, timestamp, difficulty] here; num is    *)
(* the number it claims, which no node checks.  The genesis block, number  *)
(* 0, is the first of a chain.                                             *)
(*                                                                         *)
(* A difficulty, a float in the code, is a number of 1/Unit here, rounded  *)
(* down: exact while windows are clamped, and at most what the code has    *)
(* otherwise.                                                              *)
(***************************************************************************)
EXTENDS Integers, Sequences

InitialDifficulty          == 512
DifficultyAdjustInterval   == 5
MaxDifficultyAdjustFactor  == 4
ExpectedMiningSpeedSeconds == 16

Unit         == 64
ExpectedTime == ExpectedMiningSpeedSeconds * DifficultyAdjustInterval

\* Faulty variants, for the mutation runs: a window is not clamped; it is a
\* block short.
AdjustedUnclamped(prev, actual) ==
  IF actual <= 0 THEN prev ELSE (prev * ExpectedTime) \div actual
WindowShort(chain) ==
  IF Len(chain) < DifficultyAdjustInterval - 1 THEN chain[1]
  ELSE chain[Len(chain) - DifficultyAdjustInterval + 2]

(* expected over actual time, clamped, times the previous difficulty.  A   *)
(* negative time, of clocks that differ, is clamped like a long one.       *)
Adjusted(prev, actual) ==
  IF actual = 0 THEN prev
  ELSE IF actual < 0 \/ actual >= MaxDifficultyAdjustFactor * ExpectedTime
  THEN prev \div MaxDifficultyAdjustFactor
  ELSE IF MaxDifficultyAdjustFactor * actual <= ExpectedTime
  THEN prev * MaxDifficultyAdjustFactor
  ELSE (prev * ExpectedTime) \div actual

(* The iterator goes back from the last block, and stops at the genesis    *)
(* block: a peer may claim the number of a longer chain.                   *)
WindowStart(chain) ==
  IF Len(chain) < DifficultyAdjustInterval THEN chain[1]
  ELSE chain[Len(chain) - DifficultyAdjustInterval + 1]

Adjusting(num) == num # 1 /\ (num - 1) % DifficultyAdjustInterval = 0

AdjustDifficulty(chain, timestamp, num) ==
  LET prev == chain[Len(chain)].difficulty
  IN  IF ~Adjusting(num) THEN prev
      ELSE Adjusted(prev, timestamp - WindowStart(chain).timestamp)

(* NewProof divides 2^256 by the difficulty, as an integer.                *)
Divisor(difficulty) == difficulty \div Unit

FirstBlock == [num |-> 0, timestamp |-> 0, difficulty |-> InitialDifficulty * Unit]

(* What Put asks of each block of a peer, and a miner gives its own: the   *)
(* difficulty that follows from the blocks below and the number claimed.   *)
Adjusts(chain) == \A n \in DOMAIN chain \ {1} :
  chain[n].difficulty =
    AdjustDifficulty(SubSeq(chain, 1, n - 1), chain[n].timestamp, chain[n].num)

(* The chain of blocks that claim these numbers, with these times between. *)
Claiming(nums, gaps) ==
  LET chain[n \in 0..Len(gaps)] ==
        IF n = 0 THEN <<FirstBlock>>
        ELSE LET prev == chain[n - 1]
                 now  == prev[n].timestamp + gaps[n]
             IN  Append(prev, [num        |-> nums[n],
                               timestamp  |-> now,
                               difficulty |-> AdjustDifficulty(prev, now, nums[n])])
  IN  chain[Len(gaps)]

(* Miners number a block one above its parent.                             *)
Mined(gaps) == Claiming([n \in DOMAIN gaps |-> n], gaps)

-----------------------------------------------------------------------------
(* The time that counts is that of the last five blocks: the difficulty of *)
(* block 6 is to the first one as the expected time to their time, however *)
(* it is spread over them, and whatever came before.  (Three of the times  *)
(* that divide evenly and are not clamped.)                                *)
WindowMeasured ==
  \A first \in {1, 100}, gaps \in [1..5 -> {1, 8, 16, 32}] :
    LET time == gaps[1] + gaps[2] + gaps[3] + gaps[4] + gaps[5]
    IN  time \in {40, 80, 160} =>
          Mined(<<first>> \o gaps)[7].difficulty * time = FirstBlock.difficulty * ExpectedTime

(* Proof of work needs a divisor that is not 0.  Four adjustments cannot   *)
(* lead to 0, however slow the windows, and however wrong the clocks: on   *)
(* rightly numbered blocks, none before number 26 can end the process of a *)
(* node that looks at it.  Five windows of 64 seconds a block do lead to   *)
(* 0, so 26 is exact; and so do five blocks that all claim number 6.       *)
Gaps == {-3, 0, 1, 16, 40, 64, 1000}

Paced(windows) ==
  Mined([n \in 1..(DifficultyAdjustInterval * Len(windows) + 1) |->
           IF n = 1 THEN 1 ELSE windows[((n - 2) \div DifficultyAdjustInterval) + 1]])

TargetLasts ==
  /\ \A windows \in [1..4 -> Gaps] : LET chain == Paced(windows) IN
       \A n \in DOMAIN chain : Divisor(chain[n].difficulty) # 0
  /\ Divisor(Paced(<<64, 64, 64, 64, 64>>)[27].difficulty) = 0
  /\ Divisor(Claiming(<<6, 6, 6, 6, 6>>, <<320, 320, 320, 320, 320>>)[6].difficulty) = 0
=============================================================================
