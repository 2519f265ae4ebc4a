-------------------------- MODULE BlockChain_proofs -------------------------
(***************************************************************************)
(* Theorems about the block store, for every set of transactions, miners   *)
(* and payloads, every number of confirmations and every bound.            *)
(***************************************************************************)
EXTENDS BlockChain, TLAPS

-----------------------------------------------------------------------------
(* Sequences.                                                              *)

LEMMA AppendFacts ==
  ASSUME NEW S, NEW s \in Seq(S), NEW e \in S
  PROVE  /\ Append(s, e) \in Seq(S)
         /\ Len(Append(s, e)) = Len(s) + 1
         /\ Len(s) \in Nat
         /\ Append(s, e) # << >>
         /\ Append(s, e)[Len(s) + 1] = e
         /\ \A n \in 1..Len(s) : Append(s, e)[n] = s[n]
         /\ SubSeq(Append(s, e), 1, Len(s)) = s
<1>1. /\ Append(s, e) \in Seq(S)
      /\ Len(Append(s, e)) = Len(s) + 1
      /\ Len(s) \in Nat
      /\ Append(s, e)[Len(s) + 1] = e
      /\ \A n \in 1..Len(s) : Append(s, e)[n] = s[n]
  OBVIOUS
<1>2. Append(s, e) # << >>
  BY <1>1
<1>3. SubSeq(Append(s, e), 1, Len(s)) = s
  BY <1>1
<1>4. QED
  BY <1>1, <1>2, <1>3

LEMMA PrefixFacts ==
  ASSUME NEW S, NEW s \in Seq(S), NEW n \in 0..Len(s)
  PROVE  /\ SubSeq(s, 1, n) \in Seq(S)
         /\ Len(SubSeq(s, 1, n)) = n
         /\ \A k \in 1..n : SubSeq(s, 1, n)[k] = s[k]
OBVIOUS

(* A block put on prev adds its own successes to the past of prev.         *)
LEMMA PastAppend ==
  ASSUME NEW prev \in Chain, NEW b \in Block
  PROVE  Past(Append(prev, b))
           = Past(prev) \cup Entries(Len(prev) + 1, b.num, b.txns, Success(b))
<1> DEFINE h == Append(prev, b)
           E(c, n) == Entries(n, c[n].num, c[n].txns, Success(c[n]))
<1>1. DOMAIN h = DOMAIN prev \cup {Len(prev) + 1}
  BY AppendFacts DEF Chain
<1>2. \A n \in DOMAIN prev : h[n] = prev[n]
  BY AppendFacts DEF Chain
<1>3. h[Len(prev) + 1] = b
  BY AppendFacts DEF Chain
<1>4. \A n \in DOMAIN prev : E(h, n) = E(prev, n)
  BY <1>2
<1>5. E(h, Len(prev) + 1) = Entries(Len(prev) + 1, b.num, b.txns, Success(b))
  BY <1>3
<1> HIDE DEF E, h
<1>6. UNION {E(h, n) : n \in DOMAIN h}
        = (UNION {E(prev, n) : n \in DOMAIN prev}) \cup E(h, Len(prev) + 1)
  BY <1>1, <1>4
<1>7. QED
  BY <1>5, <1>6 DEF Past, E, h

(* Numbers of chains are uints.                                            *)
LEMMA NumberType ==
  ASSUME NEW c \in Chain
  PROVE  Number(c) \in Num /\ NextNum(c) \in Num
<1>1. MaxNum \in Nat \ {0}
  BY LedgerAssumption
<1>2. Number(c) \in Num
  <2>1. CASE c = Genesis
    BY <1>1, <2>1 DEF Number, Num
  <2>2. CASE c # Genesis
    <3>1. Len(c) \in DOMAIN c /\ c[Len(c)] \in Block
      BY <2>2 DEF Chain, Genesis
    <3>2. QED
      BY <2>2, <3>1 DEF Number, Block
  <2>3. QED
    BY <2>1, <2>2
<1>3. QED
  BY <1>1, <1>2 DEF NextNum, Plus, Num

LEMMA BatchType ==
  ASSUME NEW txns \in Batch
  PROVE  txns \in Seq(Txn)
BY DEF Batch

LEMMA ValidateType ==
  ASSUME NEW t, NEW past, NEW next
  PROVE  Validate(t, past, next) \in Code
<1>1. ValidateLaunch(t, past) \in Code
  BY DEF ValidateLaunch, Code
<1>2. ValidateVote(t, past, next) \in Code
  BY DEF ValidateVote, Code
<1>3. ValidateTerminate(t, past, next) \in Code
  BY DEF ValidateTerminate, Code
<1>4. QED
  BY <1>1, <1>2, <1>3 DEF Validate, Code

LEMMA ReceiptsType ==
  ASSUME NEW prev, NEW txns \in Seq(Txn), NEW S
  PROVE  Receipts(prev, txns, S) \in Seq(Code)
<1>1. Receipts(prev, txns, S) \in [DOMAIN txns -> Code]
  BY ValidateType DEF Receipts
<1>2. Len(txns) \in Nat /\ DOMAIN txns = 1..Len(txns)
  OBVIOUS
<1>3. QED
  BY <1>1, <1>2

LEMMA BuiltType ==
  ASSUME NEW prev \in Chain, NEW m \in Miner, NEW txns \in Batch,
         NEW b \in Built(prev, m, txns)
  PROVE  b \in Block /\ b.pow /\ ReceiptsValid(prev, b)
<1>1. PICK S \in SUBSET DOMAIN txns :
        b = [miner |-> m, num |-> NextNum(prev), pow |-> TRUE, txns |-> txns,
             codes |-> Receipts(prev, txns, S)]
  BY DEF Built
<1>2. ReceiptsValid(prev, b)
  BY DEF Built
<1>3. Receipts(prev, txns, S) \in Seq(Code)
  BY BatchType, ReceiptsType
<1>4. NextNum(prev) \in Num
  BY NumberType
<1>5. QED
  BY <1>1, <1>2, <1>3, <1>4, BatchType DEF Block

LEMMA ClaimedType ==
  ASSUME NEW prev, NEW m \in Miner, NEW num \in Num, NEW pow \in BOOLEAN,
         NEW txns \in Batch, NEW b \in Claimed(prev, m, num, pow, txns)
  PROVE  b \in Block
<1>1. PICK S \in SUBSET DOMAIN txns :
        b = [miner |-> m, num |-> num, pow |-> pow, txns |-> txns,
             codes |-> [j \in DOMAIN txns |->
                          IF j \in S THEN "Success" ELSE Receipts(prev, txns, S)[j]]]
  BY DEF Claimed
<1> DEFINE codes == [j \in DOMAIN txns |->
                       IF j \in S THEN "Success" ELSE Receipts(prev, txns, S)[j]]
<1>2. \A j \in DOMAIN txns : Receipts(prev, txns, S)[j] \in Code
  BY ValidateType DEF Receipts
<1>3. codes \in [DOMAIN txns -> Code]
  BY <1>2 DEF Code
<1>4. txns \in Seq(Txn) /\ Len(txns) \in Nat /\ DOMAIN txns = 1..Len(txns)
  BY BatchType
<1>5. codes \in Seq(Code)
  BY <1>3, <1>4
<1>6. QED
  BY <1>1, <1>4, <1>5 DEF Block

-----------------------------------------------------------------------------
(* The history of one chain.  A chain is justified when every transaction  *)
(* that counts as a success validates against the successes before it.     *)

Below(c, e) == SubSeq(c, 1, e.at - 1)

Earlier(c, e) == Seen(Below(c, e), c[e.at].txns, Success(c[e.at]), e.idx)

Justified(c) == \A e \in Past(c) :
  Validate(e.txn, Earlier(c, e), NextNum(Below(c, e))) = "Success"

LEMMA PastType ==
  ASSUME NEW c \in Chain, NEW e \in Past(c)
  PROVE  /\ e.at \in 1..Len(c)
         /\ e.at \in Nat /\ e.idx \in Nat
         /\ c[e.at] \in Block
         /\ e.idx \in Success(c[e.at])
         /\ e = [at |-> e.at, num |-> c[e.at].num, idx |-> e.idx,
                 txn |-> c[e.at].txns[e.idx]]
<1>1. PICK n \in DOMAIN c : e \in Entries(n, c[n].num, c[n].txns, Success(c[n]))
  BY DEF Past
<1>2. PICK j \in Success(c[n]) :
        e = [at |-> n, num |-> c[n].num, idx |-> j, txn |-> c[n].txns[j]]
  BY <1>1 DEF Entries
<1>3. n \in 1..Len(c) /\ n \in Nat /\ c[n] \in Block /\ c[n].txns \in Seq(Txn)
  <2>1. c \in Seq(Block)
    BY DEF Chain
  <2>2. n \in 1..Len(c) /\ n \in Nat /\ c[n] \in Block
    BY <2>1
  <2>3. QED
    BY <2>2 DEF Block
<1>4. j \in Nat
  BY <1>3 DEF Success
<1>5. QED
  BY <1>2, <1>3, <1>4

(* An entry of the past is known by its place.                             *)
LEMMA PastEntry ==
  ASSUME NEW c \in Chain, NEW n \in 1..Len(c), NEW j \in Success(c[n])
  PROVE  [at |-> n, num |-> c[n].num, idx |-> j, txn |-> c[n].txns[j]] \in Past(c)
<1>1. n \in DOMAIN c
  BY DEF Chain
<1>2. QED
  BY <1>1 DEF Past, Entries

(* Entries are ordered by their place in the chain.                        *)
LEMMA PastOrder ==
  ASSUME NEW c \in Chain, NEW d \in Past(c), NEW e \in Past(c)
  PROVE  /\ d # e => Before(d, e) \/ Before(e, d)
         /\ ~Before(e, e)
         /\ \A f \in Past(c) : Before(d, e) /\ Before(f, d) => Before(f, e)
<1>1. /\ d.at \in Nat /\ d.idx \in Nat
      /\ d = [at |-> d.at, num |-> c[d.at].num, idx |-> d.idx, txn |-> c[d.at].txns[d.idx]]
  BY PastType
<1>2. /\ e.at \in Nat /\ e.idx \in Nat
      /\ e = [at |-> e.at, num |-> c[e.at].num, idx |-> e.idx, txn |-> c[e.at].txns[e.idx]]
  BY PastType
<1>3. d.at = e.at /\ d.idx = e.idx => d = e
  BY <1>1, <1>2
<1>4. d # e => Before(d, e) \/ Before(e, d)
  BY <1>1, <1>2, <1>3 DEF Before
<1>5. ~Before(e, e)
  BY <1>2 DEF Before
<1>6. ASSUME NEW f \in Past(c), Before(d, e), Before(f, d)
      PROVE  Before(f, e)
  <2>1. f.at \in Nat /\ f.idx \in Nat
    BY PastType
  <2>2. QED
    BY <1>1, <1>2, <1>6, <2>1 DEF Before
<1>7. QED
  BY <1>4, <1>5, <1>6

(* What the success of a vote, of an end and of a launch says of the past. *)
LEMMA VoteSucceeds ==
  ASSUME NEW t, NEW past, NEW next,
         Validate(t, past, next) = "Success", Data[t].method = "Vote"
  PROVE  /\ \E l \in Events(past, Data[t].poll) :
              /\ Events(past, Data[t].poll) = {l}
              /\ ~Expired(Data[l.txn].rules, Minus(next, l.num))
         /\ \A e \in Votes(past, Data[t].poll) : Data[e.txn].key # Data[t].key
<1> DEFINE events == Events(past, Data[t].poll)
           launch == CHOOSE e \in events : TRUE
<1>1. ValidateVote(t, past, next) = "Success"
  BY DEF Validate
<1> HIDE DEF events
<1>2. /\ events # {}
      /\ \A d, e \in events : d = e
      /\ \A e \in Votes(past, Data[t].poll) : Data[e.txn].key # Data[t].key
      /\ ~Expired(Data[launch.txn].rules, Minus(next, launch.num))
  BY <1>1 DEF ValidateVote, events
<1>3. launch \in events
  BY <1>2
<1>4. events = {launch}
  BY <1>2, <1>3
<1>5. QED
  BY <1>2, <1>3, <1>4 DEF events

LEMMA TerminateSucceeds ==
  ASSUME NEW t, NEW past, NEW next,
         Validate(t, past, next) = "Success", Data[t].method = "Terminate"
  PROVE  \E l \in Events(past, Data[t].poll) :
            /\ Events(past, Data[t].poll) = {l}
            /\ ~Expired(Data[l.txn].rules, Minus(next, l.num))
<1> DEFINE events == Events(past, Data[t].poll)
           launch == CHOOSE e \in events : TRUE
<1>1. ValidateTerminate(t, past, next) = "Success"
  BY DEF Validate
<1> HIDE DEF events
<1>2. /\ events # {}
      /\ \A d, e \in events : d = e
      /\ ~Expired(Data[launch.txn].rules, Minus(next, launch.num))
  BY <1>1 DEF ValidateTerminate, events
<1>3. launch \in events
  BY <1>2
<1>4. events = {launch}
  BY <1>2, <1>3
<1>5. QED
  BY <1>2, <1>3, <1>4 DEF events

LEMMA LaunchSucceeds ==
  ASSUME NEW t, NEW past, NEW next,
         Validate(t, past, next) = "Success", Data[t].method = "Launch"
  PROVE  \A e \in past : Data[e.txn].poll # Data[t].poll
<1>1. ValidateLaunch(t, past) = "Success"
  BY DEF Validate
<1>2. QED
  BY <1>1 DEF ValidateLaunch

LEMMA MethodSucceeds ==
  ASSUME NEW t, NEW past, NEW next, Validate(t, past, next) = "Success"
  PROVE  Data[t].method \in {"Launch", "Vote", "Terminate"}
BY DEF Validate

(* What a transaction was validated against are the entries before it.  An *)
(* earlier one of its own block had the number that the next block should  *)
(* have, whatever its block claims.                                        *)
SamePlace(d, f) == d.at = f.at /\ d.idx = f.idx /\ d.txn = f.txn

LEMMA BelowIs ==
  ASSUME NEW c \in Chain, NEW e \in Past(c)
  PROVE  /\ Below(c, e) \in Chain
         /\ Len(Below(c, e)) = e.at - 1
         /\ \A n \in 1..(e.at - 1) : Below(c, e)[n] = c[n]
<1>1. e.at \in 1..Len(c) /\ c \in Seq(Block) /\ Len(c) \in Nat
  BY PastType DEF Chain
<1>2. e.at - 1 \in 0..Len(c)
  BY <1>1
<1>3. QED
  BY <1>1, <1>2, PrefixFacts DEF Below, Chain

LEMMA EarlierHas ==
  ASSUME NEW c \in Chain, NEW e \in Past(c), NEW d \in Past(c), Before(d, e)
  PROVE  \E f \in Earlier(c, e) : SamePlace(d, f)
<1>1. /\ d.at \in 1..Len(c) /\ d.at \in Nat /\ d.idx \in Nat
      /\ d.idx \in Success(c[d.at])
      /\ d = [at |-> d.at, num |-> c[d.at].num, idx |-> d.idx,
              txn |-> c[d.at].txns[d.idx]]
  BY PastType
<1>2. e.at \in 1..Len(c) /\ e.at \in Nat /\ e.idx \in Nat
  BY PastType
<1>3. CASE d.at < e.at
  <2>1. d.at \in 1..(e.at - 1)
    BY <1>1, <1>2, <1>3
  <2>2. Below(c, e)[d.at] = c[d.at] /\ d.at \in 1..Len(Below(c, e))
    BY <2>1, BelowIs
  <2>3. d \in Past(Below(c, e))
    BY <1>1, <2>2, BelowIs, PastEntry
  <2>4. QED
    BY <2>3 DEF Earlier, Seen, SamePlace
<1>4. CASE d.at = e.at /\ d.idx < e.idx
  <2> DEFINE f == [at |-> e.at, num |-> NextNum(Below(c, e)), idx |-> d.idx,
                   txn |-> c[e.at].txns[d.idx]]
  <2>1. Len(Below(c, e)) + 1 = e.at
    BY <1>2, BelowIs
  <2>2. f \in Entries(e.at, NextNum(Below(c, e)), c[e.at].txns,
                      {i \in Success(c[e.at]) : i < e.idx})
    BY <1>1, <1>4 DEF Entries
  <2>3. f \in Earlier(c, e)
    BY <2>1, <2>2 DEF Earlier, Seen
  <2>4. f.at = d.at /\ f.idx = d.idx /\ f.txn = d.txn
    BY <1>1, <1>4
  <2>5. QED
    BY <2>3, <2>4 DEF SamePlace
<1>5. QED
  BY <1>3, <1>4 DEF Before

LEMMA EarlierIs ==
  ASSUME NEW c \in Chain, NEW e \in Past(c), NEW f \in Earlier(c, e)
  PROVE  \E d \in Past(c) :
            /\ SamePlace(d, f)
            /\ Before(d, e)
            /\ f.num = IF d.at < e.at THEN d.num ELSE NextNum(Below(c, e))
<1>1. /\ e.at \in 1..Len(c) /\ e.at \in Nat /\ e.idx \in Nat
      /\ Len(Below(c, e)) = e.at - 1 /\ Below(c, e) \in Chain
      /\ c[e.at] \in Block
  BY PastType, BelowIs
<1>2. CASE f \in Past(Below(c, e))
  <2>1. /\ f.at \in 1..(e.at - 1)
        /\ f.idx \in Success(Below(c, e)[f.at])
        /\ f = [at |-> f.at, num |-> Below(c, e)[f.at].num, idx |-> f.idx,
                txn |-> Below(c, e)[f.at].txns[f.idx]]
    BY <1>1, <1>2, PastType
  <2>2. Below(c, e)[f.at] = c[f.at] /\ f.at \in 1..Len(c) /\ f.at < e.at
    BY <1>1, <2>1, BelowIs
  <2>3. f \in Past(c)
    BY <2>1, <2>2, PastEntry
  <2>4. QED
    BY <2>2, <2>3 DEF SamePlace, Before
<1>3. CASE f \in Entries(e.at, NextNum(Below(c, e)), c[e.at].txns,
                         {i \in Success(c[e.at]) : i < e.idx})
  <2>1. PICK j \in Success(c[e.at]) :
          /\ j < e.idx
          /\ f = [at |-> e.at, num |-> NextNum(Below(c, e)), idx |-> j,
                  txn |-> c[e.at].txns[j]]
    BY <1>3 DEF Entries
  <2> DEFINE d == [at |-> e.at, num |-> c[e.at].num, idx |-> j, txn |-> c[e.at].txns[j]]
  <2>2. d \in Past(c)
    BY <1>1, <2>1, PastEntry
  <2>3. SamePlace(d, f) /\ Before(d, e) /\ d.at = e.at
    BY <2>1 DEF SamePlace, Before
  <2>4. QED
    BY <1>1, <2>1, <2>2, <2>3
<1>4. QED
  <2>1. Len(Below(c, e)) + 1 = e.at
    BY <1>1
  <2>2. QED
    BY <1>2, <1>3, <2>1 DEF Earlier, Seen

(* An entry is known by its place.                                         *)
LEMMA PlaceIs ==
  ASSUME NEW c \in Chain, NEW d \in Past(c), NEW e \in Past(c),
         d.at = e.at, d.idx = e.idx
  PROVE  d = e
<1>1. d = [at |-> d.at, num |-> c[d.at].num, idx |-> d.idx, txn |-> c[d.at].txns[d.idx]]
  BY PastType
<1>2. e = [at |-> e.at, num |-> c[e.at].num, idx |-> e.idx, txn |-> c[e.at].txns[e.idx]]
  BY PastType
<1>3. QED
  BY <1>1, <1>2

(* On rightly numbered blocks the elapsed uint is the elapsed blocks, even *)
(* where the number of the next block is no uint any more.                 *)
LEMMA ElapsedBlocks ==
  ASSUME NEW c \in Chain, NEW e \in Past(c), NEW d \in Past(c),
         Numbered(Below(c, e)), Before(d, e)
  PROVE  Minus(NextNum(Below(c, e)), IF d.at < e.at THEN d.num ELSE NextNum(Below(c, e)))
           = e.at - d.at
<1> DEFINE below == Below(c, e)
<1>1. MaxNum \in Nat \ {0}
  BY LedgerAssumption
<1>2. /\ e.at \in Nat \ {0} /\ d.at \in Nat \ {0} /\ d.at <= e.at
      /\ below \in Chain /\ Len(below) = e.at - 1
      /\ d.num = c[d.at].num
  BY PastType, BelowIs DEF Before
<1>3. below # Genesis => Number(below) = e.at - 1 /\ e.at - 1 \in Num
  <2>1. SUFFICES ASSUME below # Genesis
                 PROVE  Number(below) = e.at - 1 /\ e.at - 1 \in Num
    OBVIOUS
  <2>2. Len(below) \in DOMAIN below /\ below \in Seq(Block)
    BY <1>2, <2>1 DEF Chain, Genesis
  <2>3. below[Len(below)] \in Block /\ below[Len(below)].num = Len(below)
    BY <2>2 DEF Numbered
  <2>4. QED
    BY <1>2, <2>1, <2>3 DEF Number, Block
<1>4. below = Genesis => Number(below) = 0 /\ e.at = 1
  BY <1>2 DEF Number, Genesis
<1>5. NextNum(below) = IF e.at <= MaxNum THEN e.at ELSE 0
  BY <1>1, <1>2, <1>3, <1>4 DEF NextNum, Plus, Num
<1>6. e.at <= MaxNum + 1
  BY <1>1, <1>2, <1>3, <1>4 DEF Num
<1>7. CASE d.at < e.at
  <2>1. d.at \in 1..(e.at - 1) /\ d.at \in DOMAIN below
    BY <1>2, <1>7 DEF Chain
  <2>2. d.num = d.at
    BY <1>2, <2>1, BelowIs DEF Numbered
  <2>3. QED
    BY <1>1, <1>2, <1>5, <1>6, <1>7, <2>2 DEF Minus
<1>8. CASE d.at = e.at
  <2>1. NextNum(below) \in Int
    BY <1>2, <1>5
  <2>2. QED
    BY <1>2, <1>8, <2>1 DEF Minus
<1>9. QED
  BY <1>2, <1>7, <1>8

(* In a justified chain the one event a success read is a launch: an end   *)
(* would have had an event of its own before it.                           *)
InTime(c, l, e) ==
  Numbered(Below(c, e)) => ~(/\ Data[l.txn].rules.duration > 0
                             /\ e.at - l.at > Data[l.txn].rules.duration)

IsEvent(t) == Data[t].method \in {"Launch", "Terminate"}

LEMMA EventBefore ==
  ASSUME NEW c \in Chain, Justified(c), NEW e \in Past(c),
         Data[e.txn].method # "Launch"
  PROVE  \E l \in Past(c) :
            /\ IsEvent(l.txn) /\ SamePoll(l, e) /\ Before(l, e)
            /\ InTime(c, l, e)
            /\ \A d \in Past(c) :
                 IsEvent(d.txn) /\ SamePoll(d, e) /\ Before(d, e) => d = l
<1> DEFINE next == NextNum(Below(c, e))
<1>1. Validate(e.txn, Earlier(c, e), next) = "Success"
  BY DEF Justified
<1>2. Data[e.txn].method \in {"Vote", "Terminate"}
  BY <1>1, MethodSucceeds
<1>3. PICK f : /\ f \in Events(Earlier(c, e), Data[e.txn].poll)
               /\ Events(Earlier(c, e), Data[e.txn].poll) = {f}
               /\ ~Expired(Data[f.txn].rules, Minus(next, f.num))
  <2>1. CASE Data[e.txn].method = "Vote"
    BY ONLY <1>1, <2>1, VoteSucceeds
  <2>2. CASE Data[e.txn].method = "Terminate"
    BY ONLY <1>1, <2>2, TerminateSucceeds
  <2>3. QED
    BY <1>2, <2>1, <2>2
<1>4. /\ f \in Earlier(c, e) /\ IsEvent(f.txn)
      /\ Data[f.txn].poll = Data[e.txn].poll
  BY <1>3 DEF Events, Of, IsEvent
<1>5. PICK l \in Past(c) :
        /\ SamePlace(l, f) /\ Before(l, e)
        /\ f.num = IF l.at < e.at THEN l.num ELSE next
  BY <1>4, EarlierIs
<1>6. IsEvent(l.txn) /\ SamePoll(l, e)
  BY <1>4, <1>5 DEF SamePlace, SamePoll, IsEvent
<1>7. InTime(c, l, e)
  <2>1. SUFFICES ASSUME Numbered(Below(c, e))
                 PROVE  ~(/\ Data[l.txn].rules.duration > 0
                          /\ e.at - l.at > Data[l.txn].rules.duration)
    BY DEF InTime
  <2>2. Minus(next, f.num) = e.at - l.at
    BY <1>5, <2>1, ElapsedBlocks
  <2>3. l.txn = f.txn
    BY <1>5 DEF SamePlace
  <2>4. QED
    BY <1>3, <2>2, <2>3 DEF Expired
<1>8. ASSUME NEW d \in Past(c), IsEvent(d.txn), SamePoll(d, e), Before(d, e)
      PROVE  d = l
  <2>1. PICK g \in Earlier(c, e) : SamePlace(d, g)
    BY <1>8, EarlierHas
  <2>2. g \in Events(Earlier(c, e), Data[e.txn].poll)
    BY <1>8, <2>1 DEF Events, Of, SamePlace, SamePoll, IsEvent
  <2>3. g = f
    BY <1>3, <2>2
  <2>4. QED
    BY <1>5, <2>1, <2>3, PlaceIs DEF SamePlace
<1>9. QED
  BY <1>5, <1>6, <1>7, <1>8

LEMMA EventIsLaunch ==
  ASSUME NEW c \in Chain, Justified(c), NEW e \in Past(c),
         Data[e.txn].method # "Launch"
  PROVE  \E l \in Past(c) :
            /\ Data[l.txn].method = "Launch"
            /\ SamePoll(l, e) /\ Before(l, e) /\ InTime(c, l, e)
            /\ \A d \in Past(c) :
                 IsEvent(d.txn) /\ SamePoll(d, e) /\ Before(d, e) => d = l
<1>1. PICK l \in Past(c) :
        /\ IsEvent(l.txn) /\ SamePoll(l, e) /\ Before(l, e) /\ InTime(c, l, e)
        /\ \A d \in Past(c) :
             IsEvent(d.txn) /\ SamePoll(d, e) /\ Before(d, e) => d = l
  BY EventBefore
<1>2. ASSUME Data[l.txn].method # "Launch"
      PROVE  FALSE
  <2>1. PICK k \in Past(c) : IsEvent(k.txn) /\ SamePoll(k, l) /\ Before(k, l)
    BY <1>2, EventBefore
  <2>2. Before(k, e) /\ SamePoll(k, e)
    BY <1>1, <2>1, PastOrder DEF SamePoll
  <2>3. k = l
    BY <1>1, <2>1, <2>2
  <2>4. QED
    BY <2>1, <2>3, PastOrder
<1>3. QED
  BY <1>1, <1>2

LEMMA JustifiedOneVote ==
  ASSUME NEW c \in Chain, Justified(c)
  PROVE  OneVote(c)
<1> SUFFICES ASSUME NEW d \in Past(c), NEW e \in Past(c),
                    Data[d.txn].method = "Vote", Data[e.txn].method = "Vote",
                    Data[d.txn].poll = Data[e.txn].poll,
                    Data[d.txn].key = Data[e.txn].key,
                    d # e
             PROVE  FALSE
  BY DEF OneVote
<1>1. ASSUME NEW f \in Past(c), NEW g \in Past(c), Before(f, g),
             Data[f.txn].method = "Vote", Data[g.txn].method = "Vote",
             Data[f.txn].poll = Data[g.txn].poll
      PROVE  Data[f.txn].key # Data[g.txn].key
  <2>1. Validate(g.txn, Earlier(c, g), NextNum(Below(c, g))) = "Success"
    BY DEF Justified
  <2>2. PICK k \in Earlier(c, g) : SamePlace(f, k)
    BY <1>1, EarlierHas
  <2>3. k \in Votes(Earlier(c, g), Data[g.txn].poll)
    BY <1>1, <2>2 DEF Votes, Of, SamePlace
  <2>4. Data[k.txn].key # Data[g.txn].key
    BY <1>1, <2>1, <2>3, VoteSucceeds
  <2>5. QED
    BY <2>2, <2>4 DEF SamePlace
<1>2. Before(d, e) \/ Before(e, d)
  BY PastOrder
<1>3. QED
  BY <1>1, <1>2

LEMMA JustifiedPollHistory ==
  ASSUME NEW c \in Chain, Justified(c)
  PROVE  PollHistory(c)
<1>1. ASSUME NEW d \in Past(c), NEW e \in Past(c), Before(d, e), SamePoll(d, e),
             Data[d.txn].method = Data[e.txn].method, IsEvent(d.txn)
      PROVE  FALSE
  <2>1. CASE Data[e.txn].method = "Launch"
    <3>1. Validate(e.txn, Earlier(c, e), NextNum(Below(c, e))) = "Success"
      BY DEF Justified
    <3>2. PICK f \in Earlier(c, e) : SamePlace(d, f)
      BY <1>1, EarlierHas
    <3>3. Data[f.txn].poll # Data[e.txn].poll
      BY <2>1, <3>1, LaunchSucceeds
    <3>4. QED
      BY <1>1, <3>2, <3>3 DEF SamePoll, SamePlace
  <2>2. CASE Data[e.txn].method = "Terminate"
    <3>1. PICK l \in Past(c) :
            /\ Data[l.txn].method = "Launch"
            /\ \A k \in Past(c) :
                 IsEvent(k.txn) /\ SamePoll(k, e) /\ Before(k, e) => k = l
      BY <2>2, EventIsLaunch
    <3>2. d = l
      BY <1>1, <3>1
    <3>3. QED
      BY <1>1, <2>2, <3>1, <3>2
  <2>3. QED
    BY <1>1, <2>1, <2>2 DEF IsEvent
<1>2. LaunchedAndEndedOnce(c)
  <2>1. SUFFICES ASSUME NEW d \in Past(c), NEW e \in Past(c), SamePoll(d, e),
                        Data[d.txn].method = Data[e.txn].method,
                        Data[d.txn].method \in {"Launch", "Terminate"}, d # e
                 PROVE  FALSE
    BY DEF LaunchedAndEndedOnce
  <2>2. Before(d, e) \/ Before(e, d)
    BY <2>1, PastOrder
  <2>3. SamePoll(e, d) /\ IsEvent(d.txn) /\ IsEvent(e.txn)
    BY <2>1 DEF SamePoll, IsEvent
  <2>4. QED
    BY <1>1, <2>1, <2>2, <2>3
<1>3. NoVoteAfterEnd(c)
  <2>1. SUFFICES ASSUME NEW d \in Past(c), NEW e \in Past(c), SamePoll(d, e),
                        Data[d.txn].method = "Vote",
                        Data[e.txn].method = "Terminate", ~Before(d, e)
                 PROVE  FALSE
    BY DEF NoVoteAfterEnd
  <2>2. Before(e, d) /\ SamePoll(e, d) /\ IsEvent(e.txn)
    BY <2>1, PastOrder DEF SamePoll, IsEvent
  <2>3. PICK l \in Past(c) :
          /\ Data[l.txn].method = "Launch"
          /\ \A k \in Past(c) :
               IsEvent(k.txn) /\ SamePoll(k, d) /\ Before(k, d) => k = l
    BY <2>1, EventIsLaunch
  <2>4. e = l
    BY <2>2, <2>3
  <2>5. QED
    BY <2>1, <2>3, <2>4
<1>4. WithinLaunch(c)
  BY EventIsLaunch DEF WithinLaunch, InTime, Below
<1>5. QED
  BY <1>2, <1>3, <1>4 DEF PollHistory

(* Putting a block whose receipts this node computes keeps a chain justified. *)
LEMMA AppendJustified ==
  ASSUME NEW prev \in Chain, NEW b \in Block, Justified(prev), ReceiptsValid(prev, b)
  PROVE  Justified(Append(prev, b))
<1> DEFINE h == Append(prev, b)
           N == Len(prev) + 1
           new == Entries(N, b.num, b.txns, Success(b))
<1>1. /\ h \in Chain /\ Len(h) = N /\ Len(prev) \in Nat
      /\ h[N] = b /\ SubSeq(h, 1, Len(prev)) = prev
      /\ \A n \in 1..Len(prev) : h[n] = prev[n]
  BY AppendFacts DEF Chain
<1>2. Past(h) = Past(prev) \cup new
  BY PastAppend
<1>3. ASSUME NEW e \in Past(prev)
      PROVE  Validate(e.txn, Earlier(h, e), NextNum(Below(h, e))) = "Success"
  <2>1. e.at \in 1..Len(prev) /\ e.at \in Nat /\ e \in Past(h)
    BY <1>2, PastType
  <2>2. h[e.at] = prev[e.at]
    BY <1>1, <2>1
  <2>3. Below(h, e) = Below(prev, e)
    <3>1. e.at - 1 \in 0..Len(prev) /\ e.at - 1 \in 0..Len(h)
      BY <1>1, <2>1
    <3>2. prev \in Seq(Block) /\ h \in Seq(Block)
      BY <1>1 DEF Chain
    <3>3. \A n \in 1..(e.at - 1) : h[n] = prev[n]
      BY <1>1, <2>1
    <3> HIDE DEF h
    <3>4. QED
      BY <3>1, <3>2, <3>3 DEF Below
  <2>4. Earlier(h, e) = Earlier(prev, e)
    BY <2>2, <2>3 DEF Earlier
  <2>5. QED
    BY <2>3, <2>4 DEF Justified
<1>4. ASSUME NEW e \in new
      PROVE  Validate(e.txn, Earlier(h, e), NextNum(Below(h, e))) = "Success"
  <2>1. e.at = N /\ e.idx \in Success(b) /\ e.txn = b.txns[e.idx]
    BY DEF Entries
  <2>2. N - 1 = Len(prev)
    BY <1>1
  <2>3. Below(h, e) = prev
    BY <1>1, <2>1, <2>2 DEF Below
  <2>4. Earlier(h, e) = Seen(prev, b.txns, Success(b), e.idx)
    BY <1>1, <2>1, <2>3 DEF Earlier
  <2>5. /\ e.idx \in DOMAIN b.txns /\ b.codes[e.idx] = "Success"
        /\ b.codes = Receipts(prev, b.txns, Success(b))
    BY <2>1 DEF Success, ReceiptsValid
  <2>6. Validate(b.txns[e.idx], Seen(prev, b.txns, Success(b), e.idx), NextNum(prev))
          = "Success"
    BY <2>5 DEF Receipts
  <2>7. QED
    BY <2>1, <2>3, <2>4, <2>6
<1>5. QED
  BY <1>2, <1>3, <1>4 DEF Justified

-----------------------------------------------------------------------------
(* What Put adds to the store, whoever built the block: one block on a     *)
(* stored one, with valid receipts.                                        *)

Added(prev, b) ==
  LET h == Append(prev, b)
  IN  /\ Unlocked
      /\ b.num # 0
      /\ h \notin db
      /\ b.pow
      /\ ReceiptsValid(prev, b)
      /\ Store(h, prev = lastHash \/ b.num > Number(lastHash))

LEMMA PutAdds ==
  ASSUME TypeOK, PutPeer \/ PutOwn
  PROVE  \E prev \in db, b \in Block : Added(prev, b)
<1>1. CASE PutPeer
  <2>0. PICK prev \in db \cup Unseen, m \in Miner, pow \in BOOLEAN, txns \in Batch :
          \E num \in Numbers(prev) :
            \E b \in Claimed(prev, m, num, pow, txns) : Put(prev, b, FALSE)
    BY <1>1 DEF PutPeer
  <2>1. PICK num \in Numbers(prev) :
          \E b \in Claimed(prev, m, num, pow, txns) : Put(prev, b, FALSE)
    BY <2>0
  <2>2. PICK b \in Claimed(prev, m, num, pow, txns) : Put(prev, b, FALSE)
    BY <2>1
  <2>3. b \in Block
    <3>1. prev \in Chain
      BY <2>2 DEF Put, TypeOK
    <3>2. num \in Num
      BY <3>1, NumberType, BlockChainAssumption DEF Numbers
    <3>3. QED
      BY <3>2, ClaimedType
  <2>4. prev \in db /\ Added(prev, b)
    BY <2>2 DEF Put, Added
  <2>5. QED
    BY <2>3, <2>4
<1>2. CASE PutOwn
  <2>0. PICK m \in Miner, txns \in Batch :
          \E b \in Built(lastHash, m, txns) : Put(lastHash, b, TRUE)
    BY <1>2 DEF PutOwn
  <2>1. PICK b \in Built(lastHash, m, txns) : Put(lastHash, b, TRUE)
    BY <2>0
  <2>2. b \in Block /\ b.pow /\ ReceiptsValid(lastHash, b)
    BY BuiltType DEF TypeOK
  <2>3. lastHash \in db /\ Added(lastHash, b)
    BY <2>1, <2>2 DEF Put, Added
  <2>4. QED
    BY <2>2, <2>3
<1>3. QED
  BY <1>1, <1>2

LEMMA AddedChain ==
  ASSUME TypeOK, NEW prev \in db, NEW b \in Block, Added(prev, b)
  PROVE  LET h == Append(prev, b)
         IN  /\ prev \in Chain /\ h \in Chain
             /\ h # Genesis
             /\ Len(h) = Len(prev) + 1 /\ Len(prev) \in Nat
             /\ Prev(h) = prev
             /\ h[Len(h)] = b
             /\ Number(h) = b.num
<1>1. prev \in Seq(Block)
  BY DEF TypeOK, Chain
<1>2. QED
  BY <1>1, AppendFacts DEF Chain, Genesis, Prev, Number

(* Every stored thing has its type, in every reachable state.              *)
THEOREM TypeCorrect == Spec => []TypeOK
<1>1. Init => TypeOK
  BY DEF Init, TypeOK, Genesis, Chain
<1>2. TypeOK /\ [Next]_vars => TypeOK'
  <2> SUFFICES ASSUME TypeOK, [Next]_vars
               PROVE  TypeOK'
    OBVIOUS
  <2>1. CASE PutPeer \/ PutOwn
    <3>1. PICK prev \in db, b \in Block : Added(prev, b)
      BY <2>1, PutAdds
    <3>2. Append(prev, b) \in Chain
      BY <3>1, AddedChain
    <3>3. QED
      BY <3>1, <3>2 DEF Added, Store, TypeOK, Unlocked
  <2>2. CASE UpdateTip
    BY <2>2 DEF UpdateTip, TypeOK
  <2>3. CASE CrashRestart
    BY <2>3 DEF CrashRestart, TypeOK
  <2>4. CASE UNCHANGED vars
    BY <2>4 DEF vars, TypeOK
  <2>5. QED
    BY <2>1, <2>2, <2>3, <2>4 DEF Next
<1>3. QED
  BY <1>1, <1>2, PTL DEF Spec

(* Every stored block has its parent in the store, meets the proof of work *)
(* and carries the receipts this node computes, and no walk ends at it.    *)
THEOREM StoreIsSound == Spec => []StoreSound
<1>1. Init => StoreSound
  BY DEF Init, StoreSound
<1>2. TypeOK /\ StoreSound /\ [Next]_vars => StoreSound'
  <2> SUFFICES ASSUME TypeOK, StoreSound, [Next]_vars
               PROVE  StoreSound'
    OBVIOUS
  <2>1. CASE PutPeer \/ PutOwn
    <3>1. PICK prev \in db, b \in Block : Added(prev, b)
      BY <2>1, PutAdds
    <3> DEFINE h == Append(prev, b)
    <3>2. db' = db \cup {h} /\ b.num # 0 /\ b.pow /\ ReceiptsValid(prev, b)
      BY <3>1 DEF Added, Store
    <3>3. Prev(h) = prev /\ h[Len(h)] = b /\ Number(h) = b.num
      BY <3>1, AddedChain
    <3> HIDE DEF h
    <3>4. QED
      BY <3>2, <3>3 DEF StoreSound
  <2>2. CASE UpdateTip \/ CrashRestart \/ UNCHANGED vars
    BY <2>2 DEF UpdateTip, CrashRestart, vars, StoreSound
  <2>3. QED
    BY <2>1, <2>2 DEF Next
<1>3. QED
  BY <1>1, <1>2, TypeCorrect, PTL DEF Spec

(* Every stored chain is justified: the inductive form of the two history  *)
(* properties, which speak of pairs of successes and are not inductive.    *)
AllJustified == \A h \in db : Justified(h)

LEMMA StoreJustified == Spec => []AllJustified
<1>1. Init => AllJustified
  BY DEF Init, AllJustified, Justified, Past, Genesis
<1>2. TypeOK /\ AllJustified /\ [Next]_vars => AllJustified'
  <2> SUFFICES ASSUME TypeOK, AllJustified, [Next]_vars
               PROVE  AllJustified'
    OBVIOUS
  <2>1. CASE PutPeer \/ PutOwn
    <3>1. PICK prev \in db, b \in Block : Added(prev, b)
      BY <2>1, PutAdds
    <3>2. prev \in Chain /\ Justified(prev) /\ ReceiptsValid(prev, b)
      BY <3>1, AddedChain DEF AllJustified, Added
    <3>3. Justified(Append(prev, b))
      BY <3>2, AppendJustified
    <3>4. db' = db \cup {Append(prev, b)}
      BY <3>1 DEF Added, Store
    <3>5. QED
      BY <3>3, <3>4 DEF AllJustified
  <2>2. CASE UpdateTip \/ CrashRestart \/ UNCHANGED vars
    BY <2>2 DEF UpdateTip, CrashRestart, vars, AllJustified
  <2>3. QED
    BY <2>1, <2>2 DEF Next
<1>3. QED
  BY <1>1, <1>2, TypeCorrect, PTL DEF Spec

(* No user has two successful votes in a poll, on any fork of any node.    *)
THEOREM OneVotePerUserHolds == Spec => []OneVotePerUser
<1>1. TypeOK /\ AllJustified => OneVotePerUser
  BY JustifiedOneVote DEF TypeOK, AllJustified, OneVotePerUser
<1>2. QED
  BY <1>1, TypeCorrect, StoreJustified, PTL

(* Every poll is launched once, ends once, and takes votes only in between *)
(* on any fork of any node, and within its duration where the blocks below *)
(* are rightly numbered.                                                   *)
THEOREM PollLifeHolds == Spec => []PollLife
<1>1. TypeOK /\ AllJustified => PollLife
  BY JustifiedPollHistory DEF TypeOK, AllJustified, PollLife
<1>2. QED
  BY <1>1, TypeCorrect, StoreJustified, PTL

-----------------------------------------------------------------------------
(* The tip.  While the tip update is due, the new block extends the tip or *)
(* claims a higher number: the part that makes UpdateTip right.            *)
WritingWins == \A h \in writing :
  h # Genesis /\ (Prev(h) = lastHash \/ Number(h) > Number(lastHash))

AllNumbered == \A h \in db : Numbered(h)

TipInv == TipLongestButTorn /\ WritingWins

LEMMA ChainLen ==
  ASSUME TypeOK
  PROVE  /\ \A h \in db : Len(h) \in Nat
         /\ Len(lastHash) \in Nat
BY DEF TypeOK, Chain

(* A chain of rightly numbered blocks is as long as its tip's number says. *)
LEMMA NumberedLen ==
  ASSUME NEW c \in Chain, Numbered(c)
  PROVE  Number(c) = Len(c)
<1>1. CASE c = Genesis
  BY <1>1 DEF Number, Genesis
<1>2. CASE c # Genesis
  <2>1. Len(c) \in DOMAIN c
    BY <1>2 DEF Chain, Genesis
  <2>2. QED
    BY <1>2, <2>1 DEF Number, Numbered
<1>3. QED
  BY <1>1, <1>2

(* Among rightly numbered chains the winner is the longer one.             *)
LEMMA WinnerLonger ==
  ASSUME NEW h \in Chain, NEW g \in Chain, h # Genesis, Numbered(h), Numbered(g)
  PROVE  /\ Prev(h) = g \/ Number(h) > Number(g) => Len(h) > Len(g)
         /\ ~(Number(h) > Number(g)) => Len(h) <= Len(g)
<1>1. Number(h) = Len(h) /\ Number(g) = Len(g) /\ Len(h) \in Nat /\ Len(g) \in Nat
  BY NumberedLen DEF Chain
<1>2. Prev(h) = g => Len(g) = Len(h) - 1
  <2>1. Len(h) - 1 \in 0..Len(h) /\ h \in Seq(Block)
    BY <1>1 DEF Chain, Genesis
  <2>2. QED
    BY <2>1, PrefixFacts DEF Prev
<1>3. QED
  BY <1>1, <1>2

LEMMA TipInvariant == Spec => []TipInv
<1>1. Init => TipInv
  BY DEF Init, TipInv, TipLongestButTorn, WritingWins, Genesis
<1>2. TypeOK /\ StoreSound /\ TipInv /\ TypeOK' /\ [Next]_vars => TipInv'
  <2> SUFFICES ASSUME TypeOK, StoreSound, TipInv, TypeOK', [Next]_vars
               PROVE  TipInv'
    OBVIOUS
  <2>0. /\ \A h \in db : Len(h) \in Nat
        /\ Len(lastHash) \in Nat
    BY ChainLen
  <2>1. CASE PutPeer \/ PutOwn
    <3>1. PICK prev \in db, b \in Block : Added(prev, b)
      BY <2>1, PutAdds
    <3> DEFINE h == Append(prev, b)
               wins == prev = lastHash \/ b.num > Number(lastHash)
    <3>2. /\ writing = {} /\ db' = db \cup {h}
          /\ writing' = IF wins THEN {h} ELSE {}
          /\ UNCHANGED <<lastHash, torn>>
      BY <3>1 DEF Added, Store, Unlocked
    <3>3. /\ h \in Chain /\ h # Genesis
          /\ Prev(h) = prev /\ Number(h) = b.num
      BY <3>1, AddedChain
    <3> HIDE DEF h
    <3>4. WritingWins'
      BY <3>2, <3>3 DEF WritingWins, Number
    <3>5. TipLongestButTorn'
      <4>1. SUFFICES ASSUME AllNumbered'
                     PROVE  \A g \in (db \ (writing \cup torn))' : Len(g) <= Len(lastHash)
        BY <3>2 DEF TipLongestButTorn, AllNumbered
      <4>2. AllNumbered /\ Numbered(h)
        BY <3>2, <4>1 DEF AllNumbered
      <4>3. \A g \in db \ (writing \cup torn) : Len(g) <= Len(lastHash)
        BY <4>2 DEF TipInv, TipLongestButTorn, AllNumbered
      <4>4. lastHash \in Chain /\ Numbered(lastHash)
        BY <4>2 DEF TypeOK, AllNumbered
      <4>5. ~wins => Len(h) <= Len(lastHash)
        BY <3>3, <4>2, <4>4, WinnerLonger
      <4>6. QED
        BY <3>2, <4>3, <4>5
    <3>6. QED
      BY <3>4, <3>5 DEF TipInv
  <2>2. CASE UpdateTip
    <3>1. PICK h \in writing : /\ lastHash' = h /\ writing' = {}
                               /\ UNCHANGED <<db, torn>>
      BY <2>2 DEF UpdateTip
    <3>2. h \in db /\ \A g \in writing : g = h
      BY <3>1 DEF TypeOK
    <3>3. TipLongestButTorn'
      <4>1. SUFFICES ASSUME AllNumbered
                     PROVE  \A g \in db \ torn : Len(g) <= Len(h)
        BY <3>1 DEF TipLongestButTorn, AllNumbered
      <4>2. \A g \in db \ (writing \cup torn) : Len(g) <= Len(lastHash)
        BY <4>1 DEF TipInv, TipLongestButTorn, AllNumbered
      <4>3. /\ h \in Chain /\ lastHash \in Chain
            /\ Numbered(h) /\ Numbered(lastHash)
        BY <3>2, <4>1 DEF TypeOK, AllNumbered
      <4>4. h # Genesis
        BY <3>1 DEF TipInv, WritingWins
      <4>5. Len(h) > Len(lastHash)
        BY <3>1, <4>3, <4>4, WinnerLonger DEF TipInv, WritingWins
      <4>6. QED
        BY <2>0, <3>2, <4>2, <4>5
    <3>4. QED
      BY <3>1, <3>3 DEF TipInv, WritingWins
  <2>3. CASE CrashRestart
    BY <2>3 DEF CrashRestart, TipInv, TipLongestButTorn, WritingWins
  <2>4. CASE UNCHANGED vars
    BY <2>4 DEF vars, TipInv, TipLongestButTorn, WritingWins
  <2>5. QED
    BY <2>1, <2>2, <2>3, <2>4 DEF Next
<1>3. QED
  BY <1>1, <1>2, TypeCorrect, StoreIsSound, PTL DEF Spec

(* While all blocks are rightly numbered, the tip is a longest chain among *)
(* all blocks that no crash has torn.                                      *)
THEOREM TipIsLongestButTorn == Spec => []TipLongestButTorn
BY TipInvariant, PTL DEF TipInv

-----------------------------------------------------------------------------
(* The store implements a tree with a head.                                *)

LEMMA UpdateGrows ==
  ASSUME TypeOK, StoreSound, TipInv, NEW h \in writing
  PROVE  /\ h \notin db \ writing
         /\ h # << >>
         /\ SubSeq(h, 1, Len(h) - 1) \in db \ writing
         /\ (db \ writing) \cup {h} = db
         /\ Tree!Wins(h)
         /\ writing = {h}
<1>1. /\ h \in db /\ writing = {h} /\ h # Genesis
      /\ Prev(h) = lastHash \/ Number(h) > Number(lastHash)
      /\ Len(h) \in Nat
  BY ChainLen DEF TypeOK, TipInv, WritingWins
<1>2. h # << >> /\ h \in Seq(Block) /\ Len(h) # 0
  BY <1>1 DEF TypeOK, Chain, Genesis
<1>3. Prev(h) \in db
  BY <1>1, <1>2 DEF StoreSound, Genesis
<1>4. Len(Prev(h)) = Len(h) - 1
  <2>1. Len(h) - 1 \in 0..Len(h)
    BY <1>1, <1>2
  <2>2. QED
    BY <1>2, <2>1, PrefixFacts DEF Prev
<1>5. Prev(h) # h
  BY <1>1, <1>4
<1>6. Tree!Wins(h)
  BY <1>1 DEF Tree!Wins, Tree!Below, Tree!Number, Number, Prev, Genesis
<1>7. QED
  BY <1>1, <1>2, <1>3, <1>5, <1>6 DEF Prev

(* The two writes of Put are one step of the tree, whatever the interleaving *)
(* of blocks of peers, own blocks and crashes.                             *)
THEOREM StoreImplementsForkChoice == Spec => ImplementsForkChoice
<1>1. Init => Tree!Init
  BY DEF Init, Tree!Init, Genesis
<1>2. TypeOK /\ StoreSound /\ TipInv /\ TypeOK' /\ [Next]_vars
        => [Tree!Next]_(Tree!abstract)
  <2> SUFFICES ASSUME TypeOK, StoreSound, TipInv, TypeOK', [Next]_vars
               PROVE  [Tree!Next]_(Tree!abstract)
    OBVIOUS
  <2>1. CASE PutPeer \/ PutOwn
    <3>1. PICK prev \in db, b \in Block : Added(prev, b)
      BY <2>1, PutAdds
    <3> DEFINE h == Append(prev, b)
    <3>2. /\ writing = {} /\ h \notin db /\ db' = db \cup {h}
          /\ writing' = IF prev = lastHash \/ b.num > Number(lastHash) THEN {h} ELSE {}
          /\ UNCHANGED <<lastHash, torn>>
      BY <3>1 DEF Added, Store, Unlocked
    <3>3. /\ h # << >> /\ SubSeq(h, 1, Len(h) - 1) = prev
          /\ Number(h) = b.num
      BY <3>1, AddedChain DEF Genesis, Prev
    <3> HIDE DEF h
    <3>4. CASE prev = lastHash \/ b.num > Number(lastHash)
      BY <3>2, <3>4 DEF Tree!abstract
    <3>5. CASE ~(prev = lastHash \/ b.num > Number(lastHash))
      <4>1. db' \ writing' = (db \ writing) \cup {h}
        BY <3>2, <3>5
      <4>2. ~Tree!Wins(h)
        BY <3>3, <3>5 DEF Tree!Wins, Tree!Below, Tree!Number, Number, Genesis
      <4>3. Tree!Grow(h)
        BY <3>2, <3>3, <4>1, <4>2 DEF Tree!Grow, Tree!Arrives, Tree!Below
      <4>4. QED
        BY <4>1, <4>3 DEF Tree!Next
    <3>6. QED
      BY <3>4, <3>5
  <2>2. CASE UpdateTip
    <3>1. PICK h \in writing : /\ lastHash' = h /\ writing' = {}
                               /\ UNCHANGED <<db, torn>>
      BY <2>2 DEF UpdateTip
    <3>2. /\ h \notin db \ writing /\ h # << >>
          /\ SubSeq(h, 1, Len(h) - 1) \in db \ writing
          /\ (db \ writing) \cup {h} = db
          /\ Tree!Wins(h)
      BY <3>1, UpdateGrows
    <3>3. db' \ writing' = db
      BY <3>1
    <3>4. Tree!Grow(h)
      BY <3>1, <3>2, <3>3 DEF Tree!Grow, Tree!Arrives, Tree!Below
    <3>5. h \in db' \ writing'
      BY <3>2, <3>3
    <3>6. QED
      BY <3>4, <3>5 DEF Tree!Next
  <2>3. CASE CrashRestart
    <3>1. /\ torn' = torn \cup writing /\ writing' = {}
          /\ UNCHANGED <<db, lastHash>>
      BY <2>3 DEF CrashRestart
    <3>2. CASE writing = {}
      BY <3>1, <3>2 DEF Tree!abstract
    <3>3. CASE writing # {}
      <4>1. PICK h : h \in writing
        BY <3>3
      <4>2. /\ h \notin db \ writing /\ h # << >>
            /\ SubSeq(h, 1, Len(h) - 1) \in db \ writing
            /\ (db \ writing) \cup {h} = db
            /\ Tree!Wins(h) /\ writing = {h}
        BY <4>1, UpdateGrows
      <4>3. db' \ writing' = db
        BY <3>1
      <4>4. Tree!Tear(h)
        BY <3>1, <4>2, <4>3 DEF Tree!Tear, Tree!Arrives, Tree!Below
      <4>5. h \in db' \ writing'
        BY <4>2, <4>3
      <4>6. QED
        BY <4>4, <4>5 DEF Tree!Next
    <3>4. QED
      BY <3>2, <3>3
  <2>4. CASE UNCHANGED vars
    BY <2>4 DEF vars, Tree!abstract
  <2>5. QED
    BY <2>1, <2>2, <2>3, <2>4 DEF Next
<1>3. QED
  BY <1>1, <1>2, TypeCorrect, StoreIsSound, TipInvariant, PTL
     DEF Spec, ImplementsForkChoice, Tree!Spec
=============================================================================
