------------------------------- MODULE Ledger -------------------------------
(***************************************************************************)
(* The pure part of package blockchain: what a chain of blocks means.      *)
(*                                                                         *)
(* A hash is modelled by the chain it stands for: the sequence of blocks   *)
(* after the genesis block, which is the empty sequence.  PrevHash is      *)
(* Front.  A node takes the Hash that a block comes with, but refuses one  *)
(* that it has and a predecessor that it has not, so in one store a hash   *)
(* names one block, with one chain below it.                               *)
(*                                                                         *)
(* A block is a record                                                     *)
(*   miner  MinerID, timestamp, nonce and Hash: what makes equal contents  *)
(*          differ                                                         *)
(*   num    BlockNum, as the block claims it: a miner sets its parent's    *)
(*          plus one, but no node checks that a peer did                   *)
(*   pow    the difficulty is the one the node computes, and the nonce     *)
(*          meets it                                                       *)
(*   txns   the transactions, in block order                               *)
(*   codes  the Receipt.Code of each transaction                           *)
(*                                                                         *)
(* A transaction is a value of the set Txn (its ID), and Data[t] is what   *)
(* the ID hashes: method, poll, key (public key), rules (of a launch),     *)
(* choice (of a vote), and signed, whether the signature verifies.         *)
(***************************************************************************)
EXTENDS Integers, Sequences, FiniteSets, Functions

CONSTANTS Txn,           \* transaction IDs
          Data,          \* [Txn -> payload]
          NumConfirmed,  \* blocks at the tip that VotingStatus skips (4)
          MaxNum         \* largest uint (2^64 - 1)

Num == 0..MaxNum         \* uint, in which block numbers are counted

ASSUME LedgerAssumption == /\ NumConfirmed \in Nat
                           /\ MaxNum \in Nat \ {0}
                           /\ Data = [t \in Txn |-> Data[t]]
                           /\ \A t \in Txn : Data[t].method = "Launch"
                                => Data[t].rules.duration \in Num

Plus(m, n)  == IF m + n <= MaxNum THEN m + n ELSE m + n - MaxNum - 1
Minus(m, n) == IF m >= n THEN m - n ELSE m - n + MaxNum + 1

Genesis == << >>

Prev(h) == SubSeq(h, 1, Len(h) - 1)    \* PrevHash

Number(c) == IF c = Genesis THEN 0 ELSE c[Len(c)].num

NextNum(c) == Plus(Number(c), 1)

Code == {"Success", "InvalidSignature", "InvalidPayloadMethod",
         "InvalidPollID", "PollExpired", "AdminNotSet", "InvalidVotesPerUser",
         "NotEnoughOptions", "PollIDExist", "BannedUser", "InvalidOptions",
         "NoVotes", "PollAlreadyEnded", "UnauthorizedUser"}

(* What the query handler finds: one entry for each transaction that       *)
(* succeeded, with its block's place in the chain, the number that block   *)
(* claims, and its place in the block.                                     *)

Success(b) == {j \in DOMAIN b.txns : b.codes[j] = "Success"}

Entries(n, num, txns, S) ==
  {[at |-> n, num |-> num, idx |-> j, txn |-> txns[j]] : j \in S}

Past(c) == UNION {Entries(n, c[n].num, c[n].txns, Success(c[n])) : n \in DOMAIN c}

Of(past, poll, methods) ==
  {e \in past : Data[e.txn].poll = poll /\ Data[e.txn].method \in methods}

Events(past, poll) == Of(past, poll, {"Launch", "Terminate"})

Votes(past, poll) == Of(past, poll, {"Vote"})

-----------------------------------------------------------------------------
(* Validation of one payload against the entries of its past; next is the  *)
(* number after that of the last block (NextBlockNum), whatever number the *)
(* block that the transaction is in may claim.                             *)

\* A faulty variant, for the mutation runs: one block too late.
ExpiredLate(rules, numBlocks) == rules.duration > 0 /\ numBlocks > rules.duration + 1

Expired(rules, numBlocks) == rules.duration > 0 /\ numBlocks > rules.duration

ValidOptions(rules, choice) ==
  /\ Len(choice) \in 1..rules.votesPerUser
  /\ IsInjective(choice)
  /\ Range(choice) \subseteq Range(rules.options)

ValidateLaunch(t, past) ==
  LET rules == Data[t].rules
  IN  IF rules.admins = {} /\ rules.duration = 0      THEN "AdminNotSet"
      ELSE IF rules.votesPerUser = 0                  THEN "InvalidVotesPerUser"
      ELSE IF Len(rules.options) < 2                  THEN "NotEnoughOptions"
      ELSE IF \E e \in past : Data[e.txn].poll = Data[t].poll
                                                      THEN "PollIDExist"
      ELSE "Success"

\* A faulty variant: looks for a launch only, and misses the end of the poll.
ValidateVoteLaunched(t, past, next) ==
  LET launches == Of(past, Data[t].poll, {"Launch"})
  IN  IF launches = {}                                THEN "InvalidPollID"
      ELSE IF \E e \in Votes(past, Data[t].poll) : Data[e.txn].key = Data[t].key
                                                      THEN "NoVotes"
      ELSE "Success"

(* With one event on the chain, txns[0] is that event.                     *)
ValidateVote(t, past, next) ==
  LET events == Events(past, Data[t].poll)
      launch == CHOOSE e \in events : TRUE
      rules  == Data[launch.txn].rules
  IN  IF events = {}                                  THEN "InvalidPollID"
      ELSE IF \E d, e \in events : d # e              THEN "PollExpired"
      ELSE IF \E e \in Votes(past, Data[t].poll) : Data[e.txn].key = Data[t].key
                                                      THEN "NoVotes"
      ELSE IF Expired(rules, Minus(next, launch.num))       THEN "PollExpired"
      ELSE IF Data[t].key \in rules.banned            THEN "BannedUser"
      ELSE IF ~ValidOptions(rules, Data[t].choice)    THEN "InvalidOptions"
      ELSE "Success"

ValidateTerminate(t, past, next) ==
  LET events == Events(past, Data[t].poll)
      launch == CHOOSE e \in events : TRUE
      rules  == Data[launch.txn].rules
  IN  IF events = {}                                  THEN "InvalidPollID"
      ELSE IF \E d, e \in events : d # e              THEN "PollAlreadyEnded"
      ELSE IF Expired(rules, Minus(next, launch.num))       THEN "PollAlreadyEnded"
      ELSE IF Data[t].key \notin rules.admins         THEN "UnauthorizedUser"
      ELSE "Success"

Validate(t, past, next) ==
  IF ~Data[t].signed                     THEN "InvalidSignature"
  ELSE IF Data[t].method = "Launch"      THEN ValidateLaunch(t, past)
  ELSE IF Data[t].method = "Vote"        THEN ValidateVote(t, past, next)
  ELSE IF Data[t].method = "Terminate"   THEN ValidateTerminate(t, past, next)
  ELSE "InvalidPayloadMethod"

-----------------------------------------------------------------------------
(* _ValidateTxns validates the transactions of a block in order, each      *)
(* against the chain prev and the earlier ones that succeeded.  Seen() is  *)
(* that past when S is the set of places in the block that succeed.        *)

\* A faulty variant: the pending transactions are not looked at.
SeenOnChain(prev, txns, S, j) == Past(prev)

Seen(prev, txns, S, j) ==
  Past(prev) \cup Entries(Len(prev) + 1, NextNum(prev), txns, {i \in S : i < j})

Receipts(prev, txns, S) ==
  [j \in DOMAIN txns |-> Validate(txns[j], Seen(prev, txns, S, j), NextNum(prev))]

(* checkCode: every signature verifies and every claimed code is the one   *)
(* this node computes; an earlier claim that differs already rejects the   *)
(* block, so the claims themselves say which transactions succeeded.       *)
ReceiptsValid(prev, b) ==
  /\ \A j \in DOMAIN b.txns : Data[b.txns[j]].signed
  /\ b.codes = Receipts(prev, b.txns, Success(b))

(* The block a miner builds: the codes are set rather than checked.  The   *)
(* one S that reproduces itself is the result of validating in order.      *)
Built(prev, miner, txns) ==
  {b \in {[miner |-> miner, num |-> NextNum(prev), pow |-> TRUE, txns |-> txns,
           codes |-> Receipts(prev, txns, S)] : S \in SUBSET DOMAIN txns} :
     ReceiptsValid(prev, b)}

(* A block of a peer, which may claim any number, and any transaction to   *)
(* have succeeded.                                                         *)
Claimed(prev, miner, num, pow, txns) ==
  {LET due == Receipts(prev, txns, S)
   IN  [miner |-> miner, num |-> num, pow |-> pow, txns |-> txns,
        codes |-> [j \in DOMAIN txns |-> IF j \in S THEN "Success" ELSE due[j]]] :
     S \in SUBSET DOMAIN txns}

-----------------------------------------------------------------------------
(* The read side: what TxnStatus and VotingStatus answer for a chain.      *)

\* Faulty variants: one block too few or too many is skipped.
ConfirmedEarly(c) == SubSeq(c, 1, Len(c) - NumConfirmed + 1)
ConfirmedLate(c)  == SubSeq(c, 1, Len(c) - NumConfirmed - 1)

ConfirmedPart(c) == SubSeq(c, 1, Len(c) - NumConfirmed)

NotFound == [confirmed |-> -1, code |-> "None"]

(* Newest block first; within the block, first place first.                *)
TxnStatus(c, t) ==
  LET blocks  == {n \in DOMAIN c : t \in Range(c[n].txns)}
      n       == CHOOSE n \in blocks : \A m \in blocks : m <= n
      places  == {j \in DOMAIN c[n].txns : c[n].txns[j] = t}
      j       == CHOOSE j \in places : \A i \in places : j <= i
  IN  IF blocks = {} THEN NotFound
      ELSE [confirmed |-> Len(c) - n, code |-> c[n].codes[j]]

NoPoll == [start |-> 0, end |-> 0, counts |-> << >>]

VotingStatus(c, poll) ==
  LET past   == Past(ConfirmedPart(c))
      events == Events(past, poll)
      launch == CHOOSE e \in events : Data[e.txn].method = "Launch"
      ended  == {e \in events : Data[e.txn].method = "Terminate"}
      rules  == Data[launch.txn].rules
  IN  IF Cardinality(events) \notin {1, 2} THEN NoPoll
      ELSE [start  |-> launch.num,
            end    |-> IF ended # {}           THEN (CHOOSE e \in ended : TRUE).num
                       ELSE IF rules.duration = 0 THEN 0
                       ELSE Plus(launch.num, rules.duration),
            counts |-> [i \in DOMAIN rules.options |->
                          Cardinality({e \in Votes(past, poll) :
                             rules.options[i] \in Range(Data[e.txn].choice)})]]

(* CheckoutFork: the transactions of the new chain after the first block   *)
(* in which it differs from the old one.                                   *)
OffChain(new, old) ==
  {n \in DOMAIN new : n > Len(old) \/ SubSeq(new, 1, n) # SubSeq(old, 1, n)}

NewTxns(new, old) == UNION {Range(new[n].txns) : n \in OffChain(new, old)}
=============================================================================
