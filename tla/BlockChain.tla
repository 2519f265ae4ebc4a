----------------------------- MODULE BlockChain -----------------------------
(***************************************************************************)
(* The block store of one node: blockchain.BlockChain over its database.   *)
(*                                                                         *)
(* Put runs under bc.mu, but it writes the database twice: the block, and  *)
(* then, when the block becomes the tip, LastHashKey.  A crash between the *)
(* two writes keeps the first and loses the second, and ResumeFromDB takes *)
(* the old tip.  The two writes are two actions here; the memory copy of   *)
(* LastHash and the stored one change together and are one variable.       *)
(***************************************************************************)
EXTENDS Ledger

CONSTANTS Miner,        \* miners of the network, this node's own among them
          Claims,       \* bound: wrong block numbers that peers claim
          MaxOdd,       \* bound: blocks in the store with a wrong number
          MaxTxn,       \* most transactions of a block
          MaxHeight,    \* bound: longest chain explored
          MaxBlocks,    \* bound: most blocks in the store, the genesis block included
          MaxCrashes    \* bound: crashes

ASSUME BlockChainAssumption == Claims \subseteq Num

VARIABLES db,           \* blocks in the database, each with the chain below it
          lastHash,     \* LastHash and the value under LastHashKey
          writing,      \* the block Put has stored and whose tip update is due
          torn,         \* blocks whose tip update a crash has lost
          crashes

vars == <<db, lastHash, writing, torn, crashes>>

Block == [miner : Miner, num : Num, pow : BOOLEAN, txns : Seq(Txn), codes : Seq(Code)]

Chain == Seq(Block)

-----------------------------------------------------------------------------
Init == /\ db = {Genesis}
        /\ lastHash = Genesis
        /\ writing = {}
        /\ torn = {}
        /\ crashes = 0

Unlocked == writing = {}        \* bc.mu is free

Store(h, advances) == /\ db' = db \cup {h}
                      /\ writing' = IF advances THEN {h} ELSE {}
                      /\ UNCHANGED <<lastHash, torn, crashes>>

\* Faulty variants of Put, for the mutation runs: the tip is written before
\* the block; the parent is not looked up; a fork of equal length wins; only
\* a block on the tip moves the tip.
PutTipFirst(prev, b, owned) ==
  /\ Unlocked /\ b.num # 0 /\ prev \in db /\ Append(prev, b) \notin db
  /\ ~owned => b.pow /\ ReceiptsValid(prev, b)
  /\ lastHash' = Append(prev, b)
  /\ UNCHANGED <<db, writing, torn, crashes>>
PutOrphan(prev, b, owned) ==
  /\ Unlocked /\ b.num # 0 /\ Append(prev, b) \notin db
  /\ ~owned => b.pow /\ ReceiptsValid(prev, b)
  /\ Store(Append(prev, b), b.num > Number(lastHash))
PutLastWins(prev, b, owned) ==
  /\ Unlocked /\ b.num # 0 /\ prev \in db /\ Append(prev, b) \notin db
  /\ ~owned => b.pow /\ ReceiptsValid(prev, b)
  /\ Store(Append(prev, b), prev = lastHash \/ b.num >= Number(lastHash))
PutNoSwitch(prev, b, owned) ==
  /\ Unlocked /\ b.num # 0 /\ prev \in db /\ Append(prev, b) \notin db
  /\ ~owned => b.pow /\ ReceiptsValid(prev, b)
  /\ Store(Append(prev, b), prev = lastHash)

(* Put, up to the first write.  prev is the block's PrevHash.  Of what the *)
(* first sanity check looks for, the fields that are left out are those of *)
(* any block, and only the genesis block has an empty PrevHash.  A block   *)
(* on the tip becomes the tip, whatever its number; another one does when  *)
(* the number it claims is higher than the tip's.                          *)
Put(prev, b, owned) ==
  LET h == Append(prev, b)
  IN  /\ Unlocked
      /\ b.num # 0
      /\ prev \in db
      /\ h \notin db
      /\ ~owned => b.pow /\ ReceiptsValid(prev, b)
      /\ Store(h, prev = lastHash \/ b.num > Number(lastHash))

(* The second write, with the branch of the fork switch and without it.    *)
UpdateTip == \E h \in writing :
  /\ lastHash' = h
  /\ writing' = {}
  /\ UNCHANGED <<db, torn, crashes>>

CrashRestart ==
  /\ crashes < MaxCrashes
  /\ crashes' = crashes + 1
  /\ torn' = torn \cup writing
  /\ writing' = {}
  /\ UNCHANGED <<db, lastHash>>

-----------------------------------------------------------------------------
(* The inputs: blocks of peers, rightly or wrongly numbered, on any stored *)
(* block or on one this node has not seen, and the node's own blocks,      *)
(* built on the tip.                                                       *)

Batch == UNION {[1..n -> Txn] : n \in 0..MaxTxn}

Room(prev) == Len(prev) < MaxHeight /\ Cardinality(db) < MaxBlocks

Unseen == {Append(h, [miner |-> m, num |-> NextNum(h), pow |-> TRUE,
                     txns |-> << >>, codes |-> << >>]) : h \in db, m \in Miner} \ db

Odd == {h \in db \ {Genesis} : Number(h) # NextNum(Prev(h))}

Numbers(prev) ==
  {NextNum(prev)} \cup (IF Cardinality(Odd) < MaxOdd THEN Claims ELSE {})

PutPeer ==
  \E prev \in db \cup Unseen, m \in Miner, pow \in BOOLEAN, txns \in Batch :
    /\ Unlocked /\ Room(prev)
    /\ \E num \in Numbers(prev) :
         \E b \in Claimed(prev, m, num, pow, txns) : Put(prev, b, FALSE)

PutOwn ==
  \E m \in Miner, txns \in Batch :
    /\ Unlocked /\ Room(lastHash)
    /\ \E b \in Built(lastHash, m, txns) : Put(lastHash, b, TRUE)

Next == PutPeer \/ PutOwn \/ UpdateTip \/ CrashRestart

Spec == Init /\ [][Next]_vars

-----------------------------------------------------------------------------
(* Every stored thing has its type, and at most one update is under way.   *)
TypeOK == /\ db \subseteq Chain
          /\ lastHash \in db
          /\ writing \subseteq db
          /\ \A g, h \in writing : g = h
          /\ torn \subseteq db
          /\ crashes \in Nat

(* Every stored chain can be walked down to the genesis block (Get of a    *)
(* missing block ends the process), and the walk does not end before it    *)
(* (Next takes number 0 for the genesis block); each block meets the proof *)
(* of work and carries the receipts this node computes, on every fork,     *)
(* whatever peers offer and whenever the node crashes.                     *)
StoreSound == \A h \in db \ {Genesis} :
  /\ Prev(h) \in db
  /\ Number(h) # 0
  /\ h[Len(h)].pow
  /\ ReceiptsValid(Prev(h), h[Len(h)])

(* The blocks of a chain have the numbers that miners give them.  Nothing  *)
(* in Put asks for it: what rests on it is said to rest on it.             *)
Numbered(c) == \A n \in DOMAIN c : c[n].num = n

(* A user has at most one successful vote in a poll, on every fork:        *)
(* NoVotes holds across blocks and among the transactions of one block.    *)
OneVote(c) == \A d, e \in Past(c) :
  /\ Data[d.txn].method = "Vote" /\ Data[e.txn].method = "Vote"
  /\ Data[d.txn].poll = Data[e.txn].poll /\ Data[d.txn].key = Data[e.txn].key
  => d = e

OneVotePerUser == \A h \in db : OneVote(h)

(* The life of a poll, on every fork: it is launched at most once and ends *)
(* at most once, no vote comes after the end, and a vote or an end has a   *)
(* launch before it (so the event whose Rules they read is a launch, and   *)
(* the type assertion cannot fail).  The duration of that launch has not   *)
(* passed, in blocks, as long as the blocks below are rightly numbered: a  *)
(* wrong number makes a poll longer or shorter.                            *)
Before(d, e) == d.at < e.at \/ (d.at = e.at /\ d.idx < e.idx)

SamePoll(d, e) == Data[d.txn].poll = Data[e.txn].poll

LaunchedAndEndedOnce(c) == \A d, e \in Past(c) :
  /\ SamePoll(d, e)
  /\ Data[d.txn].method = Data[e.txn].method
  /\ Data[d.txn].method \in {"Launch", "Terminate"}
  => d = e

NoVoteAfterEnd(c) == \A d, e \in Past(c) :
  /\ SamePoll(d, e)
  /\ Data[d.txn].method = "Vote"
  /\ Data[e.txn].method = "Terminate"
  => Before(d, e)

WithinLaunch(c) == \A e \in Past(c) : Data[e.txn].method # "Launch" =>
  \E l \in Past(c) :
    /\ Data[l.txn].method = "Launch"
    /\ SamePoll(l, e)
    /\ Before(l, e)
    /\ Numbered(SubSeq(c, 1, e.at - 1))
         => ~(/\ Data[l.txn].rules.duration > 0
              /\ e.at - l.at > Data[l.txn].rules.duration)

PollHistory(c) == LaunchedAndEndedOnce(c) /\ NoVoteAfterEnd(c) /\ WithinLaunch(c)

PollLife == \A h \in db : PollHistory(h)

(* While every block of the store is rightly numbered, the tip is a        *)
(* longest chain of it, except for the blocks a crash has torn: a later    *)
(* longer fork still wins, whatever was torn before.                       *)
TipLongestButTorn ==
  (\A h \in db : Numbered(h))
  => \A h \in db \ (writing \cup torn) : Len(h) <= Len(lastHash)

(* "the longest chain" of the comments on TxnStatus and _ValidateTxn,      *)
(* whenever no Put is under way.                                           *)
TipLongest == Unlocked => \A h \in db : Len(h) <= Len(lastHash)

(* A vote that QueryTxn reports as successful under NumConfirmed blocks is *)
(* counted by QueryResults: the two skip counts agree, at every height.    *)
Reported(c, poll, option) ==
  {t \in Txn : /\ Data[t].method = "Vote" /\ Data[t].poll = poll
               /\ option \in Range(Data[t].choice)
               /\ TxnStatus(c, t).code = "Success"
               /\ TxnStatus(c, t).confirmed >= NumConfirmed}

Launched(c) == {Data[e.txn].poll : e \in Past(ConfirmedPart(c))}

OptionsOf(c, poll) ==
  Data[(CHOOSE e \in Past(c) : Data[e.txn].method = "Launch" /\
                               Data[e.txn].poll = poll).txn].rules.options

TallyCoversReported == \A t \in Txn :
  (Data[t].method = "Vote" /\ \E option \in Range(Data[t].choice) :
                                 t \in Reported(lastHash, Data[t].poll, option))
  => /\ Data[t].poll \in Launched(lastHash)
     /\ LET poll    == Data[t].poll
            options == OptionsOf(lastHash, poll)
        IN  \A i \in DOMAIN options :
              VotingStatus(lastHash, poll).counts[i]
                >= Cardinality(Reported(lastHash, poll, options[i]))

(* What VotingStatus reads changes only by growing, unless a fork switch   *)
(* drops more than NumConfirmed blocks: a shallow fork never takes back a  *)
(* result that was shown.  (To or from a wrongly numbered tip, which may   *)
(* be shorter than the one it replaces, it may.)                           *)
ConfirmedStable == [][
  /\ Numbered(lastHash) /\ Numbered(lastHash')
  /\ Cardinality(OffChain(lastHash, lastHash')) <= NumConfirmed
  => OffChain(ConfirmedPart(lastHash), ConfirmedPart(lastHash')) = {}]_vars

(* Once the confirmed part has the end of a poll, its result is final as   *)
(* long as the confirmed part only grows.  An end by an admin is final     *)
(* whatever blocks are numbered.  An end by duration, a block number that  *)
(* the confirmed part has reached, is final while the blocks are rightly   *)
(* numbered (and the end, a uint, is not before the start).                *)
Terminated(c, poll) ==
  \E e \in Past(ConfirmedPart(c)) :
    Data[e.txn].poll = poll /\ Data[e.txn].method = "Terminate"

TimedOut(c, poll) == LET status == VotingStatus(c, poll)
                     IN  /\ status.end > status.start
                         /\ status.end <= Len(c) - NumConfirmed

EndedPollFrozen == [][
  OffChain(ConfirmedPart(lastHash), ConfirmedPart(lastHash')) = {}
  => \A poll \in {Data[t].poll : t \in Txn} :
       \/ Terminated(lastHash, poll)
       \/ TimedOut(lastHash, poll) /\ Numbered(ConfirmedPart(lastHash'))
       => VotingStatus(lastHash', poll) = VotingStatus(lastHash, poll)]_vars

(* The store implements a tree with a head: the two writes of Put are one  *)
(* step of it, and a crash between them is a Tear.                         *)
Tree == INSTANCE ForkChoice
          WITH tree <- db \ writing, head <- lastHash, lost <- torn

ImplementsForkChoice == Tree!Spec
=============================================================================
