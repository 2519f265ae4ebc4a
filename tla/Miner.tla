------------------------------- MODULE Miner --------------------------------
(***************************************************************************)
(* One miner: the goroutines DigestUpdates, TxnService, BlockService and   *)
(* MiningService, the SubmitTxn handlers of clients, and the gossip        *)
(* goroutine that takes local updates, over the chain, the memory pool and *)
(* the buffered channels between them.                                     *)
(*                                                                         *)
(* A goroutine takes one step per lock, channel operation or shared write. *)
(* m.mu is held exactly while BlockService waits to notify or              *)
(* MiningService to publish, and m.rtMu exactly while a handler is between *)
(* its two sends: every other holder takes and releases it in one step, so *)
(* neither mutex needs a variable.                                         *)
(*                                                                         *)
(* Gossip is assumed to deliver an update once and a block after its       *)
(* parent and its transactions (CausalLog of Gossip).  Its lock rw is held *)
(* across steps only while an update that is recorded waits for queryChan. *)
(*                                                                         *)
(* An idle reader of a channel has the head of it in hand, while it waits  *)
(* for a mutex or for room in the next channel; so one more value fits in. *)
(*                                                                         *)
(* The database is written without a crash in between (BlockChain has it). *)
(***************************************************************************)
EXTENDS Ledger, MemoryPool

CONSTANTS Self,         \* this miner's MinerID
          Peer,         \* the MinerIDs of its peers
          Call,         \* SubmitTxn handlers
          MaxTxn,       \* Config.MaxTxn
          PoolCap, TxnCap, BlockCap, UpdatedCap, UpdateCap, QueryCap,
                        \* capacities: 200, 500, 50, 50, 500 and 500 in the code
          Claims,       \* bound: wrong block numbers that peers claim
          MaxHeight,    \* bound: longest chain explored
          MaxBlocks,    \* bound: most blocks in play, the genesis block included;
                        \* a wrong number and a restart take the place of one
          MaxRestarts   \* bound: restarts of the miner

ASSUME MinerAssumption ==
  /\ Self \notin Peer
  /\ MaxTxn \in Nat \ {0}
  /\ Claims \subseteq Num
  /\ {PoolCap, UpdatedCap} \subseteq Nat \ {0}
  /\ {TxnCap, BlockCap, UpdateCap, QueryCap, MaxRestarts} \subseteq Nat

VARIABLES
  blocks, lastHash,           \* Blockchain: stored blocks, tip
  uncled,                     \* history: transactions a fork switch took off the chain
  pool,                       \* MemoryPool
  received,                   \* ReceivedTxns
  txnChan, blockChan,         \* TxnRecvChan, BlockRecvChan
  updated,                    \* number of tokens in ChainUpdatedChan
  updateChan, queryChan,      \* updates for gossip to take, and from gossip
  filtering,                  \* the update that waits for queryChan with rw locked
  knownTxns, knownBlocks,     \* updates gossip has seen
  calls,                      \* handler -> where it is, and its transaction
  txnSvc, blockSvc, mineSvc,  \* where each service is, and what it has in hand
  newCycle, cand,             \* MiningService: newCycle, the chain pow.Block makes
  restarts

chain  == <<blocks, lastHash, uncled>>
gossip == <<updateChan, queryChan, filtering, knownTxns, knownBlocks>>
mining == <<mineSvc, newCycle, cand>>
vars   == <<chain, pool, received, txnChan, blockChan, updated, gossip,
            calls, txnSvc, blockSvc, mining, restarts>>

At(pc, x) == [pc |-> pc, of |-> x]
Idle      == [pc |-> "idle"]

MuFree   == blockSvc = Idle /\ mineSvc # "publish"
RwFree   == filtering = Idle
RtMuFree == \A c \in Call : calls[c].pc \notin {"queue", "gossip"}

(* Room in a channel, with the place in the hand of an idle reader.  Gossip *)
(* and DigestUpdates have nothing else to do than to read theirs.          *)
TxnRoom    == Len(txnChan) < IF txnSvc = Idle THEN TxnCap + 1 ELSE TxnCap
BlockRoom  == Len(blockChan) < IF blockSvc = Idle THEN BlockCap + 1 ELSE BlockCap
QueryRoom  == Len(queryChan) < QueryCap + 1
UpdateRoom == Len(updateChan) < UpdateCap + 1

TipBlock(h) == h[Len(h)]
TxnsOf(h)   == UNION {Range(h[n].txns) : n \in DOMAIN h}

TxnUpdate(t)   == [type |-> "txn", id |-> t]
BlockUpdate(h) == [type |-> "block", id |-> h]

-----------------------------------------------------------------------------
(* What is left of the bounds, for blocks, wrong numbers and restarts.     *)
InPlay == blocks \cup knownBlocks

Odd == {h \in InPlay \ {Genesis} : Number(h) # NextNum(Prev(h))}

Left == MaxBlocks - Cardinality(InPlay) - Cardinality(Odd) - restarts

(* A miner that starts with the genesis block and the pool of the peer it  *)
(* downloaded from: InitGossip marks the pool as known, ReceivedTxns does  *)
(* not.                                                                    *)
Init ==
  /\ blocks = {Genesis} /\ lastHash = Genesis /\ uncled = {}
  /\ pool \in {<< >>} \cup {<<t>> : t \in {t \in Txn : Data[t].signed}}
  /\ received = {}
  /\ txnChan = << >> /\ blockChan = << >> /\ updated = 0
  /\ updateChan = << >> /\ queryChan = << >> /\ filtering = Idle
  /\ knownTxns = Range(pool) /\ knownBlocks = blocks
  /\ calls = [c \in Call |-> Idle]
  /\ txnSvc = Idle /\ blockSvc = Idle
  /\ mineSvc = "loop" /\ newCycle = TRUE /\ cand = Genesis
  /\ restarts = 0

(* A crash and a start from disk: only the blocks and the tip survive, and *)
(* gossip knows them and their transactions.  A handler that was cut off   *)
(* may be called again.                                                    *)
Restart ==
  /\ restarts < MaxRestarts /\ Left > 0
  /\ restarts' = restarts + 1
  /\ pool' = << >> /\ received' = {}
  /\ txnChan' = << >> /\ blockChan' = << >> /\ updated' = 0
  /\ updateChan' = << >> /\ queryChan' = << >> /\ filtering' = Idle
  /\ knownTxns' = UNION {TxnsOf(h) : h \in blocks} /\ knownBlocks' = blocks
  /\ calls' = [c \in Call |-> IF calls[c].pc = "done" THEN calls[c] ELSE Idle]
  /\ txnSvc' = Idle /\ blockSvc' = Idle
  /\ mineSvc' = "loop" /\ newCycle' = TRUE /\ cand' = Genesis
  /\ uncled' = {}
  /\ UNCHANGED <<blocks, lastHash>>

-----------------------------------------------------------------------------
(* SubmitTxn and ReceiveTxn: under rtMu, an unseen transaction goes to     *)
(* TxnService and then to gossip, and the lock is kept while either waits. *)
SubmitTxn(c, t) ==
  /\ calls[c].pc = "idle"
  /\ Data[t].signed
  /\ RtMuFree
  /\ calls' = [calls EXCEPT ![c] = At(IF t \in received THEN "done" ELSE "queue", t)]
  /\ UNCHANGED <<chain, pool, received, txnChan, blockChan, updated, gossip,
                 txnSvc, blockSvc, mining, restarts>>

QueueTxn(c) ==
  /\ calls[c].pc = "queue"
  /\ TxnRoom
  /\ txnChan' = Append(txnChan, calls[c].of)
  /\ calls' = [calls EXCEPT ![c].pc = "gossip"]
  /\ UNCHANGED <<chain, pool, received, blockChan, updated, gossip,
                 txnSvc, blockSvc, mining, restarts>>

PublishTxn(c) ==
  /\ calls[c].pc = "gossip"
  /\ UpdateRoom
  /\ updateChan' = Append(updateChan, TxnUpdate(calls[c].of))
  /\ calls' = [calls EXCEPT ![c].pc = "done"]
  /\ UNCHANGED <<chain, pool, received, txnChan, blockChan, updated, queryChan,
                 filtering, knownTxns, knownBlocks, txnSvc, blockSvc, mining,
                 restarts>>

\* A faulty variant: the update is read and left in the channel.
DigestLocalUpdatePeek ==
  /\ updateChan # << >> /\ Head(updateChan).type = "block"
  /\ RwFree
  /\ knownBlocks' = knownBlocks \cup {Head(updateChan).id}
  /\ UNCHANGED <<chain, pool, received, txnChan, blockChan, updated, updateChan,
                 queryChan, filtering, knownTxns, calls, txnSvc, blockSvc, mining,
                 restarts>>

(* Gossip takes a local update, and waits for rw with it in hand.          *)
DigestLocalUpdate ==
  /\ updateChan # << >>
  /\ RwFree
  /\ updateChan' = Tail(updateChan)
  /\ LET u == Head(updateChan)
     IN  IF u.type = "txn"
         THEN knownTxns' = knownTxns \cup {u.id} /\ UNCHANGED knownBlocks
         ELSE knownBlocks' = knownBlocks \cup {u.id} /\ UNCHANGED knownTxns
  /\ UNCHANGED <<chain, pool, received, txnChan, blockChan, updated, queryChan,
                 filtering, calls, txnSvc, blockSvc, mining, restarts>>

(* filterIncomingUpdate: under rw, an update of a peer that gossip has not *)
(* seen is recorded and put in queryChan, and rw is kept while that is     *)
(* full.                                                                   *)
Query(u) == IF QueryRoom
            THEN queryChan' = Append(queryChan, u) /\ UNCHANGED filtering
            ELSE filtering' = At("query", u) /\ UNCHANGED queryChan

FilterTxn(t) ==
  /\ RwFree
  /\ t \notin knownTxns /\ Data[t].signed
  /\ knownTxns' = knownTxns \cup {t}
  /\ Query(TxnUpdate(t))
  /\ UNCHANGED <<chain, pool, received, txnChan, blockChan, updated, updateChan,
                 knownBlocks, calls, txnSvc, blockSvc, mining, restarts>>

FilterBlock(h) ==
  /\ RwFree
  /\ h \notin knownBlocks /\ Prev(h) \in knownBlocks
  /\ Range(TipBlock(h).txns) \subseteq knownTxns
  /\ knownBlocks' = knownBlocks \cup {h}
  /\ Query(BlockUpdate(h))
  /\ UNCHANGED <<chain, pool, received, txnChan, blockChan, updated, updateChan,
                 knownTxns, calls, txnSvc, blockSvc, mining, restarts>>

FilterEnd ==
  /\ filtering # Idle
  /\ QueryRoom
  /\ queryChan' = Append(queryChan, filtering.of)
  /\ filtering' = Idle
  /\ UNCHANGED <<chain, pool, received, txnChan, blockChan, updated, updateChan,
                 knownTxns, knownBlocks, calls, txnSvc, blockSvc, mining, restarts>>

(* DigestUpdates passes an update on to the service it is for.             *)
DigestUpdates ==
  /\ queryChan # << >>
  /\ LET u == Head(queryChan)
     IN  IF u.type = "txn"
         THEN /\ TxnRoom
              /\ txnChan' = Append(txnChan, u.id)
              /\ UNCHANGED blockChan
         ELSE /\ BlockRoom
              /\ blockChan' = Append(blockChan, u.id)
              /\ UNCHANGED txnChan
  /\ queryChan' = Tail(queryChan)
  /\ UNCHANGED <<chain, pool, received, updated, updateChan, filtering, knownTxns,
                 knownBlocks, calls, txnSvc, blockSvc, mining, restarts>>

-----------------------------------------------------------------------------
(* TxnService: mark under rtMu, and add to the pool after the unlock.      *)
Mark(marked) ==
  /\ received' = marked
  /\ txnSvc' = IF Head(txnChan) \in received THEN Idle ELSE At("add", Head(txnChan))
  /\ txnChan' = Tail(txnChan)
  /\ UNCHANGED <<chain, pool, blockChan, updated, gossip, calls, blockSvc, mining,
                 restarts>>

\* Faulty variants, for the mutation runs: rtMu is not taken; the
\* transaction is not marked.
MarkTxnUnlocked ==
  /\ txnSvc = Idle /\ txnChan # << >>
  /\ Mark(received \cup {Head(txnChan)})
MarkTxnForgotten ==
  /\ txnSvc = Idle /\ txnChan # << >> /\ RtMuFree
  /\ Mark(received)

MarkTxn ==
  /\ txnSvc = Idle /\ txnChan # << >>
  /\ RtMuFree
  /\ Mark(received \cup {Head(txnChan)})

AddTxnToPool ==
  /\ txnSvc # Idle
  /\ pool' = AddTxn(pool, txnSvc.of, PoolCap)
  /\ txnSvc' = Idle
  /\ UNCHANGED <<chain, received, txnChan, blockChan, updated, gossip,
                 calls, blockSvc, mining, restarts>>

-----------------------------------------------------------------------------
(* Blockchain.Put, as BlockChain describes it, in one step.                *)
Accepts(h) == /\ h \notin blocks
              /\ TipBlock(h).num # 0
              /\ Prev(h) \in blocks
              /\ TipBlock(h).pow
              /\ ReceiptsValid(Prev(h), TipBlock(h))

MovesTip(h) == Prev(h) = lastHash \/ Number(h) > Number(lastHash)

(* What the old chain has and the new one has not is gone for good: the    *)
(* oldTxns that Put returns are dropped (a TODO in BlockService).          *)
PutBlock(h) == /\ blocks' = blocks \cup {h}
               /\ lastHash' = IF MovesTip(h) THEN h ELSE lastHash
               /\ uncled' = uncled \cup (TxnsOf(lastHash) \ TxnsOf(lastHash'))

\* A faulty variant: a block of a side fork clears the pool too.
ClearedAlways(h) == RemoveTxns(pool, NewTxns(h, lastHash))

(* The pool after a block of a peer: on the tip, without the transactions  *)
(* of the block; after a fork switch, without those of the new branch.     *)
Cleared(h) == IF MovesTip(h) THEN RemoveTxns(pool, NewTxns(h, lastHash)) ELSE pool

(* BlockService: put a block under m.mu, clear the pool, and notify         *)
(* MiningService before the unlock when the tip has moved.  (A block with  *)
(* no proof of work is dropped before the lock; miners publish none.)      *)
PutPeerBlock ==
  /\ blockSvc = Idle /\ blockChan # << >>
  /\ MuFree
  /\ LET h == Head(blockChan)
     IN  IF ~Accepts(h)
         THEN UNCHANGED <<chain, pool, blockSvc>>
         ELSE /\ PutBlock(h)
              /\ pool' = Cleared(h)
              /\ blockSvc' = IF MovesTip(h) THEN At("notify", h) ELSE Idle
  /\ blockChan' = Tail(blockChan)
  /\ UNCHANGED <<received, txnChan, updated, gossip,
                 calls, txnSvc, mining, restarts>>

Notify ==
  /\ blockSvc # Idle
  /\ updated < UpdatedCap
  /\ updated' = updated + 1
  /\ blockSvc' = Idle
  /\ UNCHANGED <<chain, pool, received, txnChan, blockChan, gossip,
                 calls, txnSvc, mining, restarts>>

-----------------------------------------------------------------------------
\* A faulty variant: the token is taken and the old block kept.
SelectUpdateKept ==
  /\ mineSvc = "loop"
  /\ IF updated > 0 THEN updated' = updated - 1 /\ UNCHANGED mineSvc
                    ELSE mineSvc' = "step" /\ UNCHANGED updated
  /\ UNCHANGED <<chain, pool, received, txnChan, blockChan, gossip,
                 calls, txnSvc, blockSvc, newCycle, cand, restarts>>

(* MiningService: the select either takes a token or falls through.        *)
SelectUpdate ==
  /\ mineSvc = "loop"
  /\ IF updated > 0
     THEN updated' = updated - 1 /\ newCycle' = TRUE /\ UNCHANGED mineSvc
     ELSE mineSvc' = "step" /\ UNCHANGED <<updated, newCycle>>
  /\ UNCHANGED <<chain, pool, received, txnChan, blockChan, gossip,
                 calls, txnSvc, blockSvc, cand, restarts>>

\* A faulty variant: the selected transactions leave the pool at once.
WithoutSelected(selected, valid) == RemoveTxns(pool, Range(selected))

WithoutInvalid(selected, valid) == RemoveTxns(pool, Range(selected) \ Range(valid))

(* Under m.mu: select from the pool, validate, drop the invalid ones, and  *)
(* build a block on the tip.                                               *)
StartCycle ==
  /\ mineSvc = "step" /\ newCycle
  /\ MuFree
  /\ LET selected == Get(pool, MaxTxn)
         valid    == Selected(selected, {t \in Txn : Data[t].signed})
     IN  /\ \E b \in Built(lastHash, Self, valid) : cand' = Append(lastHash, b)
         /\ pool' = WithoutInvalid(selected, valid)
  /\ newCycle' = FALSE
  /\ mineSvc' = "loop"
  /\ UNCHANGED <<chain, received, txnChan, blockChan, updated, gossip,
                 calls, txnSvc, blockSvc, restarts>>

Room(prev) == Len(prev) < MaxHeight /\ Left > 0

(* One try of a nonce, which may succeed.                                  *)
TryNonce ==
  /\ mineSvc = "step" /\ ~newCycle
  /\ \/ mineSvc' = "loop"
     \/ mineSvc' = "found" /\ Room(Prev(cand))
  /\ UNCHANGED <<chain, pool, received, txnChan, blockChan, updated, gossip,
                 calls, txnSvc, blockSvc, newCycle, cand, restarts>>

\* A faulty variant: the channel is not looked at again.
NoChainUpdateUnseen == TRUE

NoChainUpdate == updated = 0

(* Under m.mu: put the block, unless the chain has been updated since.     *)
PutOwnBlock ==
  /\ mineSvc = "found"
  /\ MuFree
  /\ IF /\ NoChainUpdate
        /\ TipBlock(cand).num # 0 /\ Prev(cand) \in blocks /\ cand \notin blocks
     THEN PutBlock(cand) /\ mineSvc' = "publish" /\ UNCHANGED newCycle
     ELSE mineSvc' = "loop" /\ newCycle' = TRUE /\ UNCHANGED chain
  /\ UNCHANGED <<pool, received, txnChan, blockChan, updated, gossip,
                 calls, txnSvc, blockSvc, cand, restarts>>

(* Still under m.mu: broadcast the block, then clear the pool.             *)
PublishBlock ==
  /\ mineSvc = "publish"
  /\ UpdateRoom
  /\ updateChan' = Append(updateChan, BlockUpdate(cand))
  /\ pool' = RemoveTxns(pool, Range(TipBlock(cand).txns))
  /\ mineSvc' = "loop" /\ newCycle' = TRUE
  /\ UNCHANGED <<chain, received, txnChan, blockChan, updated, queryChan, filtering,
                 knownTxns, knownBlocks, calls, txnSvc, blockSvc, cand, restarts>>

-----------------------------------------------------------------------------
(* The blocks peers mine: any valid block on a block gossip knows, rightly *)
(* or wrongly numbered.                                                    *)
Numbers(prev) == {NextNum(prev)} \cup (IF Left > 1 THEN Claims ELSE {})

Batch == UNION {[1..n -> Txn] : n \in 0..MaxTxn}

Gossip ==
  \/ DigestLocalUpdate
  \/ FilterEnd
  \/ \E t \in Txn : FilterTxn(t)
  \/ \E prev \in knownBlocks, p \in Peer, txns \in Batch :
       /\ Room(prev)
       /\ \E b \in Built(prev, p, txns), num \in Numbers(prev) :
            FilterBlock(Append(prev, [b EXCEPT !.num = num]))

Client == \E c \in Call :
  \/ \E t \in Txn : SubmitTxn(c, t)
  \/ QueueTxn(c)
  \/ PublishTxn(c)

TxnService == MarkTxn \/ AddTxnToPool

BlockService == PutPeerBlock \/ Notify

MiningService ==
  SelectUpdate \/ StartCycle \/ TryNonce \/ PutOwnBlock \/ PublishBlock

Next == \/ Gossip \/ DigestUpdates \/ Client
        \/ TxnService \/ BlockService \/ MiningService
        \/ Restart

Spec == Init /\ [][Next]_vars

(* The Go runtime lets a goroutine go on that can: each service, and a     *)
(* handler that has begun, is a sequence of steps with one enabled at a    *)
(* time.  Nothing makes a nonce succeed (TryNonce is fair, its success is  *)
(* not), and clients, peers and restarts owe nothing.                      *)
Fairness ==
  /\ WF_vars(TxnService) /\ WF_vars(BlockService) /\ WF_vars(MiningService)
  /\ WF_vars(DigestUpdates) /\ WF_vars(DigestLocalUpdate) /\ WF_vars(FilterEnd)
  /\ \A c \in Call : WF_vars(QueueTxn(c) \/ PublishTxn(c))

FairSpec == Spec /\ Fairness

-----------------------------------------------------------------------------
Block == [miner : Peer \cup {Self}, num : Num, pow : BOOLEAN, txns : Seq(Txn), codes : Seq(Code)]
Chain == Seq(Block)

Update == [type : {"txn"}, id : Txn] \cup [type : {"block"}, id : Chain]

(* Every variable has its type, and the channels keep within capacity.     *)
TypeOK ==
  /\ blocks \cup knownBlocks \subseteq Chain /\ lastHash \in blocks
  /\ uncled \subseteq Txn
  /\ pool \in Seq(Txn) /\ Len(pool) <= PoolCap
  /\ received \cup knownTxns \subseteq Txn
  /\ txnChan \in Seq(Txn) /\ Len(txnChan) <= TxnCap + 1
  /\ blockChan \in Seq(Chain) /\ Len(blockChan) <= BlockCap + 1
  /\ updated \in 0..UpdatedCap
  /\ updateChan \in Seq(Update) /\ Len(updateChan) <= UpdateCap + 1
  /\ queryChan \in Seq(Update) /\ Len(queryChan) <= QueryCap + 1
  /\ filtering = Idle \/ filtering \in [pc : {"query"}, of : Update]
  /\ calls \in [Call -> {Idle} \cup [pc : {"queue", "gossip", "done"}, of : Txn]]
  /\ txnSvc = Idle \/ txnSvc \in [pc : {"add"}, of : Txn]
  /\ blockSvc = Idle \/ blockSvc \in [pc : {"notify"}, of : Chain]
  /\ mineSvc \in {"loop", "step", "found", "publish"}
  /\ newCycle \in BOOLEAN /\ cand \in Chain
  /\ restarts \in 0..MaxRestarts

(* "fork switch impossible": a block this miner puts extends the tip it    *)
(* finds, although the nonce was searched with no lock held.               *)
OwnBlockExtendsTip == [][
  mineSvc' = "publish" /\ mineSvc = "found"
  => Prev(cand) = lastHash /\ lastHash' = cand]_vars

(* Gossip gets a block of this miner only after the parent and the         *)
(* transactions of it: the order every peer relies on, since Put drops a   *)
(* block whose parent is missing and nothing asks for it again.            *)
PublishedInOrder == \A i \in DOMAIN updateChan :
  LET u       == updateChan[i]
      earlier == {updateChan[j] : j \in 1..(i - 1)}
  IN  u.type = "block" =>
        /\ Prev(u.id) \in knownBlocks \/ BlockUpdate(Prev(u.id)) \in earlier
        /\ \A t \in Range(TipBlock(u.id).txns) :
              t \in knownTxns \/ TxnUpdate(t) \in earlier

(* What follows of the pool holds while nothing has to make room in it.    *)
PoolHoldsAll == IsFiniteSet(Txn) /\ Cardinality(Txn) <= PoolCap

(* A transaction marked as received will not be taken again, so losing it  *)
(* loses it for good.  It is waiting, in hand, or on the chain the miner   *)
(* works on, unless a fork switch has taken it off the chain: that is the  *)
(* only way to lose one, and nothing in the code recovers it.              *)
LostOnlyByForkSwitch == PoolHoldsAll => \A t \in received :
  \/ t \in Range(pool)
  \/ txnSvc = At("add", t)
  \/ t \in TxnsOf(lastHash)
  \/ t \in uncled

(* The pool gives up a transaction only to the chain the miner works on,   *)
(* not to a side fork that may never win (or in a restart).                *)
PoolLosesOnlyToChain ==
  [][PoolHoldsAll => \A t \in Range(pool) \ Range(pool') :
       t \in TxnsOf(lastHash') \/ restarts' # restarts]_vars

(* "All valid transactions are committed and appear exactly once": the     *)
(* part a miner answers for, that its own block repeats nothing.           *)
MinedOnce == mineSvc = "publish" =>
  /\ IsInjective(TipBlock(cand).txns)
  /\ Range(TipBlock(cand).txns) \cap TxnsOf(Prev(cand)) = {}

(* Who waits for whom when channels are full: four circles of goroutines,  *)
(* each with a mutex locked that another one of them needs.                *)
TxnCircle ==
  /\ \E c \in Call : calls[c].pc = "queue"
  /\ txnSvc = Idle /\ ~TxnRoom

RwCircle(type) ==
  /\ ~UpdateRoom
  /\ filtering # Idle
  /\ ~QueryRoom /\ Head(queryChan).type = type

SubmitCircle ==
  /\ \E c \in Call : calls[c].pc = "gossip"
  /\ RwCircle("txn")
  /\ txnSvc = Idle /\ ~TxnRoom

BlockCircle ==
  /\ mineSvc = "publish"
  /\ RwCircle("block")
  /\ blockSvc = Idle /\ ~BlockRoom

NotifyCircle ==
  /\ blockSvc # Idle /\ updated = UpdatedCap
  /\ mineSvc = "found" \/ (mineSvc = "step" /\ newCycle)

Stuck == TxnCircle \/ SubmitCircle \/ BlockCircle \/ NotifyCircle

(* The miner does not hash on a stale block for ever: it is again and      *)
(* again at work on the tip, whoever moved it, unless it is stuck in one   *)
(* of these circles; there is no other way for it to stop.                 *)
WorksOnTip == []<>(Stuck \/ (cand # Genesis /\ Prev(cand) = lastHash))

(* SubmitTxn "is non-blocking": it returns.                                *)
SubmitReturns == \A c \in Call : calls[c].pc = "queue" ~> calls[c].pc = "done"

(* It does return, and the transaction it took reaches TxnService, unless  *)
(* the miner gets stuck or is restarted.                                   *)
SubmitReturnsOrStuck == \A c \in Call :
  calls[c].pc = "queue" ~> calls[c].pc \in {"done", "idle"} \/ Stuck

SubmittedReceived == \A t \in Txn :
  (\E c \in Call : calls[c] = At("gossip", t)) ~>
     t \in received \/ Stuck \/ restarts > 0
=============================================================================
