---------------------------- MODULE Miner_proofs ----------------------------
(***************************************************************************)
(* Theorems about a miner: its own blocks, the order in which it publishes *)
(* and what its pool keeps, for every set of transactions, peers and       *)
(* handlers, every capacity of channels and every bound.                   *)
(***************************************************************************)
EXTENDS Miner, Selection_proofs, TLAPS

-----------------------------------------------------------------------------
(* Sequences of whatever.                                                  *)
IsSeq(s) == \E S : s \in Seq(S)

LEMMA SeqAppend ==
  ASSUME NEW s, IsSeq(s), NEW e
  PROVE  /\ IsSeq(Append(s, e))
         /\ DOMAIN Append(s, e) = 1..(Len(s) + 1)
         /\ DOMAIN s = 1..Len(s) /\ Len(s) \in Nat
         /\ Append(s, e)[Len(s) + 1] = e
         /\ \A n \in DOMAIN s : Append(s, e)[n] = s[n]
         /\ Prev(Append(s, e)) = s
<1>1. PICK S : s \in Seq(S)
  BY DEF IsSeq
<1> DEFINE T == S \cup {e}
<1>2. s \in Seq(T) /\ e \in T
  BY <1>1
<1> HIDE DEF T
<1>3. /\ Append(s, e) \in Seq(T)
      /\ Len(Append(s, e)) = Len(s) + 1
      /\ Len(s) \in Nat
      /\ DOMAIN s = 1..Len(s)
      /\ DOMAIN Append(s, e) = 1..(Len(s) + 1)
      /\ Append(s, e)[Len(s) + 1] = e
      /\ \A n \in DOMAIN s : Append(s, e)[n] = s[n]
  BY <1>2
<1>4. SubSeq(Append(s, e), 1, Len(s)) = s
  BY <1>2, <1>3
<1>5. QED
  BY <1>3, <1>4 DEF IsSeq, Prev

LEMMA SeqTail ==
  ASSUME NEW s, IsSeq(s), s # << >>
  PROVE  /\ IsSeq(Tail(s))
         /\ 1 \in DOMAIN s /\ Head(s) = s[1]
         /\ \A n \in DOMAIN Tail(s) : n + 1 \in DOMAIN s /\ Tail(s)[n] = s[n + 1]
<1>1. PICK S : s \in Seq(S)
  BY DEF IsSeq
<1>2. Tail(s) \in Seq(S)
  BY <1>1
<1>3. /\ 1 \in DOMAIN s /\ Head(s) = s[1]
      /\ \A n \in DOMAIN Tail(s) : n + 1 \in DOMAIN s /\ Tail(s)[n] = s[n + 1]
  BY <1>1
<1>4. QED
  BY <1>2, <1>3 DEF IsSeq

LEMMA SeqEmpty ==
  IsSeq(<< >>) /\ DOMAIN << >> = {}
<1>1. << >> \in Seq({})
  OBVIOUS
<1>2. QED
  BY <1>1 DEF IsSeq

-----------------------------------------------------------------------------
(* Every hash is a chain, wherever it is: stored, mined, known to gossip,  *)
(* or on its way in a channel.                                             *)
ChainsStored == /\ IsSeq(lastHash) /\ IsSeq(cand)
                /\ \A h \in blocks \cup knownBlocks : IsSeq(h)

Carries(u) == u.type # "txn" => IsSeq(u.id)

ChainsSent == /\ IsSeq(updateChan) /\ \A n \in DOMAIN updateChan : Carries(updateChan[n])
              /\ IsSeq(queryChan) /\ \A n \in DOMAIN queryChan : Carries(queryChan[n])
              /\ filtering # Idle => Carries(filtering.of)
              /\ IsSeq(blockChan) /\ \A n \in DOMAIN blockChan : IsSeq(blockChan[n])

(* While MiningService works on a block, the block extends the tip, or the *)
(* news of a new tip is on its way to it: BlockService is about to send a  *)
(* token, or the token is in ChainUpdatedChan.                             *)
WorkCurrent ==
  /\ newCycle \in BOOLEAN /\ updated \in Nat
  /\ mineSvc = "found" => ~newCycle
  /\ ~newCycle /\ mineSvc # "publish" =>
       updated > 0 \/ blockSvc # Idle \/ Prev(cand) = lastHash

MineInvariant == ChainsStored /\ ChainsSent /\ WorkCurrent

LEMMA InitMine == Init => MineInvariant
<1> SUFFICES ASSUME Init PROVE MineInvariant
  OBVIOUS
<1>1. ChainsStored
  BY SeqEmpty DEF Init, ChainsStored, Genesis
<1>2. ChainsSent
  BY SeqEmpty DEF Init, ChainsSent
<1>3. WorkCurrent
  BY DEF Init, WorkCurrent
<1>4. QED
  BY <1>1, <1>2, <1>3 DEF MineInvariant

LEMMA BuiltOn ==
  ASSUME NEW h, IsSeq(h), NEW b
  PROVE  IsSeq(Append(h, b)) /\ Prev(Append(h, b)) = h
BY SeqAppend

(* The variables of the invariant but the ones named.                      *)
LEMMA StoredKept ==
  ASSUME ChainsStored, UNCHANGED <<chain, cand, knownBlocks>>
  PROVE  ChainsStored'
BY DEF ChainsStored, chain

LEMMA SentKept ==
  ASSUME ChainsSent, UNCHANGED <<updateChan, queryChan, filtering, blockChan>>
  PROVE  ChainsSent'
BY DEF ChainsSent

LEMMA CurrentKept ==
  ASSUME WorkCurrent, UNCHANGED <<newCycle, updated, mineSvc, blockSvc, cand, lastHash>>
  PROVE  WorkCurrent'
BY DEF WorkCurrent

(* One more value in a channel, or one less.                               *)
LEMMA SendUpdate ==
  ASSUME NEW q, IsSeq(q), \A n \in DOMAIN q : Carries(q[n]), NEW u, Carries(u)
  PROVE  /\ IsSeq(Append(q, u))
         /\ \A n \in DOMAIN Append(q, u) : Carries(Append(q, u)[n])
<1>1. \A n \in DOMAIN Append(q, u) : n \in DOMAIN q \/ n = Len(q) + 1
  BY SeqAppend
<1>2. QED
  BY <1>1, SeqAppend

LEMMA TakeUpdate ==
  ASSUME NEW q, IsSeq(q), \A n \in DOMAIN q : Carries(q[n]), q # << >>
  PROVE  /\ IsSeq(Tail(q)) /\ Carries(Head(q))
         /\ \A n \in DOMAIN Tail(q) : Carries(Tail(q)[n])
BY SeqTail

LEMMA QuerySent ==
  ASSUME ChainsSent, RwFree, NEW u, Carries(u), Query(u),
         UNCHANGED <<updateChan, blockChan>>
  PROVE  ChainsSent'
<1>1. CASE QueryRoom
  BY <1>1, SendUpdate DEF ChainsSent, Query
<1>2. CASE ~QueryRoom
  BY <1>2 DEF ChainsSent, Query, At
<1>3. QED
  BY <1>1, <1>2

LEMMA PutStored ==
  ASSUME ChainsStored, NEW h, IsSeq(h), PutBlock(h), UNCHANGED <<cand, knownBlocks>>
  PROVE  ChainsStored'
BY DEF ChainsStored, PutBlock

-----------------------------------------------------------------------------
(* One step of each part of the miner keeps the invariant.                 *)
LEMMA GossipMine ==
  ASSUME MineInvariant, Gossip
  PROVE  MineInvariant'
<1> USE DEF MineInvariant
<1>1. CASE DigestLocalUpdate
  <2>1. IsSeq(Tail(updateChan)) /\ Carries(Head(updateChan))
        /\ \A n \in DOMAIN Tail(updateChan) : Carries(Tail(updateChan)[n])
    BY <1>1, TakeUpdate DEF DigestLocalUpdate, ChainsSent
  <2>2. ChainsStored'
    BY <1>1, <2>1 DEF DigestLocalUpdate, ChainsStored, chain, mining, Carries
  <2>3. ChainsSent'
    BY <1>1, <2>1 DEF DigestLocalUpdate, ChainsSent
  <2>4. WorkCurrent'
    BY <1>1, CurrentKept DEF DigestLocalUpdate, chain, mining
  <2>5. QED
    BY <2>2, <2>3, <2>4
<1>2. CASE FilterEnd
  <2>1. ChainsStored'
    BY <1>2, StoredKept DEF FilterEnd, mining
  <2>2. ChainsSent'
    BY <1>2, SendUpdate DEF FilterEnd, ChainsSent
  <2>3. WorkCurrent'
    BY <1>2, CurrentKept DEF FilterEnd, chain, mining
  <2>4. QED
    BY <2>1, <2>2, <2>3
<1>3. ASSUME NEW t \in Txn, FilterTxn(t)
      PROVE  MineInvariant'
  <2>1. ChainsStored'
    BY <1>3, StoredKept DEF FilterTxn, mining
  <2>2. ChainsSent'
    <3>1. Carries(TxnUpdate(t))
      BY DEF Carries, TxnUpdate
    <3>2. QED
      BY <1>3, <3>1, QuerySent DEF FilterTxn
  <2>3. WorkCurrent'
    BY <1>3, CurrentKept DEF FilterTxn, chain, mining
  <2>4. QED
    BY <2>1, <2>2, <2>3
<1>4. ASSUME NEW prev \in knownBlocks, NEW b, FilterBlock(Append(prev, b))
      PROVE  MineInvariant'
  <2> DEFINE h == Append(prev, b)
  <2>1. IsSeq(h)
    BY SeqAppend DEF ChainsStored
  <2> HIDE DEF h
  <2>2. FilterBlock(h)
    BY <1>4 DEF h
  <2>3. ChainsStored'
    BY <2>1, <2>2 DEF FilterBlock, ChainsStored, chain, mining
  <2>4. ChainsSent'
    <3>1. Carries(BlockUpdate(h))
      BY <2>1 DEF Carries, BlockUpdate
    <3>2. QED
      BY <2>2, <3>1, QuerySent DEF FilterBlock
  <2>5. WorkCurrent'
    BY <2>2, CurrentKept DEF FilterBlock, chain, mining
  <2>6. QED
    BY <2>3, <2>4, <2>5
<1>5. QED
  BY <1>1, <1>2, <1>3, <1>4 DEF Gossip

LEMMA DigestMine ==
  ASSUME MineInvariant, DigestUpdates
  PROVE  MineInvariant'
<1> USE DEF MineInvariant
<1>1. /\ IsSeq(Tail(queryChan)) /\ Carries(Head(queryChan))
      /\ \A n \in DOMAIN Tail(queryChan) : Carries(Tail(queryChan)[n])
  BY TakeUpdate DEF DigestUpdates, ChainsSent
<1>2. ChainsStored'
  BY StoredKept DEF DigestUpdates, mining
<1>3. ChainsSent'
  <2> DEFINE u == Head(queryChan)
  <2>1. CASE u.type = "txn"
    BY <1>1, <2>1 DEF DigestUpdates, ChainsSent
  <2>2. CASE u.type # "txn"
    <3>1. IsSeq(u.id) /\ blockChan' = Append(blockChan, u.id)
      BY <1>1, <2>2 DEF DigestUpdates, Carries
    <3> HIDE DEF u
    <3>2. /\ IsSeq(blockChan')
          /\ \A n \in DOMAIN blockChan' : n \in DOMAIN blockChan \/ n = Len(blockChan) + 1
      BY <3>1, SeqAppend DEF ChainsSent
    <3>3. \A n \in DOMAIN blockChan' : IsSeq(blockChan'[n])
      BY <3>1, <3>2, SeqAppend DEF ChainsSent
    <3>4. QED
      BY <1>1, <3>2, <3>3 DEF DigestUpdates, ChainsSent
  <2>3. QED
    BY <2>1, <2>2
<1>4. WorkCurrent'
  BY CurrentKept DEF DigestUpdates, chain, mining
<1>5. QED
  BY <1>2, <1>3, <1>4

LEMMA ClientMine ==
  ASSUME MineInvariant, Client
  PROVE  MineInvariant'
<1> USE DEF MineInvariant
<1>1. PICK c \in Call : (\E t \in Txn : SubmitTxn(c, t)) \/ QueueTxn(c) \/ PublishTxn(c)
  BY DEF Client
<1>2. ChainsStored'
  BY <1>1, StoredKept DEF SubmitTxn, QueueTxn, PublishTxn, mining, gossip
<1>3. ChainsSent'
  <2>1. CASE (\E t \in Txn : SubmitTxn(c, t)) \/ QueueTxn(c)
    BY <2>1, SentKept DEF SubmitTxn, QueueTxn, gossip
  <2>2. CASE PublishTxn(c)
    <3>1. Carries(TxnUpdate(calls[c].of))
      BY DEF Carries, TxnUpdate
    <3>2. QED
      BY <2>2, <3>1, SendUpdate DEF PublishTxn, ChainsSent
  <2>3. QED
    BY <1>1, <2>1, <2>2
<1>4. WorkCurrent'
  BY <1>1, CurrentKept DEF SubmitTxn, QueueTxn, PublishTxn, chain, mining
<1>5. QED
  BY <1>2, <1>3, <1>4

LEMMA TxnServiceMine ==
  ASSUME MineInvariant, TxnService
  PROVE  MineInvariant'
<1> USE DEF MineInvariant, TxnService, MarkTxn, Mark, AddTxnToPool
<1>1. ChainsStored'
  BY StoredKept DEF mining, gossip
<1>2. ChainsSent'
  BY SentKept DEF gossip
<1>3. WorkCurrent'
  BY CurrentKept DEF chain, mining
<1>4. QED
  BY <1>1, <1>2, <1>3

LEMMA BlockServiceMine ==
  ASSUME MineInvariant, BlockService
  PROVE  MineInvariant'
<1> USE DEF MineInvariant
<1>1. CASE PutPeerBlock
  <2> DEFINE h == Head(blockChan)
  <2>1. IsSeq(h) /\ IsSeq(Tail(blockChan))
        /\ \A n \in DOMAIN Tail(blockChan) : IsSeq(Tail(blockChan)[n])
    BY <1>1, SeqTail DEF PutPeerBlock, ChainsSent
  <2>2. \/ UNCHANGED <<chain, blockSvc>>
        \/ PutBlock(h) /\ blockSvc' = IF MovesTip(h) THEN At("notify", h) ELSE Idle
    BY <1>1 DEF PutPeerBlock
  <2>3. /\ blockSvc = Idle /\ blockChan' = Tail(blockChan)
        /\ UNCHANGED <<updated, updateChan, queryChan, filtering, knownBlocks,
                       mineSvc, newCycle, cand>>
    BY <1>1 DEF PutPeerBlock, gossip, mining
  <2> HIDE DEF h
  <2>4. ChainsStored'
    BY <2>1, <2>2, <2>3, PutStored, StoredKept
  <2>5. ChainsSent'
    BY <2>1, <2>3 DEF ChainsSent
  <2>6. WorkCurrent'
    <3>1. CASE UNCHANGED <<chain, blockSvc>>
      BY <2>3, <3>1, CurrentKept DEF chain
    <3>2. CASE PutBlock(h) /\ MovesTip(h) /\ blockSvc' = At("notify", h)
      <4>1. blockSvc' # Idle
        BY <3>2 DEF At, Idle
      <4>2. QED
        BY <2>3, <4>1 DEF WorkCurrent
    <3>3. CASE PutBlock(h) /\ ~MovesTip(h) /\ blockSvc' = Idle
      BY <2>3, <3>3, CurrentKept DEF PutBlock
    <3>4. QED
      BY <2>2, <3>1, <3>2, <3>3
  <2>7. QED
    BY <2>4, <2>5, <2>6
<1>2. CASE Notify
  <2>1. ChainsStored'
    BY <1>2, StoredKept DEF Notify, mining, gossip
  <2>2. ChainsSent'
    BY <1>2, SentKept DEF Notify, gossip
  <2>3. WorkCurrent'
    BY <1>2 DEF Notify, WorkCurrent, mining
  <2>4. QED
    BY <2>1, <2>2, <2>3
<1>3. QED
  BY <1>1, <1>2 DEF BlockService

LEMMA MiningServiceMine ==
  ASSUME MineInvariant, MiningService
  PROVE  MineInvariant'
<1> USE DEF MineInvariant
<1>1. CASE SelectUpdate
  <2>1. ChainsStored'
    BY <1>1, StoredKept DEF SelectUpdate, gossip
  <2>2. ChainsSent'
    BY <1>1, SentKept DEF SelectUpdate, gossip
  <2>3. WorkCurrent'
    <3>1. CASE updated > 0
      BY <1>1, <3>1 DEF SelectUpdate, WorkCurrent
    <3>2. CASE ~(updated > 0)
      <4>1. /\ mineSvc = "loop" /\ mineSvc' = "step"
            /\ UNCHANGED <<updated, newCycle, blockSvc, cand, lastHash>>
        BY <1>1, <3>2 DEF SelectUpdate, chain
      <4>2. QED
        BY <4>1 DEF WorkCurrent
    <3>3. QED
      BY <3>1, <3>2
  <2>4. QED
    BY <2>1, <2>2, <2>3
<1>2. CASE StartCycle
  <2>1. PICK b : cand' = Append(lastHash, b)
    BY <1>2 DEF StartCycle
  <2>2. IsSeq(cand') /\ Prev(cand') = lastHash
    BY <2>1, BuiltOn DEF ChainsStored
  <2>3. /\ newCycle' = FALSE /\ mineSvc' = "loop"
        /\ UNCHANGED <<blocks, lastHash, knownBlocks, updateChan, queryChan, filtering,
                       blockChan, updated, blockSvc>>
    BY <1>2 DEF StartCycle, chain, gossip
  <2>4. ChainsStored'
    BY <2>2, <2>3 DEF ChainsStored
  <2>5. ChainsSent'
    BY <2>3, SentKept
  <2>6. Prev(cand)' = lastHash'
    BY <2>2, <2>3 DEF Prev
  <2>7. WorkCurrent'
    BY <2>3, <2>6 DEF WorkCurrent
  <2>8. QED
    BY <2>4, <2>5, <2>7
<1>3. CASE TryNonce
  <2>1. ChainsStored'
    BY <1>3, StoredKept DEF TryNonce, gossip
  <2>2. ChainsSent'
    BY <1>3, SentKept DEF TryNonce, gossip
  <2>3. WorkCurrent'
    BY <1>3 DEF TryNonce, WorkCurrent, chain
  <2>4. QED
    BY <2>1, <2>2, <2>3
<1>4. CASE PutOwnBlock
  <2>1. /\ \/ PutBlock(cand) /\ mineSvc' = "publish" /\ UNCHANGED newCycle
           \/ mineSvc' = "loop" /\ newCycle' = TRUE /\ UNCHANGED chain
        /\ UNCHANGED <<cand, knownBlocks, updateChan, queryChan, filtering, blockChan,
                       updated, blockSvc>>
    BY <1>4 DEF PutOwnBlock, gossip
  <2>2. ChainsStored'
    BY <2>1, PutStored, StoredKept DEF ChainsStored
  <2>3. ChainsSent'
    BY <2>1, SentKept
  <2>4. WorkCurrent'
    BY <2>1 DEF WorkCurrent
  <2>5. QED
    BY <2>2, <2>3, <2>4
<1>5. CASE PublishBlock
  <2>1. ChainsStored'
    BY <1>5, StoredKept DEF PublishBlock
  <2>2. ChainsSent'
    <3>1. Carries(BlockUpdate(cand))
      BY DEF Carries, BlockUpdate, ChainsStored
    <3>2. QED
      BY <1>5, <3>1, SendUpdate DEF PublishBlock, ChainsSent
  <2>3. WorkCurrent'
    BY <1>5 DEF PublishBlock, WorkCurrent
  <2>4. QED
    BY <2>1, <2>2, <2>3
<1>6. QED
  BY <1>1, <1>2, <1>3, <1>4, <1>5 DEF MiningService

LEMMA RestartMine ==
  ASSUME MineInvariant, Restart
  PROVE  MineInvariant'
<1> USE DEF MineInvariant
<1>1. ChainsStored'
  BY SeqEmpty DEF Restart, ChainsStored, Genesis
<1>2. ChainsSent'
  BY SeqEmpty DEF Restart, ChainsSent
<1>3. WorkCurrent'
  BY DEF Restart, WorkCurrent
<1>4. QED
  BY <1>1, <1>2, <1>3

LEMMA StepMine ==
  ASSUME MineInvariant, [Next]_vars
  PROVE  MineInvariant'
<1>1. CASE UNCHANGED vars
  <2>1. UNCHANGED <<chain, cand, knownBlocks, updateChan, queryChan, filtering,
                    blockChan, newCycle, updated, mineSvc, blockSvc, lastHash>>
    BY <1>1 DEF vars, chain, gossip, mining
  <2>2. QED
    BY <2>1, StoredKept, SentKept, CurrentKept DEF MineInvariant
<1>2. QED
  BY <1>1, GossipMine, DigestMine, ClientMine, TxnServiceMine, BlockServiceMine,
     MiningServiceMine, RestartMine DEF Next

-----------------------------------------------------------------------------
(* "fork switch impossible" (the comment on Put in MiningService): a block *)
(* that a miner puts extends the tip that it finds, and becomes the tip,   *)
(* although the nonce was searched with no lock held.                      *)
THEOREM OwnBlockExtendsTipHolds == Spec => OwnBlockExtendsTip
<1>1. MineInvariant /\ [Next]_vars =>
        [mineSvc' = "publish" /\ mineSvc = "found"
         => Prev(cand) = lastHash /\ lastHash' = cand]_vars
  <2> SUFFICES ASSUME MineInvariant, Next, mineSvc' = "publish", mineSvc = "found"
               PROVE  Prev(cand) = lastHash /\ lastHash' = cand
    BY DEF vars, mining
  <2>1. PutOwnBlock
    <3>1. ~(Gossip \/ DigestUpdates \/ Client \/ TxnService \/ BlockService)
      <4>1. mineSvc' # mineSvc
        OBVIOUS
      <4>2. QED
        BY <4>1 DEF Gossip, DigestLocalUpdate, FilterEnd, FilterTxn, FilterBlock,
           DigestUpdates, Client, SubmitTxn, QueueTxn, PublishTxn, TxnService, MarkTxn,
           Mark, AddTxnToPool, BlockService, PutPeerBlock, Notify, mining
    <3>2. ~Restart
      BY DEF Restart
    <3>3. MiningService
      BY <3>1, <3>2 DEF Next
    <3>4. QED
      BY <3>3 DEF MiningService, SelectUpdate, StartCycle, TryNonce, PublishBlock
  <2>2. NoChainUpdate /\ MuFree /\ PutBlock(cand)
    BY <2>1 DEF PutOwnBlock
  <2>3. Prev(cand) = lastHash
    BY <2>2 DEF NoChainUpdate, MuFree, MineInvariant, WorkCurrent
  <2>4. QED
    BY <2>2, <2>3 DEF PutBlock, MovesTip
<1>2. QED
  BY <1>1, InitMine, StepMine, PTL DEF Spec, OwnBlockExtendsTip

-----------------------------------------------------------------------------
(* The types of the capacities, and of what the model computes.            *)
LEMMA Capacities ==
  /\ PoolCap \in Nat /\ PoolCap > 0 /\ UpdatedCap \in Nat /\ UpdatedCap > 0
  /\ TxnCap \in Nat /\ BlockCap \in Nat /\ UpdateCap \in Nat /\ QueryCap \in Nat
  /\ MaxTxn \in Nat /\ MaxRestarts \in Nat
BY MinerAssumption

LEMMA ValidateType ==
  ASSUME NEW t, NEW past, NEW next
  PROVE  Validate(t, past, next) \in Code
<1>1. ValidateLaunch(t, past) \in Code
  BY DEF ValidateLaunch, Code
<1>2. ValidateVote(t, past, next) \in Code
  BY DEF ValidateVote, Code
<1>3. ValidateTerminate(t, past, next) \in Code
  BY DEF ValidateTerminate, Code
<1>4. {"InvalidSignature", "InvalidPayloadMethod"} \subseteq Code
  BY DEF Code
<1>5. QED
  BY <1>1, <1>2, <1>3, <1>4 DEF Validate

LEMMA NumberType ==
  ASSUME NEW c \in Chain
  PROVE  Number(c) \in Num /\ NextNum(c) \in Num
<1>1. MaxNum \in Nat /\ MaxNum > 0
  BY LedgerAssumption
<1>2. Number(c) \in Num
  <2>1. CASE c = Genesis
    BY <1>1, <2>1 DEF Number, Num
  <2>2. CASE c # Genesis
    <3>1. c[Len(c)] \in Block
      BY <2>2 DEF Chain, Genesis
    <3>2. QED
      BY <2>2, <3>1 DEF Number, Block
  <2>3. QED
    BY <2>1, <2>2
<1>3. \A n \in Num : Plus(n, 1) \in Num
  BY <1>1 DEF Num, Plus
<1>4. QED
  BY <1>2, <1>3 DEF NextNum

LEMMA BuiltType ==
  ASSUME NEW prev \in Chain, NEW m \in Peer \cup {Self}, NEW txns \in Seq(Txn),
         NEW b \in Built(prev, m, txns)
  PROVE  /\ b \in Block /\ b.txns = txns
         /\ Append(prev, b) \in Chain
<1>1. PICK S : b = [miner |-> m, num |-> NextNum(prev), pow |-> TRUE, txns |-> txns,
                    codes |-> Receipts(prev, txns, S)]
  BY DEF Built
<1>2. Receipts(prev, txns, S) \in Seq(Code)
  <2>1. Receipts(prev, txns, S) \in [1..Len(txns) -> Code]
    BY ValidateType DEF Receipts
  <2>2. QED
    BY <2>1, SeqDef
<1>3. b \in Block /\ b.txns = txns
  BY <1>1, <1>2, NumberType DEF Block
<1>4. QED
  BY <1>3 DEF Chain

(* The same block, as a peer may number it.                                *)
LEMMA PeerBlockType ==
  ASSUME NEW prev \in Chain, NEW m \in Peer, NEW txns \in Seq(Txn),
         NEW b \in Built(prev, m, txns), NEW num \in Numbers(prev)
  PROVE  Append(prev, [b EXCEPT !.num = num]) \in Chain
<1>1. b \in Block
  BY BuiltType
<1>2. num \in Num
  BY NumberType, MinerAssumption DEF Numbers
<1>3. [b EXCEPT !.num = num] \in Block
  BY <1>1, <1>2 DEF Block
<1>4. QED
  BY <1>3 DEF Chain

LEMMA TxnsOfType ==
  ASSUME NEW h \in Chain
  PROVE  TxnsOf(h) \subseteq Txn
<1>1. \A n \in DOMAIN h : h[n].txns \in Seq(Txn)
  <2>1. \A n \in DOMAIN h : h[n] \in Block
    BY DEF Chain
  <2>2. QED
    BY <2>1 DEF Block
<1>2. QED
  BY <1>1 DEF TxnsOf, Range

(* What a fork switch takes off the chain.                                 *)
LEMMA UncledType ==
  ASSUME TypeOK, NEW h, PutBlock(h)
  PROVE  uncled' \subseteq Txn
<1>1. lastHash \in Chain /\ uncled \subseteq Txn
  BY DEF TypeOK
<1>2. QED
  BY <1>1, TxnsOfType DEF PutBlock

LEMMA BatchType ==
  ASSUME NEW txns \in Batch
  PROVE  txns \in Seq(Txn)
<1>1. PICK n \in 0..MaxTxn : txns \in [1..n -> Txn]
  BY DEF Batch
<1>2. n \in Nat
  BY Capacities
<1>3. QED
  BY <1>1, <1>2, SeqDef

LEMMA UpdateType ==
  /\ \A t \in Txn : TxnUpdate(t) \in Update
  /\ \A h \in Chain : BlockUpdate(h) \in Update
  /\ \A u \in Update : \/ u.type = "txn" /\ u.id \in Txn
                       \/ u.type = "block" /\ u.id \in Chain
BY DEF Update, TxnUpdate, BlockUpdate

LEMMA GetType ==
  ASSUME NEW p \in Seq(Txn), NEW size \in Nat
  PROVE  /\ Get(p, size) \in Seq(Txn)
         /\ \A i \in DOMAIN Get(p, size) : i \in DOMAIN p /\ Get(p, size)[i] = p[i]
<1> DEFINE n == IF size < Len(p) THEN size ELSE Len(p)
<1>1. n \in Nat /\ n <= Len(p) /\ Len(p) \in Nat
  OBVIOUS
<1> HIDE DEF n
<1>2. SubSeq(p, 1, n) \in Seq(Txn) /\ Len(SubSeq(p, 1, n)) = n
      /\ \A i \in 1..n : SubSeq(p, 1, n)[i] = p[i]
  BY <1>1
<1>3. DOMAIN SubSeq(p, 1, n) = 1..n /\ DOMAIN p = 1..Len(p)
  BY <1>1, <1>2
<1>4. Get(p, size) = SubSeq(p, 1, n)
  BY DEF Get, n
<1>5. QED
  BY <1>1, <1>2, <1>3, <1>4

(* What is added to the pool, and what it costs.                           *)
LEMMA AddTxnType ==
  ASSUME NEW p \in Seq(Txn), NEW t \in Txn, Len(p) <= PoolCap
  PROVE  /\ AddTxn(p, t, PoolCap) \in Seq(Txn) /\ Len(AddTxn(p, t, PoolCap)) <= PoolCap
         /\ Len(p) < PoolCap => AddTxn(p, t, PoolCap) = Append(p, t)
         /\ Len(p) = PoolCap => /\ Len(AddTxn(p, t, PoolCap)) = PoolCap
                                /\ \A i \in 1..PoolCap : 
                                     AddTxn(p, t, PoolCap)[i] = Append(p, t)[i + 1]
<1> DEFINE s == Append(p, t)
<1>1. p \o <<t>> = s /\ s \in Seq(Txn) /\ Len(s) = Len(p) + 1 /\ Len(p) \in Nat
  BY AppendIsConcat
<1>2. PoolCap \in Nat /\ PoolCap > 0
  BY Capacities
<1>3. AddTxn(p, t, PoolCap) = Newest(s, PoolCap)
  BY <1>1 DEF AddTxn, AddTxns
<1> HIDE DEF s
<1>4. CASE Len(p) < PoolCap
  <2>1. Newest(s, PoolCap) = SubSeq(s, 1, Len(s))
    <3>1. ~(Len(s) > PoolCap)
      BY <1>1, <1>2, <1>4
    <3>2. QED
      BY <3>1 DEF Newest
  <2>2. SubSeq(s, 1, Len(s)) = s
    BY <1>1
  <2>3. QED
    BY <1>1, <1>2, <1>3, <1>4, <2>1, <2>2 DEF s
<1>5. CASE Len(p) = PoolCap
  <2>1. Newest(s, PoolCap) = SubSeq(s, 2, Len(s))
    BY <1>1, <1>2, <1>5 DEF Newest
  <2>2. /\ SubSeq(s, 2, Len(s)) \in Seq(Txn) /\ Len(SubSeq(s, 2, Len(s))) = PoolCap
        /\ \A i \in 1..PoolCap : SubSeq(s, 2, Len(s))[i] = s[i + 1]
    BY <1>1, <1>2, <1>5
  <2>3. QED
    BY <1>1, <1>2, <1>3, <1>5, <2>1, <2>2 DEF s
<1>6. QED
  BY <1>1, <1>2, <1>4, <1>5

-----------------------------------------------------------------------------
(* Types are kept, one action at a time.                                   *)
LEMMA InitType == Init => TypeOK
<1> SUFFICES ASSUME Init PROVE TypeOK
  OBVIOUS
<1>1. Genesis \in Chain
  BY DEF Genesis, Chain
<1>2. pool \in Seq(Txn) /\ Len(pool) <= PoolCap /\ Range(pool) \subseteq Txn
  <2>1. << >> \in Seq(Txn) /\ Len(<< >>) = 0 /\ DOMAIN << >> = {}
    OBVIOUS
  <2>2. \A t \in Txn : <<t>> \in Seq(Txn) /\ Len(<<t>>) = 1 /\ DOMAIN <<t>> = {1} /\ <<t>>[1] = t
    OBVIOUS
  <2>3. pool = << >> \/ \E t \in Txn : pool = <<t>>
    BY DEF Init
  <2>4. CASE pool = << >>
    BY <2>1, <2>4, Capacities DEF Range
  <2>5. ASSUME NEW t \in Txn, pool = <<t>>
        PROVE  pool \in Seq(Txn) /\ Len(pool) <= PoolCap /\ Range(pool) \subseteq Txn
    <3>1. /\ pool \in Seq(Txn) /\ Len(pool) = 1 /\ DOMAIN pool = {1} /\ pool[1] = t
      BY <2>2, <2>5
    <3>2. QED
      BY <3>1, Capacities DEF Range
  <2>6. QED
    BY <2>3, <2>4, <2>5
<1>3. QED
  BY <1>1, <1>2, Capacities DEF Init, TypeOK

(* One more value in a channel that has room, and one less.                *)
LEMMA SendType ==
  ASSUME NEW S, NEW q \in Seq(S), NEW e \in S, NEW cap \in Nat, Len(q) < cap
  PROVE  Append(q, e) \in Seq(S) /\ Len(Append(q, e)) <= cap
OBVIOUS

LEMMA TakeType ==
  ASSUME NEW S, NEW q \in Seq(S), q # << >>, NEW cap \in Nat, Len(q) <= cap
  PROVE  Head(q) \in S /\ Tail(q) \in Seq(S) /\ Len(Tail(q)) <= cap
OBVIOUS

LEMMA Rooms ==
  ASSUME TypeOK
  PROVE  /\ TxnRoom => Len(txnChan) < TxnCap + 1
         /\ BlockRoom => Len(blockChan) < BlockCap + 1
<1>1. txnChan \in Seq(Txn) /\ blockChan \in Seq(Chain)
  BY DEF TypeOK
<1>2. TxnRoom => Len(txnChan) < TxnCap + 1
  <2>1. CASE txnSvc = Idle
    BY <2>1 DEF TxnRoom
  <2>2. CASE txnSvc # Idle
    BY <1>1, <2>2, Capacities DEF TxnRoom
  <2>3. QED
    BY <2>1, <2>2
<1>3. BlockRoom => Len(blockChan) < BlockCap + 1
  <2>1. CASE blockSvc = Idle
    BY <2>1 DEF BlockRoom
  <2>2. CASE blockSvc # Idle
    BY <1>1, <2>2, Capacities DEF BlockRoom
  <2>3. QED
    BY <2>1, <2>2
<1>4. QED
  BY <1>2, <1>3

LEMMA Capacities1 ==
  /\ TxnCap + 1 \in Nat /\ BlockCap + 1 \in Nat
  /\ UpdateCap + 1 \in Nat /\ QueryCap + 1 \in Nat
BY Capacities

LEMMA CallType ==
  ASSUME TypeOK, NEW c \in Call, calls[c].pc # "idle"
  PROVE  calls[c] \in [pc : {"queue", "gossip", "done"}, of : Txn]
BY DEF TypeOK, Idle

LEMMA ClientType ==
  ASSUME TypeOK, Client
  PROVE  TypeOK'
<1> DEFINE Busy == [pc : {"queue", "gossip", "done"}, of : Txn]
<1>1. ASSUME NEW c \in Call, NEW t \in Txn, SubmitTxn(c, t)
      PROVE  TypeOK'
  <2>1. \A pc \in {"done", "queue"} : At(pc, t) \in Busy
    BY DEF At
  <2>2. calls' \in [Call -> {Idle} \cup Busy]
    BY <1>1, <2>1 DEF SubmitTxn, TypeOK
  <2>3. QED
    BY <1>1, <2>2 DEF SubmitTxn, TypeOK, chain, gossip, mining
<1>2. ASSUME NEW c \in Call, QueueTxn(c)
      PROVE  TypeOK'
  <2>1. calls[c] \in Busy
    BY <1>2, CallType DEF QueueTxn
  <2>2. [calls[c] EXCEPT !.pc = "gossip"] \in Busy
    BY <2>1
  <2>3. calls' \in [Call -> {Idle} \cup Busy]
    BY <1>2, <2>2 DEF QueueTxn, TypeOK
  <2>4. txnChan' \in Seq(Txn) /\ Len(txnChan') <= TxnCap + 1
    <3>1. calls[c].of \in Txn /\ TxnRoom /\ txnChan' = Append(txnChan, calls[c].of)
      BY <1>2, <2>1 DEF QueueTxn
    <3>2. QED
      BY <3>1, Rooms, Capacities1, SendType DEF TypeOK
  <2>5. QED
    BY <1>2, <2>3, <2>4 DEF QueueTxn, TypeOK, chain, gossip, mining
<1>3. ASSUME NEW c \in Call, PublishTxn(c)
      PROVE  TypeOK'
  <2>1. calls[c] \in Busy
    BY <1>3, CallType DEF PublishTxn
  <2>2. [calls[c] EXCEPT !.pc = "done"] \in Busy
    BY <2>1
  <2>3. calls' \in [Call -> {Idle} \cup Busy]
    BY <1>3, <2>2 DEF PublishTxn, TypeOK
  <2>4. TxnUpdate(calls[c].of) \in Update
    BY <2>1, UpdateType
  <2>5. updateChan' \in Seq(Update) /\ Len(updateChan') <= UpdateCap + 1
    BY <1>3, <2>4, Capacities1, SendType DEF PublishTxn, UpdateRoom, TypeOK
  <2>6. QED
    BY <1>3, <2>3, <2>5 DEF PublishTxn, TypeOK, chain, mining
<1>4. QED
  BY <1>1, <1>2, <1>3 DEF Client

LEMMA QueryType ==
  ASSUME TypeOK, RwFree, NEW u \in Update, Query(u)
  PROVE  /\ queryChan' \in Seq(Update) /\ Len(queryChan') <= QueryCap + 1
         /\ filtering' = Idle \/ filtering' \in [pc : {"query"}, of : Update]
<1>1. CASE QueryRoom
  <2>1. queryChan \in Seq(Update) /\ Len(queryChan) < QueryCap + 1 /\ QueryCap + 1 \in Nat
    BY <1>1, Capacities1 DEF QueryRoom, TypeOK
  <2>2. queryChan' = Append(queryChan, u) /\ filtering' = Idle
    BY <1>1 DEF Query, RwFree
  <2>3. QED
    BY <2>1, <2>2, SendType
<1>2. CASE ~QueryRoom
  BY <1>2 DEF Query, At, TypeOK
<1>3. QED
  BY <1>1, <1>2

LEMMA GossipType ==
  ASSUME TypeOK, Gossip
  PROVE  TypeOK'
<1>1. CASE DigestLocalUpdate
  <2>1. Head(updateChan) \in Update
        /\ Tail(updateChan) \in Seq(Update) /\ Len(Tail(updateChan)) <= UpdateCap + 1
    BY <1>1, Capacities1, TakeType DEF DigestLocalUpdate, TypeOK
  <2>2. knownTxns' \subseteq Txn /\ knownBlocks' \subseteq Chain
    BY <1>1, <2>1, UpdateType DEF DigestLocalUpdate, TypeOK
  <2>3. QED
    BY <1>1, <2>1, <2>2 DEF DigestLocalUpdate, TypeOK, chain, mining
<1>2. CASE FilterEnd
  <2>1. filtering.of \in Update
    BY <1>2 DEF FilterEnd, TypeOK
  <2>2. queryChan' \in Seq(Update) /\ Len(queryChan') <= QueryCap + 1
    BY <1>2, <2>1, Capacities1, SendType DEF FilterEnd, QueryRoom, TypeOK
  <2>3. QED
    BY <1>2, <2>2 DEF FilterEnd, TypeOK, chain, mining
<1>3. ASSUME NEW t \in Txn, FilterTxn(t)
      PROVE  TypeOK'
  <2>1. /\ queryChan' \in Seq(Update) /\ Len(queryChan') <= QueryCap + 1
        /\ filtering' = Idle \/ filtering' \in [pc : {"query"}, of : Update]
    <3>1. TxnUpdate(t) \in Update
      BY UpdateType
    <3>2. QED
      BY <1>3, <3>1, QueryType DEF FilterTxn
  <2>2. QED
    BY <1>3, <2>1 DEF FilterTxn, TypeOK, chain, mining
<1>4. ASSUME NEW prev \in knownBlocks, NEW m \in Peer, NEW txns \in Batch,
             NEW b \in Built(prev, m, txns), NEW num \in Numbers(prev),
             FilterBlock(Append(prev, [b EXCEPT !.num = num]))
      PROVE  TypeOK'
  <2> DEFINE h == Append(prev, [b EXCEPT !.num = num])
  <2>1. h \in Chain
    <3>1. prev \in Chain
      BY DEF TypeOK
    <3>2. txns \in Seq(Txn)
      BY BatchType
    <3>3. QED
      BY <3>1, <3>2, PeerBlockType
  <2> HIDE DEF h
  <2>2. FilterBlock(h)
    BY <1>4 DEF h
  <2>3. /\ queryChan' \in Seq(Update) /\ Len(queryChan') <= QueryCap + 1
        /\ filtering' = Idle \/ filtering' \in [pc : {"query"}, of : Update]
    <3>1. BlockUpdate(h) \in Update
      BY <2>1, UpdateType
    <3>2. QED
      BY <2>2, <3>1, QueryType DEF FilterBlock
  <2>4. QED
    BY <2>1, <2>2, <2>3 DEF FilterBlock, TypeOK, chain, mining
<1>5. QED
  BY <1>1, <1>2, <1>3, <1>4 DEF Gossip

LEMMA DigestType ==
  ASSUME TypeOK, DigestUpdates
  PROVE  TypeOK'
<1> DEFINE u == Head(queryChan)
<1>1. u \in Update /\ Tail(queryChan) \in Seq(Update)
      /\ Len(Tail(queryChan)) <= QueryCap + 1
  BY Capacities1, TakeType DEF DigestUpdates, TypeOK
<1>2. \/ u.type = "txn" /\ u.id \in Txn
      \/ u.type = "block" /\ u.id \in Chain
  BY <1>1, UpdateType
<1>3. /\ IF u.type = "txn" THEN TxnRoom /\ txnChan' = Append(txnChan, u.id) /\ UNCHANGED blockChan
                           ELSE BlockRoom /\ blockChan' = Append(blockChan, u.id) /\ UNCHANGED txnChan
      /\ queryChan' = Tail(queryChan)
      /\ UNCHANGED <<chain, pool, received, updated, updateChan, filtering, knownTxns,
                 knownBlocks, calls, txnSvc, blockSvc, mining, restarts>>
  BY DEF DigestUpdates
<1> HIDE DEF u
<1>4. txnChan' \in Seq(Txn) /\ Len(txnChan') <= TxnCap + 1
  <2>1. CASE u.type = "txn"
    <3>1. txnChan \in Seq(Txn) /\ Len(txnChan) < TxnCap + 1 /\ TxnCap + 1 \in Nat
      BY <1>3, <2>1, Rooms, Capacities1 DEF TypeOK
    <3>2. PICK t \in Txn : txnChan' = Append(txnChan, t)
      BY <1>2, <1>3, <2>1
    <3>3. QED
      BY <3>1, <3>2, SendType
  <2>2. CASE u.type # "txn"
    BY <1>3, <2>2 DEF TypeOK
  <2>3. QED
    BY <2>1, <2>2
<1>5. blockChan' \in Seq(Chain) /\ Len(blockChan') <= BlockCap + 1
  <2>1. CASE u.type = "txn"
    BY <1>3, <2>1 DEF TypeOK
  <2>2. CASE u.type # "txn"
    <3>1. blockChan \in Seq(Chain) /\ Len(blockChan) < BlockCap + 1 /\ BlockCap + 1 \in Nat
      BY <1>3, <2>2, Rooms, Capacities1 DEF TypeOK
    <3>2. PICK h \in Chain : blockChan' = Append(blockChan, h)
      BY <1>2, <1>3, <2>2
    <3>3. QED
      BY <3>1, <3>2, SendType
  <2>3. QED
    BY <2>1, <2>2
<1>6. QED
  BY <1>1, <1>3, <1>4, <1>5 DEF TypeOK, chain, mining

LEMMA TxnServiceType ==
  ASSUME TypeOK, TxnService
  PROVE  TypeOK'
<1>1. CASE MarkTxn
  <2>1. Head(txnChan) \in Txn /\ Tail(txnChan) \in Seq(Txn) /\ Len(Tail(txnChan)) <= TxnCap + 1
    BY <1>1, Capacities1, TakeType DEF MarkTxn, TypeOK
  <2>2. QED
    BY <1>1, <2>1 DEF MarkTxn, Mark, At, TypeOK, chain, gossip, mining
<1>2. CASE AddTxnToPool
  <2>1. txnSvc.of \in Txn
    BY <1>2 DEF AddTxnToPool, TypeOK
  <2>2. pool' \in Seq(Txn) /\ Len(pool') <= PoolCap
    BY <1>2, <2>1, AddTxnType DEF AddTxnToPool, TypeOK
  <2>3. QED
    BY <1>2, <2>2 DEF AddTxnToPool, TypeOK, chain, gossip, mining
<1>3. QED
  BY <1>1, <1>2 DEF TxnService

LEMMA RemoveType ==
  ASSUME NEW p \in Seq(Txn), Len(p) <= PoolCap, NEW txns
  PROVE  RemoveTxns(p, txns) \in Seq(Txn) /\ Len(RemoveTxns(p, txns)) <= PoolCap
<1> DEFINE keep == {p[i] : i \in DOMAIN p} \ txns
<1>1. Selected(p, keep) \in Seq(Txn) /\ Len(Selected(p, keep)) <= Len(p)
  BY SelectedFrom, SelectedLength
<1>2. RemoveTxns(p, txns) = Selected(p, keep)
  BY DEF RemoveTxns
<1> HIDE DEF keep
<1>3. PoolCap \in Nat
  BY Capacities
<1>4. QED
  BY <1>1, <1>2, <1>3

LEMMA BlockServiceType ==
  ASSUME TypeOK, BlockService
  PROVE  TypeOK'
<1>1. CASE PutPeerBlock
  <2> DEFINE h == Head(blockChan)
  <2>1. h \in Chain /\ Tail(blockChan) \in Seq(Chain) /\ Len(Tail(blockChan)) <= BlockCap + 1
    BY <1>1, Capacities1, TakeType DEF PutPeerBlock, TypeOK
  <2>2. /\ IF ~Accepts(h)
           THEN UNCHANGED <<chain, pool, blockSvc>>
           ELSE /\ PutBlock(h)
                /\ pool' = Cleared(h)
                /\ blockSvc' = IF MovesTip(h) THEN At("notify", h) ELSE Idle
        /\ blockChan' = Tail(blockChan)
        /\ UNCHANGED <<received, txnChan, updated, gossip,
                       calls, txnSvc, mining, restarts>>
    BY <1>1 DEF PutPeerBlock
  <2> HIDE DEF h
  <2>3. blocks' \cup knownBlocks' \subseteq Chain /\ lastHash' \in blocks'
    BY <2>1, <2>2 DEF PutBlock, TypeOK, chain, gossip
  <2>4. pool' \in Seq(Txn) /\ Len(pool') <= PoolCap
    BY <2>2, RemoveType DEF Cleared, TypeOK
  <2>5. blockSvc' = Idle \/ blockSvc' \in [pc : {"notify"}, of : Chain]
    BY <2>1, <2>2 DEF At, TypeOK
  <2>6. uncled' \subseteq Txn
    BY <2>2, UncledType DEF TypeOK, chain
  <2>7. QED
    BY <2>1, <2>2, <2>3, <2>4, <2>5, <2>6 DEF TypeOK, gossip, mining
<1>2. CASE Notify
  <2>1. updated' \in 0..UpdatedCap
    BY <1>2, Capacities DEF Notify, TypeOK
  <2>2. QED
    BY <1>2, <2>1 DEF Notify, TypeOK, chain, gossip, mining
<1>3. QED
  BY <1>1, <1>2 DEF BlockService

LEMMA MiningServiceType ==
  ASSUME TypeOK, MiningService
  PROVE  TypeOK'
<1>1. CASE SelectUpdate
  <2>1. /\ updated' \in 0..UpdatedCap /\ newCycle' \in BOOLEAN
        /\ mineSvc' \in {"loop", "step", "found", "publish"}
    <3>1. updated \in 0..UpdatedCap /\ newCycle \in BOOLEAN /\ mineSvc = "loop"
      BY <1>1 DEF SelectUpdate, TypeOK
    <3>2. CASE updated > 0
      <4>1. updated' = updated - 1 /\ newCycle' = TRUE /\ mineSvc' = mineSvc
        BY <1>1, <3>2 DEF SelectUpdate
      <4>2. QED
        BY <3>1, <3>2, <4>1, Capacities
    <3>3. CASE ~(updated > 0)
      BY <1>1, <3>1, <3>3 DEF SelectUpdate
    <3>4. QED
      BY <3>2, <3>3
  <2>2. QED
    BY <1>1, <2>1 DEF SelectUpdate, TypeOK, chain, gossip
<1>2. CASE StartCycle
  <2> DEFINE selected == Get(pool, MaxTxn)
             valid == Selected(selected, {t \in Txn : Data[t].signed})
  <2>1. selected \in Seq(Txn) /\ valid \in Seq(Txn)
    BY GetType, SelectedFrom, Capacities DEF TypeOK
  <2>2. /\ \E b \in Built(lastHash, Self, valid) : cand' = Append(lastHash, b)
        /\ pool' = WithoutInvalid(selected, valid)
    BY <1>2 DEF StartCycle
  <2> HIDE DEF selected, valid
  <2>3. cand' \in Chain
    <3>1. PICK b \in Built(lastHash, Self, valid) : cand' = Append(lastHash, b)
      BY <2>2
    <3>2. lastHash \in Chain
      BY DEF TypeOK
    <3>3. QED
      BY <2>1, <3>1, <3>2, BuiltType
  <2>4. pool' \in Seq(Txn) /\ Len(pool') <= PoolCap
    BY <2>2, RemoveType DEF WithoutInvalid, TypeOK
  <2>5. QED
    BY <1>2, <2>3, <2>4 DEF StartCycle, TypeOK, chain, gossip
<1>3. CASE TryNonce
  BY <1>3 DEF TryNonce, TypeOK, chain, gossip
<1>4. CASE PutOwnBlock
  <2>1. blocks' \cup knownBlocks' \subseteq Chain /\ lastHash' \in blocks'
    BY <1>4 DEF PutOwnBlock, PutBlock, TypeOK, chain, gossip
  <2>2. uncled' \subseteq Txn
    BY <1>4, UncledType DEF PutOwnBlock, TypeOK, chain
  <2>3. QED
    BY <1>4, <2>1, <2>2 DEF PutOwnBlock, TypeOK, gossip
<1>5. CASE PublishBlock
  <2>1. BlockUpdate(cand) \in Update
    BY UpdateType DEF TypeOK
  <2>2. updateChan' \in Seq(Update) /\ Len(updateChan') <= UpdateCap + 1
    BY <1>5, <2>1, Capacities1, SendType DEF PublishBlock, UpdateRoom, TypeOK
  <2>3. pool' \in Seq(Txn) /\ Len(pool') <= PoolCap
    BY <1>5, RemoveType DEF PublishBlock, TypeOK
  <2>4. QED
    BY <1>5, <2>2, <2>3 DEF PublishBlock, TypeOK, chain
<1>6. QED
  BY <1>1, <1>2, <1>3, <1>4, <1>5 DEF MiningService

LEMMA RestartType ==
  ASSUME TypeOK, Restart
  PROVE  TypeOK'
<1>1. knownTxns' \subseteq Txn
  BY TxnsOfType DEF Restart, TypeOK
<1>2. calls' \in [Call -> {Idle} \cup [pc : {"queue", "gossip", "done"}, of : Txn]]
  BY DEF Restart, TypeOK
<1>3. Genesis \in Chain
  BY DEF Genesis, Chain
<1>4. restarts' \in 0..MaxRestarts
  BY Capacities DEF Restart, TypeOK
<1>5. QED
  BY <1>1, <1>2, <1>3, <1>4, Capacities DEF Restart, TypeOK

LEMMA StepType ==
  ASSUME TypeOK, [Next]_vars
  PROVE  TypeOK'
<1>1. CASE UNCHANGED vars
  BY <1>1 DEF vars, TypeOK, chain, gossip, mining
<1>2. QED
  BY <1>1, GossipType, DigestType, ClientType, TxnServiceType, BlockServiceType,
     MiningServiceType, RestartType DEF Next

(* Every variable keeps its type, and no channel and not the pool grows    *)
(* over its capacity: a sender waits, and the oldest transaction goes.     *)
THEOREM TypeCorrect == Spec => []TypeOK
<1>1. QED
  BY InitType, StepType, PTL DEF Spec

-----------------------------------------------------------------------------
(* What gossip gets in order, by updateChan, it knows or will know.        *)
Announced(h)    == h \in knownBlocks \/ BlockUpdate(h) \in Range(updateChan)
AnnouncedTxn(t) == t \in knownTxns \/ TxnUpdate(t) \in Range(updateChan)

(* A stored block is announced, but for the one that MiningService is      *)
(* about to announce, with m.mu locked.                                    *)
BlocksAnnounced ==
  \A h \in blocks : Announced(h) \/ (mineSvc = "publish" /\ h = cand)

(* A transaction that TxnService has taken is announced: one still in its  *)
(* channel may come from a handler that has rtMu locked to announce it.    *)
TxnsAnnounced ==
  /\ \A t \in Range(pool) : AnnouncedTxn(t)
  /\ txnSvc # Idle => AnnouncedTxn(txnSvc.of)
  /\ \A t \in Range(txnChan) :
       AnnouncedTxn(t) \/ \E c \in Call : calls[c] = At("gossip", t)

(* What comes from gossip is known to it.                                  *)
Known(u) == IF u.type = "txn" THEN u.id \in knownTxns ELSE u.id \in knownBlocks

QueriesKnown ==
  /\ \A u \in Range(queryChan) : Known(u)
  /\ filtering # Idle => Known(filtering.of)
  /\ Range(blockChan) \subseteq knownBlocks

(* What MiningService works on can be announced after what is announced.   *)
WorkAnnounced ==
  /\ mineSvc \in {"found", "publish"} => ~newCycle
  /\ ~newCycle => /\ cand # Genesis
                  /\ \A t \in Range(TipBlock(cand).txns) : AnnouncedTxn(t)
  /\ mineSvc = "publish" => Announced(Prev(cand))

PublishInvariant == BlocksAnnounced /\ TxnsAnnounced /\ QueriesKnown /\ WorkAnnounced
                    /\ PublishedInOrder

LEMMA RangeAppend ==
  ASSUME NEW S, NEW s \in Seq(S), NEW e \in S
  PROVE  Range(Append(s, e)) = Range(s) \cup {e}
<1>1. /\ DOMAIN Append(s, e) = 1..(Len(s) + 1) /\ DOMAIN s = 1..Len(s) /\ Len(s) \in Nat
      /\ Append(s, e)[Len(s) + 1] = e
      /\ \A n \in DOMAIN s : Append(s, e)[n] = s[n]
  OBVIOUS
<1>2. DOMAIN Append(s, e) = DOMAIN s \cup {Len(s) + 1}
  BY <1>1
<1>3. QED
  BY <1>1, <1>2 DEF Range

LEMMA RangeTail ==
  ASSUME NEW S, NEW s \in Seq(S), s # << >>
  PROVE  Range(s) = Range(Tail(s)) \cup {Head(s)}
<1>1. /\ DOMAIN s = 1..Len(s) /\ Len(s) \in Nat /\ Len(s) >= 1
      /\ Head(s) = s[1]
      /\ DOMAIN Tail(s) = 1..(Len(s) - 1)
      /\ \A n \in 1..(Len(s) - 1) : Tail(s)[n] = s[n + 1]
  OBVIOUS
<1>2. Range(s) \subseteq Range(Tail(s)) \cup {Head(s)}
  <2> SUFFICES ASSUME NEW n \in 1..Len(s), n # 1
               PROVE  \E m \in DOMAIN Tail(s) : s[n] = Tail(s)[m]
    BY <1>1 DEF Range
  <2>1. n - 1 \in 1..(Len(s) - 1) /\ (n - 1) + 1 = n
    BY <1>1
  <2>2. QED
    BY <1>1, <2>1
<1>3. Range(Tail(s)) \cup {Head(s)} \subseteq Range(s)
  <2>1. \A n \in 1..(Len(s) - 1) : n + 1 \in 1..Len(s)
    BY <1>1
  <2>2. QED
    BY <1>1, <2>1 DEF Range
<1>4. QED
  BY <1>2, <1>3

(* What remains of a pool, and what is in it with one transaction more.    *)
LEMMA RemoveRange ==
  ASSUME NEW p \in Seq(Txn), NEW txns
  PROVE  Range(RemoveTxns(p, txns)) = Range(p) \ txns
<1> DEFINE keep == Range(p) \ txns
           q == Selected(p, keep)
           from == From(p, keep)
<1>1. RemoveTxns(p, txns) = q
  BY DEF RemoveTxns, Range
<1> HIDE DEF keep
<1>2. /\ from \in [DOMAIN q -> DOMAIN p]
      /\ \A k \in DOMAIN q : q[k] = p[from[k]] /\ q[k] \in keep
      /\ \A i \in DOMAIN p : p[i] \in keep => \E k \in DOMAIN q : from[k] = i
  BY SelectedFrom
<1> HIDE DEF q, from
<1>3. QED
  BY <1>1, <1>2 DEF Range, keep

LEMMA AddRange ==
  ASSUME NEW p \in Seq(Txn), NEW t \in Txn, Len(p) <= PoolCap
  PROVE  /\ Range(AddTxn(p, t, PoolCap)) \subseteq Range(p) \cup {t}
         /\ Len(p) < PoolCap => Range(AddTxn(p, t, PoolCap)) = Range(p) \cup {t}
<1> DEFINE q == AddTxn(p, t, PoolCap)
<1>1. Range(Append(p, t)) = Range(p) \cup {t}
  BY RangeAppend
<1>2. CASE Len(p) < PoolCap
  BY <1>1, <1>2, AddTxnType
<1>3. CASE Len(p) = PoolCap
  <2>1. /\ q \in Seq(Txn) /\ Len(q) = PoolCap
        /\ \A i \in 1..PoolCap : q[i] = Append(p, t)[i + 1]
    BY <1>3, AddTxnType
  <2>2. DOMAIN q = 1..PoolCap /\ DOMAIN Append(p, t) = 1..(PoolCap + 1) /\ PoolCap \in Nat
    BY <1>3, <2>1
  <2> HIDE DEF q
  <2>3. \A i \in DOMAIN q : i + 1 \in DOMAIN Append(p, t) /\ q[i] = Append(p, t)[i + 1]
    BY <2>1, <2>2
  <2>4. Range(q) \subseteq Range(Append(p, t))
    BY <2>3 DEF Range
  <2>5. QED
    BY <1>1, <1>3, <2>4 DEF q
<1>4. Len(p) \in Nat /\ PoolCap \in Nat
  BY Capacities
<1>5. Len(p) < PoolCap \/ Len(p) = PoolCap
  BY <1>4
<1>6. QED
  BY <1>2, <1>3, <1>4, <1>5

-----------------------------------------------------------------------------
(* What is announced stays announced, and the channel stays in order, when *)
(* gossip learns, takes the update at the head, or is sent another one.    *)
Kept == /\ \A h : Announced(h) => Announced(h)'
        /\ \A t : AnnouncedTxn(t) => AnnouncedTxn(t)'

(* What a block needs, with the updates S sent before it.                  *)
Ready(h, S) ==
  /\ Prev(h) \in knownBlocks \/ BlockUpdate(Prev(h)) \in S
  /\ \A t \in Range(TipBlock(h).txns) : t \in knownTxns \/ TxnUpdate(t) \in S

Before(q, i) == {q[j] : j \in 1..(i - 1)}

InOrder(q) == \A i \in DOMAIN q : q[i].type = "block" => Ready(q[i].id, Before(q, i))

LEMMA OrderIs == PublishedInOrder <=> InOrder(updateChan)
BY DEF PublishedInOrder, InOrder, Ready, Before

LEMMA LearnKept ==
  ASSUME knownTxns \subseteq knownTxns', knownBlocks \subseteq knownBlocks',
         updateChan' = updateChan, PublishedInOrder
  PROVE  Kept /\ PublishedInOrder'
<1>1. Kept
  BY DEF Kept, Announced, AnnouncedTxn
<1>2. QED
  BY <1>1 DEF PublishedInOrder

LEMMA SendKept ==
  ASSUME TypeOK, PublishedInOrder, NEW u \in Update, updateChan' = Append(updateChan, u),
         UNCHANGED <<knownTxns, knownBlocks>>,
         u.type = "block" => Ready(u.id, Range(updateChan))
  PROVE  Kept /\ PublishedInOrder' /\ u \in Range(updateChan')
<1>1. Range(updateChan') = Range(updateChan) \cup {u}
  BY RangeAppend DEF TypeOK
<1>2. Kept
  BY <1>1 DEF Kept, Announced, AnnouncedTxn
<1> DEFINE n == Len(updateChan)
<1>3. /\ n \in Nat /\ DOMAIN updateChan = 1..n /\ DOMAIN updateChan' = 1..(n + 1)
      /\ \A i \in 1..n : updateChan'[i] = updateChan[i]
      /\ updateChan'[n + 1] = u
  BY DEF TypeOK
<1> HIDE DEF n
<1>4. \A i \in 1..(n + 1) : Before(updateChan', i) = Before(updateChan, i)
  <2> SUFFICES ASSUME NEW i \in 1..(n + 1)
               PROVE  Before(updateChan', i) = Before(updateChan, i)
    OBVIOUS
  <2>1. \A j \in 1..(i - 1) : j \in 1..n
    BY <1>3
  <2>2. \A j \in 1..(i - 1) : updateChan'[j] = updateChan[j]
    BY <1>3, <2>1
  <2>3. QED
    BY <2>2 DEF Before
<1>5. Before(updateChan, n + 1) = Range(updateChan)
  <2>1. (n + 1) - 1 = n
    BY <1>3
  <2>2. QED
    BY <1>3, <2>1 DEF Before, Range
<1>6. \A i \in 1..(n + 1) : updateChan'[i].type = "block" =>
        Ready(updateChan'[i].id, Before(updateChan', i))
  <2>1. \A i \in 1..(n + 1) : i \in 1..n \/ i = n + 1
    BY <1>3
  <2>2. InOrder(updateChan)
    BY OrderIs
  <2>3. QED
    BY <1>3, <1>4, <1>5, <2>1, <2>2 DEF InOrder
<1>7. PublishedInOrder'
  <2>1. \A h, S : Ready(h, S) => Ready(h, S)'
    BY DEF Ready
  <2>2. \A i \in DOMAIN updateChan' : updateChan'[i].type = "block" =>
          Ready(updateChan'[i].id, Before(updateChan', i))
    BY <1>3, <1>6
  <2>3. QED
    BY <2>2 DEF PublishedInOrder, Ready, Before
<1>8. QED
  BY <1>1, <1>2, <1>7

LEMMA TakeKept ==
  ASSUME TypeOK, PublishedInOrder, DigestLocalUpdate
  PROVE  Kept /\ PublishedInOrder'
<1> DEFINE u == Head(updateChan)
           n == Len(updateChan)
<1>1. Range(updateChan) = Range(updateChan') \cup {u} /\ u \in Update
  BY RangeTail DEF DigestLocalUpdate, TypeOK
<1>2. /\ knownTxns \subseteq knownTxns' /\ knownBlocks \subseteq knownBlocks'
      /\ \A t : u = TxnUpdate(t) => t \in knownTxns'
      /\ \A h : u = BlockUpdate(h) => h \in knownBlocks'
  BY DEF DigestLocalUpdate, TxnUpdate, BlockUpdate
<1>3. /\ n \in Nat /\ DOMAIN updateChan = 1..n /\ DOMAIN updateChan' = 1..(n - 1)
      /\ \A i \in 1..(n - 1) : updateChan'[i] = updateChan[i + 1]
      /\ updateChan[1] = u
  BY DEF DigestLocalUpdate, TypeOK
<1> HIDE DEF u, n
<1>4. Kept
  BY <1>1, <1>2 DEF Kept, Announced, AnnouncedTxn
<1>5. ASSUME NEW i \in 1..(n - 1)
      PROVE  Before(updateChan, i + 1) \subseteq Before(updateChan', i) \cup {u}
  <2> SUFFICES ASSUME NEW j \in 1..((i + 1) - 1), j # 1
               PROVE  updateChan[j] \in Before(updateChan', i)
    BY <1>3 DEF Before
  <2>1. j - 1 \in 1..(i - 1) /\ j - 1 \in 1..(n - 1) /\ (j - 1) + 1 = j
    BY <1>3
  <2>2. updateChan'[j - 1] = updateChan[j]
    BY <1>3, <2>1
  <2>3. QED
    BY <2>1, <2>2 DEF Before
<1>6. \A h, S, T : Ready(h, S) /\ S \subseteq T \cup {u} => Ready(h, T)'
  BY <1>2 DEF Ready
<1>7. ASSUME NEW i \in DOMAIN updateChan', updateChan'[i].type = "block"
      PROVE  /\ Prev(updateChan'[i].id) \in knownBlocks' \/ BlockUpdate(Prev(updateChan'[i].id)) \in Before(updateChan', i)
             /\ \A t \in Range(TipBlock(updateChan'[i].id).txns) : t \in knownTxns' \/ TxnUpdate(t) \in Before(updateChan', i)
  <2>1. i \in 1..(n - 1) /\ i + 1 \in 1..n
    BY <1>3, <1>7
  <2>2. Ready(updateChan[i + 1].id, Before(updateChan, i + 1))
    BY <1>3, <1>7, <2>1, OrderIs DEF InOrder
  <2>3. Before(updateChan, i + 1) \subseteq Before(updateChan', i) \cup {u}
    BY <1>5, <2>1
  <2>4. updateChan'[i] = updateChan[i + 1]
    BY <1>3, <2>1
  <2>5. QED
    BY <1>2, <2>2, <2>3, <2>4 DEF Ready
<1>8. PublishedInOrder'
  BY <1>7 DEF PublishedInOrder, Before
<1>9. QED
  BY <1>4, <1>8

(* The parts of the invariant that an action leaves alone.                 *)
LEMMA BlocksKept ==
  ASSUME BlocksAnnounced, Kept, UNCHANGED <<blocks, mineSvc, cand>>
  PROVE  BlocksAnnounced'
BY DEF BlocksAnnounced, Kept

LEMMA TxnsKept ==
  ASSUME TxnsAnnounced, Kept, Range(pool') \subseteq Range(pool),
         UNCHANGED <<txnSvc, txnChan, calls>>
  PROVE  TxnsAnnounced'
BY DEF TxnsAnnounced, Kept

LEMMA QueriesKept ==
  ASSUME QueriesKnown, knownTxns \subseteq knownTxns', knownBlocks \subseteq knownBlocks',
         UNCHANGED <<queryChan, filtering, blockChan>>
  PROVE  QueriesKnown'
BY DEF QueriesKnown, Known

LEMMA WorkKept ==
  ASSUME WorkAnnounced, Kept, UNCHANGED <<mineSvc, newCycle, cand>>
  PROVE  WorkAnnounced'
BY DEF WorkAnnounced, Kept

-----------------------------------------------------------------------------
(* One step of each part keeps what is announced ahead of what needs it.   *)
LEMMA InitPublish == Init => PublishInvariant
<1> SUFFICES ASSUME Init PROVE PublishInvariant
  OBVIOUS
<1>1. Range(<< >>) = {}
  BY DEF Range
<1>2. BlocksAnnounced /\ WorkAnnounced
  BY DEF Init, BlocksAnnounced, WorkAnnounced, Announced
<1>3. TxnsAnnounced /\ QueriesKnown
  BY <1>1 DEF Init, TxnsAnnounced, QueriesKnown, AnnouncedTxn
<1>4. PublishedInOrder
  BY DEF Init, PublishedInOrder
<1>5. QED
  BY <1>2, <1>3, <1>4 DEF PublishInvariant

LEMMA QueryKept ==
  ASSUME TypeOK, QueriesKnown, RwFree, NEW u \in Update, Query(u), Known(u)',
         knownTxns \subseteq knownTxns', knownBlocks \subseteq knownBlocks',
         UNCHANGED blockChan
  PROVE  QueriesKnown'
<1>1. \A v : Known(v) => Known(v)'
  BY DEF Known
<1>2. Range(blockChan') \subseteq knownBlocks'
  BY DEF QueriesKnown
<1>3. CASE QueryRoom
  <2>1. queryChan' = Append(queryChan, u) /\ filtering' = Idle
    BY <1>3 DEF Query, RwFree
  <2>2. Range(queryChan') = Range(queryChan) \cup {u}
    BY <2>1, RangeAppend DEF TypeOK
  <2>3. QED
    BY <1>1, <1>2, <2>1, <2>2 DEF QueriesKnown
<1>4. CASE ~QueryRoom
  <2>1. queryChan' = queryChan /\ filtering'.of = u
    BY <1>4 DEF Query, At
  <2>2. QED
    BY <1>1, <1>2, <2>1 DEF QueriesKnown
<1>5. QED
  BY <1>3, <1>4

LEMMA GossipPublish ==
  ASSUME TypeOK, PublishInvariant, Gossip
  PROVE  PublishInvariant'
<1> USE DEF PublishInvariant
<1>1. CASE DigestLocalUpdate
  <2>1. Kept /\ PublishedInOrder'
    BY <1>1, TakeKept
  <2>2. BlocksAnnounced'
    BY <1>1, <2>1, BlocksKept DEF DigestLocalUpdate, chain, mining
  <2>3. TxnsAnnounced'
    BY <1>1, <2>1, TxnsKept DEF DigestLocalUpdate
  <2>4. QueriesKnown'
    BY <1>1, QueriesKept DEF DigestLocalUpdate
  <2>5. WorkAnnounced'
    BY <1>1, <2>1, WorkKept DEF DigestLocalUpdate, mining
  <2>6. QED
    BY <2>1, <2>2, <2>3, <2>4, <2>5
<1>2. CASE FilterEnd
  <2>1. Kept /\ PublishedInOrder'
    BY <1>2, LearnKept DEF FilterEnd
  <2>2. BlocksAnnounced'
    BY <1>2, <2>1, BlocksKept DEF FilterEnd, chain, mining
  <2>3. TxnsAnnounced'
    BY <1>2, <2>1, TxnsKept DEF FilterEnd
  <2>4. QueriesKnown'
    <3>1. Known(filtering.of) /\ filtering.of \in Update
      BY <1>2 DEF FilterEnd, QueriesKnown, TypeOK
    <3>2. Range(queryChan') = Range(queryChan) \cup {filtering.of}
      BY <1>2, <3>1, RangeAppend DEF FilterEnd, TypeOK
    <3>3. \A v : Known(v) => Known(v)'
      BY <1>2 DEF FilterEnd, Known
    <3>4. QED
      BY <1>2, <3>1, <3>2, <3>3 DEF FilterEnd, QueriesKnown
  <2>5. WorkAnnounced'
    BY <1>2, <2>1, WorkKept DEF FilterEnd, mining
  <2>6. QED
    BY <2>1, <2>2, <2>3, <2>4, <2>5
<1>3. ASSUME NEW t \in Txn, FilterTxn(t)
      PROVE  PublishInvariant'
  <2>1. Kept /\ PublishedInOrder'
    BY <1>3, LearnKept DEF FilterTxn
  <2>2. BlocksAnnounced'
    BY <1>3, <2>1, BlocksKept DEF FilterTxn, chain, mining
  <2>3. TxnsAnnounced'
    BY <1>3, <2>1, TxnsKept DEF FilterTxn
  <2>4. QueriesKnown'
    <3>1. Known(TxnUpdate(t))' /\ TxnUpdate(t) \in Update
      BY <1>3, UpdateType DEF FilterTxn, Known, TxnUpdate
    <3>2. QED
      BY <1>3, <3>1, QueryKept DEF FilterTxn
  <2>5. WorkAnnounced'
    BY <1>3, <2>1, WorkKept DEF FilterTxn, mining
  <2>6. QED
    BY <2>1, <2>2, <2>3, <2>4, <2>5
<1>4. ASSUME NEW prev \in knownBlocks, NEW m \in Peer, NEW txns \in Batch,
             NEW b \in Built(prev, m, txns), NEW num \in Numbers(prev),
             FilterBlock(Append(prev, [b EXCEPT !.num = num]))
      PROVE  PublishInvariant'
  <2> DEFINE h == Append(prev, [b EXCEPT !.num = num])
  <2>1. h \in Chain
    <3>1. prev \in Chain
      BY DEF TypeOK
    <3>2. QED
      BY <3>1, BatchType, PeerBlockType
  <2> HIDE DEF h
  <2>2. FilterBlock(h)
    BY <1>4 DEF h
  <2>3. Kept /\ PublishedInOrder'
    BY <2>2, LearnKept DEF FilterBlock
  <2>4. BlocksAnnounced'
    BY <2>2, <2>3, BlocksKept DEF FilterBlock, chain, mining
  <2>5. TxnsAnnounced'
    BY <2>2, <2>3, TxnsKept DEF FilterBlock
  <2>6. QueriesKnown'
    <3>1. Known(BlockUpdate(h))' /\ BlockUpdate(h) \in Update
      BY <2>1, <2>2, UpdateType DEF FilterBlock, Known, BlockUpdate
    <3>2. QED
      BY <2>2, <3>1, QueryKept DEF FilterBlock
  <2>7. WorkAnnounced'
    BY <2>2, <2>3, WorkKept DEF FilterBlock, mining
  <2>8. QED
    BY <2>3, <2>4, <2>5, <2>6, <2>7
<1>5. QED
  BY <1>1, <1>2, <1>3, <1>4 DEF Gossip

LEMMA DigestPublish ==
  ASSUME TypeOK, PublishInvariant, DigestUpdates
  PROVE  PublishInvariant'
<1> USE DEF PublishInvariant
<1> DEFINE u == Head(queryChan)
<1>1. Kept /\ PublishedInOrder'
  BY LearnKept DEF DigestUpdates
<1>2. BlocksAnnounced'
  BY <1>1, BlocksKept DEF DigestUpdates, chain, mining
<1>3. WorkAnnounced'
  BY <1>1, WorkKept DEF DigestUpdates, mining
<1>4. Range(queryChan) = Range(queryChan') \cup {u} /\ u \in Update
  BY RangeTail DEF DigestUpdates, TypeOK
<1>5. /\ Known(u)
      /\ u.type = "txn" => u.id \in Txn
      /\ u.type # "txn" => u.id \in Chain
  <2>1. Known(u)
    BY <1>4 DEF QueriesKnown
  <2>2. \A v \in Update : (v.type = "txn" => v.id \in Txn) /\ (v.type # "txn" => v.id \in Chain)
    BY UpdateType
  <2>3. QED
    BY <1>4, <2>1, <2>2
<1>6. /\ IF u.type = "txn" THEN txnChan' = Append(txnChan, u.id) /\ UNCHANGED blockChan
                           ELSE blockChan' = Append(blockChan, u.id) /\ UNCHANGED txnChan
      /\ UNCHANGED <<pool, filtering, knownTxns, knownBlocks, updateChan, calls, txnSvc>>
  BY DEF DigestUpdates
<1> HIDE DEF u
<1>7. CASE u.type = "txn"
  <2>1. PICK t \in Txn : t = u.id
    BY <1>5, <1>7
  <2>2. Range(txnChan') = Range(txnChan) \cup {t}
    <3>1. txnChan' = Append(txnChan, t) /\ txnChan \in Seq(Txn)
      BY <1>6, <1>7, <2>1 DEF TypeOK
    <3>2. QED
      BY <3>1, RangeAppend
  <2>3. AnnouncedTxn(t)'
    BY <1>5, <1>6, <1>7, <2>1 DEF Known, AnnouncedTxn
  <2>4. TxnsAnnounced'
    BY <1>1, <1>6, <2>2, <2>3 DEF TxnsAnnounced, Kept
  <2>5. QueriesKnown'
    BY <1>4, <1>6, <1>7 DEF QueriesKnown, Known
  <2>6. QED
    BY <1>1, <1>2, <1>3, <2>4, <2>5
<1>8. CASE u.type # "txn"
  <2>1. PICK h \in Chain : h = u.id
    BY <1>5, <1>8
  <2>2. Range(blockChan') = Range(blockChan) \cup {h}
    <3>1. blockChan' = Append(blockChan, h) /\ blockChan \in Seq(Chain)
      BY <1>6, <1>8, <2>1 DEF TypeOK
    <3>2. QED
      BY <3>1, RangeAppend
  <2>3. h \in knownBlocks
    BY <1>5, <1>8, <2>1 DEF Known
  <2>4. TxnsAnnounced'
    BY <1>1, <1>6, <1>8, TxnsKept
  <2>5. QueriesKnown'
    BY <1>4, <1>6, <2>2, <2>3 DEF QueriesKnown, Known
  <2>6. QED
    BY <1>1, <1>2, <1>3, <2>4, <2>5
<1>9. QED
  BY <1>7, <1>8

LEMMA ClientPublish ==
  ASSUME TypeOK, PublishInvariant, Client
  PROVE  PublishInvariant'
<1> USE DEF PublishInvariant
<1>1. ASSUME NEW c \in Call, NEW t \in Txn, SubmitTxn(c, t)
      PROVE  PublishInvariant'
  <2>1. Kept /\ PublishedInOrder'
    BY <1>1, LearnKept DEF SubmitTxn, gossip
  <2>2. BlocksAnnounced' /\ WorkAnnounced'
    BY <1>1, <2>1, BlocksKept, WorkKept DEF SubmitTxn, chain, mining
  <2>3. QueriesKnown'
    BY <1>1, QueriesKept DEF SubmitTxn, gossip
  <2>4. \A x : \A d \in Call : calls[d] = At("gossip", x) => calls'[d] = At("gossip", x)
    BY <1>1 DEF SubmitTxn, At, TypeOK
  <2>5. TxnsAnnounced'
    BY <1>1, <2>1, <2>4 DEF SubmitTxn, TxnsAnnounced, Kept
  <2>6. QED
    BY <2>1, <2>2, <2>3, <2>5
<1>2. ASSUME NEW c \in Call, QueueTxn(c)
      PROVE  PublishInvariant'
  <2>1. Kept /\ PublishedInOrder'
    BY <1>2, LearnKept DEF QueueTxn, gossip
  <2>2. BlocksAnnounced' /\ WorkAnnounced'
    BY <1>2, <2>1, BlocksKept, WorkKept DEF QueueTxn, chain, mining
  <2>3. QueriesKnown'
    BY <1>2, QueriesKept DEF QueueTxn, gossip
  <2>4. calls[c] \in [pc : {"queue", "gossip", "done"}, of : Txn] /\ calls[c].pc = "queue"
    BY <1>2, CallType DEF QueueTxn
  <2>5. calls' = [calls EXCEPT ![c] = At("gossip", calls[c].of)]
    <3>1. [calls[c] EXCEPT !.pc = "gossip"] = At("gossip", calls[c].of)
      BY <2>4 DEF At
    <3>2. QED
      BY <1>2, <3>1 DEF QueueTxn
  <2>6. \A x : \A d \in Call : calls[d] = At("gossip", x) => calls'[d] = At("gossip", x)
    BY <2>4, <2>5 DEF At, TypeOK
  <2>7. calls'[c] = At("gossip", calls[c].of)
    BY <2>5 DEF TypeOK
  <2>8. Range(txnChan') = Range(txnChan) \cup {calls[c].of}
    BY <1>2, <2>4, RangeAppend DEF QueueTxn, TypeOK
  <2>9. TxnsAnnounced'
    BY <1>2, <2>1, <2>6, <2>7, <2>8 DEF QueueTxn, TxnsAnnounced, Kept
  <2>10. QED
    BY <2>1, <2>2, <2>3, <2>9
<1>3. ASSUME NEW c \in Call, PublishTxn(c)
      PROVE  PublishInvariant'
  <2>1. calls[c] \in [pc : {"queue", "gossip", "done"}, of : Txn]
    BY <1>3, CallType DEF PublishTxn
  <2> PICK t \in Txn : t = calls[c].of
    BY <2>1
  <2>2. TxnUpdate(t) \in Update /\ TxnUpdate(t).type # "block"
    BY <2>1, UpdateType DEF TxnUpdate
  <2>3. Kept /\ PublishedInOrder' /\ TxnUpdate(t) \in Range(updateChan')
    BY <1>3, <2>2, SendKept DEF PublishTxn
  <2>4. BlocksAnnounced' /\ WorkAnnounced'
    BY <1>3, <2>3, BlocksKept, WorkKept DEF PublishTxn, chain, mining
  <2>5. QueriesKnown'
    BY <1>3, QueriesKept DEF PublishTxn
  <2>6. AnnouncedTxn(t)'
    BY <2>3 DEF AnnouncedTxn
  <2>7. \A x : \A d \in Call : calls[d] = At("gossip", x) =>
          x = t \/ calls'[d] = At("gossip", x)
    BY <1>3 DEF PublishTxn, At, TypeOK
  <2>8. TxnsAnnounced'
    BY <1>3, <2>3, <2>6, <2>7 DEF PublishTxn, TxnsAnnounced, Kept
  <2>9. QED
    BY <2>3, <2>4, <2>5, <2>8
<1>4. QED
  BY <1>1, <1>2, <1>3 DEF Client

LEMMA TxnServicePublish ==
  ASSUME TypeOK, PublishInvariant, TxnService
  PROVE  PublishInvariant'
<1> USE DEF PublishInvariant
<1>1. Kept /\ PublishedInOrder'
  BY LearnKept DEF TxnService, MarkTxn, Mark, AddTxnToPool, gossip
<1>2. BlocksAnnounced' /\ WorkAnnounced' /\ QueriesKnown'
  BY <1>1, BlocksKept, WorkKept, QueriesKept
     DEF TxnService, MarkTxn, Mark, AddTxnToPool, chain, gossip, mining
<1>3. CASE MarkTxn
  <2>1. Range(txnChan) = Range(txnChan') \cup {Head(txnChan)}
    BY <1>3, RangeTail DEF MarkTxn, Mark, TypeOK
  <2>2. AnnouncedTxn(Head(txnChan))
    <3>1. \A x : ~\E c \in Call : calls[c] = At("gossip", x)
      BY <1>3 DEF MarkTxn, RtMuFree, At
    <3>2. QED
      BY <2>1, <3>1 DEF TxnsAnnounced
  <2>3. txnSvc' = Idle \/ txnSvc' = At("add", Head(txnChan))
    BY <1>3 DEF MarkTxn, Mark
  <2>4. pool' = pool /\ calls' = calls
    BY <1>3 DEF MarkTxn, Mark
  <2>5. TxnsAnnounced'
    BY <1>1, <2>1, <2>2, <2>3, <2>4 DEF TxnsAnnounced, Kept, At
  <2>6. QED
    BY <1>1, <1>2, <2>5
<1>4. CASE AddTxnToPool
  <2>1. txnSvc.of \in Txn
    BY <1>4 DEF AddTxnToPool, TypeOK
  <2>2. Range(pool') \subseteq Range(pool) \cup {txnSvc.of}
    BY <1>4, <2>1, AddRange DEF AddTxnToPool, TypeOK
  <2>3. txnSvc # Idle /\ txnSvc' = Idle /\ UNCHANGED <<txnChan, calls>>
    BY <1>4 DEF AddTxnToPool
  <2>4. TxnsAnnounced'
    BY <1>1, <2>2, <2>3 DEF TxnsAnnounced, Kept
  <2>5. QED
    BY <1>1, <1>2, <2>4
<1>5. QED
  BY <1>3, <1>4 DEF TxnService

LEMMA BlockServicePublish ==
  ASSUME TypeOK, PublishInvariant, BlockService
  PROVE  PublishInvariant'
<1> USE DEF PublishInvariant
<1>1. Kept /\ PublishedInOrder'
  BY LearnKept DEF BlockService, PutPeerBlock, Notify, gossip
<1>2. WorkAnnounced'
  BY <1>1, WorkKept DEF BlockService, PutPeerBlock, Notify, mining
<1>3. CASE PutPeerBlock
  <2> PICK h : h = Head(blockChan)
    OBVIOUS
  <2>1. Range(blockChan) = Range(blockChan') \cup {h}
    BY <1>3, RangeTail DEF PutPeerBlock, TypeOK
  <2>2. h \in knownBlocks
    BY <2>1 DEF QueriesKnown
  <2>3. /\ IF ~Accepts(h) THEN UNCHANGED <<chain, pool, blockSvc>>
                          ELSE PutBlock(h) /\ pool' = Cleared(h)
        /\ UNCHANGED <<updateChan, queryChan, filtering, knownTxns, knownBlocks,
                       txnChan, calls, txnSvc, mineSvc, cand>>
    BY <1>3 DEF PutPeerBlock, gossip, mining
  <2>4. QueriesKnown'
    BY <2>1, <2>3 DEF QueriesKnown, Known
  <2>5. BlocksAnnounced'
    <3>1. blocks' \subseteq blocks \cup {h}
      BY <2>3 DEF PutBlock, chain
    <3>2. Announced(h)'
      BY <2>2, <2>3 DEF Announced
    <3>3. QED
      BY <1>1, <2>3, <3>1, <3>2 DEF BlocksAnnounced, Kept
  <2>6. TxnsAnnounced'
    <3>1. Range(pool') \subseteq Range(pool)
      BY <2>3, RemoveRange DEF Cleared, TypeOK
    <3>2. QED
      BY <1>1, <2>3, <3>1, TxnsKept
  <2>7. QED
    BY <1>1, <1>2, <2>4, <2>5, <2>6
<1>4. CASE Notify
  <2>1. BlocksAnnounced' /\ QueriesKnown' /\ TxnsAnnounced'
    BY <1>1, <1>4, BlocksKept, QueriesKept, TxnsKept DEF Notify, chain, gossip, mining
  <2>2. QED
    BY <1>1, <1>2, <2>1
<1>5. QED
  BY <1>3, <1>4 DEF BlockService

(* The block that StartCycle makes.                                        *)
LEMMA CandType ==
  ASSUME TypeOK, StartCycle
  PROVE  \E b \in Block : /\ cand' = Append(lastHash, b)
                          /\ cand' # Genesis /\ TipBlock(cand') = b
                          /\ Range(b.txns) \subseteq Range(pool)
<1> DEFINE selected == Get(pool, MaxTxn)
           keep == {t \in Txn : Data[t].signed}
           valid == Selected(selected, keep)
<1>1. /\ selected \in Seq(Txn)
      /\ \A i \in DOMAIN selected : i \in DOMAIN pool /\ selected[i] = pool[i]
  BY GetType, Capacities DEF TypeOK
<1>2. /\ valid \in Seq(Txn)
      /\ \A k \in DOMAIN valid : \E i \in DOMAIN selected : valid[k] = selected[i]
  <2> HIDE DEF selected, keep
  <2>1. QED
    BY <1>1, SelectedFrom
<1>3. PICK b \in Built(lastHash, Self, valid) : cand' = Append(lastHash, b)
  BY DEF StartCycle
<1> HIDE DEF selected, valid
<1>4. b \in Block /\ b.txns = valid /\ lastHash \in Seq(Block)
  <2>1. lastHash \in Chain /\ Self \in Peer \cup {Self} /\ valid \in Seq(Txn)
    BY <1>2 DEF TypeOK
  <2>2. b \in Block /\ b.txns = valid
    BY <1>3, <2>1, BuiltType
  <2>3. QED
    BY <2>1, <2>2 DEF Chain
<1>5. cand' # Genesis /\ TipBlock(cand') = b
  BY <1>3, <1>4 DEF Genesis, TipBlock
<1>6. Range(valid) \subseteq Range(pool)
  BY <1>1, <1>2 DEF Range
<1>7. QED
  BY <1>3, <1>4, <1>5, <1>6

LEMMA MiningServicePublish ==
  ASSUME TypeOK, PublishInvariant, MiningService
  PROVE  PublishInvariant'
<1> USE DEF PublishInvariant
<1>1. CASE SelectUpdate
  <2>1. Kept /\ PublishedInOrder'
    BY <1>1, LearnKept DEF SelectUpdate, gossip
  <2>2. QueriesKnown' /\ TxnsAnnounced'
    BY <1>1, <2>1, QueriesKept, TxnsKept DEF SelectUpdate, gossip
  <2>3. /\ mineSvc = "loop" /\ mineSvc' \in {"loop", "step"}
        /\ newCycle' = TRUE \/ newCycle' = newCycle
        /\ UNCHANGED <<blocks, cand>>
    BY <1>1 DEF SelectUpdate, chain
  <2>4. BlocksAnnounced'
    BY <2>1, <2>3 DEF BlocksAnnounced, Kept
  <2>5. WorkAnnounced'
    BY <2>1, <2>3 DEF WorkAnnounced, Kept
  <2>6. QED
    BY <2>1, <2>2, <2>4, <2>5
<1>2. CASE StartCycle
  <2>1. Kept /\ PublishedInOrder'
    BY <1>2, LearnKept DEF StartCycle, gossip
  <2>2. PICK b : /\ cand' # Genesis /\ TipBlock(cand') = b
                 /\ Range(b.txns) \subseteq Range(pool)
    BY <1>2, CandType
  <2>3. /\ newCycle' = FALSE /\ mineSvc = "step" /\ mineSvc' = "loop"
        /\ UNCHANGED <<blocks, txnSvc, txnChan, calls>>
    BY <1>2 DEF StartCycle, chain
  <2>4. TxnsAnnounced'
    <3>1. Range(pool') \subseteq Range(pool)
      BY <1>2, RemoveRange DEF StartCycle, WithoutInvalid, TypeOK
    <3>2. QED
      BY <2>1, <2>3, <3>1, TxnsKept
  <2>5. QueriesKnown'
    BY <1>2, QueriesKept DEF StartCycle, gossip
  <2>6. BlocksAnnounced'
    BY <2>1, <2>3 DEF BlocksAnnounced, Kept
  <2>7. WorkAnnounced'
    <3>1. \A t \in Range(b.txns) : AnnouncedTxn(t)'
      BY <2>1, <2>2 DEF TxnsAnnounced, Kept
    <3>2. QED
      BY <2>2, <2>3, <3>1 DEF WorkAnnounced
  <2>8. QED
    BY <2>1, <2>4, <2>5, <2>6, <2>7
<1>3. CASE TryNonce
  <2>1. Kept /\ PublishedInOrder'
    BY <1>3, LearnKept DEF TryNonce, gossip
  <2>2. QueriesKnown' /\ TxnsAnnounced'
    BY <1>3, <2>1, QueriesKept, TxnsKept DEF TryNonce, gossip
  <2>3. /\ ~newCycle /\ mineSvc = "step" /\ mineSvc' \in {"loop", "found"}
        /\ UNCHANGED <<blocks, newCycle, cand>>
    BY <1>3 DEF TryNonce, chain
  <2>4. BlocksAnnounced'
    BY <2>1, <2>3 DEF BlocksAnnounced, Kept
  <2>5. WorkAnnounced'
    BY <2>1, <2>3 DEF WorkAnnounced, Kept
  <2>6. QED
    BY <2>1, <2>2, <2>4, <2>5
<1>4. CASE PutOwnBlock
  <2>1. Kept /\ PublishedInOrder'
    BY <1>4, LearnKept DEF PutOwnBlock, gossip
  <2>2. QueriesKnown' /\ TxnsAnnounced'
    BY <1>4, <2>1, QueriesKept, TxnsKept DEF PutOwnBlock, gossip
  <2>3. CASE Prev(cand) \in blocks /\ PutBlock(cand) /\ mineSvc' = "publish" /\ UNCHANGED newCycle
    <3>1. mineSvc = "found" /\ blocks' = blocks \cup {cand} /\ cand' = cand
      BY <1>4, <2>3 DEF PutOwnBlock, PutBlock
    <3>2. \A h \in blocks : Announced(h)'
      BY <2>1, <3>1 DEF BlocksAnnounced, Kept
    <3>3. BlocksAnnounced'
      BY <2>3, <3>1, <3>2 DEF BlocksAnnounced
    <3>4. Announced(Prev(cand))'
      <4>1. PICK h \in blocks : h = Prev(cand)
        BY <2>3
      <4>2. Announced(h)' /\ Prev(cand)' = h
        BY <3>1, <3>2, <4>1 DEF Prev
      <4>3. QED
        BY <4>2 DEF Announced
    <3>5. WorkAnnounced'
      BY <2>1, <2>3, <3>1, <3>4 DEF WorkAnnounced, Kept
    <3>6. QED
      BY <2>1, <2>2, <3>3, <3>5
  <2>4. CASE mineSvc' = "loop" /\ newCycle' = TRUE /\ UNCHANGED chain
    <3>1. mineSvc = "found" /\ cand' = cand /\ blocks' = blocks
      BY <1>4, <2>4 DEF PutOwnBlock, chain
    <3>2. BlocksAnnounced'
      BY <2>1, <3>1 DEF BlocksAnnounced, Kept
    <3>3. WorkAnnounced'
      BY <2>4, <3>1 DEF WorkAnnounced
    <3>4. QED
      BY <2>1, <2>2, <3>2, <3>3
  <2>5. QED
    BY <1>4, <2>3, <2>4 DEF PutOwnBlock
<1>5. CASE PublishBlock
  <2>1. cand \in Chain /\ BlockUpdate(cand) \in Update /\ BlockUpdate(cand).id = cand
    BY UpdateType DEF TypeOK, BlockUpdate
  <2>2. Ready(cand, Range(updateChan))
    BY <1>5 DEF PublishBlock, WorkAnnounced, Ready, Announced, AnnouncedTxn
  <2>3. Kept /\ PublishedInOrder' /\ BlockUpdate(cand) \in Range(updateChan')
    BY <1>5, <2>1, <2>2, SendKept DEF PublishBlock
  <2>4. /\ mineSvc' = "loop" /\ newCycle' = TRUE
        /\ UNCHANGED <<blocks, cand, queryChan, filtering, blockChan, knownTxns,
                       knownBlocks, txnSvc, txnChan, calls>>
    BY <1>5 DEF PublishBlock, chain
  <2>5. TxnsAnnounced'
    <3>1. Range(pool') \subseteq Range(pool)
      BY <1>5, RemoveRange DEF PublishBlock, TypeOK
    <3>2. QED
      BY <2>3, <2>4, <3>1, TxnsKept
  <2>6. QueriesKnown'
    BY <2>4, QueriesKept
  <2>7. BlocksAnnounced'
    <3>1. Announced(cand)'
      BY <2>3, <2>4 DEF Announced
    <3>2. \A h \in blocks : Announced(h)' \/ h = cand
      BY <2>3 DEF BlocksAnnounced, Kept
    <3>3. QED
      BY <2>4, <3>1, <3>2 DEF BlocksAnnounced, Announced
  <2>8. WorkAnnounced'
    BY <2>4 DEF WorkAnnounced
  <2>9. QED
    BY <2>3, <2>5, <2>6, <2>7, <2>8
<1>6. QED
  BY <1>1, <1>2, <1>3, <1>4, <1>5 DEF MiningService

LEMMA RestartPublish ==
  ASSUME Restart
  PROVE  PublishInvariant'
<1>1. Range(<< >>) = {}
  BY DEF Range
<1>2. BlocksAnnounced'
  BY DEF Restart, BlocksAnnounced, Announced
<1>3. WorkAnnounced'
  BY DEF Restart, WorkAnnounced
<1>4. TxnsAnnounced' /\ QueriesKnown'
  BY <1>1 DEF Restart, TxnsAnnounced, QueriesKnown
<1>5. PublishedInOrder'
  BY DEF Restart, PublishedInOrder
<1>6. QED
  BY <1>2, <1>3, <1>4, <1>5 DEF PublishInvariant

LEMMA StepPublish ==
  ASSUME TypeOK, PublishInvariant, [Next]_vars
  PROVE  PublishInvariant'
<1>1. CASE UNCHANGED vars
  <2> USE <1>1 DEF PublishInvariant, vars, chain, gossip, mining
  <2>1. Kept /\ PublishedInOrder'
    BY LearnKept
  <2>2. QED
    BY <2>1, BlocksKept, TxnsKept, QueriesKept, WorkKept
<1>2. QED
  BY <1>1, GossipPublish, DigestPublish, ClientPublish, TxnServicePublish,
     BlockServicePublish, MiningServicePublish, RestartPublish DEF Next

(* Gossip gets a block of this miner after its parent and its              *)
(* transactions (m.rtMu in ReceiveTxn and TxnService, m.mu in              *)
(* MiningService): what CausalLog of Gossip assumes of its local updates.  *)
THEOREM PublishedInOrderHolds == Spec => []PublishedInOrder
<1>1. TypeOK /\ PublishInvariant /\ [Next]_vars => TypeOK' /\ PublishInvariant'
  BY StepType, StepPublish
<1>2. PublishInvariant => PublishedInOrder
  BY DEF PublishInvariant
<1>3. QED
  BY <1>1, <1>2, InitType, InitPublish, PTL DEF Spec

-----------------------------------------------------------------------------
Signed(t) == Data[t].signed

AllSigned ==
  /\ \A t \in Range(pool) \cup Range(txnChan) : Signed(t)
  /\ txnSvc # Idle => Signed(txnSvc.of)
  /\ \A c \in Call : calls[c].pc = "queue" => Signed(calls[c].of)
  /\ \A u \in Range(queryChan) : u.type = "txn" => Signed(u.id)
  /\ filtering # Idle /\ filtering.of.type = "txn" => Signed(filtering.of.id)

(* Each transaction is added to the pool once; only the oldest one there,  *)
(* if the miner started with it, may come again.                           *)
PoolOnce ==
  /\ \A i \in 2..Len(pool) :
       pool[i] \in received /\ \A j \in 2..Len(pool) : pool[i] = pool[j] => i = j
  /\ txnSvc # Idle =>
       txnSvc.of \in received /\ \A i \in 2..Len(pool) : pool[i] # txnSvc.of

WorkStored == mineSvc = "publish" => cand = lastHash

PoolInvariant == AllSigned /\ PoolOnce /\ WorkStored /\ LostOnlyByForkSwitch

LEMMA InitPool == Init => PoolInvariant
<1> SUFFICES ASSUME Init PROVE PoolInvariant
  OBVIOUS
<1>1. Range(<< >>) = {} /\ Idle.pc = "idle"
  BY DEF Range, Idle
<1>2. /\ \A t \in Range(pool) : Signed(t)
      /\ 2..Len(pool) = {}
  <2>1. CASE pool = << >>
    <3>1. Len(<< >>) = 0 /\ 2..0 = {}
      OBVIOUS
    <3>2. QED
      BY <1>1, <2>1, <3>1
  <2>2. ASSUME NEW t \in Txn, Data[t].signed, pool = <<t>>
        PROVE  Range(pool) = {t} /\ Len(pool) = 1
    BY <2>2 DEF Range
  <2>3. pool = << >> \/ \E t \in Txn : Data[t].signed /\ pool = <<t>>
    BY DEF Init
  <2>4. 2..1 = {}
    OBVIOUS
  <2>5. QED
    BY <2>1, <2>2, <2>3, <2>4 DEF Signed
<1>3. AllSigned
  BY <1>1, <1>2 DEF Init, AllSigned
<1>4. PoolOnce
  BY <1>2 DEF Init, PoolOnce
<1>5. WorkStored /\ LostOnlyByForkSwitch
  BY DEF Init, WorkStored, LostOnlyByForkSwitch
<1>6. QED
  BY <1>3, <1>4, <1>5 DEF PoolInvariant

(* The parts of the invariant that an action leaves alone.                 *)
LEMMA SignedKept ==
  ASSUME AllSigned, Range(pool') \subseteq Range(pool),
         UNCHANGED <<txnChan, txnSvc, calls, queryChan, filtering>>
  PROVE  AllSigned'
BY DEF AllSigned

LEMMA OnceKept ==
  ASSUME PoolOnce, UNCHANGED <<pool, received, txnSvc>>
  PROVE  PoolOnce'
BY DEF PoolOnce

LEMMA WorkStoredKept ==
  ASSUME WorkStored, UNCHANGED <<mineSvc, cand, lastHash>>
  PROVE  WorkStored'
BY DEF WorkStored

(* What the pool loses the chain gains; what the chain loses is noted.     *)
OnChain == TxnsOf(lastHash) \cup uncled

LEMMA ChainKept ==
  ASSUME UNCHANGED chain
  PROVE  OnChain' = OnChain
BY DEF OnChain, TxnsOf, chain

LEMMA ChainPut ==
  ASSUME NEW h, PutBlock(h)
  PROVE  OnChain \subseteq OnChain'
<1>1. uncled' = uncled \cup (TxnsOf(lastHash) \ TxnsOf(lastHash'))
  BY DEF PutBlock
<1>2. TxnsOf(lastHash)' = TxnsOf(lastHash')
  BY DEF TxnsOf
<1>3. QED
  BY <1>1, <1>2 DEF OnChain

LEMMA DroppedKept ==
  ASSUME LostOnlyByForkSwitch, OnChain \subseteq OnChain', UNCHANGED <<received, txnSvc>>,
         Range(pool) \ Range(pool') \subseteq OnChain'
  PROVE  LostOnlyByForkSwitch'
<1>1. PoolHoldsAll => \A t \in received :
        t \in Range(pool) \/ txnSvc = At("add", t) \/ t \in OnChain
  BY DEF LostOnlyByForkSwitch, OnChain
<1>2. PoolHoldsAll => \A t \in received' :
        t \in Range(pool') \/ txnSvc' = At("add", t) \/ t \in OnChain'
  BY <1>1
<1>3. QED
  BY <1>2 DEF LostOnlyByForkSwitch, OnChain, PoolHoldsAll

(* The order of the pool is kept when transactions are removed.            *)
LEMMA OnceRemoved ==
  ASSUME TypeOK, PoolOnce, NEW txns, pool' = RemoveTxns(pool, txns),
         UNCHANGED <<received, txnSvc>>
  PROVE  PoolOnce'
<1> DEFINE keep == {pool[i] : i \in DOMAIN pool} \ txns
           q == Selected(pool, keep)
           from == From(pool, keep)
<1>1. /\ q \in Seq(Txn)
      /\ from \in [DOMAIN q -> DOMAIN pool]
      /\ \A k \in DOMAIN q : q[k] = pool[from[k]]
      /\ \A k, l \in DOMAIN q : k < l <=> from[k] < from[l]
  <2> HIDE DEF keep
  <2>1. pool \in Seq(Txn)
    BY DEF TypeOK
  <2>2. QED
    BY <2>1, SelectedFrom
<1>2. pool' = q
  BY DEF RemoveTxns
<1> HIDE DEF q, from
<1>3. pool \in Seq(Txn) /\ DOMAIN pool = 1..Len(pool) /\ Len(pool) \in Nat
      /\ DOMAIN q = 1..Len(q) /\ Len(q) \in Nat
  BY <1>1 DEF TypeOK
<1>4. \A k \in 2..Len(q) : k \in DOMAIN q /\ from[k] \in 2..Len(pool) /\ q[k] = pool[from[k]]
  <2> TAKE k \in 2..Len(q)
  <2>1. 1 \in DOMAIN q /\ k \in DOMAIN q /\ 1 < k
    BY <1>3
  <2>2. from[1] < from[k] /\ from[1] \in 1..Len(pool) /\ from[k] \in 1..Len(pool)
    BY <1>1, <1>3, <2>1
  <2>3. QED
    BY <1>1, <2>1, <2>2
<1>5. \A k, l \in 2..Len(q) : from[k] = from[l] => k = l
  <2> TAKE k, l \in 2..Len(q)
  <2>1. k \in DOMAIN q /\ l \in DOMAIN q /\ k \in Nat /\ l \in Nat
    BY <1>3, <1>4
  <2>2. from[k] \in Nat /\ from[l] \in Nat
    BY <1>4
  <2>3. from[k] = from[l] => ~(k < l) /\ ~(l < k)
    BY <1>1, <2>1, <2>2
  <2>4. QED
    BY <2>1, <2>3
<1>6. \A k \in 2..Len(q) :
        q[k] \in received /\ \A l \in 2..Len(q) : q[k] = q[l] => k = l
  <2> TAKE k \in 2..Len(q)
  <2>1. q[k] \in received
    BY <1>4 DEF PoolOnce
  <2>2. \A l \in 2..Len(q) : q[k] = q[l] => from[k] = from[l]
    BY <1>4 DEF PoolOnce
  <2>3. QED
    BY <1>5, <2>1, <2>2
<1>7. txnSvc # Idle =>
        txnSvc.of \in received /\ \A k \in 2..Len(q) : q[k] # txnSvc.of
  BY <1>4 DEF PoolOnce
<1>8. QED
  BY <1>2, <1>6, <1>7 DEF PoolOnce

(* What the pool and the transaction behind it are, from the second place: *)
(* each one once, and taken.                                               *)
LEMMA AddedOnce ==
  ASSUME TypeOK, PoolOnce, txnSvc # Idle, NEW s, s = Append(pool, txnSvc.of)
  PROVE  /\ txnSvc.of \in Txn
         /\ Len(pool) \in Nat /\ Len(s) = Len(pool) + 1
         /\ \A i \in 2..Len(s) :
              s[i] \in received /\ \A j \in 2..Len(s) : s[i] = s[j] => i = j
<1> DEFINE n == Len(pool)
<1>1. PICK t \in Txn : t = txnSvc.of
  BY DEF TypeOK
<1>2. pool \in Seq(Txn) /\ s = Append(pool, t)
  BY <1>1 DEF TypeOK
<1>3. /\ n \in Nat /\ Len(s) = n + 1 /\ s[n + 1] = t
      /\ \A i \in 1..n : s[i] = pool[i]
  BY <1>2
<1>4. /\ t \in received
      /\ \A i \in 2..n : pool[i] \in received /\ pool[i] # t
      /\ \A i, j \in 2..n : pool[i] = pool[j] => i = j
  BY <1>1 DEF PoolOnce
<1> HIDE DEF n
<1>5. \A i \in 2..(n + 1) : i = n + 1 \/ (i \in 2..n /\ i \in 1..n)
  BY <1>3
<1>6. \A i \in 2..(n + 1) :
        s[i] \in received /\ \A j \in 2..(n + 1) : s[i] = s[j] => i = j
  BY <1>3, <1>4, <1>5
<1>7. QED
  BY <1>1, <1>3, <1>6 DEF n

LEMMA OnceAdded ==
  ASSUME TypeOK, PoolOnce, AddTxnToPool
  PROVE  PoolOnce'
<1>1. PICK s : s = Append(pool, txnSvc.of)
  OBVIOUS
<1>2. /\ txnSvc # Idle /\ txnSvc' = Idle /\ received' = received
      /\ pool' = AddTxn(pool, txnSvc.of, PoolCap)
  BY DEF AddTxnToPool
<1>3. /\ txnSvc.of \in Txn
      /\ Len(pool) \in Nat /\ Len(s) = Len(pool) + 1
      /\ \A i \in 2..Len(s) :
           s[i] \in received /\ \A j \in 2..Len(s) : s[i] = s[j] => i = j
  BY <1>1, <1>2, AddedOnce
<1>4. pool \in Seq(Txn) /\ Len(pool) <= PoolCap /\ PoolCap \in Nat
  BY Capacities DEF TypeOK
<1>5. CASE Len(pool) < PoolCap
  <2>1. pool' = s
    BY <1>1, <1>2, <1>3, <1>4, <1>5, AddTxnType
  <2>2. QED
    BY <1>2, <1>3, <2>1 DEF PoolOnce
<1>6. CASE Len(pool) = PoolCap
  <2>1. Len(pool') = PoolCap /\ \A i \in 1..PoolCap : pool'[i] = s[i + 1]
    BY <1>1, <1>2, <1>3, <1>4, <1>6, AddTxnType
  <2>2. \A i \in 2..PoolCap : /\ pool'[i] = s[i + 1] /\ i + 1 \in 2..Len(s)
                              /\ \A j \in 2..PoolCap : i + 1 = j + 1 => i = j
    BY <1>3, <1>4, <1>6, <2>1
  <2>3. \A i \in 2..PoolCap : pool'[i] \in received
    BY <1>3, <2>2
  <2>4. \A i, j \in 2..PoolCap : pool'[i] = pool'[j] => i = j
    BY <1>3, <2>2
  <2>5. QED
    BY <1>2, <2>1, <2>3, <2>4 DEF PoolOnce
<1>7. QED
  BY <1>3, <1>4, <1>5, <1>6

(* When the oldest transaction has to go, the pool is left with every      *)
(* transaction there is: what goes is the copy that the miner began with.  *)
LEMMA AddKeepsAll ==
  ASSUME TypeOK, PoolOnce, PoolHoldsAll, AddTxnToPool
  PROVE  Range(pool') = Range(pool) \cup {txnSvc.of}
<1>1. PICK s : s = Append(pool, txnSvc.of)
  OBVIOUS
<1>2. /\ txnSvc # Idle /\ pool' = AddTxn(pool, txnSvc.of, PoolCap)
  BY DEF AddTxnToPool
<1>3. /\ txnSvc.of \in Txn
      /\ Len(pool) \in Nat /\ Len(s) = Len(pool) + 1
      /\ \A i, j \in 2..Len(s) : s[i] = s[j] => i = j
  BY <1>1, <1>2, AddedOnce
<1>4. pool \in Seq(Txn) /\ Len(pool) <= PoolCap /\ PoolCap \in Nat
  BY Capacities DEF TypeOK
<1>5. CASE Len(pool) < PoolCap
  BY <1>2, <1>3, <1>4, <1>5, AddRange
<1>6. CASE Len(pool) = PoolCap
  <2>1. /\ pool' \in Seq(Txn) /\ Len(pool') = PoolCap
        /\ \A i \in 1..PoolCap : pool'[i] = s[i + 1]
    BY <1>1, <1>2, <1>3, <1>4, <1>6, AddTxnType
  <2>2. pool' \in [1..PoolCap -> Txn] /\ DOMAIN pool' = 1..PoolCap
    BY <1>4, <2>1
  <2>3. \A i, j \in 1..PoolCap : pool'[i] = pool'[j] => i = j
    <3> TAKE i, j \in 1..PoolCap
    <3>1. i + 1 \in 2..Len(s) /\ j + 1 \in 2..Len(s)
      BY <1>3, <1>4, <1>6
    <3>2. pool'[i] = pool'[j] => i + 1 = j + 1
      BY <1>3, <2>1, <3>1
    <3>3. QED
      BY <1>4, <3>2
  <2>4. pool' \in Injection(1..PoolCap, Txn)
    BY <2>2, <2>3 DEF Injection, IsInjective
  <2>5. IsFiniteSet(Txn) /\ Cardinality(Txn) <= PoolCap /\ Cardinality(Txn) \in Nat
    BY FS_CardinalityType DEF PoolHoldsAll
  <2>6. Cardinality(1..PoolCap) = PoolCap
    <3>1. Cardinality(1..PoolCap) = IF 1 > PoolCap THEN 0 ELSE PoolCap - 1 + 1
      BY <1>4, FS_Interval
    <3>2. QED
      BY <1>4, <3>1
  <2>7. /\ Cardinality(1..PoolCap) <= Cardinality(Txn)
        /\ Cardinality(1..PoolCap) = Cardinality(Txn) => pool' \in Surjection(1..PoolCap, Txn)
    BY <2>4, <2>5, FS_Injection
  <2>8. pool' \in Surjection(1..PoolCap, Txn)
    BY <1>4, <2>5, <2>6, <2>7
  <2>9. Range(pool') = Txn
    BY <2>2, <2>8 DEF Surjection, Range
  <2>10. Range(pool) \subseteq Txn
    BY <1>4 DEF Range
  <2>11. Range(pool') \subseteq Range(pool) \cup {txnSvc.of}
    BY <1>2, <1>3, <1>4, AddRange
  <2>12. QED
    BY <1>3, <2>9, <2>10, <2>11
<1>7. QED
  BY <1>3, <1>4, <1>5, <1>6

LEMMA QuerySigned ==
  ASSUME TypeOK, AllSigned, RwFree, NEW u \in Update, Query(u),
         u.type = "txn" => Signed(u.id),
         UNCHANGED <<pool, txnChan, txnSvc, calls>>
  PROVE  AllSigned'
<1>1. CASE QueryRoom
  <2>1. queryChan' = Append(queryChan, u) /\ filtering' = Idle
    BY <1>1 DEF Query, RwFree
  <2>2. Range(queryChan') = Range(queryChan) \cup {u}
    BY <2>1, RangeAppend DEF TypeOK
  <2>3. QED
    BY <2>1, <2>2 DEF AllSigned
<1>2. CASE ~QueryRoom
  <2>1. queryChan' = queryChan /\ filtering'.of = u
    BY <1>2 DEF Query, At
  <2>2. QED
    BY <2>1 DEF AllSigned
<1>3. QED
  BY <1>1, <1>2

LEMMA GossipPool ==
  ASSUME TypeOK, PoolInvariant, Gossip
  PROVE  PoolInvariant'
<1> USE DEF PoolInvariant
<1>1. UNCHANGED <<chain, pool, received, txnChan, calls, txnSvc, mineSvc, cand>>
  BY DEF Gossip, DigestLocalUpdate, FilterEnd, FilterTxn, FilterBlock, mining
<1>2. PoolOnce' /\ WorkStored' /\ LostOnlyByForkSwitch'
  BY <1>1, OnceKept, WorkStoredKept, DroppedKept, ChainKept DEF chain
<1>3. AllSigned'
  <2>1. CASE DigestLocalUpdate
    BY <1>1, <2>1, SignedKept DEF DigestLocalUpdate
  <2>2. CASE FilterEnd
    <3>1. filtering.of \in Update /\ (filtering.of.type = "txn" => Signed(filtering.of.id))
      BY <2>2 DEF FilterEnd, AllSigned, TypeOK
    <3>2. Range(queryChan') = Range(queryChan) \cup {filtering.of}
      BY <2>2, <3>1, RangeAppend DEF FilterEnd, TypeOK
    <3>3. QED
      BY <1>1, <2>2, <3>1, <3>2 DEF FilterEnd, AllSigned
  <2>3. ASSUME NEW t \in Txn, FilterTxn(t)
        PROVE  AllSigned'
    <3>1. TxnUpdate(t) \in Update /\ Signed(TxnUpdate(t).id)
      BY <2>3, UpdateType DEF FilterTxn, TxnUpdate, Signed
    <3>2. QED
      BY <1>1, <2>3, <3>1, QuerySigned DEF FilterTxn
  <2>4. ASSUME NEW prev \in knownBlocks, NEW m \in Peer, NEW txns \in Batch,
               NEW b \in Built(prev, m, txns), NEW num \in Numbers(prev),
             FilterBlock(Append(prev, [b EXCEPT !.num = num]))
        PROVE  AllSigned'
    <3> DEFINE h == Append(prev, [b EXCEPT !.num = num])
    <3>1. h \in Chain
      <4>1. prev \in Chain
        BY DEF TypeOK
      <4>2. QED
        BY <4>1, BatchType, PeerBlockType
    <3> HIDE DEF h
    <3>2. FilterBlock(h)
      BY <2>4 DEF h
    <3>3. BlockUpdate(h) \in Update /\ BlockUpdate(h).type # "txn"
      BY <3>1, UpdateType DEF BlockUpdate
    <3>4. QED
      BY <1>1, <3>2, <3>3, QuerySigned DEF FilterBlock
  <2>5. QED
    BY <2>1, <2>2, <2>3, <2>4 DEF Gossip
<1>4. QED
  BY <1>2, <1>3

LEMMA DigestPool ==
  ASSUME TypeOK, PoolInvariant, DigestUpdates
  PROVE  PoolInvariant'
<1> USE DEF PoolInvariant
<1>1. UNCHANGED <<chain, pool, received, filtering, calls, txnSvc, mineSvc, cand>>
  BY DEF DigestUpdates, mining
<1>2. PoolOnce' /\ WorkStored' /\ LostOnlyByForkSwitch'
  BY <1>1, OnceKept, WorkStoredKept, DroppedKept, ChainKept DEF chain
<1> DEFINE u == Head(queryChan)
<1>3. Range(queryChan) = Range(queryChan') \cup {u} /\ u \in Update
  BY RangeTail DEF DigestUpdates, TypeOK
<1>4. u.type = "txn" => u.id \in Txn /\ Signed(u.id)
  <2>1. \A v \in Update : v.type = "txn" => v.id \in Txn
    BY UpdateType
  <2>2. u.type = "txn" => Signed(u.id)
    BY <1>3 DEF AllSigned
  <2>3. QED
    BY <1>3, <2>1, <2>2
<1>5. IF u.type = "txn" THEN txnChan' = Append(txnChan, u.id) ELSE UNCHANGED txnChan
  BY DEF DigestUpdates
<1> HIDE DEF u
<1>6. \A t \in Range(txnChan') : Signed(t)
  <2>1. CASE u.type = "txn"
    <3>1. PICK t \in Txn : t = u.id /\ txnChan' = Append(txnChan, t)
      BY <1>4, <1>5, <2>1
    <3>2. Range(txnChan') = Range(txnChan) \cup {t}
      BY <3>1, RangeAppend DEF TypeOK
    <3>3. QED
      BY <1>4, <2>1, <3>1, <3>2 DEF AllSigned
  <2>2. CASE u.type # "txn"
    BY <1>5, <2>2 DEF AllSigned
  <2>3. QED
    BY <2>1, <2>2
<1>7. AllSigned'
  BY <1>1, <1>3, <1>6 DEF AllSigned
<1>8. QED
  BY <1>2, <1>7

LEMMA ClientPool ==
  ASSUME TypeOK, PoolInvariant, Client
  PROVE  PoolInvariant'
<1> USE DEF PoolInvariant
<1>1. UNCHANGED <<chain, pool, received, queryChan, filtering, txnSvc, mineSvc, cand>>
  BY DEF Client, SubmitTxn, QueueTxn, PublishTxn, gossip, mining
<1>2. PoolOnce' /\ WorkStored' /\ LostOnlyByForkSwitch'
  BY <1>1, OnceKept, WorkStoredKept, DroppedKept, ChainKept DEF chain
<1>3. ASSUME NEW c \in Call, NEW t \in Txn, SubmitTxn(c, t)
      PROVE  AllSigned'
  <2>1. \A d \in Call : calls'[d].pc = "queue" => Signed(calls'[d].of)
    BY <1>3 DEF SubmitTxn, At, Signed, AllSigned, TypeOK
  <2>2. QED
    BY <1>1, <1>3, <2>1 DEF SubmitTxn, AllSigned
<1>4. ASSUME NEW c \in Call, QueueTxn(c)
      PROVE  AllSigned'
  <2>1. calls[c] \in [pc : {"queue", "gossip", "done"}, of : Txn] /\ calls[c].pc = "queue"
    BY <1>4, CallType DEF QueueTxn
  <2>2. Range(txnChan') = Range(txnChan) \cup {calls[c].of}
    BY <1>4, <2>1, RangeAppend DEF QueueTxn, TypeOK
  <2>3. \A d \in Call : calls'[d].pc = "queue" => calls'[d] = calls[d]
    BY <1>4, <2>1 DEF QueueTxn, TypeOK
  <2>4. QED
    BY <1>1, <2>1, <2>2, <2>3 DEF AllSigned
<1>5. ASSUME NEW c \in Call, PublishTxn(c)
      PROVE  AllSigned'
  <2>1. calls[c] \in [pc : {"queue", "gossip", "done"}, of : Txn]
    BY <1>5, CallType DEF PublishTxn
  <2>2. \A d \in Call : calls'[d].pc = "queue" => calls'[d] = calls[d]
    BY <1>5, <2>1 DEF PublishTxn, TypeOK
  <2>3. QED
    BY <1>1, <1>5, <2>2 DEF PublishTxn, AllSigned
<1>6. QED
  BY <1>2, <1>3, <1>4, <1>5 DEF Client

LEMMA TxnServicePool ==
  ASSUME TypeOK, PoolInvariant, TxnService
  PROVE  PoolInvariant'
<1> USE DEF PoolInvariant
<1>1. UNCHANGED <<chain, calls, queryChan, filtering, mineSvc, cand>>
  BY DEF TxnService, MarkTxn, Mark, AddTxnToPool, gossip, mining
<1>2. WorkStored'
  BY <1>1, WorkStoredKept DEF chain
<1>3. CASE MarkTxn
  <2> PICK t : t = Head(txnChan)
    OBVIOUS
  <2>1. Range(txnChan) = Range(txnChan') \cup {t}
    BY <1>3, RangeTail DEF MarkTxn, Mark, TypeOK
  <2>2. /\ txnSvc = Idle /\ pool' = pool /\ UNCHANGED <<lastHash, uncled>>
        /\ received' = received \cup {t}
        /\ \/ t \in received /\ txnSvc' = Idle
           \/ t \notin received /\ txnSvc' = At("add", t)
    BY <1>3 DEF MarkTxn, Mark, chain
  <2>3. At("add", t).of = t
    BY DEF At
  <2>4. AllSigned'
    BY <1>1, <2>1, <2>2, <2>3 DEF AllSigned
  <2>5. PoolOnce'
    BY <2>2, <2>3 DEF PoolOnce
  <2>6. LostOnlyByForkSwitch'
    <3>1. \A x : txnSvc # At("add", x)
      BY <2>2 DEF Idle, At
    <3>2. QED
      BY <2>2, <3>1 DEF LostOnlyByForkSwitch, PoolHoldsAll, TxnsOf
  <2>7. QED
    BY <1>2, <2>4, <2>5, <2>6
<1>4. CASE AddTxnToPool
  <2>1. /\ txnSvc # Idle /\ txnSvc' = Idle
        /\ UNCHANGED <<lastHash, uncled, received, txnChan>>
        /\ txnSvc.of \in Txn
    BY <1>4 DEF AddTxnToPool, TypeOK, chain
  <2>2. Range(pool') \subseteq Range(pool) \cup {txnSvc.of}
    BY <1>4, <2>1, AddRange DEF AddTxnToPool, TypeOK
  <2>3. AllSigned'
    BY <1>1, <2>1, <2>2 DEF AllSigned
  <2>4. PoolOnce'
    BY <1>4, OnceAdded
  <2>5. LostOnlyByForkSwitch'
    <3>1. PoolHoldsAll => Range(pool') = Range(pool) \cup {txnSvc.of}
      BY <1>4, AddKeepsAll
    <3>2. \A t : txnSvc = At("add", t) => t = txnSvc.of
      BY DEF At
    <3>3. QED
      BY <2>1, <3>1, <3>2 DEF LostOnlyByForkSwitch, PoolHoldsAll, TxnsOf
  <2>6. QED
    BY <1>2, <2>3, <2>4, <2>5
<1>5. QED
  BY <1>3, <1>4 DEF TxnService

LEMMA NewTxnsStored ==
  ASSUME NEW new, NEW old
  PROVE  NewTxns(new, old) \subseteq TxnsOf(new)
BY DEF NewTxns, OffChain, TxnsOf

LEMMA NewTxnsOnChain ==
  ASSUME NEW h, PutBlock(h), MovesTip(h), NEW t \in NewTxns(h, lastHash)
  PROVE  t \in OnChain'
<1>1. lastHash' = h
  BY DEF PutBlock
<1>2. TxnsOf(lastHash)' = TxnsOf(h)
  BY <1>1 DEF TxnsOf
<1>3. QED
  BY <1>2, NewTxnsStored DEF OnChain

LEMMA BlockServicePool ==
  ASSUME TypeOK, PoolInvariant, BlockService
  PROVE  PoolInvariant'
<1> USE DEF PoolInvariant
<1>1. UNCHANGED <<received, txnChan, txnSvc, calls, queryChan, filtering, mineSvc, cand>>
  BY DEF BlockService, PutPeerBlock, Notify, gossip, mining
<1>2. CASE PutPeerBlock
  <2> PICK h : h = Head(blockChan)
    OBVIOUS
  <2>1. \/ UNCHANGED <<chain, pool>>
        \/ PutBlock(h) /\ pool' = Cleared(h)
    BY <1>2 DEF PutPeerBlock
  <2>2. CASE UNCHANGED <<chain, pool>>
    BY <1>1, <2>2, SignedKept, OnceKept, WorkStoredKept, DroppedKept, ChainKept DEF chain
  <2>3. CASE PutBlock(h) /\ pool' = Cleared(h)
    <3>1. mineSvc' # "publish"
      BY <1>1, <1>2 DEF PutPeerBlock, MuFree
    <3>2. WorkStored'
      BY <3>1 DEF WorkStored
    <3>3. OnChain \subseteq OnChain'
      BY <2>3, ChainPut
    <3>4. CASE pool' = pool
      BY <1>1, <3>2, <3>3, <3>4, SignedKept, OnceKept, DroppedKept
    <3>5. CASE MovesTip(h) /\ pool' = RemoveTxns(pool, NewTxns(h, lastHash))
      <4>1. Range(pool') = Range(pool) \ NewTxns(h, lastHash)
        BY <3>5, RemoveRange DEF TypeOK
      <4>2. AllSigned'
        BY <1>1, <4>1, SignedKept
      <4>3. PoolOnce'
        BY <1>1, <3>5, OnceRemoved
      <4>4. LostOnlyByForkSwitch'
        BY <1>1, <2>3, <3>3, <3>5, <4>1, NewTxnsOnChain, DroppedKept
      <4>5. QED
        BY <3>2, <4>2, <4>3, <4>4
    <3>6. QED
      BY <2>3, <3>4, <3>5 DEF Cleared
  <2>4. QED
    BY <2>1, <2>2, <2>3
<1>3. CASE Notify
  <2>1. UNCHANGED <<chain, pool>>
    BY <1>3 DEF Notify
  <2>2. QED
    BY <1>1, <2>1, SignedKept, OnceKept, WorkStoredKept, DroppedKept, ChainKept DEF chain
<1>4. QED
  BY <1>2, <1>3 DEF BlockService

(* Every transaction in the pool is signed, so none of them is found       *)
(* invalid and dropped when a block is begun.                              *)
LEMMA StartKeepsPool ==
  ASSUME TypeOK, AllSigned, StartCycle
  PROVE  pool' = RemoveTxns(pool, {})
<1> DEFINE selected == Get(pool, MaxTxn)
           keep == {t \in Txn : Data[t].signed}
           valid == Selected(selected, keep)
<1>1. /\ selected \in Seq(Txn)
      /\ \A i \in DOMAIN selected : i \in DOMAIN pool /\ selected[i] = pool[i]
  BY GetType, Capacities DEF TypeOK
<1>2. \A i \in DOMAIN selected : selected[i] \in keep
  BY <1>1 DEF AllSigned, Signed, Range
<1>3. pool' = RemoveTxns(pool, Range(selected) \ Range(valid))
  BY DEF StartCycle, WithoutInvalid
<1>4. Range(selected) \subseteq Range(valid)
  <2> HIDE DEF selected, keep
  <2> DEFINE from == From(selected, keep)
  <2>1. /\ \A k \in DOMAIN valid : valid[k] = selected[from[k]]
        /\ \A i \in DOMAIN selected : selected[i] \in keep => \E k \in DOMAIN valid : from[k] = i
    BY <1>1, SelectedFrom
  <2> HIDE DEF from, valid
  <2>2. QED
    BY <1>2, <2>1 DEF Range
<1> HIDE DEF selected, valid
<1>5. Range(selected) \ Range(valid) = {}
  BY <1>4
<1>6. QED
  BY <1>3, <1>5

LEMMA MiningServicePool ==
  ASSUME TypeOK, MineInvariant, PublishInvariant, PoolInvariant, MiningService
  PROVE  PoolInvariant'
<1> USE DEF PoolInvariant
<1>1. UNCHANGED <<received, txnChan, txnSvc, calls, queryChan, filtering>>
  BY DEF MiningService, SelectUpdate, StartCycle, TryNonce, PutOwnBlock, PublishBlock, gossip
<1>2. CASE SelectUpdate \/ TryNonce
  <2>1. UNCHANGED <<chain, pool, cand>> /\ mineSvc' # "publish"
    BY <1>2 DEF SelectUpdate, TryNonce
  <2>2. WorkStored'
    BY <2>1 DEF WorkStored
  <2>3. QED
    BY <1>1, <2>1, <2>2, SignedKept, OnceKept, DroppedKept, ChainKept
<1>3. CASE StartCycle
  <2>1. pool' = RemoveTxns(pool, {})
    BY <1>3, StartKeepsPool
  <2>2. Range(pool') = Range(pool)
    <3>1. Range(RemoveTxns(pool, {})) = Range(pool) \ {}
      BY RemoveRange DEF TypeOK
    <3>2. QED
      BY <2>1, <3>1
  <2>3. mineSvc' = "loop" /\ OnChain' = OnChain
    BY <1>3, ChainKept DEF StartCycle
  <2>4. WorkStored'
    BY <2>3 DEF WorkStored
  <2>5. QED
    BY <1>1, <2>1, <2>2, <2>3, <2>4, SignedKept, OnceRemoved, DroppedKept
<1>4. CASE PutOwnBlock
  <2>1. pool' = pool /\ OnChain \subseteq OnChain' /\ cand' = cand
    BY <1>4, ChainPut, ChainKept DEF PutOwnBlock
  <2>2. mineSvc' = "publish" => lastHash' = cand
    <3> SUFFICES ASSUME mineSvc' = "publish"
                 PROVE  lastHash' = cand
      OBVIOUS
    <3>1. mineSvc = "found" /\ NoChainUpdate /\ MuFree /\ PutBlock(cand)
      BY <1>4 DEF PutOwnBlock
    <3>2. Prev(cand) = lastHash
      BY <3>1 DEF NoChainUpdate, MuFree, MineInvariant, WorkCurrent
    <3>3. QED
      BY <3>1, <3>2 DEF PutBlock, MovesTip
  <2>3. WorkStored'
    BY <2>1, <2>2 DEF WorkStored
  <2>4. QED
    BY <1>1, <2>1, <2>3, SignedKept, OnceKept, DroppedKept
<1>5. CASE PublishBlock
  <2>1. Range(pool') = Range(pool) \ Range(TipBlock(cand).txns)
    BY <1>5, RemoveRange DEF PublishBlock, TypeOK
  <2>2. Range(TipBlock(cand).txns) \subseteq TxnsOf(cand)
    <3>1. cand \in Seq(Block) /\ cand # << >>
      BY <1>5 DEF PublishBlock, PublishInvariant, WorkAnnounced, TypeOK, Chain, Genesis
    <3>2. Len(cand) \in DOMAIN cand
      BY <3>1
    <3>3. QED
      BY <3>2 DEF TipBlock, TxnsOf
  <2>3. cand = lastHash /\ OnChain' = OnChain /\ mineSvc' = "loop"
    BY <1>5, ChainKept DEF PublishBlock, WorkStored
  <2>4. WorkStored'
    BY <2>3 DEF WorkStored
  <2>5. PoolOnce'
    BY <1>1, <1>5, OnceRemoved DEF PublishBlock
  <2>6. LostOnlyByForkSwitch'
    BY <1>1, <2>1, <2>2, <2>3, DroppedKept DEF OnChain
  <2>7. AllSigned'
    BY <1>1, <2>1, SignedKept
  <2>8. QED
    BY <2>4, <2>5, <2>6, <2>7
<1>6. QED
  BY <1>2, <1>3, <1>4, <1>5 DEF MiningService

LEMMA RestartPool ==
  ASSUME Restart
  PROVE  PoolInvariant'
<1>1. Range(<< >>) = {} /\ Len(<< >>) = 0 /\ 2..0 = {} /\ Idle.pc = "idle"
  BY DEF Range, Idle
<1>2. AllSigned'
  BY <1>1 DEF Restart, AllSigned
<1>3. PoolOnce'
  BY <1>1 DEF Restart, PoolOnce
<1>4. WorkStored' /\ LostOnlyByForkSwitch'
  BY DEF Restart, WorkStored, LostOnlyByForkSwitch
<1>5. QED
  BY <1>2, <1>3, <1>4 DEF PoolInvariant

LEMMA StepPool ==
  ASSUME TypeOK, MineInvariant, PublishInvariant, PoolInvariant, [Next]_vars
  PROVE  PoolInvariant'
<1>1. CASE UNCHANGED vars
  <2> USE <1>1 DEF PoolInvariant, vars, chain, gossip, mining
  <2>1. QED
    BY SignedKept, OnceKept, WorkStoredKept, DroppedKept, ChainKept
<1>2. QED
  BY <1>1, GossipPool, DigestPool, ClientPool, TxnServicePool, BlockServicePool,
     MiningServicePool, RestartPool DEF Next

LEMMA Invariants == Spec => [](TypeOK /\ MineInvariant /\ PublishInvariant /\ PoolInvariant)
<1>1. TypeOK /\ MineInvariant /\ PublishInvariant /\ PoolInvariant /\ [Next]_vars =>
        TypeOK' /\ MineInvariant' /\ PublishInvariant' /\ PoolInvariant'
  BY StepType, StepMine, StepPublish, StepPool
<1>2. QED
  BY <1>1, InitType, InitMine, InitPublish, InitPool, PTL DEF Spec

(* A transaction that is marked as received (ReceivedTxns) is in the pool, *)
(* on its way there, or on the miner's chain, while the pool has room for  *)
(* all: only a fork switch (oldTxns, BlockService) loses it.               *)
THEOREM LostOnlyByForkSwitchHolds == Spec => []LostOnlyByForkSwitch
<1>1. PoolInvariant => LostOnlyByForkSwitch
  BY DEF PoolInvariant
<1>2. QED
  BY <1>1, Invariants, PTL

(* What the pool gives up is on the chain the miner works on: RemoveTxns   *)
(* in BlockService and in MiningService, while the pool has room for all.  *)
THEOREM PoolLosesOnlyToChainHolds == Spec => PoolLosesOnlyToChain
<1> DEFINE Loses == PoolHoldsAll => \A t \in Range(pool) \ Range(pool') :
             t \in TxnsOf(lastHash') \/ restarts' # restarts
<1>1. TypeOK /\ MineInvariant /\ PublishInvariant /\ PoolInvariant /\ [Next]_vars =>
        [Loses]_vars
  <2> SUFFICES ASSUME TypeOK, MineInvariant, PublishInvariant, PoolInvariant, Next,
                      PoolHoldsAll, NEW t \in Range(pool), t \notin Range(pool'),
                      restarts' = restarts
               PROVE  t \in TxnsOf(lastHash')
    BY DEF vars
  <2>1. pool' # pool
    OBVIOUS
  <2>2. ~Gossip /\ ~DigestUpdates /\ ~Client
    BY <2>1 DEF Gossip, DigestLocalUpdate, FilterEnd, FilterTxn, FilterBlock,
       DigestUpdates, Client, SubmitTxn, QueueTxn, PublishTxn
  <2>3. ~Restart
    <3>1. restarts \in Nat
      BY DEF TypeOK
    <3>2. QED
      BY <3>1 DEF Restart
  <2>4. ~TxnService
    <3>1. ~MarkTxn
      BY <2>1 DEF MarkTxn, Mark
    <3>2. ~AddTxnToPool
      BY AddKeepsAll DEF PoolInvariant
    <3>3. QED
      BY <3>1, <3>2 DEF TxnService
  <2>5. CASE BlockService
    <3>1. PutPeerBlock
      BY <2>1, <2>5 DEF BlockService, Notify
    <3>2. PICK h : h = Head(blockChan)
      OBVIOUS
    <3>3. PutBlock(h) /\ pool' = Cleared(h)
      BY <2>1, <3>1, <3>2 DEF PutPeerBlock
    <3>4. MovesTip(h) /\ pool' = RemoveTxns(pool, NewTxns(h, lastHash)) /\ lastHash' = h
      BY <2>1, <3>3 DEF PutBlock, Cleared
    <3>5. t \in NewTxns(h, lastHash)
      BY <3>4, RemoveRange DEF TypeOK
    <3>6. QED
      BY <3>4, <3>5, NewTxnsStored
  <2>6. CASE MiningService
    <3>1. ~StartCycle
      BY StartKeepsPool, RemoveRange DEF PoolInvariant, TypeOK
    <3>2. PublishBlock
      BY <2>1, <2>6, <3>1 DEF MiningService, SelectUpdate, TryNonce, PutOwnBlock
    <3>3. t \in Range(TipBlock(cand).txns)
      BY <3>2, RemoveRange DEF PublishBlock, TypeOK
    <3>4. cand \in Seq(Block) /\ cand # << >> /\ lastHash' = cand
      BY <3>2 DEF PublishBlock, PublishInvariant, WorkAnnounced, PoolInvariant, WorkStored,
         TypeOK, Chain, Genesis, chain
    <3>5. Len(cand) \in DOMAIN cand
      BY <3>4
    <3>6. QED
      BY <3>3, <3>4, <3>5 DEF TipBlock, TxnsOf
  <2>7. QED
    BY <2>2, <2>3, <2>4, <2>5, <2>6 DEF Next
<1>2. QED
  BY <1>1, Invariants, PTL DEF Spec, PoolLosesOnlyToChain
=============================================================================
