# BlockVote in TLA+

BlockVote is a voting system on a proof-of-work blockchain. Polls are launched,
voted in and ended by signed transactions; miners collect them, put them in
blocks, and spread transactions and blocks by gossip; a coord (tracker) hands
out peers and the initial chain; clients submit transactions to miners and
query them. This directory models the parts whose correctness depends on
ordering, concurrency or crashes, and checks them with TLC. Every safety property
of the passing runs, state invariant or action property, is also proved with
TLAPS, for every value of the constants; so are bounds of the difficulty and the
refinement of the block store. Liveness is model-checked.

## The system

| component (source) | state | operations | talks to |
|---|---|---|---|
| ledger rules (`blockchain/payload.go`, `transaction.go`, queries of `blockchain.go`) | none: functions of a chain and a block's earlier transactions | `Validate*`, `_ValidateTxns`, `TxnStatus`, `VotingStatus` | called by the store and by miners |
| block store (`blockchain/blockchain.go`) | database of blocks, `LastHashKey`, `LastHash`, `mu` | `Init`, `Put`, `CheckoutFork`, `ResumeFromDB`, `ResumeFromEncodedData`, `Encode` | database |
| memory pool (`blockchain/mempool.go`) | pending transactions, oldest first | `Get`, `AddTxn(s)`, `RemoveTxns` | called by miners |
| proof of work (`blockchain/pow.go`, adjustment in `blockchain.go`) | nonce, target | `Next`, `Validate`, `_AdjustDifficulty` | miners, store |
| miner (`blockvote/miner.go`) | chain, pool, `ReceivedTxns`, channels, `mu`, `rtMu` | `SubmitTxn`, `DigestUpdates`, `TxnService`, `BlockService`, `MiningService`, `Download`, join and resume | gossip (`queryChan`, `updateChan`), clients (RPC), coord and peers (RPC) |
| gossip (`gossip/gossip.go`) | `updateMap`/`updateLog`, `pendingPushQueue`, `rw` | local updates, push cycles, `PushPull`, `Retransmit` (and `Push`, `Pull`) | other nodes (RPC), client channels |
| peer manager (`gossip/peer-manager.go`) | peer list with addresses and activity | `SetPeers`, `AddOrUpdatePeer`, `SetActive`, `SetInactive`, `SelectPeers` | gossip |
| coord (`blockvote/coord.go`) | genesis chain, node list | `GetPeers`, `GetInitialStates`, `GetEntryPoints`; a gossip node for announcements | miners, clients |
| client library (`evlib/evlib.go`, `http.go`) | miner list, connection to the coord, complaint channels | `submitTxn`, `connectMiner`, `CoordConnManager`, `MinerListManager`, `CheckTxnStatus`, `CheckPollStatus` | miners, coord (RPC) |
| identity, util, cmd, scripts | keys; database, RPC and JSON wrappers; flags | - | - |

What is hard here: five goroutines and the RPC handlers of a miner share the
chain, the pool and bounded channels under two mutexes; a mutex is held across
channel sends; `Put` writes the database twice; forks switch what clients were
told; gossip calls overlap, fail half way and meet restarts; blocks that arrive
ahead of their parents are dropped for good. `PROJECT.json` lists each such
hazard at its line.

What makes each part correct:

* ledger: one vote per user and poll, one launch and one end per poll, votes
  within the life of the poll, on every fork; the status of a transaction and
  the tally of a poll agree on what is confirmed;
* store: stored chains are complete and valid; the tip moves only to a block on
  it or to a higher number, and is a longest chain as long as blocks are rightly
  numbered; a shallow fork then takes nothing back that was confirmed;
* difficulty: it follows the pace of the last five blocks, within a factor of four;
  the target's divisor is not 0;
* miner: own blocks extend the tip; what it publishes is in causal order; a
  received transaction is lost only when a fork switch takes its block off the
  chain; mining returns to the tip; submissions return;
* gossip: causal order and no duplicates in every log; a finished exchange
  leaves neither side behind; updates reach all subscribers;
* membership: lists are sound, hold whoever was heard of, and do not go back to
  an old address;
* client: the caller is told what happened to its transaction; every submission
  ends.

## Modules

| module | models | checked by |
|---|---|---|
| `Ledger` | validation, receipts, queries: pure operators on chains | through the others |
| `ForkChoice` | abstract: a tree of chains and a head that only moves to a chain on it or to a higher number | refined by `BlockChain` |
| `BlockChain` | the store of one node: `Put` in two writes, crashes | `MCChain` |
| `BlockChain_proofs` | theorems about `BlockChain` | TLAPS |
| `Confirmed_proofs` | theorems about what queries read of a `BlockChain` | TLAPS |
| `Difficulty` | the difficulty of the next block: pure operators on timestamps and difficulties | assumptions of `MCChain` |
| `Difficulty_proofs` | its bounds | TLAPS |
| `Selection` | the loops that copy some elements of a list | through `MemoryPool`, `Miner`, `Gossip` |
| `Selection_proofs` | what they keep | TLAPS |
| `MemoryPool` | the pool's methods, as operators on a sequence | through `Miner` |
| `Miner` | one miner's goroutines, handlers, channels and locks | `MCMiner` |
| `Miner_proofs` | theorems about `Miner` | TLAPS |
| `Gossip` | the PushPull protocol between nodes | `MCGossip` |
| `Gossip_proofs` | theorems about `Gossip` | TLAPS |
| `Peers` | the peer manager's methods, as operators on lists of peers | through `Membership` |
| `Membership` | how miners and the coord join, restart and list each other | `MCMembership` |
| `Membership_proofs` | theorems about `Membership` | TLAPS |
| `Client` | submissions of the client library, its miner list and its two managers | `MCClient` |
| `Client_proofs` | theorems about `Client` | TLAPS |

**Chains and hashes.** A hash is modelled by the chain up to its block, a sequence
of blocks: the predecessor's hash is the sequence without its last block, and a
stored block is an element of the set `db` (or `blocks`). `Put` does not compute
the hash of a block, it takes the one that the block comes with; but it refuses a
hash that it has and a predecessor that it has not, so within one store a hash
names one block with one chain below it. A block has the flag `pow` for "right
difficulty and right nonce". A transaction is its ID; `Data` gives what the ID
hashes, with a flag for a signature that verifies.

**Block numbers.** A miner gives its block its parent's number plus one. `Put` asks
of a peer's block only that the number is not 0. So a block has the number that it
claims (`num`), and the models take the claimed number wherever the code does: for
the fork choice (`blockchain.go:222`), the difficulty (line 175), the duration of a
poll (`payload.go:171` and `200`, `NextBlockNum`) and `EndBlock`; as a `uint`, modulo
`MaxNum + 1`. Peers claim right numbers and, up to the bounds `Claims` and `MaxOdd`,
wrong ones. `Numbered(c)` says that a chain is rightly numbered. One block of a peer
with a wrong number and a valid proof of work is enough for what follows, and the
properties are stated so that they do not deny it:

* the tip may move to a shorter chain (a block on an old one that claims a high
  number), and may stay on a chain that is not the longest, so that confirmed
  results are taken back: `TipLongestButTorn` and `ConfirmedStable` are about
  rightly numbered chains, `ForkChoice` has the rule that always holds;
* a poll that has ended by its duration is open again on a tip with a low number, or
  ends early on one with a high number: `PollLife` and `EndedPollFrozen` promise
  durations above rightly numbered blocks only. What they say of launches, ends by
  an admin and votes after an end, and one vote per user, holds under any number;
* `EndBlock`, a sum of `uint`s, wraps around for a huge duration or number, and is
  then before the launch;
* every block may adjust the difficulty, or none: `DifficultyLasts` counts the blocks
  that claim a number that does.

`InitGossip` orders the blocks of a restarted miner by the claimed numbers as well.
`Gossip` has no numbers: its `Restart`, and `CausalLog` after a restart, assume a
store of rightly numbered blocks.

**Validating in order.** `_ValidateTxns` goes through a block's transactions,
each against the chain and the earlier ones that succeeded. `Receipts(prev,
txns, S)` computes all codes from the set `S` of places that succeed; a block's
claimed codes, or for an own block the one set that reproduces itself, give `S`.
This states the loop without recursion, and so the module can be proved about.

**Copying some of a list.** The loops that filter a list (`MemoryPool.remove`, the
answer of `PushPull`, the transactions that `MiningService` takes) are `Selected`:
the `k`-th element of the result is the one with `k` kept elements up to it.
`SelectSeq` says the same by recursion, which the provers cannot unfold. For the
same reason `Membership` goes through several announcements with a recursive
function instead of a fold.

**`BlockChain`.** `Put` is the checks and the first write; `UpdateTip` the
second (`LastHashKey` and `LastHash`, with or without a fork switch), and
`writing` holds the block in between, while `bc.mu` is locked. `CrashRestart`
is `ResumeFromDB`; blocks whose tip update it lost are collected in the history
variable `torn`. Inputs are blocks of peers, with any claimed receipts, with right
and wrong numbers, with and without proof of work, on stored and on unknown
parents, and the node's own blocks.

**`Difficulty`.** A chain is here the claimed numbers, timestamps and difficulties
of its blocks. `AdjustDifficulty` is the code's function, on the chain below the
block and with the number that the block claims; `Adjusts` is what `Put` checks of a peer's block, `Claiming` a chain of blocks with given
numbers and times between them, `Mined` the one that miners build. The difficulty is
a `float64` in the code. Here it is a number of 64ths, rounded down: exact in
`WindowMeasured`, whose quotients divide evenly, and where windows are clamped;
otherwise at most what the code has, so that a lower bound of it is one of the
code's. `NewProof` truncates it to an
integer and divides by that (`Divisor`). What TLC finds out about these operators
needs no states, so it is no property of a run: `MCChain` assumes it, and TLC
evaluates that before each chain run. `WindowMeasured`: block 6 has the first
difficulty times the expected over the actual time of the last five blocks,
however that is spread, and whatever the block before took. `TargetLasts`: no
times lead to a divisor of 0 in four adjustments, and some do in five: at block 26
of a rightly numbered chain, or at block 5 if five blocks all claim number 6.

**`Miner`.** One action per lock region, channel operation or shared write of
each goroutine. `m.mu` is held across a step only while `BlockService` waits for
`ChainUpdatedChan` and while `MiningService` waits for `updateChan`; `rtMu` only
between the two sends of `ReceiveTxn`; gossip's `rw` only while an update that
is recorded waits for `queryChan` (`filtering`). So the mutexes are predicates
on program counters: `MuFree`, `RtMuFree`, `RwFree`. Channels are sequences.
A goroutine that reads a channel and then waits, for a mutex or for room in the
next channel, has one value in hand; it stays at the head of the sequence here,
so a channel with an idle reader has room for one value more (`TxnRoom`,
`BlockRoom`, `QueryRoom`, `UpdateRoom`). Which updates gossip takes from peers
is replaced by what `Gossip` shows: an update once, and a block after its parent
and its transactions (`CausalLog`). In turn `Gossip` assumes of a miner what
`PublishedInOrder` shows: it publishes a block after these.

Four circles of full channels and locks stop a miner for good:

* `TxnCircle`: `ReceiveTxn` waits for `TxnRecvChan` with `rtMu`; `TxnService`
  waits for `rtMu`;
* `SubmitCircle`: `ReceiveTxn` waits for `updateChan` with `rtMu`; the gossip
  goroutine that reads it waits for `rw`, held by one that waits for
  `queryChan`; `DigestUpdates` waits for `TxnRecvChan`, and `TxnService` for
  `rtMu`;
* `BlockCircle`: the same through `MiningService`, which waits for `updateChan`
  with `m.mu`, and `BlockService`, which waits for `m.mu`;
* `NotifyCircle`: `BlockService` waits for `ChainUpdatedChan` with `m.mu`;
  `MiningService`, its reader, waits for `m.mu` to start a cycle or to put the
  block that it has found.

The code's channels hold 500 updates and 50 tokens, so they are rare; all four occur
in the run `miner`, where `ChainUpdatedChan` has room for one token and the tip moves
twice while a nonce is tried. The liveness properties exempt them (`Stuck`) and so
show, within the bounds of the run, that nothing else stops the miner.

`LostOnlyByForkSwitch` follows a transaction that the miner has marked as received
(and so will not take again). It is in the pool, on its way there, or on the winning
chain, until a fork switch takes its block off the chain. `Put` returns such
transactions and `BlockService` drops them, as the TODO at `miner.go:492` says; those
the new branch does not have are lost for good on this miner, and `uncled` is the
history of them. So README.md:66, "All valid transactions are committed", is not what
the code does: the property says that this is the only way to lose one (with room in
the pool, and between restarts), and no more.

**`Gossip`.** A push to one peer is a record that goes through the lock regions
of `pushCycle`'s goroutine, `PushPull` and `Retransmit`. A pending push is the
length of the prefix of the log that it pushes, since the pushed update is the
last of its log. `Fail` is a failed dial or call, before, in or after the
handler; a handler whose caller has given up runs on (`cut`). `Restart` rebuilds
the log as `InitGossip` does; a push that the sender had begun to dial may still
reach the peer. The list of peers is constant, and which of them
are active is left open from the first failure on: lists are `Membership`'s.

**`Membership`.** Here the log is the set of announcements a node has heard
(`known`), and a call is dial, handler, answer and retransmission, of which only
the order relative to crashes and other calls matters. A node's gossip address
is new at each start, and `LastAnnounced` is the time of the start, so both are
the number of the node's start, `life`; a call to an earlier life is not
answered. `phase` is the place of `Miner.Start` (or of the coord): connecting
to the coord, downloading, up, or waiting for a lock that it holds itself.
`store` says what a crash leaves behind: nothing, the directory that
`InitStorage` makes, the chain, or a chain of no block. `peers` is `PeerList`,
`saved` the nodes on disk, and `conn` the life of the coord that a first start
has connected to. `Handle`, `Answer` and `Retransmit` put announcements in the
list in any order, as the handler does for the logs it gets. Pushes of
transactions and blocks appear as `PushBlock`, for the `SetActive`,
`SetInactive` and pulls that they cause; `other` in `Handle` is a transaction or a
block that one miner misses of the other's log, which keeps the pushed update out.
A miner whose second list from the coord has no active miner goes on with a chain
of no block: it starts gossip, announces itself, and ends when `MiningService`
looks for its last block (`AskAgain`, `NoBlocks`).

`gossip.GetPeers` takes `PeerList` with its lock and then appends the node itself
without it. The append writes into the array behind `PeerList` if that has room, and
a peer may have been added in its place in between: that peer is then lost, and the
node is in its own list; the answer may have it, too. This is two actions,
`GetPeers` and `AppendSelf`, with the call in `gets`, and `room` is left open, as
the lists here are shorter than those that arrays are doubled for. A node to which
this has happened, or which has started from the list of one, is in `overwritten`
until it starts from disk. `ListSound`, `HeardIsListed` and `NotMovedBack` are about
the other nodes: without that exemption the run refutes the first two.

**`Client`.** A submission is a record that goes through the places of
`submitTxn` and `connectMiner`; a list of miners is a set, since a miner is
picked at random and listed once. `Dial` removes a miner that cannot be dialled,
dead or not, from the list of that moment, which a manager may have renewed since it
was copied. The managers are two program counters: `connRw` is locked while `connManager` is at `dial`.
Complaints have no content, so a channel is a number. A complaint to
`ComplainMinerChan` waits for room. `taken` and `lost` are history: the miners
that took a transaction, and those of them whose answer did not arrive.
Miners are addresses, since a miner gets a new one at each start; the coord's
list is whatever gossip has brought (`Hear`), dead addresses included.

What `Outcome` says is what the code does, which is less than its comments have:

* the comment at `evlib.go:436` has a client send a transaction to `N_RECEIVERS`
  miners and send it again when it does not find it after a time. The code sends it
  to one miner, tries another only when a call fails, and never again after a
  success; `CheckTxnStatus`, which could find out, has no attempt;
* the comment at line 286 has a refusal (a bad signature) passed back to the caller.
  `net/rpc` turns it into another type of error, so it is retried like a lost call;
* an error may be told although a miner has the transaction: when its answer is lost
  in the last attempt, or a lost answer is followed by failures. At most as many
  miners have it as attempts have failed.

A call to a miner has no time limit, and `ReceiveTxn` may wait for ever
(`miner_submit`): a submission in a call that a running miner does not answer is
exempt in `SubmitEnds`. The HTTP front end, which is not modelled, has no `return`
after it reports an error in `postLaunchTxn`, `postVoteTxn` and `postTerminateTxn`
(`http.go:138`, `163`, `188`; the two queries likewise): it writes a second answer,
with status 200 and the transaction's ID, after the one with status 500.

## Runs

| run | question | bounds | states |
|---|---|---|---|
| `chain_forks` | store and fork choice, with wrong numbers and crashes; the life of a poll; confirmed results under forks; refinement of `ForkChoice` | blocks of at most 1 transaction out of a timed launch, two conflicting votes and a forged one; height 3, 6 blocks (genesis included), 1 block that claims number 1 or 5 wrongly, 1 crash, `NumConfirmed` 1 | 659,000 |
| `chain_polls` | polls and votes within a block and across blocks and forks; ended polls | blocks of at most 2 of a launch with duration 1 and an admin, a vote and an end; height 4, 5 blocks, right numbers, `NumConfirmed` 1 | 339,000 |
| `chain_torn` | (violated) is the tip always a longest chain? | height 3, 3 blocks, 1 crash, right numbers | |
| `miner` | the services, a handler, peers' transactions and blocks, a restart, all interleavings; progress of mining and of submissions | 1 transaction, 1 call, height 2, 4 blocks (a wrong number and a restart each take the place of one), every channel only as long as its reader's hand, `ChainUpdatedChan` 1, 1 restart | 306,000 |
| `miner_once` | (violated) does a miner mine a transaction once? | 1 transaction, height 2 | |
| `miner_submit` | (violated) does `SubmitTxn` return when `TxnRecvChan` is full? | 2 transactions, channel of 1 | |
| `gossip_order` | causal order and exchange between two miners | a transaction and two dependent blocks; 2 pushes of a node at once, 1 failure, 1 restart | 1,719,000 |
| `gossip_spread` | does an announcement reach miners and tracker? | 2 miners, coord, fan-out 2 (everyone), no failure | |
| `gossip_interval` | (violated) do the coord's interval cycles go on? | 2 announcements, queue of 1 | |
| `members` | do peer lists stay sound, complete and up to date? | 2 miners, coord, fan-out 1, 1 call of a node at a time, 2 lives, 1 failure (a crash or a lost call) | 1,262,000 |
| `client` | is the caller told what happened, and does every submission end? | 2 submissions (one refused), 2 miners, 2 attempts, 1 complaint per channel, 2 faults (a stop of a miner or the coord, or a lost dial or call) | 1,239,000 |
| `members_reconnect` | (violated) does a first start go on when the coord restarts? | 1 miner, 1 crash of the coord | |

Why the bounds are enough to be interesting: a fork switch needs two branches
of length 1 and 2, and a switch deeper than `NumConfirmed` (1 here, 4 in the
code) a third block; orphans, equal numbers, torn tips that a longer fork
overtakes, and own blocks on a torn store all occur within height 3. Six blocks
hold two full branches. One wrong number is enough for a tip that gets shorter, for
a poll that is opened again (a 1) and for one that ends early (a 5); the block after
one that claims 5 has the largest number, 6, and the next would have 0, which `Put`
refuses. Conflicting votes need two places, in one block or in two. Duration 1 makes the block after the
launch the last one that counts, and heights 3 and 4 have one beyond it, above which
height 4 has a block that is not confirmed: so `chain_polls` has polls whose end is
confirmed and whose tip is not. Channel capacities are scaled down (500, 50 and 50 in the code) so that they do fill up. In `miner` those that
are part of a circle have capacity 0, which leaves the value in the reader's
hand: the smallest channel that a sender can find full behind a reader that
waits; a larger one only takes more values to fill. One transaction suffices for the races
of `Miner`, which are between copies of the same one; the pool then never makes
room, and `LostOnlyByForkSwitch` and `PoolLosesOnlyToChain` say so (`PoolHoldsAll`).
In `members` one of the two miners may crash (`MayCrash`): they are symmetric,
and there is one failure. Two lives give a peer an old and a new address, which
is what the lists can confuse; calls of different nodes overlap, and a call of a
node that has crashed may still be handled. Peers are saved as long as a failure
is left, since a later save is never read.

Two calls of `GetPeers` at once are those of two miners in their first start; a peer
that is added between the two steps of one is the other miner, or the one that has
just announced itself. `gossip_spread` says only that pushes work where every peer
is chosen and nothing fails; that an update which comes by pull or retransmission,
and is therefore not pushed on, reaches everyone is not shown and not promised by
the code.

In `client`, two faults are enough for an empty list while the coord is away, and
for two lost answers; a complaint channel of one is full after one complaint;
an address that has not been heard of yet is that of a miner that starts later.

`CHECK_DEADLOCK FALSE` is set where the bounds end a run (no block is left to
put, all updates are spread, all submissions are done), and in `miner`, where the
circles above end it.

### What the violated runs show

1. **Torn tip** (`chain_torn`). `Put` writes the block and `LastHashKey` in two
   database transactions. After a crash between them the node resumes behind
   its own longest chain, and refuses the lost tip as already existing.
   `TipLongestButTorn` and the refinement show that nothing else goes wrong.
2. **Mined twice** (`miner_once`). `TxnService` adds a transaction to the pool
   without a lock shared with `BlockService`. A block with the transaction may
   be put, and its transactions removed from the pool, just before; the miner
   then mines the transaction again. Its second receipt is a failure, so tallies
   are right, but the transaction does not "appear exactly once".
3. **`SubmitTxn` blocks** (`miner_submit`). `ReceiveTxn` waits for
   `TxnRecvChan` with `rtMu` locked, and its only reader needs `rtMu`. If
   `DigestUpdates` takes the freed place, no one goes on.
4. **The tracker falls silent** (`gossip_interval`). Under the interval trigger
   nothing reads `pendingPushQueue`, but accepted pushes are still queued. When
   it is full (100) the next `PushPull` waits with `rw` locked for ever; cycles
   and all later calls to the coord's gossip stop.
5. **A first start hangs** (`members_reconnect`). `CoordConnection.Send` holds
   `cc.mu` and, when its call fails, calls `Connect`, which locks `cc.mu`. A
   miner whose coord has restarted since it connected waits for itself.

`Membership` has one more behaviour that no property claims away, because a
TODO in the code (`miner.go:327`) admits it: a restarted miner with no saved
peers knows no tracker, announces itself to nobody, and is not found.

### Fairness

`Miner`: each goroutine (and each handler that has begun) is a sequence of steps
of which one is enabled at a time, so weak fairness of their disjunction says
that the Go scheduler runs a goroutine that can run, and that a mutex or channel
that stays available is eventually got. Trying a nonce is fair, finding one is
not; clients, peers and restarts owe nothing. `miner` exempts the
four circles from what must happen; `miner_submit` refutes the claim without
the exemption. `Gossip`: `pushService` of each node, and
the pushes between each two nodes, go on; local updates, failures and
restarts owe nothing. `Membership`: a join that has begun goes on (an attempt
whose connection is lost fails), its calls of `GetPeers` included, a miner with no
block ends, and so each node's pushes, interval cycles and calls go on; starting a miner, crashes and lost calls owe nothing. `JoinReturns`
asks only for the case that the coord is up for good. `Client`: the managers and
a submission that has begun go on, and a call to a miner that has stopped fails.
Nothing makes a running miner answer: `SubmitEnds` exempts a submission that waits
for it for ever. The time-out of `connectMiner` is not fair either: `SubmitEnds`
holds without it, once the coord lists running miners for good.

## Proofs

`BlockChain_proofs` proves, for all sets of transactions, miners and payloads
and all bounds, from `LedgerAssumption` (the number of confirmations is a natural
number, the durations of polls are `uint`s, `Data` is a function on transactions)
and `BlockChainAssumption` (peers claim `uint`s):

* `TypeCorrect`: `Spec => []TypeOK`;
* `StoreIsSound`: `Spec => []StoreSound`;
* `OneVotePerUserHolds`: `Spec => []OneVotePerUser`;
* `PollLifeHolds`: `Spec => []PollLife`;
* `TipIsLongestButTorn`: `Spec => []TipLongestButTorn`;
* `StoreImplementsForkChoice`: `Spec => ImplementsForkChoice`.

None of the ledger properties is inductive as it stands: a stored chain is valid
because each of its blocks was valid on the chain below it. `AllJustified` says
this of every stored chain: it is the empty chain, or a stored chain that is
itself justified, extended by a block whose receipts are the ones computed.
Lemma `AppendJustified` gives the step: if a chain has one vote per user and a
proper poll history, and the appended block has valid receipts, so has the
longer chain. It rests on `VoteSucceeds`, `TerminateSucceeds` and
`LaunchSucceeds`, which read off `Validate*` what success says of the past, and
on `PastAppend`, which splits the entries of the longer chain into old ones and
those of the last block. Own blocks are covered because `Built` yields blocks
with valid receipts. The duration clause of a poll's history needs `ElapsedBlocks`:
above rightly numbered blocks, the difference of two claimed numbers is that of the
places, and does not wrap around. For the tip, `TipInvariant` strengthens
`TipLongestButTorn` with `WritingWins`: the block whose tip update is due is on the
tip or has a higher number. It is needed because the update moves the tip to it
without looking again; in a store of rightly numbered blocks it is longer
(`WinnerLonger`). The refinement maps a stored block whose update is due to "not
yet in the tree"; `UpdateTip` is then `Grow`, and a crash in between is `Tear`.

`Confirmed_proofs` builds on that, under the same assumptions:

* `ConfirmedStableHolds`: `Spec => ConfirmedStable`;
* `EndedPollFrozenHolds`: `Spec => EndedPollFrozen`.

* `TallyCoversReportedHolds`: `Spec => []TallyCoversReported`.

The first two are about a step from one tip to the next. For the first, the blocks that a
switch replaces are all from some block on (`OffChainUpward`), so a replaced
block that is confirmed has more than `NumConfirmed` replaced blocks, itself
included (`ShallowSwitch`; `FS_Interval` counts them). That needs `TipGrows`,
between rightly numbered tips the tip never gets shorter: a shorter one would have a
shorter confirmed part with no block replaced, and with a wrong number it may be
shorter, so that `ConfirmedStable` leaves this case out. For the second, the entries of the old confirmed part are those
of the new one up to its length (`PastPrefix`), and `PollLife` of the new tip
says that no entry of an ended poll comes after it (`NothingAfterEnd`): a second
launch or end is none, a vote comes before the end, and a poll that ends with its
duration has no vote beyond it as long as the confirmed part is rightly numbered. `VotingStatus` then reads the same entries.

The third relates two queries that read the chain differently: `QueryTxn` looks for
the newest block with the transaction and reports its receipt, `QueryResults`
counts the entries of the confirmed part. A vote reported as confirmed has its
newest entry in the confirmed part (`ReportedIsPast`). By `PollLife` that vote has
one launch below it, comes before any end and within the duration, so that the poll
is known and its votes are those of the confirmed part (`CountedFor`). Taking a
reported vote to its entry is then an injection into the entries counted
(`ReportedAreCounted`).

`Selection_proofs` has the facts about filtered lists that `Miner_proofs` and
`Gossip_proofs` use. `RankProperties` and `RankOnto`: the ranks of a finite set of
places number them from 1, upwards, each once. `SelectedFrom`: for every list and
every set to keep, the result has the kept elements, all of them, each once and in
their order.

`Miner_proofs` proves, from `MinerAssumption` (the miner is none of its peers, a
block has room for a transaction, the pool and `ChainUpdatedChan` for a value,
other capacities are natural numbers, 0 included):

* `OwnBlockExtendsTipHolds`: `Spec => OwnBlockExtendsTip`;
* `TypeCorrect`: `Spec => []TypeOK`;
* `PublishedInOrderHolds`: `Spec => []PublishedInOrder`;
* `LostOnlyByForkSwitchHolds`: `Spec => []LostOnlyByForkSwitch`;
* `PoolLosesOnlyToChainHolds`: `Spec => PoolLosesOnlyToChain`.

`MiningService` builds on a copy of the tip and looks for a change of it only
through `ChainUpdatedChan`. `WorkCurrent` is what makes that right: while it
mines, the block extends the tip, or the news of a newer tip is in that channel
or about to be sent by a `BlockService` that holds `m.mu`. `MiningService` puts
the block with `m.mu` locked, after it has found the channel empty, so that then
no news is on its way. `ChainsStored` and `ChainsSent` say that the
tips and the blocks in channels are sequences of blocks: only then is the
predecessor of a block put on the tip the tip.

For `PublishedInOrder`, `PublishInvariant` says of every place of a block or a
transaction whether it is announced, that is, known to gossip or ahead in
`updateChan`: stored blocks are, but for the own block that `MiningService` is
about to announce with `m.mu` locked (`BlocksAnnounced`); so are pooled
transactions, and one still in `TxnRecvChan` is, or will be by the handler that has
`rtMu` locked (`TxnsAnnounced`). Without `rtMu` in `TxnService` that fails, which is
the mutant `MarkTxnUnlocked`. The theorem is what `Gossip` assumes of its clients,
as `CausalLog` is what `Miner` assumes of gossip; each is proved from the other's
statement as a guard of its inputs, and neither guard speaks of later steps. That
the two fit together is argued here and not proved.

`LostOnlyByForkSwitch` and `PoolLosesOnlyToChain` are about a pool with room for every
transaction (`PoolHoldsAll`). The proof must show that it never overflows, and so
that it has no transaction twice: `PoolOnce`, which holds except for the oldest
one, which a miner may find in the pool it starts with. `AllSigned` is
needed because `MiningService` removes transactions with a bad signature from the
pool: none of those in it has one. `WorkStored` (the own block that is being
announced is the tip) says that what `PublishBlock` takes out of the pool is on the
chain, and `NewTxnsOnChain` says it of what `BlockService` takes out.

`Gossip_proofs` proves, for any number of nodes, updates, pushes under way, failed
calls and restarts, from `GossipAssumption` (capacities are positive; only blocks
need other updates, and no announcements; a node that takes blocks takes the kinds
they need; a client makes updates its node subscribes to - true of
`SubscribeTxn | SubscribeBlock | SubscribeNode` of miners and `SubscribeNode` of
the coord):

* `TypeCorrect`: `Spec => []TypeOK`;
* `CausalLogHolds`: `Spec => []CausalLog`;
* `PushSyncsHolds`: `Spec => []PushSyncs`.

`PushPull` computes what is missing, accepts the update and computes its answer
under three locks, and logs grow in between. The inductive invariant
`GossipInvariant` therefore says of a push at every step what it holds
(`PushSound`): its log, the updates that the peer misses and those that the sender
misses are each in an order in which the one who lacks them can append them to its
log (`Fits`: nothing twice, all subscribed to, each after what it needs), and at
most those are lacking. `FitsMore` makes this stable when a log grows. That the
pushed log is part of the sender's is given up for a push whose sender is gone
(`cut`): a restarted sender has forgotten the rest.

`Membership_proofs` proves, from `MembershipAssumption` (finitely many miners, none
of them the coord, positive fan-out and number of starts):

* `TypeCorrect`: `Spec => []TypeOK`;
* `ListSoundHolds`: `Spec => []ListSound`;
* `HeardIsListedHolds`: `Spec => []HeardIsListed`;
* `NotMovedBackHolds`: `Spec => NotMovedBack`.

The methods of the peer manager each get a lemma that says what they do to a list
(`AddIs`, `ActiveIs`, `InactiveIs`, `SetPeersIs`, `WithAnnouncedIs`): nobody leaves
or moves in it, and nobody in contact gets an older address. One lemma per action
follows. `ListsInvariant` adds five facts: a running node has a life; a list that is
still the coord's reply names nobody twice, though it may name its owner; the disk
names nobody twice; a node that is not up has heard nothing; and a list that a call
of `GetPeers` has taken is a sound one of a node that is up (`GetsSound`). All but
the first and third leave out the nodes in `overwritten`. `ReplyIs` says that such
a call answers with a list that names nobody twice.
The provers do
not take the library's induction theorems (their parameter is an operator), so
`SetInduction` gets induction over the naturals from the least element of a set
(`WFMin`), and serves for the lists that are computed one element at a time.

`Client_proofs` proves, for all sets of submissions and miners, attempts,
complaint capacities and faults, from `ClientAssumption` (these numbers are
positive or natural, the refused submissions are some of all):

* `TypeCorrect`: `Spec => []TypeOK`;
* `OutcomeHolds`: `Spec => []Outcome`.

`Outcome` speaks of the end of a submission, of its attempts, and of the counts of
two histories.
The invariant under it, `ToldInvariant`, says at each place which miner holds the
transaction with the caller knowing (`taken[c] \ lost[c]`): the one whose answer is
on its way or has arrived, and nobody while an attempt goes on. The lemmas follow
a step through it: `FailsTold` (an attempt fails, and what the miner took counts
as lost), `GoesOnTold`, `GivesUpTold` (a submission that has had its last attempt),
`OthersUntouched` and `SubmissionTold`; `FS_Singleton` turns the set into the count.
`Told` also counts `lost` against the failed attempts: each adds the one miner that
it called, or none.

`Difficulty_proofs` has no state. `AdjustedBounds`: one adjustment is within a
factor of four, for every time of the window, negative ones included; its only
hard case is the division, where `DivUnique` brackets the quotient.
`DifficultyLasts`: for all timestamps and claimed numbers, no block of a chain that
follows `Adjusts` from the first block has a divisor of 0 as long as at most four
blocks up to it claim a number that adjusts. `OneBlock` says what one block may do,
`AdjustmentsStep` counts the blocks that adjust, and `AdjustmentsLeave` carries the
bound up the chain: four of them divide 512 down to 2. `DifficultyLastsNumbered`: on
a rightly numbered chain that covers every block before number 26. `TargetLasts`
shows that both are exact: five windows of 64 seconds a block make the divisor of
block 26 zero, and so do five blocks in a row that all claim number 6; `big.Int.Div`
then panics in the miner and in every node that validates such a block.

Model-checked only: liveness (`SubmitEnds`, `Spreads`, `WorksOnTip`,
`SubmitReturnsOrStuck`, `SubmittedReceived`), which TLAPS does not reach, and
`WindowMeasured` and `TargetLasts` of `Difficulty`, which
TLC evaluates for some times: the one is about a recursive definition, the other
says that a bad case exists. What the violated runs refute is
refuted by a counterexample.

## Not modelled

* Hashing, signatures, encodings, logging, wallets, HTTP parsing and the command
  line: data or I/O that no property tells apart.
* In the client, `CheckTxnStatus` and `CheckPollStatus`: with `CheckTxnRetry` and
  `CheckPollRetry` at 0 their loops are never entered, and they return an empty
  answer. `Stop`: it sends on `quit`, which nothing makes, and so never returns
  (its comment says that it always succeeds).
* Floating point: `Difficulty` rounds down where the code rounds to the nearest
  `float64`. Elsewhere the flag `pow` stands for a right difficulty and nonce.
* The `Push` and `Pull` modes of gossip: neither miner nor coord starts them.
* The total of votes and the launch metadata of `VotingStatus`.
* The contents of the chain and the pool that a joining miner downloads: the
  store's properties are about chains that `Put` has built.
* Data races on the array behind `PeerList` other than the append of
  `gossip.GetPeers`: an answer, and the choice of peers for a push, are read in one
  step.
* A miner's number of a block in `Gossip` (see "Block numbers").

## Plan

Done: all modules above, and a proof of every safety property of the passing runs.
Next, in this order:

1. Liveness of joining: a miner that stays up is found, when the coord stays up
   and the miner knows it (needs strong fairness of the coord's choice of peers).
2. Gossip and a miner put together: `Miner` with a `Gossip` of two nodes behind it,
   so that the statement of each about the other's inputs becomes a refinement.
3. The chain that a joining miner downloads: `Membership` with the number of blocks
   it lacks, and the blocks that gossip brings while the download is under way.
