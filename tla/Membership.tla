----------------------------- MODULE Membership ------------------------------
(***************************************************************************)
(* How miners join, restart and find each other: the coord's list of nodes *)
(* and its storage, the first start of a miner (peers from the coord, the  *)
(* chain from a peer or from the coord), its later starts (from disk), the *)
(* announcements that gossip carries, and what becomes of the peer lists   *)
(* when calls are answered, fail, or are late.                             *)
(*                                                                         *)
(* A miner is "down"; at its first start it is to "ask" the coord and to   *)
(* "download" from a peer; then it is "up".  It is "stuck" when it waits   *)
(* for a lock that it holds.  The coord is down or up.                     *)
(* life counts the starts of a node's gossip: the address of an earlier    *)
(* life does not answer.  The chain is no more than its presence in store. *)
(*                                                                         *)
(* A call is a PushPull with its answer and retransmission (Gossip has     *)
(* their interleavings): its handler is one step.  upd is the announcement *)
(* it pushes, or Block: a miner's pushes of transactions and blocks carry  *)
(* its whole log as well.  The coord's pendingPushQueue is left out: see   *)
(* IntervalGoesOn in Gossip.                                               *)
(***************************************************************************)
EXTENDS Peers

CONSTANTS Miner, Coord, Block,
          FanOut,
          MaxLives,     \* bound: starts of a node
          MayCrash,     \* bound: the nodes that may crash
          MaxCalls,     \* bound: calls of a node at a time
          Lossy,        \* may calls to a node that is up fail?
          MaxFailures   \* bound: crashes and such calls

ASSUME MembershipAssumption ==
  /\ IsFiniteSet(Miner) /\ Coord \notin Miner
  /\ FanOut \in Nat \ {0} /\ MaxLives \in Nat \ {0}
  /\ MaxFailures \in Nat /\ Lossy \in BOOLEAN

Node == Miner \cup {Coord}

VARIABLES phase,
          store,        \* of a miner: "none", "dir" (made, but empty), "chain",
                        \* "empty" (a chain of no block)
          life,
          conn,         \* the coord's life that a first start is connected to,
                        \* or 0
          peers,        \* PeerList; the coord's reply, in a first start
          saved,        \* the peers on disk
          known,        \* the announcements in updateMap
          pending,      \* pendingPushQueue
          calls,
          gets,         \* calls of gossip.GetPeers(false, ...), with the list taken
          overwritten,  \* history: the nodes whose list such a call has written
                        \* over, and those that were started with such a list
          failures

vars == <<phase, store, life, conn, peers, saved, known, pending, calls,
          gets, overwritten, failures>>

(* A failure is left.                                                      *)
Faulty == failures < MaxFailures

Self(n, at) == [id |-> n, at |-> at, active |-> TRUE]

Init == /\ phase = [n \in Node |-> IF n = Coord THEN "up" ELSE "down"]
        /\ store = [m \in Miner |-> "none"]
        /\ life = [n \in Node |-> IF n = Coord THEN 1 ELSE 0]
        /\ conn = [n \in Node |-> 0]
        /\ peers = [n \in Node |-> << >>]
        /\ saved = [n \in Node |-> {}]
        /\ known = [n \in Node |-> {}]
        /\ pending = [n \in Node |-> << >>]
        /\ calls = {} /\ gets = {} /\ overwritten = {}
        /\ failures = 0

-----------------------------------------------------------------------------
(* Start of the gossip library: the announcements of the listed miners,    *)
(* then, from a miner, its own, which is to be pushed.                     *)
\* A faulty variant, for the mutation runs: the tracker as well.
AnnouncedAll(list) == {Self(p.id, p.at) : p \in ToSet(list)}
Announced(list) == {Self(p.id, p.at) : p \in {q \in ToSet(list) : q.id \in Miner}}

StartGossip(n, list) ==
  LET at  == life[n] + 1
      log == Announced(list) \cup (IF n = Coord THEN {} ELSE {Self(n, at)})
  IN  /\ life[n] < MaxLives
      /\ life' = [life EXCEPT ![n] = at]
      /\ phase' = [phase EXCEPT ![n] = "up"]
      /\ conn' = [conn EXCEPT ![n] = 0]
      /\ peers' = [peers EXCEPT ![n] = SetPeers(n, list)]
      /\ known' = [known EXCEPT ![n] = log]
      /\ pending' = [pending EXCEPT ![n] =
           IF n = Coord THEN << >> ELSE <<[upd |-> Self(n, at), log |-> log]>>]

(* InitStorage of a first start.                                           *)
MakeStorage(m) ==
  /\ phase[m] = "down" /\ store[m] = "none"
  /\ store' = [store EXCEPT ![m] = "dir"]
  /\ phase' = [phase EXCEPT ![m] = "ask"]
  /\ UNCHANGED <<life, conn, peers, saved, known, pending, calls, gets, overwritten,
                 failures>>

(* Connect dials the coord until it answers.                               *)
Connect(m) ==
  /\ phase[m] = "ask" /\ conn[m] = 0 /\ phase[Coord] = "up"
  /\ conn' = [conn EXCEPT ![m] = life[Coord]]
  /\ UNCHANGED <<phase, store, life, peers, saved, known, pending, calls, gets,
                 overwritten, failures>>

(* Send gets an answer over the connection.                                *)
CoordAnswers(m) == phase[Coord] = "up" /\ life[Coord] = conn[m]

Reachable(p) == phase[p.id] = "up" /\ life[p.id] = p.at

ActiveMiners(list) == {p \in ToSet(list) : p.id \in Miner /\ p.active}

NoneReachable(m) == \A p \in ActiveMiners(peers[m]) : ~Reachable(p)

Joining(m) == phase[m] \in {"ask", "download"}

(* gossip.GetPeers(false, false), for the coord's GetPeers or a miner's    *)
(* Download: it takes the list with its lock,                              *)
GetPeers(m, n) ==
  /\ Joining(m) /\ \A g \in gets : g.by # m
  /\ \/ n = Coord /\ CoordAnswers(m) /\ (phase[m] = "ask" \/ NoneReachable(m))
     \/ phase[m] = "download" /\ \E p \in ActiveMiners(peers[m]) : p.id = n /\ Reachable(p)
  /\ gets' = gets \cup {[by |-> m, of |-> n, pc |-> "append", list |-> peers[n]]}
  /\ UNCHANGED <<phase, store, life, conn, peers, saved, known, pending, calls,
                 overwritten, failures>>

(* and appends self without it.  If PeerList's array has room (how much an *)
(* array has is left open: lists are short here), self is written to the   *)
(* place after the list, which a peer may have been given since.  (Or the  *)
(* array is full, or is no longer PeerList's: the list is copied.)         *)
AppendSelf(g) ==
  LET n == g.of
      i == Len(g.list) + 1
  IN  /\ g.pc = "append"
      /\ \E room \in BOOLEAN :
           /\ IF room /\ i \in DOMAIN peers[n]
              THEN /\ peers' = [peers EXCEPT ![n] = [@ EXCEPT ![i] = Self(n, life[n])]]
                   /\ overwritten' = overwritten \cup {n}
              ELSE UNCHANGED <<peers, overwritten>>
           /\ gets' = (gets \ {g}) \cup
                (IF Joining(g.by) THEN {[g EXCEPT !.pc = IF room THEN "shared" ELSE "copied"]}
                                  ELSE {})
      /\ UNCHANGED <<phase, store, life, conn, saved, known, pending, calls, failures>>

(* What it answers: a shared array is read after self was written, when    *)
(* another peer may have been given that place.                            *)
Reply(g) ==
  LET l == peers[g.of]
      i == Len(g.list) + 1
  IN  IF g.pc = "shared" /\ i \in DOMAIN l THEN SubSeq(l, 1, i)
      ELSE Append(IF g.pc = "shared" THEN l ELSE g.list, Self(g.of, life[g.of]))

(* The answer has come.                                                    *)
Answered(g, m, n) == g.by = m /\ g.of = n /\ g.pc # "append" /\ gets' = gets \ {g}

(* A list that comes from one that was written over.                       *)
Taints(g) == overwritten' = IF g.of \in overwritten THEN overwritten \cup {g.by}
                                                   ELSE overwritten

(* ResumeFromEncodedData: blocks and LastHashKey in one write.             *)
LoadChain(m, n) ==
  store' = [store EXCEPT ![m] = IF n = Coord THEN "chain" ELSE store[n]]

(* GetPeers of the coord, for the first time: without an active miner the  *)
(* chain comes from the coord as well.                                     *)
AskCoord(m) ==
  /\ phase[m] = "ask" /\ CoordAnswers(m)
  /\ \E g \in gets :
       /\ Answered(g, m, Coord) /\ Taints(g)
       /\ IF ActiveMiners(Reply(g)) # {}
          THEN /\ phase' = [phase EXCEPT ![m] = "download"]
               /\ peers' = [peers EXCEPT ![m] = Reply(g)]
               /\ UNCHANGED <<store, life, conn, known, pending>>
          ELSE /\ StartGossip(m, Reply(g))
               /\ LoadChain(m, Coord)
  /\ UNCHANGED <<saved, calls, failures>>

(* The chain and the pool come from the first peer that answers; its peers *)
(* are not used.                                                           *)
Download(m) ==
  /\ phase[m] = "download"
  /\ \E g \in gets, n \in Miner : Answered(g, m, n) /\ LoadChain(m, n)
  /\ StartGossip(m, peers[m])
  /\ UNCHANGED <<saved, calls, overwritten, failures>>

(* When no peer answers, the coord is asked again.  If the list has no     *)
(* active miner now, the miner goes on with a chain of no block.           *)
AskAgain(m) ==
  /\ phase[m] = "download" /\ NoneReachable(m) /\ CoordAnswers(m)
  /\ \E g \in gets :
       /\ Answered(g, m, Coord) /\ Taints(g)
       /\ LET list == Redecoded(peers[m], Reply(g))
          IN IF ActiveMiners(list) # {}
             THEN /\ peers' = [peers EXCEPT ![m] = list]
                  /\ UNCHANGED <<phase, store, life, conn, known, pending>>
             ELSE /\ StartGossip(m, list)
                  /\ store' = [store EXCEPT ![m] = "empty"]
  /\ UNCHANGED <<saved, calls, failures>>

(* The connection is interrupted: Send calls Connect with cc.mu locked,    *)
(* which Connect waits for.                                                *)
SendFails(m) ==
  /\ conn[m] # 0
  /\ phase[m] = "ask" \/ (phase[m] = "download" /\ NoneReachable(m))
  /\ IF CoordAnswers(m) THEN Lossy /\ Faulty /\ failures' = failures + 1
                        ELSE UNCHANGED failures
  /\ conn' = [conn EXCEPT ![m] = 0]
  /\ phase' = [phase EXCEPT ![m] = "stuck"]
  /\ gets' = {g \in gets : g.by = m => g.pc = "append"}
  /\ UNCHANGED <<store, life, peers, saved, known, pending, calls, overwritten>>

(* The database lists the saved peers by their identifiers, in some order. *)
FromDisk(n) == SetToSeq(saved[n])

(* Later starts.  A miner with an empty store cannot start again.          *)
Resume(n) ==
  /\ phase[n] = "down"
  /\ n \in Miner => store[n] = "chain"
  /\ StartGossip(n, FromDisk(n))
  /\ overwritten' = overwritten \ {n}
  /\ UNCHANGED <<store, saved, calls, gets, failures>>

(* Nodes save the miners they list, from time to time, each under its      *)
(* identifier: here, as long as a crash may make use of it.                *)
SavePeers(n) ==
  /\ n \in MayCrash /\ phase[n] = "up" /\ Faulty
  /\ saved' = [saved EXCEPT ![n] =
       LET l    == peers[n]
           last == {i \in DOMAIN l : l[i].id \in Miner /\
                                     \A j \in DOMAIN l : l[j].id = l[i].id => j <= i}
           now  == {l[i] : i \in last}
       IN  now \cup {p \in @ : \A q \in now : q.id # p.id}]
  /\ UNCHANGED <<phase, store, life, conn, peers, known, pending, calls, gets,
                 overwritten, failures>>

(* The process ends.  A call of GetPeers on another node goes on.          *)
Ends(n) ==
  /\ phase' = [phase EXCEPT ![n] = "down"]
  /\ conn' = [conn EXCEPT ![n] = 0]
  /\ peers' = [peers EXCEPT ![n] = << >>]
  /\ known' = [known EXCEPT ![n] = {}]
  /\ pending' = [pending EXCEPT ![n] = << >>]
  /\ gets' = {g \in gets : g.of # n /\ (g.by = n => g.pc = "append")}
  /\ UNCHANGED <<store, life, saved, calls, overwritten>>

Crash(n) ==
  /\ n \in MayCrash /\ phase[n] # "down" /\ Faulty
  /\ failures' = failures + 1
  /\ Ends(n)

(* MiningService gets the last block, and there is none: log.Fatal.        *)
NoBlocks(m) ==
  /\ phase[m] = "up" /\ store[m] = "empty"
  /\ Ends(m)
  /\ UNCHANGED failures

-----------------------------------------------------------------------------
(* pushCycle: a call to each selected peer, with the announcement and the  *)
(* log it was queued with.  Only announcements go to the coord.            *)
PushCycle(n, upd, log) ==
  \E S \in SelectPeers(peers[n], IF upd = Block THEN Miner ELSE Node, FanOut) :
    LET new == {[from |-> Self(n, life[n]), to |-> p, upd |-> upd, log |-> log,
                 pc |-> "dial", missing |-> {}, reply |-> {}] : p \in S}
    IN  /\ new \cap calls = {}
        /\ Cardinality({x \in calls : x.from.id = n} \cup new) <= MaxCalls
        /\ calls' = calls \cup new

PushPending(m) ==
  /\ phase[m] = "up" /\ pending[m] # << >>
  /\ PushCycle(m, Head(pending[m]).upd, Head(pending[m]).log)
  /\ pending' = [pending EXCEPT ![m] = Tail(@)]
  /\ UNCHANGED <<phase, store, life, conn, peers, saved, known, gets, overwritten, failures>>

PushBlock(m) ==
  /\ phase[m] = "up" /\ pending[m] = << >>
  /\ PushCycle(m, Block, known[m])
  /\ UNCHANGED <<phase, store, life, conn, peers, saved, known, pending, gets,
                 overwritten, failures>>

(* The coord pushes at intervals; its last update is any of its log here.  *)
PushInterval ==
  /\ phase[Coord] = "up"
  /\ \E u \in known[Coord] : PushCycle(Coord, u, known[Coord])
  /\ UNCHANGED <<phase, store, life, conn, peers, saved, known, pending, gets,
                 overwritten, failures>>

-----------------------------------------------------------------------------
(* filterIncomingUpdate, over a set of announcements, one after the other. *)
WithAnnounced(n, list, updates) ==
  LET new == SetToSeq(updates \ known[n])
      after[i \in 0..Len(new)] ==
        IF i = 0 THEN list ELSE AddOrUpdatePeer(n, after[i - 1], new[i])
  IN  after[Len(new)]

Alive(n, at) == phase[n] = "up" /\ life[n] = at

Step(x, y) == calls' = (calls \ {x}) \cup {y}

(* The handler of PushPull.  The update is taken if the log holds nothing  *)
(* else that is missing: announcements, or, between miners, transactions   *)
(* and blocks.                                                             *)
Handle(x) ==
  LET n      == x.to.id
      new    == {x.upd} \ ({Block} \cup known[n])
      missed == x.log \ ({x.upd} \cup known[n])
  IN  /\ x.pc = "dial" /\ Reachable(x.to)
      /\ \E other \in BOOLEAN :
           LET accepts == missed = {} /\ ~other
               taken   == IF accepts THEN new ELSE {}
               log     == known[n] \cup taken
           IN  /\ other => {n, x.from.id} \subseteq Miner
               /\ peers' = [peers EXCEPT ![n] =
                              WithAnnounced(n, SetActive(@, x.from), taken)]
               /\ known' = [known EXCEPT ![n] = log]
               /\ pending' = [pending EXCEPT ![n] = IF n = Coord THEN @ ELSE
                                @ \o SetToSeq({[upd |-> u, log |-> log] : u \in taken})]
               /\ Step(x, [x EXCEPT !.pc = "reply", !.reply = log \ x.log,
                                    !.missing = IF accepts THEN {}
                                                ELSE (missed \cup {x.upd}) \ {Block}])
      /\ UNCHANGED <<phase, store, life, conn, saved, gets, overwritten, failures>>

(* The answer: the peer is active, under the address that was called.      *)
Answer(x) ==
  LET n == x.from.id
  IN  /\ x.pc = "reply" /\ Alive(n, x.from.at)
      /\ peers' = [peers EXCEPT ![n] =
                     WithAnnounced(n, SetActive(@, x.to), x.reply)]
      /\ known' = [known EXCEPT ![n] = @ \cup x.reply]
      /\ IF x.missing = {} THEN calls' = calls \ {x}
                           ELSE Step(x, [x EXCEPT !.pc = "retransmit"])
      /\ UNCHANGED <<phase, store, life, conn, saved, pending, gets, overwritten, failures>>

Retransmit(x) ==
  LET n == x.to.id
  IN  /\ x.pc = "retransmit" /\ Reachable(x.to)
      /\ peers' = [peers EXCEPT ![n] = WithAnnounced(n, @, x.missing)]
      /\ known' = [known EXCEPT ![n] = @ \cup x.missing]
      /\ calls' = calls \ {x}
      /\ UNCHANGED <<phase, store, life, conn, saved, pending, gets, overwritten, failures>>

(* The call fails, with or without the peer having handled it, because the *)
(* peer is gone or for no reason: the peer is inactive now, whatever has   *)
(* been heard of it since.  A failed retransmission is ignored.            *)
Fail(x) ==
  LET n == x.from.id
  IN  /\ Alive(n, x.from.at)
      /\ IF Reachable(x.to) THEN Lossy /\ Faulty /\ failures' = failures + 1
                            ELSE UNCHANGED failures
      /\ peers' = [peers EXCEPT ![n] =
                     IF x.pc = "retransmit" THEN @ ELSE SetInactive(@, x.to)]
      /\ calls' = calls \ {x}
      /\ UNCHANGED <<phase, store, life, conn, saved, known, pending, gets, overwritten>>

(* A call of a node that is gone ends; until then it may yet be handled.   *)
Vanish(x) ==
  /\ ~Alive(x.from.id, x.from.at)
  /\ calls' = calls \ {x}
  /\ UNCHANGED <<phase, store, life, conn, peers, saved, known, pending, gets,
                 overwritten, failures>>

-----------------------------------------------------------------------------
Progress(x) == Handle(x) \/ Answer(x) \/ Retransmit(x)
Join(m) == \/ Connect(m) \/ AskCoord(m) \/ Download(m) \/ AskAgain(m)
           \/ \E n \in Node : GetPeers(m, n)

Next == \/ \E m \in Miner : MakeStorage(m) \/ Join(m) \/ SendFails(m)
                         \/ PushPending(m) \/ PushBlock(m) \/ NoBlocks(m)
        \/ \E n \in Node : Resume(n) \/ SavePeers(n) \/ Crash(n)
        \/ PushInterval
        \/ \E g \in gets : AppendSelf(g)
        \/ \E x \in calls : Progress(x) \/ Fail(x) \/ Vanish(x)

Spec == Init /\ [][Next]_vars

(* The coord, or the connection to it, is gone for the join.               *)
JoinGoesOn(m) == \/ Join(m) \/ (~CoordAnswers(m) /\ SendFails(m))
                 \/ \E g \in gets : g.by = m /\ AppendSelf(g)

(* Joining goes on, and so do each node's pushes and calls.                *)
Fairness ==
  /\ \A m \in Miner : WF_vars(JoinGoesOn(m)) /\ WF_vars(PushPending(m))
                      /\ WF_vars(NoBlocks(m))
  /\ WF_vars(PushInterval)
  /\ \A n \in Node :
       WF_vars(\E x \in calls : x.from.id = n /\
                 (Progress(x) \/ (~Reachable(x.to) /\ Fail(x)) \/ Vanish(x)))

FairSpec == Spec /\ Fairness

-----------------------------------------------------------------------------
PeerRecord == [id : Node, at : 1..MaxLives, active : BOOLEAN]
Announcement == {Self(m, at) : m \in Miner, at \in 1..MaxLives}

(* Lists hold peers, logs and queues announcements of miners, and each     *)
(* call is between two nodes, at a step of its protocol.                   *)
TypeOK ==
  /\ phase \in [Node -> {"down", "ask", "download", "up", "stuck"}]
  /\ store \in [Miner -> {"none", "dir", "chain", "empty"}]
  /\ life \in [Node -> 0..MaxLives] /\ conn \in [Node -> 0..MaxLives]
  /\ peers \in [Node -> Seq(PeerRecord)] /\ saved \in [Node -> SUBSET PeerRecord]
  /\ known \in [Node -> SUBSET Announcement]
  /\ pending \in [Node -> Seq([upd : Announcement, log : SUBSET Announcement])]
  /\ calls \subseteq [from : PeerRecord, to : PeerRecord, upd : Announcement \cup {Block},
                      log : SUBSET Announcement, pc : {"dial", "reply", "retransmit"},
                      missing : SUBSET Announcement, reply : SUBSET Announcement]
  /\ gets \subseteq [by : Miner, of : Node, pc : {"append", "shared", "copied"},
                     list : Seq(PeerRecord)]
  /\ overwritten \subseteq Node /\ failures \in 0..MaxFailures

(* No list names a node twice, and none names its owner, although a miner  *)
(* that starts again is told of its own earlier announcement by gossip:    *)
(* it would push to itself, and to the address of its former life.  Only   *)
(* the unlocked append of gossip.GetPeers can bring this about.            *)
ListSound == \A n \in Node \ overwritten : phase[n] = "up" =>
  \A i, j \in DOMAIN peers[n] : /\ peers[n][i].id # n
                                /\ peers[n][i].id = peers[n][j].id => i = j

(* Whoever has heard an announcement has its sender in the list: an        *)
(* announcement is processed once, so a sender it drops is never found.    *)
(* Only that append can lose a peer.                                       *)
HeardIsListed == \A n \in Node \ overwritten : \A u \in known[n] :
  u.id = n \/ Place(peers[n], u.id) # 0

(* A peer in contact is not moved back to the address of an earlier life   *)
(* by a late announcement, call or answer of that life.                    *)
NotMovedBack == [][\A n \in Node \ overwritten' :
  phase[n] = "up" /\ phase'[n] = "up" =>
    \A p \in ToSet(peers[n]), q \in ToSet(peers'[n]) :
      p.id = q.id /\ p.active => q.at >= p.at]_vars

(* "rpc connection is interrupted, need to reconnect": a miner that begins *)
(* its first start does not hang in it when the coord is up for good.      *)
JoinReturns == \A m \in Miner :
  <>[](phase[Coord] = "up") => (phase[m] = "ask" ~> phase[m] \in {"up", "down"})
=============================================================================
