------------------------------- MODULE Gossip -------------------------------
(***************************************************************************)
(* The gossip library of a set of nodes, in the PushPull mode that miners  *)
(* and the coord use.  A node keeps its updates in the order it learnt of  *)
(* them (updateLog; updateMap holds the same ones) and pushes a new one,   *)
(* with its whole log, to some peers.  The peer accepts it if it misses    *)
(* nothing of that log, and answers with what it misses and with what the  *)
(* sender misses; the sender then retransmits.                             *)
(*                                                                         *)
(* A push to one peer is one goroutine with two calls.  It is a record of  *)
(* the set pushes, with the step it is at:                                 *)
(*   dial        before the peer has the PushPull call                     *)
(*   merge       PushPull has looked for missing updates                   *)
(*   queue       PushPull has accepted the update, and waits, with rw      *)
(*               locked, to put it in the peer's pendingPushQueue          *)
(*   pull        PushPull looks for what the sender misses                 *)
(*   reply       the answer is on its way                                  *)
(*   retransmit  the sender is to send what the peer misses                *)
(*   done                                                                  *)
(* cut: the sender has given up, or is gone, and the peer does not know.   *)
(*                                                                         *)
(* rw protects each step that reads or writes a log.  Which peers are      *)
(* marked active is left open once a call has failed or a node restarted.  *)
(* Clients take what querySendChan holds.                                  *)
(***************************************************************************)
EXTENDS Integers, Sequences, FiniteSets, Functions, Selection

CONSTANTS Node,
          Update,         \* update IDs
          Kind,           \* [Update -> {"txn", "block", "node"}]: the ID's prefix
          Needs,          \* [Update -> SUBSET Update]: the parent and the
                          \* transactions of a block
          Origin,         \* [Update -> SUBSET Node]: whose clients may make it
          Sub,            \* [Node -> SUBSET kinds]: Subscription
          Trigger,        \* [Node -> {"update", "interval"}]
          FanOut,
          QueueCap,       \* capacity of pendingPushQueue (100)
          MaxPushes,      \* bound: pushes of a node under way
          MaxFails,       \* bound: failed calls
          MaxRestarts     \* bound: restarts

(* A miner subscribes to all kinds, a tracker to node updates only; only   *)
(* blocks need other updates, which nodes that take blocks take as well.   *)
ASSUME GossipAssumption ==
  /\ FanOut \in Nat \ {0} /\ QueueCap \in Nat \ {0}
  /\ MaxFails \in Nat /\ MaxRestarts \in Nat
  /\ \A u \in Update :
       /\ Kind[u] \in {"txn", "block", "node"}
       /\ Kind[u] # "block" => Needs[u] = {}
       /\ \A v \in Needs[u] : v \in Update /\ Kind[v] # "node"
  /\ \A u \in Update, n \in Node :
       /\ n \in Origin[u] => Kind[u] \in Sub[n]
       /\ Kind[u] \in Sub[n] => \A v \in Needs[u] : Kind[v] \in Sub[n]

VARIABLES log,            \* updateLog of each node
          pending,        \* pendingPushQueue: lengths of the prefixes of log to push
          pushes,         \* pushes under way
          fails, restarts

vars == <<log, pending, pushes, fails, restarts>>

Last(s) == s[Len(s)]

checkSubscription(n, u) == Kind[u] \in Sub[n]

RwFree(n) == \A x \in pushes : ~(x.to = n /\ x.pc = "queue")

-----------------------------------------------------------------------------
Init == /\ log = [n \in Node |-> << >>]
        /\ pending = [n \in Node |-> << >>]
        /\ pushes = {}
        /\ fails = 0 /\ restarts = 0

(* filterIncomingUpdate over several updates: the new ones are appended.   *)
New(n, updates) ==
  Selected(updates, {u \in Update : checkSubscription(n, u)} \ Range(log[n]))

Merged(n, updates) == log[n] \o New(n, updates)

(* digestLocalUpdateService.  A client makes an update when its log holds  *)
(* what the update needs (PublishedInOrder of Miner).                      *)
LocalUpdate(n, u) ==
  /\ n \in Origin[u] /\ u \notin Range(log[n])
  /\ Needs[u] \subseteq Range(log[n])
  /\ RwFree(n)
  /\ log' = [log EXCEPT ![n] = Append(@, u)]
  /\ IF Trigger[n] = "update"
     THEN /\ Len(pending[n]) < QueueCap
          /\ pending' = [pending EXCEPT ![n] = Append(@, Len(log[n]) + 1)]
     ELSE UNCHANGED pending
  /\ UNCHANGED <<pushes, fails, restarts>>

(* SelectPeers.                                                            *)
Subscribed(n, u) == {m \in Node \ {n} : checkSubscription(m, u)}

\* A faulty variant, for the mutation runs: one peer too few.
SelectPeersOneLess(n, u) ==
  {S \in SUBSET Subscribed(n, u) : Cardinality(S) = FanOut - 1}

SelectPeers(n, u) ==
  {S \in SUBSET Subscribed(n, u) :
     /\ Cardinality(S) <= FanOut
     /\ fails = 0 /\ restarts = 0 =>
          Cardinality(S) = FanOut \/ S = Subscribed(n, u)}

PushTo(n, m, prefix) == [from |-> n, to |-> m, log |-> prefix, pc |-> "dial",
                         missing |-> << >>, reply |-> << >>, cut |-> FALSE]

(* pushCycle: one goroutine for each selected peer.                        *)
PushCycle(n, prefix) == \E S \in SelectPeers(n, Last(prefix)) :
  LET new == {PushTo(n, m, prefix) : m \in S}
  IN  /\ new \cap pushes = {}
      /\ Cardinality({x \in pushes : x.from = n} \cup new) <= MaxPushes
      /\ pushes' = pushes \cup new

(* pushService, one round for either trigger.                              *)
PushPending(n) ==
  /\ Trigger[n] = "update" /\ pending[n] # << >>
  /\ PushCycle(n, SubSeq(log[n], 1, Head(pending[n])))
  /\ pending' = [pending EXCEPT ![n] = Tail(@)]
  /\ UNCHANGED <<log, fails, restarts>>

PushInterval(n) ==
  /\ Trigger[n] = "interval" /\ log[n] # << >>
  /\ RwFree(n)
  /\ PushCycle(n, log[n])
  /\ UNCHANGED <<log, pending, fails, restarts>>

-----------------------------------------------------------------------------
Step(x, y) == pushes' = (pushes \ {x}) \cup {y}

(* PushPull, first part: what this node misses of the log of the sender.   *)
Missing(x) ==
  New(x.to, SubSeq(x.log, 1, Len(x.log) - 1))

CheckMissing(x) ==
  /\ x.pc = "dial"
  /\ RwFree(x.to)
  /\ Step(x, [x EXCEPT !.pc = "merge", !.missing = Missing(x)])
  /\ UNCHANGED <<log, pending, fails, restarts>>

\* Faulty variants: the update is taken whatever is missing, and is not
\* asked for when it was not taken.
MergeUnchecked(x) ==
  /\ x.pc = "merge"
  /\ RwFree(x.to)
  /\ log' = [log EXCEPT ![x.to] = Merged(x.to, <<Last(x.log)>>)]
  /\ Step(x, [x EXCEPT !.pc = IF New(x.to, <<Last(x.log)>>) # << >> THEN "queue" ELSE "pull"])
  /\ UNCHANGED <<pending, fails, restarts>>
MergeUnasked(x) ==
  /\ x.pc = "merge"
  /\ RwFree(x.to)
  /\ IF x.missing = << >> /\ New(x.to, <<Last(x.log)>>) # << >>
     THEN /\ log' = [log EXCEPT ![x.to] = Append(@, Last(x.log))]
          /\ Step(x, [x EXCEPT !.pc = "queue"])
     ELSE Step(x, [x EXCEPT !.pc = "pull"]) /\ UNCHANGED log
  /\ UNCHANGED <<pending, fails, restarts>>

(* Then the update itself, unless something is missing, in which case the  *)
(* update is asked for after what is missing.                              *)
MergePushed(x) ==
  /\ x.pc = "merge"
  /\ RwFree(x.to)
  /\ IF x.missing # << >>
     THEN /\ Step(x, [x EXCEPT !.pc = "pull", !.missing = Append(@, Last(x.log))])
          /\ UNCHANGED log
     ELSE /\ log' = [log EXCEPT ![x.to] = Merged(x.to, <<Last(x.log)>>)]
          /\ Step(x, [x EXCEPT !.pc = IF log'[x.to] # log[x.to] THEN "queue" ELSE "pull"])
  /\ UNCHANGED <<pending, fails, restarts>>

\* A faulty variant: a full queue takes one more.
QueuePushedAlways(x) ==
  /\ x.pc = "queue"
  /\ pending' = [pending EXCEPT ![x.to] = Append(@, Len(log[x.to]))]
  /\ Step(x, [x EXCEPT !.pc = "pull"])
  /\ UNCHANGED <<log, fails, restarts>>

(* An accepted update is queued for a push of its own (toPush), rw locked. *)
QueuePushed(x) ==
  /\ x.pc = "queue"
  /\ Len(pending[x.to]) < QueueCap
  /\ pending' = [pending EXCEPT ![x.to] = Append(@, Len(log[x.to]))]
  /\ Step(x, [x EXCEPT !.pc = "pull"])
  /\ UNCHANGED <<log, fails, restarts>>

(* PushPull, second part: what the sender misses of this node's log.       *)
Pulled(x) ==
  Selected(log[x.to], {u \in Update : checkSubscription(x.from, u)} \ Range(x.log))

Pull(x) ==
  /\ x.pc = "pull"
  /\ RwFree(x.to)
  /\ Step(x, [x EXCEPT !.pc = "reply", !.reply = Pulled(x)])
  /\ UNCHANGED <<log, pending, fails, restarts>>

TakeReply(x) ==
  /\ x.pc = "reply" /\ ~x.cut
  /\ RwFree(x.from)
  /\ log' = [log EXCEPT ![x.from] = Merged(x.from, x.reply)]
  /\ Step(x, [x EXCEPT !.pc = IF x.missing = << >> THEN "done" ELSE "retransmit"])
  /\ UNCHANGED <<pending, fails, restarts>>

Retransmit(x) ==
  /\ x.pc = "retransmit"
  /\ RwFree(x.from) /\ RwFree(x.to)
  /\ log' = [log EXCEPT ![x.to] = Merged(x.to, x.missing)]
  /\ Step(x, [x EXCEPT !.pc = "done"])
  /\ UNCHANGED <<pending, fails, restarts>>

(* The goroutine, or the handler nobody waits for, ends, or the call of a  *)
(* node that is gone is lost.                                              *)
End(x) ==
  /\ x.pc = "done" \/ (x.pc \in {"dial", "reply"} /\ x.cut)
  /\ pushes' = pushes \ {x}
  /\ UNCHANGED <<log, pending, fails, restarts>>

-----------------------------------------------------------------------------
InHandler(x) == x.pc \in {"merge", "queue", "pull"}

(* A call fails: before it arrives, while the handler runs, or after it.   *)
Fail(x) ==
  /\ fails < MaxFails
  /\ ~x.cut /\ x.pc # "done"
  /\ fails' = fails + 1
  /\ IF InHandler(x) THEN Step(x, [x EXCEPT !.cut = TRUE])
                     ELSE pushes' = pushes \ {x}
  /\ UNCHANGED <<log, pending, restarts>>

(* InitGossip and Start: a node that restarts knows the blocks of its disk *)
(* and the peers it has saved, some of those it knew: the transactions of  *)
(* the blocks first, then the blocks by number, then the announcements.    *)
(* (Here a block's number is its height: see Numbered in BlockChain.)  A   *)
(* call that was sent may yet arrive.                                      *)
Stored(n, S) ==
  LET kept == S \cup UNION {Needs[u] : u \in S}
      OfKind(k) == Selected(log[n], {u \in kept : Kind[u] = k})
  IN  OfKind("txn") \o OfKind("block") \o OfKind("node")

Survivors(n) ==
  {S \in SUBSET {u \in Range(log[n]) : Kind[u] # "txn"} :
     \A u \in S : {v \in Needs[u] : Kind[v] # "txn"} \subseteq S}

Restart(n) ==
  /\ restarts < MaxRestarts
  /\ restarts' = restarts + 1
  /\ \E S \in Survivors(n) : log' = [log EXCEPT ![n] = Stored(n, S)]
  /\ pending' = [pending EXCEPT ![n] = << >>]
  /\ pushes' = {x \in pushes : n \notin {x.from, x.to}} \cup
               {[x EXCEPT !.cut = TRUE] :
                  x \in {x \in pushes : x.from = n /\ x.to # n /\
                                        (InHandler(x) \/ x.pc \in {"dial", "reply"})}}
  /\ UNCHANGED fails

-----------------------------------------------------------------------------
Progress(x) == CheckMissing(x) \/ MergePushed(x) \/ QueuePushed(x) \/ Pull(x)
               \/ TakeReply(x) \/ Retransmit(x) \/ End(x)

Next == \/ \E n \in Node, u \in Update : LocalUpdate(n, u)
        \/ \E n \in Node : PushPending(n) \/ PushInterval(n) \/ Restart(n)
        \/ \E x \in pushes : Progress(x) \/ Fail(x)

Spec == Init /\ [][Next]_vars

(* A push and its handler go on while they can; so does pushService.       *)
Fairness ==
  /\ \A n \in Node : WF_vars(PushPending(n)) /\ WF_vars(PushInterval(n))
  /\ \A n, m \in Node :
       WF_vars(\E x \in pushes : x.from = n /\ x.to = m /\ Progress(x))

FairSpec == Spec /\ Fairness

-----------------------------------------------------------------------------
(* Logs are sequences of updates, queues hold prefixes of them, and each   *)
(* push is at a step of its protocol.                                      *)
TypeOK ==
  /\ log \in [Node -> Seq(Update)]
  /\ pending \in [Node -> Seq(Nat)]
  /\ \A n \in Node : /\ Len(pending[n]) <= QueueCap
                     /\ Range(pending[n]) \subseteq DOMAIN log[n]
  /\ pushes \subseteq
       [from : Node, to : Node, log : Seq(Update) \ {<< >>},
        pc : {"dial", "merge", "queue", "pull", "reply", "retransmit", "done"},
        missing : Seq(Update), reply : Seq(Update), cut : BOOLEAN]
  /\ fails \in 0..MaxFails /\ restarts \in 0..MaxRestarts

(* Every node learns of an update once, and only after what the update     *)
(* needs: a block reaches the client after its parent and transactions.    *)
CausalLog == \A n \in Node : \A i \in DOMAIN log[n] :
  /\ checkSubscription(n, log[n][i])
  /\ \A j \in 1..(i - 1) : log[n][j] # log[n][i]
  /\ \A u \in Needs[log[n][i]] : \E j \in 1..(i - 1) : log[n][j] = u

(* A push that ends well leaves neither side behind: the peer knows the    *)
(* log that was pushed, and the sender what the peer knew.                 *)
Knows(n, updates) ==
  \A u \in Range(updates) : checkSubscription(n, u) => u \in Range(log[n])

PushSyncs == \A x \in pushes :
  x.pc = "done" => Knows(x.to, x.log) /\ Knows(x.from, x.reply)

(* With all peers within the fan-out and no failure, an update that one    *)
(* node knows reaches every node that subscribes to it.                    *)
Spreads == \A u \in Update :
  (\E n \in Node : u \in Range(log[n])) ~>
     \A n \in Node : checkSubscription(n, u) => u \in Range(log[n])

(* "Allow cycle to be triggered by both intervals and new updates": a node *)
(* with the interval trigger, once it knows something, pushes ever again.  *)
IntervalGoesOn == \A n \in Node : Trigger[n] = "interval" =>
  []<>(log[n] = << >> \/ \E x \in pushes : x.from = n)
=============================================================================
