--------------------------- MODULE Gossip_proofs ---------------------------
(***************************************************************************)
(* Theorems about gossip, for every set of nodes and updates, every        *)
(* fan-out, capacity and number of pushes under way, and any number of     *)
(* failed calls and restarts.                                              *)
(***************************************************************************)
EXTENDS Gossip, Selection_proofs

-----------------------------------------------------------------------------
(* A list in which what an update needs comes before it, or is in known.   *)
Causal(s, known) == \A i \in DOMAIN s : \A u \in Needs[s[i]] :
  u \in known \/ \E j \in DOMAIN s : j < i /\ s[j] = u

(* What the node has, or may be sent, of the updates it subscribes to.     *)
Wanted(n) == {u \in Update : checkSubscription(n, u)}

Fits(n, s, known) == /\ IsInjective(s) /\ Range(s) \subseteq Wanted(n)
                     /\ Causal(s, known)

Front(s) == SubSeq(s, 1, Len(s) - 1)

(* A push holds a log of the sender.  What the peer misses of it, and      *)
(* what the sender misses, is in an order in which it can be appended to   *)
(* the log of the one that misses it, and nothing else is missed.          *)
PushSound(x) ==
  /\ Fits(x.from, x.log, {}) /\ Last(x.log) \in Wanted(x.to)
  /\ ~x.cut => Range(x.log) \subseteq Range(log[x.from])
  /\ Fits(x.to, x.missing, Range(log[x.to]))
  /\ Fits(x.from, x.reply, Range(x.log))
  /\ x.pc = "merge" =>
       /\ Range(x.missing) \subseteq Range(Front(x.log))
       /\ Range(Front(x.log)) \cap Wanted(x.to) \subseteq Range(log[x.to]) \cup Range(x.missing)
  /\ x.pc \in {"queue", "pull", "reply", "retransmit"} =>
       Range(x.log) \cap Wanted(x.to) \subseteq Range(log[x.to]) \cup Range(x.missing)
  /\ x.pc = "queue" => Last(x.log) \in Range(log[x.to])
  /\ x.pc \in {"retransmit", "done"} => Knows(x.from, x.reply)
  /\ x.pc = "done" => Knows(x.to, x.log)

LogsFit == /\ log \in [Node -> Seq(Update)]
           /\ \A n \in Node : Fits(n, log[n], {})

QueuesHold == /\ pending \in [Node -> Seq(Nat)]
              /\ \A n \in Node : /\ Len(pending[n]) <= QueueCap
                                 /\ Range(pending[n]) \subseteq DOMAIN log[n]

Push == [from : Node, to : Node, log : Seq(Update) \ {<< >>},
         pc : {"dial", "merge", "queue", "pull", "reply", "retransmit", "done"},
         missing : Seq(Update), reply : Seq(Update), cut : BOOLEAN]

PushesSound == pushes \subseteq Push /\ \A x \in pushes : PushSound(x)

CountsHold == fails \in 0..MaxFails /\ restarts \in 0..MaxRestarts

GossipInvariant == LogsFit /\ QueuesHold /\ PushesSound /\ CountsHold

-----------------------------------------------------------------------------
(* Lists and what they need.                                               *)
LEMMA RangeSeq ==
  ASSUME NEW s \in Seq(Update)
  PROVE  /\ Len(s) \in Nat /\ DOMAIN s = 1..Len(s)
         /\ \A i \in DOMAIN s : s[i] \in Update /\ s[i] \in Range(s)
         /\ \A u \in Range(s) : \E i \in DOMAIN s : s[i] = u
BY DEF Range

LEMMA FitsMore ==
  ASSUME NEW n, NEW s, NEW known, NEW more, Fits(n, s, known), known \subseteq more
  PROVE  Fits(n, s, more)
BY DEF Fits, Causal

LEMMA FitsEmpty ==
  ASSUME NEW n, NEW known
  PROVE  Fits(n, << >>, known) /\ Range(<< >>) = {} /\ << >> \in Seq(Update)
BY DEF Fits, Causal, IsInjective, Range

(* A choice of updates that takes with an update what it needs.            *)
Closed(n, keep, known) ==
  keep \subseteq Wanted(n) /\ \A u \in keep : Needs[u] \subseteq keep \cup known

(* What is selected of a list keeps its order: what it needs was before it *)
(* and is selected too, or left out because it is known.                   *)
LEMMA SelectedFits ==
  ASSUME NEW n \in Node, NEW s \in Seq(Update), NEW known, NEW keep,
         IsInjective(s), Causal(s, known), Closed(n, keep, known),
         NEW t, t = Selected(s, keep)
  PROVE  /\ t \in Seq(Update)
         /\ Fits(n, t, known)
         /\ Range(t) = Range(s) \cap keep
<1> DEFINE from == From(s, keep)
<1>1. /\ t \in Seq(Update)
      /\ from \in [DOMAIN t -> DOMAIN s]
      /\ \A k \in DOMAIN t : t[k] = s[from[k]] /\ t[k] \in keep
      /\ \A k, l \in DOMAIN t : k < l <=> from[k] < from[l]
      /\ \A i \in DOMAIN s : s[i] \in keep => \E k \in DOMAIN t : from[k] = i
  BY SelectedFrom
<1> HIDE DEF from
<1>2. DOMAIN s \subseteq Nat /\ DOMAIN t \subseteq Nat
  BY <1>1, RangeSeq
<1>3. IsInjective(t)
  <2> SUFFICES ASSUME NEW k \in DOMAIN t, NEW l \in DOMAIN t, t[k] = t[l]
               PROVE  k = l
    BY DEF IsInjective
  <2>1. from[k] = from[l]
    BY <1>1 DEF IsInjective
  <2>2. from[k] \in Nat
    BY <1>1, <1>2
  <2>3. ~(k < l) /\ ~(l < k)
    BY <1>1, <2>1, <2>2
  <2>4. QED
    BY <1>2, <2>3
<1>4. Causal(t, known)
  <2> SUFFICES ASSUME NEW k \in DOMAIN t, NEW u \in Needs[t[k]], u \notin known
               PROVE  \E j \in DOMAIN t : j < k /\ t[j] = u
    BY DEF Causal
  <2>1. PICK i \in DOMAIN s : i < from[k] /\ s[i] = u
    BY <1>1 DEF Causal
  <2>2. t[k] \in keep
    BY <1>1
  <2>3. u \in keep
    BY <2>2 DEF Closed
  <2>4. PICK j \in DOMAIN t : from[j] = i
    BY <1>1, <2>1, <2>3
  <2>5. j < k /\ t[j] = u
    BY <1>1, <2>1, <2>4
  <2>6. QED
    BY <2>5
<1>5. Range(t) = Range(s) \cap keep
  <2>1. ASSUME NEW u \in Range(t) PROVE u \in Range(s) \cap keep
    BY <1>1 DEF Range
  <2>2. ASSUME NEW u \in Range(s) \cap keep PROVE u \in Range(t)
    <3>1. PICK i \in DOMAIN s : s[i] = u
      BY <2>2 DEF Range
    <3>2. PICK k \in DOMAIN t : from[k] = i
      BY <1>1, <2>2, <3>1
    <3>3. t[k] = u
      BY <1>1, <3>1, <3>2
    <3>4. QED
      BY <3>3 DEF Range
  <2>3. QED
    BY <2>1, <2>2
<1>6. Range(t) \subseteq Wanted(n)
  BY <1>5 DEF Closed
<1>7. QED
  BY <1>1, <1>3, <1>4, <1>5, <1>6 DEF Fits

LEMMA SelectedWanted ==
  ASSUME NEW n \in Node, NEW s \in Seq(Update), NEW known,
         IsInjective(s), Causal(s, known),
         NEW keep, keep = Wanted(n) \ known, NEW t, t = Selected(s, keep)
  PROVE  /\ t \in Seq(Update)
         /\ Fits(n, t, known)
         /\ Range(t) = Range(s) \cap keep
<1>1. Closed(n, keep, known)
  BY GossipAssumption DEF Closed, Wanted, checkSubscription
<1>2. ASSUME NEW kept, Closed(n, kept, known), NEW v, v = Selected(s, kept)
      PROVE  v \in Seq(Update) /\ Fits(n, v, known) /\ Range(v) = Range(s) \cap kept
  BY <1>2, SelectedFits
<1>3. QED
  BY <1>1, <1>2

(* A list that fits behind another one can be appended to it.              *)
Joins(v, s, t) ==
  /\ DOMAIN v = 1..(Len(s) + Len(t))
  /\ \A i \in DOMAIN v : v[i] = IF i <= Len(s) THEN s[i] ELSE t[i - Len(s)]

LEMMA ConcatJoins ==
  ASSUME NEW s \in Seq(Update), NEW t \in Seq(Update)
  PROVE  s \o t \in Seq(Update) /\ Joins(s \o t, s, t)
BY ConcatProperties DEF Joins

LEMMA ConcatFits ==
  ASSUME NEW n, NEW s \in Seq(Update), NEW t \in Seq(Update), NEW known,
         Fits(n, s, known), Fits(n, t, known \cup Range(s)), Range(s) \cap Range(t) = {},
         NEW v, Joins(v, s, t)
  PROVE  Fits(n, v, known) /\ Range(v) = Range(s) \cup Range(t)
<1>1. /\ Len(s) \in Nat /\ Len(t) \in Nat
      /\ DOMAIN s = 1..Len(s) /\ DOMAIN t = 1..Len(t) /\ DOMAIN v = 1..(Len(s) + Len(t))
      /\ \A i \in DOMAIN v : v[i] = IF i <= Len(s) THEN s[i] ELSE t[i - Len(s)]
  BY DEF Joins
<1>2. \A i \in DOMAIN s : i \in DOMAIN v /\ v[i] = s[i]
  BY <1>1
<1>3. \A i \in DOMAIN t : i + Len(s) \in DOMAIN v /\ v[i + Len(s)] = t[i]
  BY <1>1
<1>4. \A i \in DOMAIN v :
        \/ i \in DOMAIN s /\ v[i] = s[i]
        \/ i - Len(s) \in DOMAIN t /\ v[i] = t[i - Len(s)] /\ i > Len(s)
  <2> TAKE i \in DOMAIN v
  <2>1. i \in Nat /\ i >= 1 /\ i <= Len(s) + Len(t)
    BY <1>1
  <2>2. CASE i <= Len(s)
    BY <1>1, <2>1, <2>2
  <2>3. CASE i > Len(s)
    <3>1. i - Len(s) \in 1..Len(t)
      BY <1>1, <2>1, <2>3
    <3>2. v[i] = t[i - Len(s)]
      BY <1>1, <2>1, <2>3
    <3>3. QED
      BY <1>1, <2>3, <3>1, <3>2
  <2>4. QED
    BY <1>1, <2>1, <2>2, <2>3
<1>5. Range(v) = Range(s) \cup Range(t)
  BY <1>2, <1>3, <1>4 DEF Range
<1>6. IsInjective(v)
  <2> SUFFICES ASSUME NEW i \in DOMAIN v, NEW j \in DOMAIN v, v[i] = v[j]
               PROVE  i = j
    BY DEF IsInjective
  <2>1. CASE i \in DOMAIN s /\ j \in DOMAIN s
    BY <1>2, <2>1 DEF Fits, IsInjective
  <2>2. CASE i \notin DOMAIN s /\ j \notin DOMAIN s
    <3>1. i - Len(s) = j - Len(s)
      BY <1>4, <2>2 DEF Fits, IsInjective
    <3>2. QED
      BY <1>1, <3>1
  <2>3. CASE i \in DOMAIN s /\ j \notin DOMAIN s
    BY <1>4, <2>3 DEF Range
  <2>4. CASE i \notin DOMAIN s /\ j \in DOMAIN s
    BY <1>4, <2>4 DEF Range
  <2>5. QED
    BY <2>1, <2>2, <2>3, <2>4
<1>7. Causal(v, known)
  <2> SUFFICES ASSUME NEW i \in DOMAIN v, NEW u \in Needs[v[i]], u \notin known
               PROVE  \E j \in DOMAIN v : j < i /\ v[j] = u
    BY DEF Causal
  <2>1. CASE i \in DOMAIN s
    BY <1>2, <2>1 DEF Fits, Causal
  <2>2. CASE i \notin DOMAIN s
    <3>1. i - Len(s) \in DOMAIN t /\ v[i] = t[i - Len(s)] /\ i > Len(s)
      BY <1>4, <2>2
    <3>2. CASE u \in Range(s)
      <4>1. PICK j \in DOMAIN s : s[j] = u
        BY <3>2 DEF Range
      <4>2. QED
        BY <1>1, <1>2, <3>1, <4>1
    <3>3. CASE u \notin Range(s)
      <4>1. PICK j \in DOMAIN t : j < i - Len(s) /\ t[j] = u
        BY <3>1, <3>3 DEF Fits, Causal
      <4>2. j + Len(s) \in DOMAIN v /\ v[j + Len(s)] = u
        BY <1>3, <4>1
      <4>3. j + Len(s) < i
        BY <1>1, <4>1
      <4>4. QED
        BY <4>2, <4>3
    <3>4. QED
      BY <3>2, <3>3
  <2>3. QED
    BY <2>1, <2>2
<1>8. QED
  BY <1>1, <1>5, <1>6, <1>7 DEF Fits
(* A list cut short, and its last element.                                 *)
LEMMA PrefixFits ==
  ASSUME NEW n, NEW s \in Seq(Update), NEW known, Fits(n, s, known), NEW k \in 0..Len(s)
  PROVE  /\ SubSeq(s, 1, k) \in Seq(Update)
         /\ Len(SubSeq(s, 1, k)) = k
         /\ Fits(n, SubSeq(s, 1, k), known)
         /\ \A i \in 1..k : i \in DOMAIN s /\ SubSeq(s, 1, k)[i] = s[i]
         /\ Range(SubSeq(s, 1, k)) \subseteq Range(s)
<1> DEFINE v == SubSeq(s, 1, k)
<1>1. Len(s) \in Nat /\ DOMAIN s = 1..Len(s) /\ \A i \in 1..Len(s) : s[i] \in Update
  OBVIOUS
<1>2. \A i \in 1..k : i \in DOMAIN s
  BY <1>1
<1>3. /\ v \in Seq(Update) /\ Len(v) = k /\ DOMAIN v = 1..k
      /\ \A i \in 1..k : v[i] = s[i]
  <2>1. \A i \in 1..k : s[i] \in Update
    BY <1>1
  <2>2. QED
    BY <1>1, <2>1, SubSeqProperties
<1> HIDE DEF v
<1>4. Range(v) \subseteq Range(s)
  BY <1>2, <1>3 DEF Range
<1>5. IsInjective(v)
  BY <1>2, <1>3 DEF IsInjective, Fits
<1>6. Causal(v, known)
  <2> SUFFICES ASSUME NEW i \in 1..k, NEW u \in Needs[v[i]], u \notin known
               PROVE  \E j \in 1..k : j < i /\ v[j] = u
    BY <1>3 DEF Causal
  <2>1. PICK j \in DOMAIN s : j < i /\ s[j] = u
    BY <1>2, <1>3 DEF Fits, Causal
  <2>2. j \in 1..k
    BY <1>1, <2>1
  <2>3. QED
    BY <1>3, <2>1, <2>2
<1>7. QED
  BY <1>2, <1>3, <1>4, <1>5, <1>6 DEF Fits, v

LEMMA FrontLast ==
  ASSUME NEW n, NEW s \in Seq(Update), s # << >>, Fits(n, s, {})
  PROVE  /\ Front(s) \in Seq(Update) /\ Fits(n, Front(s), {})
         /\ Last(s) \in Update /\ Last(s) \in Wanted(n)
         /\ Range(s) = Range(Front(s)) \cup {Last(s)}
         /\ Last(s) \notin Range(Front(s))
         /\ Needs[Last(s)] \subseteq Range(Front(s))
<1> DEFINE k == Len(s) - 1
           v == Front(s)
<1>1. Len(s) \in Nat /\ DOMAIN s = 1..Len(s) /\ Len(s) # 0
  OBVIOUS
<1>2. k \in 0..Len(s) /\ k + 1 = Len(s) /\ k \in Nat
  BY <1>1
<1>3. /\ v \in Seq(Update) /\ Len(v) = k /\ Fits(n, v, {})
      /\ \A i \in 1..k : i \in DOMAIN s /\ v[i] = s[i]
      /\ Range(v) \subseteq Range(s)
  BY <1>2, PrefixFits DEF Front
<1> HIDE DEF v
<1>4. DOMAIN v = 1..k
  BY <1>3
<1>5. Last(s) = s[k + 1] /\ k + 1 \in DOMAIN s
  BY <1>1, <1>2 DEF Last
<1>6. \A i \in DOMAIN s : i = k + 1 \/ i \in 1..k
  BY <1>1, <1>2
<1>7. Range(s) = Range(v) \cup {Last(s)}
  BY <1>3, <1>4, <1>5, <1>6 DEF Range
<1>8. Last(s) \notin Range(v)
  <2> SUFFICES ASSUME NEW i \in 1..k, v[i] = Last(s)
               PROVE  FALSE
    BY <1>4 DEF Range
  <2>1. i = k + 1
    BY <1>3, <1>5 DEF Fits, IsInjective
  <2>2. QED
    BY <1>2, <2>1
<1>9. Needs[Last(s)] \subseteq Range(v)
  <2> SUFFICES ASSUME NEW u \in Needs[s[k + 1]]
               PROVE  u \in Range(v)
    BY <1>5
  <2>1. PICK j \in DOMAIN s : j < k + 1 /\ s[j] = u
    BY <1>5 DEF Fits, Causal
  <2>2. j \in 1..k
    BY <1>1, <1>2, <2>1
  <2>3. QED
    BY <1>3, <1>4, <2>1, <2>2 DEF Range
<1>10. Last(s) \in Update /\ Last(s) \in Wanted(n)
  BY <1>5 DEF Fits, Range
<1>11. QED
  BY <1>3, <1>7, <1>8, <1>9, <1>10 DEF v

(* Appending what is new of a list that fits.                              *)
LEMMA MergedFits ==
  ASSUME NEW n \in Node, log[n] \in Seq(Update), Fits(n, log[n], {}),
         NEW updates \in Seq(Update), IsInjective(updates), Causal(updates, Range(log[n]))
  PROVE  /\ Merged(n, updates) \in Seq(Update)
         /\ Fits(n, Merged(n, updates), {})
         /\ Range(Merged(n, updates)) = Range(log[n]) \cup (Range(updates) \cap Wanted(n))
<1> DEFINE known == Range(log[n])
           keep == Wanted(n) \ known
           t == New(n, updates)
           v == Merged(n, updates)
<1>1. t = Selected(updates, keep)
  BY DEF New, Wanted
<1>2. v = log[n] \o t
  BY DEF Merged
<1>3. Causal(updates, known)
  OBVIOUS
<1> HIDE DEF t, v
<1>4. /\ t \in Seq(Update) /\ Fits(n, t, known)
      /\ Range(t) = Range(updates) \cap keep
  <2>1. keep = Wanted(n) \ known
    OBVIOUS
  <2> HIDE DEF known, keep
  <2>2. QED
    BY <1>1, <1>3, <2>1, SelectedWanted
<1>5. Fits(n, t, {} \cup Range(log[n])) /\ Range(log[n]) \cap Range(t) = {}
  <2>1. known = {} \cup Range(log[n])
    OBVIOUS
  <2>2. QED
    BY <1>4, <2>1
<1>6. v \in Seq(Update) /\ Joins(v, log[n], t)
  BY <1>2, <1>4, ConcatJoins
<1>7. Fits(n, v, {}) /\ Range(v) = Range(log[n]) \cup Range(t)
  BY <1>4, <1>5, <1>6, ConcatFits
<1>8. QED
  BY <1>4, <1>6, <1>7 DEF v

(* What u needs is in the list or known.                                   *)
Met(u, s, known) == Needs[u] \subseteq known \cup Range(s)

Longer(v, s, u) == v = Append(s, u)

LEMMA AppendFits ==
  ASSUME NEW n, NEW s \in Seq(Update), NEW known, Fits(n, s, known),
         NEW u \in Update, u \in Wanted(n), u \notin Range(s),
         Met(u, s, known), NEW v, Longer(v, s, u)
  PROVE  /\ v \in Seq(Update) /\ Fits(n, v, known) /\ Range(v) = Range(s) \cup {u}
         /\ DOMAIN v = 1..(Len(s) + 1)
<1>1. /\ Len(s) \in Nat /\ DOMAIN s = 1..Len(s)
      /\ v \in Seq(Update) /\ Len(v) = Len(s) + 1 /\ DOMAIN v = 1..(Len(s) + 1)
      /\ v[Len(s) + 1] = u
      /\ \A i \in DOMAIN s : v[i] = s[i]
  BY DEF Longer
<1>2. \A i \in DOMAIN v : i \in DOMAIN s \/ i = Len(s) + 1
  BY <1>1
<1>3. DOMAIN s \subseteq DOMAIN v /\ Len(s) + 1 \in DOMAIN v /\ \A j \in DOMAIN s : j < Len(s) + 1
  BY <1>1
<1>4. Range(v) = Range(s) \cup {u}
  BY <1>1, <1>2, <1>3 DEF Range
<1>5. IsInjective(v)
  BY <1>1, <1>2 DEF Fits, IsInjective, Range
<1>6. Causal(v, known)
  <2> SUFFICES ASSUME NEW i \in DOMAIN v, NEW w \in Needs[v[i]], w \notin known
               PROVE  \E j \in DOMAIN v : j < i /\ v[j] = w
    BY DEF Causal
  <2>1. CASE i \in DOMAIN s
    BY <1>1, <1>3, <2>1 DEF Fits, Causal
  <2>2. CASE i = Len(s) + 1
    BY <1>1, <1>3, <2>2 DEF Range, Met
  <2>3. QED
    BY <1>2, <2>1, <2>2
<1>7. QED
  BY <1>1, <1>4, <1>5, <1>6 DEF Fits

LEMMA SingleFits ==
  ASSUME NEW u \in Update, NEW known, Needs[u] \subseteq known
  PROVE  /\ <<u>> \in Seq(Update) /\ IsInjective(<<u>>) /\ Causal(<<u>>, known)
         /\ Range(<<u>>) = {u}
<1>1. <<u>> \in Seq(Update) /\ DOMAIN <<u>> = {1} /\ <<u>>[1] = u
  OBVIOUS
<1>2. QED
  BY <1>1 DEF IsInjective, Causal, Range

-----------------------------------------------------------------------------
(* Steps in which logs only grow.                                          *)
Grow(n) == Range(log[n]) \subseteq Range(log'[n]) /\ DOMAIN log[n] \subseteq DOMAIN log'[n]

Grows == \A n \in Node : Grow(n)

LEMMA LogGrows ==
  ASSUME LogsFit, NEW n \in Node, NEW l \in Seq(Update), Fits(n, l, {}),
         Range(log[n]) \subseteq Range(l), DOMAIN log[n] \subseteq DOMAIN l,
         log' = [log EXCEPT ![n] = l]
  PROVE  LogsFit' /\ Grows
<1>1. log'[n] = l /\ \A m \in Node \ {n} : log'[m] = log[m]
  BY DEF LogsFit
<1>2. log' \in [Node -> Seq(Update)]
  BY DEF LogsFit
<1>3. \A m \in Node : Fits(m, log'[m], {}) /\ Grow(m)
  BY <1>1 DEF LogsFit, Grow
<1>4. QED
  BY <1>2, <1>3 DEF LogsFit, Grows

LEMMA LogKept ==
  ASSUME LogsFit, UNCHANGED log
  PROVE  LogsFit' /\ Grows
BY DEF LogsFit, Grows, Grow

LEMMA MergeGrows ==
  ASSUME LogsFit, NEW n \in Node,
         NEW updates \in Seq(Update), IsInjective(updates), Causal(updates, Range(log[n])),
         log' = [log EXCEPT ![n] = Merged(n, updates)]
  PROVE  /\ LogsFit' /\ Grows /\ Knows(n, updates)'
         /\ Range(log'[n]) = Range(log[n]) \cup (Range(updates) \cap Wanted(n))
<1> DEFINE l == Merged(n, updates)
<1>1. log[n] \in Seq(Update) /\ Fits(n, log[n], {})
  BY DEF LogsFit
<1>2. /\ l \in Seq(Update) /\ Fits(n, l, {})
      /\ Range(l) = Range(log[n]) \cup (Range(updates) \cap Wanted(n))
  BY <1>1, MergedFits
<1>3. DOMAIN log[n] \subseteq DOMAIN l
  <2>1. New(n, updates) \in Seq(Update)
    <3>1. New(n, updates) = Selected(updates, Wanted(n) \ Range(log[n]))
      BY DEF New, Wanted
    <3>2. QED
      BY <3>1, SelectedFrom
  <2>2. QED
    BY <1>1, <2>1 DEF Merged
<1> HIDE DEF l
<1>4. log' = [log EXCEPT ![n] = l]
  BY DEF l
<1>5. LogsFit' /\ Grows
  BY <1>2, <1>3, <1>4, LogGrows
<1>6. log'[n] = l
  BY <1>4 DEF LogsFit
<1>7. Knows(n, updates)'
  <2> SUFFICES ASSUME NEW u \in Range(updates), checkSubscription(n, u)
               PROVE  u \in Range(log'[n])
    BY DEF Knows
  <2>1. u \in Update
    BY RangeSeq
  <2>2. QED
    BY <1>2, <1>6, <2>1 DEF Wanted
<1>8. QED
  BY <1>2, <1>5, <1>6, <1>7

(* A push is not disturbed when its two logs grow; one that is cut does    *)
(* not mind what its sender's log does.                                    *)
LEMMA PushKept ==
  ASSUME NEW x \in Push, PushSound(x), Range(log[x.to]) \subseteq Range(log'[x.to]),
         \/ Range(log[x.from]) \subseteq Range(log'[x.from])
         \/ x.cut /\ x.pc \notin {"retransmit", "done"}
  PROVE  PushSound(x)'
<1>1. Fits(x.to, x.missing, Range(log'[x.to]))
  BY FitsMore DEF PushSound
<1>2. ~x.cut => Range(x.log) \subseteq Range(log'[x.from])
  BY DEF PushSound
<1>3. x.pc \in {"retransmit", "done"} => Knows(x.from, x.reply)'
  BY DEF PushSound, Knows
<1>4. x.pc = "done" => Knows(x.to, x.log)'
  BY DEF PushSound, Knows
<1>5. x.pc = "merge" =>
       /\ Range(x.missing) \subseteq Range(Front(x.log))
       /\ Range(Front(x.log)) \cap Wanted(x.to) \subseteq Range(log'[x.to]) \cup Range(x.missing)
  BY DEF PushSound
<1>6. x.pc \in {"queue", "pull", "reply", "retransmit"} =>
       Range(x.log) \cap Wanted(x.to) \subseteq Range(log'[x.to]) \cup Range(x.missing)
  BY DEF PushSound
<1>7. x.pc = "queue" => Last(x.log) \in Range(log'[x.to])
  BY DEF PushSound
<1>8. QED
  BY <1>1, <1>2, <1>3, <1>4, <1>5, <1>6, <1>7 DEF PushSound

LEMMA PushesKept ==
  ASSUME PushesSound, Grows, NEW x \in pushes
  PROVE  x \in Push /\ PushSound(x)'
<1>1. x \in Push /\ PushSound(x)
  BY DEF PushesSound
<1>2. x.to \in Node /\ x.from \in Node
  BY <1>1 DEF Push
<1>3. QED
  BY <1>1, <1>2, PushKept DEF Grows, Grow

LEMMA StepSound ==
  ASSUME PushesSound, Grows, NEW x, NEW y \in Push, PushSound(y)', Step(x, y)
  PROVE  PushesSound'
<1>1. \A z \in pushes' : z = y \/ z \in pushes
  BY DEF Step
<1>2. \A z \in pushes' : z \in Push /\ PushSound(z)'
  BY <1>1, PushesKept
<1>3. QED
  BY <1>2 DEF PushesSound

LEMMA FewerSound ==
  ASSUME PushesSound, Grows, pushes' \subseteq pushes
  PROVE  PushesSound'
<1>1. \A z \in pushes' : z \in Push /\ PushSound(z)'
  BY PushesKept
<1>2. QED
  BY <1>1 DEF PushesSound

(* A queue stays valid, and takes the length of a prefix.                  *)
LEMMA QueuesKept ==
  ASSUME QueuesHold, Grows, UNCHANGED pending
  PROVE  QueuesHold'
BY DEF QueuesHold, Grows, Grow

LEMMA QueueTakes ==
  ASSUME QueuesHold, Grows, NEW n \in Node, Len(pending[n]) < QueueCap,
         NEW k \in Nat, k \in DOMAIN log'[n],
         pending' = [pending EXCEPT ![n] = Append(@, k)]
  PROVE  QueuesHold'
<1> DEFINE q == Append(pending[n], k)
<1>1. pending[n] \in Seq(Nat) /\ Len(pending[n]) \in Nat
      /\ Range(pending[n]) \subseteq DOMAIN log[n]
  BY DEF QueuesHold
<1>2. q \in Seq(Nat) /\ Len(q) <= QueueCap
  BY <1>1, GossipAssumption
<1>3. Range(q) \subseteq DOMAIN log'[n]
  <2>1. \A i \in DOMAIN q : q[i] = k \/ q[i] \in Range(pending[n])
    BY <1>1 DEF Range
  <2>2. QED
    BY <1>1, <2>1 DEF Range, Grows, Grow
<1> HIDE DEF q
<1>4. pending' = [pending EXCEPT ![n] = q]
  BY DEF q
<1>5. pending' \in [Node -> Seq(Nat)]
  BY <1>2, <1>4 DEF QueuesHold
<1>6. \A m \in Node : Len(pending'[m]) <= QueueCap /\ Range(pending'[m]) \subseteq DOMAIN log'[m]
  BY <1>2, <1>3, <1>4 DEF QueuesHold, Grows, Grow
<1>7. QED
  BY <1>5, <1>6 DEF QueuesHold

-----------------------------------------------------------------------------
(* The operations.                                                         *)
LEMMA LocalUpdateKeeps ==
  ASSUME GossipInvariant, NEW n \in Node, NEW u \in Update, LocalUpdate(n, u)
  PROVE  GossipInvariant'
<1> DEFINE l == Append(log[n], u)
<1>1. log[n] \in Seq(Update) /\ Fits(n, log[n], {}) /\ Len(log[n]) \in Nat
      /\ DOMAIN log[n] = 1..Len(log[n])
  BY DEF GossipInvariant, LogsFit
<1>2. u \in Wanted(n)
  BY GossipAssumption DEF LocalUpdate, Wanted, checkSubscription
<1>3. Met(u, log[n], {})
  BY DEF LocalUpdate, Met
<1>4. /\ l \in Seq(Update) /\ Fits(n, l, {}) /\ Range(l) = Range(log[n]) \cup {u}
      /\ DOMAIN l = 1..(Len(log[n]) + 1)
  <2>1. Longer(l, log[n], u)
    BY DEF Longer
  <2>2. u \notin Range(log[n])
    BY DEF LocalUpdate
  <2> HIDE DEF l
  <2>3. QED
    BY <1>1, <1>2, <1>3, <2>1, <2>2, AppendFits
<1> HIDE DEF l
<1>5. log' = [log EXCEPT ![n] = l]
  BY DEF LocalUpdate, l
<1>6. DOMAIN log[n] \subseteq DOMAIN l
  BY <1>1, <1>4
<1>7. LogsFit' /\ Grows
  BY <1>4, <1>5, <1>6, LogGrows DEF GossipInvariant
<1>8. QueuesHold'
  <2>1. CASE UNCHANGED pending
    BY <1>7, <2>1, QueuesKept DEF GossipInvariant
  <2>2. CASE Trigger[n] = "update"
    <3>1. log'[n] = l
      BY <1>5 DEF GossipInvariant, LogsFit
    <3>2. Len(log[n]) + 1 \in Nat /\ Len(log[n]) + 1 \in DOMAIN log'[n]
      BY <1>1, <1>4, <3>1
    <3>3. QED
      BY <1>7, <2>2, <3>2, QueueTakes DEF GossipInvariant, LocalUpdate
  <2>3. QED
    BY <2>1, <2>2 DEF LocalUpdate
<1>9. PushesSound' /\ CountsHold'
  BY <1>7, FewerSound DEF LocalUpdate, GossipInvariant, CountsHold
<1>10. QED
  BY <1>7, <1>8, <1>9 DEF GossipInvariant

(* A push starts with a log of the sender, or the part of it up to some    *)
(* update, to peers that subscribe to its last update.                     *)
LEMMA PushCycleKeeps ==
  ASSUME GossipInvariant, NEW n \in Node, NEW prefix \in Seq(Update), prefix # << >>,
         Fits(n, prefix, {}), Range(prefix) \subseteq Range(log[n]),
         PushCycle(n, prefix), UNCHANGED log
  PROVE  PushesSound'
<1>1. PICK S \in SelectPeers(n, Last(prefix)) :
        pushes' = pushes \cup {PushTo(n, m, prefix) : m \in S}
  BY DEF PushCycle
<1>2. Last(prefix) \in Update
  BY FrontLast
<1>3. ASSUME NEW m \in S
      PROVE  PushTo(n, m, prefix) \in Push /\ PushSound(PushTo(n, m, prefix))'
  <2>1. m \in Node /\ Last(prefix) \in Wanted(m)
    BY <1>2 DEF SelectPeers, Subscribed, Wanted
  <2>2. PICK x : x = PushTo(n, m, prefix)
    OBVIOUS
  <2>3. /\ x.from = n /\ x.to = m /\ x.log = prefix /\ x.pc = "dial"
        /\ x.missing = << >> /\ x.reply = << >> /\ x.cut = FALSE
    BY <2>2 DEF PushTo
  <2>4. x \in Push
    BY <2>1, <2>2 DEF Push, PushTo
  <2>5. PushSound(x)'
    BY <2>1, <2>3, FitsEmpty DEF PushSound
  <2>6. QED
    BY <2>2, <2>4, <2>5
<1>4. Grows
  BY LogKept DEF GossipInvariant
<1>5. \A z \in pushes' : z \in Push /\ PushSound(z)'
  BY <1>1, <1>3, <1>4, PushesKept DEF GossipInvariant
<1>6. QED
  BY <1>5 DEF PushesSound

LEMMA PushPendingKeeps ==
  ASSUME GossipInvariant, NEW n \in Node, PushPending(n)
  PROVE  GossipInvariant'
<1> DEFINE q == pending[n]
           prefix == SubSeq(log[n], 1, Head(q))
<1>1. LogsFit' /\ Grows /\ UNCHANGED log
  BY LogKept DEF PushPending, GossipInvariant
<1>2. log[n] \in Seq(Update) /\ Fits(n, log[n], {}) /\ DOMAIN log[n] = 1..Len(log[n])
  BY DEF GossipInvariant, LogsFit
<1>3. q \in Seq(Nat) /\ q # << >> /\ Range(q) \subseteq DOMAIN log[n] /\ Len(q) <= QueueCap
  BY DEF GossipInvariant, QueuesHold, PushPending
<1>4. 1 \in DOMAIN q /\ Head(q) = q[1]
  BY <1>3
<1>5. Head(q) \in 1..Len(log[n])
  BY <1>2, <1>3, <1>4 DEF Range
<1>6. /\ prefix \in Seq(Update) /\ prefix # << >>
      /\ Fits(n, prefix, {}) /\ Range(prefix) \subseteq Range(log[n])
  <2> DEFINE k == Head(q)
  <2>1. k \in 0..Len(log[n]) /\ k # 0
    BY <1>2, <1>5
  <2>2. prefix = SubSeq(log[n], 1, k)
    OBVIOUS
  <2> HIDE DEF k, q, prefix
  <2>3. /\ SubSeq(log[n], 1, k) \in Seq(Update) /\ Len(SubSeq(log[n], 1, k)) = k
        /\ Fits(n, SubSeq(log[n], 1, k), {})
        /\ Range(SubSeq(log[n], 1, k)) \subseteq Range(log[n])
    BY <1>2, <2>1, PrefixFits
  <2>4. Len(prefix) # 0
    BY <2>1, <2>2, <2>3
  <2>5. QED
    BY <2>2, <2>3, <2>4
<1>7. PushCycle(n, prefix)
  BY DEF PushPending
<1> HIDE DEF prefix
<1>8. PushesSound'
  BY <1>1, <1>6, <1>7, PushCycleKeeps
<1>9. QueuesHold'
  <2>1. /\ Tail(q) \in Seq(Nat) /\ Len(Tail(q)) <= QueueCap
        /\ \A i \in DOMAIN Tail(q) : i + 1 \in DOMAIN q /\ Tail(q)[i] = q[i + 1]
    BY <1>3, GossipAssumption
  <2>2. Range(Tail(q)) \subseteq DOMAIN log[n]
    BY <1>3, <2>1 DEF Range
  <2>3. pending' = [pending EXCEPT ![n] = Tail(q)]
    BY DEF PushPending
  <2> HIDE DEF q
  <2>4. pending' \in [Node -> Seq(Nat)]
    BY <2>1, <2>3 DEF GossipInvariant, QueuesHold
  <2>5. \A m \in Node : Len(pending'[m]) <= QueueCap /\ Range(pending'[m]) \subseteq DOMAIN log[m]
    BY <2>1, <2>2, <2>3 DEF GossipInvariant, QueuesHold
  <2>6. QED
    BY <1>1, <2>4, <2>5 DEF QueuesHold
<1>10. CountsHold'
  BY DEF PushPending, GossipInvariant, CountsHold
<1>11. QED
  BY <1>1, <1>8, <1>9, <1>10 DEF GossipInvariant

LEMMA PushIntervalKeeps ==
  ASSUME GossipInvariant, NEW n \in Node, PushInterval(n)
  PROVE  GossipInvariant'
<1>1. LogsFit' /\ Grows /\ UNCHANGED log
  BY LogKept DEF PushInterval, GossipInvariant
<1>2. log[n] \in Seq(Update) /\ Fits(n, log[n], {})
  BY DEF GossipInvariant, LogsFit
<1>3. PushesSound'
  BY <1>1, <1>2, PushCycleKeeps DEF PushInterval
<1>4. QueuesHold' /\ CountsHold'
  BY <1>1, QueuesKept DEF PushInterval, GossipInvariant, CountsHold
<1>5. QED
  BY <1>1, <1>3, <1>4 DEF GossipInvariant

LEMMA CheckMissingKeeps ==
  ASSUME GossipInvariant, NEW x \in pushes, CheckMissing(x)
  PROVE  GossipInvariant'
<1> DEFINE to == x.to
           front == Front(x.log)
           known == Range(log[to])
           keep == Wanted(to) \ known
<1>1. /\ x \in Push /\ PushSound(x) /\ x.pc = "dial" /\ to \in Node /\ x.log \in Seq(Update)
      /\ x.log # << >> /\ LogsFit' /\ Grows /\ UNCHANGED log
  BY LogKept DEF GossipInvariant, PushesSound, CheckMissing, Push
<1>2. PICK y : y = [x EXCEPT !.pc = "merge", !.missing = Missing(x)]
  OBVIOUS
<1>3. /\ front \in Seq(Update) /\ IsInjective(front) /\ Causal(front, {})
  BY <1>1, FrontLast DEF PushSound, Fits
<1>4. Causal(front, known)
  BY <1>3 DEF Causal
<1>5. y.missing = Selected(front, keep)
  BY <1>1, <1>2 DEF Missing, New, Front, Wanted, Push
<1>6. /\ y.missing \in Seq(Update) /\ Fits(to, y.missing, known)
      /\ Range(y.missing) = Range(front) \cap keep
  <2> DEFINE t == y.missing
  <2>1. keep = Wanted(to) \ known /\ t = Selected(front, keep)
    BY <1>5
  <2> HIDE DEF to, front, keep, known, t
  <2>2. t \in Seq(Update) /\ Fits(to, t, known) /\ Range(t) = Range(front) \cap keep
    BY <1>1, <1>3, <1>4, <2>1, SelectedWanted
  <2>3. QED
    BY <2>2 DEF t
<1>7. y \in Push
  BY <1>1, <1>2, <1>6 DEF Push
<1>8. /\ y.from = x.from /\ y.to = x.to /\ y.log = x.log /\ y.pc = "merge"
      /\ y.reply = x.reply /\ y.cut = x.cut
  BY <1>1, <1>2 DEF Push
<1>9. PushSound(y)'
  <2>1. /\ Range(y.missing) \subseteq Range(front)
        /\ Range(front) \cap Wanted(to) \subseteq known \cup Range(y.missing)
    BY <1>6
  <2>2. QED
    BY <1>1, <1>6, <1>8, <2>1 DEF PushSound
<1>10. PushesSound'
  BY <1>1, <1>2, <1>7, <1>9, StepSound DEF CheckMissing, GossipInvariant
<1>11. QED
  BY <1>1, <1>10, QueuesKept DEF CheckMissing, GossipInvariant, CountsHold

(* Of what the last update of a log needs, the peer has or asks for all.   *)
LEMMA LastNeeds ==
  ASSUME NEW x \in Push, PushSound(x), x.pc = "merge"
  PROVE  /\ Last(x.log) \in Update /\ Last(x.log) \notin Range(x.missing)
         /\ Range(x.log) = Range(Front(x.log)) \cup {Last(x.log)}
         /\ Needs[Last(x.log)] \subseteq Range(log[x.to]) \cup Range(x.missing)
<1>1. /\ x.log \in Seq(Update) /\ x.log # << >> /\ Fits(x.from, x.log, {}) /\ x.to \in Node
      /\ Last(x.log) \in Wanted(x.to)
  BY DEF Push, PushSound
<1>2. /\ Last(x.log) \in Update
      /\ Range(x.log) = Range(Front(x.log)) \cup {Last(x.log)}
      /\ Last(x.log) \notin Range(Front(x.log))
      /\ Needs[Last(x.log)] \subseteq Range(Front(x.log))
  BY <1>1, FrontLast
<1>3. Needs[Last(x.log)] \subseteq Wanted(x.to)
  BY <1>1, GossipAssumption DEF Wanted, checkSubscription
<1>4. QED
  BY <1>2, <1>3 DEF PushSound

LEMMA MergePushedKeeps ==
  ASSUME GossipInvariant, NEW x \in pushes, MergePushed(x)
  PROVE  GossipInvariant'
<1> DEFINE u == Last(x.log)
<1>1. /\ x \in Push /\ PushSound(x) /\ x.pc = "merge" /\ x.to \in Node
      /\ x.missing \in Seq(Update) /\ u \in Wanted(x.to)
  BY DEF GossipInvariant, PushesSound, MergePushed, Push, PushSound
<1>2. /\ u \in Update /\ u \notin Range(x.missing)
      /\ Range(x.log) = Range(Front(x.log)) \cup {u}
      /\ Needs[u] \subseteq Range(log[x.to]) \cup Range(x.missing)
  BY <1>1, LastNeeds
<1> HIDE DEF u
<1>3. CASE x.missing # << >>
  <2>1. PICK y : y = [x EXCEPT !.pc = "pull", !.missing = Append(@, u)]
    OBVIOUS
  <2>2. Step(x, y) /\ LogsFit' /\ Grows /\ UNCHANGED log
    BY <1>3, <2>1, LogKept DEF MergePushed, GossipInvariant, u
  <2>3. /\ y.from = x.from /\ y.to = x.to /\ y.log = x.log /\ y.pc = "pull"
        /\ y.reply = x.reply /\ y.cut = x.cut /\ y.missing = Append(x.missing, u)
    BY <1>1, <2>1 DEF Push
  <2>4. /\ y.missing \in Seq(Update) /\ Fits(x.to, y.missing, Range(log[x.to]))
        /\ Range(y.missing) = Range(x.missing) \cup {u}
    <3> DEFINE s == x.missing
               v == y.missing
               known == Range(log[x.to])
    <3>1. /\ s \in Seq(Update) /\ u \in Update /\ u \in Wanted(x.to) /\ u \notin Range(s)
          /\ Fits(x.to, s, known) /\ Met(u, s, known) /\ Longer(v, s, u)
      BY <1>1, <1>2, <2>3 DEF PushSound, Met, Longer
    <3> HIDE DEF s, v, known
    <3>2. v \in Seq(Update) /\ Fits(x.to, v, known) /\ Range(v) = Range(s) \cup {u}
      BY <3>1, AppendFits
    <3>3. QED
      BY <3>2 DEF s, v, known
  <2>5. y \in Push
    BY <1>1, <2>1, <2>3, <2>4 DEF Push
  <2>6. PushSound(y)'
    BY <1>1, <1>2, <2>2, <2>3, <2>4 DEF PushSound, u
  <2>7. PushesSound'
    BY <2>2, <2>5, <2>6, StepSound DEF GossipInvariant
  <2>8. QED
    BY <2>2, <2>7, QueuesKept DEF MergePushed, GossipInvariant, CountsHold
<1>4. CASE x.missing = << >>
  <2>1. PICK y : y = [x EXCEPT !.pc = IF log'[x.to] # log[x.to] THEN "queue" ELSE "pull"]
    OBVIOUS
  <2>2. Step(x, y) /\ log' = [log EXCEPT ![x.to] = Merged(x.to, <<u>>)]
    BY <1>4, <2>1 DEF MergePushed, u
  <2>3. /\ y.from = x.from /\ y.to = x.to /\ y.log = x.log /\ y.pc \in {"queue", "pull"}
        /\ y.reply = x.reply /\ y.cut = x.cut /\ y.missing = x.missing /\ y \in Push
    BY <1>1, <2>1 DEF Push
  <2>4. Needs[u] \subseteq Range(log[x.to])
    BY <1>2, <1>4, FitsEmpty
  <2>5. /\ <<u>> \in Seq(Update) /\ IsInjective(<<u>>) /\ Causal(<<u>>, Range(log[x.to]))
        /\ Range(<<u>>) = {u}
    BY <1>2, <2>4, SingleFits
  <2>6. /\ LogsFit' /\ Grows
        /\ Range(log'[x.to]) = Range(log[x.to]) \cup (Range(<<u>>) \cap Wanted(x.to))
    <3> DEFINE one == <<u>>
    <3>1. /\ log' = [log EXCEPT ![x.to] = Merged(x.to, one)]
          /\ one \in Seq(Update) /\ IsInjective(one) /\ Causal(one, Range(log[x.to]))
      BY <2>2, <2>5
    <3> HIDE DEF one
    <3>2. /\ LogsFit' /\ Grows
          /\ Range(log'[x.to]) = Range(log[x.to]) \cup (Range(one) \cap Wanted(x.to))
      BY <1>1, <3>1, MergeGrows DEF GossipInvariant
    <3>3. QED
      BY <3>2 DEF one
  <2>7. PushSound(x)'
    BY <2>6, PushesKept DEF GossipInvariant
  <2>8. Range(x.log) \cap Wanted(x.to) \subseteq Range(log'[x.to]) \cup Range(x.missing)
    BY <1>1, <1>2, <2>5, <2>6 DEF PushSound
  <2>9. Last(x.log) \in Range(log'[x.to])
    BY <1>1, <2>5, <2>6 DEF u
  <2>10. PushSound(y)'
    BY <2>3, <2>7, <2>8, <2>9 DEF PushSound
  <2>11. PushesSound'
    BY <2>2, <2>3, <2>6, <2>10, StepSound DEF GossipInvariant
  <2>12. QED
    BY <2>6, <2>11, QueuesKept DEF MergePushed, GossipInvariant, CountsHold
<1>5. QED
  BY <1>3, <1>4

LEMMA QueuePushedKeeps ==
  ASSUME GossipInvariant, NEW x \in pushes, QueuePushed(x)
  PROVE  GossipInvariant'
<1>1. /\ x \in Push /\ PushSound(x) /\ x.pc = "queue" /\ x.to \in Node
      /\ LogsFit' /\ Grows /\ UNCHANGED log
  BY LogKept DEF GossipInvariant, PushesSound, QueuePushed, Push
<1>2. PICK y : y = [x EXCEPT !.pc = "pull"]
  OBVIOUS
<1>3. /\ y.from = x.from /\ y.to = x.to /\ y.log = x.log /\ y.pc = "pull"
      /\ y.reply = x.reply /\ y.cut = x.cut /\ y.missing = x.missing /\ y \in Push
  BY <1>1, <1>2 DEF Push
<1>4. PushSound(y)'
  BY <1>1, <1>3 DEF PushSound
<1>5. PushesSound'
  BY <1>1, <1>2, <1>3, <1>4, StepSound DEF QueuePushed, GossipInvariant
<1>6. QueuesHold'
  <2> DEFINE k == Len(log[x.to])
  <2>1. log[x.to] \in Seq(Update) /\ log[x.to] # << >>
    BY <1>1, FitsEmpty DEF GossipInvariant, LogsFit, PushSound
  <2>2. k \in Nat /\ k \in DOMAIN log'[x.to]
    BY <1>1, <2>1
  <2>3. pending' = [pending EXCEPT ![x.to] = Append(@, k)] /\ Len(pending[x.to]) < QueueCap
    BY DEF QueuePushed
  <2> HIDE DEF k
  <2>4. QED
    BY <1>1, <2>2, <2>3, QueueTakes DEF GossipInvariant
<1>7. QED
  BY <1>1, <1>5, <1>6 DEF QueuePushed, GossipInvariant, CountsHold

LEMMA PullKeeps ==
  ASSUME GossipInvariant, NEW x \in pushes, Pull(x)
  PROVE  GossipInvariant'
<1> DEFINE known == Range(x.log)
           keep == Wanted(x.from) \ known
           s == log[x.to]
<1>1. /\ x \in Push /\ PushSound(x) /\ x.pc = "pull" /\ x.to \in Node /\ x.from \in Node
      /\ LogsFit' /\ Grows /\ UNCHANGED log
  BY LogKept DEF GossipInvariant, PushesSound, Pull, Push
<1>2. PICK y : y = [x EXCEPT !.pc = "reply", !.reply = Pulled(x)]
  OBVIOUS
<1>3. /\ y.from = x.from /\ y.to = x.to /\ y.log = x.log /\ y.pc = "reply"
      /\ y.cut = x.cut /\ y.missing = x.missing /\ y.reply = Selected(s, keep)
  BY <1>1, <1>2 DEF Push, Pulled, Wanted
<1>4. s \in Seq(Update) /\ IsInjective(s) /\ Causal(s, known)
  BY <1>1 DEF GossipInvariant, LogsFit, Fits, Causal
<1>5. y.reply \in Seq(Update) /\ Fits(x.from, y.reply, known)
  <2> DEFINE t == y.reply
  <2>1. keep = Wanted(x.from) \ known /\ t = Selected(s, keep)
    BY <1>3
  <2> HIDE DEF s, keep, known, t
  <2>2. t \in Seq(Update) /\ Fits(x.from, t, known)
    BY <1>1, <1>4, <2>1, SelectedWanted
  <2>3. QED
    BY <2>2 DEF t
<1>6. y \in Push
  BY <1>1, <1>2, <1>5 DEF Push
<1>7. PushSound(y)'
  BY <1>1, <1>3, <1>5 DEF PushSound
<1>8. PushesSound'
  BY <1>1, <1>2, <1>6, <1>7, StepSound DEF Pull, GossipInvariant
<1>9. QED
  BY <1>1, <1>8, QueuesKept DEF Pull, GossipInvariant, CountsHold

LEMMA TakeReplyKeeps ==
  ASSUME GossipInvariant, NEW x \in pushes, TakeReply(x)
  PROVE  GossipInvariant'
<1>1. /\ x \in Push /\ PushSound(x) /\ x.pc = "reply" /\ x.from \in Node /\ x.to \in Node
      /\ x.reply \in Seq(Update) /\ x.log \in Seq(Update) /\ ~x.cut
      /\ log' = [log EXCEPT ![x.from] = Merged(x.from, x.reply)]
  BY DEF GossipInvariant, PushesSound, TakeReply, Push
<1>2. PICK y : y = [x EXCEPT !.pc = IF x.missing = << >> THEN "done" ELSE "retransmit"]
  OBVIOUS
<1>3. /\ y.from = x.from /\ y.to = x.to /\ y.log = x.log
      /\ y.pc = IF x.missing = << >> THEN "done" ELSE "retransmit"
      /\ y.reply = x.reply /\ y.cut = x.cut /\ y.missing = x.missing /\ y \in Push
  BY <1>1, <1>2 DEF Push
<1>4. IsInjective(x.reply) /\ Causal(x.reply, Range(log[x.from]))
  BY <1>1 DEF PushSound, Fits, Causal
<1>5. LogsFit' /\ Grows /\ Knows(x.from, x.reply)'
  BY <1>1, <1>4, MergeGrows DEF GossipInvariant
<1>6. PushSound(x)'
  BY <1>5, PushesKept DEF GossipInvariant
<1>7. x.missing = << >> => Knows(x.to, x.log)'
  <2> SUFFICES ASSUME x.missing = << >>, NEW u \in Range(x.log), checkSubscription(x.to, u)
               PROVE  u \in Range(log'[x.to])
    BY DEF Knows
  <2>1. u \in Wanted(x.to)
    BY <1>1, RangeSeq DEF Wanted
  <2>2. Range(x.missing) = {}
    BY FitsEmpty
  <2>3. QED
    BY <1>1, <1>6, <2>1, <2>2 DEF PushSound
<1>8. PushSound(y)'
  BY <1>1, <1>3, <1>5, <1>6, <1>7 DEF PushSound
<1>9. PushesSound'
  BY <1>2, <1>3, <1>5, <1>8, StepSound DEF TakeReply, GossipInvariant
<1>10. QED
  BY <1>5, <1>9, QueuesKept DEF TakeReply, GossipInvariant, CountsHold

LEMMA RetransmitKeeps ==
  ASSUME GossipInvariant, NEW x \in pushes, Retransmit(x)
  PROVE  GossipInvariant'
<1>1. /\ x \in Push /\ PushSound(x) /\ x.pc = "retransmit" /\ x.to \in Node
      /\ x.missing \in Seq(Update) /\ x.log \in Seq(Update)
      /\ log' = [log EXCEPT ![x.to] = Merged(x.to, x.missing)]
  BY DEF GossipInvariant, PushesSound, Retransmit, Push
<1>2. PICK y : y = [x EXCEPT !.pc = "done"]
  OBVIOUS
<1>3. /\ y.from = x.from /\ y.to = x.to /\ y.log = x.log /\ y.pc = "done"
      /\ y.reply = x.reply /\ y.cut = x.cut /\ y.missing = x.missing /\ y \in Push
  BY <1>1, <1>2 DEF Push
<1>4. IsInjective(x.missing) /\ Causal(x.missing, Range(log[x.to]))
  BY <1>1 DEF PushSound, Fits
<1>5. LogsFit' /\ Grows /\ Knows(x.to, x.missing)'
  BY <1>1, <1>4, MergeGrows DEF GossipInvariant
<1>6. PushSound(x)'
  BY <1>5, PushesKept DEF GossipInvariant
<1>7. Knows(x.to, x.log)'
  <2> SUFFICES ASSUME NEW u \in Range(x.log), checkSubscription(x.to, u)
               PROVE  u \in Range(log'[x.to])
    BY DEF Knows
  <2>1. u \in Wanted(x.to)
    BY <1>1, RangeSeq DEF Wanted
  <2>2. u \in Range(log'[x.to]) \/ u \in Range(x.missing)
    BY <1>1, <1>6, <2>1 DEF PushSound
  <2>3. QED
    BY <1>5, <2>2 DEF Knows
<1>8. PushSound(y)'
  BY <1>1, <1>3, <1>6, <1>7 DEF PushSound
<1>9. PushesSound'
  BY <1>2, <1>3, <1>5, <1>8, StepSound DEF Retransmit, GossipInvariant
<1>10. QED
  BY <1>5, <1>9, QueuesKept DEF Retransmit, GossipInvariant, CountsHold

LEMMA EndKeeps ==
  ASSUME GossipInvariant, NEW x \in pushes, End(x)
  PROVE  GossipInvariant'
<1>1. LogsFit' /\ Grows
  BY LogKept DEF End, GossipInvariant
<1>2. PushesSound'
  BY <1>1, FewerSound DEF End, GossipInvariant
<1>3. QED
  BY <1>1, <1>2, QueuesKept DEF End, GossipInvariant, CountsHold

LEMMA FailKeeps ==
  ASSUME GossipInvariant, NEW x \in pushes, Fail(x)
  PROVE  GossipInvariant'
<1>1. LogsFit' /\ Grows
  BY LogKept DEF Fail, GossipInvariant
<1>2. PushesSound'
  <2>1. CASE pushes' = pushes \ {x}
    BY <1>1, <2>1, FewerSound DEF GossipInvariant
  <2>2. CASE InHandler(x) /\ Step(x, [x EXCEPT !.cut = TRUE])
    <3>1. PICK y : y = [x EXCEPT !.cut = TRUE]
      OBVIOUS
    <3>2. x \in Push /\ PushSound(x)'
      BY <1>1, PushesKept DEF GossipInvariant
    <3>3. /\ y.from = x.from /\ y.to = x.to /\ y.log = x.log /\ y.pc = x.pc
          /\ y.reply = x.reply /\ y.cut = TRUE /\ y.missing = x.missing /\ y \in Push
      BY <3>1, <3>2 DEF Push
    <3>4. PushSound(y)'
      BY <3>2, <3>3 DEF PushSound
    <3>5. QED
      BY <1>1, <2>2, <3>1, <3>3, <3>4, StepSound DEF GossipInvariant
  <2>3. QED
    BY <2>1, <2>2 DEF Fail
<1>3. QueuesHold'
  BY <1>1, QueuesKept DEF Fail, GossipInvariant
<1>4. CountsHold'
  BY GossipAssumption DEF Fail, GossipInvariant, CountsHold
<1>5. QED
  BY <1>1, <1>2, <1>3, <1>4 DEF GossipInvariant

(* What a node reads back from its disk is in an order that fits: what it  *)
(* has kept needs nothing that it has not kept, and of a kind it is in the *)
(* order of the log.                                                       *)
Kept(S) == S \cup UNION {Needs[u] : u \in S}

LEMMA KeptClosed ==
  ASSUME LogsFit, NEW n \in Node, NEW S \in Survivors(n)
  PROVE  /\ Kept(S) \subseteq Range(log[n]) /\ Kept(S) \subseteq Wanted(n)
         /\ \A u \in Kept(S) : Needs[u] \subseteq Kept(S)
<1>1. log[n] \in Seq(Update) /\ Fits(n, log[n], {})
  BY DEF LogsFit
<1>2. \A u \in Range(log[n]) : Needs[u] \subseteq Range(log[n])
  <2> SUFFICES ASSUME NEW i \in DOMAIN log[n], NEW v \in Needs[log[n][i]]
               PROVE  v \in Range(log[n])
    BY DEF Range
  <2>1. QED
    BY <1>1 DEF Fits, Causal, Range
<1>3. S \subseteq Range(log[n])
  BY DEF Survivors
<1>4. Kept(S) \subseteq Range(log[n])
  BY <1>2, <1>3 DEF Kept
<1>5. Kept(S) \subseteq Wanted(n)
  BY <1>1, <1>4 DEF Fits
<1>6. ASSUME NEW u \in Kept(S) PROVE Needs[u] \subseteq Kept(S)
  <2>1. CASE u \in S
    BY <2>1 DEF Kept
  <2>2. CASE u \notin S
    <3>1. PICK v \in S : u \in Needs[v]
      BY <2>2 DEF Kept
    <3>2. Kind[u] = "txn"
      BY <2>2, <3>1 DEF Survivors
    <3>3. u \in Update
      BY <1>5 DEF Wanted
    <3>4. Needs[u] = {}
      BY <3>2, <3>3, GossipAssumption
    <3>5. QED
      BY <3>4
  <2>3. QED
    BY <2>1, <2>2
<1>7. QED
  BY <1>4, <1>5, <1>6

LEMMA StoredFits ==
  ASSUME LogsFit, NEW n \in Node, NEW S \in Survivors(n)
  PROVE  Stored(n, S) \in Seq(Update) /\ Fits(n, Stored(n, S), {})
<1> DEFINE OfKind(k) == {u \in Kept(S) : Kind[u] = k}
           s == log[n]
           txns == Selected(s, OfKind("txn"))
           blks == Selected(s, OfKind("block"))
           nodes == Selected(s, OfKind("node"))
           first == txns \o blks
           all == first \o nodes
<1>1. s \in Seq(Update) /\ IsInjective(s) /\ Causal(s, {})
  BY DEF LogsFit, Fits
<1>2. /\ Kept(S) \subseteq Range(s) /\ Kept(S) \subseteq Wanted(n)
      /\ \A u \in Kept(S) : Needs[u] \subseteq Kept(S)
  BY KeptClosed
<1>3. \A u \in Kept(S) :
        /\ Kind[u] # "block" => Needs[u] = {}
        /\ \A v \in Needs[u] : Kind[v] = "txn" \/ Kind[v] = "block"
  BY <1>2, GossipAssumption DEF Wanted
<1>4. ASSUME NEW k, NEW known, Closed(n, OfKind(k), known)
      PROVE  /\ Selected(s, OfKind(k)) \in Seq(Update)
             /\ Fits(n, Selected(s, OfKind(k)), known)
             /\ Range(Selected(s, OfKind(k))) = OfKind(k)
  <2> DEFINE keep == OfKind(k)
             t == Selected(s, keep)
  <2>1. Closed(n, keep, known) /\ keep \subseteq Range(s) /\ Causal(s, known)
    BY <1>1, <1>2, <1>4 DEF Causal
  <2> HIDE DEF keep, s
  <2>2. t \in Seq(Update) /\ Fits(n, t, known) /\ Range(t) = Range(s) \cap keep
    BY <1>1, <2>1, SelectedFits
  <2>3. Range(t) = keep
    BY <2>1, <2>2
  <2>4. QED
    BY <2>2, <2>3 DEF keep
<1>5. txns \in Seq(Update) /\ Fits(n, txns, {}) /\ Range(txns) = OfKind("txn")
  <2>1. Closed(n, OfKind("txn"), {})
    BY <1>2, <1>3 DEF Closed
  <2> HIDE DEF OfKind, s
  <2>2. QED
    BY <1>4, <2>1
<1>6. blks \in Seq(Update) /\ Fits(n, blks, Range(txns)) /\ Range(blks) = OfKind("block")
  <2>1. Closed(n, OfKind("block"), Range(txns))
    <3> HIDE DEF txns
    <3>1. QED
      BY <1>2, <1>3, <1>5 DEF Closed
  <2> HIDE DEF OfKind, s, txns
  <2>2. QED
    BY <1>4, <2>1
<1>7. nodes \in Seq(Update) /\ Fits(n, nodes, Range(first)) /\ Range(nodes) = OfKind("node")
  <2>1. Closed(n, OfKind("node"), Range(first))
    <3> HIDE DEF first
    <3>1. QED
      BY <1>2, <1>3 DEF Closed
  <2> HIDE DEF OfKind, s, first
  <2>2. QED
    BY <1>4, <2>1
<1>8. first \in Seq(Update) /\ Fits(n, first, {}) /\ Range(first) = Range(txns) \cup Range(blks)
  <2>1. Range(txns) \cap Range(blks) = {}
    <3> HIDE DEF txns, blks
    <3>1. QED
      BY <1>5, <1>6
  <2> HIDE DEF txns, blks
  <2>2. Fits(n, blks, {} \cup Range(txns))
    BY <1>6, FitsMore
  <2>3. first \in Seq(Update) /\ Joins(first, txns, blks)
    BY <1>5, <1>6, ConcatJoins
  <2>4. txns \in Seq(Update) /\ blks \in Seq(Update) /\ Fits(n, txns, {})
    BY <1>5, <1>6
  <2> HIDE DEF first, OfKind
  <2>5. QED
    BY <2>1, <2>2, <2>3, <2>4, ConcatFits
<1>9. all \in Seq(Update) /\ Fits(n, all, {})
  <2>1. Range(first) \cap Range(nodes) = {}
    <3> HIDE DEF txns, blks, nodes, first
    <3>1. QED
      BY <1>5, <1>6, <1>7, <1>8
  <2> HIDE DEF nodes, first
  <2>2. Fits(n, nodes, {} \cup Range(first))
    BY <1>7, FitsMore
  <2>3. all \in Seq(Update) /\ Joins(all, first, nodes)
    BY <1>7, <1>8, ConcatJoins
  <2> HIDE DEF all
  <2>4. QED
    BY <1>7, <1>8, <2>1, <2>2, <2>3, ConcatFits
<1>10. Stored(n, S) = all
  BY DEF Stored, Kept
<1> HIDE DEF all
<1>11. QED
  BY <1>9, <1>10

(* A restart loses what the disk does not hold, and every push of the node *)
(* that is not cut off from it.                                            *)
LEMMA RestartKeeps ==
  ASSUME GossipInvariant, NEW n \in Node, Restart(n)
  PROVE  GossipInvariant'
<1>1. PICK S \in Survivors(n) : log' = [log EXCEPT ![n] = Stored(n, S)]
  BY DEF Restart
<1>2. /\ Stored(n, S) \in Seq(Update) /\ Fits(n, Stored(n, S), {})
      /\ log'[n] = Stored(n, S) /\ \A m \in Node \ {n} : log'[m] = log[m]
  BY <1>1, StoredFits DEF GossipInvariant, LogsFit
<1>3. LogsFit'
  BY <1>1, <1>2 DEF GossipInvariant, LogsFit
<1>4. QueuesHold'
  <2>1. pending' = [pending EXCEPT ![n] = << >>]
    BY DEF Restart
  <2>2. << >> \in Seq(Nat) /\ Len(<< >>) <= QueueCap /\ Range(<< >>) = {}
    BY GossipAssumption DEF Range
  <2>3. pending' \in [Node -> Seq(Nat)]
    BY <2>1, <2>2 DEF GossipInvariant, QueuesHold
  <2>4. ASSUME NEW m \in Node
        PROVE  Len(pending'[m]) <= QueueCap /\ Range(pending'[m]) \subseteq DOMAIN log'[m]
    <3>1. CASE m = n
      BY <2>1, <2>2, <3>1 DEF GossipInvariant, QueuesHold
    <3>2. CASE m # n
      BY <1>2, <2>1, <3>2 DEF GossipInvariant, QueuesHold
    <3>3. QED
      BY <3>1, <3>2
  <2>5. QED
    BY <2>3, <2>4 DEF QueuesHold
<1>5. PushesSound'
  <2>1. ASSUME NEW x \in pushes, n \notin {x.from, x.to}
        PROVE  x \in Push /\ PushSound(x)'
    <3>1. x \in Push /\ PushSound(x)
      BY DEF GossipInvariant, PushesSound
    <3>2. log'[x.from] = log[x.from] /\ log'[x.to] = log[x.to]
      BY <1>2, <2>1, <3>1 DEF Push
    <3>3. QED
      BY <3>1, <3>2, PushKept
  <2>2. ASSUME NEW x \in pushes, x.from = n, x.to # n, InHandler(x) \/ x.pc \in {"dial", "reply"}
        PROVE  [x EXCEPT !.cut = TRUE] \in Push /\ PushSound([x EXCEPT !.cut = TRUE])'
    <3>1. x \in Push /\ PushSound(x)
      BY DEF GossipInvariant, PushesSound
    <3>2. PICK y : y = [x EXCEPT !.cut = TRUE]
      OBVIOUS
    <3>3. /\ y.from = x.from /\ y.to = x.to /\ y.log = x.log /\ y.pc = x.pc
          /\ y.reply = x.reply /\ y.cut = TRUE /\ y.missing = x.missing /\ y \in Push
      BY <3>1, <3>2 DEF Push
    <3>4. PushSound(y)
      BY <3>1, <3>3 DEF PushSound
    <3>5. y.cut /\ y.pc \notin {"retransmit", "done"} /\ log'[y.to] = log[y.to]
      BY <1>2, <2>2, <3>1, <3>3 DEF InHandler, Push
    <3>6. PushSound(y)'
      BY <3>3, <3>4, <3>5, PushKept
    <3>7. QED
      BY <3>2, <3>3, <3>6
  <2>3. \A z \in pushes' :
          \/ \E x \in pushes : n \notin {x.from, x.to} /\ z = x
          \/ \E x \in pushes : /\ x.from = n /\ x.to # n
                               /\ InHandler(x) \/ x.pc \in {"dial", "reply"}
                               /\ z = [x EXCEPT !.cut = TRUE]
    BY DEF Restart
  <2>4. \A z \in pushes' : z \in Push /\ PushSound(z)'
    BY <2>1, <2>2, <2>3
  <2>5. QED
    BY <2>4 DEF PushesSound
<1>6. CountsHold'
  BY GossipAssumption DEF Restart, GossipInvariant, CountsHold
<1>7. QED
  BY <1>3, <1>4, <1>5, <1>6 DEF GossipInvariant

-----------------------------------------------------------------------------
LEMMA InvariantInit == Init => GossipInvariant
<1> SUFFICES ASSUME Init PROVE GossipInvariant
  OBVIOUS
<1>1. \A n \in Node : Fits(n, << >>, {})
  BY FitsEmpty
<1>2. LogsFit
  BY <1>1 DEF Init, LogsFit
<1>3. QueuesHold
  <2>1. << >> \in Seq(Nat) /\ Len(<< >>) <= QueueCap /\ Range(<< >>) = {}
    BY GossipAssumption DEF Range
  <2>2. QED
    BY <2>1 DEF Init, QueuesHold
<1>4. PushesSound /\ CountsHold
  BY GossipAssumption DEF Init, PushesSound, CountsHold
<1>5. QED
  BY <1>2, <1>3, <1>4 DEF GossipInvariant

LEMMA InvariantNext == GossipInvariant /\ [Next]_vars => GossipInvariant'
<1> SUFFICES ASSUME GossipInvariant, [Next]_vars PROVE GossipInvariant'
  OBVIOUS
<1>1. CASE \E n \in Node, u \in Update : LocalUpdate(n, u)
  BY <1>1, LocalUpdateKeeps
<1>2. CASE \E n \in Node : PushPending(n) \/ PushInterval(n) \/ Restart(n)
  BY <1>2, PushPendingKeeps, PushIntervalKeeps, RestartKeeps
<1>3. ASSUME NEW x \in pushes, Progress(x) \/ Fail(x)
      PROVE  GossipInvariant'
  BY <1>3, CheckMissingKeeps, MergePushedKeeps, QueuePushedKeeps, PullKeeps,
     TakeReplyKeeps, RetransmitKeeps, EndKeeps, FailKeeps DEF Progress
<1>4. CASE UNCHANGED vars
  <2>1. LogsFit' /\ Grows
    BY <1>4, LogKept DEF vars, GossipInvariant
  <2>2. PushesSound'
    BY <1>4, <2>1, FewerSound DEF vars, GossipInvariant
  <2>3. QED
    BY <1>4, <2>1, <2>2, QueuesKept DEF vars, GossipInvariant, CountsHold
<1>5. QED
  BY <1>1, <1>2, <1>3, <1>4 DEF Next

LEMMA InvariantHolds == Spec => []GossipInvariant
BY InvariantInit, InvariantNext, PTL DEF Spec

(* Logs are sequences of updates, queues hold no more than their capacity  *)
(* of prefixes of them, and every push is at a step of its protocol.       *)
THEOREM TypeCorrect == Spec => []TypeOK
<1>1. GossipInvariant => TypeOK
  BY DEF GossipInvariant, LogsFit, QueuesHold, PushesSound, Push, CountsHold, TypeOK
<1>2. QED
  BY <1>1, InvariantHolds, PTL

(* However pushes, answers and retransmissions of any number of nodes      *)
(* interleave, fail and are cut off by restarts, a node learns of every    *)
(* update once, and after what the update needs: gossip hands a miner no   *)
(* block ahead of its parent or of its transactions.                       *)
THEOREM CausalLogHolds == Spec => []CausalLog
<1>1. GossipInvariant => CausalLog
  <2> SUFFICES ASSUME GossipInvariant, NEW n \in Node, NEW i \in DOMAIN log[n]
               PROVE  /\ checkSubscription(n, log[n][i])
                      /\ \A j \in 1..(i - 1) : log[n][j] # log[n][i]
                      /\ \A u \in Needs[log[n][i]] : \E j \in 1..(i - 1) : log[n][j] = u
    BY DEF CausalLog
  <2>1. /\ log[n] \in Seq(Update) /\ Fits(n, log[n], {})
        /\ DOMAIN log[n] = 1..Len(log[n]) /\ Len(log[n]) \in Nat
    BY DEF GossipInvariant, LogsFit
  <2>2. checkSubscription(n, log[n][i])
    BY <2>1 DEF Fits, Range, Wanted
  <2>3. \A j \in 1..(i - 1) : j \in DOMAIN log[n] /\ j # i
    BY <2>1
  <2>4. \A j \in 1..(i - 1) : log[n][j] # log[n][i]
    BY <2>1, <2>3 DEF Fits, IsInjective
  <2>5. ASSUME NEW u \in Needs[log[n][i]]
        PROVE  \E j \in 1..(i - 1) : log[n][j] = u
    <3>1. PICK j \in DOMAIN log[n] : j < i /\ log[n][j] = u
      BY <2>1 DEF Fits, Causal
    <3>2. j \in 1..(i - 1)
      BY <2>1, <3>1
    <3>3. QED
      BY <3>1, <3>2
  <2>6. QED
    BY <2>2, <2>4, <2>5
<1>2. QED
  BY <1>1, InvariantHolds, PTL

(* A push that has ended without failure leaves neither side behind,       *)
(* whatever the two have learnt from others between its steps.             *)
THEOREM PushSyncsHolds == Spec => []PushSyncs
<1>1. GossipInvariant => PushSyncs
  BY DEF GossipInvariant, PushesSound, PushSound, PushSyncs
<1>2. QED
  BY <1>1, InvariantHolds, PTL
=============================================================================
