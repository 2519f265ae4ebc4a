-------------------------- MODULE Confirmed_proofs --------------------------
(***************************************************************************)
(* Theorems about what queries read of the block store: the chain without  *)
(* its last NumConfirmed blocks.                                           *)
(***************************************************************************)
EXTENDS BlockChain_proofs, FiniteSetTheorems, WellFoundedInduction

-----------------------------------------------------------------------------
(* Prefixes of chains.                                                     *)
LEMMA CutFacts ==
  ASSUME NEW S, NEW s \in Seq(S), NEW k \in Int, k <= Len(s)
  PROVE  /\ SubSeq(s, 1, k) \in Seq(S)
         /\ Len(SubSeq(s, 1, k)) = IF k < 0 THEN 0 ELSE k
         /\ \A n \in 1..k : /\ SubSeq(s, 1, k)[n] = s[n]
                            /\ SubSeq(SubSeq(s, 1, k), 1, n) = SubSeq(s, 1, n)
<1>1. Len(s) \in Nat /\ DOMAIN s = 1..Len(s)
  OBVIOUS
<1>2. /\ SubSeq(s, 1, k) \in Seq(S)
      /\ Len(SubSeq(s, 1, k)) = IF k < 0 THEN 0 ELSE k
      /\ \A n \in 1..k : SubSeq(s, 1, k)[n] = s[n]
  BY <1>1
<1>3. ASSUME NEW n \in 1..k
      PROVE  SubSeq(SubSeq(s, 1, k), 1, n) = SubSeq(s, 1, n)
  <2> DEFINE p == SubSeq(s, 1, k)
  <2>1. p \in Seq(S) /\ Len(p) = k /\ \A m \in 1..k : p[m] = s[m]
    BY <1>2
  <2> HIDE DEF p
  <2>2. /\ SubSeq(p, 1, n) \in Seq(S) /\ SubSeq(s, 1, n) \in Seq(S)
        /\ Len(SubSeq(p, 1, n)) = n /\ Len(SubSeq(s, 1, n)) = n
        /\ \A m \in 1..n : SubSeq(p, 1, n)[m] = p[m] /\ SubSeq(s, 1, n)[m] = s[m]
    BY <1>1, <2>1
  <2>3. \A m \in 1..n : SubSeq(p, 1, n)[m] = SubSeq(s, 1, n)[m]
    BY <2>1, <2>2
  <2>4. SubSeq(p, 1, n) = SubSeq(s, 1, n)
    BY <2>2, <2>3
  <2>5. QED
    BY <2>4 DEF p
<1>4. QED
  BY <1>2, <1>3

(* A prefix that is cut off at some block is cut off at all later ones.    *)
LEMMA OffChainUpward ==
  ASSUME NEW old \in Chain, NEW new \in Chain, NEW n \in OffChain(old, new),
         NEW m \in n..Len(old)
  PROVE  m \in OffChain(old, new)
<1>1. old \in Seq(Block) /\ new \in Seq(Block)
  BY DEF Chain
<1>2. n \in 1..Len(old) /\ Len(old) \in Nat /\ Len(new) \in Nat
  BY <1>1 DEF OffChain
<1>3. CASE m > Len(new)
  BY <1>1, <1>2, <1>3 DEF OffChain
<1>4. CASE ~(m > Len(new))
  <2>1. SUFFICES ASSUME SubSeq(old, 1, m) = SubSeq(new, 1, m)
                 PROVE  FALSE
    BY <1>1, <1>2 DEF OffChain
  <2>2. n \in 1..m /\ m \in Int /\ m <= Len(old) /\ m <= Len(new)
    BY <1>2, <1>4
  <2>3. SubSeq(SubSeq(old, 1, m), 1, n) = SubSeq(old, 1, n)
    BY <1>1, <2>2, CutFacts
  <2>4. SubSeq(SubSeq(new, 1, m), 1, n) = SubSeq(new, 1, n)
    BY <1>1, <2>2, CutFacts
  <2>5. n <= Len(new) /\ SubSeq(old, 1, n) = SubSeq(new, 1, n)
    BY <2>1, <2>2, <2>3, <2>4, <1>2
  <2>6. QED
    BY <1>2, <2>5 DEF OffChain
<1>5. QED
  BY <1>3, <1>4

(* A fork switch that drops no more than NumConfirmed blocks drops none    *)
(* that is confirmed, if the new chain is no shorter.                      *)
LEMMA ShallowSwitch ==
  ASSUME NEW old \in Chain, NEW new \in Chain, Len(new) >= Len(old),
         Cardinality(OffChain(old, new)) <= NumConfirmed
  PROVE  OffChain(ConfirmedPart(old), ConfirmedPart(new)) = {}
<1> DEFINE k == Len(old) - NumConfirmed
           l == Len(new) - NumConfirmed
<1>1. /\ old \in Seq(Block) /\ new \in Seq(Block)
      /\ Len(old) \in Nat /\ Len(new) \in Nat /\ NumConfirmed \in Nat
  BY LedgerAssumption DEF Chain
<1>2. k \in Int /\ l \in Int /\ k <= Len(old) /\ l <= Len(new) /\ k <= l
  BY <1>1
<1>3. ASSUME NEW n \in 1..k, n \in OffChain(old, new)
      PROVE  FALSE
  <2>1. n..Len(old) \subseteq OffChain(old, new)
    <3>1. ASSUME NEW m \in n..Len(old)
          PROVE  m \in OffChain(old, new)
      BY <1>3, OffChainUpward
    <3>2. QED
      BY <3>1
  <2>2. OffChain(old, new) \subseteq 1..Len(old)
    BY <1>1 DEF OffChain
  <2>3. IsFiniteSet(OffChain(old, new))
    <3>1. IsFiniteSet(1..Len(old))
      BY <1>1, FS_Interval
    <3>2. QED
      BY <2>2, <3>1, FS_Subset
  <2>4. Cardinality(n..Len(old)) <= Cardinality(OffChain(old, new))
    BY <2>1, <2>3, FS_Subset
  <2>5. Cardinality(n..Len(old)) = Len(old) - n + 1
    BY <1>1, <1>2, FS_Interval
  <2>6. Cardinality(OffChain(old, new)) \in Nat
    BY <2>3, FS_CardinalityType
  <2>7. QED
    BY <1>1, <2>4, <2>5, <2>6
<1> HIDE DEF k, l
<1>4. /\ ConfirmedPart(old) = SubSeq(old, 1, k)
      /\ ConfirmedPart(new) = SubSeq(new, 1, l)
  BY DEF ConfirmedPart, k, l
<1>5. /\ DOMAIN ConfirmedPart(old) = 1..k
      /\ Len(ConfirmedPart(new)) = IF l < 0 THEN 0 ELSE l
  <2>1. /\ SubSeq(old, 1, k) \in Seq(Block)
        /\ Len(SubSeq(old, 1, k)) = IF k < 0 THEN 0 ELSE k
    BY <1>1, <1>2, CutFacts
  <2>2. DOMAIN SubSeq(old, 1, k) = 1..k
    BY <1>2, <2>1
  <2>3. Len(SubSeq(new, 1, l)) = IF l < 0 THEN 0 ELSE l
    BY <1>1, <1>2, CutFacts
  <2>4. QED
    BY <1>4, <2>2, <2>3
<1>6. ASSUME NEW n \in 1..k
      PROVE  /\ ~(n > Len(ConfirmedPart(new)))
             /\ SubSeq(ConfirmedPart(old), 1, n) = SubSeq(ConfirmedPart(new), 1, n)
  <2>1. n \in 1..l /\ n \in 1..Len(old)
    BY <1>1, <1>2
  <2>2. SubSeq(old, 1, n) = SubSeq(new, 1, n)
    BY <1>1, <1>3, <2>1 DEF OffChain
  <2>3. SubSeq(SubSeq(old, 1, k), 1, n) = SubSeq(old, 1, n)
    BY <1>1, <1>2, CutFacts
  <2>4. SubSeq(SubSeq(new, 1, l), 1, n) = SubSeq(new, 1, n)
    BY <1>1, <1>2, <2>1, CutFacts
  <2>5. QED
    BY <1>2, <1>4, <1>5, <2>1, <2>2, <2>3, <2>4
<1>7. QED
  BY <1>5, <1>6 DEF OffChain

-----------------------------------------------------------------------------
(* From one rightly numbered tip to another the chain never gets shorter.  *)
LEMMA TipGrows ==
  ASSUME TypeOK, TipInv, TypeOK', [Next]_vars, Numbered(lastHash), Numbered(lastHash')
  PROVE  Len(lastHash') >= Len(lastHash)
<1>0. Len(lastHash) \in Nat /\ \A h \in db : Len(h) \in Nat
  BY ChainLen
<1>1. CASE PutPeer \/ PutOwn
  <2>1. lastHash' = lastHash
    BY <1>1, PutAdds DEF Added, Store
  <2>2. QED
    BY <1>0, <2>1
<1>2. CASE UpdateTip
  <2>1. PICK h \in writing : lastHash' = h
    BY <1>2 DEF UpdateTip
  <2>2. /\ h \in db /\ h \in Chain /\ lastHash \in Chain /\ h # Genesis
        /\ Prev(h) = lastHash \/ Number(h) > Number(lastHash)
    BY <2>1 DEF TypeOK, TipInv, WritingWins
  <2>3. Len(h) > Len(lastHash)
    BY <2>1, <2>2, WinnerLonger
  <2>4. QED
    BY <1>0, <2>1, <2>2, <2>3
<1>3. CASE CrashRestart \/ UNCHANGED vars
  <2>1. lastHash' = lastHash
    BY <1>3 DEF CrashRestart, vars
  <2>2. QED
    BY <1>0, <2>1
<1>4. QED
  BY <1>1, <1>2, <1>3 DEF Next

(* Queries read the tip without its last NumConfirmed blocks.  A fork that *)
(* replaces no more of the chain than that replaces nothing queries have   *)
(* shown, because the fork the tip moves to is longer than the one it      *)
(* leaves, when both are rightly numbered: with a shorter one, which a     *)
(* wrong number can make the tip, the confirmed part could lose blocks     *)
(* that the fork itself leaves in place.                                   *)
THEOREM ConfirmedStableHolds == Spec => ConfirmedStable
<1> DEFINE Stable == /\ Numbered(lastHash) /\ Numbered(lastHash')
                     /\ Cardinality(OffChain(lastHash, lastHash')) <= NumConfirmed
                     => OffChain(ConfirmedPart(lastHash), ConfirmedPart(lastHash')) = {}
<1>1. ASSUME TypeOK, TipInv, TypeOK', [Next]_vars
      PROVE  [Stable]_vars
  <2>1. SUFFICES ASSUME Numbered(lastHash), Numbered(lastHash'),
                        Cardinality(OffChain(lastHash, lastHash')) <= NumConfirmed
                 PROVE  OffChain(ConfirmedPart(lastHash), ConfirmedPart(lastHash')) = {}
    OBVIOUS
  <2>2. lastHash \in Chain /\ lastHash' \in Chain
    BY <1>1 DEF TypeOK
  <2>3. Len(lastHash') >= Len(lastHash)
    BY <1>1, <2>1, <2>2, TipGrows
  <2>4. QED
    BY <2>1, <2>2, <2>3, ShallowSwitch
<1>2. QED
  BY <1>1, TypeCorrect, TipInvariant, PTL DEF Spec, ConfirmedStable

-----------------------------------------------------------------------------
(* The result of an ended poll.                                            *)

(* The past of a prefix is the part of the past up to its length.          *)
LEMMA PastPrefix ==
  ASSUME NEW p \in Chain, NEW q \in Chain, Len(p) <= Len(q),
         \A n \in 1..Len(p) : p[n] = q[n]
  PROVE  Past(p) = {e \in Past(q) : e.at <= Len(p)}
<1> DEFINE E(c, n) == Entries(n, c[n].num, c[n].txns, Success(c[n]))
<1>1. /\ DOMAIN p = 1..Len(p) /\ Len(p) \in Nat
      /\ DOMAIN q = 1..Len(q) /\ Len(q) \in Nat
  BY DEF Chain
<1>2. \A n \in 1..Len(p) : E(p, n) = E(q, n)
  OBVIOUS
<1>3. \A n \in DOMAIN q : \A e \in E(q, n) : e.at = n
  BY DEF Entries
<1> HIDE DEF E
<1>4. /\ Past(p) = UNION {E(p, n) : n \in DOMAIN p}
      /\ Past(q) = UNION {E(q, n) : n \in DOMAIN q}
  BY DEF Past, E
<1>5. ASSUME NEW e \in Past(p)
      PROVE  e \in Past(q) /\ e.at <= Len(p)
  <2>1. PICK n \in DOMAIN p : e \in E(p, n)
    BY <1>4
  <2>2. n \in 1..Len(p) /\ n \in DOMAIN q /\ e \in E(q, n)
    BY <1>1, <1>2, <2>1
  <2>3. e.at = n
    BY <1>3, <2>2
  <2>4. QED
    BY <1>1, <1>4, <2>2, <2>3
<1>6. ASSUME NEW e \in Past(q), e.at <= Len(p)
      PROVE  e \in Past(p)
  <2>1. PICK n \in DOMAIN q : e \in E(q, n)
    BY <1>4
  <2>2. e.at = n
    BY <1>3, <2>1
  <2>3. n \in 1..Len(p)
    BY <1>1, <1>6, <2>2
  <2>4. QED
    BY <1>1, <1>2, <1>4, <2>1, <2>3
<1>7. QED
  BY <1>5, <1>6

(* The confirmed part of a chain is a chain of its length less             *)
(* NumConfirmed, and its past a part of the whole past.                    *)
LEMMA ConfirmedFacts ==
  ASSUME NEW c \in Chain
  PROVE  /\ ConfirmedPart(c) \in Chain
         /\ Len(ConfirmedPart(c)) = IF Len(c) < NumConfirmed
                                      THEN 0 ELSE Len(c) - NumConfirmed
         /\ Past(ConfirmedPart(c)) = {e \in Past(c) : e.at <= Len(ConfirmedPart(c))}
<1> DEFINE k == Len(c) - NumConfirmed
           p == ConfirmedPart(c)
<1>1. c \in Seq(Block) /\ Len(c) \in Nat /\ NumConfirmed \in Nat
  BY LedgerAssumption DEF Chain
<1>2. k \in Int /\ k <= Len(c)
  BY <1>1
<1>3. p \in Seq(Block) /\ Len(p) = IF k < 0 THEN 0 ELSE k
  BY <1>1, <1>2, CutFacts DEF ConfirmedPart
<1>4. \A n \in 1..k : p[n] = c[n]
  BY <1>1, <1>2, CutFacts DEF ConfirmedPart
<1>5. Len(p) <= Len(c) /\ \A n \in 1..Len(p) : p[n] = c[n]
  BY <1>1, <1>2, <1>3, <1>4
<1>6. p \in Chain
  BY <1>3 DEF Chain
<1> HIDE DEF p
<1>7. Past(p) = {e \in Past(c) : e.at <= Len(p)}
  BY <1>5, <1>6, PastPrefix
<1>8. QED
  BY <1>1, <1>3, <1>6, <1>7 DEF p

(* The confirmed part has the blocks of the chain.                         *)
LEMMA ConfirmedBlocks ==
  ASSUME NEW c \in Chain
  PROVE  \A n \in 1..Len(ConfirmedPart(c)) : ConfirmedPart(c)[n] = c[n]
<1> DEFINE k == Len(c) - NumConfirmed
<1>1. c \in Seq(Block) /\ Len(c) \in Nat /\ NumConfirmed \in Nat
  BY LedgerAssumption DEF Chain
<1>2. k \in Int /\ k <= Len(c)
  BY <1>1
<1>3. /\ Len(ConfirmedPart(c)) = IF k < 0 THEN 0 ELSE k
      /\ \A n \in 1..k : ConfirmedPart(c)[n] = c[n]
  BY <1>1, <1>2, CutFacts DEF ConfirmedPart
<1> HIDE DEF k
<1>4. \A n \in 1..Len(ConfirmedPart(c)) : n \in 1..k
  BY <1>2, <1>3
<1>5. QED
  BY <1>3, <1>4

(* When nothing of p is off q, the past of p is that of q up to its length. *)
LEMMA PastKept ==
  ASSUME NEW p \in Chain, NEW q \in Chain, OffChain(p, q) = {}
  PROVE  Past(p) = {e \in Past(q) : e.at <= Len(p)}
<1>1. /\ p \in Seq(Block) /\ DOMAIN p = 1..Len(p) /\ Len(p) \in Nat
      /\ q \in Seq(Block) /\ Len(q) \in Nat
  BY DEF Chain
<1>2. ASSUME NEW n \in 1..Len(p)
      PROVE  n <= Len(q) /\ p[n] = q[n]
  <2>0. n \notin OffChain(p, q) /\ n \in DOMAIN p
    BY <1>1
  <2>1. n <= Len(q) /\ SubSeq(p, 1, n) = SubSeq(q, 1, n)
    <3>1. ~(n > Len(q)) /\ SubSeq(p, 1, n) = SubSeq(q, 1, n)
      BY <2>0 DEF OffChain
    <3>2. n \in Int /\ Len(q) \in Int
      BY <1>1
    <3>3. QED
      BY <3>1, <3>2
  <2>2. n \in 1..n /\ n \in Int /\ n <= Len(p)
    BY <1>1
  <2>3. SubSeq(p, 1, n)[n] = p[n]
    BY <1>1, <2>2, CutFacts
  <2>4. SubSeq(q, 1, n)[n] = q[n]
    BY <1>1, <2>1, <2>2, CutFacts
  <2>5. QED
    BY <2>1, <2>3, <2>4
<1>3. Len(p) <= Len(q)
  BY <1>1, <1>2
<1>4. QED
  BY <1>2, <1>3, PastPrefix

(* Every entry is about a transaction.                                     *)
LEMMA PastTxn ==
  ASSUME NEW c \in Chain, NEW e \in Past(c)
  PROVE  e.txn \in Txn
<1>1. e.at \in 1..Len(c) /\ e.idx \in Success(c[e.at])
  BY PastType
<1>2. e.txn = c[e.at].txns[e.idx]
  <2>1. e = [at |-> e.at, num |-> c[e.at].num, idx |-> e.idx,
             txn |-> c[e.at].txns[e.idx]]
    BY PastType
  <2>2. QED
    BY <2>1
<1>3. c[e.at].txns \in Seq(Txn)
  <2>1. c[e.at] \in Block
    BY <1>1 DEF Chain
  <2>2. QED
    BY <2>1 DEF Block
<1>4. e.idx \in DOMAIN c[e.at].txns
  BY <1>1 DEF Success
<1>5. QED
  BY <1>2, <1>3, <1>4

(* When an ended poll has its end in the confirmed part, nothing that comes *)
(* later counts for it: a launch and an end are the only ones of the poll, *)
(* a vote comes before the end, and votes and ends come while the duration *)
(* of the launch lasts (counted in blocks, if they are rightly numbered).  *)
LEMMA NothingAfterEnd ==
  ASSUME NEW old \in Chain, NEW new \in Chain, NEW poll,
         OffChain(ConfirmedPart(old), ConfirmedPart(new)) = {},
         PollHistory(new),
         \/ Terminated(old, poll)
         \/ TimedOut(old, poll) /\ Numbered(ConfirmedPart(new)),
         NEW e \in Past(ConfirmedPart(new)),
         Data[e.txn].poll = poll,
         Data[e.txn].method \in {"Launch", "Vote", "Terminate"}
  PROVE  e \in Past(ConfirmedPart(old))
<1> DEFINE p == ConfirmedPart(old)
           q == ConfirmedPart(new)
           events == Events(Past(p), poll)
           ended == {d \in events : Data[d.txn].method = "Terminate"}
           launch == CHOOSE d \in events : Data[d.txn].method = "Launch"
           end == VotingStatus(old, poll).end
<1>0. SUFFICES ASSUME e \in Past(q)
               PROVE  e \in Past(p)
  OBVIOUS
<1>1. /\ p \in Chain /\ q \in Chain
      /\ Past(p) \subseteq Past(q) /\ Past(q) \subseteq Past(new)
      /\ Past(p) = {d \in Past(q) : d.at <= Len(p)}
      /\ Past(q) = {d \in Past(new) : d.at <= Len(q)}
  BY ConfirmedFacts, PastKept
<1>2. /\ Len(p) \in Nat /\ Len(q) \in Nat /\ Len(q) <= Len(new)
      /\ TimedOut(old, poll) /\ end \in Nat => end <= Len(p)
  <2>1. Len(old) \in Nat /\ Len(new) \in Nat /\ NumConfirmed \in Nat
    BY LedgerAssumption DEF Chain
  <2>2. /\ Len(p) = IF Len(old) < NumConfirmed THEN 0 ELSE Len(old) - NumConfirmed
        /\ Len(q) = IF Len(new) < NumConfirmed THEN 0 ELSE Len(new) - NumConfirmed
    BY ConfirmedFacts
  <2>3. TimedOut(old, poll) => end <= Len(old) - NumConfirmed
    BY DEF TimedOut
  <2> HIDE DEF p, q, end
  <2>4. QED
    BY <2>1, <2>2, <2>3
<1>3. e.at \in Nat /\ \A d \in Past(q) : d.at \in Nat /\ d.txn \in Txn
  <2>1. \A d \in Past(q) : d.at \in Nat
    BY <1>1, PastType
  <2>2. \A d \in Past(q) : d.txn \in Txn
    BY <1>1, PastTxn
  <2>3. QED
    BY <1>0, <2>1, <2>2
<1>4. events \subseteq Past(p) /\ \A d \in events : /\ Data[d.txn].poll = poll
                               /\ Data[d.txn].method \in {"Launch", "Terminate"}
  BY DEF Events, Of
<1>5. /\ events # {}
      /\ ended = {} => /\ TimedOut(old, poll) /\ Numbered(q)
                       /\ end > launch.num
                       /\ end = IF Data[launch.txn].rules.duration = 0 THEN 0
                                ELSE Plus(launch.num, Data[launch.txn].rules.duration)
  <2>1. CASE Terminated(old, poll)
    <3>1. PICK d \in Past(p) : Data[d.txn].poll = poll /\ Data[d.txn].method = "Terminate"
      BY <2>1 DEF Terminated
    <3>2. d \in ended
      BY <3>1 DEF Events, Of
    <3>3. QED
      BY <3>2
  <2>2. CASE TimedOut(old, poll) /\ Numbered(q) /\ ~Terminated(old, poll)
    <3>1. end > VotingStatus(old, poll).start
      BY <2>2 DEF TimedOut
    <3>2. Cardinality(events) \in {1, 2}
      <4>1. SUFFICES ASSUME Cardinality(events) \notin {1, 2}
                     PROVE  FALSE
        OBVIOUS
      <4>2. VotingStatus(old, poll) = NoPoll
        BY <4>1 DEF VotingStatus
      <4>3. QED
        BY <3>1, <4>2 DEF NoPoll
    <3>3. /\ VotingStatus(old, poll).start = launch.num
          /\ VotingStatus(old, poll).end =
               IF ended # {} THEN (CHOOSE d \in ended : TRUE).num
               ELSE IF Data[launch.txn].rules.duration = 0 THEN 0
               ELSE Plus(launch.num, Data[launch.txn].rules.duration)
      BY <3>2 DEF VotingStatus
    <3>4. events # {}
      BY <3>2, FS_EmptySet
    <3> HIDE DEF events, launch
    <3>5. QED
      BY <2>2, <3>1, <3>3, <3>4
  <2>3. QED
    BY <2>1, <2>2
<1> HIDE DEF p, q, events, ended, end
<1>6. \E l \in events : Data[l.txn].method = "Launch"
  <2>1. PICK d \in events : TRUE
    BY <1>5
  <2>2. CASE Data[d.txn].method = "Launch"
    BY <2>2
  <2>3. CASE Data[d.txn].method # "Launch"
    <3>1. d \in Past(p) /\ d \in Past(q) /\ d \in Past(new) /\ Data[d.txn].poll = poll
      BY <1>1, <1>4
    <3>2. PICK l \in Past(new) : /\ Data[l.txn].method = "Launch"
                                 /\ Data[l.txn].poll = poll /\ Before(l, d)
      BY <2>3, <3>1 DEF PollHistory, WithinLaunch, SamePoll
    <3>3. l.at <= Len(p) /\ l.at <= Len(q)
      <4>1. l.at \in Nat /\ d.at \in Nat /\ l.at <= d.at
        BY <3>1, <3>2, PastType DEF Before
      <4>2. d.at <= Len(p) /\ d.at <= Len(q)
        BY <1>1, <3>1
      <4>3. QED
        BY <1>2, <4>1, <4>2
    <3>4. l \in Past(p)
      BY <1>1, <3>2, <3>3
    <3>5. l \in events
      BY <3>2, <3>4 DEF events, Events, Of
    <3>6. QED
      BY <3>2, <3>5
  <2>4. QED
    BY <2>2, <2>3
<1>7. /\ launch \in events /\ Data[launch.txn].method = "Launch"
      /\ launch \in Past(p) /\ launch \in Past(new) /\ Data[launch.txn].poll = poll
  <2>1. launch \in events /\ Data[launch.txn].method = "Launch"
    BY <1>6
  <2>2. QED
    BY <1>1, <1>4, <2>1
<1> HIDE DEF launch
<1>8. CASE Data[e.txn].method = "Launch"
  <2>1. e = launch
    BY <1>0, <1>1, <1>7, <1>8 DEF PollHistory, LaunchedAndEndedOnce, SamePoll
  <2>2. QED
    BY <1>7, <2>1
<1>9. CASE Data[e.txn].method \in {"Vote", "Terminate"} /\ ended # {}
  <2> DEFINE t == CHOOSE d \in ended : TRUE
  <2>1. t \in ended
    BY <1>5, <1>9
  <2> HIDE DEF t
  <2>2. /\ t \in events /\ Data[t.txn].method = "Terminate"
        /\ t \in Past(p) /\ t \in Past(new) /\ Data[t.txn].poll = poll
    BY <1>1, <1>4, <2>1 DEF ended
  <2>3. CASE Data[e.txn].method = "Terminate"
    <3>1. e = t
      BY <1>0, <1>1, <2>2, <2>3 DEF PollHistory, LaunchedAndEndedOnce, SamePoll
    <3>2. QED
      BY <2>2, <3>1
  <2>4. CASE Data[e.txn].method = "Vote"
    <3>1. Before(e, t)
      BY <1>0, <1>1, <2>2, <2>4 DEF PollHistory, NoVoteAfterEnd, SamePoll
    <3>2. t.at <= Len(p) /\ t.at \in Nat
      BY <1>1, <1>3, <2>2
    <3>3. e.at <= Len(p)
      BY <1>2, <1>3, <3>1, <3>2 DEF Before
    <3>4. QED
      BY <1>0, <1>1, <3>3
  <2>5. QED
    BY <1>9, <2>3, <2>4
<1>10. CASE Data[e.txn].method \in {"Vote", "Terminate"} /\ ended = {}
  <2> DEFINE duration == Data[launch.txn].rules.duration
  <2>1. /\ launch.at \in Nat /\ duration \in Num /\ MaxNum \in Nat \ {0}
        /\ launch \in Past(q) /\ launch.txn \in Txn
    BY <1>1, <1>3, <1>7, LedgerAssumption
  <2>2. launch.num = launch.at
    <3>1. launch.at \in 1..Len(q) /\ launch.num = q[launch.at].num
      BY <1>1, <2>1, PastType
    <3>2. launch.at \in DOMAIN q
      BY <1>1, <3>1 DEF Chain
    <3>3. QED
      BY <1>5, <1>10, <3>1, <3>2 DEF Numbered
  <2>3. PICK l \in Past(new) :
          /\ Data[l.txn].method = "Launch" /\ Data[l.txn].poll = poll
          /\ Numbered(SubSeq(new, 1, e.at - 1))
               => ~(/\ Data[l.txn].rules.duration > 0
                    /\ e.at - l.at > Data[l.txn].rules.duration)
    BY <1>0, <1>1, <1>10 DEF PollHistory, WithinLaunch, SamePoll
  <2>4. l = launch
    BY <1>7, <2>3 DEF PollHistory, LaunchedAndEndedOnce, SamePoll
  <2>5. Numbered(SubSeq(new, 1, e.at - 1))
    <3> DEFINE below == SubSeq(new, 1, e.at - 1)
    <3>1. /\ e.at \in 1..Len(q) /\ new \in Seq(Block) /\ Len(new) \in Nat
      BY <1>0, <1>1, PastType DEF Chain
    <3>2. e.at - 1 \in 0..Len(new) /\ 1..(e.at - 1) \subseteq 1..Len(q)
      BY <1>2, <3>1
    <3>3. /\ below \in Seq(Block) /\ Len(below) = e.at - 1
          /\ \A n \in 1..(e.at - 1) : below[n] = new[n]
      BY <3>1, <3>2, PrefixFacts
    <3>4. \A n \in 1..Len(q) : q[n] = new[n]
      BY ConfirmedBlocks DEF q
    <3>5. DOMAIN q = 1..Len(q)
      BY <1>1 DEF Chain
    <3> HIDE DEF below
    <3>6. \A n \in 1..(e.at - 1) : below[n].num = n
      BY <1>5, <1>10, <3>2, <3>3, <3>4, <3>5 DEF Numbered
    <3>7. DOMAIN below = 1..(e.at - 1)
      BY <3>3
    <3>8. Numbered(below)
      BY <3>6, <3>7 DEF Numbered
    <3>9. QED
      BY <3>8 DEF below
  <2> HIDE DEF duration
  <2>6. end = launch.at + duration /\ duration > 0 /\ end \in Nat
    <3>1. end > launch.at /\ end = IF duration = 0 THEN 0 ELSE Plus(launch.at, duration)
      BY <1>5, <1>10, <2>2 DEF duration
    <3>2. QED
      BY <2>1, <3>1 DEF Plus, Num
  <2>7. e.at - launch.at <= duration
    <3>1. ~(duration > 0 /\ e.at - launch.at > duration)
      BY <2>3, <2>4, <2>5 DEF duration
    <3>2. QED
      BY <1>3, <2>1, <2>6, <3>1 DEF Num
  <2>8. e.at <= Len(p)
    <3>1. end <= Len(p)
      BY <1>2, <1>5, <1>10, <2>6
    <3>2. QED
      BY <1>2, <1>3, <2>1, <2>6, <2>7, <3>1 DEF Num
  <2>9. QED
    BY <1>0, <1>1, <2>8
<1>11. QED
  BY <1>8, <1>9, <1>10

(* Once the confirmed part has the end of a poll, its result is final as   *)
(* long as the confirmed part only grows: after an end by an admin always, *)
(* after an end by duration while the confirmed part is rightly numbered.  *)
THEOREM EndedPollFrozenHolds == Spec => EndedPollFrozen
<1> DEFINE old == lastHash
           new == lastHash'
           Frozen == OffChain(ConfirmedPart(old), ConfirmedPart(new)) = {}
                     => \A poll \in {Data[t].poll : t \in Txn} :
                          \/ Terminated(old, poll)
                          \/ TimedOut(old, poll) /\ Numbered(ConfirmedPart(new))
                          => VotingStatus(new, poll) = VotingStatus(old, poll)
<1>1. ASSUME TypeOK, TypeOK', PollLife'
      PROVE  Frozen
  <2>1. SUFFICES ASSUME OffChain(ConfirmedPart(old), ConfirmedPart(new)) = {},
                        NEW poll,
                        \/ Terminated(old, poll)
                        \/ TimedOut(old, poll) /\ Numbered(ConfirmedPart(new))
                 PROVE  VotingStatus(new, poll) = VotingStatus(old, poll)
    OBVIOUS
  <2>2. old \in Chain /\ new \in Chain /\ PollHistory(new)
    BY <1>1 DEF TypeOK, PollLife
  <2> DEFINE P == Past(ConfirmedPart(old))
             Q == Past(ConfirmedPart(new))
  <2>3. P \subseteq Q
    BY <2>1, <2>2, ConfirmedFacts, PastKept
  <2>4. ASSUME NEW e \in Q, Data[e.txn].poll = poll,
               Data[e.txn].method \in {"Launch", "Vote", "Terminate"}
        PROVE  e \in P
    BY <2>1, <2>2, <2>4, NothingAfterEnd
  <2> HIDE DEF P, Q
  <2>5. Events(P, poll) = Events(Q, poll) /\ Votes(P, poll) = Votes(Q, poll)
    BY <2>3, <2>4 DEF Events, Votes, Of
  <2>6. QED
    BY <2>5 DEF VotingStatus, P, Q
<1>2. QED
  BY <1>1, TypeCorrect, PollLifeHolds, PTL DEF EndedPollFrozen

-----------------------------------------------------------------------------
(* What is reported of a vote, and what is counted.                        *)
LEMMA Least ==
  ASSUME NEW T, T \subseteq Nat, T # {}
  PROVE  \E x \in T : \A y \in T : x <= y
<1>1. IsWellFoundedOn(OpToRel(<, Nat), Nat)
  BY NatLessThanWellFounded
<1>2. PICK x \in T : \A y \in T : ~(<<y, x>> \in OpToRel(<, Nat))
  BY <1>1, WFMin
<1>3. \A y \in T : ~(y < x)
  BY <1>2 DEF OpToRel
<1>4. QED
  BY <1>3

LEMMA Greatest ==
  ASSUME NEW n \in Nat, NEW S, S \subseteq 1..n, S # {}
  PROVE  \E m \in S : \A k \in S : k <= m
<1> DEFINE T == {d \in Nat : n - d \in S}
<1>1. T # {}
  <2>1. PICK k \in S : TRUE
    OBVIOUS
  <2>2. k \in 1..n /\ n - k \in Nat /\ n - (n - k) = k
    BY <2>1
  <2>3. n - k \in T
    BY <2>1, <2>2
  <2>4. QED
    BY <2>3
<1>2. PICK d \in T : \A e \in T : d <= e
  BY <1>1, Least
<1>3. n - d \in S
  BY <1>2
<1>4. ASSUME NEW k \in S
      PROVE  k <= n - d
  <2>1. k \in 1..n /\ n - k \in Nat /\ n - (n - k) = k
    OBVIOUS
  <2>2. n - k \in T
    BY <2>1
  <2>3. d <= n - k /\ d \in Nat
    BY <1>2, <2>2
  <2>4. QED
    BY <2>1, <2>3
<1>5. QED
  BY <1>3, <1>4

(* What TxnStatus reports as a success under NumConfirmed blocks is an     *)
(* entry of the past that VotingStatus reads.                              *)
SuccessShown(c, t) == /\ TxnStatus(c, t).code = "Success"
                      /\ TxnStatus(c, t).confirmed >= NumConfirmed

LEMMA ReportedIsPast ==
  ASSUME NEW c \in Chain, NEW t \in Txn, SuccessShown(c, t)
  PROVE  \E e \in Past(ConfirmedPart(c)) : e.txn = t
<1> DEFINE blocks == {n \in DOMAIN c : t \in Range(c[n].txns)}
           N == CHOOSE n \in blocks : \A m \in blocks : m <= n
           places == {j \in DOMAIN c[N].txns : c[N].txns[j] = t}
           J == CHOOSE j \in places : \A i \in places : j <= i
<1>1. c \in Seq(Block) /\ DOMAIN c = 1..Len(c) /\ Len(c) \in Nat /\ NumConfirmed \in Nat
  BY LedgerAssumption DEF Chain
<1>2. blocks # {} /\ TxnStatus(c, t) = [confirmed |-> Len(c) - N, code |-> c[N].codes[J]]
  <2>1. CASE blocks = {}
    <3>1. TxnStatus(c, t) = NotFound
      BY <2>1 DEF TxnStatus
    <3>2. NotFound.code # "Success"
      BY DEF NotFound
    <3>3. QED
      BY <3>1, <3>2 DEF SuccessShown
  <2>2. CASE blocks # {}
    <3>1. TxnStatus(c, t) = IF blocks = {} THEN NotFound
                            ELSE [confirmed |-> Len(c) - N, code |-> c[N].codes[J]]
      BY Zenon DEF TxnStatus
    <3> HIDE DEF blocks, N, J
    <3>2. QED
      BY <2>2, <3>1
  <2>3. QED
    BY <2>1, <2>2
<1>3. blocks \subseteq 1..Len(c)
  BY <1>1
<1> HIDE DEF J
<1>4. N \in blocks
  <2> HIDE DEF blocks
  <2>1. \E n \in blocks : \A m \in blocks : m <= n
    BY <1>1, <1>2, <1>3, Greatest
  <2>2. QED
    BY <2>1
<1>5. PICK n \in 1..Len(c) : n = N /\ t \in Range(c[n].txns)
  BY <1>1, <1>4
<1> HIDE DEF N
<1>6. c[n].txns \in Seq(Txn)
  <2>1. c[n] \in Block
    BY <1>1
  <2>2. QED
    BY <2>1 DEF Block
<1>7. PICK j : j = J
  OBVIOUS
<1>8. j \in DOMAIN c[n].txns /\ c[n].txns[j] = t
  <2>1. places # {} /\ places \subseteq Nat
    BY <1>5, <1>6 DEF Range
  <2> HIDE DEF places
  <2>2. \E k \in places : \A i \in places : k <= i
    BY <2>1, Least
  <2>3. J \in places
    BY <2>2 DEF J
  <2>4. QED
    BY <1>5, <1>7, <2>3 DEF places
<1>9. c[n].codes[j] = "Success"
  BY <1>2, <1>5, <1>7 DEF SuccessShown
<1>10. Len(c) - n >= NumConfirmed
  BY <1>2, <1>5, <1>7 DEF SuccessShown
<1> DEFINE e == [at |-> n, num |-> c[n].num, idx |-> j, txn |-> t]
<1>11. e \in Past(c)
  <2>1. j \in Success(c[n])
    BY <1>8, <1>9 DEF Success
  <2>2. e \in Entries(n, c[n].num, c[n].txns, Success(c[n]))
    BY <1>8, <2>1 DEF Entries
  <2> HIDE DEF e
  <2>3. n \in DOMAIN c
    BY <1>1
  <2>4. QED
    BY <2>2, <2>3 DEF Past
<1>12. e.at <= Len(ConfirmedPart(c))
  <2>1. Len(ConfirmedPart(c)) = IF Len(c) < NumConfirmed THEN 0 ELSE Len(c) - NumConfirmed
    BY ConfirmedFacts
  <2>2. PICK l : l = Len(c)
    OBVIOUS
  <2>3. PICK k : k = Len(ConfirmedPart(c))
    OBVIOUS
  <2>4. /\ l \in Nat /\ NumConfirmed \in Nat /\ n \in Nat /\ n >= 1
        /\ l - n >= NumConfirmed
        /\ k = IF l < NumConfirmed THEN 0 ELSE l - NumConfirmed
    <3>1. n \in Nat /\ n >= 1 /\ l \in Nat /\ NumConfirmed \in Nat
      BY <1>1, <2>2
    <3>2. l - n >= NumConfirmed
      BY <1>10, <2>2
    <3>3. k = IF l < NumConfirmed THEN 0 ELSE l - NumConfirmed
      BY <2>1, <2>2, <2>3
    <3>4. QED
      BY <3>1, <3>2, <3>3
  <2>5. n <= k
    BY <2>4
  <2>6. QED
    BY <2>3, <2>5
<1>13. e \in Past(ConfirmedPart(c)) /\ e.txn = t
  <2>1. e.txn = t
    OBVIOUS
  <2> HIDE DEF e
  <2>2. QED
    BY <1>11, <1>12, <2>1, ConfirmedFacts
<1>14. QED
  BY <1>13

(* A chain has finitely many entries.                                      *)
LEMMA PastFinite ==
  ASSUME NEW c \in Chain
  PROVE  IsFiniteSet(Past(c))
<1> DEFINE E(n) == Entries(n, c[n].num, c[n].txns, Success(c[n]))
           F == [n \in 1..Len(c) |-> E(n)]
           family == {F[n] : n \in 1..Len(c)}
<1>1. c \in Seq(Block) /\ DOMAIN c = 1..Len(c) /\ Len(c) \in Nat
  BY DEF Chain
<1>2. ASSUME NEW n \in 1..Len(c)
      PROVE  IsFiniteSet(E(n))
  <2>1. c[n].txns \in Seq(Txn)
    <3>1. c[n] \in Block
      BY <1>1
    <3>2. QED
      BY <3>1 DEF Block
  <2>2. PICK l \in Nat : DOMAIN c[n].txns = 1..l
    BY <2>1
  <2>3. IsFiniteSet(1..l)
    BY FS_Interval
  <2>4. Success(c[n]) \in SUBSET (1..l)
    BY <2>2 DEF Success
  <2>5. IsFiniteSet(Success(c[n]))
    BY <2>3, <2>4, FS_Subset
  <2>6. PICK S : S = Success(c[n])
    OBVIOUS
  <2> DEFINE g == [j \in S |-> [at |-> n, num |-> c[n].num, idx |-> j, txn |-> c[n].txns[j]]]
  <2>7. g \in Surjection(S, E(n))
    BY <2>6 DEF Surjection, Entries
  <2>8. QED
    BY <2>5, <2>6, <2>7, FS_Surjection
<1>3. IsFiniteSet(family)
  <2>1. IsFiniteSet(1..Len(c))
    BY <1>1, FS_Interval
  <2>2. F \in Surjection(1..Len(c), family)
    BY DEF Surjection
  <2>3. QED
    BY <2>1, <2>2, FS_Surjection
<1>4. \A T \in family : IsFiniteSet(T)
  BY <1>2
<1>5. Past(c) = UNION family
  BY <1>1 DEF Past
<1>6. QED
  BY <1>3, <1>4, <1>5, FS_UNION

(* A poll whose history is sound, with a vote in the confirmed part: its   *)
(* launch is there, the only one, and VotingStatus counts the votes of the *)
(* confirmed part for the options of that launch.                          *)
Counted(c, poll) ==
  /\ poll \in Launched(c)
  /\ \A i \in DOMAIN OptionsOf(c, poll) :
       VotingStatus(c, poll).counts[i] =
         Cardinality({e \in Votes(Past(ConfirmedPart(c)), poll) :
                        OptionsOf(c, poll)[i] \in Range(Data[e.txn].choice)})

LEMMA TwoElements ==
  ASSUME NEW x, NEW y, y \notin {x}
  PROVE  Cardinality({x} \cup {y}) = 2
<1> DEFINE S == {x}
<1>1. IsFiniteSet(S) /\ Cardinality(S) = 1 /\ y \notin S
  BY FS_Singleton
<1> HIDE DEF S
<1>2. Cardinality(S \cup {y}) = IF y \in S THEN Cardinality(S) ELSE Cardinality(S) + 1
  BY <1>1, FS_AddElement
<1>3. Cardinality(S \cup {y}) = 2
  BY <1>1, <1>2
<1>4. QED
  BY <1>3 DEF S

LEMMA CountedFor ==
  ASSUME NEW c \in Chain, PollHistory(c), NEW v \in Past(ConfirmedPart(c)),
         Data[v.txn].method = "Vote", NEW poll, Data[v.txn].poll = poll
  PROVE  Counted(c, poll)
<1> DEFINE p == ConfirmedPart(c)
           events == Events(Past(p), poll)
           ended == {d \in events : Data[d.txn].method = "Terminate"}
           launch == CHOOSE d \in events : Data[d.txn].method = "Launch"
           first == CHOOSE e \in Past(c) : Data[e.txn].method = "Launch" /\
                                           Data[e.txn].poll = poll
<1>1. /\ p \in Chain /\ Len(p) \in Nat
      /\ Past(p) = {e \in Past(c) : e.at <= Len(p)}
  <2>1. p \in Chain /\ Past(p) = {e \in Past(c) : e.at <= Len(p)}
    BY ConfirmedFacts
  <2> HIDE DEF p
  <2>2. Len(p) \in Nat
    BY <2>1 DEF Chain
  <2>3. QED
    BY <2>1, <2>2
<1>2. v \in Past(c) /\ v.at <= Len(p)
  BY <1>1
<1> HIDE DEF p
<1>3. PICK l \in Past(c) : /\ Data[l.txn].method = "Launch"
                           /\ Data[l.txn].poll = poll /\ Before(l, v)
  BY <1>2 DEF PollHistory, WithinLaunch, SamePoll
<1>4. l \in Past(p)
  <2>1. l.at \in Nat /\ v.at \in Nat
    BY <1>2, PastType
  <2>2. l.at <= Len(p)
    BY <1>1, <1>2, <1>3, <2>1 DEF Before
  <2>3. QED
    BY <1>1, <2>2
<1>5. \A d \in Past(c) : Data[d.txn].method = "Launch" /\ Data[d.txn].poll = poll => d = l
  BY <1>3 DEF PollHistory, LaunchedAndEndedOnce, SamePoll
<1>6. \A d, e \in Past(c) :
        /\ Data[d.txn].method = "Terminate" /\ Data[d.txn].poll = poll
        /\ Data[e.txn].method = "Terminate" /\ Data[e.txn].poll = poll
        => d = e
  BY DEF PollHistory, LaunchedAndEndedOnce, SamePoll
<1>7. first = l
  BY <1>3, <1>5
<1>8. events \subseteq Past(c) /\ l \in events
      /\ \A d \in events : /\ Data[d.txn].poll = poll
                           /\ Data[d.txn].method \in {"Launch", "Terminate"}
  BY <1>1, <1>3, <1>4 DEF Events, Of
<1> HIDE DEF events
<1>9. launch = l
  BY <1>3, <1>5, <1>8
<1>10. Cardinality(events) \in {1, 2}
  <2>1. CASE ended = {}
    <3>1. events = {l}
      BY <1>5, <1>8, <2>1
    <3>2. QED
      BY <3>1, FS_Singleton
  <2>2. CASE ended # {}
    <3>1. PICK d \in events : Data[d.txn].method = "Terminate"
      BY <2>2
    <3>2. events = {l} \cup {d} /\ d \notin {l}
      BY <1>3, <1>5, <1>6, <1>8, <3>1
    <3>3. QED
      BY <3>2, TwoElements
  <2>3. QED
    BY <2>1, <2>2
<1>11. poll \in Launched(c)
  <2>1. l \in Events(Past(p), poll)
    BY <1>8 DEF events
  <2>2. Data[l.txn].poll = poll
    BY <1>3
  <2>3. QED
    BY <1>4, <2>2 DEF Launched, p
<1>12. OptionsOf(c, poll) = Data[l.txn].rules.options
  BY <1>7 DEF OptionsOf
<1>13. VotingStatus(c, poll).counts =
         [i \in DOMAIN Data[launch.txn].rules.options |->
            Cardinality({e \in Votes(Past(p), poll) :
               Data[launch.txn].rules.options[i] \in Range(Data[e.txn].choice)})]
  BY <1>10 DEF VotingStatus, events, p
<1> HIDE DEF launch
<1>14. QED
  BY <1>9, <1>11, <1>12, <1>13 DEF p, Counted

(* At least as many votes are counted for an option as are reported.       *)
LEMMA ReportedAreCounted ==
  ASSUME NEW c \in Chain, NEW poll, NEW option
  PROVE  Cardinality(Reported(c, poll, option)) <=
           Cardinality({e \in Votes(Past(ConfirmedPart(c)), poll) :
                          option \in Range(Data[e.txn].choice)})
<1> DEFINE P == Past(ConfirmedPart(c))
           R == Reported(c, poll, option)
           counted == {e \in Votes(P, poll) : option \in Range(Data[e.txn].choice)}
           f == [t \in R |-> CHOOSE e \in counted : e.txn = t]
<1>1. ASSUME NEW t \in R
      PROVE  \E e \in counted : e.txn = t
  <2>1. /\ t \in Txn /\ Data[t].method = "Vote" /\ Data[t].poll = poll
        /\ option \in Range(Data[t].choice)
        /\ TxnStatus(c, t).code = "Success"
        /\ TxnStatus(c, t).confirmed >= NumConfirmed
    BY DEF Reported
  <2>2. PICK e \in P : e.txn = t
    BY <2>1, ReportedIsPast DEF SuccessShown
  <2>3. e \in counted
    BY <2>1, <2>2 DEF Votes, Of
  <2>4. QED
    BY <2>2, <2>3
<1>2. IsFiniteSet(counted)
  <2>1. IsFiniteSet(P)
    BY ConfirmedFacts, PastFinite
  <2>2. counted \in SUBSET P
    BY DEF Votes, Of
  <2>3. QED
    BY <2>1, <2>2, FS_Subset
<1> HIDE DEF counted, R
<1>3. \A t \in R : f[t] \in counted /\ f[t].txn = t
  BY <1>1
<1>4. f \in Injection(R, counted)
  <2>1. f \in [R -> counted]
    BY <1>3
  <2>2. \A s, t \in R : f[s] = f[t] => s = t
    BY <1>3
  <2> HIDE DEF f
  <2>3. QED
    BY <2>1, <2>2 DEF Injection, IsInjective
<1>5. Cardinality(R) <= Cardinality(counted)
  BY <1>2, <1>4, FS_Injection
<1>6. QED
  BY <1>5 DEF R, counted

(* A vote that QueryTxn reports as successful under NumConfirmed blocks is *)
(* counted by QueryResults, whatever forks and crashes came before.        *)
THEOREM TallyCoversReportedHolds == Spec => []TallyCoversReported
<1>1. ASSUME TypeOK, PollLife
      PROVE  TallyCoversReported
  <2>1. lastHash \in Chain /\ PollHistory(lastHash)
    BY <1>1 DEF TypeOK, PollLife
  <2>2. PICK c \in Chain : c = lastHash /\ PollHistory(c)
    BY <2>1
  <2>3. ASSUME NEW t \in Txn, Data[t].method = "Vote",
               NEW option, t \in Reported(c, Data[t].poll, option)
        PROVE  /\ Data[t].poll \in Launched(c)
               /\ \A i \in DOMAIN OptionsOf(c, Data[t].poll) :
                    VotingStatus(c, Data[t].poll).counts[i]
                      >= Cardinality(Reported(c, Data[t].poll, OptionsOf(c, Data[t].poll)[i]))
    <3>1. PICK v \in Past(ConfirmedPart(c)) : v.txn = t
      BY <2>3, ReportedIsPast DEF Reported, SuccessShown
    <3>2. PICK poll : poll = Data[t].poll
      OBVIOUS
    <3>3. Data[v.txn].method = "Vote" /\ Data[v.txn].poll = poll
      BY <2>3, <3>1, <3>2
    <3>4. Counted(c, poll)
      BY <2>2, <3>3, CountedFor
    <3>5. ASSUME NEW i \in DOMAIN OptionsOf(c, poll)
          PROVE  VotingStatus(c, poll).counts[i]
                   >= Cardinality(Reported(c, poll, OptionsOf(c, poll)[i]))
      <4>1. PICK o : o = OptionsOf(c, poll)[i]
        OBVIOUS
      <4>2. Cardinality(Reported(c, poll, o)) <=
              Cardinality({e \in Votes(Past(ConfirmedPart(c)), poll) :
                             o \in Range(Data[e.txn].choice)})
        BY ReportedAreCounted
      <4>3. VotingStatus(c, poll).counts[i] =
              Cardinality({e \in Votes(Past(ConfirmedPart(c)), poll) :
                             o \in Range(Data[e.txn].choice)})
        BY <3>4, <4>1 DEF Counted
      <4>4. QED
        BY <4>1, <4>2, <4>3
    <3>6. QED
      BY <3>2, <3>4, <3>5 DEF Counted
  <2>4. QED
    BY <2>2, <2>3 DEF TallyCoversReported
<1>2. QED
  BY <1>1, TypeCorrect, PollLifeHolds, PTL
=============================================================================
