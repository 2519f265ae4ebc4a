------------------------- MODULE Membership_proofs -------------------------
(***************************************************************************)
(* Theorems about the peer lists, for every finite set of miners, every    *)
(* bound on starts, calls and failures, and lossy networks or not.         *)
(***************************************************************************)
EXTENDS Membership, SequenceTheorems, FiniteSetTheorems, WellFoundedInduction, TLAPS

-----------------------------------------------------------------------------
(* What is meant by a sound list, and how a list may change while its      *)
(* owner runs: nobody moves in it or leaves it, and nobody in contact is   *)
(* taken back to an earlier life.                                          *)
Distinct(l) == \A i, j \in DOMAIN l : l[i].id = l[j].id => i = j

Sound(n, l) == Distinct(l) /\ \A i \in DOMAIN l : l[i].id # n

Lists(l, id) == \E i \in DOMAIN l : l[i].id = id

Goes(l, k) == \A i \in DOMAIN l : /\ i \in DOMAIN k /\ k[i].id = l[i].id
                                  /\ l[i].active => k[i].at >= l[i].at

(* The inductive invariant.                                                *)
Started == \A n \in Node : phase[n] = "up" => life[n] >= 1

ListsDistinct == \A n \in Node \ overwritten : Distinct(peers[n])

DiskDistinct == \A n \in Node : \A p, q \in saved[n] : p.id = q.id => p = q

Forgotten == \A n \in Node \ overwritten : phase[n] # "up" => known[n] = {}

GetsSound == \A g \in gets : /\ phase[g.of] = "up"
                             /\ g.of \notin overwritten => Sound(g.of, g.list)

ListsInvariant == Started /\ ListsDistinct /\ DiskDistinct /\ Forgotten
                  /\ GetsSound /\ ListSound /\ HeardIsListed

Rises(l, k) == \A i \in DOMAIN l : /\ i \in DOMAIN k /\ k[i].id = l[i].id
                                   /\ k[i].at >= l[i].at

-----------------------------------------------------------------------------
(* Induction and the least number, of sets of natural numbers.             *)
LEMMA Least ==
  ASSUME NEW T, T \subseteq Nat, T # {}
  PROVE  \E x \in T : \A y \in T : x <= y
<1>1. IsWellFoundedOn(OpToRel(<, Nat), Nat)
  BY NatLessThanWellFounded
<1>2. PICK x \in T : \A y \in T : ~(<<y, x>> \in OpToRel(<, Nat))
  BY <1>1, WFMin
<1>3. \A y \in T : ~(y < x)
  BY <1>2 DEF OpToRel
<1>4. QED
  BY <1>3

LEMMA SetInduction ==
  ASSUME NEW T, 0 \in T, \A n \in Nat : n \in T => n + 1 \in T
  PROVE  Nat \subseteq T
<1> SUFFICES ASSUME Nat \ T # {} PROVE FALSE
  OBVIOUS
<1>1. PICK x \in Nat \ T : \A y \in Nat \ T : x <= y
  BY Least
<1>2. x # 0 /\ x - 1 \in Nat /\ (x - 1) + 1 = x /\ ~(x <= x - 1)
  BY <1>1
<1>3. x - 1 \in T
  BY <1>1, <1>2
<1>4. QED
  BY <1>1, <1>2, <1>3

(* The elements of a finite set, one after the other.                      *)
LEMMA SetToSeqIs ==
  ASSUME NEW S, IsFiniteSet(S)
  PROVE  /\ SetToSeq(S) \in Seq(S)
         /\ \A e \in S : \E i \in DOMAIN SetToSeq(S) : SetToSeq(S)[i] = e
         /\ \A i, j \in DOMAIN SetToSeq(S) : SetToSeq(S)[i] = SetToSeq(S)[j] => i = j
<1>1. PICK n \in Nat : ExistsBijection(1..n, S)
  BY FS_NatBijection
<1>2. Cardinality(S) = n
  BY <1>1, FS_CountingElements
<1>3. PICK g \in Bijection(1..n, S) : TRUE
  BY <1>1 DEF ExistsBijection
<1>4. g \in [1..n -> S] /\ IsInjective(g)
  BY <1>3 DEF Bijection, Injection, IsInjective
<1>5. SetToSeq(S) \in [1..n -> S] /\ IsInjective(SetToSeq(S))
  BY <1>2, <1>4 DEF SetToSeq
<1>6. SetToSeq(S) \in Seq(S)
  BY <1>5, SeqDef
<1> DEFINE f == SetToSeq(S)
<1> HIDE DEF f
<1>7. f \in Injection(1..n, S)
  BY <1>5 DEF f, Injection, IsInjective
<1>8. Cardinality(1..n) = n
  <2>1. IsFiniteSet(1..n) /\ Cardinality(1..n) = IF 1 > n THEN 0 ELSE n - 1 + 1
    BY FS_Interval
  <2>2. QED
    BY <2>1
<1>9. f \in Surjection(1..n, S)
  BY <1>2, <1>7, <1>8, FS_Injection
<1>10. DOMAIN f = 1..n /\ \A e \in S : \E i \in 1..n : f[i] = e
  BY <1>5, <1>9 DEF f, Surjection
<1>11. \A i, j \in 1..n : f[i] = f[j] => i = j
  BY <1>5, <1>10 DEF f, IsInjective
<1>12. QED
  BY <1>6, <1>10, <1>11 DEF f

-----------------------------------------------------------------------------
(* The operations on lists.                                                *)
LEMMA ListIs ==
  ASSUME NEW l \in Seq(PeerRecord)
  PROVE  /\ Len(l) \in Nat /\ DOMAIN l = 1..Len(l)
         /\ \A i \in DOMAIN l : /\ l[i] \in PeerRecord /\ l[i].id \in Node
                                /\ l[i].at \in Nat /\ l[i].active \in BOOLEAN
<1>1. /\ Len(l) \in Nat /\ DOMAIN l = 1..Len(l)
      /\ \A i \in DOMAIN l : l[i] \in PeerRecord
  OBVIOUS
<1>2. MaxLives \in Nat
  BY MembershipAssumption
<1>3. \A p \in PeerRecord : p.id \in Node /\ p.at \in Nat /\ p.active \in BOOLEAN
  BY <1>2 DEF PeerRecord
<1>4. QED
  BY <1>1, <1>3

LEMMA PlaceIs ==
  ASSUME NEW l \in Seq(PeerRecord), NEW id
  PROVE  \/ Place(l, id) \in DOMAIN l /\ Place(l, id) # 0 /\ l[Place(l, id)].id = id
         \/ Place(l, id) = 0 /\ \A i \in DOMAIN l : l[i].id # id
<1> DEFINE I == {i \in 1..Len(l) : l[i].id = id}
<1>1. Place(l, id) = IF I # {} THEN CHOOSE x \in I : \A y \in I : x =< y ELSE 0
  BY DEF Place, SelectInSeq, Min
<1>2. DOMAIN l = 1..Len(l) /\ Len(l) \in Nat /\ I \subseteq Nat
  BY ListIs
<1>3. CASE I = {}
  BY <1>1, <1>2, <1>3
<1>4. CASE I # {}
  <2> HIDE DEF I
  <2>1. \E x \in I : \A y \in I : x <= y
    BY <1>2, <1>4, Least
  <2>2. Place(l, id) \in I
    BY <1>1, <1>4, <2>1
  <2>3. QED
    BY <1>2, <2>2 DEF I
<1>5. QED
  BY <1>3, <1>4

LEMMA RisesOn ==
  ASSUME NEW l \in Seq(PeerRecord), NEW k \in Seq(PeerRecord),
         NEW k2 \in Seq(PeerRecord), Rises(k, k2)
  PROVE  /\ Rises(l, k) => Rises(l, k2)
         /\ Goes(l, k) => Goes(l, k2)
<1>1. \A i \in DOMAIN l : l[i].at \in Nat
  BY ListIs
<1>2. \A i \in DOMAIN k : k[i].at \in Nat
  BY ListIs
<1>3. \A i \in DOMAIN k2 : k2[i].at \in Nat
  BY ListIs
<1>4. ASSUME NEW i \in DOMAIN l, i \in DOMAIN k, k[i].id = l[i].id
      PROVE  /\ i \in DOMAIN k2 /\ k2[i].id = l[i].id
             /\ k[i].at >= l[i].at => k2[i].at >= l[i].at
  <2>1. i \in DOMAIN k2 /\ k2[i].id = k[i].id /\ k2[i].at >= k[i].at
    BY <1>4 DEF Rises
  <2>2. l[i].at \in Nat /\ k[i].at \in Nat /\ k2[i].at \in Nat
    BY <1>1, <1>2, <1>3, <1>4, <2>1
  <2>3. QED
    BY <1>4, <2>1, <2>2
<1>5. Rises(l, k) => Rises(l, k2)
  BY <1>4 DEF Rises
<1>6. Goes(l, k) => Goes(l, k2)
  BY <1>4 DEF Goes
<1>7. QED
  BY <1>5, <1>6

LEMMA AddIs ==
  ASSUME NEW n, NEW l \in Seq(PeerRecord), NEW p \in PeerRecord,
         NEW k, k = AddOrUpdatePeer(n, l, p)
  PROVE  /\ k \in Seq(PeerRecord)
         /\ Rises(l, k)
         /\ Sound(n, l) => Sound(n, k)
         /\ p.id = n \/ Lists(k, p.id)
<1> DEFINE a == Place(l, p.id)
<1>1. /\ Len(l) \in Nat /\ DOMAIN l = 1..Len(l)
      /\ \A i \in DOMAIN l : l[i] \in PeerRecord /\ l[i].at \in Nat
      /\ p.at \in Nat
  <2>1. <<p>> \in Seq(PeerRecord) /\ <<p>>[1] = p /\ 1 \in DOMAIN <<p>>
    OBVIOUS
  <2>2. p.at \in Nat
    BY <2>1, ListIs
  <2>3. QED
    BY <2>2, ListIs
<1>2. \/ a \in DOMAIN l /\ a # 0 /\ l[a].id = p.id
      \/ a = 0 /\ \A i \in DOMAIN l : l[i].id # p.id
  BY PlaceIs
<1>3. k = IF p.id = n THEN l
          ELSE IF a = 0 THEN Append(l, p)
          ELSE IF p.at > l[a].at THEN [l EXCEPT ![a] = p] ELSE l
  BY DEF AddOrUpdatePeer
<1> HIDE DEF a
<1>4. CASE k = l /\ (p.id = n \/ (a \in DOMAIN l /\ l[a].id = p.id))
  BY <1>1, <1>4 DEF Rises, Lists
<1>5. CASE p.id # n /\ a = 0 /\ k = Append(l, p)
  <2>1. /\ k \in Seq(PeerRecord) /\ DOMAIN k = 1..(Len(l) + 1)
        /\ k[Len(l) + 1] = p /\ \A i \in DOMAIN l : k[i] = l[i]
    BY <1>1, <1>5
  <2>2. Rises(l, k)
    BY <1>1, <2>1 DEF Rises
  <2>3. \A i \in DOMAIN k : i \in DOMAIN l \/ i = Len(l) + 1
    BY <1>1, <2>1
  <2>4. Sound(n, l) => Sound(n, k)
    BY <1>1, <1>2, <1>5, <2>1, <2>3 DEF Sound, Distinct
  <2>5. Lists(k, p.id)
    BY <1>1, <2>1 DEF Lists
  <2>6. QED
    BY <2>1, <2>2, <2>4, <2>5
<1>6. CASE p.id # n /\ a \in DOMAIN l /\ l[a].id = p.id /\ p.at > l[a].at /\ k = [l EXCEPT ![a] = p]
  <2>1. /\ k \in Seq(PeerRecord) /\ DOMAIN k = DOMAIN l
        /\ k[a] = p /\ \A i \in DOMAIN l : i # a => k[i] = l[i]
    BY <1>1, <1>6
  <2>2. \A i \in DOMAIN l : k[i].id = l[i].id /\ k[i].at >= l[i].at
    BY <1>1, <1>6, <2>1
  <2>3. QED
    BY <1>6, <2>1, <2>2 DEF Rises, Sound, Distinct, Lists
<1>7. QED
  BY <1>2, <1>3, <1>4, <1>5, <1>6

LEMMA ActiveIs ==
  ASSUME NEW l \in Seq(PeerRecord), NEW p \in PeerRecord, NEW k,
         k = SetActive(l, p)
  PROVE  k \in Seq(PeerRecord) /\ DOMAIN k = DOMAIN l
         /\ (\A i \in DOMAIN l : k[i].id = l[i].id)
         /\ Goes(l, k)
<1> DEFINE a == Place(l, p.id)
           q == [p EXCEPT !.active = TRUE]
<1>1. /\ DOMAIN l = 1..Len(l)
      /\ \A i \in DOMAIN l : l[i] \in PeerRecord /\ l[i].at \in Nat
  BY ListIs
<1>2. \/ a \in DOMAIN l /\ a # 0 /\ l[a].id = p.id
      \/ a = 0 /\ \A i \in DOMAIN l : l[i].id # p.id
  BY PlaceIs
<1>3. q \in PeerRecord /\ q.id = p.id
  BY DEF PeerRecord
<1>4. k = IF a # 0 /\ ~l[a].active THEN [l EXCEPT ![a] = q] ELSE l
  BY DEF SetActive
<1> HIDE DEF a, q
<1>5. CASE k = l
  BY <1>1, <1>5 DEF Goes
<1>6. CASE a \in DOMAIN l /\ l[a].id = p.id /\ ~l[a].active /\ k = [l EXCEPT ![a] = q]
  <2>1. /\ k \in Seq(PeerRecord) /\ DOMAIN k = DOMAIN l
        /\ k[a] = q /\ \A i \in DOMAIN l : i # a => k[i] = l[i]
    BY <1>1, <1>3, <1>6
  <2>2. \A i \in DOMAIN l : k[i].id = l[i].id
    BY <1>3, <1>6, <2>1
  <2>3. Goes(l, k)
    BY <1>1, <1>6, <2>1, <2>2 DEF Goes
  <2>4. QED
    BY <2>1, <2>2, <2>3
<1>7. QED
  BY <1>2, <1>4, <1>5, <1>6

LEMMA InactiveIs ==
  ASSUME NEW l \in Seq(PeerRecord), NEW p \in PeerRecord, NEW k,
         k = SetInactive(l, p)
  PROVE  k \in Seq(PeerRecord) /\ DOMAIN k = DOMAIN l
         /\ (\A i \in DOMAIN l : k[i].id = l[i].id)
         /\ Goes(l, k)
<1> DEFINE a == Place(l, p.id)
           q == [l[a] EXCEPT !.active = FALSE]
<1>1. /\ DOMAIN l = 1..Len(l)
      /\ \A i \in DOMAIN l : l[i] \in PeerRecord /\ l[i].at \in Nat
  BY ListIs
<1>2. a \in DOMAIN l \/ a = 0
  BY PlaceIs
<1>3. a \in DOMAIN l => q \in PeerRecord /\ q.id = l[a].id /\ q.at = l[a].at
  <2>1. \A r \in PeerRecord : LET t == [r EXCEPT !.active = FALSE]
                              IN  t \in PeerRecord /\ t.id = r.id /\ t.at = r.at
    BY DEF PeerRecord
  <2>2. QED
    BY <1>1, <2>1
<1>4. k = IF a # 0 THEN [l EXCEPT ![a] = q] ELSE l
  BY DEF SetInactive
<1> HIDE DEF a, q
<1>5. CASE k = l
  BY <1>1, <1>5 DEF Goes
<1>6. CASE a \in DOMAIN l /\ k = [l EXCEPT ![a] = q]
  <2>1. /\ k \in Seq(PeerRecord) /\ DOMAIN k = DOMAIN l
        /\ k[a] = q /\ \A i \in DOMAIN l : i # a => k[i] = l[i]
    BY <1>1, <1>3, <1>6
  <2>2. \A i \in DOMAIN l : k[i].id = l[i].id /\ k[i].at = l[i].at
    BY <1>3, <1>6, <2>1
  <2>3. Goes(l, k)
    BY <1>1, <2>1, <2>2 DEF Goes
  <2>4. QED
    BY <2>1, <2>2, <2>3
<1>7. QED
  BY <1>2, <1>4, <1>5, <1>6

(* The library takes a list without its owner.                             *)
LEMMA SetPeersIs ==
  ASSUME NEW n, NEW l \in Seq(PeerRecord), NEW k, k = SetPeers(n, l)
  PROVE  /\ k \in Seq(PeerRecord)
         /\ Distinct(l) => Sound(n, k)
         /\ \A i \in DOMAIN l : l[i].id = n \/ Lists(k, l[i].id)
<1> DEFINE a == Place(l, n)
<1>1. /\ Len(l) \in Nat /\ DOMAIN l = 1..Len(l)
  BY ListIs
<1>2. \/ a \in DOMAIN l /\ a # 0 /\ l[a].id = n
      \/ a = 0 /\ \A i \in DOMAIN l : l[i].id # n
  BY PlaceIs
<1>3. k = IF \E i \in 1..Len(l) : l[i].id = n
          THEN SubSeq(l, 1, a - 1) \o SubSeq(l, a + 1, Len(l)) ELSE l
  BY DEF SetPeers, RemoveFirstMatch, RemoveAt, Place
<1> HIDE DEF a
<1>4. CASE \A i \in DOMAIN l : l[i].id # n
  <2>1. k = l
    BY <1>1, <1>3, <1>4
  <2>2. QED
    BY <1>4, <2>1 DEF Sound, Lists
<1>5. CASE a \in DOMAIN l /\ l[a].id = n
  <2> DEFINE u == SubSeq(l, 1, a - 1)
             v == SubSeq(l, a + 1, Len(l))
  <2>1. /\ u \in Seq(PeerRecord) /\ Len(u) = a - 1
        /\ \A i \in 1..(a - 1) : u[i] = l[i]
    BY <1>1, <1>5
  <2>2. /\ v \in Seq(PeerRecord) /\ Len(v) = Len(l) - a
        /\ \A i \in 1..(Len(l) - a) : v[i] = l[a + i]
    BY <1>1, <1>5
  <2>3. k = u \o v
    BY <1>1, <1>3, <1>5
  <2> HIDE DEF u, v
  <2>4. /\ k \in Seq(PeerRecord) /\ DOMAIN k = 1..(Len(l) - 1)
        /\ \A i \in 1..(Len(l) - 1) : k[i] = IF i < a THEN l[i] ELSE l[i + 1]
    <3>1. k \in Seq(PeerRecord) /\ Len(k) = Len(u) + Len(v)
          /\ \A i \in 1..Len(k) : k[i] = IF i <= Len(u) THEN u[i] ELSE v[i - Len(u)]
      <4>1. \A x, y \in Seq(PeerRecord) :
              /\ x \o y \in Seq(PeerRecord)
              /\ Len(x \o y) = Len(x) + Len(y)
              /\ \A i \in 1..(Len(x) + Len(y)) :
                   (x \o y)[i] = IF i <= Len(x) THEN x[i] ELSE y[i - Len(x)]
        BY ConcatProperties
      <4>2. /\ u \o v \in Seq(PeerRecord)
            /\ Len(u \o v) = Len(u) + Len(v)
            /\ \A i \in 1..(Len(u) + Len(v)) :
                 (u \o v)[i] = IF i <= Len(u) THEN u[i] ELSE v[i - Len(u)]
        BY <2>1, <2>2, <4>1, Zenon
      <4>3. QED
        BY <2>3, <4>2, Zenon
    <3>2. Len(k) = Len(l) - 1 /\ DOMAIN k = 1..(Len(l) - 1)
      BY <1>1, <1>5, <2>1, <2>2, <3>1
    <3>3. ASSUME NEW i \in 1..(Len(l) - 1)
          PROVE  k[i] = IF i < a THEN l[i] ELSE l[i + 1]
      <4>1. CASE i < a
        <5>1. i \in 1..(a - 1) /\ i <= Len(u)
          BY <1>1, <1>5, <2>1, <4>1
        <5>2. QED
          BY <2>1, <3>1, <3>2, <4>1, <5>1
      <4>2. CASE ~(i < a)
        <5>1. i - Len(u) \in 1..(Len(l) - a) /\ ~(i <= Len(u)) /\ a + (i - Len(u)) = i + 1
          BY <1>1, <1>5, <2>1, <4>2
        <5>2. QED
          BY <2>2, <3>1, <3>2, <4>2, <5>1
      <4>3. QED
        BY <4>1, <4>2
    <3>4. QED
      BY <3>1, <3>2, <3>3
  <2> DEFINE from(i) == IF i < a THEN i ELSE i + 1
  <2>5. \A i \in DOMAIN k : /\ from(i) \in DOMAIN l /\ k[i] = l[from(i)] /\ from(i) # a
                            /\ \A j \in DOMAIN k : from(i) = from(j) => i = j
    BY <1>1, <1>5, <2>4
  <2>6. ASSUME Distinct(l)
        PROVE  Sound(n, k)
    <3> HIDE DEF from
    <3>1. \A i \in DOMAIN k : k[i].id # n
      BY <1>5, <2>5, <2>6 DEF Distinct
    <3>2. \A i, j \in DOMAIN k : k[i].id = k[j].id => from(i) = from(j)
      BY <2>5, <2>6 DEF Distinct
    <3>3. Distinct(k)
      BY <2>5, <3>2 DEF Distinct
    <3>4. QED
      BY <3>1, <3>3 DEF Sound
  <2>7. ASSUME NEW i \in DOMAIN l, l[i].id # n
        PROVE  Lists(k, l[i].id)
    <3>1. CASE i < a
      BY <1>1, <1>5, <2>4, <3>1 DEF Lists
    <3>2. CASE ~(i < a)
      <4>1. i # a
        BY <1>5, <2>7
      <4>2. i - 1 \in 1..(Len(l) - 1) /\ ~(i - 1 < a) /\ (i - 1) + 1 = i
        BY <1>1, <1>5, <3>2, <4>1
      <4>3. QED
        BY <2>4, <4>2 DEF Lists
    <3>3. QED
      BY <3>1, <3>2
  <2>8. QED
    BY <2>4, <2>6, <2>7
<1>6. QED
  BY <1>2, <1>4, <1>5

-----------------------------------------------------------------------------
(* There are finitely many peers and announcements: the sequences made of  *)
(* sets of them are well defined.                                          *)
LEMMA PeersFinite == IsFiniteSet(PeerRecord)
<1>1. IsFiniteSet(Node)
  BY MembershipAssumption, FS_AddElement DEF Node
<1>2. IsFiniteSet(1..MaxLives)
  BY MembershipAssumption, FS_Interval
<1>3. IsFiniteSet(BOOLEAN)
  <2>1. IsFiniteSet({TRUE} \cup {FALSE})
    BY FS_Singleton, FS_AddElement
  <2>2. BOOLEAN = {TRUE} \cup {FALSE}
    OBVIOUS
  <2>3. QED
    BY <2>1, <2>2
<1>4. IsFiniteSet((Node \X (1..MaxLives)) \X BOOLEAN)
  <2>1. IsFiniteSet(Node \X (1..MaxLives))
    BY <1>1, <1>2, FS_Product
  <2>2. QED
    BY <1>3, <2>1, FS_Product
<1> DEFINE f == [p \in PeerRecord |-> <<<<p.id, p.at>>, p.active>>]
<1>5. f \in Injection(PeerRecord, (Node \X (1..MaxLives)) \X BOOLEAN)
  <2>1. f \in [PeerRecord -> (Node \X (1..MaxLives)) \X BOOLEAN]
    BY DEF PeerRecord
  <2>2. ASSUME NEW p \in PeerRecord, NEW q \in PeerRecord, f[p] = f[q]
        PROVE  p = q
    <3>1. p.id = q.id /\ p.at = q.at /\ p.active = q.active
      BY <2>2
    <3>2. QED
      BY <3>1 DEF PeerRecord
  <2>3. QED
    BY <2>1, <2>2 DEF Injection, IsInjective
<1>6. QED
  BY <1>4, <1>5, FS_Injection

LEMMA AnnouncementsAre ==
  /\ \A m \in Node, at \in 1..MaxLives :
       /\ Self(m, at) \in PeerRecord /\ Self(m, at).id = m /\ Self(m, at).at = at
       /\ m \in Miner => Self(m, at) \in Announcement
  /\ Announcement \subseteq PeerRecord
  /\ \A u \in Announcement : u.id \in Miner
<1>1. Miner \subseteq Node
  BY DEF Node
<1>2. \A m \in Node, at \in 1..MaxLives :
        Self(m, at) \in PeerRecord /\ Self(m, at).id = m /\ Self(m, at).at = at
  BY DEF Self, PeerRecord
<1>3. ASSUME NEW m \in Miner, NEW at \in 1..MaxLives
      PROVE  Self(m, at) \in Announcement
  BY DEF Announcement
<1>4. ASSUME NEW u \in Announcement
      PROVE  u \in PeerRecord /\ u.id \in Miner
  <2>1. PICK m \in Miner, at \in 1..MaxLives : u = Self(m, at)
    BY DEF Announcement
  <2>2. QED
    BY <1>1, <1>2, <2>1
<1>5. QED
  BY <1>2, <1>3, <1>4

-----------------------------------------------------------------------------
(* A chain of updates of one list.                                         *)
IsChain(n, list, new, N, f) ==
  f = [i \in 0..N |-> IF i = 0 THEN list
                      ELSE AddOrUpdatePeer(n, f[i - 1], new[i])]

Chain(n, list, new, N) == CHOOSE f : IsChain(n, list, new, N, f)

LEMMA ChainIs ==
  ASSUME NEW n, NEW list, NEW new, NEW N \in Nat, NEW f, IsChain(n, list, new, N, f)
  PROVE  /\ f[0] = list
         /\ \A i \in 1..N : f[i] = AddOrUpdatePeer(n, f[i - 1], new[i])
<1>1. 0 \in 0..N /\ \A i \in 1..N : i \in 0..N /\ i # 0
  OBVIOUS
<1>2. QED
  BY <1>1 DEF IsChain

LEMMA ChainExists ==
  ASSUME NEW n, NEW list, NEW new, NEW N \in Nat
  PROVE  IsChain(n, list, new, N, Chain(n, list, new, N))
<1> DEFINE Built(m, f) == IsChain(n, list, new, m, f)
           T == {m \in Nat : \E f : Built(m, f)}
<1>1. 0 \in T
  <2> DEFINE g == [i \in 0..0 |-> list]
  <2>1. g = [i \in 0..0 |-> IF i = 0 THEN list
                            ELSE AddOrUpdatePeer(n, g[i - 1], new[i])]
    OBVIOUS
  <2>2. Built(0, g)
    BY <2>1 DEF IsChain
  <2>3. QED
    BY <2>2
<1>2. ASSUME NEW m \in Nat, m \in T
      PROVE  m + 1 \in T
  <2>1. PICK f : Built(m, f)
    BY <1>2
  <2>2. f[0] = list /\ \A i \in 1..m : f[i] = AddOrUpdatePeer(n, f[i - 1], new[i])
    BY <2>1, ChainIs
  <2> DEFINE g == [i \in 0..(m + 1) |->
                     IF i = m + 1 THEN AddOrUpdatePeer(n, f[m], new[m + 1]) ELSE f[i]]
  <2>3. /\ 0 \in 0..(m + 1) /\ m + 1 \in 0..(m + 1) /\ m \in 0..(m + 1)
        /\ m # m + 1 /\ 0 # m + 1 /\ (m + 1) - 1 = m
        /\ \A i \in 0..(m + 1) : \/ i = 0 \/ i = m + 1
                                 \/ /\ i \in 1..m /\ i # 0 /\ i # m + 1
                                    /\ i - 1 \in 0..(m + 1) /\ i - 1 # m + 1
    OBVIOUS
  <2>4. g[0] = list /\ g[m] = f[m]
        /\ g[m + 1] = AddOrUpdatePeer(n, f[m], new[m + 1])
    BY <2>2, <2>3
  <2>5. \A i \in 1..m : g[i] = f[i] /\ g[i - 1] = f[i - 1]
    BY <2>3
  <2> HIDE DEF g
  <2>6. ASSUME NEW i \in 0..(m + 1)
        PROVE  g[i] = IF i = 0 THEN list ELSE AddOrUpdatePeer(n, g[i - 1], new[i])
    <3>1. CASE i = 0
      BY <2>4, <3>1
    <3>2. CASE i = m + 1
      BY <2>3, <2>4, <3>2
    <3>3. CASE i \in 1..m /\ i # 0
      BY <2>2, <2>5, <3>3
    <3>4. QED
      BY <2>3, <3>1, <3>2, <3>3
  <2>7. g = [i \in 0..(m + 1) |-> g[i]]
    BY DEF g
  <2>8. Built(m + 1, g)
    BY <2>6, <2>7 DEF IsChain
  <2>9. QED
    BY <2>8
<1>3. N \in T
  <2> HIDE DEF T
  <2>1. QED
    BY <1>1, <1>2, SetInduction
<1>4. QED
  BY <1>3 DEF Chain

(* filterIncomingUpdate: every announcement that is news is heard.         *)
LEMMA WithAnnouncedIs ==
  ASSUME NEW n, NEW list \in Seq(PeerRecord), NEW updates \in SUBSET Announcement,
         NEW k, k = WithAnnounced(n, list, updates)
  PROVE  /\ k \in Seq(PeerRecord)
         /\ Rises(list, k)
         /\ Sound(n, list) => Sound(n, k)
         /\ \A u \in updates \ known[n] : u.id = n \/ Lists(k, u.id)
<1> DEFINE fresh == updates \ known[n]
<1>1. fresh \subseteq PeerRecord /\ IsFiniteSet(fresh)
  BY AnnouncementsAre, PeersFinite, FS_Subset
<1>2. PICK new : new = SetToSeq(fresh)
  OBVIOUS
<1>3. /\ new \in Seq(PeerRecord)
      /\ \A e \in fresh : \E i \in DOMAIN new : new[i] = e
  <2> HIDE DEF fresh
  <2>1. /\ new \in Seq(fresh)
        /\ \A e \in fresh : \E i \in DOMAIN new : new[i] = e
    BY <1>1, <1>2, SetToSeqIs
  <2>2. new \in Seq(PeerRecord)
    BY <1>1, <2>1
  <2>3. QED
    BY <2>1, <2>2
<1>4. PICK N : N = Len(new)
  OBVIOUS
<1>5. N \in Nat /\ DOMAIN new = 1..N /\ \A i \in 1..N : new[i] \in PeerRecord
  BY <1>3, <1>4
<1>6. PICK after : after = Chain(n, list, new, N)
  OBVIOUS
<1>7. k = after[N]
  BY <1>2, <1>4, <1>6 DEF WithAnnounced, Chain, IsChain
<1>8. after[0] = list /\ \A i \in 1..N : after[i] = AddOrUpdatePeer(n, after[i - 1], new[i])
  BY <1>5, <1>6, ChainExists, ChainIs
<1> DEFINE Fine(i) == /\ after[i] \in Seq(PeerRecord)
                      /\ Rises(list, after[i])
                      /\ Sound(n, list) => Sound(n, after[i])
                      /\ \A j \in 1..i : new[j].id = n \/ Lists(after[i], new[j].id)
           T == {i \in Nat : i <= N => Fine(i)}
<1>9. 0 \in T
  <2>1. Rises(list, list)
    BY ListIs DEF Rises
  <2>2. QED
    BY <1>8, <2>1
<1>10. ASSUME NEW i \in Nat, i \in T
       PROVE  i + 1 \in T
  <2> SUFFICES ASSUME i + 1 <= N PROVE Fine(i + 1)
    OBVIOUS
  <2>1. Fine(i) /\ i + 1 \in 1..N /\ (i + 1) - 1 = i
    BY <1>5, <1>10
  <2>2. new[i + 1] \in PeerRecord /\ after[i + 1] = AddOrUpdatePeer(n, after[i], new[i + 1])
    BY <1>5, <1>8, <2>1
  <2>3. /\ after[i + 1] \in Seq(PeerRecord)
        /\ Rises(after[i], after[i + 1])
        /\ Sound(n, after[i]) => Sound(n, after[i + 1])
        /\ new[i + 1].id = n \/ Lists(after[i + 1], new[i + 1].id)
    <3>1. PICK x : x = after[i]
      OBVIOUS
    <3>2. PICK y : y = after[i + 1]
      OBVIOUS
    <3>3. PICK p : p = new[i + 1]
      OBVIOUS
    <3>4. x \in Seq(PeerRecord) /\ p \in PeerRecord /\ y = AddOrUpdatePeer(n, x, p)
      BY <2>1, <2>2, <3>1, <3>2, <3>3
    <3>5. /\ y \in Seq(PeerRecord) /\ Rises(x, y)
          /\ Sound(n, x) => Sound(n, y)
          /\ p.id = n \/ Lists(y, p.id)
      BY <3>4, AddIs, Zenon
    <3>6. QED
      BY <3>1, <3>2, <3>3, <3>5
  <2>4. Rises(list, after[i + 1])
    BY <2>1, <2>3, RisesOn
  <2>5. \A id : Lists(after[i], id) => Lists(after[i + 1], id)
    BY <2>3 DEF Rises, Lists
  <2>6. ASSUME NEW j \in 1..(i + 1)
        PROVE  new[j].id = n \/ Lists(after[i + 1], new[j].id)
    <3>1. CASE j = i + 1
      BY <2>3, <3>1
    <3>2. CASE j # i + 1
      <4>1. j \in 1..i
        BY <3>2
      <4>2. QED
        BY <2>1, <2>5, <4>1
    <3>3. QED
      BY <3>1, <3>2
  <2>7. QED
    BY <2>1, <2>3, <2>4, <2>6
<1>11. Fine(N)
  <2>1. N \in T
    <3> HIDE DEF T
    <3>1. QED
      BY <1>5, <1>9, <1>10, SetInduction
  <2>2. QED
    BY <1>5, <2>1
<1>12. QED
  <2>1. \A u \in fresh : u.id = n \/ Lists(k, u.id)
    BY <1>3, <1>5, <1>7, <1>11
  <2>2. QED
    BY <1>7, <1>11, <2>1

-----------------------------------------------------------------------------
(* The lists that a start begins with.                                     *)
LEMMA RedecodedIs ==
  ASSUME NEW old \in Seq(PeerRecord), NEW new \in Seq(PeerRecord)
  PROVE  /\ Redecoded(old, new) \in Seq(PeerRecord)
         /\ DOMAIN Redecoded(old, new) = DOMAIN new
         /\ \A i \in DOMAIN new : Redecoded(old, new)[i].id = new[i].id
<1>1. /\ Len(new) \in Nat /\ DOMAIN new = 1..Len(new)
      /\ \A i \in DOMAIN new : new[i] \in PeerRecord
  BY ListIs
<1>2. /\ Len(old) \in Nat /\ DOMAIN old = 1..Len(old)
      /\ \A i \in DOMAIN old : old[i].active \in BOOLEAN
  BY ListIs
<1> DEFINE one(i) == [new[i] EXCEPT !.active = @ \/ old[i].active]
           r == [i \in DOMAIN new |-> one(i)]
<1>3. CASE Len(new) > Len(old)
  BY <1>1, <1>3 DEF Redecoded
<1>4. CASE ~(Len(new) > Len(old))
  <2>1. ASSUME NEW i \in DOMAIN new
        PROVE  one(i) \in PeerRecord /\ one(i).id = new[i].id
    <3>1. \A p \in PeerRecord, b \in BOOLEAN :
            LET t == [p EXCEPT !.active = @ \/ b]
            IN  t \in PeerRecord /\ t.id = p.id
      <4>1. ASSUME NEW p \in PeerRecord, NEW b \in BOOLEAN
            PROVE  LET t == [p EXCEPT !.active = @ \/ b]
                   IN  t \in PeerRecord /\ t.id = p.id
        <5>1. PICK c \in BOOLEAN : c = (p.active \/ b)
          OBVIOUS
        <5>2. [p EXCEPT !.active = c] \in PeerRecord /\ [p EXCEPT !.active = c].id = p.id
          BY DEF PeerRecord
        <5>3. QED
          BY <5>1, <5>2
      <4>2. QED
        BY <4>1
    <3>2. i \in DOMAIN old /\ new[i] \in PeerRecord /\ old[i].active \in BOOLEAN
      BY <1>1, <1>2, <1>4
    <3>3. QED
      BY <3>1, <3>2
  <2>2. Redecoded(old, new) = r
    BY <1>4 DEF Redecoded
  <2> HIDE DEF one
  <2>3. r \in [1..Len(new) -> PeerRecord] /\ \A i \in DOMAIN new : r[i].id = new[i].id
    BY <1>1, <2>1
  <2>4. r \in Seq(PeerRecord) /\ DOMAIN r = DOMAIN new
    BY <1>1, <2>3, SeqDef
  <2>5. QED
    BY <2>2, <2>3, <2>4
<1>5. QED
  BY <1>1, <1>3, <1>4

LEMMA AnnouncedIs ==
  ASSUME NEW l \in Seq(PeerRecord)
  PROVE  /\ Announced(l) \subseteq Announcement
         /\ \A u \in Announced(l) : Lists(l, u.id)
<1>1. ASSUME NEW u \in Announced(l)
      PROVE  u \in Announcement /\ Lists(l, u.id)
  <2>1. PICK p \in ToSet(l) : p.id \in Miner /\ u = Self(p.id, p.at)
    BY DEF Announced
  <2>2. PICK i \in DOMAIN l : p = l[i]
    BY <2>1 DEF ToSet
  <2>3. p \in PeerRecord
    BY <2>2, ListIs
  <2>4. p.at \in 1..MaxLives
    BY <2>3 DEF PeerRecord
  <2>5. u \in Announcement
    BY <2>1, <2>4 DEF Announcement
  <2>6. u.id = l[i].id
    BY <2>1, <2>2 DEF Self
  <2>7. QED
    BY <2>5, <2>6 DEF Lists
<1>2. QED
  BY <1>1

LEMMA FromDiskIs ==
  ASSUME NEW n, saved[n] \subseteq PeerRecord,
         \A p, q \in saved[n] : p.id = q.id => p = q
  PROVE  FromDisk(n) \in Seq(PeerRecord) /\ Distinct(FromDisk(n))
<1>1. PICK S : S = saved[n]
  OBVIOUS
<1>2. S \subseteq PeerRecord /\ \A p, q \in S : p.id = q.id => p = q
  BY <1>1
<1>3. IsFiniteSet(S)
  BY <1>2, PeersFinite, FS_Subset
<1>4. PICK l : l = SetToSeq(S)
  OBVIOUS
<1>5. l \in Seq(S) /\ \A i, j \in DOMAIN l : l[i] = l[j] => i = j
  BY <1>3, <1>4, SetToSeqIs
<1>6. \A i \in DOMAIN l : l[i] \in S
  BY <1>5
<1>7. l \in Seq(PeerRecord)
  BY <1>2, <1>5
<1>8. Distinct(l)
  BY <1>2, <1>5, <1>6 DEF Distinct
<1>9. QED
  BY <1>1, <1>4, <1>7, <1>8 DEF FromDisk

Get == [by : Miner, of : Node, pc : {"append", "shared", "copied"},
        list : Seq(PeerRecord)]

LEMMA GetIs ==
  ASSUME TypeOK, NEW g \in gets
  PROVE  g \in Get /\ g.by \in Miner /\ g.of \in Node /\ g.list \in Seq(PeerRecord)
<1>1. g \in Get
  BY DEF TypeOK, Get
<1>2. QED
  BY <1>1 DEF Get

LEMMA UpIs ==
  ASSUME TypeOK, Started, NEW n \in Node, phase[n] = "up"
  PROVE  /\ life[n] \in 1..MaxLives
         /\ Self(n, life[n]) \in PeerRecord /\ Self(n, life[n]).id = n
<1>1. life[n] \in 0..MaxLives /\ life[n] >= 1
  BY DEF TypeOK, Started
<1>2. life[n] \in 1..MaxLives
  BY <1>1, MembershipAssumption
<1>3. QED
  BY <1>2, AnnouncementsAre

(* What gossip.GetPeers answers, of a list that it has not written over.   *)
LEMMA ReplyIs ==
  ASSUME TypeOK, Started, ListSound, GetsSound, NEW g \in gets
  PROVE  /\ Reply(g) \in Seq(PeerRecord)
         /\ g.of \notin overwritten => Distinct(Reply(g))
<1>1. PICK n \in Node : n = g.of /\ phase[n] = "up"
  BY GetIs DEF GetsSound
<1>2. PICK l \in Seq(PeerRecord) : l = peers[n]
  BY DEF TypeOK
<1>3. PICK c \in Seq(PeerRecord) : c = g.list
  BY GetIs
<1>4. PICK p \in PeerRecord : p = Self(n, life[n]) /\ p.id = n
  BY <1>1, UpIs
<1>5. n \notin overwritten => Sound(n, l) /\ Sound(n, c)
  BY <1>1, <1>2, <1>3 DEF ListSound, GetsSound, Sound, Distinct
<1>6. PICK i : i = Len(c) + 1
  OBVIOUS
<1>7. Reply(g) = IF g.pc = "shared" /\ i \in DOMAIN l THEN SubSeq(l, 1, i)
                 ELSE Append(IF g.pc = "shared" THEN l ELSE c, p)
  BY <1>1, <1>2, <1>3, <1>4, <1>6 DEF Reply
<1>8. CASE g.pc = "shared" /\ i \in DOMAIN l
  <2>1. Len(l) \in Nat /\ DOMAIN l = 1..Len(l) /\ i \in 1..Len(l) /\ Len(c) \in Nat
    BY <1>6, <1>8, ListIs
  <2>2. PICK k : k = SubSeq(l, 1, i)
    OBVIOUS
  <2>3. k \in Seq(PeerRecord) /\ DOMAIN k = 1..i /\ \A j \in 1..i : k[j] = l[j]
    BY <2>1, <2>2
  <2>4. n \notin overwritten => Distinct(k)
    BY <1>5, <2>1, <2>3 DEF Sound, Distinct
  <2>5. QED
    BY <1>1, <1>7, <1>8, <2>2, <2>3, <2>4
<1>9. CASE ~(g.pc = "shared" /\ i \in DOMAIN l)
  <2>1. PICK b \in Seq(PeerRecord) : b = IF g.pc = "shared" THEN l ELSE c
    OBVIOUS
  <2>2. n \notin overwritten => Sound(n, b)
    BY <1>5, <2>1
  <2>3. Len(b) \in Nat /\ DOMAIN b = 1..Len(b)
    BY ListIs
  <2>4. PICK k : k = Append(b, p)
    OBVIOUS
  <2>5. /\ k \in Seq(PeerRecord) /\ DOMAIN k = 1..(Len(b) + 1)
        /\ k[Len(b) + 1] = p /\ \A j \in DOMAIN b : k[j] = b[j]
    BY <2>3, <2>4
  <2>6. \A j \in DOMAIN k : j \in DOMAIN b \/ j = Len(b) + 1
    BY <2>3, <2>5
  <2>7. n \notin overwritten => Distinct(k)
    BY <1>4, <2>2, <2>5, <2>6 DEF Sound, Distinct
  <2>8. QED
    BY <1>1, <1>7, <1>9, <2>1, <2>4, <2>5, <2>7
<1>10. QED
  BY <1>8, <1>9

-----------------------------------------------------------------------------
(* What a step does to the list and the log of a node, unless the list is  *)
(* written over: nothing; or it leaves the                                 *)
(* node up, with a sound list of everyone it has heard, in which its peers *)
(* keep their places; or it leaves it down or waiting, with an empty log.  *)
Moves(n) == n \notin overwritten' =>
  \/ /\ n \notin overwritten
     /\ peers'[n] = peers[n] /\ known'[n] = known[n]
     /\ phase'[n] = "up" <=> phase[n] = "up"
  \/ /\ phase'[n] = "up" /\ Sound(n, peers'[n])
     /\ phase[n] = "up" => Goes(peers[n], peers'[n])
     /\ \A u \in known'[n] : u.id = n \/ Lists(peers'[n], u.id)
  \/ phase'[n] # "up" /\ known'[n] = {} /\ Distinct(peers'[n])

NotMoved(n) ==
  n \notin overwritten' /\ phase[n] = "up" /\ phase'[n] = "up" =>
    \A p \in ToSet(peers[n]), q \in ToSet(peers'[n]) :
      p.id = q.id /\ p.active => q.at >= p.at

LEMMA ListedIs ==
  ASSUME NEW l \in Seq(PeerRecord), NEW id
  PROVE  Place(l, id) # 0 <=> Lists(l, id)
BY PlaceIs DEF Lists

LEMMA MovesKeep ==
  ASSUME TypeOK, ListsInvariant, TypeOK', \A n \in Node : Moves(n)
  PROVE  /\ ListsDistinct' /\ Forgotten' /\ ListSound' /\ HeardIsListed'
         /\ \A n \in Node : NotMoved(n)
<1>0. \A n \in Node : n \in overwritten' => NotMoved(n)
  BY DEF NotMoved
<1> SUFFICES ASSUME NEW n \in Node, n \notin overwritten'
             PROVE  /\ Distinct(peers'[n])
                    /\ phase'[n] # "up" => known'[n] = {}
                    /\ phase'[n] = "up" => Sound(n, peers'[n])
                    /\ \A u \in known'[n] : u.id = n \/ Place(peers'[n], u.id) # 0
                    /\ NotMoved(n)
  BY <1>0 DEF ListsDistinct, Forgotten, ListSound, HeardIsListed, Sound, Distinct
<1>1. n \notin overwritten =>
      /\ Distinct(peers[n])
      /\ phase[n] # "up" => known[n] = {}
      /\ phase[n] = "up" => Sound(n, peers[n])
      /\ \A u \in known[n] : u.id = n \/ Place(peers[n], u.id) # 0
  BY DEF ListsInvariant, ListsDistinct, Forgotten, ListSound, HeardIsListed, Sound, Distinct
<1>2. PICK l \in Seq(PeerRecord) : l = peers[n]
  BY DEF TypeOK
<1>3. PICK k \in Seq(PeerRecord) : k = peers'[n]
  BY DEF TypeOK
<1>4. Moves(n)
  OBVIOUS
<1>5. /\ \A p \in ToSet(l) : \E i \in DOMAIN l : p = l[i]
      /\ \A q \in ToSet(k) : \E i \in DOMAIN k : q = k[i]
  BY DEF ToSet
<1>6. CASE /\ n \notin overwritten /\ k = l /\ known'[n] = known[n]
           /\ phase'[n] = "up" <=> phase[n] = "up"
  <2>1. ASSUME NEW p \in ToSet(l), NEW q \in ToSet(l), p.id = q.id
        PROVE  q.at >= p.at
    <3>1. PICK i \in DOMAIN l : p = l[i]
      BY <1>5
    <3>2. PICK j \in DOMAIN l : q = l[j]
      BY <1>5
    <3>3. i = j
      BY <1>1, <1>2, <1>6, <2>1, <3>1, <3>2 DEF Distinct
    <3>4. p.at \in Nat
      BY <3>1, ListIs
    <3>5. QED
      BY <3>1, <3>2, <3>3, <3>4
  <2>2. NotMoved(n)
    BY <1>2, <1>3, <1>6, <2>1 DEF NotMoved
  <2>3. QED
    BY <1>1, <1>2, <1>3, <1>6, <2>2
<1>7. CASE /\ phase'[n] = "up" /\ Sound(n, k)
           /\ phase[n] = "up" => Goes(l, k)
           /\ \A u \in known'[n] : u.id = n \/ Lists(k, u.id)
  <2>1. ASSUME phase[n] = "up", NEW p \in ToSet(l), NEW q \in ToSet(k),
               p.id = q.id, p.active
        PROVE  q.at >= p.at
    <3>1. PICK i \in DOMAIN l : p = l[i]
      BY <1>5
    <3>2. PICK j \in DOMAIN k : q = k[j]
      BY <1>5
    <3>3. i \in DOMAIN k /\ k[i].id = l[i].id /\ k[i].at >= l[i].at
      BY <1>7, <2>1, <3>1 DEF Goes
    <3>4. i = j
      BY <1>7, <2>1, <3>1, <3>2, <3>3 DEF Sound, Distinct
    <3>5. QED
      BY <3>1, <3>2, <3>3, <3>4
  <2>2. NotMoved(n)
    BY <1>2, <1>3, <2>1 DEF NotMoved
  <2>3. Distinct(k)
    BY <1>7 DEF Sound
  <2>4. \A u \in known'[n] : u.id = n \/ Place(k, u.id) # 0
    BY <1>7, ListedIs
  <2>5. QED
    BY <1>3, <1>7, <2>2, <2>3, <2>4
<1>8. CASE phase'[n] # "up" /\ known'[n] = {} /\ Distinct(k)
  BY <1>3, <1>8 DEF NotMoved
<1>9. QED
  BY <1>2, <1>3, <1>4, <1>6, <1>7, <1>8 DEF Moves

(* A node that is up hears something, or finds a peer active or gone.      *)
LEMMA ChangeIs ==
  ASSUME TypeOK, NEW n \in Node, phase[n] = "up", phase' = phase,
         overwritten' = overwritten,
         NEW k \in Seq(PeerRecord), n \notin overwritten => Sound(n, k),
         Goes(peers[n], k), NEW L \in SUBSET Announcement,
         n \notin overwritten => \A u \in L : u.id = n \/ Lists(k, u.id),
         peers' = [peers EXCEPT ![n] = k], known' = [known EXCEPT ![n] = L]
  PROVE  /\ peers' \in [Node -> Seq(PeerRecord)]
         /\ known' \in [Node -> SUBSET Announcement]
         /\ \A q \in Node : Moves(q)
<1>1. /\ peers \in [Node -> Seq(PeerRecord)]
      /\ known \in [Node -> SUBSET Announcement]
  BY DEF TypeOK
<1>2. /\ peers'[n] = k /\ known'[n] = L
      /\ \A q \in Node : q # n => peers'[q] = peers[q] /\ known'[q] = known[q]
  BY <1>1
<1>3. Moves(n)
  BY <1>2 DEF Moves
<1>4. \A q \in Node : q # n => Moves(q)
  BY <1>2 DEF Moves
<1>5. QED
  BY <1>1, <1>3, <1>4

LEMMA LearnIs ==
  ASSUME TypeOK, ListsInvariant, NEW n \in Node, phase[n] = "up", phase' = phase,
         overwritten' = overwritten,
         NEW l \in Seq(PeerRecord), DOMAIN l = DOMAIN peers[n],
         \A i \in DOMAIN peers[n] : l[i].id = peers[n][i].id,
         Goes(peers[n], l), NEW updates \in SUBSET Announcement,
         peers' = [peers EXCEPT ![n] = WithAnnounced(n, l, updates)],
         known' = [known EXCEPT ![n] = @ \cup updates]
  PROVE  /\ peers' \in [Node -> Seq(PeerRecord)]
         /\ known' \in [Node -> SUBSET Announcement]
         /\ \A q \in Node : Moves(q)
<1>1. PICK o \in Seq(PeerRecord) : o = peers[n]
  BY DEF TypeOK
<1>2. PICK k : k = WithAnnounced(n, l, updates)
  OBVIOUS
<1>3. /\ k \in Seq(PeerRecord) /\ Rises(l, k)
      /\ Sound(n, l) => Sound(n, k)
      /\ \A u \in updates \ known[n] : u.id = n \/ Lists(k, u.id)
  BY <1>2, WithAnnouncedIs
<1>4. n \notin overwritten => Sound(n, o)
  BY <1>1 DEF ListsInvariant, ListSound, Sound, Distinct
<1>5. n \notin overwritten => Sound(n, l)
  BY <1>1, <1>4 DEF Sound, Distinct
<1>6. Goes(o, k)
  BY <1>1, <1>3, RisesOn
<1>7. ASSUME n \notin overwritten, NEW u \in known[n] \cup updates
      PROVE  u.id = n \/ Lists(k, u.id)
  <2>1. CASE u \in known[n]
    <3>1. u.id = n \/ Lists(o, u.id)
      BY <1>1, <1>7, <2>1, ListedIs DEF ListsInvariant, HeardIsListed
    <3>2. Lists(o, u.id) => Lists(k, u.id)
      BY <1>6 DEF Goes, Lists
    <3>3. QED
      BY <3>1, <3>2
  <2>2. CASE u \notin known[n]
    BY <1>3, <1>7, <2>2
  <2>3. QED
    BY <2>1, <2>2
<1>8. PICK L \in SUBSET Announcement : L = known[n] \cup updates
  BY DEF TypeOK
<1>9. peers' = [peers EXCEPT ![n] = k] /\ known' = [known EXCEPT ![n] = L]
  BY <1>2, <1>8
<1>10. /\ n \notin overwritten => Sound(n, k)
       /\ Goes(peers[n], k)
       /\ n \notin overwritten => \A u \in L : u.id = n \/ Lists(k, u.id)
  BY <1>1, <1>3, <1>5, <1>6, <1>7, <1>8
<1>11. QED
  BY <1>3, <1>9, <1>10, ChangeIs

(* The gossip library starts.                                              *)
LEMMA StartIs ==
  ASSUME TypeOK, Started, NEW n \in Node, phase[n] # "up",
         NEW list \in Seq(PeerRecord), n \notin overwritten' => Distinct(list),
         overwritten \ {n} \subseteq overwritten', StartGossip(n, list)
  PROVE  /\ phase' \in [Node -> {"down", "ask", "download", "up", "stuck"}]
         /\ life' \in [Node -> 0..MaxLives] /\ conn' \in [Node -> 0..MaxLives]
         /\ peers' \in [Node -> Seq(PeerRecord)]
         /\ known' \in [Node -> SUBSET Announcement]
         /\ pending' \in [Node -> Seq([upd : Announcement, log : SUBSET Announcement])]
         /\ Started'
         /\ \A q \in Node : Moves(q)
<1>1. PICK at : at = life[n] + 1
  OBVIOUS
<1>2. at \in 1..MaxLives
  <2>1. life[n] \in 0..MaxLives /\ life[n] < MaxLives
    BY DEF TypeOK, StartGossip
  <2>2. QED
    BY <1>1, <2>1, MembershipAssumption
<1>3. PICK own : own = IF n = Coord THEN {} ELSE {Self(n, at)}
  OBVIOUS
<1>4. own \subseteq Announcement /\ \A u \in own : u.id = n
  BY <1>2, <1>3, AnnouncementsAre DEF Node
<1>5. PICK log : log = Announced(list) \cup own
  OBVIOUS
<1>6. log \subseteq Announcement /\ \A u \in log : u.id = n \/ Lists(list, u.id)
  BY <1>4, <1>5, AnnouncedIs
<1>7. PICK k : k = SetPeers(n, list)
  OBVIOUS
<1>8. /\ k \in Seq(PeerRecord)
      /\ Distinct(list) => Sound(n, k)
      /\ \A i \in DOMAIN list : list[i].id = n \/ Lists(k, list[i].id)
  BY <1>7, SetPeersIs
<1>9. \A u \in log : u.id = n \/ Lists(k, u.id)
  BY <1>6, <1>8 DEF Lists
<1>10. PICK queue : queue = IF n = Coord THEN << >> ELSE <<[upd |-> Self(n, at), log |-> log]>>
  OBVIOUS
<1>11. queue \in Seq([upd : Announcement, log : SUBSET Announcement])
  <2>1. n # Coord => Self(n, at) \in Announcement
    BY <1>2, AnnouncementsAre DEF Node
  <2>2. CASE n = Coord
    BY <1>10, <2>2
  <2>3. CASE n # Coord
    <3>1. PICK e : e = [upd |-> Self(n, at), log |-> log]
      OBVIOUS
    <3>2. e \in [upd : Announcement, log : SUBSET Announcement]
      BY <1>6, <2>1, <2>3, <3>1
    <3>3. queue = <<e>>
      BY <1>10, <2>3, <3>1
    <3>4. QED
      BY <3>2, <3>3
  <2>4. QED
    BY <2>2, <2>3
<1>12. /\ life' = [life EXCEPT ![n] = at] /\ phase' = [phase EXCEPT ![n] = "up"]
       /\ conn' = [conn EXCEPT ![n] = 0] /\ peers' = [peers EXCEPT ![n] = k]
       /\ known' = [known EXCEPT ![n] = log]
       /\ pending' = [pending EXCEPT ![n] = queue]
  BY <1>1, <1>3, <1>5, <1>7, <1>10 DEF StartGossip
<1>13. /\ phase \in [Node -> {"down", "ask", "download", "up", "stuck"}]
       /\ life \in [Node -> 0..MaxLives] /\ conn \in [Node -> 0..MaxLives]
       /\ peers \in [Node -> Seq(PeerRecord)]
       /\ known \in [Node -> SUBSET Announcement]
       /\ pending \in [Node -> Seq([upd : Announcement, log : SUBSET Announcement])]
  BY DEF TypeOK
<1>14. /\ phase' \in [Node -> {"down", "ask", "download", "up", "stuck"}]
       /\ life' \in [Node -> 0..MaxLives] /\ conn' \in [Node -> 0..MaxLives]
  BY <1>2, <1>12, <1>13, MembershipAssumption
<1>15. /\ peers' \in [Node -> Seq(PeerRecord)]
       /\ known' \in [Node -> SUBSET Announcement]
       /\ pending' \in [Node -> Seq([upd : Announcement, log : SUBSET Announcement])]
  <2>1. pending' \in [Node -> Seq([upd : Announcement, log : SUBSET Announcement])]
    <3>1. PICK Q : Q = Seq([upd : Announcement, log : SUBSET Announcement])
      OBVIOUS
    <3>2. pending \in [Node -> Q] /\ queue \in Q
      BY <1>11, <1>13, <3>1
    <3>3. pending' \in [Node -> Q]
      BY <1>12, <3>2
    <3>4. QED
      BY <3>1, <3>3
  <2>2. peers' \in [Node -> Seq(PeerRecord)]
    <3>1. PICK Q : Q = Seq(PeerRecord)
      OBVIOUS
    <3>2. peers \in [Node -> Q] /\ k \in Q
      BY <1>8, <1>13, <3>1
    <3>3. peers' = [peers EXCEPT ![n] = k]
      BY <1>12
    <3>4. peers' \in [Node -> Q]
      BY <3>2, <3>3
    <3>5. QED
      BY <3>1, <3>4
  <2>3. known' \in [Node -> SUBSET Announcement]
    BY <1>6, <1>12, <1>13
  <2>4. QED
    BY <2>1, <2>2, <2>3
<1>16. /\ phase'[n] = "up" /\ life'[n] = at /\ peers'[n] = k /\ known'[n] = log
       /\ \A q \in Node : q # n => /\ phase'[q] = phase[q] /\ life'[q] = life[q]
                                   /\ peers'[q] = peers[q] /\ known'[q] = known[q]
  BY <1>12, <1>13
<1>17. Started'
  BY <1>2, <1>16 DEF Started
<1>18. Moves(n)
  <2>1. n \notin overwritten' => Sound(n, k)
    BY <1>8
  <2>2. n \notin overwritten' => Sound(n, peers'[n])
    BY <1>16, <2>1
  <2>3. \A u \in known'[n] : u.id = n \/ Lists(peers'[n], u.id)
    BY <1>9, <1>16
  <2>4. phase'[n] = "up" /\ phase[n] # "up"
    BY <1>16
  <2>5. QED
    BY <2>2, <2>3, <2>4 DEF Moves
<1>19. ASSUME NEW q \in Node, q # n
       PROVE  Moves(q)
  <2>1. q \notin overwritten' => q \notin overwritten
    BY <1>19
  <2>2. peers'[q] = peers[q] /\ known'[q] = known[q] /\ phase'[q] = phase[q]
    BY <1>16, <1>19
  <2>3. QED
    BY <2>1, <2>2 DEF Moves
<1>20. QED
  BY <1>14, <1>15, <1>17, <1>18, <1>19

-----------------------------------------------------------------------------
(* What each action preserves.                                             *)
Kept == TypeOK' /\ Started' /\ DiskDistinct' /\ GetsSound' /\ \A n \in Node : Moves(n)

LEMMA Nodes == Coord \in Node /\ Miner \subseteq Node /\ Coord \notin Miner
BY MembershipAssumption DEF Node

LEMMA MakeStorageKeeps ==
  ASSUME TypeOK, ListsInvariant, NEW m \in Miner, MakeStorage(m)
  PROVE  Kept
<1>1. /\ phase' \in [Node -> {"down", "ask", "download", "up", "stuck"}]
      /\ store' \in [Miner -> {"none", "dir", "chain", "empty"}]
      /\ \A n \in Node : phase'[n] = "up" <=> phase[n] = "up"
  BY Nodes DEF MakeStorage, TypeOK
<1>2. TypeOK'
  BY <1>1 DEF MakeStorage, TypeOK
<1>3. Started' /\ DiskDistinct' /\ GetsSound'
  BY <1>1, GetIs DEF MakeStorage, ListsInvariant, Started, DiskDistinct, GetsSound
<1>4. \A n \in Node : Moves(n)
  BY <1>1 DEF MakeStorage, Moves
<1>5. QED
  BY <1>2, <1>3, <1>4 DEF Kept

LEMMA ConnectKeeps ==
  ASSUME TypeOK, ListsInvariant, NEW m \in Miner, Connect(m)
  PROVE  Kept
<1>1. conn' \in [Node -> 0..MaxLives]
  BY Nodes DEF Connect, TypeOK
<1>2. TypeOK'
  BY <1>1 DEF Connect, TypeOK
<1>3. Started' /\ DiskDistinct' /\ GetsSound' /\ \A n \in Node : Moves(n)
  BY DEF Connect, ListsInvariant, Started, DiskDistinct, GetsSound, Moves
<1>4. QED
  BY <1>2, <1>3 DEF Kept

LEMMA GetPeersKeeps ==
  ASSUME TypeOK, ListsInvariant, NEW m \in Miner, NEW n \in Node, GetPeers(m, n)
  PROVE  Kept
<1>1. phase[n] = "up"
  BY DEF GetPeers, CoordAnswers, Reachable
<1>2. PICK g : g = [by |-> m, of |-> n, pc |-> "append", list |-> peers[n]]
  OBVIOUS
<1>3. /\ gets' = gets \cup {g}
      /\ UNCHANGED <<phase, store, life, conn, peers, saved, known, pending, calls,
                     overwritten, failures>>
  BY <1>2 DEF GetPeers
<1>4. g \in Get
  BY <1>2 DEF Get, TypeOK
<1>5. TypeOK'
  BY <1>3, <1>4 DEF TypeOK, Get
<1>6. n \notin overwritten => Sound(n, peers[n])
  BY <1>1 DEF ListsInvariant, ListSound, Sound, Distinct
<1>7. GetsSound'
  BY <1>1, <1>2, <1>3, <1>6 DEF ListsInvariant, GetsSound
<1>8. Started' /\ DiskDistinct' /\ \A q \in Node : Moves(q)
  BY <1>3 DEF ListsInvariant, Started, DiskDistinct, Moves
<1>9. QED
  BY <1>5, <1>7, <1>8 DEF Kept

LEMMA AppendSelfKeeps ==
  ASSUME TypeOK, ListsInvariant, NEW g \in gets, AppendSelf(g)
  PROVE  Kept
<1>1. PICK n \in Node : n = g.of /\ phase[n] = "up"
  BY GetIs DEF ListsInvariant, GetsSound
<1>2. PICK i : i = Len(g.list) + 1
  OBVIOUS
<1>3. PICK p \in PeerRecord : p = Self(n, life[n])
  BY <1>1, UpIs DEF ListsInvariant
<1>4. PICK l \in Seq(PeerRecord) : l = peers[n]
  BY DEF TypeOK
<1>5. PICK k : k = [l EXCEPT ![i] = p]
  OBVIOUS
<1>6. /\ \/ /\ i \in DOMAIN l /\ peers' = [peers EXCEPT ![n] = k]
            /\ overwritten' = overwritten \cup {n}
         \/ UNCHANGED <<peers, overwritten>>
      /\ UNCHANGED <<phase, store, life, conn, saved, known, pending, calls, failures>>
  BY <1>1, <1>2, <1>3, <1>4, <1>5 DEF AppendSelf
<1>7. gets' \subseteq gets \cup {[g EXCEPT !.pc = "shared"], [g EXCEPT !.pc = "copied"]}
  BY DEF AppendSelf
<1>8. i \in DOMAIN l => k \in Seq(PeerRecord)
  <2>1. Len(l) \in Nat /\ DOMAIN l = 1..Len(l)
    BY ListIs
  <2>2. QED
    BY <1>5, <2>1
<1>9. /\ peers' \in [Node -> Seq(PeerRecord)]
      /\ \A q \in Node : q # n => peers'[q] = peers[q]
      /\ overwritten' \subseteq Node /\ overwritten \subseteq overwritten'
      /\ \A q \in Node : q # n /\ q \notin overwritten' => q \notin overwritten
      /\ n \notin overwritten' => n \notin overwritten /\ peers'[n] = peers[n]
  <2>1. peers \in [Node -> Seq(PeerRecord)] /\ overwritten \subseteq Node
    BY DEF TypeOK
  <2>2. CASE /\ i \in DOMAIN l /\ peers' = [peers EXCEPT ![n] = k]
             /\ overwritten' = overwritten \cup {n}
    <3>1. peers' \in [Node -> Seq(PeerRecord)] /\ \A q \in Node : q # n => peers'[q] = peers[q]
      BY <1>8, <2>1, <2>2
    <3>2. QED
      BY <2>1, <2>2, <3>1
  <2>3. CASE UNCHANGED <<peers, overwritten>>
    BY <2>1, <2>3
  <2>4. QED
    BY <1>6, <2>2, <2>3
<1>10. /\ gets' \subseteq Get
       /\ \A x \in gets' : \E y \in gets : x.of = y.of /\ x.list = y.list
  <2>1. gets \subseteq Get
    BY GetIs
  <2>2. /\ [g EXCEPT !.pc = "shared"] \in Get /\ [g EXCEPT !.pc = "copied"] \in Get
        /\ [g EXCEPT !.pc = "shared"].of = g.of /\ [g EXCEPT !.pc = "shared"].list = g.list
        /\ [g EXCEPT !.pc = "copied"].of = g.of /\ [g EXCEPT !.pc = "copied"].list = g.list
    BY <2>1 DEF Get
  <2>3. QED
    BY <1>7, <2>1, <2>2
<1>11. TypeOK'
  BY <1>6, <1>9, <1>10 DEF TypeOK, Get
<1>12. GetsSound'
  BY <1>6, <1>9, <1>10 DEF ListsInvariant, GetsSound
<1>13. Started' /\ DiskDistinct'
  BY <1>6 DEF ListsInvariant, Started, DiskDistinct
<1>14. \A q \in Node : Moves(q)
  BY <1>6, <1>9 DEF Moves
<1>15. QED
  BY <1>11, <1>12, <1>13, <1>14 DEF Kept

(* The calls of GetPeers that are left when one of them has answered, or   *)
(* its caller is gone.                                                     *)
LEMMA GetsLeft ==
  ASSUME TypeOK, GetsSound, gets' \subseteq gets,
         \A n \in Node : phase[n] = "up" => phase'[n] = "up",
         overwritten \subseteq overwritten'
  PROVE  gets' \subseteq Get /\ GetsSound'
<1>1. gets' \subseteq Get
  BY GetIs
<1>2. \A g \in gets : g.of \in Node
  BY GetIs
<1>3. QED
  BY <1>1, <1>2 DEF GetsSound

(* A miner starts for the first time.                                      *)
LEMMA FirstStart ==
  ASSUME TypeOK, ListsInvariant, NEW m \in Miner, phase[m] # "up",
         NEW l \in Seq(PeerRecord), m \notin overwritten' => Distinct(l),
         overwritten \subseteq overwritten', overwritten' \subseteq Node,
         StartGossip(m, l), store' \in [Miner -> {"none", "dir", "chain", "empty"}],
         gets' \subseteq gets, UNCHANGED <<saved, calls, failures>>
  PROVE  Kept
<1>1. /\ phase' \in [Node -> {"down", "ask", "download", "up", "stuck"}]
      /\ life' \in [Node -> 0..MaxLives] /\ conn' \in [Node -> 0..MaxLives]
      /\ peers' \in [Node -> Seq(PeerRecord)]
      /\ known' \in [Node -> SUBSET Announcement]
      /\ pending' \in [Node -> Seq([upd : Announcement, log : SUBSET Announcement])]
      /\ Started'
      /\ \A q \in Node : Moves(q)
  BY Nodes, StartIs DEF ListsInvariant
<1>2. \A n \in Node : phase[n] = "up" => phase'[n] = "up"
  BY DEF StartGossip, TypeOK
<1>3. gets' \subseteq Get /\ GetsSound'
  BY <1>2, GetsLeft DEF ListsInvariant
<1>4. TypeOK'
  BY <1>1, <1>3 DEF TypeOK, Get
<1>5. DiskDistinct'
  BY DEF ListsInvariant, DiskDistinct
<1>6. QED
  BY <1>1, <1>3, <1>4, <1>5 DEF Kept

(* A miner that joins gets a list to download with.                        *)
LEMMA ListTaken ==
  ASSUME TypeOK, ListsInvariant, NEW m \in Miner, phase[m] # "up",
         NEW l \in Seq(PeerRecord), m \notin overwritten' => Distinct(l),
         overwritten \subseteq overwritten', overwritten' \subseteq overwritten \cup {m},
         peers' = [peers EXCEPT ![m] = l],
         phase' = phase \/ phase' = [phase EXCEPT ![m] = "download"],
         gets' \subseteq gets,
         UNCHANGED <<store, life, conn, saved, known, pending, calls, failures>>
  PROVE  Kept
<1>1. m \in Node
  BY Nodes
<1>2. /\ phase' \in [Node -> {"down", "ask", "download", "up", "stuck"}]
      /\ peers' \in [Node -> Seq(PeerRecord)]
      /\ overwritten' \subseteq Node
      /\ \A n \in Node : phase'[n] = "up" <=> phase[n] = "up"
      /\ peers'[m] = l /\ \A n \in Node : n # m => peers'[n] = peers[n]
  BY <1>1 DEF TypeOK
<1>3. gets' \subseteq Get /\ GetsSound'
  BY <1>2, GetsLeft DEF ListsInvariant
<1>4. TypeOK'
  BY <1>2, <1>3 DEF TypeOK, Get
<1>5. Started' /\ DiskDistinct'
  BY <1>2 DEF ListsInvariant, Started, DiskDistinct
<1>6. Moves(m)
  <2>1. m \notin overwritten' => known'[m] = {}
    BY <1>1 DEF ListsInvariant, Forgotten
  <2>2. QED
    BY <1>1, <1>2, <2>1 DEF Moves
<1>7. \A n \in Node : n # m => Moves(n)
  BY <1>2 DEF Moves
<1>8. QED
  BY <1>3, <1>4, <1>5, <1>6, <1>7 DEF Kept

LEMMA TaintsIs ==
  ASSUME TypeOK, ListsInvariant, NEW g \in gets, Taints(g)
  PROVE  /\ overwritten \subseteq overwritten' /\ overwritten' \subseteq overwritten \cup {g.by}
         /\ overwritten' \subseteq Node
         /\ Reply(g) \in Seq(PeerRecord)
         /\ g.by \notin overwritten' => Distinct(Reply(g))
<1>1. g.by \in Node
  BY GetIs, Nodes
<1>2. /\ overwritten \subseteq overwritten' /\ overwritten' \subseteq overwritten \cup {g.by}
      /\ g.by \notin overwritten' => g.of \notin overwritten
  BY DEF Taints
<1>3. overwritten' \subseteq Node
  BY <1>1, <1>2 DEF TypeOK
<1>4. QED
  BY <1>2, <1>3, ReplyIs DEF ListsInvariant

LEMMA LoadChainIs ==
  ASSUME TypeOK, NEW m \in Miner, NEW n \in Node, LoadChain(m, n)
  PROVE  store' \in [Miner -> {"none", "dir", "chain", "empty"}]
<1>1. n # Coord => n \in Miner
  BY DEF Node
<1>2. QED
  BY <1>1 DEF LoadChain, TypeOK

LEMMA AskCoordKeeps ==
  ASSUME TypeOK, ListsInvariant, NEW m \in Miner, AskCoord(m)
  PROVE  Kept
<1>1. phase[m] # "up" /\ UNCHANGED <<saved, calls, failures>>
  BY DEF AskCoord
<1>2. PICK g \in gets :
        /\ Answered(g, m, Coord) /\ Taints(g)
        /\ IF ActiveMiners(Reply(g)) # {}
           THEN /\ phase' = [phase EXCEPT ![m] = "download"]
                /\ peers' = [peers EXCEPT ![m] = Reply(g)]
                /\ UNCHANGED <<store, life, conn, known, pending>>
           ELSE StartGossip(m, Reply(g)) /\ LoadChain(m, Coord)
  BY DEF AskCoord
<1>3. g.by = m /\ gets' \subseteq gets
  BY <1>2 DEF Answered
<1>4. /\ overwritten \subseteq overwritten' /\ overwritten' \subseteq overwritten \cup {m}
      /\ overwritten' \subseteq Node
      /\ Reply(g) \in Seq(PeerRecord)
      /\ m \notin overwritten' => Distinct(Reply(g))
  BY <1>2, <1>3, TaintsIs
<1>5. PICK l \in Seq(PeerRecord) : l = Reply(g)
  BY <1>4
<1>6. CASE ActiveMiners(l) # {}
  BY <1>1, <1>2, <1>3, <1>4, <1>5, <1>6, ListTaken
<1>7. CASE ActiveMiners(l) = {}
  <2>1. StartGossip(m, l) /\ LoadChain(m, Coord)
    BY <1>2, <1>5, <1>7
  <2>2. store' \in [Miner -> {"none", "dir", "chain", "empty"}]
    BY <2>1, Nodes, LoadChainIs
  <2>3. QED
    BY <1>1, <1>3, <1>4, <1>5, <2>1, <2>2, FirstStart
<1>8. QED
  BY <1>6, <1>7

LEMMA DownloadKeeps ==
  ASSUME TypeOK, ListsInvariant, NEW m \in Miner, Download(m)
  PROVE  Kept
<1>1. /\ m \in Node /\ phase[m] # "up"
      /\ UNCHANGED <<saved, calls, overwritten, failures>>
  BY Nodes DEF Download
<1>2. PICK l \in Seq(PeerRecord) : l = peers[m]
  BY <1>1 DEF TypeOK
<1>3. m \notin overwritten' => Distinct(l)
  BY <1>1, <1>2 DEF ListsInvariant, ListsDistinct
<1>4. StartGossip(m, l)
  BY <1>2 DEF Download, StartGossip
<1>5. PICK g \in gets, n \in Miner : Answered(g, m, n) /\ LoadChain(m, n)
  BY DEF Download
<1>6. gets' \subseteq gets /\ store' \in [Miner -> {"none", "dir", "chain", "empty"}]
  BY <1>5, Nodes, LoadChainIs DEF Answered
<1>7. overwritten' \subseteq Node
  BY <1>1 DEF TypeOK
<1>8. QED
  BY <1>1, <1>3, <1>4, <1>6, <1>7, FirstStart

LEMMA AskAgainKeeps ==
  ASSUME TypeOK, ListsInvariant, NEW m \in Miner, AskAgain(m)
  PROVE  Kept
<1>1. m \in Node /\ phase[m] # "up" /\ UNCHANGED <<saved, calls, failures>>
  BY Nodes DEF AskAgain
<1>2. PICK g \in gets :
        /\ Answered(g, m, Coord) /\ Taints(g)
        /\ LET list == Redecoded(peers[m], Reply(g))
           IN IF ActiveMiners(list) # {}
              THEN /\ peers' = [peers EXCEPT ![m] = list]
                   /\ UNCHANGED <<phase, store, life, conn, known, pending>>
              ELSE /\ StartGossip(m, list)
                   /\ store' = [store EXCEPT ![m] = "empty"]
  BY DEF AskAgain
<1>3. g.by = m /\ gets' \subseteq gets
  BY <1>2 DEF Answered
<1>4. /\ overwritten \subseteq overwritten' /\ overwritten' \subseteq overwritten \cup {m}
      /\ overwritten' \subseteq Node
      /\ Reply(g) \in Seq(PeerRecord)
      /\ m \notin overwritten' => Distinct(Reply(g))
  BY <1>2, <1>3, TaintsIs
<1>5. PICK o \in Seq(PeerRecord) : o = peers[m]
  BY <1>1 DEF TypeOK
<1>6. PICK c \in Seq(PeerRecord) : c = Reply(g)
  BY <1>4
<1>7. PICK l : l = Redecoded(o, c)
  OBVIOUS
<1>8. l \in Seq(PeerRecord) /\ (m \notin overwritten' => Distinct(l))
  <2>1. /\ l \in Seq(PeerRecord) /\ DOMAIN l = DOMAIN c
        /\ \A i \in DOMAIN c : l[i].id = c[i].id
    BY <1>7, RedecodedIs
  <2>2. QED
    BY <1>4, <1>6, <2>1 DEF Distinct
<1>9. CASE ActiveMiners(l) # {}
  <2>1. /\ peers' = [peers EXCEPT ![m] = l]
        /\ UNCHANGED <<phase, store, life, conn, known, pending>>
    BY <1>2, <1>5, <1>6, <1>7, <1>9
  <2>2. QED
    BY <1>1, <1>3, <1>4, <1>8, <2>1, ListTaken
<1>10. CASE ActiveMiners(l) = {}
  <2>1. StartGossip(m, l) /\ store' = [store EXCEPT ![m] = "empty"]
    BY <1>2, <1>5, <1>6, <1>7, <1>10
  <2>2. store' \in [Miner -> {"none", "dir", "chain", "empty"}]
    BY <2>1 DEF TypeOK
  <2>3. QED
    BY <1>1, <1>3, <1>4, <1>8, <2>1, <2>2, FirstStart
<1>11. QED
  BY <1>9, <1>10

LEMMA SendFailsKeeps ==
  ASSUME TypeOK, ListsInvariant, NEW m \in Miner, SendFails(m)
  PROVE  Kept
<1>1. /\ m \in Node /\ phase[m] # "up"
      /\ UNCHANGED <<store, life, peers, saved, known, pending, calls, overwritten>>
  BY Nodes DEF SendFails
<1>2. /\ phase' = [phase EXCEPT ![m] = "stuck"] /\ conn' = [conn EXCEPT ![m] = 0]
      /\ failures' = failures \/ (Faulty /\ failures' = failures + 1)
  BY DEF SendFails
<1>3. /\ phase' \in [Node -> {"down", "ask", "download", "up", "stuck"}]
      /\ conn' \in [Node -> 0..MaxLives]
      /\ \A n \in Node : phase'[n] = "up" <=> phase[n] = "up"
  BY <1>1, <1>2, MembershipAssumption DEF TypeOK
<1>4. failures' \in 0..MaxFailures
  BY <1>2, MembershipAssumption DEF TypeOK, Faulty
<1>5. gets' \subseteq Get /\ GetsSound'
  <2>1. gets' \subseteq gets
    BY DEF SendFails
  <2>2. QED
    BY <1>1, <1>3, <2>1, GetsLeft DEF ListsInvariant
<1>6. TypeOK'
  BY <1>1, <1>3, <1>4, <1>5 DEF TypeOK, Get
<1>7. Started' /\ DiskDistinct' /\ \A n \in Node : Moves(n)
  BY <1>1, <1>3 DEF ListsInvariant, Started, DiskDistinct, Moves
<1>8. QED
  BY <1>5, <1>6, <1>7 DEF Kept

LEMMA ResumeKeeps ==
  ASSUME TypeOK, ListsInvariant, NEW n \in Node, Resume(n)
  PROVE  Kept
<1>1. /\ phase[n] # "up" /\ overwritten' = overwritten \ {n}
      /\ UNCHANGED <<store, saved, calls, gets, failures>>
  BY DEF Resume
<1>2. saved[n] \subseteq PeerRecord /\ \A p, q \in saved[n] : p.id = q.id => p = q
  BY DEF TypeOK, ListsInvariant, DiskDistinct
<1>3. PICK l \in Seq(PeerRecord) : l = FromDisk(n) /\ Distinct(l)
  BY <1>2, FromDiskIs
<1>4. StartGossip(n, l)
  BY <1>3 DEF Resume, StartGossip
<1>5. /\ phase' \in [Node -> {"down", "ask", "download", "up", "stuck"}]
      /\ life' \in [Node -> 0..MaxLives] /\ conn' \in [Node -> 0..MaxLives]
      /\ peers' \in [Node -> Seq(PeerRecord)]
      /\ known' \in [Node -> SUBSET Announcement]
      /\ pending' \in [Node -> Seq([upd : Announcement, log : SUBSET Announcement])]
      /\ Started'
      /\ \A q \in Node : Moves(q)
  BY <1>1, <1>3, <1>4, StartIs DEF ListsInvariant
<1>6. TypeOK'
  BY <1>1, <1>5 DEF TypeOK
<1>7. DiskDistinct'
  BY <1>1 DEF ListsInvariant, DiskDistinct
<1>8. GetsSound'
  <2>1. \A q \in Node : q # n => phase'[q] = phase[q]
    BY <1>4 DEF StartGossip, TypeOK
  <2>2. \A g \in gets : g.of \in Node /\ g.of # n
    BY <1>1, GetIs DEF ListsInvariant, GetsSound
  <2>3. QED
    BY <1>1, <2>1, <2>2 DEF ListsInvariant, GetsSound
<1>9. QED
  BY <1>5, <1>6, <1>7, <1>8 DEF Kept

LEMMA SavePeersKeeps ==
  ASSUME TypeOK, ListsInvariant, NEW n \in Node, SavePeers(n)
  PROVE  Kept
<1>1. UNCHANGED <<phase, store, life, conn, peers, known, pending, calls, gets,
                  overwritten, failures>>
  BY DEF SavePeers
<1>2. PICK l \in Seq(PeerRecord) : l = peers[n]
  BY DEF TypeOK
<1>3. PICK last : last = {i \in DOMAIN l : l[i].id \in Miner /\
                            \A j \in DOMAIN l : l[j].id = l[i].id => j <= i}
  OBVIOUS
<1>4. PICK now : now = {l[i] : i \in last}
  OBVIOUS
<1>4a. now \subseteq PeerRecord /\ \A p, q \in now : p.id = q.id => p = q
  <2>1. Len(l) \in Nat /\ DOMAIN l = 1..Len(l)
    BY ListIs
  <2>2. \A i, j \in last : l[i].id = l[j].id => i = j
    BY <1>3, <2>1
  <2>3. \A p \in now : \E i \in last : p = l[i]
    BY <1>4
  <2>4. QED
    BY <1>3, <2>2, <2>3, ListIs
<1>5. PICK disk : disk = now \cup {p \in saved[n] : \A q \in now : q.id # p.id}
  OBVIOUS
<1>6. saved' = [saved EXCEPT ![n] = disk]
  BY <1>2, <1>3, <1>4, <1>5 DEF SavePeers
<1>7. saved \in [Node -> SUBSET PeerRecord]
  BY DEF TypeOK
<1>8. disk \subseteq PeerRecord /\ \A p, q \in disk : p.id = q.id => p = q
  <2>1. saved[n] \subseteq PeerRecord /\ \A p, q \in saved[n] : p.id = q.id => p = q
    BY <1>7 DEF ListsInvariant, DiskDistinct
  <2>2. QED
    BY <1>4a, <1>5, <2>1
<1>9. /\ saved' \in [Node -> SUBSET PeerRecord] /\ saved'[n] = disk
      /\ \A q \in Node : q # n => saved'[q] = saved[q]
  BY <1>6, <1>7, <1>8
<1>10. TypeOK'
  BY <1>1, <1>9 DEF TypeOK
<1>11. DiskDistinct'
  BY <1>8, <1>9 DEF ListsInvariant, DiskDistinct
<1>12. Started' /\ GetsSound' /\ \A q \in Node : Moves(q)
  BY <1>1 DEF ListsInvariant, Started, GetsSound, Moves
<1>13. QED
  BY <1>10, <1>11, <1>12 DEF Kept

LEMMA EndsKeeps ==
  ASSUME TypeOK, ListsInvariant, NEW n \in Node, Ends(n),
         failures' = failures \/ (Faulty /\ failures' = failures + 1)
  PROVE  Kept
<1>1. /\ phase \in [Node -> {"down", "ask", "download", "up", "stuck"}]
      /\ conn \in [Node -> 0..MaxLives]
      /\ peers \in [Node -> Seq(PeerRecord)]
      /\ known \in [Node -> SUBSET Announcement]
      /\ pending \in [Node -> Seq([upd : Announcement, log : SUBSET Announcement])]
      /\ failures \in 0..MaxFailures
  BY DEF TypeOK
<1>2. UNCHANGED <<store, life, saved, calls, overwritten>>
  BY DEF Ends
<1>3. /\ phase' \in [Node -> {"down", "ask", "download", "up", "stuck"}]
      /\ conn' \in [Node -> 0..MaxLives]
  BY <1>1, MembershipAssumption DEF Ends
<1>4. /\ peers' \in [Node -> Seq(PeerRecord)]
      /\ known' \in [Node -> SUBSET Announcement]
      /\ pending' \in [Node -> Seq([upd : Announcement, log : SUBSET Announcement])]
  <2>1. PICK Q : Q = Seq([upd : Announcement, log : SUBSET Announcement])
    OBVIOUS
  <2>2. << >> \in Q
    BY <2>1
  <2>3. pending' \in [Node -> Q]
    BY <1>1, <2>1, <2>2 DEF Ends
  <2>4. peers' \in [Node -> Seq(PeerRecord)]
    BY <1>1 DEF Ends
  <2>5. known' \in [Node -> SUBSET Announcement]
    BY <1>1 DEF Ends
  <2>6. QED
    BY <2>1, <2>3, <2>4, <2>5
<1>5. failures' \in 0..MaxFailures
  BY <1>1, MembershipAssumption DEF Faulty
<1>7. /\ phase'[n] = "down" /\ peers'[n] = << >> /\ known'[n] = {}
      /\ \A q \in Node : q # n => /\ phase'[q] = phase[q] /\ peers'[q] = peers[q]
                                  /\ known'[q] = known[q]
  BY <1>1 DEF Ends
<1>7a. gets' \subseteq Get /\ GetsSound'
  <2>1. gets' \subseteq gets /\ \A g \in gets' : g.of # n
    BY DEF Ends
  <2>2. \A g \in gets' : g \in Get /\ g.of \in Node
    BY <2>1, GetIs
  <2>3. QED
    BY <1>2, <1>7, <2>1, <2>2 DEF ListsInvariant, GetsSound
<1>7b. TypeOK'
  BY <1>2, <1>3, <1>4, <1>5, <1>7a DEF TypeOK, Get
<1>8. Started' /\ DiskDistinct'
  BY <1>2, <1>7 DEF ListsInvariant, Started, DiskDistinct
<1>9. Moves(n)
  BY <1>2, <1>7 DEF Moves, Distinct
<1>10. \A q \in Node : q # n => Moves(q)
  BY <1>2, <1>7 DEF Moves
<1>11. QED
  BY <1>7a, <1>7b, <1>8, <1>9, <1>10 DEF Kept

LEMMA CrashKeeps ==
  ASSUME TypeOK, ListsInvariant, NEW n \in Node, Crash(n)
  PROVE  Kept
BY EndsKeeps DEF Crash

LEMMA NoBlocksKeeps ==
  ASSUME TypeOK, ListsInvariant, NEW m \in Miner, NoBlocks(m)
  PROVE  Kept
BY EndsKeeps, Nodes DEF NoBlocks

-----------------------------------------------------------------------------
(* Calls.                                                                  *)
Call == [from : PeerRecord, to : PeerRecord, upd : Announcement \cup {Block},
         log : SUBSET Announcement, pc : {"dial", "reply", "retransmit"},
         missing : SUBSET Announcement, reply : SUBSET Announcement]

LEMMA CallIs ==
  ASSUME TypeOK, NEW x \in calls
  PROVE  /\ x \in Call
         /\ x.from \in PeerRecord /\ x.to \in PeerRecord
         /\ x.from.id \in Node /\ x.to.id \in Node
         /\ x.upd \in Announcement \cup {Block}
         /\ x.log \subseteq Announcement /\ x.missing \subseteq Announcement
         /\ x.reply \subseteq Announcement
<1>1. x \in Call
  BY DEF TypeOK, Call
<1>2. \A p \in PeerRecord : p.id \in Node
  BY DEF PeerRecord
<1>3. QED
  BY <1>1, <1>2 DEF Call

LEMMA PushCycleIs ==
  ASSUME TypeOK, Started, NEW n \in Node, phase[n] = "up",
         NEW upd \in Announcement \cup {Block}, NEW log \in SUBSET Announcement,
         PushCycle(n, upd, log)
  PROVE  calls' \subseteq Call
<1>1. life[n] \in 1..MaxLives
  <2>1. life[n] \in 0..MaxLives /\ life[n] >= 1
    BY DEF TypeOK, Started
  <2>2. QED
    BY <2>1, MembershipAssumption
<1>2. Self(n, life[n]) \in PeerRecord
  BY <1>1, AnnouncementsAre
<1>3. PICK S :
        /\ S \in SelectPeers(peers[n], IF upd = Block THEN Miner ELSE Node, FanOut)
        /\ calls' = calls \cup
             {[from |-> Self(n, life[n]), to |-> p, upd |-> upd, log |-> log,
               pc |-> "dial", missing |-> {}, reply |-> {}] : p \in S}
  BY DEF PushCycle
<1>4. S \subseteq PeerRecord
  <2>1. PICK l \in Seq(PeerRecord) : l = peers[n]
    BY DEF TypeOK
  <2>2. S \subseteq ToSet(peers[n])
    BY <1>3 DEF SelectPeers
  <2>3. ToSet(l) \subseteq PeerRecord
    BY ListIs DEF ToSet
  <2>4. QED
    BY <2>1, <2>2, <2>3
<1>5. ASSUME NEW p \in S
      PROVE  [from |-> Self(n, life[n]), to |-> p, upd |-> upd, log |-> log,
              pc |-> "dial", missing |-> {}, reply |-> {}] \in Call
  BY <1>2, <1>4 DEF Call
<1>6. calls \subseteq Call
  BY CallIs
<1>7. QED
  BY <1>3, <1>5, <1>6

LEMMA PushPendingKeeps ==
  ASSUME TypeOK, ListsInvariant, NEW m \in Miner, PushPending(m)
  PROVE  Kept
<1>1. m \in Node /\ phase[m] = "up" /\ UNCHANGED <<phase, store, life, conn, peers,
                                              saved, known, gets, overwritten, failures>>
  BY Nodes DEF PushPending
<1>2. PICK R : R = [upd : Announcement, log : SUBSET Announcement]
  OBVIOUS
<1>3. PICK queue \in Seq(R) : queue = pending[m]
  BY <1>1, <1>2 DEF TypeOK
<1>4. queue # << >>
  BY <1>3 DEF PushPending
<1>5. Head(queue) \in R /\ Tail(queue) \in Seq(R)
  BY <1>4
<1>6. Head(pending[m]).upd \in Announcement /\ Head(pending[m]).log \in SUBSET Announcement
  BY <1>2, <1>3, <1>5
<1>7. PushCycle(m, Head(pending[m]).upd, Head(pending[m]).log)
  BY DEF PushPending
<1>8. calls' \subseteq Call
  BY <1>1, <1>6, <1>7, PushCycleIs DEF ListsInvariant
<1>9. pending' = [pending EXCEPT ![m] = Tail(queue)]
  BY <1>3 DEF PushPending
<1>10. pending' \in [Node -> Seq([upd : Announcement, log : SUBSET Announcement])]
  BY <1>1, <1>2, <1>5, <1>9 DEF TypeOK
<1>11. TypeOK'
  BY <1>1, <1>8, <1>10 DEF TypeOK, Call
<1>12. Started' /\ DiskDistinct' /\ GetsSound' /\ \A q \in Node : Moves(q)
  BY <1>1 DEF ListsInvariant, Started, DiskDistinct, GetsSound, Moves
<1>13. QED
  BY <1>11, <1>12 DEF Kept

LEMMA PushBlockKeeps ==
  ASSUME TypeOK, ListsInvariant, NEW m \in Miner, PushBlock(m)
  PROVE  Kept
<1>1. m \in Node /\ phase[m] = "up"
      /\ UNCHANGED <<phase, store, life, conn, peers, saved, known, pending, gets,
                     overwritten, failures>>
  BY Nodes DEF PushBlock
<1>2. PICK log \in SUBSET Announcement : log = known[m]
  BY <1>1 DEF TypeOK
<1>3. PICK upd \in Announcement \cup {Block} : upd = Block
  OBVIOUS
<1>4. PushCycle(m, upd, log)
  BY <1>2, <1>3, Zenon DEF PushBlock
<1>5. calls' \subseteq Call
  BY <1>1, <1>4, PushCycleIs DEF ListsInvariant
<1>6. TypeOK'
  BY <1>1, <1>5 DEF TypeOK, Call
<1>7. Started' /\ DiskDistinct' /\ GetsSound' /\ \A q \in Node : Moves(q)
  BY <1>1 DEF ListsInvariant, Started, DiskDistinct, GetsSound, Moves
<1>8. QED
  BY <1>6, <1>7 DEF Kept

LEMMA PushIntervalKeeps ==
  ASSUME TypeOK, ListsInvariant, PushInterval
  PROVE  Kept
<1>1. Coord \in Node /\ phase[Coord] = "up"
      /\ UNCHANGED <<phase, store, life, conn, peers, saved, known, pending, gets,
                     overwritten, failures>>
  BY Nodes DEF PushInterval
<1>2. known[Coord] \in SUBSET Announcement
  BY <1>1 DEF TypeOK
<1>3. PICK upd \in known[Coord] : PushCycle(Coord, upd, known[Coord])
  BY DEF PushInterval
<1>4. upd \in Announcement \cup {Block}
  BY <1>2
<1>5. calls' \subseteq Call
  BY <1>1, <1>2, <1>3, <1>4, PushCycleIs DEF ListsInvariant
<1>6. TypeOK'
  BY <1>1, <1>5 DEF TypeOK, Call
<1>7. Started' /\ DiskDistinct' /\ GetsSound' /\ \A q \in Node : Moves(q)
  BY <1>1 DEF ListsInvariant, Started, DiskDistinct, GetsSound, Moves
<1>8. QED
  BY <1>6, <1>7 DEF Kept

(* A step of a call changes lists and logs, the queue of a miner, and the  *)
(* call itself.                                                            *)
LEMMA CallKeeps ==
  ASSUME TypeOK, ListsInvariant, UNCHANGED <<phase, store, life, conn, saved, gets, overwritten>>,
         peers' \in [Node -> Seq(PeerRecord)],
         known' \in [Node -> SUBSET Announcement],
         pending' \in [Node -> Seq([upd : Announcement, log : SUBSET Announcement])],
         calls' \subseteq Call, failures' \in 0..MaxFailures,
         \A n \in Node : Moves(n)
  PROVE  Kept
<1>1. TypeOK'
  BY DEF TypeOK, Call
<1>2. Started' /\ DiskDistinct' /\ GetsSound'
  BY DEF ListsInvariant, Started, DiskDistinct, GetsSound
<1>3. QED
  BY <1>1, <1>2 DEF Kept

LEMMA HandleKeeps ==
  ASSUME TypeOK, ListsInvariant, NEW x \in calls, Handle(x)
  PROVE  Kept
<1>1. PICK n \in Node : n = x.to.id
  BY CallIs
<1>2. /\ x \in Call /\ x.from \in PeerRecord /\ x.upd \in Announcement \cup {Block}
      /\ x.log \subseteq Announcement
  BY CallIs
<1>3. PICK missed : missed = x.log \ ({x.upd} \cup known[n])
  OBVIOUS
<1>3a. PICK accepts \in BOOLEAN :
         LET taken == IF accepts THEN {x.upd} \ ({Block} \cup known[n]) ELSE {}
             log   == known[n] \cup taken
         IN  /\ peers' = [peers EXCEPT ![n] =
                            WithAnnounced(n, SetActive(@, x.from), taken)]
             /\ known' = [known EXCEPT ![n] = log]
             /\ pending' = [pending EXCEPT ![n] = IF n = Coord THEN @ ELSE
                              @ \o SetToSeq({[upd |-> u, log |-> log] : u \in taken})]
             /\ Step(x, [x EXCEPT !.pc = "reply", !.reply = log \ x.log,
                                  !.missing = IF accepts THEN {}
                                              ELSE (missed \cup {x.upd}) \ {Block}])
  <2>1. PICK other \in BOOLEAN :
         LET N       == x.to.id
             lacks   == x.log \ ({x.upd} \cup known[N])
             accepts == lacks = {} /\ ~other
             taken   == IF accepts THEN {x.upd} \ ({Block} \cup known[N]) ELSE {}
             log     == known[N] \cup taken
         IN  /\ peers' = [peers EXCEPT ![N] =
                            WithAnnounced(N, SetActive(@, x.from), taken)]
             /\ known' = [known EXCEPT ![N] = log]
             /\ pending' = [pending EXCEPT ![N] = IF N = Coord THEN @ ELSE
                              @ \o SetToSeq({[upd |-> u, log |-> log] : u \in taken})]
             /\ Step(x, [x EXCEPT !.pc = "reply", !.reply = log \ x.log,
                                  !.missing = IF accepts THEN {}
                                              ELSE (lacks \cup {x.upd}) \ {Block}])
    BY Zenon DEF Handle
  <2>2. PICK accepts \in BOOLEAN : accepts = (missed = {} /\ ~other)
    OBVIOUS
  <2>3. PICK taken : taken = IF accepts THEN {x.upd} \ ({Block} \cup known[n]) ELSE {}
    OBVIOUS
  <2>4. PICK log : log = known[n] \cup taken
    OBVIOUS
  <2>5. /\ peers' = [peers EXCEPT ![n] =
                       WithAnnounced(n, SetActive(@, x.from), taken)]
        /\ known' = [known EXCEPT ![n] = log]
        /\ pending' = [pending EXCEPT ![n] = IF n = Coord THEN @ ELSE
                         @ \o SetToSeq({[upd |-> u, log |-> log] : u \in taken})]
        /\ Step(x, [x EXCEPT !.pc = "reply", !.reply = log \ x.log,
                             !.missing = IF accepts THEN {}
                                         ELSE (missed \cup {x.upd}) \ {Block}])
    BY <1>1, <1>3, <2>1, <2>2, <2>3, <2>4
  <2>6. QED
    BY <2>3, <2>4, <2>5, Zenon
<1>3b. phase[n] = "up" /\ UNCHANGED <<phase, store, life, conn, saved, gets, overwritten,
                                      failures>>
  BY <1>1 DEF Handle, Reachable
<1>4. PICK taken : taken = IF accepts THEN {x.upd} \ ({Block} \cup known[n]) ELSE {}
  OBVIOUS
<1>5. taken \in SUBSET Announcement /\ taken \subseteq {x.upd}
  BY <1>2, <1>4
<1>6. PICK log : log = known[n] \cup taken
  OBVIOUS
<1>7. log \in SUBSET Announcement
  BY <1>5, <1>6 DEF TypeOK
<1>8. PICK y : y = [x EXCEPT !.pc = "reply", !.reply = log \ x.log,
                             !.missing = IF accepts THEN {}
                                         ELSE (missed \cup {x.upd}) \ {Block}]
  OBVIOUS
<1>9. PICK o \in Seq(PeerRecord) : o = peers[n]
  BY DEF TypeOK
<1>10. PICK l : l = SetActive(o, x.from)
  OBVIOUS
<1>11. PICK entries : entries = {[upd |-> u, log |-> log] : u \in taken}
  OBVIOUS
<1>12. /\ phase[n] = "up"
       /\ peers' = [peers EXCEPT ![n] = WithAnnounced(n, l, taken)]
       /\ known' = [known EXCEPT ![n] = log]
       /\ pending' = [pending EXCEPT ![n] = IF n = Coord THEN @ ELSE @ \o SetToSeq(entries)]
       /\ calls' = (calls \ {x}) \cup {y}
       /\ UNCHANGED <<phase, store, life, conn, saved, gets, overwritten, failures>>
  BY <1>3a, <1>3b, <1>4, <1>6, <1>8, <1>9, <1>10, <1>11 DEF Step
<1>13. /\ l \in Seq(PeerRecord) /\ DOMAIN l = DOMAIN o
       /\ \A i \in DOMAIN o : l[i].id = o[i].id
       /\ Goes(o, l)
  BY <1>2, <1>10, ActiveIs
<1>14. known' = [known EXCEPT ![n] = @ \cup taken]
  BY <1>6, <1>12
<1>15. /\ peers' \in [Node -> Seq(PeerRecord)]
       /\ known' \in [Node -> SUBSET Announcement]
       /\ \A q \in Node : Moves(q)
  BY <1>5, <1>9, <1>12, <1>13, <1>14, LearnIs
<1>16. PICK R : R = [upd : Announcement, log : SUBSET Announcement]
  OBVIOUS
<1>17. SetToSeq(entries) \in Seq(R)
  <2>1. \A u \in Announcement : [upd |-> u, log |-> log] \in R
    BY <1>7, <1>16
  <2>2. entries \subseteq R
    BY <1>5, <1>11, <2>1
  <2>3. entries \subseteq {[upd |-> x.upd, log |-> log]}
    BY <1>5, <1>11
  <2>4. IsFiniteSet(entries)
    <3>1. PICK one : one = {[upd |-> x.upd, log |-> log]}
      OBVIOUS
    <3>2. IsFiniteSet(one)
      BY <3>1, FS_Singleton
    <3>3. entries \in SUBSET one
      BY <2>3, <3>1
    <3>4. QED
      BY <3>2, <3>3, FS_Subset
  <2>5. SetToSeq(entries) \in Seq(entries)
    BY <2>4, SetToSeqIs
  <2>6. QED
    BY <2>2, <2>5
<1>18. pending' \in [Node -> Seq([upd : Announcement, log : SUBSET Announcement])]
  <2>1. pending \in [Node -> Seq(R)]
    BY <1>16 DEF TypeOK
  <2>2. PICK more : more = SetToSeq(entries)
    OBVIOUS
  <2>3. PICK queue \in Seq(R) : queue = pending[n]
    BY <2>1
  <2>4. queue \o more \in Seq(R)
    BY <1>17, <2>2
  <2>5. PICK next \in Seq(R) : next = IF n = Coord THEN queue ELSE queue \o more
    BY <2>4
  <2>6. pending' = [pending EXCEPT ![n] = next]
    BY <1>12, <2>2, <2>3, <2>5
  <2>7. pending' \in [Node -> Seq(R)]
    BY <2>1, <2>6
  <2>8. QED
    BY <1>16, <2>7
<1>19. y \in Call
  <2>1. PICK missing \in SUBSET Announcement :
          missing = IF accepts THEN {} ELSE (missed \cup {x.upd}) \ {Block}
    BY <1>2, <1>3
  <2>2. PICK reply \in SUBSET Announcement : reply = log \ x.log
    BY <1>7
  <2>3. y = [x EXCEPT !.pc = "reply", !.reply = reply, !.missing = missing]
    BY <1>8, <2>1, <2>2
  <2>4. QED
    BY <1>2, <2>3 DEF Call
<1>20. calls' \subseteq Call
  BY <1>12, <1>19, CallIs
<1>21. failures' \in 0..MaxFailures
  BY <1>12 DEF TypeOK
<1>22. QED
  BY <1>12, <1>15, <1>18, <1>20, <1>21, CallKeeps

LEMMA AnswerKeeps ==
  ASSUME TypeOK, ListsInvariant, NEW x \in calls, Answer(x)
  PROVE  Kept
<1>1. PICK n \in Node : n = x.from.id
  BY CallIs
<1>2. x \in Call /\ x.to \in PeerRecord /\ x.reply \in SUBSET Announcement
  BY CallIs
<1>3. PICK o \in Seq(PeerRecord) : o = peers[n]
  BY DEF TypeOK
<1>4. PICK l : l = SetActive(o, x.to)
  OBVIOUS
<1>5. /\ phase[n] = "up"
      /\ peers' = [peers EXCEPT ![n] = WithAnnounced(n, l, x.reply)]
      /\ known' = [known EXCEPT ![n] = @ \cup x.reply]
      /\ \/ calls' = calls \ {x}
         \/ calls' = (calls \ {x}) \cup {[x EXCEPT !.pc = "retransmit"]}
      /\ UNCHANGED <<phase, store, life, conn, saved, pending, gets, overwritten,
                     failures>>
  BY <1>1, <1>3, <1>4 DEF Answer, Alive, Step
<1>6. /\ l \in Seq(PeerRecord) /\ DOMAIN l = DOMAIN o
      /\ \A i \in DOMAIN o : l[i].id = o[i].id
      /\ Goes(o, l)
  BY <1>2, <1>4, ActiveIs
<1>7. /\ peers' \in [Node -> Seq(PeerRecord)]
      /\ known' \in [Node -> SUBSET Announcement]
      /\ \A q \in Node : Moves(q)
  BY <1>2, <1>3, <1>5, <1>6, LearnIs
<1>8. [x EXCEPT !.pc = "retransmit"] \in Call
  BY <1>2 DEF Call
<1>9. calls' \subseteq Call
  BY <1>5, <1>8, CallIs
<1>10. /\ pending' \in [Node -> Seq([upd : Announcement, log : SUBSET Announcement])]
       /\ failures' \in 0..MaxFailures
  BY <1>5 DEF TypeOK
<1>11. QED
  BY <1>5, <1>7, <1>9, <1>10, CallKeeps

LEMMA GoesToItself ==
  ASSUME NEW l \in Seq(PeerRecord)
  PROVE  Goes(l, l)
BY ListIs DEF Goes

LEMMA RetransmitKeeps ==
  ASSUME TypeOK, ListsInvariant, NEW x \in calls, Retransmit(x)
  PROVE  Kept
<1>1. PICK n \in Node : n = x.to.id
  BY CallIs
<1>2. x.missing \in SUBSET Announcement
  BY CallIs
<1>3. PICK o \in Seq(PeerRecord) : o = peers[n]
  BY DEF TypeOK
<1>4. /\ phase[n] = "up"
      /\ peers' = [peers EXCEPT ![n] = WithAnnounced(n, o, x.missing)]
      /\ known' = [known EXCEPT ![n] = @ \cup x.missing]
      /\ calls' = calls \ {x}
      /\ UNCHANGED <<phase, store, life, conn, saved, pending, gets, overwritten,
                     failures>>
  BY <1>1, <1>3 DEF Retransmit, Reachable
<1>5. Goes(o, o)
  BY GoesToItself
<1>6. /\ peers' \in [Node -> Seq(PeerRecord)]
      /\ known' \in [Node -> SUBSET Announcement]
      /\ \A q \in Node : Moves(q)
  BY <1>2, <1>3, <1>4, <1>5, LearnIs
<1>7. calls' \subseteq Call
  BY <1>4, CallIs
<1>8. /\ pending' \in [Node -> Seq([upd : Announcement, log : SUBSET Announcement])]
      /\ failures' \in 0..MaxFailures
  BY <1>4 DEF TypeOK
<1>9. QED
  BY <1>4, <1>6, <1>7, <1>8, CallKeeps

LEMMA FailKeeps ==
  ASSUME TypeOK, ListsInvariant, NEW x \in calls, Fail(x)
  PROVE  Kept
<1>1. PICK n \in Node : n = x.from.id
  BY CallIs
<1>2. x.to \in PeerRecord
  BY CallIs
<1>3. PICK o \in Seq(PeerRecord) : o = peers[n]
  BY DEF TypeOK
<1>4. PICK k : k = SetInactive(o, x.to)
  OBVIOUS
<1>5. PICK l : l = IF x.pc = "retransmit" THEN o ELSE k
  OBVIOUS
<1>6. /\ phase[n] = "up"
      /\ peers' = [peers EXCEPT ![n] = l]
      /\ calls' = calls \ {x}
      /\ failures' = failures \/ (Faulty /\ failures' = failures + 1)
      /\ UNCHANGED <<phase, store, life, conn, saved, known, pending, gets,
                     overwritten>>
  BY <1>1, <1>3, <1>4, <1>5 DEF Fail, Alive
<1>7. /\ k \in Seq(PeerRecord) /\ DOMAIN k = DOMAIN o
      /\ \A i \in DOMAIN o : k[i].id = o[i].id
      /\ Goes(o, k)
  BY <1>2, <1>4, InactiveIs
<1>8. Goes(o, o)
  BY GoesToItself
<1>9. /\ l \in Seq(PeerRecord) /\ DOMAIN l = DOMAIN o
      /\ \A i \in DOMAIN o : l[i].id = o[i].id
      /\ Goes(o, l)
  BY <1>5, <1>7, <1>8
<1>10. n \notin overwritten => Sound(n, o)
  BY <1>3, <1>6 DEF ListsInvariant, ListSound, Sound, Distinct
<1>11. n \notin overwritten => Sound(n, l)
  BY <1>9, <1>10 DEF Sound, Distinct
<1>12. PICK L \in SUBSET Announcement : L = known[n]
  BY DEF TypeOK
<1>13. known' = [known EXCEPT ![n] = L]
  BY <1>6, <1>12 DEF TypeOK
<1>14. n \notin overwritten => \A u \in L : u.id = n \/ Lists(l, u.id)
  <2>1. n \notin overwritten => \A u \in L : u.id = n \/ Lists(o, u.id)
    BY <1>3, <1>12, ListedIs DEF ListsInvariant, HeardIsListed
  <2>2. \A id : Lists(o, id) => Lists(l, id)
    BY <1>9 DEF Lists
  <2>3. QED
    BY <2>1, <2>2
<1>15. /\ peers' \in [Node -> Seq(PeerRecord)]
       /\ known' \in [Node -> SUBSET Announcement]
       /\ \A q \in Node : Moves(q)
  BY <1>3, <1>6, <1>9, <1>11, <1>13, <1>14, ChangeIs
<1>16. calls' \subseteq Call
  BY <1>6, CallIs
<1>17. failures' \in 0..MaxFailures
  BY <1>6, MembershipAssumption DEF TypeOK, Faulty
<1>18. pending' \in [Node -> Seq([upd : Announcement, log : SUBSET Announcement])]
  BY <1>6 DEF TypeOK
<1>19. QED
  BY <1>6, <1>15, <1>16, <1>17, <1>18, CallKeeps

LEMMA VanishKeeps ==
  ASSUME TypeOK, ListsInvariant, NEW x \in calls, Vanish(x)
  PROVE  Kept
<1>1. calls' \subseteq Call
  BY CallIs DEF Vanish
<1>2. \A n \in Node : Moves(n)
  BY DEF Vanish, Moves
<1>3. QED
  BY <1>1, <1>2, CallKeeps DEF Vanish, TypeOK

-----------------------------------------------------------------------------
LEMMA StepKeeps ==
  ASSUME TypeOK, ListsInvariant, [Next]_vars
  PROVE  Kept
<1>1. CASE UNCHANGED vars
  <2>1. TypeOK'
    BY <1>1 DEF vars, TypeOK
  <2>2. Started' /\ DiskDistinct' /\ GetsSound' /\ \A n \in Node : Moves(n)
    BY <1>1 DEF vars, ListsInvariant, Started, DiskDistinct, GetsSound, Moves
  <2>3. QED
    BY <2>1, <2>2 DEF Kept
<1>2. ASSUME NEW m \in Miner, MakeStorage(m) PROVE Kept
  BY <1>2, MakeStorageKeeps
<1>3. ASSUME NEW m \in Miner, Join(m) PROVE Kept
  BY <1>3, ConnectKeeps, AskCoordKeeps, DownloadKeeps, AskAgainKeeps,
             GetPeersKeeps DEF Join
<1>4. ASSUME NEW m \in Miner, SendFails(m) PROVE Kept
  BY <1>4, SendFailsKeeps
<1>5. ASSUME NEW m \in Miner, PushPending(m) \/ PushBlock(m) \/ NoBlocks(m) PROVE Kept
  BY <1>5, PushPendingKeeps, PushBlockKeeps, NoBlocksKeeps
<1>6. ASSUME NEW n \in Node, Resume(n) \/ SavePeers(n) \/ Crash(n) PROVE Kept
  BY <1>6, ResumeKeeps, SavePeersKeeps, CrashKeeps
<1>7. ASSUME PushInterval \/ \E g \in gets : AppendSelf(g) PROVE Kept
  BY <1>7, PushIntervalKeeps, AppendSelfKeeps
<1>8. ASSUME NEW x \in calls, Progress(x) PROVE Kept
  BY <1>8, HandleKeeps, AnswerKeeps, RetransmitKeeps DEF Progress
<1>9. ASSUME NEW x \in calls, Fail(x) \/ Vanish(x) PROVE Kept
  BY <1>9, FailKeeps, VanishKeeps
<1>10. QED
  BY <1>1, <1>2, <1>3, <1>4, <1>5, <1>6, <1>7, <1>8, <1>9 DEF Next

LEMMA InitHolds == Init => TypeOK /\ ListsInvariant
<1> SUFFICES ASSUME Init PROVE TypeOK /\ ListsInvariant
  OBVIOUS
<1>1. /\ \A n \in Node : /\ peers[n] = << >> /\ saved[n] = {} /\ known[n] = {}
                         /\ phase[n] = "up" => life[n] = 1
      /\ calls = {} /\ gets = {} /\ overwritten = {}
  BY DEF Init
<1>2. /\ phase \in [Node -> {"down", "ask", "download", "up", "stuck"}]
      /\ store \in [Miner -> {"none", "dir", "chain", "empty"}]
      /\ life \in [Node -> 0..MaxLives] /\ conn \in [Node -> 0..MaxLives]
      /\ failures \in 0..MaxFailures
  BY MembershipAssumption DEF Init
<1>3. peers \in [Node -> Seq(PeerRecord)]
  BY DEF Init
<1>4. saved \in [Node -> SUBSET PeerRecord] /\ known \in [Node -> SUBSET Announcement]
  BY DEF Init
<1>5. pending \in [Node -> Seq([upd : Announcement, log : SUBSET Announcement])]
  <2>1. PICK Q : Q = Seq([upd : Announcement, log : SUBSET Announcement])
    OBVIOUS
  <2>2. << >> \in Q
    BY <2>1
  <2>3. pending \in [Node -> Q]
    BY <2>2 DEF Init
  <2>4. QED
    BY <2>1, <2>3
<1>6. TypeOK
  BY <1>1, <1>2, <1>3, <1>4, <1>5 DEF TypeOK
<1>7. /\ Started /\ ListsDistinct /\ DiskDistinct /\ Forgotten /\ GetsSound
      /\ ListSound /\ HeardIsListed
  BY <1>1 DEF Started, ListsDistinct, DiskDistinct, Forgotten, GetsSound, ListSound,
              HeardIsListed, Distinct
<1>8. QED
  BY <1>6, <1>7 DEF ListsInvariant

LEMMA InvariantKept ==
  ASSUME TypeOK, ListsInvariant, [Next]_vars
  PROVE  TypeOK' /\ ListsInvariant' /\ \A n \in Node : NotMoved(n)
<1>1. TypeOK' /\ Started' /\ DiskDistinct' /\ GetsSound' /\ \A n \in Node : Moves(n)
  BY StepKeeps DEF Kept
<1>2. /\ ListsDistinct' /\ Forgotten' /\ ListSound' /\ HeardIsListed'
      /\ \A n \in Node : NotMoved(n)
  BY <1>1, MovesKeep
<1>3. QED
  BY <1>1, <1>2 DEF ListsInvariant

LEMMA Invariants == Spec => [](TypeOK /\ ListsInvariant)
<1>1. TypeOK /\ ListsInvariant /\ [Next]_vars => (TypeOK /\ ListsInvariant)'
  BY InvariantKept
<1>2. QED
  BY InitHolds, <1>1, PTL DEF Spec

(* Lists hold peers, logs and queues announcements of miners, and a call   *)
(* is between two nodes: nothing of the protocol is sent without a sender. *)
THEOREM TypeCorrect == Spec => []TypeOK
BY Invariants, PTL

(* However a miner starts, and whatever it is told of its former lives, no *)
(* node pushes to itself, or twice to one peer.                            *)
THEOREM ListSoundHolds == Spec => []ListSound
<1>1. TypeOK /\ ListsInvariant => ListSound
  BY DEF ListsInvariant
<1>2. QED
  BY Invariants, <1>1, PTL

(* Announcements are processed once, and none that is processed is lost    *)
(* for the list.                                                           *)
THEOREM HeardIsListedHolds == Spec => []HeardIsListed
<1>1. TypeOK /\ ListsInvariant => HeardIsListed
  BY DEF ListsInvariant
<1>2. QED
  BY Invariants, <1>1, PTL

(* No call, answer, announcement or failure takes a peer in contact back   *)
(* to the address of an earlier life.                                      *)
THEOREM NotMovedBackHolds == Spec => NotMovedBack
<1>1. TypeOK /\ ListsInvariant /\ [Next]_vars =>
        [\A n \in Node \ overwritten' :
           phase[n] = "up" /\ phase'[n] = "up" =>
             \A p \in ToSet(peers[n]), q \in ToSet(peers'[n]) :
               p.id = q.id /\ p.active => q.at >= p.at]_vars
  BY InvariantKept DEF NotMoved
<1>2. QED
  BY Invariants, <1>1, PTL DEF Spec, NotMovedBack
=============================================================================
