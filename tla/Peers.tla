-------------------------------- MODULE Peers --------------------------------
(***************************************************************************)
(* The peer list of gossip/peer-manager.go, as operators on a sequence of  *)
(* peers.  A peer is [id, at, active]: at stands for the start of the node *)
(* that it describes, which fixes its addresses and LastAnnounced.         *)
(***************************************************************************)
EXTENDS Integers, Sequences, FiniteSets, SequencesExt

(* The place of a peer in a list, 0 if it is not there.                    *)
Place(list, id) == SelectInSeq(list, LAMBDA p : p.id = id)

SetPeers(self, list) == RemoveFirstMatch(list, LAMBDA p : p.id = self)

\* Faulty variants, for the mutation runs: a node lists itself; a peer that
\* is not listed stays unlisted.
AddOrUpdateSelf(self, list, p) ==
  LET i == Place(list, p.id)
  IN  IF i = 0 THEN Append(list, p)
      ELSE IF p.at > list[i].at THEN [list EXCEPT ![i] = p] ELSE list
AddOrUpdateListed(self, list, p) ==
  LET i == Place(list, p.id)
  IN  IF p.id # self /\ i # 0 /\ p.at > list[i].at
      THEN [list EXCEPT ![i] = p] ELSE list

(* A peer announces itself: it is new, or it has started again.            *)
AddOrUpdatePeer(self, list, p) ==
  LET i == Place(list, p.id)
  IN  IF p.id = self THEN list
      ELSE IF i = 0 THEN Append(list, p)
      ELSE IF p.at > list[i].at THEN [list EXCEPT ![i] = p] ELSE list

\* A faulty variant: whether it was inactive or not.
SetActiveAlways(list, p) ==
  LET i == Place(list, p.id)
  IN  IF i # 0 THEN [list EXCEPT ![i] = [p EXCEPT !.active = TRUE]] ELSE list

(* A peer has called or answered.  One that was inactive may have moved.   *)
SetActive(list, p) ==
  LET i == Place(list, p.id)
  IN  IF i # 0 /\ ~list[i].active
      THEN [list EXCEPT ![i] = [p EXCEPT !.active = TRUE]] ELSE list

SetInactive(list, p) ==
  LET i == Place(list, p.id)
  IN  IF i # 0 THEN [list EXCEPT ![i].active = FALSE] ELSE list

(* The peers a push cycle may choose: active ones among the subscribers.   *)
SelectPeers(list, subscribers, fanOut) ==
  LET active == {p \in ToSet(list) : p.active /\ p.id \in subscribers}
  IN  IF Cardinality(active) <= fanOut THEN {active}
      ELSE {S \in SUBSET active : Cardinality(S) = fanOut}

(* gob decodes a list into the array of the one decoded before, if it      *)
(* fits, and a false flag is not encoded: the old one stays.  (An array    *)
(* that holds more than the last list is taken to be as short as the list.) *)
Redecoded(old, new) ==
  IF Len(new) > Len(old) THEN new
  ELSE [i \in DOMAIN new |-> [new[i] EXCEPT !.active = @ \/ old[i].active]]
=============================================================================
