------------------------------ MODULE Selection ------------------------------
(***************************************************************************)
(* The loops of the code that copy some elements of a list, in their       *)
(* order: the k-th that is kept is the one with k kept ones up to it.      *)
(* SelectSeq says the same by recursion, which proofs cannot unfold.       *)
(***************************************************************************)
EXTENDS Naturals, Sequences, FiniteSets

Places(s, keep) == {i \in DOMAIN s : s[i] \in keep}

Rank(places, i) == Cardinality({j \in places : j <= i})

Selected(s, keep) ==
  LET places == Places(s, keep)
  IN  [k \in 1..Cardinality(places) |->
         s[CHOOSE i \in places : Rank(places, i) = k]]
=============================================================================
