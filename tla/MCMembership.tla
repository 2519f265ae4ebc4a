---------------------------- MODULE MCMembership -----------------------------
(* Instances of Membership for TLC: a coord and one or two miners.         *)
EXTENDS Membership, TLC
=============================================================================
