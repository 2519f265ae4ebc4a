------------------------------ MODULE MCClient ------------------------------
(* Instances of Client for TLC: the submission c1, and c2, whose signature *)
(* no miner accepts.                                                       *)
EXTENDS Client, TLC

Unsigned == {c \in Call : c = "c2"}
=============================================================================
