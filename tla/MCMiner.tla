------------------------------ MODULE MCMiner -------------------------------
(* Instances of Miner for TLC.  Every transaction launches a poll of its   *)
(* own, so that the first copy of each succeeds and a second one fails.    *)
EXTENDS Miner, TLC

LaunchData == [t \in Txn |->
  [method |-> "Launch", poll |-> t, key |-> "ann", signed |-> TRUE,
   rules |-> [admins |-> {"ann"}, votesPerUser |-> 1, options |-> <<"x", "y">>,
              banned |-> {}, duration |-> 0],
   choice |-> << >>]]

CallSymmetry == Permutations(Call)
=============================================================================
