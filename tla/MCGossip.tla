------------------------------ MODULE MCGossip ------------------------------
(* Instances of Gossip for TLC: two miners a and b (and a third, c), or a  *)
(* miner and the tracker; a transaction t, a block x with it, a block y on *)
(* x, and the announcements na and nb of miners.                           *)
EXTENDS Gossip, TLC

Kinds == ("t" :> "txn") @@ ("x" :> "block") @@ ("y" :> "block") @@
         ("na" :> "node") @@ ("nb" :> "node")

UpdateKind == [u \in Update |-> Kinds[u]]

ChainNeeds == [u \in Update |->
  CASE u = "x" -> {"t"} \cap Update
    [] u = "y" -> {"x", "t"} \cap Update
    [] OTHER   -> {}]

(* Both may be given t by clients; x and y are mined by different miners.  *)
Makers == [u \in Update |->
  CASE u = "t"  -> {"a", "b"}
    [] u = "x"  -> {"a"}
    [] u = "y"  -> {"b"}
    [] u = "na" -> {"a"}
    [] u = "nb" -> {"b"}]

Subscriptions == [n \in Node |->
  IF n = "coord" THEN {"node"} ELSE {"txn", "block", "node"}]

Triggers == [n \in Node |-> IF n = "coord" THEN "interval" ELSE "update"]
=============================================================================
