------------------------------ MODULE MCChain -------------------------------
(* Instances of BlockChain for TLC: the polls, users and rules.            *)
EXTENDS BlockChain, Difficulty

Rules(admins, votes, banned, duration) ==
  [admins |-> admins, votesPerUser |-> votes, options |-> <<"x", "y">>,
   banned |-> banned, duration |-> duration]

NoRules == Rules({}, 0, {}, 0)

Payload(method, key, rules, choice) ==
  [method |-> method, poll |-> "p", key |-> key, signed |-> TRUE,
   rules |-> rules, choice |-> choice]

Forged(payload) == [payload EXCEPT !.signed = FALSE]

Launch(key, rules) == Payload("Launch", key, rules, << >>)
Vote(key, choice)  == Payload("Vote", key, NoRules, choice)
Terminate(key)     == Payload("Terminate", key, NoRules, << >>)

(* Forks: one poll of one block, the two conflicting votes of one user,    *)
(* and a vote with a bad signature.                                        *)
ForkData == [t \in Txn |->
  CASE t = "launch" -> Launch("ann", Rules({"ann"}, 1, {}, 1))
    [] t = "bobX"   -> Vote("bob", <<"x">>)
    [] t = "bobY"   -> Vote("bob", <<"y">>)
    [] t = "forged" -> Forged(Vote("eve", <<"y">>))]

ForkTxn == {"launch", "bobX", "bobY", "forged"}

(* Polls: one that ends by its duration or by its admin, a vote and an     *)
(* end.  Each may come any number of times.                                *)
PollData == [t \in Txn |->
  CASE t = "launch" -> Launch("ann", Rules({"ann"}, 1, {}, 1))
    [] t = "vote"   -> Vote("bob", <<"x">>)
    [] t = "end"    -> Terminate("ann")]

PollTxn == {"launch", "vote", "end"}

(* Facts about pure operators, which TLC evaluates before each run.        *)
ASSUME DifficultyFacts == WindowMeasured /\ TargetLasts
=============================================================================
