--------------------------- MODULE Client_proofs ---------------------------
(***************************************************************************)
(* Theorems about the client library, for every set of submissions and     *)
(* miners, any number of attempts and complaints, and any number of        *)
(* faults.                                                                 *)
(***************************************************************************)
EXTENDS Client, FiniteSetTheorems, TLAPS

-----------------------------------------------------------------------------
(* Every variable has its type, and no channel of complaints is overfull.  *)
Place == [pc : {"idle", "pick", "again", "complain", "dial", "call", "reply", "done"},
          try : 1..SubmitRetry, miner : SUBSET Miner, ok : BOOLEAN]

LEMMA AtType ==
  ASSUME NEW try \in 1..SubmitRetry, NEW pc \in {"idle", "pick", "done"}
  PROVE  At(pc, try, {}) \in Place
BY DEF At, Place

LEMMA FailsType ==
  ASSUME TypeOK, NEW c \in Call, AttemptFails(c)
  PROVE  calls' \in [Call -> Place]
<1>1. calls \in [Call -> Place]
  BY DEF TypeOK, Place
<1>2. calls[c].try \in 1..SubmitRetry
  BY <1>1 DEF Place
<1>3. CASE calls[c].try < SubmitRetry
  <2>1. calls[c].try + 1 \in 1..SubmitRetry
    BY <1>2, <1>3, ClientAssumption
  <2>2. At("pick", calls[c].try + 1, {}) \in Place
    BY <2>1, AtType
  <2>3. QED
    BY <1>1, <1>3, <2>2 DEF AttemptFails
<1>4. CASE ~(calls[c].try < SubmitRetry)
  <2>1. At("done", calls[c].try, {}) \in Place
    BY <1>2, AtType
  <2>2. QED
    BY <1>1, <1>4, <2>1 DEF AttemptFails
<1>5. QED
  BY <1>3, <1>4

LEMMA GotoType ==
  ASSUME TypeOK, NEW c \in Call, Goto(c, "pick") \/ Goto(c, "again") \/ Goto(c, "complain")
                                 \/ Goto(c, "call") \/ Goto(c, "reply")
  PROVE  calls' \in [Call -> Place]
BY DEF TypeOK, Place, Goto

LEMMA FaultType ==
  ASSUME TypeOK, NEW running, Fault(running)
  PROVE  faults' \in 0..MaxFaults
BY ClientAssumption DEF TypeOK, Fault

(* The variables of a submission's step keep their types.                  *)
LEMMA SubmissionType ==
  ASSUME TypeOK, NEW c \in Call, Submission(c)
  PROVE  TypeOK'
<1>1. CASE Submit(c)
  BY <1>1, GotoType DEF TypeOK, Submit, Place, coord, managers
<1>2. CASE Pick(c)
  <2>1. calls' \in [Call -> Place]
    <3>1. CASE Goto(c, "complain")
      BY <3>1, GotoType
    <3>2. CASE \E m \in MinerAddrList :
                 calls' = [calls EXCEPT ![c].pc = "dial", ![c].miner = {m}]
      <4>1. PICK m \in MinerAddrList :
              calls' = [calls EXCEPT ![c].pc = "dial", ![c].miner = {m}]
        BY <3>2
      <4>2. {m} \in SUBSET Miner
        BY DEF TypeOK
      <4>3. QED
        BY <4>1, <4>2 DEF TypeOK, Place
    <3>3. QED
      BY <1>2, <3>1, <3>2 DEF Pick
  <2>2. QED
    BY <1>2, <2>1 DEF TypeOK, Pick, Place, coord, managers
<1>3. CASE Dial(c)
  <2>1. calls' \in [Call -> Place]
    BY <1>3, GotoType DEF Dial
  <2>2. MinerAddrList' \subseteq Miner
    BY <1>3 DEF Dial, TypeOK
  <2>3. faults' \in 0..MaxFaults
    BY <1>3, FaultType DEF Dial, TypeOK
  <2>4. QED
    BY <1>3, <2>1, <2>2, <2>3 DEF TypeOK, Dial, Place, coord, managers
<1>4. CASE Complain(c)
  <2>1. calls' \in [Call -> Place]
    BY <1>4, GotoType DEF Complain
  <2>2. ComplainMiner' \in 0..ComplaintCap
    BY <1>4, ClientAssumption DEF Complain, TypeOK
  <2>3. QED
    BY <1>4, <2>1, <2>2 DEF TypeOK, Complain, Place, coord, managers
<1>5. CASE Handle(c)
  <2>1. calls' \in [Call -> Place]
    BY <1>5, GotoType, FailsType DEF Handle
  <2>2. taken' \in [Call -> SUBSET Miner] /\ lost' \in [Call -> SUBSET Miner]
    BY <1>5 DEF Handle, TypeOK
  <2>3. QED
    BY <1>5, <2>1, <2>2 DEF TypeOK, Handle, Place, coord, managers
<1>6. CASE Answer(c)
  <2>1. [At("done", SubmitRetry, {}) EXCEPT !.ok = TRUE] \in Place
    <3>1. SubmitRetry \in 1..SubmitRetry
      BY ClientAssumption
    <3>2. At("done", SubmitRetry, {}) \in Place
      BY <3>1, AtType
    <3>3. QED
      BY <3>2 DEF Place
  <2>2. calls' \in [Call -> Place]
    BY <1>6, <2>1 DEF Answer, TypeOK, Place
  <2>3. QED
    BY <1>6, <2>2 DEF TypeOK, Answer, Place, coord, managers
<1>7. CASE Timeout(c)
  BY <1>7, FailsType DEF TypeOK, Timeout, Place, coord, managers
<1>8. CASE FailCall(c)
  <2>1. calls' \in [Call -> Place]
    BY <1>8, FailsType DEF FailCall
  <2>2. taken' \in [Call -> SUBSET Miner]
    BY <1>8 DEF FailCall, TypeOK
  <2>3. lost' \in [Call -> SUBSET Miner]
    BY <1>8, <2>2 DEF FailCall, TypeOK
  <2>4. faults' \in 0..MaxFaults
    BY <1>8, FaultType DEF FailCall
  <2>5. QED
    BY <1>8, <2>1, <2>2, <2>3, <2>4 DEF TypeOK, FailCall, Place, coord, managers
<1>9. QED
  BY <1>1, <1>2, <1>3, <1>4, <1>5, <1>6, <1>7, <1>8 DEF Submission, GoOn

(* Every variable has its type, and the channels keep within capacity.     *)
THEOREM TypeCorrect == Spec => []TypeOK
<1>1. Init => TypeOK
  BY ClientAssumption DEF Init, TypeOK, At
<1>2. TypeOK /\ [Next]_vars => TypeOK'
  <2> SUFFICES ASSUME TypeOK, [Next]_vars PROVE TypeOK'
    OBVIOUS
  <2>1. CASE Environment
    <3>1. CASE \E m \in Miner : StopMiner(m)
      BY <3>1, ClientAssumption DEF TypeOK, StopMiner, coord, managers
    <3>2. CASE \E m \in Miner : Hear(m)
      BY <3>2 DEF TypeOK, Hear, managers
    <3>3. CASE StopCoord
      <4>1. coordUp' \in BOOLEAN /\ coordClient' \in BOOLEAN
        BY <3>3 DEF StopCoord
      <4>2. faults' \in 0..MaxFaults
        BY <3>3, ClientAssumption DEF TypeOK, StopCoord
      <4>3. QED
        BY <3>3, <4>1, <4>2 DEF TypeOK, StopCoord, managers
    <3>4. CASE StartCoord
      <4>1. coordUp' \in BOOLEAN
        BY <3>4 DEF StartCoord
      <4>2. QED
        BY <3>4, <4>1 DEF TypeOK, StartCoord, managers
    <3>5. QED
      BY <2>1, <3>1, <3>2, <3>3, <3>4 DEF Environment
  <2>2. CASE CoordConnManager
    <3>1. CASE TakeCoordComplaint
      BY <3>1, ClientAssumption DEF TypeOK, TakeCoordComplaint, coord
    <3>2. CASE ConnectCoord
      <4>1. coordClient' \in BOOLEAN
        BY <3>2 DEF ConnectCoord
      <4>2. QED
        BY <3>2, <4>1 DEF TypeOK, ConnectCoord
    <3>3. CASE DigestCoordComplaints
      BY <3>3, ClientAssumption DEF TypeOK, DigestCoordComplaints, coord
    <3>4. QED
      BY <2>2, <3>1, <3>2, <3>3 DEF CoordConnManager
  <2>3. CASE MinerListManager
    BY <2>3, ClientAssumption DEF TypeOK, MinerListManager, TakeMinerComplaint, AskCoord,
                                  ComplainOfCoord, DigestMinerComplaints, coord, managers
  <2>4. CASE \E c \in Call : Submission(c)
    BY <2>4, SubmissionType
  <2>5. CASE UNCHANGED vars
    BY <2>5 DEF TypeOK, vars, coord, managers
  <2>6. QED
    BY <2>1, <2>2, <2>3, <2>4, <2>5 DEF Next
<1>3. QED
  BY <1>1, <1>2, PTL DEF Spec

-----------------------------------------------------------------------------
(* What has happened to a submission, at each place: a miner that took its *)
(* transaction and whose answer is not lost is the one whose answer is on  *)
(* its way, or has come.                                                   *)
Held(c) == taken[c] \ lost[c]

Told(c) ==
  /\ calls[c].pc \in {"dial", "call", "reply"} => \E m \in Miner : calls[c].miner = {m}
  /\ calls[c].pc = "reply" => Held(c) = calls[c].miner /\ c \notin Refused
  /\ calls[c].ok => calls[c].pc = "done" /\ \E m \in Miner : Held(c) = {m}
  /\ calls[c].pc # "reply" /\ ~calls[c].ok => Held(c) = {}
  /\ c \in Refused => taken[c] = {}
  /\ calls[c].pc = "done" /\ ~calls[c].ok => calls[c].try = SubmitRetry
  /\ IsFiniteSet(lost[c]) /\ Cardinality(lost[c]) <= Failed(c)

ToldInvariant == TypeOK /\ \A c \in Call : Told(c)

(* A failed attempt leaves no answer to wait for, and is counted.          *)
LEMMA FailsTold ==
  ASSUME TypeOK, NEW c \in Call, AttemptFails(c), calls[c].pc # "done"
  PROVE  /\ calls'[c].ok = FALSE /\ calls'[c].pc \in {"pick", "done"}
         /\ calls'[c].pc = "done" => calls'[c].try = SubmitRetry
         /\ Failed(c) \in Nat /\ Failed(c)' = Failed(c) + 1
<1>1. calls[c].try \in 1..SubmitRetry /\ SubmitRetry \in Nat
  BY ClientAssumption DEF TypeOK
<1>2. Failed(c) = calls[c].try - 1
  BY DEF Failed
<1>3. CASE calls[c].try < SubmitRetry
  <2>1. calls'[c] = At("pick", calls[c].try + 1, {})
    BY <1>3 DEF AttemptFails, TypeOK
  <2>2. /\ calls'[c].pc = "pick" /\ calls'[c].ok = FALSE
        /\ calls'[c].try = calls[c].try + 1
    BY <2>1 DEF At
  <2>3. Failed(c)' = (calls[c].try + 1) - 1
    BY <2>2 DEF Failed
  <2>4. QED
    BY <1>1, <1>2, <2>2, <2>3
<1>4. CASE ~(calls[c].try < SubmitRetry)
  <2>1. calls'[c] = At("done", calls[c].try, {})
    BY <1>4 DEF AttemptFails, TypeOK
  <2>2. calls'[c].pc = "done" /\ calls'[c].ok = FALSE /\ calls'[c].try = calls[c].try
    BY <2>1 DEF At
  <2>3. Failed(c)' = calls[c].try
    BY <2>2 DEF Failed
  <2>4. QED
    BY <1>1, <1>2, <1>4, <2>2, <2>3
<1>5. QED
  BY <1>3, <1>4

(* A step of one submission leaves the others as they are.                 *)
LEMMA OthersUntouched ==
  ASSUME TypeOK, NEW c \in Call, Submission(c), NEW d \in Call, d # c
  PROVE  calls'[d] = calls[d] /\ taken'[d] = taken[d] /\ lost'[d] = lost[d]
<1>1. CASE Submit(c) \/ Complain(c) \/ Dial(c) \/ Timeout(c)
  BY <1>1 DEF TypeOK, Submit, Complain, Dial, Timeout, Goto, AttemptFails
<1>2. CASE Pick(c)
  BY <1>2 DEF TypeOK, Pick, Goto
<1>3. CASE Handle(c)
  BY <1>3 DEF TypeOK, Handle, Goto, AttemptFails
<1>4. CASE Answer(c)
  BY <1>4 DEF TypeOK, Answer
<1>5. CASE FailCall(c)
  BY <1>5 DEF TypeOK, FailCall, AttemptFails
<1>6. QED
  BY <1>1, <1>2, <1>3, <1>4, <1>5 DEF Submission, GoOn

(* Before an answer is on its way, a submission that goes on is told as    *)
(* before.                                                                 *)
LEMMA GoesOnTold ==
  ASSUME TypeOK, NEW c \in Call, Told(c), calls[c].pc \notin {"reply", "done"},
         calls'[c].ok = FALSE, calls'[c].pc # "reply",
         calls'[c].pc \in {"dial", "call"} => \E m \in Miner : calls'[c].miner = {m},
         taken'[c] = taken[c], lost'[c] = lost[c],
         calls'[c].pc # "done" /\ calls'[c].try = calls[c].try
  PROVE  Told(c)'
<1>1. ~calls[c].ok
  BY DEF Told
<1>2. Held(c) = {}
  BY <1>1 DEF Told
<1>3. Failed(c)' = Failed(c)
  BY DEF Failed
<1>4. QED
  BY <1>2, <1>3 DEF Told, Held

(* The same when its attempt has failed with nothing taken.                *)
LEMMA GivesUpTold ==
  ASSUME TypeOK, NEW c \in Call, Told(c), calls[c].pc \notin {"reply", "done"},
         AttemptFails(c), taken'[c] = taken[c], lost'[c] = lost[c]
  PROVE  Told(c)'
<1>1. ~calls[c].ok /\ Held(c) = {}
  BY DEF Told
<1>2. /\ calls'[c].ok = FALSE /\ calls'[c].pc \in {"pick", "done"}
      /\ calls'[c].pc = "done" => calls'[c].try = SubmitRetry
      /\ Failed(c) \in Nat /\ Failed(c)' = Failed(c) + 1
  BY FailsTold
<1>3. IsFiniteSet(lost'[c]) /\ Cardinality(lost'[c]) <= Failed(c)'
  <2>1. IsFiniteSet(lost[c]) /\ Cardinality(lost[c]) <= Failed(c)
    BY DEF Told
  <2>2. Cardinality(lost[c]) \in Nat
    BY <2>1, FS_CardinalityType
  <2>3. QED
    BY <1>2, <2>1, <2>2
<1>4. QED
  BY <1>1, <1>2, <1>3 DEF Told, Held

LEMMA SubmissionTold ==
  ASSUME TypeOK, NEW c \in Call, Told(c), Submission(c)
  PROVE  Told(c)'
<1>1. CASE Submit(c)
  <2>1. ~calls[c].ok
    BY <1>1 DEF Submit, Told
  <2>2. calls'[c].ok = FALSE /\ calls'[c].pc = "pick" /\ calls'[c].try = calls[c].try
    BY <1>1, <2>1 DEF Submit, Goto, TypeOK
  <2>3. QED
    BY <1>1, <2>2, GoesOnTold DEF Submit
<1>2. CASE Pick(c)
  <2>1. ~calls[c].ok
    BY <1>2 DEF Pick, Told
  <2>2. CASE Goto(c, "complain")
    <3>1. calls'[c].ok = FALSE /\ calls'[c].pc = "complain" /\ calls'[c].try = calls[c].try
      BY <2>1, <2>2 DEF Goto, TypeOK
    <3>2. QED
      BY <1>2, <3>1, GoesOnTold DEF Pick
  <2>3. CASE \E m \in MinerAddrList :
               calls' = [calls EXCEPT ![c].pc = "dial", ![c].miner = {m}]
    <3>1. PICK m \in MinerAddrList :
            calls' = [calls EXCEPT ![c].pc = "dial", ![c].miner = {m}]
      BY <2>3
    <3>2. m \in Miner
      BY DEF TypeOK
    <3>3. /\ calls'[c].ok = FALSE /\ calls'[c].pc = "dial" /\ calls'[c].miner = {m}
          /\ calls'[c].try = calls[c].try
      BY <2>1, <3>1 DEF TypeOK
    <3>4. QED
      BY <1>2, <3>2, <3>3, GoesOnTold DEF Pick
  <2>4. QED
    BY <1>2, <2>2, <2>3 DEF Pick
<1>3. CASE Dial(c)
  <2>1. ~calls[c].ok /\ \E m \in Miner : calls[c].miner = {m}
    BY <1>3 DEF Dial, Told
  <2>2. /\ calls'[c].ok = FALSE /\ calls'[c].pc \in {"call", "again"}
        /\ calls'[c].miner = calls[c].miner /\ calls'[c].try = calls[c].try
    BY <1>3, <2>1 DEF Dial, Goto, TypeOK
  <2>3. QED
    BY <1>3, <2>1, <2>2, GoesOnTold DEF Dial
<1>4. CASE Complain(c)
  <2>1. ~calls[c].ok
    BY <1>4 DEF Complain, Told
  <2>2. calls'[c].ok = FALSE /\ calls'[c].pc = "again" /\ calls'[c].try = calls[c].try
    BY <1>4, <2>1 DEF Complain, Goto, TypeOK
  <2>3. QED
    BY <1>4, <2>2, GoesOnTold DEF Complain
<1>5. CASE Timeout(c)
  BY <1>5, GivesUpTold DEF Timeout
<1>6. CASE Handle(c)
  <2>1. ~calls[c].ok /\ Held(c) = {} /\ \E m \in Miner : calls[c].miner = {m}
    BY <1>6 DEF Handle, Told
  <2>2. CASE c \in Refused
    BY <1>6, <2>2, GivesUpTold DEF Handle
  <2>3. CASE c \notin Refused
    <3>1. /\ calls'[c].ok = FALSE /\ calls'[c].pc = "reply"
          /\ calls'[c].miner = calls[c].miner /\ calls'[c].try = calls[c].try
      BY <1>6, <2>1, <2>3 DEF Handle, Goto, TypeOK
    <3>2. /\ taken'[c] = taken[c] \cup calls[c].miner
          /\ lost'[c] = lost[c] \ calls[c].miner
      BY <1>6, <2>3 DEF Handle, TypeOK
    <3>3. taken'[c] \ lost'[c] = calls[c].miner
      BY <2>1, <3>2 DEF Held
    <3>4. IsFiniteSet(lost'[c]) /\ Cardinality(lost'[c]) <= Failed(c)'
      <4>1. IsFiniteSet(lost[c]) /\ Cardinality(lost[c]) <= Failed(c)
        BY DEF Told
      <4>2. /\ IsFiniteSet(lost'[c]) /\ Cardinality(lost'[c]) <= Cardinality(lost[c])
            /\ Cardinality(lost'[c]) \in Nat /\ Cardinality(lost[c]) \in Nat
        BY <3>2, <4>1, FS_Subset, FS_CardinalityType
      <4>3. Failed(c)' = Failed(c) /\ Failed(c) = calls[c].try - 1
        BY <1>6, <3>1 DEF Failed, Handle
      <4>4. calls[c].try \in Nat
        BY DEF TypeOK
      <4>5. QED
        BY <4>1, <4>2, <4>3, <4>4
    <3>5. QED
      BY <2>1, <2>3, <3>1, <3>3, <3>4 DEF Told, Held
  <2>4. QED
    BY <2>2, <2>3
<1>7. CASE Answer(c)
  <2>1. Held(c) = calls[c].miner /\ c \notin Refused /\ \E m \in Miner : calls[c].miner = {m}
    BY <1>7 DEF Answer, Told
  <2>2. calls'[c].ok = TRUE /\ calls'[c].pc = "done" /\ calls'[c].try = SubmitRetry
    BY <1>7 DEF Answer, At, TypeOK
  <2>3. taken'[c] = taken[c] /\ lost'[c] = lost[c]
    BY <1>7 DEF Answer
  <2>4. IsFiniteSet(lost'[c]) /\ Cardinality(lost'[c]) <= Failed(c)'
    <3>1. Failed(c)' = SubmitRetry - 1 /\ Failed(c) = calls[c].try - 1
      BY <1>7, <2>2 DEF Failed, Answer
    <3>2. calls[c].try \in 1..SubmitRetry /\ SubmitRetry \in Nat
      BY ClientAssumption DEF TypeOK
    <3>3. IsFiniteSet(lost[c]) /\ Cardinality(lost[c]) <= Failed(c)
      BY DEF Told
    <3>4. Cardinality(lost[c]) \in Nat
      BY <3>3, FS_CardinalityType
    <3>5. QED
      BY <2>3, <3>1, <3>2, <3>3, <3>4
  <2>5. QED
    BY <2>1, <2>2, <2>3, <2>4 DEF Told, Held
<1>8. CASE FailCall(c)
  <2>1. PICK S \in {{}, IF calls[c].miner \subseteq up /\ c \notin Refused
                        THEN calls[c].miner ELSE {}} :
          taken' = [taken EXCEPT ![c] = @ \cup S]
    BY <1>8 DEF FailCall
  <2>2. S = {} \/ (c \notin Refused /\ S = calls[c].miner)
    BY <2>1
  <2>3. taken'[c] = taken[c] \cup S
    BY <2>1 DEF TypeOK
  <2>4. lost'[c] = lost[c] \cup (calls[c].miner \cap taken'[c])
    BY <1>8 DEF FailCall, TypeOK
  <2>5. Held(c) \subseteq calls[c].miner
    <3>1. calls[c].pc = "reply" => Held(c) = calls[c].miner
      BY DEF Told
    <3>2. calls[c].pc = "call" => Held(c) = {}
      BY DEF Told
    <3>3. QED
      BY <1>8, <3>1, <3>2 DEF FailCall, InCall
  <2>6. taken'[c] \ lost'[c] = {}
    BY <2>2, <2>3, <2>4, <2>5 DEF Held
  <2>7. c \in Refused => taken'[c] = {}
    BY <2>2, <2>3 DEF Told
  <2>8. /\ calls'[c].ok = FALSE /\ calls'[c].pc \in {"pick", "done"}
        /\ calls'[c].pc = "done" => calls'[c].try = SubmitRetry
        /\ Failed(c) \in Nat /\ Failed(c)' = Failed(c) + 1
    BY <1>8, FailsTold DEF FailCall, InCall
  <2>9. IsFiniteSet(lost'[c]) /\ Cardinality(lost'[c]) <= Failed(c)'
    <3>1. PICK m \in Miner : calls[c].miner = {m}
      BY <1>8 DEF FailCall, InCall, Told
    <3>2. IsFiniteSet(lost[c]) /\ Cardinality(lost[c]) <= Failed(c)
      BY DEF Told
    <3>3. lost'[c] = lost[c] \/ lost'[c] = lost[c] \cup {m}
      BY <2>4, <3>1
    <3>4. /\ IsFiniteSet(lost[c] \cup {m})
          /\ Cardinality(lost[c] \cup {m}) = Cardinality(lost[c])
               \/ Cardinality(lost[c] \cup {m}) = Cardinality(lost[c]) + 1
      BY <3>2, FS_AddElement
    <3>5. Cardinality(lost[c]) \in Nat
      BY <3>2, FS_CardinalityType
    <3>6. CASE lost'[c] = lost[c]
      BY <2>8, <3>2, <3>5, <3>6
    <3>7. CASE lost'[c] = lost[c] \cup {m}
      <4>1. IsFiniteSet(lost'[c])
        BY <3>4, <3>7
      <4>2. Cardinality(lost'[c]) <= Cardinality(lost[c]) + 1
        BY <3>4, <3>5, <3>7
      <4>3. Cardinality(lost'[c]) \in Nat
        BY <4>1, FS_CardinalityType
      <4>4. QED
        BY <2>8, <3>2, <3>5, <4>1, <4>2, <4>3
    <3>8. QED
      BY <3>3, <3>6, <3>7
  <2>10. QED
    BY <2>6, <2>7, <2>8, <2>9 DEF Told, Held
<1>9. QED
  BY <1>1, <1>2, <1>3, <1>4, <1>5, <1>6, <1>7, <1>8 DEF Submission, GoOn

(* What the caller is told (submitTxn): success exactly if one miner has   *)
(* answered that it took the transaction; an error only after all of the   *)
(* attempts; and no more miners hold what was given up than attempts       *)
(* failed, whatever is retried, lost, or handled late.                     *)
THEOREM OutcomeHolds == Spec => []Outcome
<1>1. Init => ToldInvariant
  <2> SUFFICES ASSUME Init PROVE ToldInvariant
    OBVIOUS
  <2>1. TypeOK
    BY ClientAssumption DEF Init, TypeOK, At
  <2>2. ASSUME NEW c \in Call
        PROVE  Told(c)
    <3>1. calls[c] = At("idle", 1, {}) /\ taken[c] = {} /\ lost[c] = {}
      BY DEF Init
    <3>2. IsFiniteSet({}) /\ Cardinality({}) = 0
      BY FS_EmptySet
    <3>3. Failed(c) = 0
      BY <3>1 DEF Failed, At
    <3>4. QED
      BY <3>1, <3>2, <3>3 DEF Told, Held, At
  <2>3. QED
    BY <2>1, <2>2 DEF ToldInvariant
<1>2. ToldInvariant /\ TypeOK' /\ [Next]_vars => ToldInvariant'
  <2> SUFFICES ASSUME ToldInvariant, TypeOK', [Next]_vars PROVE \A c \in Call : Told(c)'
    BY DEF ToldInvariant
  <2>1. CASE UNCHANGED <<calls, taken, lost>>
    BY <2>1 DEF ToldInvariant, Told, Held, Failed
  <2>2. CASE \E c \in Call : Submission(c)
    <3>1. PICK c \in Call : Submission(c)
      BY <2>2
    <3>2. Told(c)'
      BY <3>1, SubmissionTold DEF ToldInvariant
    <3>3. ASSUME NEW d \in Call, d # c PROVE Told(d)'
      BY <3>1, <3>3, OthersUntouched DEF ToldInvariant, Told, Held, Failed
    <3>4. QED
      BY <3>2, <3>3
  <2>3. CASE Environment \/ CoordConnManager \/ MinerListManager
    <3>1. UNCHANGED <<calls, taken, lost>>
      BY <2>3 DEF Environment, StopMiner, Hear, StopCoord, StartCoord, CoordConnManager,
           TakeCoordComplaint, ConnectCoord, DigestCoordComplaints, MinerListManager,
           TakeMinerComplaint, AskCoord, ComplainOfCoord, DigestMinerComplaints
    <3>2. QED
      BY <2>1, <3>1
  <2>4. CASE UNCHANGED vars
    BY <2>1, <2>4 DEF vars
  <2>5. QED
    BY <2>2, <2>3, <2>4 DEF Next
<1>3. ToldInvariant => Outcome
  <2> SUFFICES ASSUME ToldInvariant, NEW c \in Call
               PROVE  /\ Cardinality(taken[c] \ lost[c]) =
                           IF calls[c].pc = "reply" \/ calls[c].ok THEN 1 ELSE 0
                      /\ calls[c].pc = "done" /\ ~calls[c].ok => calls[c].try = SubmitRetry
                      /\ Cardinality(lost[c]) <= Failed(c)
                      /\ c \in Refused => taken[c] = {}
    BY DEF Outcome
  <2>1. Told(c)
    BY DEF ToldInvariant
  <2>2. CASE calls[c].pc = "reply" \/ calls[c].ok
    <3>1. PICK m \in Miner : Held(c) = {m}
      BY <2>1, <2>2 DEF Told
    <3>2. Cardinality(Held(c)) = 1
      BY <3>1, FS_Singleton
    <3>3. QED
      BY <2>1, <2>2, <3>2 DEF Told, Held
  <2>3. CASE ~(calls[c].pc = "reply" \/ calls[c].ok)
    <3>1. Held(c) = {}
      BY <2>1, <2>3 DEF Told
    <3>2. Cardinality(Held(c)) = 0
      BY <3>1, FS_EmptySet
    <3>3. QED
      BY <2>1, <2>3, <3>2 DEF Told, Held
  <2>4. QED
    BY <2>2, <2>3
<1>4. QED
  BY TypeCorrect, <1>1, <1>2, <1>3, PTL DEF Spec
=============================================================================
