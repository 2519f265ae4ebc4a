------------------------------- MODULE Client -------------------------------
(***************************************************************************)
(* The client library: submissions of several HTTP handlers, which try     *)
(* miners of one shared list, and the two managers that keep the list and  *)
(* the connection to the coord in order.  The managers hear of trouble     *)
(* through buffered channels of complaints.                                *)
(*                                                                         *)
(* A miner has a new address each time it starts.  The coord lists the     *)
(* addresses that gossip has told it of, so it may list one that is gone.  *)
(* An address not listed yet is nobody's, or that of a miner just started: *)
(* nobody dials it.                                                        *)
(*                                                                         *)
(* A submission is at one of the places                                    *)
(*   pick      connectMiner, before the first look at the list             *)
(*   again     the same, later, when its time may be up                    *)
(*   complain  the list was empty                                          *)
(*   dial      a miner has been picked from a copy of the list             *)
(*   call      the connection is made                                      *)
(*   reply     the miner has handled the call                              *)
(*   done                                                                  *)
(* and try counts its attempts.                                            *)
(***************************************************************************)
EXTENDS Integers, FiniteSets

CONSTANTS Call,             \* submissions, of one transaction each
          Refused,          \* those whose signature a miner does not accept
          Miner,            \* addresses of miners
          SubmitRetry,      \* attempts of a submission (3)
          ComplaintCap,     \* capacity of both channels of complaints (1000)
          MaxFaults         \* bound: stops of miners and the coord, and dials and
                            \* calls that fail although the miner runs

ASSUME ClientAssumption ==
  /\ Refused \subseteq Call
  /\ SubmitRetry \in Nat \ {0} /\ ComplaintCap \in Nat \ {0}
  /\ MaxFaults \in Nat

VARIABLES
  up,                 \* the miners that have not stopped
  coordUp, listed,    \* the coord, and the addresses it hands out
  coordClient,        \* is the client's connection to the coord intact?
  MinerAddrList,
  ComplainCoord, ComplainMiner,   \* numbers of complaints in the channels
  connManager,        \* CoordConnManager: "idle", or "dial" with connRw locked, or "digest"
  listManager,        \* MinerListManager: "idle", "ask", "complain" or "digest"
  calls,              \* submission -> where it is
  taken, lost,        \* submission -> the miners that took its transaction, and
                      \* those of them whose answer did not arrive
  faults

coord    == <<coordUp, listed, coordClient>>
managers == <<ComplainCoord, connManager, listManager>>
vars     == <<up, coord, MinerAddrList, ComplainMiner, managers, calls,
              taken, lost, faults>>

At(pc, try, miner) == [pc |-> pc, try |-> try, miner |-> miner, ok |-> FALSE]

InCall == {"call", "reply"}

-----------------------------------------------------------------------------
(* NewEV and Start: the coord has answered a dial; the first list may have *)
(* failed to come.                                                         *)
Init ==
  /\ up = Miner
  /\ coordUp = TRUE /\ coordClient = TRUE
  /\ listed \in SUBSET Miner
  /\ MinerAddrList \in {listed, {}}
  /\ ComplainCoord = 0 /\ ComplainMiner = 0
  /\ connManager = "idle" /\ listManager = "idle"
  /\ calls = [c \in Call |-> At("idle", 1, {})]
  /\ taken = [c \in Call |-> {}] /\ lost = [c \in Call |-> {}]
  /\ faults = 0

-----------------------------------------------------------------------------
(* The environment: miners stop for good, and are heard or given up by the *)
(* coord, which may restart; it keeps its list on disk.                    *)
StopMiner(m) ==
  /\ m \in up /\ faults < MaxFaults
  /\ up' = up \ {m}
  /\ faults' = faults + 1
  /\ UNCHANGED <<coord, MinerAddrList, ComplainMiner, managers, calls, taken, lost>>

(* GetEntryPoints answers with the active miners of the coord's peer list. *)
Hear(m) ==
  /\ coordUp /\ listed' = IF m \in up THEN listed \cup {m} ELSE listed \ {m}
  /\ listed' # listed
  /\ UNCHANGED <<up, coordUp, coordClient, MinerAddrList, ComplainMiner, managers,
                 calls, taken, lost, faults>>

StopCoord ==
  /\ coordUp /\ faults < MaxFaults
  /\ coordUp' = FALSE /\ coordClient' = FALSE
  /\ faults' = faults + 1
  /\ UNCHANGED <<up, listed, MinerAddrList, ComplainMiner, managers, calls, taken, lost>>

StartCoord ==
  /\ ~coordUp
  /\ coordUp' = TRUE
  /\ UNCHANGED <<up, listed, coordClient, MinerAddrList, ComplainMiner, managers,
                 calls, taken, lost, faults>>

-----------------------------------------------------------------------------
Goto(c, pc) == calls' = [calls EXCEPT ![c].pc = pc]

Submit(c) ==
  /\ calls[c].pc = "idle"
  /\ Goto(c, "pick")
  /\ UNCHANGED <<up, coord, MinerAddrList, ComplainMiner, managers, taken, lost, faults>>

(* connectMiner: a miner of a copy of the list, if there is one.           *)
Pick(c) ==
  /\ calls[c].pc \in {"pick", "again"}
  /\ \/ /\ MinerAddrList = {}
        /\ Goto(c, "complain")
     \/ \E m \in MinerAddrList :
          calls' = [calls EXCEPT ![c].pc = "dial", ![c].miner = {m}]
  /\ UNCHANGED <<up, coord, MinerAddrList, ComplainMiner, managers, taken, lost, faults>>

(* A failure of something that runs, while the bound allows one.           *)
Fault(running) == IF running THEN faults < MaxFaults /\ faults' = faults + 1
                             ELSE UNCHANGED faults

(* A miner that cannot be dialled, for whatever reason, is removed from    *)
(* the list of the moment, which may have come since.                      *)
Dial(c) ==
  /\ calls[c].pc = "dial"
  /\ LET running == calls[c].miner \subseteq up
     IN  \/ /\ running
            /\ Goto(c, "call")
            /\ UNCHANGED <<MinerAddrList, faults>>
         \/ /\ Fault(running)
            /\ MinerAddrList' = MinerAddrList \ calls[c].miner
            /\ Goto(c, "again")
  /\ UNCHANGED <<up, coord, ComplainMiner, managers, taken, lost>>

\* A faulty variant, for the mutation runs: the complaint does not wait for room.
ComplainAlways(c) ==
  /\ calls[c].pc = "complain"
  /\ ComplainMiner' = ComplainMiner + 1
  /\ Goto(c, "again")
  /\ UNCHANGED <<up, coord, MinerAddrList, managers, taken, lost, faults>>

Complain(c) ==
  /\ calls[c].pc = "complain"
  /\ ComplainMiner < ComplaintCap
  /\ ComplainMiner' = ComplainMiner + 1
  /\ Goto(c, "again")
  /\ UNCHANGED <<up, coord, MinerAddrList, managers, taken, lost, faults>>

(* An attempt has failed: the next one, or the error for the caller.       *)
AttemptFails(c) ==
  calls' = [calls EXCEPT ![c] =
    IF @.try < SubmitRetry THEN At("pick", @.try + 1, {}) ELSE At("done", @.try, {})]

(* ConnectionTimeOut is looked at between two miners.                      *)
Timeout(c) ==
  /\ calls[c].pc = "again"
  /\ AttemptFails(c)
  /\ UNCHANGED <<up, coord, MinerAddrList, ComplainMiner, managers, taken, lost, faults>>

(* EntryPointAPI.SubmitTxn at the miner, which answers a transaction that  *)
(* it has taken before with success too.  A refusal reaches the client as  *)
(* an error like any other, so it is retried.  A miner need not get as far *)
(* as this, or to the answer: ReceiveTxn may wait for ever (Miner).        *)
Handle(c) ==
  /\ calls[c].pc = "call" /\ calls[c].miner \subseteq up
  /\ IF c \in Refused
     THEN AttemptFails(c) /\ UNCHANGED <<taken, lost>>
     ELSE /\ Goto(c, "reply")
          /\ taken' = [taken EXCEPT ![c] = @ \cup calls[c].miner]
          /\ lost' = [lost EXCEPT ![c] = @ \ calls[c].miner]
  /\ UNCHANGED <<up, coord, MinerAddrList, ComplainMiner, managers, faults>>

\* A faulty variant: the loop goes on after an answer.
AnswerIgnored(c) ==
  /\ calls[c].pc = "reply"
  /\ AttemptFails(c)
  /\ UNCHANGED <<up, coord, MinerAddrList, ComplainMiner, managers, taken, lost, faults>>

Answer(c) ==
  /\ calls[c].pc = "reply"
  /\ calls' = [calls EXCEPT ![c] = [At("done", SubmitRetry, {}) EXCEPT !.ok = TRUE]]
  /\ UNCHANGED <<up, coord, MinerAddrList, ComplainMiner, managers, taken, lost, faults>>

(* The call fails, because the miner has stopped, or the connection breaks *)
(* on the way there or back; the miner may then handle it nevertheless.    *)
FailCall(c) ==
  LET miner   == calls[c].miner
      running == miner \subseteq up
      late    == IF running /\ c \notin Refused THEN miner ELSE {}
  IN  /\ calls[c].pc \in InCall
      /\ Fault(running)
      /\ \E S \in {{}, late} : taken' = [taken EXCEPT ![c] = @ \cup S]
      /\ lost' = [lost EXCEPT ![c] = @ \cup (miner \cap taken'[c])]
      /\ AttemptFails(c)
      /\ UNCHANGED <<up, coord, MinerAddrList, ComplainMiner, managers>>

-----------------------------------------------------------------------------
(* CoordConnManager: takes a complaint, reconnects with connRw locked, and *)
(* drops the other complaints.                                             *)
TakeCoordComplaint ==
  /\ connManager = "idle" /\ ComplainCoord > 0
  /\ ComplainCoord' = ComplainCoord - 1
  /\ connManager' = "dial"
  /\ UNCHANGED <<up, coord, MinerAddrList, ComplainMiner, listManager, calls, taken,
                 lost, faults>>

ConnectCoord ==
  /\ connManager = "dial" /\ coordUp
  /\ coordClient' = TRUE
  /\ connManager' = "digest"
  /\ UNCHANGED <<up, coordUp, listed, MinerAddrList, ComplainMiner, ComplainCoord,
                 listManager, calls, taken, lost, faults>>

DigestCoordComplaints ==
  /\ connManager = "digest"
  /\ ComplainCoord' = 0
  /\ connManager' = "idle"
  /\ UNCHANGED <<up, coord, MinerAddrList, ComplainMiner, listManager, calls, taken,
                 lost, faults>>

(* MinerListManager: takes a complaint, asks the coord until it answers,   *)
(* complaining of each failure, and drops the other complaints.            *)
TakeMinerComplaint ==
  /\ listManager = "idle" /\ ComplainMiner > 0
  /\ ComplainMiner' = ComplainMiner - 1
  /\ listManager' = "ask"
  /\ UNCHANGED <<up, coord, MinerAddrList, ComplainCoord, connManager, calls, taken,
                 lost, faults>>

\* A faulty variant: the coord is asked again without a complaint.
AskCoordOnly ==
  /\ listManager = "ask"
  /\ connManager # "dial"
  /\ IF coordClient
     THEN MinerAddrList' = listed /\ listManager' = "digest"
     ELSE UNCHANGED <<MinerAddrList, listManager>>
  /\ UNCHANGED <<up, coord, ComplainMiner, ComplainCoord, connManager, calls, taken,
                 lost, faults>>

AskCoord ==
  /\ listManager = "ask"
  /\ connManager # "dial"
  /\ IF coordClient
     THEN MinerAddrList' = listed /\ listManager' = "digest"
     ELSE listManager' = "complain" /\ UNCHANGED MinerAddrList
  /\ UNCHANGED <<up, coord, ComplainMiner, ComplainCoord, connManager, calls, taken,
                 lost, faults>>

ComplainOfCoord ==
  /\ listManager = "complain"
  /\ ComplainCoord < ComplaintCap
  /\ ComplainCoord' = ComplainCoord + 1
  /\ listManager' = "ask"
  /\ UNCHANGED <<up, coord, MinerAddrList, ComplainMiner, connManager, calls, taken,
                 lost, faults>>

DigestMinerComplaints ==
  /\ listManager = "digest"
  /\ ComplainMiner' = 0
  /\ listManager' = "idle"
  /\ UNCHANGED <<up, coord, MinerAddrList, ComplainCoord, connManager, calls, taken,
                 lost, faults>>

-----------------------------------------------------------------------------
Environment == \/ \E m \in Miner : StopMiner(m) \/ Hear(m)
               \/ StopCoord \/ StartCoord

GoOn(c) == Pick(c) \/ Dial(c) \/ Complain(c)

Submission(c) == \/ Submit(c) \/ GoOn(c) \/ Handle(c) \/ Answer(c)
                 \/ Timeout(c) \/ FailCall(c)

CoordConnManager == TakeCoordComplaint \/ ConnectCoord \/ DigestCoordComplaints

MinerListManager == TakeMinerComplaint \/ AskCoord \/ ComplainOfCoord
                    \/ DigestMinerComplaints

Next == Environment \/ CoordConnManager \/ MinerListManager
        \/ \E c \in Call : Submission(c)

Spec == Init /\ [][Next]_vars

(* The managers and the submissions that have begun go on while they can,  *)
(* and a call to a miner that has stopped fails.  A call has no time limit *)
(* and nothing makes a miner that runs answer; nor does anything make a    *)
(* time-out come, or the environment act.                                  *)
Fairness ==
  /\ WF_vars(CoordConnManager) /\ WF_vars(MinerListManager)
  /\ \A c \in Call : WF_vars(GoOn(c) \/ (calls[c].miner \cap up = {} /\ FailCall(c)))

FairSpec == Spec /\ Fairness

-----------------------------------------------------------------------------
(* Every variable has its type, and the channels keep within capacity.     *)
TypeOK ==
  /\ up \subseteq Miner
  /\ coordUp \in BOOLEAN /\ coordClient \in BOOLEAN
  /\ listed \subseteq Miner /\ MinerAddrList \subseteq Miner
  /\ ComplainCoord \in 0..ComplaintCap /\ ComplainMiner \in 0..ComplaintCap
  /\ connManager \in {"idle", "dial", "digest"}
  /\ listManager \in {"idle", "ask", "complain", "digest"}
  /\ calls \in [Call -> [pc : {"idle", "pick", "again", "complain", "dial", "call",
                               "reply", "done"},
                         try : 1..SubmitRetry, miner : SUBSET Miner, ok : BOOLEAN]]
  /\ taken \in [Call -> SUBSET Miner] /\ lost \in [Call -> SUBSET Miner]
  /\ faults \in 0..MaxFaults

(* What the caller is told.  Success: exactly one miner has answered that  *)
(* it took the transaction.  An error: every one of SubmitRetry attempts   *)
(* has failed, a refused one too, and a miner may have the transaction all *)
(* the same, for each attempt whose answer was lost; a refused one is in   *)
(* no miner's hands.  There is no second miner without a failed attempt    *)
(* (the N_RECEIVERS miners of the comment on EV are one, and nothing is    *)
(* submitted again after a success).                                       *)
Failed(c) == IF calls[c].pc = "done" /\ ~calls[c].ok THEN calls[c].try
                                                     ELSE calls[c].try - 1

Outcome == \A c \in Call :
  /\ Cardinality(taken[c] \ lost[c]) =
       IF calls[c].pc = "reply" \/ calls[c].ok THEN 1 ELSE 0
  /\ calls[c].pc = "done" /\ ~calls[c].ok => calls[c].try = SubmitRetry
  /\ Cardinality(lost[c]) <= Failed(c)
  /\ c \in Refused => taken[c] = {}

(* Once the coord is up and lists miners that run and no others, every     *)
(* submission comes to its end, also with no time-out, or to a call that a *)
(* running miner leaves without an answer: the list that had become empty  *)
(* or out of date is renewed, over a new connection if that is needed,     *)
(* although complaints are dropped and wait for room in their channel.     *)
Stable == coordUp /\ listed # {} /\ listed \subseteq up

SubmitEnds == <>[]Stable => \A c \in Call :
  \/ <>[](calls[c].pc \in {"idle", "done"})
  \/ <>[](calls[c].pc \in InCall /\ calls[c].miner \subseteq up)
=============================================================================
