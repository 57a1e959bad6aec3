--------------------------- MODULE MCGoalRecovery ---------------------------
(* A small instance of the goal run with an operator who wants it closed,  *)
(* and only so much trouble, the calls of others included.                 *)
EXTENDS GoalRun

CONSTANTS
  Operator,     \* the caller who goes on until the campaign is closed
  MaxTrouble    \* edits, failures, crashes, losses and calls of others, at most

Fan2 == [a \in 1..2 |-> IF a = 1 THEN {} ELSE {1}]

VARIABLE trouble

(* The operator calls again while the attempt is not closed, naming the    *)
(* first authority to remediate from when the last call left it blocked,   *)
(* and activates the candidate again when the pointer is not there.        *)
PatientCall(r) == ~(attempt.phase = "closed") /\ Admit(r)
PatientStep(r) ==
  /\ Step(r)
  /\ pc[r] = "inspect" =>
       roots'[r] = Drifted(copy[r]) \cup (IF copy[r].phase = "blocked" /\ copy[r].started
                                            THEN {1} ELSE {})
Reactivate(x) == ~CurrentRun /\ Observe(x)

PatientRun ==
  /\ PatientCall(Operator) \/ PatientStep(Operator)
  /\ UNCHANGED <<activationVars, trouble>>
OthersStep(r) == Step(r) /\ UNCHANGED <<activationVars, trouble>>
PatientActivation ==
  /\ \E x \in Activator : Reactivate(x) \/ ActivationStep(x, attempt)
  /\ UNCHANGED <<runVars, trouble>>
Trouble ==
  /\ trouble < MaxTrouble /\ trouble' = trouble + 1
  /\ \/ /\ \/ Edit
           \/ \E r \in Runner : Fail(r) \/ Crash(r)
           \/ \E r \in Runner \ {Operator} : Admit(r)
        /\ UNCHANGED activationVars
     \/ (LosePointer \/ \E x \in Activator : ActivatorCrash(x)) /\ UNCHANGED runVars

PatientNext ==
  \/ PatientRun \/ PatientActivation \/ Trouble
  \/ \E r \in Runner \ {Operator} : OthersStep(r)

allVars == <<vars, trouble>>
PatientSpec ==
  /\ Init /\ trouble = 0
  /\ [][PatientNext]_allVars
  /\ WF_allVars(PatientRun) /\ WF_allVars(PatientActivation)
  /\ \A r \in Runner \ {Operator} : WF_allVars(OthersStep(r))

(* When the trouble is over the campaign closes: no crash, torn artifact,  *)
(* failure, edit or lost pointer leaves files that calling and activating  *)
(* again cannot bring to an end.  A mutation is one step here that gets    *)
(* done when nothing interferes; GoalRunMutation looks inside.             *)
CampaignCloses == <>(attempt.phase = "closed" /\ attempt.id \in campaigns)
=============================================================================
