----------------------- MODULE MCGoalMutationRecovery -----------------------
(* The mutation of one authority by an idempotent adapter, with only so    *)
(* many interruptions, a caller who calls again, and an operator who       *)
(* remediates an attempt that has a torn file, and no other.               *)
EXTENDS GoalRunMutation

CONSTANTS
  Target,       \* what the adapter makes of every owned path
  MaxTrouble    \* the interruptions, at most

VARIABLE trouble

(* It leaves alone what is done already, and declares what it did itself.  *)
AdapterContinues ==
  /\ AdapterWrites /\ work' # work
  /\ \A p \in Path : work'[p] # work[p] => work'[p] = Target
AdapterFinishes ==
  (\A p \in Path : work[p] = Target) /\ AdapterReturns(call.touched)

Otherwise ==
  \/ Lookup \/ TakeBaseline \/ Compare \/ RunCommands \/ ReplayCommands
  \/ CommitOwnedPaths \/ VerifyCommit \/ PublishEvidence \/ PublishClosure \/ Advance

PatientStep ==
  /\ Call \/ Otherwise \/ AdapterFinishes \/ AdapterContinues
  /\ UNCHANGED trouble
RemediateTorn == torn # {} /\ Remediate /\ UNCHANGED trouble
Interruption == Stop /\ trouble < MaxTrouble /\ trouble' = trouble + 1

allVars == <<vars, trouble>>

(* The owned paths are committed, and there is something to do in them.    *)
CleanSpec ==
  /\ Init /\ work = log[1].tree /\ (\E p \in Path : work[p] # Target)
  /\ trouble = 0
  /\ [][PatientStep \/ RemediateTorn \/ Interruption]_allVars
  /\ WF_allVars(PatientStep) /\ SF_allVars(RemediateTorn)

(* "Recovers an idempotent adapter after mutation persisted before the     *)
(* partition commit" (the executor's own test), and after an interruption  *)
(* anywhere else: calling again closes the authority, in the attempt that  *)
(* was interrupted unless its baseline, its evidence or its closure was    *)
(* left torn, and then, the attempt remediated, in a later one.            *)
AuthorityCloses == <>done
=============================================================================
