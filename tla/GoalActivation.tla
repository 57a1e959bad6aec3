--------------------------- MODULE GoalActivation ---------------------------
(***************************************************************************)
(* The active-run pointer: how frozen-goal-activation.ts of the goal       *)
(* control plane (packages/bmad-speckit/src/utils/goal-contract/           *)
(* control-plane/) makes a candidate run the active one.                   *)
(*                                                                         *)
(* A write-once claim file per pointer version decides which candidate has *)
(* the version; the pointer file is then renamed into place.  Both happen  *)
(* under the execution-control lock, which preparing and remediating an    *)
(* execution attempt take too.  That lock is a GenerationLock, used here   *)
(* as AttemptMutex describes it.                                           *)
(***************************************************************************)
EXTENDS GoalAttempt, Sequences

CONSTANTS
  Activator,   \* processes that activate candidate runs
  Candidate,   \* candidate runs, each with its activation record
  Nobody       \* the holder of a free lock, the choice not made yet

ASSUME ActivatorAssumption == Nobody \notin Activator

VARIABLES
  claims,      \* active-run-claims/: the candidate that claimed each version
  active,      \* active-run.json: its pointerVersion, 0 when it is absent
  control,     \* the activator that holds execution-control.lock
  apc,         \* where each activator is
  chosen,      \* the candidate it activates
  expected     \* the pointer version it expects to replace

activationVars == <<claims, active, control, apc, chosen, expected>>

ActivationTypeOK ==
  /\ claims \in Seq(Candidate)
  /\ active \in Nat
  /\ control \in Activator \cup {Nobody}
  /\ apc \in [Activator -> {"idle", "observed", "deciding", "promoting", "leaving"}]
  /\ chosen \in [Activator -> Candidate \cup {Nobody}]
  /\ expected \in [Activator -> Nat]

ActivationInit ==
  /\ claims = <<>>
  /\ active = 0
  /\ control = Nobody
  /\ apc = [x \in Activator |-> "idle"]
  /\ chosen = [x \in Activator |-> Nobody]
  /\ expected = [x \in Activator |-> 0]

AGoto(x, l) == apc' = [apc EXCEPT ![x] = l]

(* requireCurrentActiveRunClaim: the pointer is that of the highest claim. *)
CurrentRun == active # 0 /\ active = Len(claims)

(* activateFrozenGoalAuthority reads the pointer it is to replace before   *)
(* it has the lock.                                                        *)
Observe(x) ==
  /\ apc[x] = "idle"
  /\ \E c \in Candidate : chosen' = [chosen EXCEPT ![x] = c]
  /\ expected' = [expected EXCEPT ![x] = active]
  /\ AGoto(x, "observed")
  /\ UNCHANGED <<claims, active, control>>

TakeControl(x) ==
  /\ apc[x] = "observed"
  /\ control = Nobody
  /\ control' = x
  /\ AGoto(x, "deciding")
  /\ UNCHANGED <<claims, active, chosen, expected>>

(* commitActiveRunPointerUnderControl, given the attempt pointer p.        *)
AlreadyActive(x) == active # 0 /\ claims[active] = chosen[x]

(* Mistake: a lost pointer is not restored while an attempt is under way. *)
MayRestoreIdle(x, p) ==
  /\ active = 0 /\ claims # <<>>
  /\ ~Unfinished(p)
  /\ claims[Len(claims)] = chosen[x]

(* The pointer file is missing although its version was claimed: only the  *)
(* claimant's activation restores it, and only under the attempt's own run.*)
MayRestore(x, p) ==
  /\ active = 0 /\ claims # <<>>
  /\ Unfinished(p) => p.run = Len(claims)
  /\ claims[Len(claims)] = chosen[x]

(* Mistake: the attempt under way is not looked at. *)
MayClaimUnderWay(x, p) ==
  /\ active = 0 => claims = <<>>
  /\ ~AlreadyActive(x)
  /\ active = expected[x]
  /\ active < Len(claims) => claims[active + 1] = chosen[x]

(* Nobody else's claim on the next version, no attempt under way, and the  *)
(* pointer still as it was observed.                                       *)
MayClaim(x, p) ==
  /\ active = 0 => claims = <<>>
  /\ ~AlreadyActive(x)
  /\ ~Unfinished(p)
  /\ active = expected[x]
  /\ active < Len(claims) => claims[active + 1] = chosen[x]

RestoreClaimed(x, p) ==
  /\ apc[x] = "deciding" /\ MayRestore(x, p)
  /\ active' = Len(claims)
  /\ AGoto(x, "leaving")
  /\ UNCHANGED <<claims, control, chosen, expected>>

(* Mistake: the pointer is renamed into place before the claim is there. *)
PromoteFirst(x, p) ==
  /\ apc[x] = "deciding" /\ MayClaim(x, p)
  /\ active' = active + 1
  /\ AGoto(x, "promoting")
  /\ UNCHANGED <<claims, control, chosen, expected>>

PublishClaim(x, p) ==
  /\ apc[x] = "deciding" /\ MayClaim(x, p)
  /\ claims' = IF active = Len(claims) THEN Append(claims, chosen[x]) ELSE claims
  /\ AGoto(x, "promoting")
  /\ UNCHANGED <<active, control, chosen, expected>>

(* The activation is answered "reused", or refused with a conflict. *)
ReuseOrRefuse(x, p) ==
  /\ apc[x] = "deciding" /\ ~MayRestore(x, p) /\ ~MayClaim(x, p)
  /\ AGoto(x, "leaving")
  /\ UNCHANGED <<claims, active, control, chosen, expected>>

Promote(x) ==
  /\ apc[x] = "promoting"
  /\ active' = IF active = expected[x] THEN expected[x] + 1 ELSE active
  /\ AGoto(x, "leaving")
  /\ UNCHANGED <<claims, control, chosen, expected>>

Leave(x) ==
  /\ apc' = [apc EXCEPT ![x] = "idle"]
  /\ control' = IF control = x THEN Nobody ELSE control
  /\ chosen' = [chosen EXCEPT ![x] = Nobody]
  /\ expected' = [expected EXCEPT ![x] = 0]
  /\ UNCHANGED <<claims, active>>

ReturnFromActivation(x) == apc[x] = "leaving" /\ Leave(x)

(* It waited too long for the lock. *)
ControlTimesOut(x) == apc[x] = "observed" /\ control # Nobody /\ Leave(x)

(* The process dies, or an operation on a file fails, anywhere: the lock   *)
(* becomes free.                                                           *)
ActivatorCrash(x) == apc[x] # "idle" /\ Leave(x)

(* active-run.json is deleted: the claims are what it is restored from.    *)
LosePointer ==
  /\ active # 0
  /\ active' = 0
  /\ UNCHANGED <<claims, control, apc, chosen, expected>>

ActivationStep(x, p) ==
  \/ TakeControl(x)
  \/ RestoreClaimed(x, p)
  \/ PublishClaim(x, p)
  \/ ReuseOrRefuse(x, p)
  \/ Promote(x)
  \/ ReturnFromActivation(x)
  \/ ControlTimesOut(x)

=============================================================================
