--------------------------- MODULE AuthorityRound ---------------------------
(***************************************************************************)
(* What the execution of one authority keeps to, seen from outside.  It    *)
(* goes in rounds, one per attempt that it is open in.  In a round the     *)
(* owned paths are observed once and the observation is published as       *)
(* evidence; a later call of the round goes on from that evidence, if the  *)
(* owned paths still are as it says, and never observes again.  A closure  *)
(* is published by a call that has the evidence's content in mind, and the *)
(* pointer names it last.  A call may end at any moment, and the owned     *)
(* paths may change at any moment.                                         *)
(*                                                                         *)
(* GoalRun, which takes the mutation as one step, and GoalRunMutation,     *)
(* which looks inside, both implement it.                                  *)
(***************************************************************************)
EXTENDS Naturals

CONSTANT Content   \* what the owned paths of the authority may contain

VARIABLES
  content,    \* what they contain
  round,      \* the attempt
  evidence,   \* what its published evidence saw, if there is any
  closed,     \* whether its closure is published
  done,       \* whether the attempt pointer names the closure
  step,       \* where the call in progress is, "none" when there is none
  saw         \* what it has observed, or found observed

published == <<evidence, closed, done>>
inCall    == <<step, saw>>
authority == <<content, round, published, inCall>>

Init ==
  /\ content \in Content /\ round \in Nat
  /\ evidence = {} /\ closed = FALSE /\ done = FALSE
  /\ step = "none" /\ saw = {}

Begin ==
  /\ step = "none" /\ ~done
  /\ step' = "working"
  /\ UNCHANGED <<content, round, published, saw>>

(* The adapter leaves something behind, which is then observed.            *)
Observe ==
  /\ step = "working" /\ evidence = {}
  /\ content' \in Content
  /\ step' = "observed" /\ saw' = {content'}
  /\ UNCHANGED <<round, published>>

Recover ==
  /\ step = "working" /\ content \in evidence
  /\ step' = "closing" /\ saw' = {content}
  /\ UNCHANGED <<content, round, published>>

PublishEvidence ==
  /\ step = "observed" /\ evidence = {}
  /\ evidence' = saw /\ step' = "closing"
  /\ UNCHANGED <<content, round, closed, done, saw>>

PublishClosure ==
  /\ step = "closing" /\ evidence = saw
  /\ closed' = TRUE
  /\ step' = "closed" /\ saw' = {}
  /\ UNCHANGED <<content, round, evidence, done>>

Name ==
  /\ step = "closed" /\ closed
  /\ done' = TRUE /\ step' = "none"
  /\ UNCHANGED <<content, round, evidence, closed, saw>>

End ==
  /\ step # "none"
  /\ step' = "none" /\ saw' = {}
  /\ UNCHANGED <<content, round, published>>

(* The authority is open in a new attempt, or is opened again.             *)
Renew ==
  /\ step = "none"
  /\ round' \in Nat /\ round' > round
  /\ evidence' = {} /\ closed' = FALSE /\ done' = FALSE
  /\ UNCHANGED <<content, inCall>>

Edit ==
  /\ content' \in Content
  /\ UNCHANGED <<round, published, inCall>>

Next ==
  \/ Begin \/ Observe \/ Recover \/ PublishEvidence \/ PublishClosure \/ Name
  \/ End \/ Renew \/ Edit

Spec == Init /\ [][Next]_authority
=============================================================================
