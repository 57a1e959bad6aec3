----------------------------- MODULE MCGoalRun -----------------------------
(* Small instances of the goal run for TLC.                                *)
EXTENDS GoalRun, TLC

CONSTANTS
  MaxRun,       \* the versions of the active run, at most
  MaxAttempt    \* the attempt ids that are drawn, at most

Symmetry ==
  Permutations(Runner) \cup Permutations(Content)
    \cup Permutations(Activator) \cup Permutations(Candidate)

(* Authority 1 is a dependency of the others, which are independent.       *)
Fan(n) == [a \in 1..n |-> IF a = 1 THEN {} ELSE {1}]
Fan1 == Fan(1)
Fan2 == Fan(2)

(* The calls that may still draw an attempt id: preparing draws one, or    *)
(* remediating a started attempt does, never both.                         *)
Drawing(r) ==
  \/ pc[r] \in {"admitted", "prepare"}
  \/ pc[r] \in {"inspect", "remediate"} /\ copy[r].started

(* Only Admit and PublishClaim are held back by the bounds.                *)
Bound ==
  /\ ids + Cardinality({r \in Runner : Drawing(r)}) <= MaxAttempt
  /\ Len(claims) <= MaxRun

BoundedNext == Next /\ Bound'
BoundedSpec == Init /\ [][BoundedNext]_vars
=============================================================================
