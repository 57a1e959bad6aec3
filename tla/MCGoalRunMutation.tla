------------------------- MODULE MCGoalRunMutation -------------------------
(* Small instances of the mutation of one authority.                       *)
EXTENDS GoalRunMutation, TLC

CONSTANTS
  MaxForeign,   \* the commits of others, the first one included, at most
  MaxAttempt    \* the attempts, at most

PathSymmetry == Permutations(Path)

(* The bounds hold back ForeignCommit and Remediate only. *)
Bound ==
  /\ Cardinality({k \in 1..Len(log) : log[k].by = 0}) <= MaxForeign
  /\ id <= MaxAttempt

BoundedQuietSpec == Init /\ [][QuietNext /\ Bound']_vars
=============================================================================
