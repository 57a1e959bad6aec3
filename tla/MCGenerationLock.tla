-------------------------- MODULE MCGenerationLock --------------------------
(* Small instances of the generation lock for TLC.                         *)
EXTENDS GenerationLock, TLC

CONSTANT MaxLost   \* the crashes and failed calls of a behaviour, at most

ProcSymmetry == Permutations(Proc)

Lost ==
  Cardinality(Proc \ alive)
    + Cardinality({t \in Token : pc[t] \in Clearing \cup {"failed"}})

(* The bound stops only Crash, Fail and the refusals of Begin and Enter:   *)
(* never a step that fairness speaks of in a behaviour without legacy      *)
(* artifacts.                                                              *)
BoundedNext == Next /\ Lost' <= MaxLost
BoundedSpec == Init /\ [][BoundedNext]_vars

(* Without anything of the legacy protocol: the lock's own races only.     *)
NoLegacyInit == Init /\ guard = "absent" /\ legacy = "none"
NoLegacySpec == NoLegacyInit /\ [][BoundedNext]_vars
NoLegacyFairSpec == NoLegacySpec /\ Fairness
=============================================================================
