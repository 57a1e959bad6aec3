--------------------------- MODULE MCControlStore ---------------------------
(* Small instances of the control store for TLC.                           *)
EXTENDS ControlStore, Naturals, TLC

CONSTANT MaxTrouble   \* crashes and failing file operations, at most

VARIABLE trouble
allVars == <<vars, trouble>>

ProcSymmetry == Permutations(Proc)

Work == (\E p \in Proc : Call(p) \/ Step(p)) /\ UNCHANGED trouble
Trouble ==
  /\ trouble < MaxTrouble /\ trouble' = trouble + 1
  /\ \E p \in Proc : Fail(p) \/ Crash(p)
MCNext == (Work \/ Trouble) /\ Serial'

MCInit == Init /\ trouble = 0
MCSerialSpec == MCInit /\ [][MCNext]_allVars
MCApartSpec == MCInit /\ [][MCNext /\ NoTwins']_allVars

(* A call is a sequence of synchronous steps, and runs to its end unless   *)
(* its process dies.  Somebody calls again for every record.               *)
Apart(A) == A /\ UNCHANGED trouble /\ Serial' /\ NoTwins'
CalledSpec ==
  /\ MCApartSpec
  /\ \A p \in Proc : WF_allVars(Apart(Step(p)))
  /\ \A r \in Record :
       SF_allVars(Apart(\E p \in Proc, e \in Event \cup {Nobody} : Ask(p, r, e)))

(* What a dead owner left is cleared by the calls that follow, unless it   *)
(* died in one of the three states that stop every call from then on.      *)
StaleEnds == \A r \in Record : Stale(r) ~> ~Stale(r) \/ Stuck(r)
=============================================================================
