------------------------ MODULE MCSemanticCheckpoint ------------------------
(* Small instances of the checkpoint store for TLC.                        *)
EXTENDS SemanticCheckpoint

CONSTANTS
  MaxTrouble,   \* errors, crashes and calls for other jobs or beside another call, at most
  MaxBusy,      \* calls at once, at most
  MainInput, MainVersion

VARIABLE trouble
allVars == <<vars, trouble>>

(* The job that is called for again and again, and those called for        *)
(* besides: they differ from it in the input or in one unit, if at all.    *)
Main == [input |-> MainInput, units |-> [i \in 1..Units |-> MainVersion]]
Others ==
  LET differing(j) == {i \in 1..Units : j.units[i] # MainVersion}
  IN {j \in Job : Cardinality(differing(j)) <= IF j.input = MainInput THEN 1 ELSE 0}

(* Processes that nothing mentions are all alike: one of them is enough.   *)
Callers ==
  LET free == {p \in Proc : Available(p)}
      known == {p \in free : Mentions(p, lock) \/ Mentions(p, recovery)}
  IN known \cup (IF free = known THEN {} ELSE {CHOOSE p \in free \ known : TRUE})

Busy == {p \in Proc : at[p] \notin {"out", "dead"}}
Alone(p) == \A q \in Proc \ {p} : q \notin Busy

Work(p) == Step(p) /\ UNCHANGED trouble
CallAgain(p) == Alone(p) /\ Run(p, Main) /\ UNCHANGED trouble
Trouble ==
  /\ trouble < MaxTrouble /\ trouble' = trouble + 1
  /\ \/ \E p \in Proc : Fail(p) \/ Crash(p)
     \/ Cardinality(Busy) < MaxBusy /\ \E p \in Callers, j \in Others : Run(p, j)

MCInit == Init /\ trouble = 0
MCNext ==
  /\ \/ (\E p \in Proc : Work(p)) \/ (\E p \in Callers : CallAgain(p))
     \/ Trouble
     \/ TimePasses /\ UNCHANGED trouble
  /\ OneSweeper'
MCSpec == MCInit /\ [][MCNext]_allVars

(* A process finishes its steps unless it dies, dead ones are replaced,    *)
(* time passes, and somebody calls again when nobody does.                 *)
FairSpec ==
  /\ MCSpec
  /\ \A p \in Proc : WF_allVars(Work(p) /\ OneSweeper')
  /\ SF_allVars(TimePasses /\ UNCHANGED trouble)
  /\ WF_allVars(\E p \in Callers : CallAgain(p))

(* Whatever fails or dies, in a recovery too, and whatever other jobs have *)
(* left, calling again alone brings the main job to its end.               *)
Completes == <>[](Passed(state) /\ Len(Reusable(state, Main)) = Units)
=============================================================================
