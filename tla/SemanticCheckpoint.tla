------------------------- MODULE SemanticCheckpoint -------------------------
(* The state file of one semantic checkpoint                               *)
(* (requirements-contract-semantic-checkpoint-store.ts): the units of a    *)
(* build that are compiled, with the version each was compiled from.  A    *)
(* run reads it without a lock, keeps the units that still match its own,  *)
(* compiles the rest one by one, and saves after each under the file lock  *)
(* if the file is still as the run left it.                                *)
(*                                                                         *)
(* Units come in the order of their names, as all callers give them; the   *)
(* hash of a unit's input and its compiler make its version, the hashes of *)
(* the semantic input, the plan and the validator make the input of a job. *)
(* The state file is replaced by a rename, its hash stands for what it     *)
(* holds, and it is passed when it holds a result of every unit.           *)
EXTENDS RequirementsFileLock, Sequences, SequencesExt

CONSTANTS
  Input,     \* semantic inputs, plans and validators of a job
  Version,   \* inputs and compilers of a unit
  Output,    \* what the execution of a unit may produce
  Units,     \* the number of units of a job
  NoState    \* no state file

Job == [input : Input, units : [1..Units -> Version]]
Result == Version \X Output
State == [input : Input, done : UNION {[1..n -> Result] : n \in 0..Units}]

ASSUME CheckpointAssumption == Units \in Nat /\ Job # {} /\ NoState \notin State

VARIABLES
  state,    \* the checkpoint's state file
  run       \* the run of a process: its job, the state it read or saved last
            \* and expects to find, the state it is about to save

vars == <<lockVars, state, run>>

Unread(j) == [job |-> j, expected |-> NoState, next |-> NoState]
Idle == Unread(CHOOSE j \in Job : TRUE)

Init ==
  /\ LockInit
  /\ state = NoState
  /\ run = [p \in Proc |-> Idle]

(* The results of a state that a job can reuse: up to the first unit of    *)
(* another version, and none for another input.                            *)
Matching(s, j) ==
  {n \in 0..Units :
     n > 0 => /\ s # NoState /\ s.input = j.input /\ n <= Len(s.done)
              /\ \A i \in 1..n : s.done[i][1] = j.units[i]}
Reusable(s, j) ==
  LET n == Max(Matching(s, j)) IN IF n = 0 THEN <<>> ELSE SubSeq(s.done, 1, n)
PassedLate(s) == s # NoState /\ Len(s.done) > Units
Passed(s) == s # NoState /\ Len(s.done) = Units

(***************************************************************************)
(* runRequirementsSemanticCheckpointUnits.                                 *)
(***************************************************************************)

Run(p, j) ==
  /\ Available(p)
  /\ run' = [run EXCEPT ![p] = Unread(j)]
  /\ Goto(p, "read")
  /\ UNCHANGED <<files, seen, state>>

(* A passed checkpoint all of whose units match is returned; else the      *)
(* units that match are saved before the others are executed.              *)
Read(p) ==
  LET kept == Reusable(state, run[p].job) IN
  /\ at[p] = "read"
  /\ \/ /\ Passed(state) /\ Len(kept) = Units
        /\ Goto(p, "out")
        /\ run' = [run EXCEPT ![p] = Idle]
     \/ /\ ~(Passed(state) /\ Len(kept) = Units)
        /\ run' = [run EXCEPT ![p].expected = state,
                              ![p].next = [input |-> run[p].job.input, done |-> kept]]
        /\ Enter(p)
  /\ UNCHANGED <<files, seen, state>>

Execute(p) ==
  LET done == run[p].expected.done IN
  /\ at[p] = "execute"
  /\ \E o \in Output :
       run' = [run EXCEPT ![p].next =
                 [run[p].expected EXCEPT !.done = Append(@, <<run[p].job.units[Len(done) + 1], o>>)]]
  /\ Enter(p)
  /\ UNCHANGED <<files, seen, state>>

(***************************************************************************)
(* saveRequirementsSemanticCheckpoint, once the lock is held.              *)
(***************************************************************************)

NotThere(p) == run[p].expected = NoState => state = NoState
AsExpected(p) == state = run[p].expected
Check(p) ==
  /\ at[p] = "held"
  /\ Goto(p, IF AsExpected(p) THEN "write" ELSE "failed")
  /\ UNCHANGED <<files, seen, state, run>>
Write(p) ==
  /\ at[p] = "write"
  /\ state' = run[p].next
  /\ Goto(p, "readback")
  /\ UNCHANGED <<files, seen, run>>
ReadBack(p) ==
  /\ at[p] = "readback"
  /\ run' = [run EXCEPT ![p].expected = state, ![p].next = NoState]
  /\ Goto(p, "saved")
  /\ UNCHANGED <<files, seen, state>>

(* The finally block.  Its own errors are swallowed: the lock stays.       *)
Proceed(p) ==
  \/ /\ at[p] = "failed"
     /\ Goto(p, "dead") /\ run' = [run EXCEPT ![p] = Idle]
  \/ /\ at[p] = "saved" /\ Passed(run[p].expected)
     /\ Goto(p, "out") /\ run' = [run EXCEPT ![p] = Idle]
  \/ /\ at[p] = "saved" /\ ~Passed(run[p].expected)
     /\ Goto(p, "execute") /\ UNCHANGED run
Release(p) ==
  /\ Proceed(p)
  /\ Unlock(p)
  /\ UNCHANGED <<recovery, seen, state>>

(***************************************************************************)
(* Failing operations and deaths, and the specification.                   *)
(***************************************************************************)

(* What a run holds in memory goes with its process.                       *)
Keep(p) == run' = IF at'[p] = "dead" THEN [run EXCEPT ![p] = Idle] ELSE run

Fail(p) ==
  \/ AcquireFails(p) /\ Keep(p) /\ UNCHANGED state
  \/ /\ at[p] \in {"read", "execute"}
     /\ Goto(p, "dead") /\ Keep(p)
     /\ UNCHANGED <<files, seen, state>>
  \/ /\ at[p] \in {"held", "write", "readback"}
     /\ Goto(p, "failed")
     /\ UNCHANGED <<files, seen, state, run>>
  \/ /\ Proceed(p)
     /\ UNCHANGED <<files, seen, state>>

Crash(p) == Die(p) /\ Keep(p) /\ UNCHANGED state

Step(p) ==
  \/ (Acquire(p) \/ Exit(p)) /\ Keep(p) /\ UNCHANGED state
  \/ Read(p) \/ Execute(p) \/ Check(p) \/ Write(p) \/ ReadBack(p) \/ Release(p)
TimePasses == FiveMinutesPass /\ UNCHANGED <<state, run>>

Next ==
  \/ \E p \in Proc : Step(p) \/ Fail(p) \/ Crash(p) \/ \E j \in Job : Run(p, j)
  \/ TimePasses

Spec == Init /\ [][Next]_vars

(***************************************************************************)
(* Properties.                                                             *)
(***************************************************************************)

Saving == {"held", "write", "readback", "saved", "failed"}
Elsewhere == {"out", "read", "execute", "dead"}

(* Every variable has its type, a run that is about to save has what it    *)
(* saves, and one that is about to execute has a unit left.                *)
LockTyped ==
  /\ lock \in File \cup {NoFile} /\ recovery \in File \cup {NoFile}
  /\ seen \in [Proc -> File \cup {NoFile}]
  /\ at \in [Proc -> Acquiring \cup Saving \cup Elsewhere]
TypeOK ==
  /\ LockTyped
  /\ state \in State \cup {NoState}
  /\ run \in [Proc -> [job : Job, expected : State \cup {NoState}, next : State \cup {NoState}]]
  /\ \A p \in Proc : at[p] \in Acquiring \cup {"held", "write"} => run[p].next \in State
  /\ \A p \in Proc : at[p] = "execute" => Len(run[p].expected.done) < Units

(* The lock file of a process that saves is that process's own: nobody     *)
(* deletes the lock of another live writer, so two never save at once.     *)
WriterKeepsLock == \A p \in Proc : at[p] \in Saving => Own(p, lock)

(* A save replaces the state by one of the writer's job, and of what the   *)
(* file held it drops only results from the first unit on that does not    *)
(* match the writer's job: nothing another run has done meanwhile is lost. *)
OnlySuffixDropped ==
  [][state' # state =>
       \E p \in Proc :
         LET j == run[p].job IN
         /\ at[p] = "write" /\ state'.input = j.input
         /\ Len(Reusable(state', j)) = Len(state'.done)
         /\ IsPrefix(Reusable(state, j), state'.done)]_vars
=============================================================================
