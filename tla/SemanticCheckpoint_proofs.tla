--------------------- MODULE SemanticCheckpoint_proofs ---------------------
(***************************************************************************)
(* Proofs about the checkpoint store and its file lock, for any set of     *)
(* processes and any jobs, in behaviours in which two calls do not remove  *)
(* the same abandoned recovery file at once (OneSweeper).  Nothing in the  *)
(* code ensures that, so every theorem below states it as its condition.   *)
(* First the lock (Owned), then what the runs hold in memory (Sound).      *)
(***************************************************************************)
EXTENDS SemanticCheckpoint, TLAPS, FiniteSetTheorems, WellFoundedInduction

USE FileLockAssumption

Recovering == {"sign", "compare", "evict", "reopen", "refill", "done", "abort"}
Deciding == {"sweep", "clear", "recover", "sign", "compare", "evict"}

(* What a process has decided to remove is abandoned and stays so: its     *)
(* process is not started again while somebody has seen it.                *)
SeenAbandoned == \A p \in Proc : at[p] \in Deciding => Abandoned(seen[p])

(* The recovery file of a process that takes a lock over is its own, and   *)
(* new; so one process at a time is in a recovery.                         *)
RecoveryOwned ==
  \A p \in Proc : at[p] \in Recovering =>
    recovery # NoFile /\ recovery.by = p /\ ~recovery.old

(* A comparison still holds when the file is removed.                      *)
SweepSure == \A p \in Proc : at[p] = "clear" => recovery = seen[p]
EvictSure == \A p \in Proc : at[p] = "evict" => lock = seen[p]

(* A lock file that was just created is its creator's.                     *)
LockOwned ==
  \A p \in Proc :
    /\ at[p] \in {"fill", "refill"} => lock = Empty(p)
    /\ at[p] \in {"recheck", "done"} => lock = Signed(p)

(* The inductive invariant.                                                *)
Owned ==
  /\ LockTyped /\ OneSweeper
  /\ SeenAbandoned /\ RecoveryOwned /\ SweepSure /\ EvictSure /\ LockOwned
  /\ WriterKeepsLock

(* A step of the checkpoint store outside an acquire moves one process and *)
(* keeps the files, or gives the lock back.                                *)
Moves(p, from, to) ==
  at[p] \in from /\ (\E l \in to : Goto(p, l)) /\ UNCHANGED <<files, seen>>
Calls(p) == Available(p) /\ Goto(p, "read") /\ UNCHANGED <<files, seen>>
Leaves(p) ==
  /\ at[p] \in {"saved", "failed"} /\ (\E l \in Elsewhere : Goto(p, l))
  /\ Unlock(p) /\ UNCHANGED <<recovery, seen>>

(* Every step of the store is one of the lock, or one of these three.      *)
LEMMA UserStep ==
  ASSUME Owned, Next
  PROVE  \/ \E p \in Proc :
              \/ Acquire(p) \/ AcquireFails(p) \/ Die(p) \/ Calls(p) \/ Leaves(p)
              \/ Moves(p, {"read", "execute"}, {"look", "out", "dead"})
              \/ Moves(p, Saving, Saving) \/ Moves(p, {"saved", "failed", "out"}, Elsewhere)
         \/ FiveMinutesPass
<1>1. ASSUME NEW p \in Proc, NEW j \in Job, Run(p, j) PROVE Calls(p)
  BY <1>1 DEF Run, Calls
<1>2. ASSUME NEW p \in Proc, Read(p) \/ Execute(p)
      PROVE  Moves(p, {"read", "execute"}, {"look", "out", "dead"})
  BY <1>2 DEF Read, Execute, Moves, Enter, Goto
<1>3. ASSUME NEW p \in Proc, Check(p) \/ Write(p) \/ ReadBack(p) PROVE Moves(p, Saving, Saving)
  BY <1>3 DEF Check, Write, ReadBack, Moves, Goto, Saving
<1>4. ASSUME NEW p \in Proc, Release(p) PROVE Leaves(p)
  BY <1>4 DEF Release, Proceed, Leaves, Goto, Elsewhere
<1>5. ASSUME NEW p \in Proc, Exit(p) PROVE Moves(p, {"saved", "failed", "out"}, Elsewhere)
  BY <1>5 DEF Exit, Moves, Goto, Elsewhere
<1>6. ASSUME NEW p \in Proc, Fail(p)
      PROVE  \/ AcquireFails(p) \/ Moves(p, {"read", "execute"}, {"look", "out", "dead"})
             \/ Moves(p, Saving, Saving) \/ Moves(p, {"saved", "failed", "out"}, Elsewhere)
  BY <1>6 DEF Fail, Moves, Goto, Proceed, Saving, Elsewhere
<1> QED
  BY <1>1, <1>2, <1>3, <1>4, <1>5, <1>6 DEF Next, Step, Crash, TimePasses

(* What a new file holds.                                                  *)
LEMMA NewFile ==
  ASSUME NEW p \in Proc
  PROVE  /\ Empty(p) \in File /\ Empty(p).by = p /\ ~Empty(p).filled /\ ~Empty(p).old
         /\ Signed(p) \in File /\ Signed(p).by = p /\ Signed(p).filled /\ ~Signed(p).old
         /\ Empty(p) # NoFile /\ Signed(p) # NoFile
<1>1. Empty(p) \in File /\ Signed(p) \in File
  BY DEF Empty, Signed, File
<1>2. Empty(p).by = p /\ ~Empty(p).filled /\ ~Empty(p).old
  BY DEF Empty
<1>3. Signed(p).by = p /\ Signed(p).filled /\ ~Signed(p).old
  BY DEF Signed
<1> QED
  BY <1>1, <1>2, <1>3

(* Each step of the lock keeps the invariant, as long as OneSweeper holds. *)
LEMMA LockStep ==
  ASSUME Owned, OneSweeper', NEW p \in Proc, Acquire(p) PROVE Owned'
<1> USE DEF Owned, LockTyped, Goto, Decide, Acquiring, Saving, Elsewhere, Recovering, Deciding, files
<1> USE NewFile
<1>1. CASE Look(p)
  <2> USE <1>1 DEF Look
  <2>1. LockTyped'
    OBVIOUS
  <2>2. SeenAbandoned'
    BY DEF SeenAbandoned, Abandoned, File
  <2>3. RecoveryOwned'
    BY DEF RecoveryOwned, SweepSure, SeenAbandoned, Abandoned
  <2>4. SweepSure'
    BY DEF SweepSure, RecoveryOwned, SeenAbandoned, Abandoned, OneSweeper
  <2>5. EvictSure'
    BY DEF EvictSure, RecoveryOwned, LockOwned, WriterKeepsLock, SeenAbandoned, Abandoned
  <2>6. LockOwned'
    BY DEF LockOwned, EvictSure, SeenAbandoned, Abandoned, Own
  <2>7. WriterKeepsLock'
    BY DEF WriterKeepsLock, LockOwned, EvictSure, SeenAbandoned, Abandoned, Own
  <2> QED
    BY <2>1, <2>2, <2>3, <2>4, <2>5, <2>6, <2>7
<1>2. CASE Sweep(p)
  <2> USE <1>2 DEF Sweep
  <2>1. LockTyped'
    OBVIOUS
  <2>2. SeenAbandoned'
    BY DEF SeenAbandoned, Abandoned, File
  <2>3. RecoveryOwned'
    BY DEF RecoveryOwned, SweepSure, SeenAbandoned, Abandoned
  <2>4. SweepSure'
    BY DEF SweepSure, RecoveryOwned, SeenAbandoned, Abandoned, OneSweeper
  <2>5. EvictSure'
    BY DEF EvictSure, RecoveryOwned, LockOwned, WriterKeepsLock, SeenAbandoned, Abandoned
  <2>6. LockOwned'
    BY DEF LockOwned, EvictSure, SeenAbandoned, Abandoned, Own
  <2>7. WriterKeepsLock'
    BY DEF WriterKeepsLock, LockOwned, EvictSure, SeenAbandoned, Abandoned, Own
  <2> QED
    BY <2>1, <2>2, <2>3, <2>4, <2>5, <2>6, <2>7
<1>3. CASE Open(p)
  <2> USE <1>3 DEF Open
  <2>1. LockTyped'
    OBVIOUS
  <2>2. SeenAbandoned'
    BY DEF SeenAbandoned, Abandoned, File
  <2>3. RecoveryOwned'
    BY DEF RecoveryOwned, SweepSure, SeenAbandoned, Abandoned
  <2>4. SweepSure'
    BY DEF SweepSure, RecoveryOwned, SeenAbandoned, Abandoned, OneSweeper
  <2>5. EvictSure'
    BY DEF EvictSure, RecoveryOwned, LockOwned, WriterKeepsLock, SeenAbandoned, Abandoned
  <2>6. LockOwned'
    BY DEF LockOwned, EvictSure, SeenAbandoned, Abandoned, Own
  <2>7. WriterKeepsLock'
    BY DEF WriterKeepsLock, LockOwned, EvictSure, SeenAbandoned, Abandoned, Own
  <2> QED
    BY <2>1, <2>2, <2>3, <2>4, <2>5, <2>6, <2>7
<1>4. CASE Fill(p)
  <2> USE <1>4 DEF Fill
  <2>1. LockTyped'
    OBVIOUS
  <2>2. SeenAbandoned'
    BY DEF SeenAbandoned, Abandoned, File
  <2>3. RecoveryOwned'
    BY DEF RecoveryOwned, SweepSure, SeenAbandoned, Abandoned
  <2>4. SweepSure'
    BY DEF SweepSure, RecoveryOwned, SeenAbandoned, Abandoned, OneSweeper
  <2>5. EvictSure'
    BY DEF EvictSure, RecoveryOwned, LockOwned, WriterKeepsLock, SeenAbandoned, Abandoned
  <2>6. LockOwned'
    BY DEF LockOwned, EvictSure, SeenAbandoned, Abandoned, Own
  <2>7. WriterKeepsLock'
    BY DEF WriterKeepsLock, LockOwned, EvictSure, SeenAbandoned, Abandoned, Own
  <2> QED
    BY <2>1, <2>2, <2>3, <2>4, <2>5, <2>6, <2>7
<1>5. CASE Recheck(p)
  <2> USE <1>5 DEF Recheck
  <2>1. LockTyped'
    OBVIOUS
  <2>2. SeenAbandoned'
    BY DEF SeenAbandoned, Abandoned, File
  <2>3. RecoveryOwned'
    BY DEF RecoveryOwned, SweepSure, SeenAbandoned, Abandoned
  <2>4. SweepSure'
    BY DEF SweepSure, RecoveryOwned, SeenAbandoned, Abandoned, OneSweeper
  <2>5. EvictSure'
    BY DEF EvictSure, RecoveryOwned, LockOwned, WriterKeepsLock, SeenAbandoned, Abandoned
  <2>6. LockOwned'
    BY DEF LockOwned, EvictSure, SeenAbandoned, Abandoned, Own
  <2>7. WriterKeepsLock'
    BY DEF WriterKeepsLock, LockOwned, EvictSure, SeenAbandoned, Abandoned, Own
  <2> QED
    BY <2>1, <2>2, <2>3, <2>4, <2>5, <2>6, <2>7
<1>6. CASE Occupied(p)
  <2> USE <1>6 DEF Occupied
  <2>1. LockTyped'
    OBVIOUS
  <2>2. SeenAbandoned'
    BY DEF SeenAbandoned, Abandoned, File
  <2>3. RecoveryOwned'
    BY DEF RecoveryOwned, SweepSure, SeenAbandoned, Abandoned
  <2>4. SweepSure'
    BY DEF SweepSure, RecoveryOwned, SeenAbandoned, Abandoned, OneSweeper
  <2>5. EvictSure'
    BY DEF EvictSure, RecoveryOwned, LockOwned, WriterKeepsLock, SeenAbandoned, Abandoned
  <2>6. LockOwned'
    BY DEF LockOwned, EvictSure, SeenAbandoned, Abandoned, Own
  <2>7. WriterKeepsLock'
    BY DEF WriterKeepsLock, LockOwned, EvictSure, SeenAbandoned, Abandoned, Own
  <2> QED
    BY <2>1, <2>2, <2>3, <2>4, <2>5, <2>6, <2>7
<1>7. CASE Recover(p)
  <2> USE <1>7 DEF Recover
  <2>1. LockTyped'
    OBVIOUS
  <2>2. SeenAbandoned'
    BY DEF SeenAbandoned, Abandoned, File
  <2>3. RecoveryOwned'
    BY DEF RecoveryOwned, SweepSure, SeenAbandoned, Abandoned
  <2>4. SweepSure'
    BY DEF SweepSure, RecoveryOwned, SeenAbandoned, Abandoned, OneSweeper
  <2>5. EvictSure'
    BY DEF EvictSure, RecoveryOwned, LockOwned, WriterKeepsLock, SeenAbandoned, Abandoned
  <2>6. LockOwned'
    BY DEF LockOwned, EvictSure, SeenAbandoned, Abandoned, Own
  <2>7. WriterKeepsLock'
    BY DEF WriterKeepsLock, LockOwned, EvictSure, SeenAbandoned, Abandoned, Own
  <2> QED
    BY <2>1, <2>2, <2>3, <2>4, <2>5, <2>6, <2>7
<1>8. CASE Evict(p)
  <2> USE <1>8 DEF Evict
  <2>1. LockTyped'
    OBVIOUS
  <2>2. SeenAbandoned'
    BY DEF SeenAbandoned, Abandoned, File
  <2>3. RecoveryOwned'
    BY DEF RecoveryOwned, SweepSure, SeenAbandoned, Abandoned
  <2>4. SweepSure'
    BY DEF SweepSure, RecoveryOwned, SeenAbandoned, Abandoned, OneSweeper
  <2>5. EvictSure'
    BY DEF EvictSure, RecoveryOwned, LockOwned, WriterKeepsLock, SeenAbandoned, Abandoned
  <2>6. LockOwned'
    BY DEF LockOwned, EvictSure, SeenAbandoned, Abandoned, Own
  <2>7. WriterKeepsLock'
    BY DEF WriterKeepsLock, LockOwned, EvictSure, SeenAbandoned, Abandoned, Own
  <2> QED
    BY <2>1, <2>2, <2>3, <2>4, <2>5, <2>6, <2>7
<1>9. CASE Reopen(p)
  <2> USE <1>9 DEF Reopen
  <2>1. LockTyped'
    OBVIOUS
  <2>2. SeenAbandoned'
    BY DEF SeenAbandoned, Abandoned, File
  <2>3. RecoveryOwned'
    BY DEF RecoveryOwned, SweepSure, SeenAbandoned, Abandoned
  <2>4. SweepSure'
    BY DEF SweepSure, RecoveryOwned, SeenAbandoned, Abandoned, OneSweeper
  <2>5. EvictSure'
    BY DEF EvictSure, RecoveryOwned, LockOwned, WriterKeepsLock, SeenAbandoned, Abandoned
  <2>6. LockOwned'
    BY DEF LockOwned, EvictSure, SeenAbandoned, Abandoned, Own
  <2>7. WriterKeepsLock'
    BY DEF WriterKeepsLock, LockOwned, EvictSure, SeenAbandoned, Abandoned, Own
  <2> QED
    BY <2>1, <2>2, <2>3, <2>4, <2>5, <2>6, <2>7
<1>10. CASE EndRecovery(p)
  <2> USE <1>10 DEF EndRecovery
  <2>1. LockTyped'
    OBVIOUS
  <2>2. SeenAbandoned'
    BY DEF SeenAbandoned, Abandoned, File
  <2>3. RecoveryOwned'
    BY DEF RecoveryOwned, SweepSure, SeenAbandoned, Abandoned
  <2>4. SweepSure'
    BY DEF SweepSure, RecoveryOwned, SeenAbandoned, Abandoned, OneSweeper
  <2>5. EvictSure'
    BY DEF EvictSure, RecoveryOwned, LockOwned, WriterKeepsLock, SeenAbandoned, Abandoned
  <2>6. LockOwned'
    BY DEF LockOwned, EvictSure, SeenAbandoned, Abandoned, Own
  <2>7. WriterKeepsLock'
    BY DEF WriterKeepsLock, LockOwned, EvictSure, SeenAbandoned, Abandoned, Own
  <2> QED
    BY <2>1, <2>2, <2>3, <2>4, <2>5, <2>6, <2>7
<1> QED
  BY <1>1, <1>2, <1>3, <1>4, <1>5, <1>6, <1>7, <1>8, <1>9, <1>10 DEF Acquire

(* So does a failing operation of an acquire.                               *)
LEMMA FailStep ==
  ASSUME Owned, OneSweeper', NEW p \in Proc, AcquireFails(p) PROVE Owned'
<1> USE DEF Owned, LockTyped, Goto, Decide, Acquiring, Saving, Elsewhere, Recovering, Deciding, files
<1> USE NewFile
<1> USE DEF AcquireFails
<1>1. LockTyped'
  OBVIOUS
<1>2. SeenAbandoned'
  BY DEF SeenAbandoned, Abandoned, File
<1>3. RecoveryOwned'
  BY DEF RecoveryOwned, SweepSure, SeenAbandoned, Abandoned
<1>4. SweepSure'
  BY DEF SweepSure, RecoveryOwned, SeenAbandoned, Abandoned, OneSweeper
<1>5. EvictSure'
  BY DEF EvictSure, RecoveryOwned, LockOwned, WriterKeepsLock, SeenAbandoned, Abandoned
<1>6. LockOwned'
  BY DEF LockOwned, EvictSure, SeenAbandoned, Abandoned, Own
<1>7. WriterKeepsLock'
  BY DEF WriterKeepsLock, LockOwned, EvictSure, SeenAbandoned, Abandoned, Own
<1> QED
  BY <1>1, <1>2, <1>3, <1>4, <1>5, <1>6, <1>7

(* So does the death of a process: nothing counts on a dead one.            *)
LEMMA DeathStep ==
  ASSUME Owned, OneSweeper', NEW p \in Proc, Die(p) PROVE Owned'
<1> USE DEF Owned, LockTyped, Goto, Decide, Acquiring, Saving, Elsewhere, Recovering, Deciding, files
<1> USE NewFile
<1> USE DEF Die
<1>1. LockTyped'
  OBVIOUS
<1>2. SeenAbandoned'
  BY DEF SeenAbandoned, Abandoned, File
<1>3. RecoveryOwned'
  BY DEF RecoveryOwned, SweepSure, SeenAbandoned, Abandoned
<1>4. SweepSure'
  BY DEF SweepSure, RecoveryOwned, SeenAbandoned, Abandoned, OneSweeper
<1>5. EvictSure'
  BY DEF EvictSure, RecoveryOwned, LockOwned, WriterKeepsLock, SeenAbandoned, Abandoned
<1>6. LockOwned'
  BY DEF LockOwned, EvictSure, SeenAbandoned, Abandoned, Own
<1>7. WriterKeepsLock'
  BY DEF WriterKeepsLock, LockOwned, EvictSure, SeenAbandoned, Abandoned, Own
<1> QED
  BY <1>1, <1>2, <1>3, <1>4, <1>5, <1>6, <1>7

(* So does a new call, by a process that nobody takes for dead.             *)
LEMMA CallStep ==
  ASSUME Owned, OneSweeper', NEW p \in Proc, Calls(p) PROVE Owned'
<1> USE DEF Owned, LockTyped, Goto, Decide, Acquiring, Saving, Elsewhere, Recovering, Deciding, files
<1> USE NewFile
<1> USE DEF Calls, Available, Mentions
<1>1. LockTyped'
  OBVIOUS
<1>2. SeenAbandoned'
  BY DEF SeenAbandoned, Abandoned, File
<1>3. RecoveryOwned'
  BY DEF RecoveryOwned, SweepSure, SeenAbandoned, Abandoned
<1>4. SweepSure'
  BY DEF SweepSure, RecoveryOwned, SeenAbandoned, Abandoned, OneSweeper
<1>5. EvictSure'
  BY DEF EvictSure, RecoveryOwned, LockOwned, WriterKeepsLock, SeenAbandoned, Abandoned
<1>6. LockOwned'
  BY DEF LockOwned, EvictSure, SeenAbandoned, Abandoned, Own
<1>7. WriterKeepsLock'
  BY DEF WriterKeepsLock, LockOwned, EvictSure, SeenAbandoned, Abandoned, Own
<1> QED
  BY <1>1, <1>2, <1>3, <1>4, <1>5, <1>6, <1>7

(* So does a step of the store that keeps the files.                        *)
LEMMA MoveStep ==
  ASSUME Owned, OneSweeper', NEW p \in Proc,
         \/ Moves(p, {"read", "execute"}, {"look", "out", "dead"})
         \/ Moves(p, Saving, Saving) \/ Moves(p, {"saved", "failed", "out"}, Elsewhere)
   PROVE Owned'
<1> USE DEF Owned, LockTyped, Goto, Decide, Acquiring, Saving, Elsewhere, Recovering, Deciding, files
<1> USE NewFile
<1> USE DEF Moves
<1>1. LockTyped'
  OBVIOUS
<1>2. SeenAbandoned'
  BY DEF SeenAbandoned, Abandoned, File
<1>3. RecoveryOwned'
  BY DEF RecoveryOwned, SweepSure, SeenAbandoned, Abandoned
<1>4. SweepSure'
  BY DEF SweepSure, RecoveryOwned, SeenAbandoned, Abandoned, OneSweeper
<1>5. EvictSure'
  BY DEF EvictSure, RecoveryOwned, LockOwned, WriterKeepsLock, SeenAbandoned, Abandoned
<1>6. LockOwned'
  BY DEF LockOwned, EvictSure, SeenAbandoned, Abandoned, Own
<1>7. WriterKeepsLock'
  BY DEF WriterKeepsLock, LockOwned, EvictSure, SeenAbandoned, Abandoned, Own
<1> QED
  BY <1>1, <1>2, <1>3, <1>4, <1>5, <1>6, <1>7

(* So does the release of the lock: a writer gives back its own only.       *)
LEMMA ReleaseStep ==
  ASSUME Owned, OneSweeper', NEW p \in Proc, Leaves(p) PROVE Owned'
<1> USE DEF Owned, LockTyped, Goto, Decide, Acquiring, Saving, Elsewhere, Recovering, Deciding, files
<1> USE NewFile
<1> USE DEF Leaves, Unlock
<1>1. LockTyped'
  OBVIOUS
<1>2. SeenAbandoned'
  BY DEF SeenAbandoned, Abandoned, File
<1>3. RecoveryOwned'
  BY DEF RecoveryOwned, SweepSure, SeenAbandoned, Abandoned
<1>4. SweepSure'
  BY DEF SweepSure, RecoveryOwned, SeenAbandoned, Abandoned, OneSweeper
<1>5. EvictSure'
  BY DEF EvictSure, RecoveryOwned, LockOwned, WriterKeepsLock, SeenAbandoned, Abandoned, Own
<1>6. LockOwned'
  BY DEF LockOwned, EvictSure, SeenAbandoned, Abandoned, Own
<1>7. WriterKeepsLock'
  BY DEF WriterKeepsLock, LockOwned, EvictSure, SeenAbandoned, Abandoned, Own
<1> QED
  BY <1>1, <1>2, <1>3, <1>4, <1>5, <1>6, <1>7

(* So does the passing of time: only the files of nobody that acquires, or  *)
(* of dead processes, grow old.                                             *)
LEMMA TimeStep ==
  ASSUME Owned, OneSweeper', FiveMinutesPass PROVE Owned'
<1> USE DEF Owned, LockTyped, Goto, Decide, Acquiring, Saving, Elsewhere, Recovering, Deciding, files
<1> USE NewFile
<1> USE DEF FiveMinutesPass, Older
<1>1. LockTyped'
  BY DEF File
<1>2. SeenAbandoned'
  BY DEF SeenAbandoned, Abandoned, File
<1>3. RecoveryOwned'
  BY DEF RecoveryOwned, SweepSure, SeenAbandoned, Abandoned
<1>4. SweepSure'
  BY DEF SweepSure, RecoveryOwned, SeenAbandoned, Abandoned, OneSweeper
<1>5. EvictSure'
  BY DEF EvictSure, RecoveryOwned, LockOwned, WriterKeepsLock, SeenAbandoned, Abandoned
<1>6. LockOwned'
  BY DEF LockOwned, EvictSure, SeenAbandoned, Abandoned, Own
<1>7. WriterKeepsLock'
  <2>1. \A q \in Proc : Own(q, lock) => Older(lock).by = q
    BY DEF File, Own
  <2>2. \A q \in Proc : Own(q, lock) => Older(lock).filled
    BY DEF File, Own
  <2>3. \A q \in Proc : Own(q, lock) => Older(lock) # NoFile
    <3>1. lock # NoFile => Older(lock) \in File
      BY DEF File
    <3> QED
      BY <3>1 DEF Own
  <2> QED
    BY <2>1, <2>2, <2>3 DEF WriterKeepsLock, Own
<1> QED
  BY <1>1, <1>2, <1>3, <1>4, <1>5, <1>6, <1>7

(* Owned is an invariant of a behaviour with one sweeper at a time.        *)
LEMMA OwnedInvariant == Spec /\ []OneSweeper => []Owned
<1>1. Init => Owned
  <2> SUFFICES ASSUME Init PROVE Owned
    OBVIOUS
  <2>1. LockTyped /\ \A p \in Proc : at[p] = "dead"
    BY DEF Init, LockInit, LockTyped, Elsewhere
  <2> QED
    BY <2>1 DEF Owned, OneSweeper, SeenAbandoned, RecoveryOwned, SweepSure, EvictSure, LockOwned,
                WriterKeepsLock, Saving, Deciding, Recovering
<1>2. Owned /\ [Next /\ OneSweeper']_vars => Owned'
  <2>1. ASSUME Owned, Next, OneSweeper' PROVE Owned'
    BY <2>1, UserStep, LockStep, FailStep, DeathStep, CallStep, MoveStep, ReleaseStep, TimeStep
  <2>2. ASSUME Owned, UNCHANGED vars PROVE Owned'
    BY <2>2 DEF vars, lockVars, Owned, LockTyped, OneSweeper, SeenAbandoned, Abandoned,
                RecoveryOwned, SweepSure, EvictSure, LockOwned, WriterKeepsLock
  <2> QED
    BY <2>1, <2>2
<1>3. [Next]_vars /\ OneSweeper' => [Next /\ OneSweeper']_vars
  OBVIOUS
<1> QED
  BY <1>1, <1>2, <1>3, PTL DEF Spec

(* In a behaviour in which no two calls remove an abandoned recovery file  *)
(* at once, the lock file of a process that saves is its own, whatever was *)
(* abandoned and taken over before, in a takeover too.  Two sweepers can   *)
(* leave two recoverers, of which one removes the lock of a live writer.   *)
THEOREM LockKeptIfOneSweeper == Spec /\ []OneSweeper => []WriterKeepsLock
<1>1. Owned => WriterKeepsLock
  BY DEF Owned
<1> QED
  BY <1>1, OwnedInvariant, PTL

(* In a behaviour in which no two calls remove an abandoned recovery file  *)
(* at once, two processes never save at once.  It fails with two sweepers, *)
(* which the code allows.                                                  *)
THEOREM ExclusionIfOneSweeper ==
  Spec /\ []OneSweeper =>
    [](\A p, q \in Proc : at[p] \in Saving /\ at[q] \in Saving => p = q)
<1>1. WriterKeepsLock => \A p, q \in Proc : at[p] \in Saving /\ at[q] \in Saving => p = q
  BY DEF WriterKeepsLock, Own
<1> QED
  BY <1>1, LockKeptIfOneSweeper, PTL

-----------------------------------------------------------------------------

(* A nonempty set of numbers of units has a greatest element.              *)
LEMMA Greatest ==
  ASSUME NEW M, M \subseteq 0..Units, M # {}
  PROVE  \E x \in M : \A y \in M : x >= y
<1>0. Units \in Nat
  BY CheckpointAssumption
<1> DEFINE Above(n) == (n + 1)..Units
           R == StrictSubsetOrdering(1..Units)
           T == {Above(n) : n \in M}
<1>1. IsWellFoundedOn(R, SUBSET (1..Units))
  <2>1. IsFiniteSet(1..Units)
    BY <1>0, FS_Interval
  <2>2. FiniteSubsetsOf(1..Units) = SUBSET (1..Units)
    BY <2>1, FS_FiniteSubsetsOfFinite
  <2> QED
    BY <2>2, FS_StrictSubsetOrderingWellFounded
<1>2. T \subseteq SUBSET (1..Units) /\ T # {}
  <2>1. \A n \in M : Above(n) \in SUBSET (1..Units)
    BY <1>0
  <2> HIDE DEF Above
  <2> QED
    BY <2>1
<1>3. \A x, y \in M : y > x => <<Above(y), Above(x)>> \in R
  <2> SUFFICES ASSUME NEW x \in M, NEW y \in M, y > x PROVE <<Above(y), Above(x)>> \in R
    OBVIOUS
  <2>1. Above(y) \subseteq Above(x) /\ Above(x) \subseteq 1..Units
    BY <1>0
  <2>2. x + 1 \in Above(x) /\ x + 1 \notin Above(y)
    BY <1>0
  <2> QED
    BY <2>1, <2>2 DEF StrictSubsetOrdering
<1> HIDE DEF R
<1>4. PICK s \in T : \A t \in T : ~ (<<t, s>> \in R)
  BY <1>1, <1>2, WFMin
<1>5. PICK x \in M : s = Above(x)
  BY <1>4
<1>6. \A y \in M : ~(y > x)
  BY <1>3, <1>4, <1>5
<1> QED
  BY <1>0, <1>6

(* What a state file holds.                                                *)
LEMMA StateFacts ==
  ASSUME NEW s \in State
  PROVE  /\ s.input \in Input /\ s.done \in Seq(Result)
         /\ Len(s.done) \in 0..Units
         /\ \A i \in 1..Len(s.done) : s.done[i] \in Result
<1> USE CheckpointAssumption
<1>1. PICK n \in 0..Units : s.done \in [1..n -> Result]
  BY DEF State
<1>2. Len(s.done) = n
  BY <1>1
<1> QED
  BY <1>1, <1>2 DEF State

(* Results of at most all units make a state.                              *)
LEMMA StateMade ==
  ASSUME NEW i \in Input, NEW d \in Seq(Result), Len(d) <= Units
  PROVE  [input |-> i, done |-> d] \in State
<1>1. Len(d) \in 0..Units /\ d \in [1..Len(d) -> Result]
  BY CheckpointAssumption
<1> QED
  BY <1>1 DEF State

(* The results a job reuses are the longest matching prefix.               *)
LEMMA ReusableFacts ==
  ASSUME NEW s \in State \cup {NoState}, NEW j \in Job
  PROVE  /\ Reusable(s, j) \in Seq(Result)
         /\ Len(Reusable(s, j)) \in Matching(s, j)
         /\ \A n \in Matching(s, j) : n <= Len(Reusable(s, j))
         /\ \A i \in 1..Len(Reusable(s, j)) :
              Reusable(s, j)[i] = s.done[i] /\ Reusable(s, j)[i][1] = j.units[i]
<1> USE CheckpointAssumption
<1> DEFINE n == Max(Matching(s, j))
<1>1. 0 \in Matching(s, j) /\ Matching(s, j) \subseteq 0..Units
  BY DEF Matching
<1>2. n \in Matching(s, j) /\ \A m \in Matching(s, j) : n >= m
  BY <1>1, Greatest DEF Max
<1> HIDE DEF n
<1>3. CASE n = 0
  <2>1. Reusable(s, j) = <<>>
    BY <1>3 DEF Reusable, n
  <2> QED
    BY <1>1, <1>2, <1>3, <2>1
<1>4. CASE n # 0
  <2>1. /\ n \in 1..Units /\ s # NoState /\ s \in State /\ n <= Len(s.done)
        /\ \A i \in 1..n : s.done[i][1] = j.units[i]
    BY <1>2, <1>4 DEF Matching
  <2>2. Reusable(s, j) = SubSeq(s.done, 1, n)
    BY <1>4 DEF Reusable, n
  <2>3. s.done \in Seq(Result)
    BY <2>1, StateFacts
  <2>4. /\ Reusable(s, j) \in Seq(Result) /\ Len(Reusable(s, j)) = n
        /\ \A i \in 1..n : Reusable(s, j)[i] = s.done[i]
    BY <2>1, <2>2, <2>3
  <2> QED
    BY <1>2, <2>1, <2>4
<1> QED
  BY <1>3, <1>4

(* A state of a job: results of its first units only.                      *)
Fits(s, j) ==
  /\ s \in State /\ s.input = j.input
  /\ \A i \in 1..Len(s.done) : s.done[i][1] = j.units[i]

(* All of such a state is reusable.                                        *)
LEMMA FitsReusable ==
  ASSUME NEW s, NEW j \in Job, Fits(s, j)
  PROVE  Reusable(s, j) = s.done
<1> USE CheckpointAssumption
<1>1. s \in State /\ s # NoState /\ s.done \in Seq(Result) /\ Len(s.done) \in 0..Units
  BY StateFacts DEF Fits
<1>2. Len(s.done) \in Matching(s, j)
  BY <1>1 DEF Fits, Matching
<1>3. \A n \in Matching(s, j) : n <= Len(s.done)
  BY <1>1 DEF Matching
<1>4. /\ Reusable(s, j) \in Seq(Result) /\ Len(Reusable(s, j)) = Len(s.done)
      /\ \A i \in 1..Len(s.done) : Reusable(s, j)[i] = s.done[i]
  <2>1. Len(Reusable(s, j)) \in Nat
    BY <1>1, ReusableFacts
  <2> QED
    BY <1>1, <1>2, <1>3, <2>1, ReusableFacts
<1> QED
  BY <1>1, <1>4

(* What a run saves before it executes anything, and after each unit.      *)
LEMMA KeptFits ==
  ASSUME NEW s \in State \cup {NoState}, NEW j \in Job
  PROVE  Fits([input |-> j.input, done |-> Reusable(s, j)], j)
<1> DEFINE k == Reusable(s, j)
<1>1. k \in Seq(Result) /\ Len(k) \in 0..Units /\ \A i \in 1..Len(k) : k[i][1] = j.units[i]
  BY ReusableFacts DEF Matching
<1>2. [input |-> j.input, done |-> k] \in State
  BY <1>1, StateMade DEF Job
<1> HIDE DEF k
<1> QED
  BY <1>1, <1>2 DEF Fits, k

(* So does a state of the job with one more unit executed.                 *)
LEMMA ExtendedFits ==
  ASSUME NEW j \in Job, NEW s, Fits(s, j), Len(s.done) < Units, NEW o \in Output,
         NEW t, t = [s EXCEPT !.done = Append(s.done, <<j.units[Len(s.done) + 1], o>>)]
  PROVE  /\ Fits(t, j)
         /\ IsPrefix(s.done, t.done)
<1> USE CheckpointAssumption
<1> DEFINE u == <<j.units[Len(s.done) + 1], o>>
<1>1. /\ s \in State /\ s.input = j.input /\ s.done \in Seq(Result) /\ Len(s.done) \in 0..Units
      /\ \A i \in 1..Len(s.done) : s.done[i][1] = j.units[i]
  BY StateFacts DEF Fits
<1>2. u \in Result /\ u[1] = j.units[Len(s.done) + 1]
  <2>1. j.units \in [1..Units -> Version] /\ Len(s.done) + 1 \in 1..Units
    BY <1>1 DEF Job
  <2> QED
    BY <2>1 DEF Result
<1>3. t = [input |-> j.input, done |-> Append(s.done, u)]
  BY <1>1 DEF State
<1> HIDE DEF u
<1>4. /\ Append(s.done, u) \in Seq(Result) /\ Len(Append(s.done, u)) = Len(s.done) + 1
      /\ \A i \in 1..Len(s.done) : Append(s.done, u)[i] = s.done[i]
      /\ Append(s.done, u)[Len(s.done) + 1] = u
  BY <1>1, <1>2
<1>5. t \in State
  <2>1. j.input \in Input
    BY DEF Job
  <2>2. Append(s.done, u) \in Seq(Result) /\ Len(Append(s.done, u)) <= Units
    BY <1>1, <1>4
  <2> QED
    BY <1>3, <2>1, <2>2, StateMade
<1>6. Fits(t, j)
  <2> SUFFICES ASSUME NEW i \in 1..Len(t.done) PROVE t.done[i][1] = j.units[i]
    BY <1>3, <1>5 DEF Fits
  <2>1. i \in 1..Len(s.done) \/ i = Len(s.done) + 1
    BY <1>1, <1>3, <1>4
  <2> QED
    BY <1>1, <1>2, <1>3, <1>4, <2>1
<1>7. IsPrefix(s.done, t.done)
  BY <1>1, <1>3, <1>4 DEF IsPrefix
<1> QED
  BY <1>6, <1>7

(* What a run holds in memory: what it is about to save is of its job and  *)
(* extends what the state it expects had for that job, and the state is as *)
(* expected from the comparison to the write.                              *)
RunTyped ==
  /\ state \in State \cup {NoState}
  /\ run \in [Proc -> [job : Job, expected : State \cup {NoState}, next : State \cup {NoState}]]
Prepared(r) == Fits(r.next, r.job) /\ IsPrefix(Reusable(r.expected, r.job), r.next.done)
Sound ==
  /\ RunTyped
  /\ \A p \in Proc :
       /\ at[p] \in Acquiring \cup {"held", "write"} => Prepared(run[p])
       /\ at[p] = "write" => state = run[p].expected
       /\ at[p] = "readback" => Fits(state, run[p].job)
       /\ at[p] \in {"saved", "execute"} => Fits(run[p].expected, run[p].job)
       /\ at[p] = "execute" => Len(run[p].expected.done) < Units

(* A run in the middle of a call that goes on with its memory, or ends and *)
(* forgets it.                                                             *)
LEMMA SoundKept ==
  ASSUME Owned, Sound, NEW p \in Proc, Keep(p), UNCHANGED state,
         NEW l, Goto(p, l),
         \/ at[p] \in Acquiring /\ l \in Acquiring \cup {"held"}
         \/ l \in {"dead", "failed"}
  PROVE  Sound'
<1> USE DEF Owned, LockTyped, Goto, Sound
<1>1. Idle \in [job : Job, expected : State \cup {NoState}, next : State \cup {NoState}]
  BY DEF Idle, Unread, Sound, RunTyped
<1>2. RunTyped'
  BY <1>1 DEF Keep, RunTyped
<1> QED
  BY <1>2 DEF Keep, Acquiring, Prepared

(* An acquire moves between its own places until it holds the lock or      *)
(* ends.                                                                   *)
LEMMA AcquireGoes ==
  ASSUME Owned, NEW p \in Proc, Acquire(p) \/ AcquireFails(p)
  PROVE  at[p] \in Acquiring /\ \E l \in Acquiring \cup {"held", "dead"} : Goto(p, l)
BY DEF Acquire, AcquireFails, Look, Sweep, Open, Fill, Recheck, Occupied, Recover, Evict, Reopen,
       EndRecovery, Decide, Goto, Acquiring

(* Two processes never save at once: this keeps a comparison true until    *)
(* the write and the read after it.                                        *)
LEMMA WriterAlone ==
  ASSUME Owned, NEW p \in Proc, at[p] \in Saving, NEW q \in Proc, at[q] \in Saving
  PROVE  p = q
BY DEF Owned, WriterKeepsLock, Own

(* A new run has nothing in memory.                                        *)
LEMMA RunSound == ASSUME Owned, Sound, NEW p \in Proc, NEW j \in Job, Run(p, j) PROVE Sound'
BY DEF Run, Unread, Goto, Sound, RunTyped, Owned, LockTyped, Acquiring, Prepared

(* A read leaves the run with what it keeps of the file it has read.       *)
LEMMA ReadSound == ASSUME Owned, Sound, NEW p \in Proc, Read(p) PROVE Sound'
<1> USE DEF Owned, LockTyped, Goto
<1> DEFINE j == run[p].job
           n == [input |-> j.input, done |-> Reusable(state, j)]
<1>1. j \in Job /\ Fits(n, j)
  BY KeptFits DEF Sound, RunTyped
<1>2. IsPrefix(Reusable(state, j), Reusable(state, j))
  <2>1. Reusable(state, j) \in Seq(Result)
    BY <1>1, ReusableFacts DEF Sound, RunTyped
  <2> QED
    BY <2>1 DEF IsPrefix
<1>3. CASE at' = [at EXCEPT ![p] = "out"] /\ run' = [run EXCEPT ![p] = Idle]
  <2>1. Idle \in [job : Job, expected : State \cup {NoState}, next : State \cup {NoState}]
    BY DEF Idle, Unread, Sound, RunTyped
  <2> QED
    BY <1>3, <2>1 DEF Read, Sound, RunTyped, Acquiring, Prepared
<1>4. CASE at' = [at EXCEPT ![p] = "look"] /\ run' = [run EXCEPT ![p].expected = state, ![p].next = n]
  <2>1. n \in State /\ n.done = Reusable(state, j)
    BY <1>1 DEF Fits
  <2> HIDE DEF n
  <2>2. run'[p].job = j /\ run'[p].expected = state /\ run'[p].next = n
    BY <1>4 DEF Sound, RunTyped
  <2>3. RunTyped'
    BY <1>4, <2>1 DEF Read, Sound, RunTyped
  <2>4. Prepared(run'[p])
    BY <1>1, <1>2, <2>1, <2>2 DEF Prepared
  <2>5. \A q \in Proc \ {p} : run'[q] = run[q] /\ at'[q] = at[q]
    BY <1>4 DEF Sound, RunTyped
  <2>6. at'[p] = "look" /\ state' = state
    BY <1>4 DEF Read
  <2> QED
    BY <2>3, <2>4, <2>5, <2>6 DEF Sound
<1> QED
  BY <1>3, <1>4 DEF Read, Enter

(* An execution extends what the run has saved last.                       *)
LEMMA ExecuteSound == ASSUME Owned, Sound, NEW p \in Proc, Execute(p) PROVE Sound'
<1> USE DEF Owned, LockTyped, Goto
<1> DEFINE r == run[p]
<1>1. PICK o \in Output :
        run' = [run EXCEPT ![p].next =
          [r.expected EXCEPT !.done = Append(@, <<r.job.units[Len(r.expected.done) + 1], o>>)]]
  BY DEF Execute
<1> DEFINE n == [r.expected EXCEPT !.done = Append(@, <<r.job.units[Len(r.expected.done) + 1], o>>)]
<1>2. r.job \in Job /\ Fits(r.expected, r.job) /\ Len(r.expected.done) < Units
  BY DEF Execute, Sound, RunTyped
<1>3. Fits(n, r.job) /\ IsPrefix(r.expected.done, n.done)
  BY <1>2, ExtendedFits
<1>4. Reusable(r.expected, r.job) = r.expected.done
  BY <1>2, FitsReusable
<1>5. n \in State
  BY <1>3 DEF Fits
<1>11. run' = [run EXCEPT ![p].next = n]
  BY <1>1
<1> HIDE DEF n
<1>6. run'[p].job = r.job /\ run'[p].expected = r.expected /\ run'[p].next = n
  BY <1>11 DEF Sound, RunTyped
<1>7. RunTyped'
  <2>1. state' = state
    BY DEF Execute
  <2> QED
    BY <1>11, <1>5, <2>1 DEF Sound, RunTyped
<1>8. Prepared(run'[p])
  BY <1>3, <1>4, <1>6 DEF Prepared
<1>9. \A q \in Proc \ {p} : run'[q] = run[q] /\ at'[q] = at[q]
  BY <1>1 DEF Execute, Enter, Sound, RunTyped
<1>10. at'[p] = "look" /\ state' = state
  BY DEF Execute, Enter
<1> QED
  BY <1>7, <1>8, <1>9, <1>10 DEF Sound

(* Comparison, write and read-back under the lock.                         *)
LEMMA SaveSound ==
  ASSUME Owned, Sound, NEW p \in Proc, Check(p) \/ Write(p) \/ ReadBack(p) PROVE Sound'
<1> USE DEF Owned, LockTyped, Goto
<1>1. CASE Check(p)
  BY <1>1 DEF Check, AsExpected, Sound, RunTyped, Acquiring, Prepared
<1>2. CASE Write(p)
  <2>1. \A q \in Proc \ {p} : at'[q] = at[q] /\ at[q] \notin {"write", "readback"}
    BY <1>2, WriterAlone DEF Write, Saving
  <2>2. Fits(run[p].next, run[p].job)
    BY <1>2 DEF Write, Sound, Prepared
  <2>3. state' \in State
    BY <1>2, <2>2 DEF Write, Fits
  <2> QED
    BY <1>2, <2>1, <2>2, <2>3 DEF Write, Sound, RunTyped, Acquiring
<1>3. CASE ReadBack(p)
  <2>1. Fits(state, run[p].job)
    BY <1>3 DEF ReadBack, Sound
  <2>2. at'[p] = "saved" /\ state' = state
    BY <1>3 DEF ReadBack
  <2>3. run'[p].job = run[p].job /\ run'[p].expected = state
    BY <1>3 DEF ReadBack, Sound, RunTyped
  <2>4. \A q \in Proc \ {p} : run'[q] = run[q] /\ at'[q] = at[q]
    BY <1>3 DEF ReadBack, Sound, RunTyped
  <2>5. RunTyped'
    BY <1>3 DEF ReadBack, Sound, RunTyped
  <2> QED
    BY <2>1, <2>2, <2>3, <2>4, <2>5 DEF Sound, Acquiring
<1> QED
  BY <1>1, <1>2, <1>3

(* After the release the run goes on, returns or ends.                     *)
LEMMA ProceedSound ==
  ASSUME Owned, Sound, NEW p \in Proc, Proceed(p), UNCHANGED state PROVE Sound'
<1> USE DEF Owned, LockTyped, Goto
<1>1. Idle \in [job : Job, expected : State \cup {NoState}, next : State \cup {NoState}]
  BY DEF Idle, Unread, Sound, RunTyped
<1>2. CASE at' = [at EXCEPT ![p] = "execute"]
  <2>1. at[p] = "saved" /\ ~Passed(run[p].expected) /\ run' = run
    BY <1>2 DEF Proceed
  <2>2. Fits(run[p].expected, run[p].job)
    BY <2>1 DEF Sound
  <2>3. Len(run[p].expected.done) < Units
    <3>1. run[p].expected \in State /\ run[p].expected # NoState
      BY <2>2, CheckpointAssumption DEF Fits
    <3> QED
      BY <2>1, <3>1, StateFacts, CheckpointAssumption DEF Passed
  <2> QED
    BY <1>2, <2>1, <2>2, <2>3 DEF Sound, RunTyped, Acquiring
<1>3. CASE at' \in {[at EXCEPT ![p] = "dead"], [at EXCEPT ![p] = "out"]} /\ run' = [run EXCEPT ![p] = Idle]
  BY <1>1, <1>3 DEF Sound, RunTyped, Acquiring
<1> QED
  BY <1>2, <1>3 DEF Proceed

(* Every step keeps Sound.                                                 *)
LEMMA SoundStep == Owned /\ Sound /\ [Next]_vars => Sound'
<1> SUFFICES ASSUME Owned, Sound, [Next]_vars PROVE Sound'
  OBVIOUS
<1>1. ASSUME NEW p \in Proc, Fail(p) PROVE Sound'
  <2>1. CASE AcquireFails(p) /\ Keep(p) /\ UNCHANGED state
    BY <2>1, AcquireGoes, SoundKept
  <2>2. CASE at[p] \in {"read", "execute"} /\ Goto(p, "dead") /\ Keep(p) /\ UNCHANGED state
    BY <2>2, SoundKept
  <2>3. CASE at[p] \in {"held", "write", "readback"} /\ Goto(p, "failed") /\ UNCHANGED <<state, run>>
    <3>1. Keep(p)
      BY <2>3 DEF Keep, Goto, Owned, LockTyped
    <3> QED
      BY <2>3, <3>1, SoundKept
  <2>4. CASE Proceed(p) /\ UNCHANGED state
    BY <2>4, ProceedSound
  <2> QED
    BY <1>1, <2>1, <2>2, <2>3, <2>4 DEF Fail
<1>2. ASSUME NEW p \in Proc, Crash(p) PROVE Sound'
  BY <1>2, SoundKept DEF Crash, Die, Decide
<1>3. ASSUME NEW p \in Proc, Acquire(p), Keep(p), UNCHANGED state PROVE Sound'
  BY <1>3, AcquireGoes, SoundKept
<1>4. ASSUME NEW p \in Proc, Exit(p), Keep(p), UNCHANGED state PROVE Sound'
  BY <1>4, SoundKept DEF Exit
<1>5. ASSUME NEW p \in Proc, Release(p) PROVE Sound'
  BY <1>5, ProceedSound DEF Release
<1>6. CASE UNCHANGED <<at, state, run>>
  BY <1>6 DEF Sound, RunTyped
<1> QED
  BY <1>1, <1>2, <1>3, <1>4, <1>5, <1>6, RunSound, ReadSound, ExecuteSound, SaveSound
  DEF Next, Step, TimePasses, FiveMinutesPass, vars, lockVars

(* Owned and Sound hold as long as there is one sweeper at a time.         *)
LEMMA SoundInvariant == Spec /\ []OneSweeper => [](Owned /\ Sound)
<1>1. Init => Sound
  BY CheckpointAssumption DEF Init, LockInit, Sound, RunTyped, Idle, Unread, Acquiring
<1> QED
  BY OwnedInvariant, SoundStep, <1>1, PTL DEF Spec

(* In a behaviour in which no two calls remove an abandoned recovery file  *)
(* at once, every variable keeps its type, and a run has what it saves and *)
(* a unit left to execute, for any processes, units and versions.          *)
THEOREM TypeCorrectIfOneSweeper == Spec /\ []OneSweeper => []TypeOK
<1>1. Owned /\ Sound => TypeOK
  BY DEF Owned, Sound, RunTyped, Prepared, Fits, TypeOK
<1> QED
  BY <1>1, SoundInvariant, PTL

(* In a behaviour in which no two calls remove an abandoned recovery file  *)
(* at once, a save drops only results from the first unit on that does not *)
(* match the writer's job, however calls for other jobs come in between.   *)
(* Two sweepers let two writers overlap, and one then drops results of the *)
(* other that its job matches.                                             *)
THEOREM SuffixOnlyIfOneSweeper == Spec /\ []OneSweeper => OnlySuffixDropped
<1> DEFINE Drops(p) ==
      LET j == run[p].job IN
      /\ at[p] = "write" /\ state'.input = j.input
      /\ Len(Reusable(state', j)) = Len(state'.done)
      /\ IsPrefix(Reusable(state, j), state'.done)
<1>1. ASSUME Sound, Next, state' # state PROVE \E p \in Proc : Drops(p)
  <2>1. PICK p \in Proc : Write(p)
    BY <1>1 DEF Next, Step, Fail, Crash, Run, TimePasses, Read, Execute, Check, ReadBack, Release
  <2>2. /\ run[p].job \in Job /\ Fits(run[p].next, run[p].job)
        /\ IsPrefix(Reusable(run[p].expected, run[p].job), run[p].next.done)
        /\ state = run[p].expected /\ state' = run[p].next /\ at[p] = "write"
    BY <1>1, <2>1 DEF Write, Sound, RunTyped, Prepared
  <2>3. Reusable(run[p].next, run[p].job) = run[p].next.done
    BY <2>2, FitsReusable
  <2>4. Drops(p)
    BY <2>2, <2>3 DEF Fits
  <2> QED
    BY <2>4
<1>2. Sound /\ [Next]_vars => [state' # state => \E p \in Proc : Drops(p)]_vars
  BY <1>1 DEF vars
<1> QED
  BY <1>2, SoundInvariant, PTL DEF Spec, OnlySuffixDropped
=============================================================================
