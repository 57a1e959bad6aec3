------------------------ MODULE RequirementsFileLock ------------------------
(* The lock file of requirements-contract-file-lock.ts, taken with an      *)
(* exclusive create and never waited for: a call that finds it taken ends  *)
(* with the caller's busy code, unless the file is abandoned; an error     *)
(* that nobody catches, as that one, ends the process.  Whoever takes over *)
(* an abandoned lock file first creates a recovery file, and nobody opens  *)
(* the lock while there is one.                                            *)
(*                                                                         *)
(* A file holds the process that created it, the instant its acquire began *)
(* and a token of the acquire; between the create and the write it holds   *)
(* nothing and only the time of its creation tells its age.  A process has *)
(* at most one lock file of one acquire, so the process stands for the     *)
(* token.  A module that extends this one is the user of the lock: it      *)
(* starts an acquire with Enter, goes on from "held", and calls Unlock.    *)
EXTENDS Naturals

CONSTANTS
  Proc,     \* process ids, of processes that run or may be started
  NoFile    \* no file, or nothing seen

File == [by : Proc, filled : BOOLEAN, old : BOOLEAN]
ASSUME FileLockAssumption == NoFile \notin File

VARIABLES
  lock,       \* the lock file; old is one of an acquire begun five minutes ago
  recovery,   \* the recovery file beside it
  seen,       \* the abandoned file a process has decided to remove
  at          \* where each process is

lockVars == <<lock, recovery, seen, at>>
files == <<lock, recovery>>

Empty(p) == [by |-> p, filled |-> FALSE, old |-> FALSE]
Signed(p) == [by |-> p, filled |-> TRUE, old |-> FALSE]
Own(p, f) == f # NoFile /\ f.by = p /\ f.filled

LockInit ==
  /\ lock = NoFile /\ recovery = NoFile
  /\ seen = [p \in Proc |-> NoFile]
  /\ at = [p \in Proc |-> "dead"]

(* abandonedOwner.  An unfilled file is malformed and is judged by its age *)
(* alone.                                                                  *)
AbandonedByAge(f) == f # NoFile /\ f.old
Abandoned(f) == f # NoFile /\ f.old /\ (f.filled => at[f.by] = "dead")

Goto(p, to) == at' = [at EXCEPT ![p] = to]
Decide(p, f, to) == seen' = [seen EXCEPT ![p] = f] /\ Goto(p, to)

(***************************************************************************)
(* acquireRequirementsFileLock.                                            *)
(***************************************************************************)

Enter(p) == Goto(p, "look")

(* open(): an abandoned recovery file is compared with what was just seen  *)
(* of it and removed, any other refuses the call.                          *)
NeverSweeps(p) ==
  /\ at[p] = "look"
  /\ Goto(p, IF recovery = NoFile THEN "open" ELSE "dead")
  /\ UNCHANGED <<files, seen>>
Look(p) ==
  /\ at[p] = "look"
  /\ \/ recovery = NoFile /\ Goto(p, "open") /\ UNCHANGED seen
     \/ Abandoned(recovery) /\ Decide(p, recovery, "sweep")
     \/ recovery # NoFile /\ ~Abandoned(recovery) /\ Goto(p, "dead") /\ UNCHANGED seen
  /\ UNCHANGED files
Sweep(p) ==
  \/ /\ at[p] = "sweep"
     /\ IF recovery = seen[p] THEN Goto(p, "clear") ELSE Goto(p, "dead")
     /\ UNCHANGED <<files, seen>>
  \/ /\ at[p] = "clear"
     /\ recovery' = NoFile
     /\ Decide(p, NoFile, IF recovery = NoFile THEN "dead" ELSE "open")
     /\ UNCHANGED lock

Open(p) ==
  /\ at[p] = "open"
  /\ \/ lock = NoFile /\ lock' = Empty(p) /\ Goto(p, "fill")
     \/ lock # NoFile /\ Goto(p, "occupied") /\ UNCHANGED lock
  /\ UNCHANGED <<recovery, seen>>
Fill(p) ==
  /\ at[p] \in {"fill", "refill"}
  /\ lock' = Signed(p)
  /\ Goto(p, IF at[p] = "fill" THEN "recheck" ELSE "done")
  /\ UNCHANGED <<recovery, seen>>

(* The lock is given back when somebody has begun a recovery meanwhile.    *)
Recheck(p) ==
  /\ at[p] = "recheck"
  /\ \/ recovery = NoFile /\ Goto(p, "held") /\ UNCHANGED lock
     \/ /\ recovery # NoFile
        /\ lock' = IF Own(p, lock) THEN NoFile ELSE lock
        /\ Goto(p, "dead")
  /\ UNCHANGED <<recovery, seen>>

(* The takeover of an abandoned lock file, under the recovery file.        *)
Occupied(p) ==
  /\ at[p] = "occupied"
  /\ IF Abandoned(lock) THEN Decide(p, lock, "recover") ELSE Goto(p, "dead") /\ UNCHANGED seen
  /\ UNCHANGED files
Recover(p) ==
  \/ /\ at[p] = "recover" /\ recovery # NoFile
     /\ Decide(p, NoFile, "dead")
     /\ UNCHANGED files
  \/ /\ at[p] = "recover" /\ recovery = NoFile
     /\ recovery' = Empty(p)
     /\ Goto(p, "sign")
     /\ UNCHANGED <<lock, seen>>
  \/ /\ at[p] = "sign"
     /\ recovery' = Signed(p)
     /\ Goto(p, "compare")
     /\ UNCHANGED <<lock, seen>>
Evict(p) ==
  \/ /\ at[p] = "compare"
     /\ Goto(p, IF lock = seen[p] THEN "evict" ELSE "abort")
     /\ UNCHANGED <<files, seen>>
  \/ /\ at[p] = "evict"
     /\ lock' = NoFile
     /\ Goto(p, IF lock = NoFile THEN "abort" ELSE "reopen")
     /\ UNCHANGED <<recovery, seen>>
Reopen(p) ==
  /\ at[p] = "reopen"
  /\ \/ lock = NoFile /\ lock' = Empty(p) /\ Goto(p, "refill")
     \/ lock # NoFile /\ Goto(p, "abort") /\ UNCHANGED lock
  /\ UNCHANGED <<recovery, seen>>

(* The finally block removes the recovery file, whoever has created it.    *)
EndRecovery(p) ==
  /\ at[p] \in {"done", "abort"}
  /\ recovery' = NoFile
  /\ Decide(p, NoFile, IF at[p] = "done" THEN "held" ELSE "dead")
  /\ UNCHANGED lock

Acquire(p) ==
  \/ Look(p) \/ Sweep(p) \/ Open(p) \/ Fill(p) \/ Recheck(p)
  \/ Occupied(p) \/ Recover(p) \/ Evict(p) \/ Reopen(p) \/ EndRecovery(p)

(* releaseRequirementsFileLock.                                            *)
Unlock(p) == lock' = IF Own(p, lock) THEN NoFile ELSE lock

(***************************************************************************)
(* Errors, deaths and time.                                                *)
(***************************************************************************)

(* A file operation of the acquire throws, with what the handlers around   *)
(* it remove.                                                              *)
AcquireFails(p) ==
  \/ /\ at[p] \in {"sweep", "clear", "open", "recover"}
     /\ Decide(p, NoFile, "dead")
     /\ UNCHANGED files
  \/ /\ at[p] \in {"fill", "refill"}
     /\ lock' = NoFile
     /\ Goto(p, IF at[p] = "fill" THEN "dead" ELSE "abort")
     /\ UNCHANGED <<recovery, seen>>
  \/ /\ at[p] = "recheck" /\ recovery # NoFile
     /\ Goto(p, "dead")
     /\ UNCHANGED <<files, seen>>
  \/ /\ at[p] = "sign"
     /\ recovery' = NoFile
     /\ Decide(p, NoFile, "dead")
     /\ UNCHANGED lock
  \/ /\ at[p] \in {"compare", "evict", "reopen"}
     /\ Goto(p, "abort")
     /\ UNCHANGED <<files, seen>>
  \/ /\ at[p] \in {"done", "abort"}
     /\ Decide(p, NoFile, "dead")
     /\ UNCHANGED files

(* The process ends when it has nothing more to do, or is killed.          *)
Exit(p) == at[p] = "out" /\ Goto(p, "dead") /\ UNCHANGED <<files, seen>>
Die(p) ==
  /\ at[p] # "dead"
  /\ Decide(p, NoFile, "dead")
  /\ UNCHANGED files

(* A process that runs, or a new one that no file of a dead one mentions.  *)
Mentions(p, f) == f # NoFile /\ f.by = p
Available(p) ==
  \/ at[p] = "out"
  \/ at[p] = "dead" /\ \A f \in {lock, recovery} \cup {seen[q] : q \in Proc} : ~Mentions(p, f)

(* An acquire takes less than five minutes: they never pass during one.    *)
Acquiring ==
  {"look", "sweep", "clear", "open", "fill", "recheck", "occupied", "recover", "sign",
   "compare", "evict", "reopen", "refill", "done", "abort"}
Older(f) == IF f = NoFile THEN NoFile ELSE [f EXCEPT !.old = TRUE]
FiveMinutesPass ==
  /\ \A p \in Proc : at[p] \notin Acquiring
  /\ files # <<Older(lock), Older(recovery)>>
  /\ lock' = Older(lock) /\ recovery' = Older(recovery)
  /\ UNCHANGED <<seen, at>>

(* Two calls do not remove the same abandoned recovery file at once.  The  *)
(* code does not ensure it: what is proved and checked assumes it.         *)
OneSweeper == \A p, q \in Proc : {at[p], at[q]} \subseteq {"sweep", "clear"} => p = q
=============================================================================
