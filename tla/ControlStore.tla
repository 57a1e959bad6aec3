---------------------------- MODULE ControlStore ----------------------------
(* The control store of the requirement records                            *)
(* (requirement-record-control-store.ts).  A call appends one control      *)
(* event to a record, or reads the record authoritatively, under the       *)
(* record's lock file.  An append stages a transaction (the next and the   *)
(* previous content of every file it changes), writes the files one by     *)
(* one, renames the transaction and then replaces the commit marker.  A    *)
(* lock whose owner is dead is recovered by the next caller: forward when  *)
(* the marker names its transaction, else back to the previous content.    *)
(* Some events also change the artifact index that all records share,      *)
(* under a lock file of its own.                                           *)
(*                                                                         *)
(* A file is replaced by a rename, so a write is one step; a lock file is  *)
(* created and then filled, which are two.  A file that does not exist is  *)
(* the empty sequence.  Hashes stand for what they are computed from: the  *)
(* record is the sequence of events it was reduced from.                   *)
EXTENDS Sequences, SequencesExt

CONSTANTS
  Proc,       \* the processes that call the store
  Record,     \* the requirement records
  Event,      \* the event ids that callers name
  Indexing,   \* the events that also update the shared artifact index
  Nobody

ASSUME StoreAssumption ==
  /\ Indexing \subseteq Event
  /\ Event \cap Proc = {}
  /\ Nobody \notin Event \cup Proc \cup Record

VARIABLES
  log,        \* control-events.jsonl of each record
  record,     \* requirement-record.json: the events it was reduced from
  receipts,   \* the events that have a commit receipt
  index,      \* the shared artifact index: one entry per <<record, event>>
  lock,       \* the lock file of each record
  indexLock,  \* the lock file of the shared index
  dirs,       \* the transaction directories of each record
  marker,     \* current-commit.json: the transaction it names
  pc,         \* where each process is
  want,       \* what its call asks for: a record and an event, or to read
  tx,         \* the transaction it works on, its own or one it recovers
  base,       \* what it read before it writes: the previous content
  file,       \* the file it writes next
  outcome     \* how its call ends

files == <<log, record, receipts, index, dirs, marker>>
locks == <<lock, indexLock>>
vars == <<files, locks, pc, want, tx, base, file, outcome>>

NoTx == [rec |-> Nobody, ev |-> Nobody, pre |-> <<>>]
Free == [tx |-> NoTx, owner |-> Nobody, written |-> FALSE]
NoBase == [log |-> <<>>, record |-> <<>>, index |-> <<>>]
NoWant == [rec |-> Nobody, ev |-> Nobody]

(* transactionId: the event, and the record as it was before the lock.  A  *)
(* reader draws its lease id at random; no two processes share one.        *)
Transaction(r, e, pre) == [rec |-> r, ev |-> e, pre |-> pre]
Lease(p, r) == [rec |-> r, ev |-> p, pre |-> <<>>]

Rec(p) == want[p].rec
Reading(p) == want[p].ev = Nobody
Indexes(t) == t.ev \in Indexing

(* The order in which files are promoted and materialized, and the one in  *)
(* which they are restored.                                                *)
Forth == [log |-> "record", record |-> "receipt", receipt |-> "index", index |-> "end"]
Back == [record |-> "log", log |-> "receipt", receipt |-> "index", index |-> "end"]

Owned(l, t) == l.written /\ l.tx = t
OwnsIndex(t) == Indexes(t) => Owned(indexLock, t)
OwnsLocks(p) == Owned(lock[Rec(p)], tx[p]) /\ OwnsIndex(tx[p])
Stale(r) == lock[r].written /\ lock[r].owner = Nobody

Init ==
  /\ log = [r \in Record |-> <<>>]
  /\ record = [r \in Record |-> <<>>]
  /\ receipts = [r \in Record |-> {}]
  /\ index = <<>>
  /\ lock = [r \in Record |-> Free]
  /\ indexLock = Free
  /\ dirs = [r \in Record |-> {}]
  /\ marker = [r \in Record |-> NoTx]
  /\ pc = [p \in Proc |-> "idle"]
  /\ want = [p \in Proc |-> NoWant]
  /\ tx = [p \in Proc |-> NoTx]
  /\ base = [p \in Proc |-> NoBase]
  /\ file = [p \in Proc |-> "end"]
  /\ outcome = [p \in Proc |-> "none"]

Goto(p, to) == pc' = [pc EXCEPT ![p] = to]
Throw(p, to) == Goto(p, to) /\ outcome' = [outcome EXCEPT ![p] = "error"]

(***************************************************************************)
(* The steps of a call.                                                    *)
(***************************************************************************)

(* appendControlEventAndReplay names an event, the authoritative read none.*)
Ask(p, r, e) ==
  /\ pc[p] = "idle"
  /\ want' = [want EXCEPT ![p] = [rec |-> r, ev |-> e]]
  /\ Goto(p, "look")
  /\ UNCHANGED <<files, locks, tx, base, file, outcome>>
Call(p) == \E r \in Record, e \in Event \cup {Nobody} : Ask(p, r, e)

(* recoverControlStore: a lock that is absent, not readable or of a living *)
(* process is left alone.                                                  *)
Look(p) ==
  /\ pc[p] = "look"
  /\ IF Stale(Rec(p))
       THEN Goto(p, "inspect") /\ tx' = [tx EXCEPT ![p] = lock[Rec(p)].tx]
       ELSE Goto(p, "before") /\ UNCHANGED tx
  /\ UNCHANGED <<files, locks, want, base, file, outcome>>

Dirs(r, t) == {d \in dirs[r] : d.tx = t}
(* A promoted directory is preferred to a staging one.                     *)
RecoveryDirs(r, t) ==
  LET promoted == {d \in Dirs(r, t) : d.promoted}
  IN IF promoted # {} THEN promoted ELSE Dirs(r, t)

(* The owner died before it made a directory, or there is none any more.   *)
NeverNothing(p) == FALSE
NothingToRecover(p) ==
  marker[Rec(p)] # tx[p] /\ RecoveryDirs(Rec(p), tx[p]) = {}

(* Which way to recover.  A directory without manifest, and an index lock  *)
(* that is not the transaction's any more, make every recovery throw.      *)
Inspect(p) ==
  LET found == RecoveryDirs(Rec(p), tx[p])
      forward == marker[Rec(p)] = tx[p]
  IN
  /\ pc[p] = "inspect"
  /\ IF NothingToRecover(p)
       THEN Goto(p, "freeIndex") /\ UNCHANGED <<base, file, outcome>>
     ELSE IF found = {} \/ (\E d \in found : ~d.whole) \/ ~OwnsIndex(tx[p])
       THEN Throw(p, "return") /\ UNCHANGED <<base, file>>
     ELSE /\ \E d \in found :
               base' = [base EXCEPT ![p] = [log |-> d.log, record |-> d.tx.pre, index |-> d.index]]
          /\ Goto(p, IF forward THEN "redo" ELSE "undo")
          /\ file' = [file EXCEPT ![p] = IF forward THEN "log" ELSE "record"]
          /\ UNCHANGED outcome
  /\ UNCHANGED <<files, locks, want, tx>>

(* The next and the previous content of one file of p's transaction.       *)
WriteNext(p, f) ==
  LET r == tx[p].rec
      e == tx[p].ev
  IN /\ log' = IF f = "log" THEN [log EXCEPT ![r] = Append(base[p].log, e)] ELSE log
     /\ record' = IF f = "record" THEN [record EXCEPT ![r] = Append(base[p].record, e)] ELSE record
     /\ receipts' = IF f = "receipt" THEN [receipts EXCEPT ![r] = @ \cup {e}] ELSE receipts
     /\ index' = IF f = "index" /\ Indexes(tx[p])
                   THEN Append(base[p].index, <<r, e>>) ELSE index
WritePrevious(p, f) ==
  LET r == tx[p].rec
      e == tx[p].ev
  IN /\ log' = IF f = "log" THEN [log EXCEPT ![r] = base[p].log] ELSE log
     /\ record' = IF f = "record" THEN [record EXCEPT ![r] = base[p].record] ELSE record
     /\ receipts' = IF f = "receipt" THEN [receipts EXCEPT ![r] = @ \ {e}] ELSE receipts
     /\ index' = IF f = "index" /\ Indexes(tx[p]) THEN base[p].index ELSE index

Advance(p, order, then) ==
  /\ file' = [file EXCEPT ![p] = order[@]]
  /\ IF order[file[p]] = "end" THEN Goto(p, then) ELSE UNCHANGED pc

(* materializeTransactionSnapshot                                          *)
Redo(p) ==
  /\ pc[p] = "redo"
  /\ WriteNext(p, file[p])
  /\ Advance(p, Forth, "settle")
  /\ UNCHANGED <<dirs, marker, locks, want, tx, base, outcome>>

(* restorePreviousTransactionSnapshot reads the previous content from the  *)
(* directory as it writes.  Where another process has removed it in the    *)
(* meantime, the log is removed like one that did not exist before.        *)
Undo(p) ==
  LET kept == \E d \in Dirs(Rec(p), tx[p]) : d.whole IN
  /\ pc[p] = "undo"
  /\ IF kept \/ file[p] = "receipt"
       THEN /\ WritePrevious(p, file[p])
            /\ Advance(p, Back, "clear")
            /\ UNCHANGED outcome
     ELSE IF file[p] = "log"
       THEN /\ log' = [log EXCEPT ![Rec(p)] = <<>>]
            /\ Advance(p, Back, "clear")
            /\ UNCHANGED <<record, receipts, index, outcome>>
     ELSE Throw(p, "return") /\ UNCHANGED <<log, record, receipts, index, file>>
  /\ UNCHANGED <<dirs, marker, locks, want, tx, base>>

(* Removing a directory is not one step: the manifest goes before it.      *)
RemoveDir(p, old, then) ==
  \/ /\ \E d \in old : d.whole
     /\ dirs' = [dirs EXCEPT ![Rec(p)] = (@ \ old) \cup {[d EXCEPT !.whole = FALSE] : d \in old}]
     /\ UNCHANGED pc
  \/ /\ \A d \in old : ~d.whole
     /\ dirs' = [dirs EXCEPT ![Rec(p)] = @ \ old]
     /\ Goto(p, then)

Clear(p) ==
  /\ pc[p] = "clear"
  /\ RemoveDir(p, RecoveryDirs(Rec(p), tx[p]), "settle")
  /\ UNCHANGED <<log, record, receipts, index, marker, locks, want, tx, base, file, outcome>>

(* releaseArtifactIndexLocks, releaseControlStoreLock: remove the file if  *)
(* it names the transaction.                                               *)
ReleaseIndexOfAnybody(t) == indexLock' = IF Indexes(t) THEN Free ELSE indexLock
ReleaseIndex(t) == indexLock' = IF Indexes(t) /\ Owned(indexLock, t) THEN Free ELSE indexLock
ReleaseLock(r, t) == lock' = IF Owned(lock[r], t) THEN [lock EXCEPT ![r] = Free] ELSE lock

FreeIndex(p) ==
  /\ pc[p] \in {"settle", "freeIndex"}
  /\ IF pc[p] = "settle" /\ ~OwnsIndex(tx[p])
       THEN Throw(p, "return") /\ UNCHANGED indexLock
       ELSE ReleaseIndex(tx[p]) /\ Goto(p, "freeLock") /\ UNCHANGED outcome
  /\ UNCHANGED <<files, lock, want, tx, base, file>>
FreeLock(p) ==
  /\ pc[p] = "freeLock"
  /\ ReleaseLock(Rec(p), tx[p])
  /\ Goto(p, "before")
  /\ tx' = [tx EXCEPT ![p] = NoTx]
  /\ base' = [base EXCEPT ![p] = NoBase]
  /\ UNCHANGED <<files, indexLock, want, file, outcome>>

(* assertControlStoreLockAvailable, then the record is read: its hash goes *)
(* into the transaction's id.                                              *)
Before(p) ==
  /\ pc[p] = "before"
  /\ IF lock[Rec(p)] = Free
       THEN /\ tx' = [tx EXCEPT ![p] =
                        IF Reading(p) THEN Lease(p, Rec(p))
                        ELSE Transaction(Rec(p), want[p].ev, record[Rec(p)])]
            /\ Goto(p, "open")
            /\ UNCHANGED outcome
       ELSE Throw(p, "return") /\ UNCHANGED tx
  /\ UNCHANGED <<files, locks, want, base, file>>

(* acquireControlStoreLock, acquireArtifactIndexLocks: the lock file is    *)
(* created exclusively, then filled.                                       *)
Open(p) ==
  /\ pc[p] = "open"
  /\ IF lock[Rec(p)] = Free
       THEN /\ lock' = [lock EXCEPT ![Rec(p)] = [tx |-> tx[p], owner |-> p, written |-> FALSE]]
            /\ Goto(p, "fill")
            /\ UNCHANGED outcome
       ELSE Throw(p, "return") /\ UNCHANGED lock
  /\ UNCHANGED <<files, indexLock, want, tx, base, file>>
FillForAppend(p) ==
  /\ pc[p] = "fill"
  /\ lock' = [lock EXCEPT ![Rec(p)].written = TRUE]
  /\ Goto(p, IF Indexes(tx[p]) THEN "openIndex" ELSE "compare")
  /\ UNCHANGED <<files, indexLock, want, tx, base, file, outcome>>
Fill(p) ==
  /\ pc[p] = "fill"
  /\ lock' = [lock EXCEPT ![Rec(p)].written = TRUE]
  /\ Goto(p, IF Reading(p) THEN "read" ELSE IF Indexes(tx[p]) THEN "openIndex" ELSE "compare")
  /\ UNCHANGED <<files, indexLock, want, tx, base, file, outcome>>
OpenIndex(p) ==
  /\ pc[p] = "openIndex"
  /\ IF indexLock = Free
       THEN /\ indexLock' = [tx |-> tx[p], owner |-> p, written |-> FALSE]
            /\ Goto(p, "fillIndex")
            /\ UNCHANGED outcome
       ELSE Throw(p, "release") /\ UNCHANGED indexLock
  /\ UNCHANGED <<files, lock, want, tx, base, file>>
FillIndex(p) ==
  /\ pc[p] = "fillIndex"
  /\ indexLock' = [indexLock EXCEPT !.written = TRUE]
  /\ Goto(p, "compare")
  /\ UNCHANGED <<files, lock, want, tx, base, file, outcome>>

(* readControlStoreAuthoritatively: the caller's reads, inside the lock.   *)
(* The marker is compared before and after them only to repeat reads that  *)
(* a commit ran through, which the lock keeps out: left out here.          *)
ReadRecord(p) ==
  /\ pc[p] = "read"
  /\ base' = [base EXCEPT ![p].record = record[Rec(p)]]
  /\ Goto(p, "readLog")
  /\ UNCHANGED <<files, locks, want, tx, file, outcome>>
ReadLog(p) ==
  /\ pc[p] = "readLog"
  /\ base' = [base EXCEPT ![p].log = log[Rec(p)]]
  /\ Goto(p, "release")
  /\ outcome' = [outcome EXCEPT ![p] = "ok"]
  /\ UNCHANGED <<files, locks, want, tx, file>>

(* Under the locks: the record must still be what the transaction's id was *)
(* computed from, the event new, and no directory of the transaction may   *)
(* exist; a staging one is removed on the way out.  Then the staging       *)
(* directory is made, without its manifest yet.                            *)
Staging(t, log0, index0, whole) ==
  [tx |-> t, promoted |-> FALSE, whole |-> whole, log |-> log0, index |-> index0]

SeenEvent(p) == tx[p].ev \in ToSet(log[Rec(p)]) \cup receipts[Rec(p)]
Superseded(p) == record[Rec(p)] # tx[p].pre \/ SeenEvent(p)

Compare(p) ==
  LET r == Rec(p) IN
  /\ pc[p] = "compare"
  /\ IF Superseded(p)
       THEN Throw(p, "release") /\ UNCHANGED <<dirs, base>>
     ELSE IF Dirs(r, tx[p]) # {}
       THEN Throw(p, "dropStaging") /\ UNCHANGED <<dirs, base>>
     ELSE /\ base' = [base EXCEPT ![p] = [log |-> log[r], record |-> record[r], index |-> index]]
          /\ dirs' = [dirs EXCEPT ![r] = @ \cup {Staging(tx[p], log[r], index, FALSE)}]
          /\ Goto(p, "stage")
          /\ UNCHANGED outcome
  /\ UNCHANGED <<log, record, receipts, index, marker, locks, want, tx, file>>

StageWithoutManifest(p) ==
  /\ pc[p] = "stage" /\ OwnsLocks(p)
  /\ Goto(p, "promote") /\ file' = [file EXCEPT ![p] = "log"]
  /\ UNCHANGED <<files, locks, want, tx, base, outcome>>

(* The manifest completes the directory; then, at the first boundary, the  *)
(* locks must be owned.                                                    *)
Stage(p) ==
  LET half == {d \in Dirs(Rec(p), tx[p]) : ~d.promoted} IN
  /\ pc[p] = "stage"
  /\ dirs' = [dirs EXCEPT ![Rec(p)] =
                (@ \ half) \cup {Staging(tx[p], base[p].log, base[p].index, TRUE)}]
  /\ IF OwnsLocks(p)
       THEN Goto(p, "promote") /\ file' = [file EXCEPT ![p] = "log"] /\ UNCHANGED outcome
       ELSE Throw(p, "dropStaging") /\ UNCHANGED file
  /\ UNCHANGED <<log, record, receipts, index, marker, locks, want, tx, base>>

(* An error between the first file and the marker: restore() with what was *)
(* read before, whoever owns the locks by now.                             *)
UndoneUnrestored(p) ==
  /\ Throw(p, "dropPromoted")
  /\ file' = [file EXCEPT ![p] = "record"]
Undone(p) ==
  /\ Throw(p, "rollback")
  /\ file' = [file EXCEPT ![p] = "record"]

Promote(p) ==
  /\ pc[p] = "promote"
  /\ IF OwnsLocks(p)
       THEN WriteNext(p, file[p]) /\ Advance(p, Forth, "rename") /\ UNCHANGED outcome
       ELSE Undone(p) /\ UNCHANGED <<log, record, receipts, index>>
  /\ UNCHANGED <<dirs, marker, locks, want, tx, base>>

(* The files are read back before the directory is renamed.                *)
ReadBack(p) ==
  LET r == Rec(p) e == tx[p].ev IN
  /\ log[r] # <<>> /\ Last(log[r]) = e
  /\ record[r] # <<>> /\ Last(record[r]) = e
  /\ e \in receipts[r]
  /\ Indexes(tx[p]) => index = Append(base[p].index, <<r, e>>)

Rename(p) ==
  LET staged == {d \in Dirs(Rec(p), tx[p]) : ~d.promoted} IN
  /\ pc[p] = "rename"
  /\ IF ReadBack(p) /\ OwnsLocks(p)
       THEN /\ dirs' = [dirs EXCEPT ![Rec(p)] =
                          (@ \ staged) \cup {[d EXCEPT !.promoted = TRUE] : d \in staged}]
            /\ Goto(p, "mark")
            /\ UNCHANGED <<file, outcome>>
       ELSE Undone(p) /\ UNCHANGED dirs
  /\ UNCHANGED <<log, record, receipts, index, marker, locks, want, tx, base>>

(* The commit: current-commit.json names the transaction from here on.     *)
Mark(p) ==
  /\ pc[p] = "mark"
  /\ IF OwnsLocks(p)
       THEN /\ marker' = [marker EXCEPT ![Rec(p)] = tx[p]]
            /\ Goto(p, "release")
            /\ outcome' = [outcome EXCEPT ![p] = "ok"]
            /\ UNCHANGED file
       ELSE Undone(p) /\ UNCHANGED marker
  /\ UNCHANGED <<log, record, receipts, index, dirs, locks, want, tx, base>>

Rollback(p) ==
  /\ pc[p] = "rollback"
  /\ WritePrevious(p, file[p])
  /\ Advance(p, Back, "dropPromoted")
  /\ UNCHANGED <<dirs, marker, locks, want, tx, base, outcome>>

DropPromoted(p) ==
  /\ pc[p] = "dropPromoted"
  /\ RemoveDir(p, {d \in Dirs(Rec(p), tx[p]) : d.promoted}, "dropStaging")
  /\ UNCHANGED <<log, record, receipts, index, marker, locks, want, tx, base, file, outcome>>
DropStaging(p) ==
  /\ pc[p] = "dropStaging"
  /\ RemoveDir(p, {d \in Dirs(Rec(p), tx[p]) : ~d.promoted}, "release")
  /\ UNCHANGED <<log, record, receipts, index, marker, locks, want, tx, base, file, outcome>>

(* The finally block: the index lock first, then the record's.             *)
Release(p) ==
  /\ pc[p] = "release"
  /\ ReleaseIndex(tx[p])
  /\ Goto(p, "releaseLock")
  /\ UNCHANGED <<files, lock, want, tx, base, file, outcome>>
ReleaseOwn(p) ==
  /\ pc[p] = "releaseLock"
  /\ ReleaseLock(Rec(p), tx[p])
  /\ Goto(p, "return")
  /\ UNCHANGED <<files, indexLock, want, tx, base, file, outcome>>

Reset(p) ==
  /\ Goto(p, "idle")
  /\ want' = [want EXCEPT ![p] = NoWant]
  /\ tx' = [tx EXCEPT ![p] = NoTx]
  /\ base' = [base EXCEPT ![p] = NoBase]
  /\ file' = [file EXCEPT ![p] = "end"]
  /\ outcome' = [outcome EXCEPT ![p] = "none"]
Return(p) == pc[p] = "return" /\ Reset(p) /\ UNCHANGED <<files, locks>>

(***************************************************************************)
(* What can go wrong: a call to the file system fails, a process dies.     *)
(***************************************************************************)

(* An error goes to the handler of the step it interrupts; a lock file     *)
(* that could not be filled stays behind, created and empty.  After the    *)
(* marker it no longer undoes anything, but it is still answered.  An      *)
(* error while an error is being handled is not modelled.                  *)
Fail(p) ==
  /\ \/ pc[p] \in {"look", "inspect", "redo", "undo", "clear", "settle", "freeIndex",
                   "freeLock", "before", "open", "fill"} /\ Throw(p, "return") /\ UNCHANGED file
     \/ pc[p] \in {"openIndex", "fillIndex", "compare", "read", "readLog"} /\ Throw(p, "release")
                                                         /\ UNCHANGED file
     \/ pc[p] = "stage" /\ Throw(p, "dropStaging") /\ UNCHANGED file
     \/ pc[p] \in {"promote", "rename", "mark"} /\ Undone(p)
     \/ pc[p] = "release" /\ outcome[p] = "ok" /\ ~Reading(p) /\ Throw(p, "release")
                                                          /\ UNCHANGED file
  /\ UNCHANGED <<files, locks, want, tx, base>>

(* The process that crashes is dead for ever, and what it locked is owned  *)
(* by nobody alive; the one that is started after it has a pid of its own. *)
Orphan(l, p) == IF l.owner = p THEN [l EXCEPT !.owner = Nobody] ELSE l
Crash(p) ==
  /\ pc[p] # "idle"
  /\ lock' = [r \in Record |-> Orphan(lock[r], p)]
  /\ indexLock' = Orphan(indexLock, p)
  /\ Reset(p)
  /\ UNCHANGED files

Recover(p) ==
  Look(p) \/ Inspect(p) \/ Redo(p) \/ Undo(p) \/ Clear(p) \/ FreeIndex(p) \/ FreeLock(p)
Acquire(p) == Before(p) \/ Open(p) \/ Fill(p) \/ OpenIndex(p) \/ FillIndex(p)
Commit(p) ==
  \/ Compare(p) \/ Stage(p) \/ Promote(p) \/ Rename(p) \/ Mark(p)
  \/ Rollback(p) \/ DropPromoted(p) \/ DropStaging(p)
Step(p) ==
  \/ Recover(p) \/ Acquire(p) \/ Commit(p)
  \/ ReadRecord(p) \/ ReadLog(p) \/ Release(p) \/ ReleaseOwn(p) \/ Return(p)

Next == \E p \in Proc : Call(p) \/ Step(p) \/ Fail(p) \/ Crash(p)

Spec == Init /\ [][Next]_vars

(* The code keeps neither of these from happening.  Two processes may      *)
(* recover a dead owner's transaction at the same time, each from what it  *)
(* read first.  And two calls that ask for the same event, computed from   *)
(* the same record, draw the same transaction id: when the later one dies  *)
(* with the lock, the earlier one's directory is taken for its own.  The   *)
(* properties are about behaviours that happen to keep calls apart: they   *)
(* assume Serial, or Serial and NoTwins, and fail without it.              *)
Recovery == {"inspect", "redo", "undo", "clear", "settle", "freeIndex", "freeLock"}
Recovering(p) == pc[p] \in Recovery
Serial ==
  \A p, q \in Proc : p # q /\ Recovering(p) /\ Recovering(q) => Rec(p) # Rec(q)
NoTwins ==
  \A p, q \in Proc : p # q /\ want[p].ev \in Event => want[p] # want[q]

(***************************************************************************)
(* Properties.                                                             *)
(***************************************************************************)

Tx == [rec : Record \cup {Nobody}, ev : Event \cup Proc \cup {Nobody}, pre : Seq(Event)]
LockFile == [tx : Tx, owner : Proc \cup {Nobody}, written : BOOLEAN]
Entry == Record \X Event
Dir == [tx : Tx, promoted : BOOLEAN, whole : BOOLEAN, log : Seq(Event), index : Seq(Entry)]
Location ==
  {"idle", "look", "before", "open", "fill", "openIndex", "fillIndex", "read", "readLog",
   "compare", "stage", "promote", "rename", "mark", "rollback", "dropPromoted",
   "dropStaging", "release", "releaseLock", "return"} \cup Recovery
Outcome == {"none", "ok", "error"}
FileName == {"log", "record", "receipt", "index", "end"}

TypeOK ==
  /\ log \in [Record -> Seq(Event)]
  /\ record \in [Record -> Seq(Event)]
  /\ receipts \in [Record -> SUBSET Event]
  /\ index \in Seq(Entry)
  /\ lock \in [Record -> LockFile] /\ indexLock \in LockFile
  /\ dirs \in [Record -> SUBSET Dir]
  /\ marker \in [Record -> Tx]
  /\ pc \in [Proc -> Location]
  /\ want \in [Proc -> [rec : Record \cup {Nobody}, ev : Event \cup {Nobody}]]
  /\ tx \in [Proc -> Tx]
  /\ base \in [Proc -> [log : Seq(Event), record : Seq(Event), index : Seq(Entry)]]
  /\ file \in [Proc -> FileName]
  /\ outcome \in [Proc -> Outcome]

(* The log of events the marker stands for.                                *)
Committed(r) ==
  IF marker[r] = NoTx THEN <<>> ELSE Append(marker[r].pre, marker[r].ev)

Settled(r) ==
  /\ log[r] = Committed(r)
  /\ record[r] = Committed(r)
  /\ receipts[r] = ToSet(Committed(r))

(* A record that nobody has locked is in a committed state: its log, its   *)
(* record and its receipts agree, whatever crashed or failed before.       *)
FreeIsSettled == \A r \in Record : lock[r] = Free => Settled(r)

(* The shared index that nobody has locked has one entry for each          *)
(* committed event that indexes, of all the records.                       *)
Complete(idx) ==
  /\ ToSet(idx) = {t \in Record \X Indexing : t[2] \in ToSet(Committed(t[1]))}
  /\ \A i, j \in DOMAIN idx : idx[i] = idx[j] => i = j
IndexComplete == indexLock = Free => Complete(index)

(* Files that a dead owner left between two states can be recovered: the   *)
(* transaction's directory is complete and its index lock is its own.      *)
TornIsRecoverable ==
  \A r \in Record : Stale(r) /\ ~Settled(r) =>
    /\ \E d \in RecoveryDirs(r, lock[r].tx) : d.whole
    /\ OwnsIndex(lock[r].tx)

(* The lock states that no recovery ends: a lock file created and never    *)
(* filled, a transaction directory without its manifest, and a committed   *)
(* transaction whose index lock was released before the owner died.        *)
Stuck(r) ==
  \/ lock[r] # Free /\ ~lock[r].written /\ (lock[r].owner # Nobody => pc[lock[r].owner] # "fill")
  \/ Stale(r) /\ \E d \in RecoveryDirs(r, lock[r].tx) : ~d.whole \/ ~OwnsIndex(lock[r].tx)

(* The control store implements the promise of ControlLog: an append takes *)
(* effect when the marker is replaced, a read sees what was committed.     *)
CallOf(p) ==
  [phase |-> CASE pc[p] = "idle" -> "idle"
               [] outcome[p] = "ok" -> "done"
               [] outcome[p] = "error" -> "failed"
               [] OTHER -> "asked",
   rec |-> want[p].rec, ev |-> want[p].ev,
   value |-> IF ~Reading(p) \/ outcome[p] # "ok" THEN <<>>
             ELSE IF base[p].log = base[p].record THEN base[p].log
             ELSE Append(base[p].log, Nobody)]
Promise == INSTANCE ControlLog
  WITH log <- [r \in Record |-> Committed(r)], call <- [p \in Proc |-> CallOf(p)]
LogSpec == Promise!Spec
=============================================================================
