------------------------ MODULE ControlStore_proofs -------------------------
(***************************************************************************)
(* Proofs about ControlStore for any processes, records and events: its    *)
(* types and the shape of its calls and files; and that calls never hold   *)
(* the same record in a behaviour in which recoveries do not overlap,      *)
(* which nothing in the code ensures. The other proofs build on this       *)
(* module: ControlStoreRecords_proofs and ControlStorePromise_proofs.      *)
(***************************************************************************)
EXTENDS ControlStore, TLAPS

USE StoreAssumption

Appending == {"openIndex", "fillIndex", "compare", "stage", "promote", "rename", "mark",
              "rollback", "dropPromoted", "dropStaging"}
Consulting == {"read", "readLog"}
Holding == Appending \cup Consulting \cup {"fill", "release", "releaseLock"}
Writable == {"log", "record", "receipt", "index"}
CallShape(p) ==
  /\ pc[p] # "idle" => want[p].rec \in Record
  /\ pc[p] \in Holding \cup {"open"} =>
       tx[p].rec = Rec(p) /\ tx[p].ev = (IF Reading(p) THEN p ELSE want[p].ev)
  /\ pc[p] \in Appending => ~Reading(p)
  /\ pc[p] \in Consulting => Reading(p)
  /\ Recovering(p) => tx[p].rec = Rec(p) /\ tx[p].ev \in Event \cup Proc
  /\ pc[p] \in {"redo", "undo"} => tx[p].ev \in Event
  /\ pc[p] \in {"redo", "promote", "undo", "rollback"} => file[p] \in Writable
StoreShape(r) ==
  /\ \A d \in dirs[r] : d.tx.rec = r /\ d.tx.ev \in Event
  /\ marker[r] # NoTx => marker[r].rec = r /\ marker[r].ev \in Event
  /\ lock[r] # Free => lock[r].tx.rec = r /\ lock[r].tx.ev \in Event \cup Proc
Filling(p) == pc[p] = "fill" => lock[Rec(p)].owner = p /\ ~lock[Rec(p)].written
Shape ==
  /\ \A p \in Proc : CallShape(p) /\ Filling(p)
  /\ \A r \in Record : StoreShape(r)

FilesTyped ==
  /\ log \in [Record -> Seq(Event)]
  /\ record \in [Record -> Seq(Event)]
  /\ receipts \in [Record -> SUBSET Event]
  /\ index \in Seq(Entry)
DirsTyped == dirs \in [Record -> SUBSET Dir]
MarkerTyped == marker \in [Record -> Tx]
LocksTyped == lock \in [Record -> LockFile] /\ indexLock \in LockFile
Base == [log : Seq(Event), record : Seq(Event), index : Seq(Entry)]
Want == [rec : Record \cup {Nobody}, ev : Event \cup {Nobody}]
ControlTyped ==
  /\ pc \in [Proc -> Location]
  /\ file \in [Proc -> FileName]
  /\ outcome \in [Proc -> Outcome]
MemoryTyped ==
  /\ want \in [Proc -> Want]
  /\ tx \in [Proc -> Tx]
  /\ base \in [Proc -> Base]

Act(p) == Call(p) \/ Step(p) \/ Fail(p) \/ Crash(p)

(* The type invariant, taken apart by what a step can disturb.             *)
LEMMA Types ==
  TypeOK <=> FilesTyped /\ DirsTyped /\ MarkerTyped /\ LocksTyped /\ ControlTyped /\ MemoryTyped
BY Zenon DEF TypeOK, FilesTyped, DirsTyped, MarkerTyped, LocksTyped, ControlTyped, MemoryTyped, Base, Want

(* The order in which files are written, and in which they are restored.   *)
LEMMA Orders ==
  /\ Forth["log"] = "record" /\ Forth["record"] = "receipt"
  /\ Forth["receipt"] = "index" /\ Forth["index"] = "end"
  /\ Back["record"] = "log" /\ Back["log"] = "receipt"
  /\ Back["receipt"] = "index" /\ Back["index"] = "end"
BY DEF Forth, Back

(* Every step belongs to one call, and is one of these.                    *)
LEMMA StepKinds ==
  ASSUME NEW p, Act(p)
  PROVE  \/ Call(p) \/ Look(p) \/ Inspect(p) \/ Redo(p) \/ Undo(p) \/ Clear(p)
         \/ FreeIndex(p) \/ FreeLock(p) \/ Before(p) \/ Open(p) \/ Fill(p)
         \/ OpenIndex(p) \/ FillIndex(p) \/ Compare(p) \/ Stage(p) \/ Promote(p)
         \/ Rename(p) \/ Mark(p) \/ Rollback(p) \/ DropPromoted(p) \/ DropStaging(p)
         \/ ReadRecord(p) \/ ReadLog(p) \/ Release(p) \/ ReleaseOwn(p) \/ Return(p)
         \/ Fail(p) \/ Crash(p)
BY DEF Act, Step, Recover, Acquire, Commit

(* A step writes the control state of its own call only.                   *)
LEMMA OthersUnmoved ==
  ASSUME TypeOK, NEW p \in Proc, Act(p), NEW q \in Proc, q # p
  PROVE  /\ pc'[q] = pc[q] /\ want'[q] = want[q] /\ tx'[q] = tx[q]
         /\ base'[q] = base[q] /\ file'[q] = file[q] /\ outcome'[q] = outcome[q]
<1>1. /\ DOMAIN pc = Proc /\ DOMAIN want = Proc /\ DOMAIN tx = Proc
      /\ DOMAIN base = Proc /\ DOMAIN file = Proc /\ DOMAIN outcome = Proc
  BY DEF TypeOK
<1> USE <1>1 DEF Goto, Throw, Undone, Reset, RemoveDir, Advance
<1>2. CASE Call(p)
  BY <1>2 DEF Call, Ask
<1>3. CASE Look(p)
  BY <1>3 DEF Look
<1>4. CASE Inspect(p)
  BY <1>4 DEF Inspect
<1>5. CASE Redo(p)
  BY <1>5 DEF Redo
<1>6. CASE Undo(p)
  BY <1>6 DEF Undo
<1>7. CASE Clear(p)
  BY <1>7 DEF Clear
<1>8. CASE FreeIndex(p)
  BY <1>8 DEF FreeIndex
<1>9. CASE FreeLock(p)
  BY <1>9 DEF FreeLock
<1>10. CASE Before(p)
  BY <1>10 DEF Before
<1>11. CASE Open(p)
  BY <1>11 DEF Open
<1>12. CASE Fill(p)
  BY <1>12 DEF Fill
<1>13. CASE OpenIndex(p)
  BY <1>13 DEF OpenIndex
<1>14. CASE FillIndex(p)
  BY <1>14 DEF FillIndex
<1>15. CASE Compare(p)
  BY <1>15 DEF Compare
<1>16. CASE Stage(p)
  BY <1>16 DEF Stage
<1>17. CASE Promote(p)
  BY <1>17 DEF Promote
<1>18. CASE Rename(p)
  BY <1>18 DEF Rename
<1>19. CASE Mark(p)
  BY <1>19 DEF Mark
<1>20. CASE Rollback(p)
  BY <1>20 DEF Rollback
<1>21. CASE DropPromoted(p)
  BY <1>21 DEF DropPromoted
<1>22. CASE DropStaging(p)
  BY <1>22 DEF DropStaging
<1>23. CASE ReadRecord(p)
  BY <1>23 DEF ReadRecord
<1>24. CASE ReadLog(p)
  BY <1>24 DEF ReadLog
<1>25. CASE Release(p)
  BY <1>25 DEF Release
<1>26. CASE ReleaseOwn(p)
  BY <1>26 DEF ReleaseOwn
<1>27. CASE Return(p)
  BY <1>27 DEF Return
<1>28. CASE Fail(p)
  BY <1>28 DEF Fail
<1>29. CASE Crash(p)
  BY <1>29 DEF Crash
<1> QED
  BY StepKinds, <1>2, <1>3, <1>4, <1>5, <1>6, <1>7, <1>8, <1>9, <1>10, <1>11, <1>12,
     <1>13, <1>14, <1>15, <1>16, <1>17, <1>18, <1>19, <1>20, <1>21, <1>22, <1>23,
     <1>24, <1>25, <1>26, <1>27, <1>28, <1>29

(* A step leaves the records of other calls alone, but for the owner of a  *)
(* lock file when that owner dies.                                         *)
LEMMA RecordsUnmoved ==
  ASSUME TypeOK, Shape, NEW p \in Proc, Act(p), NEW r \in Record, r # Rec(p)
  PROVE  /\ log'[r] = log[r] /\ record'[r] = record[r] /\ receipts'[r] = receipts[r]
         /\ dirs'[r] = dirs[r] /\ marker'[r] = marker[r]
         /\ lock'[r].tx = lock[r].tx /\ lock'[r].written = lock[r].written
         /\ lock'[r] = lock[r] \/ lock'[r] = [lock[r] EXCEPT !.owner = Nobody]
<1>1. /\ DOMAIN log = Record /\ DOMAIN record = Record /\ DOMAIN receipts = Record
      /\ DOMAIN dirs = Record /\ DOMAIN marker = Record /\ DOMAIN lock = Record
      /\ lock[r] \in LockFile
  BY DEF TypeOK
<1>2. pc[p] \in Holding \cup Recovery => tx[p].rec = Rec(p)
  BY DEF Shape, CallShape, Recovering
<1> USE DEF files, locks, Goto, Throw, Undone, Reset, RemoveDir, WriteNext, WritePrevious,
            ReleaseLock, ReleaseIndex, Holding, Appending, Consulting, Recovery
<1>3. CASE Call(p)
  BY <1>3, <1>1, <1>2 DEF Call, Ask
<1>4. CASE Look(p)
  BY <1>4, <1>1, <1>2 DEF Look
<1>5. CASE Inspect(p)
  BY <1>5, <1>1, <1>2 DEF Inspect
<1>6. CASE Redo(p)
  BY <1>6, <1>1, <1>2 DEF Redo
<1>7. CASE Undo(p)
  BY <1>7, <1>1, <1>2 DEF Undo
<1>8. CASE Clear(p)
  BY <1>8, <1>1, <1>2 DEF Clear
<1>9. CASE FreeIndex(p)
  BY <1>9, <1>1, <1>2 DEF FreeIndex
<1>10. CASE FreeLock(p)
  BY <1>10, <1>1, <1>2 DEF FreeLock
<1>11. CASE Before(p)
  BY <1>11, <1>1, <1>2 DEF Before
<1>12. CASE Open(p)
  BY <1>12, <1>1, <1>2 DEF Open
<1>13. CASE Fill(p)
  BY <1>13, <1>1, <1>2 DEF Fill
<1>14. CASE OpenIndex(p)
  BY <1>14, <1>1, <1>2 DEF OpenIndex
<1>15. CASE FillIndex(p)
  BY <1>15, <1>1, <1>2 DEF FillIndex
<1>16. CASE Compare(p)
  BY <1>16, <1>1, <1>2 DEF Compare
<1>17. CASE Stage(p)
  BY <1>17, <1>1, <1>2 DEF Stage
<1>18. CASE Promote(p)
  BY <1>18, <1>1, <1>2 DEF Promote
<1>19. CASE Rename(p)
  BY <1>19, <1>1, <1>2 DEF Rename
<1>20. CASE Mark(p)
  BY <1>20, <1>1, <1>2 DEF Mark
<1>21. CASE Rollback(p)
  BY <1>21, <1>1, <1>2 DEF Rollback
<1>22. CASE DropPromoted(p)
  BY <1>22, <1>1, <1>2 DEF DropPromoted
<1>23. CASE DropStaging(p)
  BY <1>23, <1>1, <1>2 DEF DropStaging
<1>24. CASE ReadRecord(p)
  BY <1>24, <1>1, <1>2 DEF ReadRecord
<1>25. CASE ReadLog(p)
  BY <1>25, <1>1, <1>2 DEF ReadLog
<1>26. CASE Release(p)
  BY <1>26, <1>1, <1>2 DEF Release
<1>27. CASE ReleaseOwn(p)
  BY <1>27, <1>1, <1>2 DEF ReleaseOwn
<1>28. CASE Return(p)
  BY <1>28, <1>1, <1>2 DEF Return
<1>29. CASE Fail(p)
  BY <1>29, <1>1, <1>2 DEF Fail
<1>30. CASE Crash(p)
  BY <1>30, <1>1, <1>2 DEF Crash, Orphan, LockFile
<1> QED
  BY StepKinds, <1>3, <1>4, <1>5, <1>6, <1>7, <1>8, <1>9, <1>10, <1>11, <1>12, <1>13, <1>14,
     <1>15, <1>16, <1>17, <1>18, <1>19, <1>20, <1>21, <1>22, <1>23, <1>24, <1>25, <1>26,
     <1>27, <1>28, <1>29, <1>30

(* The next and the previous content of a file are contents.               *)
LEMMA NextTyped ==
  ASSUME FilesTyped, MemoryTyped, NEW p \in Proc, NEW f \in FileName,
         tx[p].rec \in Record, tx[p].ev \in Event, WriteNext(p, f)
  PROVE  FilesTyped'
<1>1. base[p].log \in Seq(Event) /\ base[p].record \in Seq(Event) /\ base[p].index \in Seq(Entry)
  BY DEF MemoryTyped, Base
<1>2. <<tx[p].rec, tx[p].ev>> \in Entry
  BY DEF Entry
<1>3. /\ Append(base[p].log, tx[p].ev) \in Seq(Event)
      /\ Append(base[p].record, tx[p].ev) \in Seq(Event)
      /\ Append(base[p].index, <<tx[p].rec, tx[p].ev>>) \in Seq(Entry)
  BY <1>1, <1>2
<1> QED
  BY <1>1, <1>3 DEF FilesTyped, WriteNext

(* Restoring a file keeps the files' types:                                *)
(* restorePreviousTransactionSnapshot.                                     *)
LEMMA PreviousTyped ==
  ASSUME FilesTyped, MemoryTyped, NEW p \in Proc, NEW f \in FileName, WritePrevious(p, f)
  PROVE  FilesTyped'
<1>1. base[p].log \in Seq(Event) /\ base[p].record \in Seq(Event) /\ base[p].index \in Seq(Entry)
  BY DEF MemoryTyped, Base
<1> QED
  BY <1>1 DEF FilesTyped, WritePrevious

(* Every step keeps the types of the files of the records.                 *)
LEMMA FilesStep ==
  ASSUME TypeOK, Shape, NEW p \in Proc, Act(p)
  PROVE  FilesTyped'
<1>1. FilesTyped /\ MemoryTyped /\ file[p] \in FileName
  BY Types DEF ControlTyped
<1>2. pc[p] \in Holding \cup Recovery => tx[p].rec = Rec(p) /\ Rec(p) \in Record
  BY DEF Shape, CallShape, Recovering, Rec, Holding, Appending, Consulting, Recovery
<1>3. pc[p] \in {"redo", "undo", "promote", "rollback"} => tx[p].ev \in Event
  <2>1. pc[p] \in {"promote", "rollback"} => want[p].ev \in Event
    BY <1>1 DEF Shape, CallShape, Reading, Appending, MemoryTyped, Want
  <2> QED
    BY <2>1 DEF Shape, CallShape, Holding, Appending
<1>4. CASE UNCHANGED <<log, record, receipts, index>>
  BY <1>1, <1>4 DEF FilesTyped
<1>5. ASSUME pc[p] \in {"redo", "promote"}, WriteNext(p, file[p]) PROVE FilesTyped'
  BY <1>1, <1>2, <1>3, <1>5, NextTyped DEF Holding, Appending, Recovery
<1>6. ASSUME WritePrevious(p, file[p]) PROVE FilesTyped'
  BY <1>1, <1>6, PreviousTyped
<1>7. ASSUME pc[p] = "undo", log' = [log EXCEPT ![Rec(p)] = <<>>], UNCHANGED <<record, receipts, index>>
      PROVE  FilesTyped'
  <2>1. <<>> \in Seq(Event)
    OBVIOUS
  <2> QED
    BY <1>1, <1>7, <2>1 DEF FilesTyped
<1> USE DEF files
<1>8. CASE Call(p)
  BY <1>8, <1>4 DEF Call, Ask
<1>9. CASE Look(p)
  BY <1>9, <1>4 DEF Look
<1>10. CASE Inspect(p)
  BY <1>10, <1>4 DEF Inspect
<1>11. CASE Redo(p)
  BY <1>11, <1>4, <1>5 DEF Redo
<1>12. CASE Undo(p)
  BY <1>12, <1>4, <1>6, <1>7 DEF Undo
<1>13. CASE Clear(p)
  BY <1>13, <1>4 DEF Clear
<1>14. CASE FreeIndex(p)
  BY <1>14, <1>4 DEF FreeIndex
<1>15. CASE FreeLock(p)
  BY <1>15, <1>4 DEF FreeLock
<1>16. CASE Before(p)
  BY <1>16, <1>4 DEF Before
<1>17. CASE Open(p)
  BY <1>17, <1>4 DEF Open
<1>18. CASE Fill(p)
  BY <1>18, <1>4 DEF Fill
<1>19. CASE OpenIndex(p)
  BY <1>19, <1>4 DEF OpenIndex
<1>20. CASE FillIndex(p)
  BY <1>20, <1>4 DEF FillIndex
<1>21. CASE Compare(p)
  BY <1>21, <1>4 DEF Compare
<1>22. CASE Stage(p)
  BY <1>22, <1>4 DEF Stage
<1>23. CASE Promote(p)
  BY <1>23, <1>4, <1>5 DEF Promote
<1>24. CASE Rename(p)
  BY <1>24, <1>4 DEF Rename
<1>25. CASE Mark(p)
  BY <1>25, <1>4 DEF Mark
<1>26. CASE Rollback(p)
  BY <1>26, <1>4, <1>6 DEF Rollback
<1>27. CASE DropPromoted(p)
  BY <1>27, <1>4 DEF DropPromoted
<1>28. CASE DropStaging(p)
  BY <1>28, <1>4 DEF DropStaging
<1>29. CASE ReadRecord(p)
  BY <1>29, <1>4 DEF ReadRecord
<1>30. CASE ReadLog(p)
  BY <1>30, <1>4 DEF ReadLog
<1>31. CASE Release(p)
  BY <1>31, <1>4 DEF Release
<1>32. CASE ReleaseOwn(p)
  BY <1>32, <1>4 DEF ReleaseOwn
<1>33. CASE Return(p)
  BY <1>33, <1>4 DEF Return, Reset
<1>34. CASE Fail(p)
  BY <1>34, <1>4 DEF Fail
<1>35. CASE Crash(p)
  BY <1>35, <1>4 DEF Crash
<1> QED
  BY StepKinds, <1>8, <1>9, <1>10, <1>11, <1>12, <1>13, <1>14, <1>15, <1>16, <1>17, <1>18,
     <1>19, <1>20, <1>21, <1>22, <1>23, <1>24, <1>25, <1>26, <1>27, <1>28, <1>29, <1>30,
     <1>31, <1>32, <1>33, <1>34, <1>35

(* What is left of a directory is a directory.                             *)
LEMMA RemoveTyped ==
  ASSUME DirsTyped, NEW p \in Proc, Rec(p) \in Record, NEW old \in SUBSET dirs[Rec(p)],
         NEW then, RemoveDir(p, old, then)
  PROVE  DirsTyped'
<1>1. ASSUME NEW d \in Dir PROVE [d EXCEPT !.whole = FALSE] \in Dir
  BY DEF Dir
<1>2. dirs[Rec(p)] \in SUBSET Dir
  BY DEF DirsTyped
<1>3. {[d EXCEPT !.whole = FALSE] : d \in old} \in SUBSET Dir
  BY <1>1, <1>2
<1> QED
  BY <1>2, <1>3 DEF DirsTyped, RemoveDir

(* Every step keeps the types of the transaction directories.              *)
LEMMA DirsStep ==
  ASSUME TypeOK, Shape, NEW p \in Proc, Act(p)
  PROVE  DirsTyped'
<1>1. DirsTyped
  BY Types
<1>2. pc[p] # "idle" => Rec(p) \in Record
  BY DEF Shape, CallShape, Rec
<1>3. CASE UNCHANGED dirs
  BY <1>1, <1>3 DEF DirsTyped
<1>4. ASSUME NEW t \in Tx, NEW l \in Seq(Event), NEW i \in Seq(Entry), NEW w \in BOOLEAN
      PROVE  Staging(t, l, i, w) \in Dir
  BY DEF Staging, Dir
<1>5. tx[p] \in Tx /\ base[p].log \in Seq(Event) /\ base[p].index \in Seq(Entry)
      /\ index \in Seq(Entry) /\ (\A r \in Record : log[r] \in Seq(Event))
  BY DEF TypeOK
<1>6. CASE Clear(p)
  BY <1>1, <1>2, <1>6, RemoveTyped DEF Clear, RecoveryDirs, Dirs
<1>7. CASE DropPromoted(p)
  BY <1>1, <1>2, <1>7, RemoveTyped DEF DropPromoted, Dirs
<1>8. CASE DropStaging(p)
  BY <1>1, <1>2, <1>8, RemoveTyped DEF DropStaging, Dirs
<1>9. CASE Compare(p)
  <2>1. Staging(tx[p], log[Rec(p)], index, FALSE) \in Dir
    BY <1>2, <1>4, <1>5, <1>9 DEF Compare
  <2>2. \/ dirs' = dirs
        \/ dirs' = [dirs EXCEPT ![Rec(p)] = @ \cup {Staging(tx[p], log[Rec(p)], index, FALSE)}]
    BY <1>9 DEF Compare
  <2>3. Rec(p) \in Record
    BY <1>2, <1>9 DEF Compare
  <2> QED
    BY <1>1, <2>1, <2>2, <2>3 DEF DirsTyped
<1>10. CASE Stage(p)
  <2>1. Staging(tx[p], base[p].log, base[p].index, TRUE) \in Dir
    BY <1>4, <1>5
  <2> QED
    BY <1>1, <1>2, <1>10, <2>1 DEF Stage, DirsTyped
<1>11. CASE Rename(p)
  <2>1. ASSUME NEW d \in Dir PROVE [d EXCEPT !.promoted = TRUE] \in Dir
    BY DEF Dir
  <2>2. \A d \in Dirs(Rec(p), tx[p]) : d \in Dir
    BY <1>1, <1>2, <1>11 DEF Rename, Dirs, DirsTyped
  <2> QED
    BY <1>1, <1>2, <1>11, <2>1, <2>2 DEF Rename, DirsTyped
<1> USE DEF files
<1>12. CASE Call(p)
  BY <1>12, <1>3 DEF Call, Ask
<1>13. CASE Look(p)
  BY <1>13, <1>3 DEF Look
<1>14. CASE Inspect(p)
  BY <1>14, <1>3 DEF Inspect
<1>15. CASE Redo(p)
  BY <1>15, <1>3 DEF Redo
<1>16. CASE Undo(p)
  BY <1>16, <1>3 DEF Undo
<1>17. CASE FreeIndex(p)
  BY <1>17, <1>3 DEF FreeIndex
<1>18. CASE FreeLock(p)
  BY <1>18, <1>3 DEF FreeLock
<1>19. CASE Before(p)
  BY <1>19, <1>3 DEF Before
<1>20. CASE Open(p)
  BY <1>20, <1>3 DEF Open
<1>21. CASE Fill(p)
  BY <1>21, <1>3 DEF Fill
<1>22. CASE OpenIndex(p)
  BY <1>22, <1>3 DEF OpenIndex
<1>23. CASE FillIndex(p)
  BY <1>23, <1>3 DEF FillIndex
<1>24. CASE Promote(p)
  BY <1>24, <1>3 DEF Promote
<1>25. CASE Mark(p)
  BY <1>25, <1>3 DEF Mark
<1>26. CASE Rollback(p)
  BY <1>26, <1>3 DEF Rollback
<1>27. CASE ReadRecord(p)
  BY <1>27, <1>3 DEF ReadRecord
<1>28. CASE ReadLog(p)
  BY <1>28, <1>3 DEF ReadLog
<1>29. CASE Release(p)
  BY <1>29, <1>3 DEF Release
<1>30. CASE ReleaseOwn(p)
  BY <1>30, <1>3 DEF ReleaseOwn
<1>31. CASE Return(p)
  BY <1>31, <1>3 DEF Return, Reset
<1>32. CASE Fail(p)
  BY <1>32, <1>3 DEF Fail
<1>33. CASE Crash(p)
  BY <1>33, <1>3 DEF Crash
<1> QED
  BY StepKinds, <1>12, <1>13, <1>14, <1>15, <1>16, <1>6, <1>17, <1>18, <1>19, <1>20, <1>21,
     <1>22, <1>23, <1>9, <1>10, <1>24, <1>11, <1>25, <1>26, <1>7, <1>8, <1>27, <1>28, <1>29,
     <1>30, <1>31, <1>32, <1>33

(* Every step keeps the type of the commit marker.                         *)
LEMMA MarkerStep ==
  ASSUME TypeOK, NEW p \in Proc, Act(p)
  PROVE  MarkerTyped'
<1>1. marker \in [Record -> Tx] /\ tx[p] \in Tx
  BY DEF TypeOK
<1>2. CASE UNCHANGED marker
  BY <1>1, <1>2 DEF MarkerTyped
<1>3. CASE Mark(p)
  BY <1>1, <1>3 DEF MarkerTyped, Mark
<1> USE DEF files
<1>4. CASE Call(p)
  BY <1>4, <1>2 DEF Call, Ask
<1>5. CASE Look(p)
  BY <1>5, <1>2 DEF Look
<1>6. CASE Inspect(p)
  BY <1>6, <1>2 DEF Inspect
<1>7. CASE Redo(p)
  BY <1>7, <1>2 DEF Redo
<1>8. CASE Undo(p)
  BY <1>8, <1>2 DEF Undo
<1>9. CASE Clear(p)
  BY <1>9, <1>2 DEF Clear
<1>10. CASE FreeIndex(p)
  BY <1>10, <1>2 DEF FreeIndex
<1>11. CASE FreeLock(p)
  BY <1>11, <1>2 DEF FreeLock
<1>12. CASE Before(p)
  BY <1>12, <1>2 DEF Before
<1>13. CASE Open(p)
  BY <1>13, <1>2 DEF Open
<1>14. CASE Fill(p)
  BY <1>14, <1>2 DEF Fill
<1>15. CASE OpenIndex(p)
  BY <1>15, <1>2 DEF OpenIndex
<1>16. CASE FillIndex(p)
  BY <1>16, <1>2 DEF FillIndex
<1>17. CASE Compare(p)
  BY <1>17, <1>2 DEF Compare
<1>18. CASE Stage(p)
  BY <1>18, <1>2 DEF Stage
<1>19. CASE Promote(p)
  BY <1>19, <1>2 DEF Promote
<1>20. CASE Rename(p)
  BY <1>20, <1>2 DEF Rename
<1>21. CASE Rollback(p)
  BY <1>21, <1>2 DEF Rollback
<1>22. CASE DropPromoted(p)
  BY <1>22, <1>2 DEF DropPromoted
<1>23. CASE DropStaging(p)
  BY <1>23, <1>2 DEF DropStaging
<1>24. CASE ReadRecord(p)
  BY <1>24, <1>2 DEF ReadRecord
<1>25. CASE ReadLog(p)
  BY <1>25, <1>2 DEF ReadLog
<1>26. CASE Release(p)
  BY <1>26, <1>2 DEF Release
<1>27. CASE ReleaseOwn(p)
  BY <1>27, <1>2 DEF ReleaseOwn
<1>28. CASE Return(p)
  BY <1>28, <1>2 DEF Return, Reset
<1>29. CASE Fail(p)
  BY <1>29, <1>2 DEF Fail
<1>30. CASE Crash(p)
  BY <1>30, <1>2 DEF Crash
<1> QED
  BY StepKinds, <1>4, <1>5, <1>6, <1>7, <1>8, <1>9, <1>10, <1>11, <1>12, <1>13, <1>14,
     <1>15, <1>16, <1>17, <1>18, <1>19, <1>20, <1>3, <1>21, <1>22, <1>23, <1>24, <1>25,
     <1>26, <1>27, <1>28, <1>29, <1>30

(* Every step keeps the types of the lock files.                           *)
LEMMA LocksStep ==
  ASSUME TypeOK, NEW p \in Proc, Act(p)
  PROVE  LocksTyped'
<1>1. lock \in [Record -> LockFile] /\ indexLock \in LockFile /\ tx[p] \in Tx
  BY DEF TypeOK
<1>2. Free \in LockFile
  <2>1. <<>> \in Seq(Event)
    OBVIOUS
  <2> QED
    BY <2>1 DEF Free, NoTx, LockFile, Tx
<1>3. \A b \in BOOLEAN : [tx |-> tx[p], owner |-> p, written |-> b] \in LockFile
  BY <1>1 DEF LockFile
<1>4. \A l \in LockFile : [l EXCEPT !.written = TRUE] \in LockFile /\ Orphan(l, p) \in LockFile
  BY DEF LockFile, Orphan
<1>5. CASE UNCHANGED locks
  BY <1>1, <1>5 DEF LocksTyped, locks
<1>6. CASE Crash(p)
  BY <1>1, <1>4, <1>6 DEF LocksTyped, Crash
<1>7. ASSUME ReleaseIndex(tx[p]), UNCHANGED lock PROVE LocksTyped'
  BY <1>1, <1>2, <1>7 DEF LocksTyped, ReleaseIndex
<1>8. ASSUME ReleaseLock(Rec(p), tx[p]), UNCHANGED indexLock PROVE LocksTyped'
  BY <1>1, <1>2, <1>8 DEF LocksTyped, ReleaseLock
<1>9. CASE Open(p)
  BY <1>1, <1>3, <1>9 DEF LocksTyped, Open
<1>10. CASE Fill(p)
  <2>1. lock' = [lock EXCEPT ![Rec(p)].written = TRUE] /\ indexLock' = indexLock
    BY <1>10 DEF Fill
  <2> QED
    BY <1>1, <2>1 DEF LocksTyped, LockFile
<1>11. CASE OpenIndex(p)
  BY <1>1, <1>3, <1>11 DEF LocksTyped, OpenIndex
<1>12. CASE FillIndex(p)
  BY <1>1, <1>4, <1>12 DEF LocksTyped, FillIndex
<1>13. CASE FreeIndex(p)
  BY <1>1, <1>7, <1>13 DEF FreeIndex, LocksTyped
<1>14. CASE FreeLock(p)
  BY <1>8, <1>14 DEF FreeLock
<1>15. CASE Release(p)
  BY <1>7, <1>15 DEF Release
<1>16. CASE ReleaseOwn(p)
  BY <1>8, <1>16 DEF ReleaseOwn
<1> USE DEF locks
<1>17. CASE Call(p)
  BY <1>17, <1>5 DEF Call, Ask
<1>18. CASE Look(p)
  BY <1>18, <1>5 DEF Look
<1>19. CASE Inspect(p)
  BY <1>19, <1>5 DEF Inspect
<1>20. CASE Redo(p)
  BY <1>20, <1>5 DEF Redo
<1>21. CASE Undo(p)
  BY <1>21, <1>5 DEF Undo
<1>22. CASE Clear(p)
  BY <1>22, <1>5 DEF Clear
<1>23. CASE Before(p)
  BY <1>23, <1>5 DEF Before
<1>24. CASE Compare(p)
  BY <1>24, <1>5 DEF Compare
<1>25. CASE Stage(p)
  BY <1>25, <1>5 DEF Stage
<1>26. CASE Promote(p)
  BY <1>26, <1>5 DEF Promote
<1>27. CASE Rename(p)
  BY <1>27, <1>5 DEF Rename
<1>28. CASE Mark(p)
  BY <1>28, <1>5 DEF Mark
<1>29. CASE Rollback(p)
  BY <1>29, <1>5 DEF Rollback
<1>30. CASE DropPromoted(p)
  BY <1>30, <1>5 DEF DropPromoted
<1>31. CASE DropStaging(p)
  BY <1>31, <1>5 DEF DropStaging
<1>32. CASE ReadRecord(p)
  BY <1>32, <1>5 DEF ReadRecord
<1>33. CASE ReadLog(p)
  BY <1>33, <1>5 DEF ReadLog
<1>34. CASE Return(p)
  BY <1>34, <1>5 DEF Return
<1>35. CASE Fail(p)
  BY <1>35, <1>5 DEF Fail
<1> QED
  BY StepKinds, <1>17, <1>18, <1>19, <1>20, <1>21, <1>22, <1>13, <1>14, <1>23, <1>9, <1>10,
     <1>11, <1>12, <1>24, <1>25, <1>26, <1>27, <1>28, <1>29, <1>30, <1>31, <1>32, <1>33,
     <1>15, <1>16, <1>34, <1>35, <1>6

(* Every step keeps the types of where the calls are.                      *)
LEMMA ControlStep ==
  ASSUME TypeOK, Shape, NEW p \in Proc, Act(p)
  PROVE  ControlTyped'
<1>1. pc \in [Proc -> Location] /\ file \in [Proc -> FileName] /\ outcome \in [Proc -> Outcome]
  BY DEF TypeOK
<1>2. \A f \in Writable : Forth[f] \in FileName /\ Back[f] \in FileName
  BY Orders DEF Writable, FileName
<1>3. pc[p] \in {"redo", "promote", "undo", "rollback"} => file[p] \in Writable
  BY DEF Shape, CallShape
<1>4. /\ \A to \in Location : [pc EXCEPT ![p] = to] \in [Proc -> Location]
      /\ \A f \in FileName : [file EXCEPT ![p] = f] \in [Proc -> FileName]
      /\ \A o \in Outcome : [outcome EXCEPT ![p] = o] \in [Proc -> Outcome]
  BY <1>1
<1>5. /\ \A to \in Location : Goto(p, to) => pc' \in [Proc -> Location]
      /\ \A to \in Location :
           Throw(p, to) => pc' \in [Proc -> Location] /\ outcome' \in [Proc -> Outcome]
      /\ Undone(p) => ControlTyped'
      /\ Reset(p) => ControlTyped'
  <2>1. \A to \in Location : Goto(p, to) => pc' \in [Proc -> Location]
    BY <1>4 DEF Goto
  <2>2. \A to \in Location :
           Throw(p, to) => pc' \in [Proc -> Location] /\ outcome' \in [Proc -> Outcome]
    BY <1>4, <2>1 DEF Throw, Outcome
  <2>3. Undone(p) => ControlTyped'
    BY <1>4, <2>2 DEF Undone, ControlTyped, Location, FileName
  <2>4. Reset(p) => ControlTyped'
    BY <1>4, <2>1 DEF Reset, ControlTyped, Location, FileName, Outcome
  <2> QED
    BY <2>1, <2>2, <2>3, <2>4
<1>6. \A then \in Location :
        /\ file[p] \in Writable /\ Advance(p, Forth, then) =>
             pc' \in [Proc -> Location] /\ file' \in [Proc -> FileName]
        /\ file[p] \in Writable /\ Advance(p, Back, then) =>
             pc' \in [Proc -> Location] /\ file' \in [Proc -> FileName]
  BY <1>1, <1>2, <1>4, <1>5 DEF Advance
<1>8. \A old : \A then \in Location : RemoveDir(p, old, then) => pc' \in [Proc -> Location]
  BY <1>1, <1>5 DEF RemoveDir
<1>9. {"idle", "look", "before", "open", "fill", "openIndex", "fillIndex", "read", "readLog",
       "compare", "stage", "promote", "rename", "mark", "rollback", "dropPromoted",
       "dropStaging", "release", "releaseLock", "return", "inspect", "redo", "undo", "clear",
       "settle", "freeIndex", "freeLock"} \subseteq Location
  BY DEF Location, Recovery
<1>10. {"log", "record", "receipt", "index", "end"} \subseteq FileName
       /\ {"none", "ok", "error"} \subseteq Outcome
  BY DEF FileName, Outcome
<1> USE DEF ControlTyped
<1>11. CASE Call(p)
  BY <1>11, <1>1, <1>4, <1>5, <1>9, <1>10 DEF Call, Ask
<1>12. CASE Look(p)
  BY <1>12, <1>1, <1>4, <1>5, <1>9, <1>10 DEF Look, Goto
<1>13. CASE Inspect(p)
  BY <1>13, <1>1, <1>4, <1>5, <1>9, <1>10 DEF Inspect, Goto
<1>14. CASE Redo(p)
  BY <1>14, <1>1, <1>4, <1>5, <1>9, <1>10, <1>3, <1>6 DEF Redo
<1>15. CASE Undo(p)
  BY <1>15, <1>1, <1>4, <1>5, <1>9, <1>10, <1>3, <1>6 DEF Undo
<1>16. CASE Clear(p)
  BY <1>16, <1>1, <1>4, <1>5, <1>9, <1>10, <1>8 DEF Clear
<1>17. CASE FreeIndex(p)
  BY <1>17, <1>1, <1>4, <1>5, <1>9, <1>10 DEF FreeIndex
<1>18. CASE FreeLock(p)
  BY <1>18, <1>1, <1>4, <1>5, <1>9, <1>10 DEF FreeLock
<1>19. CASE Before(p)
  BY <1>19, <1>1, <1>4, <1>5, <1>9, <1>10 DEF Before
<1>20. CASE Open(p)
  BY <1>20, <1>1, <1>4, <1>5, <1>9, <1>10 DEF Open
<1>21. CASE Fill(p)
  BY <1>21, <1>1, <1>4, <1>5, <1>9, <1>10 DEF Fill
<1>22. CASE OpenIndex(p)
  BY <1>22, <1>1, <1>4, <1>5, <1>9, <1>10 DEF OpenIndex
<1>23. CASE FillIndex(p)
  BY <1>23, <1>1, <1>4, <1>5, <1>9, <1>10 DEF FillIndex
<1>24. CASE Compare(p)
  BY <1>24, <1>1, <1>4, <1>5, <1>9, <1>10 DEF Compare
<1>25. CASE Stage(p)
  BY <1>25, <1>1, <1>4, <1>5, <1>9, <1>10 DEF Stage, Goto
<1>26. CASE Promote(p)
  BY <1>26, <1>1, <1>4, <1>5, <1>9, <1>10, <1>3, <1>6 DEF Promote
<1>27. CASE Rename(p)
  BY <1>27, <1>1, <1>4, <1>5, <1>9, <1>10 DEF Rename
<1>28. CASE Mark(p)
  BY <1>28, <1>1, <1>4, <1>5, <1>9, <1>10 DEF Mark
<1>29. CASE Rollback(p)
  BY <1>29, <1>1, <1>4, <1>5, <1>9, <1>10, <1>3, <1>6 DEF Rollback
<1>30. CASE DropPromoted(p)
  BY <1>30, <1>1, <1>4, <1>5, <1>9, <1>10, <1>8 DEF DropPromoted
<1>31. CASE DropStaging(p)
  BY <1>31, <1>1, <1>4, <1>5, <1>9, <1>10, <1>8 DEF DropStaging
<1>32. CASE ReadRecord(p)
  BY <1>32, <1>1, <1>4, <1>5, <1>9, <1>10 DEF ReadRecord
<1>33. CASE ReadLog(p)
  BY <1>33, <1>1, <1>4, <1>5, <1>9, <1>10 DEF ReadLog, Outcome
<1>34. CASE Release(p)
  BY <1>34, <1>1, <1>4, <1>5, <1>9, <1>10 DEF Release
<1>35. CASE ReleaseOwn(p)
  BY <1>35, <1>1, <1>4, <1>5, <1>9, <1>10 DEF ReleaseOwn
<1>36. CASE Return(p)
  BY <1>36, <1>1, <1>4, <1>5, <1>9, <1>10 DEF Return
<1>37. CASE Fail(p)
  BY <1>37, <1>1, <1>4, <1>5, <1>9, <1>10 DEF Fail
<1>38. CASE Crash(p)
  BY <1>38, <1>1, <1>4, <1>5, <1>9, <1>10 DEF Crash
<1> QED
  BY StepKinds, <1>11, <1>12, <1>13, <1>14, <1>15, <1>16, <1>17, <1>18, <1>19, <1>20, <1>21,
     <1>22, <1>23, <1>24, <1>25, <1>26, <1>27, <1>28, <1>29, <1>30, <1>31, <1>32, <1>33,
     <1>34, <1>35, <1>36, <1>37, <1>38

(* What a call keeps in memory: only a few steps write it.                 *)
LEMMA MemoryStep ==
  ASSUME TypeOK, Shape, NEW p \in Proc, Act(p)
  PROVE  MemoryTyped'
<1>1. want \in [Proc -> Want] /\ tx \in [Proc -> Tx] /\ base \in [Proc -> Base]
  BY DEF TypeOK, Want, Base
<1>2. /\ \A w \in Want : [want EXCEPT ![p] = w] \in [Proc -> Want]
      /\ \A t \in Tx : [tx EXCEPT ![p] = t] \in [Proc -> Tx]
      /\ \A b \in Base : [base EXCEPT ![p] = b] \in [Proc -> Base]
  BY <1>1
<1>3. /\ \A r \in Record : log[r] \in Seq(Event) /\ record[r] \in Seq(Event)
      /\ index \in Seq(Entry)
      /\ \A r \in Record : lock[r].tx \in Tx
  BY DEF TypeOK, LockFile
<1>4. pc[p] # "idle" => Rec(p) \in Record
  BY DEF Shape, CallShape, Rec
<1>5. NoTx \in Tx /\ NoBase \in Base /\ NoWant \in Want
  <2>1. <<>> \in Seq(Event) /\ <<>> \in Seq(Entry)
    OBVIOUS
  <2> QED
    BY <2>1 DEF NoTx, NoBase, NoWant, Tx, Base, Want
<1>6. \A l, k \in Seq(Event), i \in Seq(Entry) : [log |-> l, record |-> k, index |-> i] \in Base
  BY DEF Base
<1>7. CASE UNCHANGED <<want, tx, base>>
  BY <1>1, <1>7 DEF MemoryTyped
<1>8. ASSUME Reset(p) PROVE MemoryTyped'
  BY <1>2, <1>5, <1>8 DEF Reset, MemoryTyped
<1>9. CASE Call(p)
  <2>1. PICK r \in Record, e \in Event \cup {Nobody} : Ask(p, r, e)
    BY <1>9 DEF Call
  <2>2. [rec |-> r, ev |-> e] \in Want
    BY DEF Want
  <2> QED
    BY <1>1, <1>2, <2>1, <2>2 DEF Ask, MemoryTyped
<1>10. CASE Look(p)
  BY <1>1, <1>2, <1>3, <1>4, <1>10 DEF Look, MemoryTyped
<1>11. CASE Inspect(p)
  <2>1. \A d \in RecoveryDirs(Rec(p), tx[p]) :
           [log |-> d.log, record |-> d.tx.pre, index |-> d.index] \in Base
    <3>1. \A d \in dirs[Rec(p)] : d.log \in Seq(Event) /\ d.tx.pre \in Seq(Event) /\ d.index \in Seq(Entry)
      BY <1>4, <1>11 DEF TypeOK, Dir, Tx, Inspect
    <3> QED
      BY <1>6, <3>1 DEF RecoveryDirs, Dirs
  <2> QED
    BY <1>1, <1>2, <1>11, <2>1 DEF Inspect, MemoryTyped
<1>12. CASE FreeLock(p)
  BY <1>1, <1>2, <1>5, <1>12 DEF FreeLock, MemoryTyped
<1>13. CASE Before(p)
  <2>1. Lease(p, Rec(p)) \in Tx
    <3>1. <<>> \in Seq(Event)
      OBVIOUS
    <3> QED
      BY <1>4, <1>13, <3>1 DEF Lease, Tx, Before
  <2>2. ~Reading(p) => Transaction(Rec(p), want[p].ev, record[Rec(p)]) \in Tx
    BY <1>1, <1>3, <1>4, <1>13 DEF Transaction, Tx, Want, Reading, Before
  <2> QED
    BY <1>1, <1>2, <1>13, <2>1, <2>2 DEF Before, MemoryTyped
<1>14. CASE Compare(p)
  <2>1. [log |-> log[Rec(p)], record |-> record[Rec(p)], index |-> index] \in Base
    BY <1>3, <1>4, <1>6, <1>14 DEF Compare
  <2> QED
    BY <1>1, <1>2, <1>14, <2>1 DEF Compare, MemoryTyped
<1>15. CASE ReadRecord(p)
  <2>1. base' = [base EXCEPT ![p].record = record[Rec(p)]] /\ UNCHANGED <<want, tx>>
    BY <1>15 DEF ReadRecord
  <2>2. record[Rec(p)] \in Seq(Event)
    BY <1>3, <1>4, <1>15 DEF ReadRecord
  <2> QED
    BY <1>1, <2>1, <2>2 DEF MemoryTyped, Base
<1>16. CASE ReadLog(p)
  <2>1. base' = [base EXCEPT ![p].log = log[Rec(p)]] /\ UNCHANGED <<want, tx>>
    BY <1>16 DEF ReadLog
  <2>2. log[Rec(p)] \in Seq(Event)
    BY <1>3, <1>4, <1>16 DEF ReadLog
  <2> QED
    BY <1>1, <2>1, <2>2 DEF MemoryTyped, Base
<1>17. CASE Redo(p)
  BY <1>17, <1>7 DEF Redo
<1>18. CASE Undo(p)
  BY <1>18, <1>7 DEF Undo
<1>19. CASE Clear(p)
  BY <1>19, <1>7 DEF Clear
<1>20. CASE FreeIndex(p)
  BY <1>20, <1>7 DEF FreeIndex
<1>21. CASE Open(p)
  BY <1>21, <1>7 DEF Open
<1>22. CASE Fill(p)
  BY <1>22, <1>7 DEF Fill
<1>23. CASE OpenIndex(p)
  BY <1>23, <1>7 DEF OpenIndex
<1>24. CASE FillIndex(p)
  BY <1>24, <1>7 DEF FillIndex
<1>25. CASE Stage(p)
  BY <1>25, <1>7 DEF Stage
<1>26. CASE Promote(p)
  BY <1>26, <1>7 DEF Promote
<1>27. CASE Rename(p)
  BY <1>27, <1>7 DEF Rename
<1>28. CASE Mark(p)
  BY <1>28, <1>7 DEF Mark
<1>29. CASE Rollback(p)
  BY <1>29, <1>7 DEF Rollback
<1>30. CASE DropPromoted(p)
  BY <1>30, <1>7 DEF DropPromoted
<1>31. CASE DropStaging(p)
  BY <1>31, <1>7 DEF DropStaging
<1>32. CASE Release(p)
  BY <1>32, <1>7 DEF Release
<1>33. CASE ReleaseOwn(p)
  BY <1>33, <1>7 DEF ReleaseOwn
<1>34. CASE Return(p)
  BY <1>34, <1>7, <1>8 DEF Return
<1>35. CASE Fail(p)
  BY <1>35, <1>7 DEF Fail
<1>36. CASE Crash(p)
  BY <1>36, <1>7, <1>8 DEF Crash
<1> QED
  BY StepKinds, <1>9, <1>10, <1>11, <1>17, <1>18, <1>19, <1>20, <1>12, <1>13, <1>21, <1>22,
     <1>23, <1>24, <1>14, <1>25, <1>26, <1>27, <1>28, <1>29, <1>30, <1>31, <1>15, <1>16,
     <1>32, <1>33, <1>34, <1>35, <1>36

(* A call knows which record it is about, and its transaction is its own   *)
(* or the one it recovers.                                                 *)
LEMMA CallShapeStep ==
  ASSUME TypeOK, Shape, NEW p \in Proc, Act(p), NEW q \in Proc
  PROVE  CallShape(q)'
<1>1. CASE q # p
  <2>1. /\ pc'[q] = pc[q] /\ want'[q] = want[q] /\ tx'[q] = tx[q] /\ file'[q] = file[q]
    BY <1>1, OthersUnmoved
  <2> QED
    BY <2>1 DEF Shape, CallShape, Rec, Reading, Recovering
<1> SUFFICES ASSUME q = p PROVE CallShape(p)'
  BY <1>1
<1>2. CallShape(p)
  BY DEF Shape
<1>3. /\ DOMAIN pc = Proc /\ DOMAIN want = Proc /\ DOMAIN tx = Proc /\ DOMAIN file = Proc
      /\ want[p] \in Want
  BY DEF TypeOK, Want
<1>4. /\ \A d \in dirs[Rec(p)] : Rec(p) \in Record => d.tx.rec = Rec(p) /\ d.tx.ev \in Event
      /\ Rec(p) \in Record /\ lock[Rec(p)] # Free =>
           lock[Rec(p)].tx.rec = Rec(p) /\ lock[Rec(p)].tx.ev \in Event \cup Proc
  BY DEF Shape, StoreShape
<1>5. \A f \in Writable :
        /\ Forth[f] = "end" \/ Forth[f] \in Writable
        /\ Back[f] = "end" \/ Back[f] \in Writable
  BY Orders DEF Writable
<1>6. "log" \in Writable /\ "record" \in Writable
  BY DEF Writable
<1>7. /\ Appending \subseteq Holding /\ Consulting \subseteq Holding
      /\ Holding \cap Recovery = {} /\ Appending \cap Consulting = {}
  BY DEF Holding, Appending, Consulting, Recovery
<1> USE DEF CallShape, Rec, Reading, Recovering, Goto, Throw, Undone, Reset, RemoveDir
<1>8. CASE Call(p)
  BY <1>8, <1>2, <1>3 DEF Call, Ask, Holding, Appending, Consulting, Recovery
<1>9. CASE Look(p)
  BY <1>9, <1>2, <1>3, <1>4 DEF Look, Stale, Free, Holding, Appending, Consulting, Recovery
<1>10. CASE Inspect(p)
  BY <1>10, <1>2, <1>3, <1>4, <1>6 DEF Inspect, RecoveryDirs, Dirs, Holding, Appending, Consulting, Recovery
<1>11. CASE Redo(p)
  BY <1>11, <1>2, <1>3, <1>5 DEF Redo, Advance, Holding, Appending, Consulting, Recovery
<1>12. CASE Undo(p)
  BY <1>12, <1>2, <1>3, <1>5 DEF Undo, Advance, Holding, Appending, Consulting, Recovery
<1>13. CASE Clear(p)
  BY <1>13, <1>2, <1>3 DEF Clear, Holding, Appending, Consulting, Recovery
<1>14. CASE FreeIndex(p)
  BY <1>14, <1>2, <1>3 DEF FreeIndex, Holding, Appending, Consulting, Recovery
<1>15. CASE FreeLock(p)
  BY <1>15, <1>2, <1>3 DEF FreeLock, Holding, Appending, Consulting, Recovery
<1>16. CASE Before(p)
  BY <1>16, <1>2, <1>3 DEF Before, Lease, Transaction, Holding, Appending, Consulting, Recovery
<1>17. CASE Open(p)
  BY <1>17, <1>2, <1>3 DEF Open, Holding, Appending, Consulting, Recovery
<1>18. CASE Fill(p)
  BY <1>18, <1>2, <1>3 DEF Fill, Holding, Appending, Consulting, Recovery
<1>19. CASE OpenIndex(p)
  BY <1>19, <1>2, <1>3 DEF OpenIndex, Holding, Appending, Consulting, Recovery
<1>20. CASE FillIndex(p)
  BY <1>20, <1>2, <1>3 DEF FillIndex, Holding, Appending, Consulting, Recovery
<1>21. CASE Compare(p)
  BY <1>21, <1>2, <1>3 DEF Compare, Holding, Appending, Consulting, Recovery
<1>22. CASE Stage(p)
  BY <1>22, <1>2, <1>3, <1>6 DEF Stage, Holding, Appending, Consulting, Recovery
<1>23. CASE Promote(p)
  BY <1>23, <1>2, <1>3, <1>5, <1>6 DEF Promote, Advance, Holding, Appending, Consulting, Recovery
<1>24. CASE Rename(p)
  BY <1>24, <1>2, <1>3, <1>6 DEF Rename, Holding, Appending, Consulting, Recovery
<1>25. CASE Mark(p)
  BY <1>25, <1>2, <1>3, <1>6 DEF Mark, Holding, Appending, Consulting, Recovery
<1>26. CASE Rollback(p)
  BY <1>26, <1>2, <1>3, <1>5 DEF Rollback, Advance, Holding, Appending, Consulting, Recovery
<1>27. CASE DropPromoted(p)
  BY <1>27, <1>2, <1>3 DEF DropPromoted, Holding, Appending, Consulting, Recovery
<1>28. CASE DropStaging(p)
  BY <1>28, <1>2, <1>3 DEF DropStaging, Holding, Appending, Consulting, Recovery
<1>29. CASE ReadRecord(p)
  BY <1>29, <1>2, <1>3 DEF ReadRecord, Holding, Appending, Consulting, Recovery
<1>30. CASE ReadLog(p)
  BY <1>30, <1>2, <1>3 DEF ReadLog, Holding, Appending, Consulting, Recovery
<1>31. CASE Release(p)
  BY <1>31, <1>2, <1>3 DEF Release, Holding, Appending, Consulting, Recovery
<1>32. CASE ReleaseOwn(p)
  BY <1>32, <1>2, <1>3 DEF ReleaseOwn, Holding, Appending, Consulting, Recovery
<1>33. CASE Return(p)
  BY <1>33, <1>2, <1>3 DEF Return, Holding, Appending, Consulting, Recovery
<1>34. CASE Fail(p)
  BY <1>34, <1>2, <1>3, <1>6 DEF Fail, Holding, Appending, Consulting, Recovery
<1>35. CASE Crash(p)
  BY <1>35, <1>2, <1>3 DEF Crash, Holding, Appending, Consulting, Recovery
<1> QED
  BY StepKinds, <1>8, <1>9, <1>10, <1>11, <1>12, <1>13, <1>14, <1>15, <1>16, <1>17, <1>18,
     <1>19, <1>20, <1>21, <1>22, <1>23, <1>24, <1>25, <1>26, <1>27, <1>28, <1>29, <1>30,
     <1>31, <1>32, <1>33, <1>34, <1>35

(* The files of a record are about that record.                            *)
LEMMA StoreShapeStep ==
  ASSUME TypeOK, Shape, NEW p \in Proc, Act(p), NEW r \in Record
  PROVE  StoreShape(r)'
<1>1. StoreShape(r) /\ lock[r] \in LockFile
  BY DEF Shape, TypeOK
<1>2. CASE r # Rec(p)
  <2>1. /\ dirs'[r] = dirs[r] /\ marker'[r] = marker[r] /\ lock'[r].tx = lock[r].tx
        /\ lock'[r] = lock[r] \/ lock'[r] = [lock[r] EXCEPT !.owner = Nobody]
    BY <1>2, RecordsUnmoved
  <2>2. lock[r] = Free => lock'[r] = Free
    <3>1. \A l \in LockFile : l.owner = Nobody => [l EXCEPT !.owner = Nobody] = l
      BY DEF LockFile
    <3>2. Free.owner = Nobody
      BY DEF Free
    <3> QED
      BY <1>1, <2>1, <3>1, <3>2
  <2> QED
    BY <1>1, <2>1, <2>2 DEF StoreShape
<1> SUFFICES ASSUME r = Rec(p) PROVE StoreShape(r)'
  BY <1>2
<1>3. DOMAIN dirs = Record /\ DOMAIN marker = Record /\ DOMAIN lock = Record
  BY DEF TypeOK
<1>4. /\ pc[p] \in Holding \cup {"open"} => tx[p].rec = r /\ tx[p].ev \in Event \cup Proc
      /\ pc[p] \in Appending => tx[p].ev \in Event
  BY DEF Shape, CallShape, Holding, Appending, Reading, TypeOK
<1>5. CASE UNCHANGED <<dirs, marker, lock>>
  BY <1>1, <1>5 DEF StoreShape
<1>6. ASSUME UNCHANGED <<dirs, marker>>, lock' = [lock EXCEPT ![r] = Free] \/ lock' = lock
      PROVE  StoreShape(r)'
  BY <1>1, <1>3, <1>6 DEF StoreShape
<1>7. ASSUME NEW old \in SUBSET dirs[r], NEW then, RemoveDir(p, old, then), UNCHANGED <<marker, lock>>
      PROVE  StoreShape(r)'
  <2>1. \A d \in dirs'[r] : d \in dirs[r] \/ \E c \in old : d = [c EXCEPT !.whole = FALSE]
    BY <1>3, <1>7 DEF RemoveDir
  <2>2. \A d \in dirs'[r] : \E c \in dirs[r] : d.tx = c.tx
    <3>1. \A c \in dirs[r] : [c EXCEPT !.whole = FALSE].tx = c.tx
      BY DEF TypeOK, Dir
    <3> TAKE d \in dirs'[r]
    <3>2. CASE d \in dirs[r]
      BY <3>2
    <3>3. ASSUME NEW c \in old, d = [c EXCEPT !.whole = FALSE] PROVE \E b \in dirs[r] : d.tx = b.tx
      BY <1>7, <3>1, <3>3
    <3> QED
      BY <2>1, <3>2, <3>3
  <2> QED
    BY <1>1, <1>7, <2>2 DEF StoreShape
<1>8. CASE Open(p)
  BY <1>1, <1>3, <1>4, <1>8 DEF Open, StoreShape, files
<1>9. CASE Fill(p)
  <2>1. lock' = [lock EXCEPT ![r].written = TRUE] /\ UNCHANGED <<dirs, marker>> /\ pc[p] = "fill"
    BY <1>9 DEF Fill, files
  <2>2. lock'[r].tx = lock[r].tx
    BY <1>1, <1>3, <2>1 DEF LockFile
  <2>3. lock[r].owner = p
    BY <2>1 DEF Shape, Filling
  <2>4. lock[r] # Free
    BY <2>3, StoreAssumption DEF Free
  <2> QED
    BY <1>1, <2>1, <2>2, <2>4 DEF StoreShape
<1>10. CASE Mark(p)
  <2>1. /\ pc[p] = "mark" /\ UNCHANGED <<dirs, lock>>
        /\ marker' = [marker EXCEPT ![r] = tx[p]] \/ marker' = marker
    BY <1>10 DEF Mark, Undone, Throw, Goto, locks
  <2>2. tx[p].rec = r /\ tx[p].ev \in Event
    BY <1>4, <2>1 DEF Holding, Appending
  <2> QED
    BY <1>1, <1>3, <2>1, <2>2 DEF StoreShape
<1>11. ASSUME pc[p] \in Appending, UNCHANGED <<marker, lock>>,
              \A d \in dirs'[r] : d.tx = tx[p] \/ \E c \in dirs[r] : d.tx = c.tx
       PROVE  StoreShape(r)'
  BY <1>1, <1>4, <1>11 DEF StoreShape, Holding
<1>12. CASE Compare(p)
  <2>1. Staging(tx[p], log[r], index, FALSE).tx = tx[p]
    BY DEF Staging
  <2>2. dirs'[r] = dirs[r] \/ dirs'[r] = dirs[r] \cup {Staging(tx[p], log[r], index, FALSE)}
    BY <1>3, <1>12 DEF Compare
  <2>4. \A d \in dirs'[r] : d.tx = tx[p] \/ \E c \in dirs[r] : d.tx = c.tx
    BY <2>1, <2>2
  <2>3. pc[p] \in Appending /\ UNCHANGED <<marker, lock>>
    BY <1>12 DEF Compare, Appending, locks
  <2> QED
    BY <1>11, <2>4, <2>3
<1>13. CASE Stage(p)
  <2>1. Staging(tx[p], base[p].log, base[p].index, TRUE).tx = tx[p]
    BY DEF Staging
  <2>2. \/ dirs'[r] = dirs[r]
        \/ dirs'[r] = (dirs[r] \ {d \in Dirs(r, tx[p]) : ~d.promoted})
                        \cup {Staging(tx[p], base[p].log, base[p].index, TRUE)}
    BY <1>3, <1>13 DEF Stage
  <2>4. \A d \in dirs'[r] : d.tx = tx[p] \/ \E c \in dirs[r] : d.tx = c.tx
    BY <2>1, <2>2
  <2>3. pc[p] \in Appending /\ UNCHANGED <<marker, lock>>
    BY <1>13 DEF Stage, Appending, locks
  <2> QED
    BY <1>11, <2>4, <2>3
<1>14. CASE Rename(p)
  <2>1. \A c \in dirs[r] : [c EXCEPT !.promoted = TRUE].tx = c.tx
    BY DEF TypeOK, Dir
  <2>2. PICK S \in SUBSET dirs[r] :
             dirs'[r] = dirs[r] \/ dirs'[r] = (dirs[r] \ S) \cup {[d EXCEPT !.promoted = TRUE] : d \in S}
    <3>1. {d \in Dirs(r, tx[p]) : ~d.promoted} \in SUBSET dirs[r]
      BY DEF Dirs
    <3> QED
      BY <1>3, <1>14, <3>1 DEF Rename
  <2>4. \A d \in dirs'[r] : d.tx = tx[p] \/ \E c \in dirs[r] : d.tx = c.tx
    BY <2>1, <2>2
  <2>3. pc[p] \in Appending /\ UNCHANGED <<marker, lock>>
    BY <1>14 DEF Rename, Appending, locks
  <2> QED
    BY <1>11, <2>4, <2>3
<1>15. CASE Clear(p)
  <2>1. RecoveryDirs(r, tx[p]) \in SUBSET dirs[r]
    BY DEF RecoveryDirs, Dirs
  <2> QED
    BY <1>7, <1>15, <2>1 DEF Clear, locks
<1>16. CASE DropPromoted(p)
  BY <1>7, <1>16 DEF DropPromoted, Dirs, locks
<1>17. CASE DropStaging(p)
  BY <1>7, <1>17 DEF DropStaging, Dirs, locks
<1>18. CASE FreeLock(p)
  BY <1>6, <1>18 DEF FreeLock, ReleaseLock, files
<1>19. CASE ReleaseOwn(p)
  BY <1>6, <1>19 DEF ReleaseOwn, ReleaseLock, files
<1>20. CASE Crash(p)
  <2>1. UNCHANGED <<dirs, marker>> /\ lock'[r] = Orphan(lock[r], p)
    BY <1>20 DEF Crash, files
  <2>2. lock'[r].tx = lock[r].tx /\ (lock[r] = Free => lock'[r] = Free)
    BY <1>1, <2>1, StoreAssumption DEF Orphan, LockFile, Free
  <2> QED
    BY <1>1, <2>1, <2>2 DEF StoreShape
<1> USE DEF files, locks
<1>21. CASE Call(p)
  BY <1>21, <1>5 DEF Call, Ask
<1>22. CASE Look(p)
  BY <1>22, <1>5 DEF Look
<1>23. CASE Inspect(p)
  BY <1>23, <1>5 DEF Inspect
<1>24. CASE Redo(p)
  BY <1>24, <1>5 DEF Redo
<1>25. CASE Undo(p)
  BY <1>25, <1>5 DEF Undo
<1>26. CASE FreeIndex(p)
  BY <1>26, <1>5 DEF FreeIndex
<1>27. CASE Before(p)
  BY <1>27, <1>5 DEF Before
<1>28. CASE OpenIndex(p)
  BY <1>28, <1>5 DEF OpenIndex
<1>29. CASE FillIndex(p)
  BY <1>29, <1>5 DEF FillIndex
<1>30. CASE Promote(p)
  BY <1>30, <1>5 DEF Promote
<1>31. CASE Rollback(p)
  BY <1>31, <1>5 DEF Rollback
<1>32. CASE ReadRecord(p)
  BY <1>32, <1>5 DEF ReadRecord
<1>33. CASE ReadLog(p)
  BY <1>33, <1>5 DEF ReadLog
<1>34. CASE Release(p)
  BY <1>34, <1>5 DEF Release
<1>35. CASE Return(p)
  BY <1>35, <1>5 DEF Return
<1>36. CASE Fail(p)
  BY <1>36, <1>5 DEF Fail
<1> QED
  BY StepKinds, <1>21, <1>22, <1>23, <1>24, <1>25, <1>15, <1>26, <1>18, <1>27, <1>8, <1>9,
     <1>28, <1>29, <1>12, <1>13, <1>30, <1>14, <1>10, <1>31, <1>16, <1>17, <1>32, <1>33,
     <1>34, <1>19, <1>35, <1>36, <1>20

(* A lock file that its process has still to fill is that process's: none   *)
(* that is not written is ever released, and none is opened over it.       *)
LEMMA FillingStep ==
  ASSUME TypeOK, Shape, NEW p \in Proc, Act(p), NEW q \in Proc
  PROVE  Filling(q)'
<1>1. Filling(p) /\ Filling(q)
  BY DEF Shape
<1>2. /\ DOMAIN lock = Record /\ \A r \in Record : lock[r] \in LockFile
      /\ DOMAIN pc = Proc /\ DOMAIN want = Proc
      /\ pc[p] # "idle" => Rec(p) \in Record
      /\ pc[q] # "idle" => Rec(q) \in Record
  BY DEF TypeOK, Shape, CallShape, Rec
<1>3. CASE q # p
  <2>1. pc'[q] = pc[q] /\ want'[q] = want[q]
    BY <1>3, OthersUnmoved
  <2> SUFFICES ASSUME pc[q] = "fill"
               PROVE  lock'[Rec(q)].owner = q /\ ~lock'[Rec(q)].written
    BY <2>1 DEF Filling, Rec
  <2>2. Rec(q) \in Record /\ lock[Rec(q)].owner = q /\ ~lock[Rec(q)].written /\ q # Nobody
    BY <1>1, <1>2, StoreAssumption DEF Filling
  <2>3. lock[Rec(q)] # Free
    BY <2>2 DEF Free
  <2>4. ASSUME lock'[Rec(q)] = lock[Rec(q)] PROVE lock'[Rec(q)].owner = q /\ ~lock'[Rec(q)].written
    BY <2>2, <2>4
  <2>5. CASE Open(p)
    <3>1. pc[p] = "open" /\ (lock[Rec(p)] = Free => Rec(p) # Rec(q)) /\ Rec(p) \in Record
      BY <1>2, <2>3, <2>5 DEF Open
    <3>2. lock'[Rec(q)] = lock[Rec(q)]
      BY <1>2, <2>2, <2>5, <3>1 DEF Open
    <3> QED
      BY <2>4, <3>2
  <2>6. CASE Fill(p)
    <3>1. pc[p] = "fill" /\ lock' = [lock EXCEPT ![Rec(p)].written = TRUE]
      BY <2>6 DEF Fill
    <3>2. Rec(p) \in Record /\ Rec(p) # Rec(q)
      BY <1>1, <1>2, <1>3, <2>2, <3>1 DEF Filling
    <3>3. lock'[Rec(q)] = lock[Rec(q)]
      BY <1>2, <2>2, <3>1, <3>2
    <3> QED
      BY <2>4, <3>3
  <2>7. ASSUME ReleaseLock(Rec(p), tx[p]), Rec(p) \in Record
        PROVE  lock'[Rec(q)].owner = q /\ ~lock'[Rec(q)].written
    <3>1. lock'[Rec(q)] = lock[Rec(q)]
      BY <1>2, <2>2, <2>7 DEF ReleaseLock, Owned
    <3> QED
      BY <2>4, <3>1
  <2>8. CASE FreeLock(p)
    BY <1>2, <2>7, <2>8, Zenon DEF FreeLock
  <2>9. CASE ReleaseOwn(p)
    BY <1>2, <2>7, <2>9, Zenon DEF ReleaseOwn
  <2>10. CASE Crash(p)
    <3>1. lock'[Rec(q)] = Orphan(lock[Rec(q)], p)
      BY <2>2, <2>10 DEF Crash
    <3>2. lock'[Rec(q)] = lock[Rec(q)]
      BY <1>3, <2>2, <3>1 DEF Orphan
    <3> QED
      BY <2>4, <3>2
  <2> USE DEF locks
<2>11. CASE Call(p)
    BY <2>11, <2>4 DEF Call, Ask
  <2>12. CASE Look(p)
    BY <2>12, <2>4 DEF Look
  <2>13. CASE Inspect(p)
    BY <2>13, <2>4 DEF Inspect
  <2>14. CASE Redo(p)
    BY <2>14, <2>4 DEF Redo
  <2>15. CASE Undo(p)
    BY <2>15, <2>4 DEF Undo
  <2>16. CASE Clear(p)
    BY <2>16, <2>4 DEF Clear
  <2>17. CASE FreeIndex(p)
    BY <2>17, <2>4 DEF FreeIndex
  <2>18. CASE Before(p)
    BY <2>18, <2>4 DEF Before
  <2>19. CASE OpenIndex(p)
    BY <2>19, <2>4 DEF OpenIndex
  <2>20. CASE FillIndex(p)
    BY <2>20, <2>4 DEF FillIndex
  <2>21. CASE Compare(p)
    BY <2>21, <2>4 DEF Compare
  <2>22. CASE Stage(p)
    BY <2>22, <2>4 DEF Stage
  <2>23. CASE Promote(p)
    BY <2>23, <2>4 DEF Promote
  <2>24. CASE Rename(p)
    BY <2>24, <2>4 DEF Rename
  <2>25. CASE Mark(p)
    BY <2>25, <2>4 DEF Mark
  <2>26. CASE Rollback(p)
    BY <2>26, <2>4 DEF Rollback
  <2>27. CASE DropPromoted(p)
    BY <2>27, <2>4 DEF DropPromoted
  <2>28. CASE DropStaging(p)
    BY <2>28, <2>4 DEF DropStaging
  <2>29. CASE ReadRecord(p)
    BY <2>29, <2>4 DEF ReadRecord
  <2>30. CASE ReadLog(p)
    BY <2>30, <2>4 DEF ReadLog
  <2>31. CASE Release(p)
    BY <2>31, <2>4 DEF Release
  <2>32. CASE Return(p)
    BY <2>32, <2>4 DEF Return
  <2>33. CASE Fail(p)
    BY <2>33, <2>4 DEF Fail
  <2> QED
    BY StepKinds, <2>11, <2>12, <2>13, <2>14, <2>15, <2>16, <2>17, <2>8, <2>18, <2>5, <2>6,
       <2>19, <2>20, <2>21, <2>22, <2>23, <2>24, <2>25, <2>26, <2>27, <2>28, <2>29, <2>30,
       <2>31, <2>9, <2>32, <2>33, <2>10
<1> SUFFICES ASSUME q = p, pc'[p] = "fill" PROVE Filling(p)'
  BY <1>3 DEF Filling
<1>4. CASE Open(p)
  BY <1>2, <1>4 DEF Open, Throw, Goto, Filling, Rec
<1>5. pc'[p] # "fill" \/ Open(p)
  <2> USE <1>2 DEF Goto, Throw, Undone, Reset, RemoveDir, Advance
  <2>1. CASE Call(p)
    BY <2>1, <1>2 DEF Call, Ask
  <2>2. CASE Look(p)
    BY <2>2, <1>2 DEF Look
  <2>3. CASE Inspect(p)
    BY <2>3, <1>2 DEF Inspect
  <2>4. CASE Redo(p)
    BY <2>4, <1>2 DEF Redo
  <2>5. CASE Undo(p)
    BY <2>5, <1>2 DEF Undo
  <2>6. CASE Clear(p)
    BY <2>6, <1>2 DEF Clear
  <2>7. CASE FreeIndex(p)
    BY <2>7, <1>2 DEF FreeIndex
  <2>8. CASE FreeLock(p)
    BY <2>8, <1>2 DEF FreeLock
  <2>9. CASE Before(p)
    BY <2>9, <1>2 DEF Before
  <2>10. CASE Fill(p)
    BY <2>10, <1>2 DEF Fill
  <2>11. CASE OpenIndex(p)
    BY <2>11, <1>2 DEF OpenIndex
  <2>12. CASE FillIndex(p)
    BY <2>12, <1>2 DEF FillIndex
  <2>13. CASE Compare(p)
    BY <2>13, <1>2 DEF Compare
  <2>14. CASE Stage(p)
    BY <2>14, <1>2 DEF Stage
  <2>15. CASE Promote(p)
    BY <2>15, <1>2 DEF Promote
  <2>16. CASE Rename(p)
    BY <2>16, <1>2 DEF Rename
  <2>17. CASE Mark(p)
    BY <2>17, <1>2 DEF Mark
  <2>18. CASE Rollback(p)
    BY <2>18, <1>2 DEF Rollback
  <2>19. CASE DropPromoted(p)
    BY <2>19, <1>2 DEF DropPromoted
  <2>20. CASE DropStaging(p)
    BY <2>20, <1>2 DEF DropStaging
  <2>21. CASE ReadRecord(p)
    BY <2>21, <1>2 DEF ReadRecord
  <2>22. CASE ReadLog(p)
    BY <2>22, <1>2 DEF ReadLog
  <2>23. CASE Release(p)
    BY <2>23, <1>2 DEF Release
  <2>24. CASE ReleaseOwn(p)
    BY <2>24, <1>2 DEF ReleaseOwn
  <2>25. CASE Return(p)
    BY <2>25, <1>2 DEF Return
  <2>26. CASE Fail(p)
    BY <2>26, <1>2 DEF Fail
  <2>27. CASE Crash(p)
    BY <2>27, <1>2 DEF Crash
  <2> QED
    BY StepKinds, <2>1, <2>2, <2>3, <2>4, <2>5, <2>6, <2>7, <2>8, <2>9, <2>10, <2>11,
       <2>12, <2>13, <2>14, <2>15, <2>16, <2>17, <2>18, <2>19, <2>20, <2>21, <2>22, <2>23,
       <2>24, <2>25, <2>26, <2>27
<1> QED
  BY <1>4, <1>5

(* A step that writes nothing keeps the shape.                              *)
LEMMA ShapeStutters ==
  ASSUME TypeOK, Shape, UNCHANGED vars
  PROVE  TypeOK' /\ Shape'
<1> USE DEF vars, files, locks
<1>1. TypeOK'
  BY DEF TypeOK
<1>2. \A p \in Proc : CallShape(p)'
  BY DEF Shape, CallShape, Rec, Reading, Recovering
<1>3. \A p \in Proc : Filling(p)'
  BY DEF Shape, Filling, Rec
<1>4. \A r \in Record : StoreShape(r)'
  BY DEF Shape, StoreShape
<1> QED
  BY <1>2, <1>3, <1>1, <1>4 DEF Shape

(* The shape is inductive.                                                 *)
LEMMA ShapeStep ==
  ASSUME TypeOK, Shape, [Next]_vars
  PROVE  TypeOK' /\ Shape'
<1>1. ASSUME NEW p \in Proc, Act(p) PROVE TypeOK' /\ Shape'
  <2>1. FilesTyped' /\ DirsTyped' /\ MarkerTyped' /\ LocksTyped' /\ ControlTyped' /\ MemoryTyped'
    <3>1. FilesTyped' /\ DirsTyped'
      BY <1>1, FilesStep, DirsStep
    <3>2. MarkerTyped' /\ LocksTyped'
      BY <1>1, MarkerStep, LocksStep
    <3>3. ControlTyped' /\ MemoryTyped'
      BY <1>1, ControlStep, MemoryStep
    <3> QED
      BY <3>1, <3>2, <3>3
  <2>2. TypeOK'
    BY <2>1, Types, PTL
  <2>3. \A q \in Proc : CallShape(q)' /\ Filling(q)'
    BY <1>1, CallShapeStep, FillingStep
  <2>4. \A r \in Record : StoreShape(r)'
    BY <1>1, StoreShapeStep
  <2> QED
    BY <2>2, <2>3, <2>4 DEF Shape
<1>2. CASE UNCHANGED vars
  BY <1>2, ShapeStutters
<1> QED
  BY <1>1, <1>2 DEF Next, Act

(* At the start every call is idle and every file is missing.              *)
LEMMA ShapeInit == Init => TypeOK /\ Shape
<1> SUFFICES ASSUME Init PROVE TypeOK /\ Shape
  OBVIOUS
<1>1. /\ <<>> \in Seq(Event) /\ <<>> \in Seq(Entry)
      /\ NoTx \in Tx /\ Free \in LockFile
  <2>1. <<>> \in Seq(Event) /\ <<>> \in Seq(Entry)
    OBVIOUS
  <2>2. NoTx \in Tx
    BY <2>1 DEF NoTx, Tx
  <2> QED
    BY <2>1, <2>2 DEF Free, LockFile
<1>2. FilesTyped /\ DirsTyped /\ MarkerTyped /\ LocksTyped
  BY <1>1 DEF Init, FilesTyped, DirsTyped, MarkerTyped, LocksTyped
<1>3. ControlTyped
  BY DEF Init, ControlTyped, Location, FileName, Outcome
<1>4. MemoryTyped
  BY <1>1 DEF Init, MemoryTyped, NoWant, NoBase, Want, Base
<1>5. TypeOK
  BY <1>2, <1>3, <1>4, Types
<1>6. \A p \in Proc : CallShape(p) /\ Filling(p)
  BY DEF Init, CallShape, Filling, Holding, Appending, Consulting, Recovering, Recovery
<1>7. \A r \in Record : StoreShape(r)
  BY DEF Init, StoreShape
<1> QED
  BY <1>5, <1>6, <1>7 DEF Shape

(* The store is typed in every behaviour, apart or not.                    *)
THEOREM StoreTyped == Spec => []TypeOK
<1>1. Init => TypeOK /\ Shape
  BY ShapeInit
<1>2. TypeOK /\ Shape /\ [Next]_vars => TypeOK' /\ Shape'
  BY ShapeStep
<1> QED
  BY <1>1, <1>2, PTL DEF Spec

(* A call works on a transaction of the record it is about, an append on   *)
(* the event it was asked for; the transaction directories, the commit     *)
(* marker and the lock file of a record name transactions of that record.  *)
THEOREM StoreShaped == Spec => []Shape
<1>1. Init => TypeOK /\ Shape
  BY ShapeInit
<1>2. TypeOK /\ Shape /\ [Next]_vars => TypeOK' /\ Shape'
  BY ShapeStep
<1> QED
  BY <1>1, <1>2, PTL DEF Spec

(* Who owns the lock files, when recoveries do not overlap.                *)
Covering == {"compare", "stage", "promote", "rename", "mark", "rollback", "dropPromoted", "dropStaging"}
Locking == Holding \cup Recovery
LockInv(p) ==
  /\ pc[p] \in Holding => /\ lock[Rec(p)].tx = tx[p] /\ lock[Rec(p)].owner = p
                          /\ pc[p] # "fill" => lock[Rec(p)].written
  /\ pc[p] \in Recovery => /\ lock[Rec(p)].tx = tx[p] /\ lock[Rec(p)].owner = Nobody
                           /\ lock[Rec(p)].written
  /\ pc[p] \in {"openIndex", "fillIndex"} => Indexes(tx[p])
  /\ pc[p] = "fillIndex" => indexLock.tx = tx[p] /\ indexLock.owner = p /\ ~indexLock.written
  /\ pc[p] \in Covering /\ Indexes(tx[p]) =>
       indexLock.tx = tx[p] /\ indexLock.owner = p /\ indexLock.written
  /\ pc[p] \in {"releaseLock", "freeLock"} => ~Owned(indexLock, tx[p])
IndexLockInv ==
  indexLock.written => /\ indexLock.tx.rec \in Record /\ Indexes(indexLock.tx)
                       /\ Owned(lock[indexLock.tx.rec], indexLock.tx)
Locks == (\A p \in Proc : LockInv(p)) /\ IndexLockInv

(* Two calls never hold or recover the same record.                        *)
LEMMA Exclusive ==
  ASSUME Locks, Serial, NEW p \in Proc, NEW q \in Proc, p # q,
         pc[p] \in Locking, pc[q] \in Locking
  PROVE  Rec(p) # Rec(q)
<1>1. LockInv(p) /\ LockInv(q) /\ p # Nobody /\ q # Nobody
  BY StoreAssumption DEF Locks
<1>2. pc[p] \in Holding \/ pc[p] \in Recovery
  BY DEF Locking
<1>3. pc[q] \in Holding \/ pc[q] \in Recovery
  BY DEF Locking
<1>4. pc[p] \in Holding => lock[Rec(p)].owner = p
  BY <1>1 DEF LockInv
<1>5. pc[q] \in Holding => lock[Rec(q)].owner = q
  BY <1>1 DEF LockInv
<1>6. pc[p] \in Recovery => lock[Rec(p)].owner = Nobody
  BY <1>1 DEF LockInv
<1>7. pc[q] \in Recovery => lock[Rec(q)].owner = Nobody
  BY <1>1 DEF LockInv
<1>8. pc[p] \in Recovery /\ pc[q] \in Recovery => Rec(p) # Rec(q)
  BY DEF Serial, Recovering
<1> QED
  BY <1>1, <1>2, <1>3, <1>4, <1>5, <1>6, <1>7, <1>8

(* The lock a call holds or recovers is not touched by another call.       *)
LEMMA LockKept ==
  ASSUME TypeOK, Shape, Locks, Serial, NEW p \in Proc, Act(p), NEW q \in Proc, q # p,
         pc[q] \in Locking
  PROVE  lock'[Rec(q)] = lock[Rec(q)]
<1>1. LockInv(q) /\ q # Nobody
  BY StoreAssumption DEF Locks
<1>2. /\ DOMAIN lock = Record
      /\ Rec(q) \in Record
      /\ pc[p] # "idle" => Rec(p) \in Record
  <2>1. pc[q] # "idle"
    BY DEF Locking, Holding, Appending, Consulting, Recovery
  <2> QED
    BY <2>1 DEF TypeOK, Shape, CallShape, Rec
<1>3. lock[Rec(q)].owner \in {q, Nobody}
  <2>1. pc[q] \in Holding \/ pc[q] \in Recovery
    BY DEF Locking
  <2> QED
    BY <1>1, <2>1 DEF LockInv
<1>4. lock[Rec(q)] # Free
  <2>1. CASE pc[q] \in Holding
    BY <1>1, <2>1 DEF LockInv, Free
  <2>2. CASE pc[q] \in Recovery
    BY <1>1, <2>2 DEF LockInv, Free
  <2> QED
    BY <2>1, <2>2 DEF Locking
<1>5. pc[p] \in Locking => Rec(p) # Rec(q)
  BY Exclusive
<1>6. \A x \in {"fill", "freeLock", "releaseLock"} : x \in Locking
  BY DEF Locking, Holding, Recovery
<1>7. CASE Open(p)
  BY <1>2, <1>4, <1>7 DEF Open
<1>8. CASE Fill(p)
  <2>1. pc[p] = "fill" /\ lock' = [lock EXCEPT ![Rec(p)].written = TRUE]
    BY <1>8 DEF Fill
  <2> QED
    BY <1>2, <1>5, <1>6, <2>1
<1>9. CASE FreeLock(p)
  <2>1. pc[p] = "freeLock" /\ ReleaseLock(Rec(p), tx[p])
    BY <1>9 DEF FreeLock
  <2> QED
    BY <1>2, <1>5, <1>6, <2>1 DEF ReleaseLock
<1>10. CASE ReleaseOwn(p)
  <2>1. pc[p] = "releaseLock" /\ ReleaseLock(Rec(p), tx[p])
    BY <1>10 DEF ReleaseOwn
  <2> QED
    BY <1>2, <1>5, <1>6, <2>1 DEF ReleaseLock
<1>11. CASE Crash(p)
  <2>1. lock'[Rec(q)] = Orphan(lock[Rec(q)], p)
    BY <1>2, <1>11 DEF Crash
  <2> QED
    BY <1>3, <2>1, StoreAssumption DEF Orphan
<1> USE DEF locks
<1>12. CASE Call(p)
  BY <1>12 DEF Call, Ask
<1>13. CASE Look(p)
  BY <1>13 DEF Look
<1>14. CASE Inspect(p)
  BY <1>14 DEF Inspect
<1>15. CASE Redo(p)
  BY <1>15 DEF Redo
<1>16. CASE Undo(p)
  BY <1>16 DEF Undo
<1>17. CASE Clear(p)
  BY <1>17 DEF Clear
<1>18. CASE FreeIndex(p)
  BY <1>18 DEF FreeIndex
<1>19. CASE Before(p)
  BY <1>19 DEF Before
<1>20. CASE OpenIndex(p)
  BY <1>20 DEF OpenIndex
<1>21. CASE FillIndex(p)
  BY <1>21 DEF FillIndex
<1>22. CASE Compare(p)
  BY <1>22 DEF Compare
<1>23. CASE Stage(p)
  BY <1>23 DEF Stage
<1>24. CASE Promote(p)
  BY <1>24 DEF Promote
<1>25. CASE Rename(p)
  BY <1>25 DEF Rename
<1>26. CASE Mark(p)
  BY <1>26 DEF Mark
<1>27. CASE Rollback(p)
  BY <1>27 DEF Rollback
<1>28. CASE DropPromoted(p)
  BY <1>28 DEF DropPromoted
<1>29. CASE DropStaging(p)
  BY <1>29 DEF DropStaging
<1>30. CASE ReadRecord(p)
  BY <1>30 DEF ReadRecord
<1>31. CASE ReadLog(p)
  BY <1>31 DEF ReadLog
<1>32. CASE Release(p)
  BY <1>32 DEF Release
<1>33. CASE Return(p)
  BY <1>33 DEF Return
<1>34. CASE Fail(p)
  BY <1>34 DEF Fail
<1> QED
  BY StepKinds, <1>12, <1>13, <1>14, <1>15, <1>16, <1>17, <1>18, <1>9, <1>19, <1>7, <1>8,
     <1>20, <1>21, <1>22, <1>23, <1>24, <1>25, <1>26, <1>27, <1>28, <1>29, <1>30, <1>31,
     <1>32, <1>10, <1>33, <1>34, <1>11

(* Nor is the index lock that a call is filling or covered by.             *)
LEMMA IndexLockKept ==
  ASSUME TypeOK, Shape, Locks, Serial, NEW p \in Proc, Act(p), NEW q \in Proc, q # p,
         pc[q] = "fillIndex" \/ (pc[q] \in Covering /\ Indexes(tx[q]))
  PROVE  indexLock' = indexLock
<1>1. indexLock.tx = tx[q] /\ indexLock.owner = q
  BY DEF Locks, LockInv
<1>2. q # Nobody /\ pc[q] \in Locking
  BY StoreAssumption DEF Locking, Holding, Appending, Covering
<1>3. tx[q].rec = Rec(q)
  <2>1. pc[q] \in Holding
    BY DEF Holding, Appending, Covering
  <2> QED
    BY <2>1 DEF Shape, CallShape
<1>4. pc[p] \in Locking => tx[p] # tx[q]
  <2>1. pc[p] \in Locking => tx[p].rec = Rec(p)
    BY DEF Locking, Shape, CallShape, Recovering
  <2> QED
    BY <1>2, <1>3, <2>1, Exclusive
<1>5. \A x \in {"settle", "freeIndex", "release"} : x \in Locking
  BY DEF Locking, Holding, Recovery
<1>6. CASE OpenIndex(p)
  BY <1>1, <1>2, <1>6 DEF OpenIndex, Free
<1>7. CASE FillIndex(p)
  <2>1. pc[p] = "fillIndex"
    BY <1>7 DEF FillIndex
  <2>2. indexLock.owner = p
    BY <2>1 DEF Locks, LockInv
  <2> QED
    BY <1>1, <2>2
<1>8. CASE FreeIndex(p)
  BY <1>1, <1>4, <1>5, <1>8 DEF FreeIndex, ReleaseIndex, Owned
<1>9. CASE Release(p)
  BY <1>1, <1>4, <1>5, <1>9 DEF Release, ReleaseIndex, Owned
<1>10. CASE Crash(p)
  BY <1>1, <1>10 DEF Crash, Orphan
<1> USE DEF locks
<1>11. CASE Call(p)
  BY <1>11 DEF Call, Ask
<1>12. CASE Look(p)
  BY <1>12 DEF Look
<1>13. CASE Inspect(p)
  BY <1>13 DEF Inspect
<1>14. CASE Redo(p)
  BY <1>14 DEF Redo
<1>15. CASE Undo(p)
  BY <1>15 DEF Undo
<1>16. CASE Clear(p)
  BY <1>16 DEF Clear
<1>17. CASE FreeLock(p)
  BY <1>17 DEF FreeLock
<1>18. CASE Before(p)
  BY <1>18 DEF Before
<1>19. CASE Open(p)
  BY <1>19 DEF Open
<1>20. CASE Fill(p)
  BY <1>20 DEF Fill
<1>21. CASE Compare(p)
  BY <1>21 DEF Compare
<1>22. CASE Stage(p)
  BY <1>22 DEF Stage
<1>23. CASE Promote(p)
  BY <1>23 DEF Promote
<1>24. CASE Rename(p)
  BY <1>24 DEF Rename
<1>25. CASE Mark(p)
  BY <1>25 DEF Mark
<1>26. CASE Rollback(p)
  BY <1>26 DEF Rollback
<1>27. CASE DropPromoted(p)
  BY <1>27 DEF DropPromoted
<1>28. CASE DropStaging(p)
  BY <1>28 DEF DropStaging
<1>29. CASE ReadRecord(p)
  BY <1>29 DEF ReadRecord
<1>30. CASE ReadLog(p)
  BY <1>30 DEF ReadLog
<1>31. CASE ReleaseOwn(p)
  BY <1>31 DEF ReleaseOwn
<1>32. CASE Return(p)
  BY <1>32 DEF Return
<1>33. CASE Fail(p)
  BY <1>33 DEF Fail
<1> QED
  BY StepKinds, <1>11, <1>12, <1>13, <1>14, <1>15, <1>16, <1>8, <1>17, <1>18, <1>19, <1>20,
     <1>6, <1>7, <1>21, <1>22, <1>23, <1>24, <1>25, <1>26, <1>27, <1>28, <1>29, <1>30, <1>9,
     <1>31, <1>32, <1>33, <1>10

(* The index lock is written by the call that opened it, and by no other.  *)
LEMMA IndexLockWritten ==
  ASSUME TypeOK, Shape, Locks, NEW p \in Proc, Act(p), indexLock'.written
  PROVE  \/ indexLock.written /\ indexLock'.tx = indexLock.tx
         \/ pc[p] = "fillIndex" /\ indexLock'.tx = tx[p] /\ Indexes(tx[p])
<1>1. indexLock \in LockFile
  BY DEF TypeOK
<1>2. CASE FillIndex(p)
  BY <1>1, <1>2 DEF FillIndex, Locks, LockInv, LockFile
<1>3. CASE Crash(p)
  BY <1>1, <1>3 DEF Crash, Orphan, LockFile
<1> USE DEF locks, Free, ReleaseIndex
<1>4. CASE Call(p)
  BY <1>4, <1>1 DEF Call, Ask
<1>5. CASE Look(p)
  BY <1>5, <1>1 DEF Look
<1>6. CASE Inspect(p)
  BY <1>6, <1>1 DEF Inspect
<1>7. CASE Redo(p)
  BY <1>7, <1>1 DEF Redo
<1>8. CASE Undo(p)
  BY <1>8, <1>1 DEF Undo
<1>9. CASE Clear(p)
  BY <1>9, <1>1 DEF Clear
<1>10. CASE FreeIndex(p)
  BY <1>10, <1>1 DEF FreeIndex
<1>11. CASE FreeLock(p)
  BY <1>11, <1>1 DEF FreeLock
<1>12. CASE Before(p)
  BY <1>12, <1>1 DEF Before
<1>13. CASE Open(p)
  BY <1>13, <1>1 DEF Open
<1>14. CASE Fill(p)
  BY <1>14, <1>1 DEF Fill
<1>15. CASE OpenIndex(p)
  BY <1>15, <1>1 DEF OpenIndex
<1>16. CASE Compare(p)
  BY <1>16, <1>1 DEF Compare
<1>17. CASE Stage(p)
  BY <1>17, <1>1 DEF Stage
<1>18. CASE Promote(p)
  BY <1>18, <1>1 DEF Promote
<1>19. CASE Rename(p)
  BY <1>19, <1>1 DEF Rename
<1>20. CASE Mark(p)
  BY <1>20, <1>1 DEF Mark
<1>21. CASE Rollback(p)
  BY <1>21, <1>1 DEF Rollback
<1>22. CASE DropPromoted(p)
  BY <1>22, <1>1 DEF DropPromoted
<1>23. CASE DropStaging(p)
  BY <1>23, <1>1 DEF DropStaging
<1>24. CASE ReadRecord(p)
  BY <1>24, <1>1 DEF ReadRecord
<1>25. CASE ReadLog(p)
  BY <1>25, <1>1 DEF ReadLog
<1>26. CASE Release(p)
  BY <1>26, <1>1 DEF Release
<1>27. CASE ReleaseOwn(p)
  BY <1>27, <1>1 DEF ReleaseOwn
<1>28. CASE Return(p)
  BY <1>28, <1>1 DEF Return
<1>29. CASE Fail(p)
  BY <1>29, <1>1 DEF Fail
<1> QED
  BY StepKinds, <1>4, <1>5, <1>6, <1>7, <1>8, <1>9, <1>10, <1>11, <1>12, <1>13, <1>14,
     <1>15, <1>2, <1>16, <1>17, <1>18, <1>19, <1>20, <1>21, <1>22, <1>23, <1>24, <1>25,
     <1>26, <1>27, <1>28, <1>29, <1>3

(* What a call knows of the locks outlives the steps of the others.        *)
LEMMA LockInvElsewhere ==
  ASSUME TypeOK, Shape, Locks, Serial, NEW p \in Proc, Act(p), NEW q \in Proc, q # p
  PROVE  LockInv(q)'
<1>1. pc'[q] = pc[q] /\ tx'[q] = tx[q] /\ Rec(q)' = Rec(q)
  BY OthersUnmoved DEF Rec
<1>2. LockInv(q)
  BY DEF Locks
<1>3. pc[q] \in Locking => lock'[Rec(q)] = lock[Rec(q)]
  BY LockKept
<1>4. pc[q] = "fillIndex" \/ (pc[q] \in Covering /\ Indexes(tx[q])) => indexLock' = indexLock
  BY IndexLockKept
<1>5. pc[q] \in {"releaseLock", "freeLock"} => ~Owned(indexLock', tx[q])
  <2> SUFFICES ASSUME pc[q] \in {"releaseLock", "freeLock"}, indexLock'.written, indexLock'.tx = tx[q]
               PROVE  FALSE
    BY DEF Owned
  <2>1. ~Owned(indexLock, tx[q])
    BY <1>2 DEF LockInv
  <2>2. pc[p] = "fillIndex" /\ tx[p] = tx[q]
    BY <2>1, IndexLockWritten DEF Owned
  <2>3. pc[p] \in Locking /\ pc[q] \in Locking
    BY <2>2 DEF Locking, Holding, Appending, Recovery
  <2>4. tx[p].rec = Rec(p) /\ tx[q].rec = Rec(q)
    BY <2>3 DEF Locking, Shape, CallShape, Recovering
  <2> QED
    BY <2>2, <2>3, <2>4, Exclusive
<1>6. (pc[q] \in Holding \/ pc[q] \in Recovery) => pc[q] \in Locking
  BY DEF Locking
<1>7. /\ pc[q] \in Holding => /\ lock'[Rec(q)].tx = tx[q] /\ lock'[Rec(q)].owner = q
                              /\ pc[q] # "fill" => lock'[Rec(q)].written
      /\ pc[q] \in Recovery => /\ lock'[Rec(q)].tx = tx[q] /\ lock'[Rec(q)].owner = Nobody
                               /\ lock'[Rec(q)].written
  BY <1>2, <1>3, <1>6 DEF LockInv
<1>8. /\ pc[q] \in {"openIndex", "fillIndex"} => Indexes(tx[q])
      /\ pc[q] = "fillIndex" =>
           indexLock'.tx = tx[q] /\ indexLock'.owner = q /\ ~indexLock'.written
      /\ pc[q] \in Covering /\ Indexes(tx[q]) =>
           indexLock'.tx = tx[q] /\ indexLock'.owner = q /\ indexLock'.written
  BY <1>2, <1>4 DEF LockInv
<1> QED
  BY <1>1, <1>5, <1>7, <1>8 DEF LockInv, Owned, Indexes

(* A call keeps the locks it works under, to the step that releases them.  *)
LEMMA LockInvOwn ==
  ASSUME TypeOK, Shape, Locks, Serial, NEW p \in Proc, Act(p)
  PROVE  LockInv(p)'
<1>1. LockInv(p) /\ IndexLockInv
  BY DEF Locks
<1>2. /\ DOMAIN lock = Record /\ DOMAIN pc = Proc /\ DOMAIN want = Proc /\ DOMAIN tx = Proc
      /\ \A r \in Record : lock[r] \in LockFile
      /\ indexLock \in LockFile
      /\ pc[p] # "idle" => Rec(p) \in Record
  BY DEF TypeOK, Shape, CallShape, Rec
<1> USE DEF LockInv, Goto, Throw, Undone, Reset, RemoveDir, Advance, Rec, Holding, Appending,
            Consulting, Recovery, Covering
<1>3. CASE Look(p)
  BY <1>1, <1>2, <1>3 DEF Look, Stale, locks
<1>4. CASE Inspect(p)
  BY <1>1, <1>2, <1>4 DEF Inspect, locks
<1>5. CASE Before(p)
  BY <1>1, <1>2, <1>5 DEF Before, locks
<1>6. CASE FreeIndex(p)
  BY <1>1, <1>2, <1>6 DEF FreeIndex, ReleaseIndex, Owned, Free, IndexLockInv
<1>7. CASE Open(p)
  BY <1>1, <1>2, <1>7 DEF Open
<1>8. CASE Fill(p)
  <2>1. /\ lock' = [lock EXCEPT ![Rec(p)].written = TRUE] /\ pc[p] = "fill"
        /\ UNCHANGED <<indexLock, tx, want>>
        /\ pc' = [pc EXCEPT ![p] = IF Reading(p) THEN "read"
                               ELSE IF Indexes(tx[p]) THEN "openIndex" ELSE "compare"]
    BY <1>8 DEF Fill
  <2>2. lock'[Rec(p)].tx = lock[Rec(p)].tx /\ lock'[Rec(p)].owner = lock[Rec(p)].owner
        /\ lock'[Rec(p)].written
    BY <1>2, <2>1 DEF LockFile
  <2> QED
    BY <1>1, <1>2, <2>1, <2>2
<1>9. CASE FillIndex(p)
  <2>1. indexLock'.tx = indexLock.tx /\ indexLock'.owner = indexLock.owner /\ indexLock'.written
    BY <1>2, <1>9 DEF FillIndex, LockFile
  <2> QED
    BY <1>1, <1>2, <1>9, <2>1 DEF FillIndex
<1>10. CASE Release(p)
  BY <1>1, <1>2, <1>10 DEF Release, ReleaseIndex, Owned, Free, IndexLockInv
<1> USE DEF locks
<1>11. CASE Call(p)
  BY <1>11, <1>1, <1>2 DEF Call, Ask
<1>12. CASE Redo(p)
  BY <1>12, <1>1, <1>2 DEF Redo
<1>13. CASE Undo(p)
  BY <1>13, <1>1, <1>2 DEF Undo
<1>14. CASE Clear(p)
  BY <1>14, <1>1, <1>2 DEF Clear
<1>15. CASE FreeLock(p)
  BY <1>15, <1>1, <1>2 DEF FreeLock
<1>16. CASE OpenIndex(p)
  BY <1>16, <1>1, <1>2 DEF OpenIndex
<1>17. CASE Compare(p)
  BY <1>17, <1>1, <1>2 DEF Compare
<1>18. CASE Stage(p)
  BY <1>18, <1>1, <1>2 DEF Stage
<1>19. CASE Promote(p)
  BY <1>19, <1>1, <1>2 DEF Promote
<1>20. CASE Rename(p)
  BY <1>20, <1>1, <1>2 DEF Rename
<1>21. CASE Mark(p)
  BY <1>21, <1>1, <1>2 DEF Mark
<1>22. CASE Rollback(p)
  BY <1>22, <1>1, <1>2 DEF Rollback
<1>23. CASE DropPromoted(p)
  BY <1>23, <1>1, <1>2 DEF DropPromoted
<1>24. CASE DropStaging(p)
  BY <1>24, <1>1, <1>2 DEF DropStaging
<1>25. CASE ReadRecord(p)
  BY <1>25, <1>1, <1>2 DEF ReadRecord
<1>26. CASE ReadLog(p)
  BY <1>26, <1>1, <1>2 DEF ReadLog
<1>27. CASE ReleaseOwn(p)
  BY <1>27, <1>1, <1>2 DEF ReleaseOwn
<1>28. CASE Return(p)
  BY <1>28, <1>1, <1>2 DEF Return
<1>29. CASE Fail(p)
  BY <1>29, <1>1, <1>2 DEF Fail
<1>30. CASE Crash(p)
  BY <1>30, <1>1, <1>2 DEF Crash
<1> QED
  BY StepKinds, <1>11, <1>3, <1>4, <1>12, <1>13, <1>14, <1>6, <1>15, <1>5, <1>7, <1>8,
     <1>16, <1>9, <1>17, <1>18, <1>19, <1>20, <1>21, <1>22, <1>23, <1>24, <1>25, <1>26,
     <1>10, <1>27, <1>28, <1>29, <1>30

(* A filled index lock belongs to the transaction whose record is locked.  *)
LEMMA IndexLockStep ==
  ASSUME TypeOK, Shape, Locks, Serial, NEW p \in Proc, Act(p)
  PROVE  IndexLockInv'
<1> SUFFICES ASSUME indexLock'.written
             PROVE  /\ indexLock'.tx.rec \in Record /\ Indexes(indexLock'.tx)
                    /\ Owned(lock'[indexLock'.tx.rec], indexLock'.tx)
  BY DEF IndexLockInv, Owned, Indexes
<1>1. LockInv(p) /\ IndexLockInv
  BY DEF Locks
<1>2. /\ DOMAIN lock = Record
      /\ \A r \in Record : lock[r] \in LockFile
      /\ pc[p] # "idle" => Rec(p) \in Record
      /\ pc[p] \in Locking => tx[p].rec = Rec(p)
  BY DEF TypeOK, Shape, CallShape, Rec, Locking, Recovering
<1>3. \A x \in {"fill", "fillIndex", "freeLock", "releaseLock"} : x \in Locking
  BY DEF Locking, Holding, Appending, Recovery
<1>4. CASE pc[p] = "fillIndex" /\ indexLock'.tx = tx[p] /\ Indexes(tx[p])
  <2>1. lock' = lock
    <3> USE DEF Goto, Throw, locks, Recovery
    <3>1. FillIndex(p) \/ Fail(p) \/ Crash(p)
      BY <1>4, StepKinds DEF Call, Ask, Look, Inspect, Redo, Undo, Clear, FreeIndex, FreeLock, Before,
         Open, Fill, OpenIndex, Compare, Stage, Promote, Rename, Mark, Rollback, DropPromoted,
         DropStaging, ReadRecord, ReadLog, Release, ReleaseOwn, Return
    <3>2. ~Crash(p)
      <4>1. ~indexLock.written
        BY <1>1, <1>4 DEF LockInv
      <4>2. indexLock \in LockFile
        BY DEF TypeOK
      <4> QED
        BY <4>1, <4>2 DEF Crash, Orphan, LockFile
    <3> QED
      BY <3>1, <3>2 DEF FillIndex, Fail
  <2>2. Owned(lock[Rec(p)], tx[p])
    BY <1>1, <1>4 DEF LockInv, Owned, Holding, Appending
  <2> QED
    BY <1>2, <1>3, <1>4, <2>1, <2>2
<1>5. CASE indexLock.written /\ indexLock'.tx = indexLock.tx
  <2> DEFINE r == indexLock.tx.rec
  <2>1. r \in Record /\ Indexes(indexLock.tx) /\ Owned(lock[r], indexLock.tx)
    BY <1>1, <1>5 DEF IndexLockInv
  <2> SUFFICES Owned(lock'[r], indexLock.tx)
    BY <1>5, <2>1
  <2> HIDE DEF r
  <2>2. lock[r].written /\ lock[r].tx = indexLock.tx /\ lock[r] # Free
    BY <2>1 DEF Owned, Free
  <2>3. ASSUME lock'[r] = lock[r] PROVE Owned(lock'[r], indexLock.tx)
    BY <2>1, <2>3
  <2>4. CASE Open(p)
    BY <1>2, <2>1, <2>2, <2>3, <2>4 DEF Open
  <2>5. CASE Fill(p)
    <3>1. lock' = [lock EXCEPT ![Rec(p)].written = TRUE] /\ Rec(p) \in Record
      BY <1>2, <2>5 DEF Fill
    <3>2. lock'[r].tx = lock[r].tx /\ lock'[r].written
      BY <1>2, <2>1, <2>2, <3>1 DEF LockFile
    <3> QED
      BY <2>2, <3>2 DEF Owned
  <2>6. ASSUME pc[p] \in {"freeLock", "releaseLock"}, ReleaseLock(Rec(p), tx[p])
        PROVE  Owned(lock'[r], indexLock.tx)
    <3>1. ~Owned(indexLock, tx[p])
      BY <1>1, <2>6 DEF LockInv
    <3>2. indexLock.tx # tx[p]
      BY <1>5, <3>1 DEF Owned
    <3>3. lock' = lock \/ (Rec(p) # r /\ lock' = [lock EXCEPT ![Rec(p)] = Free])
      BY <2>2, <2>6, <3>2 DEF ReleaseLock, Owned
    <3>4. lock'[r] = lock[r]
      BY <1>2, <1>3, <2>1, <2>6, <3>3
    <3> QED
      BY <2>3, <3>4
  <2>7. CASE FreeLock(p)
    BY <2>6, <2>7 DEF FreeLock
  <2>8. CASE ReleaseOwn(p)
    BY <2>6, <2>8 DEF ReleaseOwn
  <2>9. CASE Crash(p)
    <3>1. lock'[r] = Orphan(lock[r], p) /\ lock[r] \in LockFile
      BY <1>2, <2>1, <2>9 DEF Crash
    <3>2. lock'[r].tx = lock[r].tx /\ (lock[r].written => lock'[r].written)
      BY <3>1 DEF Orphan, LockFile
    <3> QED
      BY <2>2, <3>2 DEF Owned
  <2> USE DEF locks
  <2>10. CASE Call(p)
    BY <2>10, <2>3 DEF Call, Ask
  <2>11. CASE Look(p)
    BY <2>11, <2>3 DEF Look
  <2>12. CASE Inspect(p)
    BY <2>12, <2>3 DEF Inspect
  <2>13. CASE Redo(p)
    BY <2>13, <2>3 DEF Redo
  <2>14. CASE Undo(p)
    BY <2>14, <2>3 DEF Undo
  <2>15. CASE Clear(p)
    BY <2>15, <2>3 DEF Clear
  <2>16. CASE FreeIndex(p)
    BY <2>16, <2>3 DEF FreeIndex
  <2>17. CASE Before(p)
    BY <2>17, <2>3 DEF Before
  <2>18. CASE OpenIndex(p)
    BY <2>18, <2>3 DEF OpenIndex
  <2>19. CASE FillIndex(p)
    BY <2>19, <2>3 DEF FillIndex
  <2>20. CASE Compare(p)
    BY <2>20, <2>3 DEF Compare
  <2>21. CASE Stage(p)
    BY <2>21, <2>3 DEF Stage
  <2>22. CASE Promote(p)
    BY <2>22, <2>3 DEF Promote
  <2>23. CASE Rename(p)
    BY <2>23, <2>3 DEF Rename
  <2>24. CASE Mark(p)
    BY <2>24, <2>3 DEF Mark
  <2>25. CASE Rollback(p)
    BY <2>25, <2>3 DEF Rollback
  <2>26. CASE DropPromoted(p)
    BY <2>26, <2>3 DEF DropPromoted
  <2>27. CASE DropStaging(p)
    BY <2>27, <2>3 DEF DropStaging
  <2>28. CASE ReadRecord(p)
    BY <2>28, <2>3 DEF ReadRecord
  <2>29. CASE ReadLog(p)
    BY <2>29, <2>3 DEF ReadLog
  <2>30. CASE Release(p)
    BY <2>30, <2>3 DEF Release
  <2>31. CASE Return(p)
    BY <2>31, <2>3 DEF Return
  <2>32. CASE Fail(p)
    BY <2>32, <2>3 DEF Fail
  <2> QED
    BY StepKinds, <2>10, <2>11, <2>12, <2>13, <2>14, <2>15, <2>16, <2>7, <2>17, <2>4, <2>5,
       <2>18, <2>19, <2>20, <2>21, <2>22, <2>23, <2>24, <2>25, <2>26, <2>27, <2>28, <2>29,
       <2>30, <2>8, <2>31, <2>32, <2>9
<1> QED
  BY <1>4, <1>5, IndexLockWritten

(* The locks are inductive where recoveries do not overlap.                *)
LEMMA LocksHold ==
  ASSUME TypeOK, Shape, Locks, Serial, [Next]_vars
  PROVE  Locks'
<1>1. ASSUME NEW p \in Proc, Act(p) PROVE Locks'
  <2>1. \A q \in Proc : LockInv(q)'
    BY <1>1, LockInvElsewhere, LockInvOwn
  <2>2. IndexLockInv'
    BY <1>1, IndexLockStep
  <2> QED
    BY <2>1, <2>2 DEF Locks
<1>2. CASE UNCHANGED vars
  <2> USE <1>2 DEF vars, locks
  <2>1. \A q \in Proc : LockInv(q)'
    BY DEF Locks, LockInv, Rec, Owned, Indexes
  <2>2. IndexLockInv'
    BY DEF Locks, IndexLockInv, Owned, Indexes
  <2> QED
    BY <2>1, <2>2 DEF Locks
<1> QED
  BY <1>1, <1>2 DEF Next, Act

(* At the start nothing is locked and nobody recovers.                     *)
LEMMA LocksInit == Init => Locks /\ Serial
<1> SUFFICES ASSUME Init PROVE Locks /\ Serial
  OBVIOUS
<1>1. \A p \in Proc : pc[p] = "idle"
  BY DEF Init
<1>2. \A p \in Proc : LockInv(p)
  BY <1>1 DEF LockInv, Holding, Appending, Consulting, Recovery, Covering
<1>3. IndexLockInv
  BY DEF Init, IndexLockInv, Free
<1>4. Serial
  BY <1>1 DEF Serial, Recovering, Recovery
<1> QED
  BY <1>2, <1>3, <1>4 DEF Locks

(* Mutual exclusion: of the calls that hold a record's lock or recover its *)
(* dead owner's transaction there is at most one.                          *)
MutualExclusion ==
  \A p, q \in Proc : p # q /\ pc[p] \in Locking /\ pc[q] \in Locking => Rec(p) # Rec(q)

(* In a behaviour in which no two calls recover a record at once, no two   *)
(* calls work on a record at once: acquireControlStoreLock.  The code does *)
(* not keep recoveries apart (recoverControlStore looks before it has any  *)
(* lock), and two that overlap work on the record together.                *)
THEOREM StoreExclusiveIfSerial == Spec /\ []Serial => []MutualExclusion
<1> DEFINE Inv == TypeOK /\ Shape /\ Locks /\ Serial
<1>1. Init => Inv
  BY ShapeInit, LocksInit
<1>2. Inv /\ [Next /\ Serial']_vars => Inv'
  <2> SUFFICES ASSUME Inv, [Next /\ Serial']_vars PROVE Inv'
    OBVIOUS
  <2>1. TypeOK' /\ Shape'
    BY ShapeStep
  <2>2. Locks'
    BY LocksHold
  <2>3. Serial'
    <3>1. CASE UNCHANGED vars
      BY <3>1 DEF vars, Serial, Recovering, Rec
    <3> QED
      BY <3>1
  <2> QED
    BY <2>1, <2>2, <2>3
<1>3. Inv => MutualExclusion
  BY Exclusive DEF MutualExclusion
<1>4. [Next]_vars /\ Serial' => [Next /\ Serial']_vars
  OBVIOUS
<1> QED
  BY <1>1, <1>2, <1>3, <1>4, PTL DEF Spec

=============================================================================
