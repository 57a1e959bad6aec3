--------------------- MODULE ControlStorePromise_proofs ---------------------
(***************************************************************************)
(* Proofs about what ControlStore promises in a behaviour that keeps calls *)
(* apart (Serial and NoTwins, which nothing in the code ensures): the      *)
(* artifact index that the records share names every committed event that  *)
(* indexes once, and the behaviour is one of ControlLog.                   *)
(***************************************************************************)
EXTENDS ControlStoreRecords_proofs

USE StoreAssumption

(* The shared index: what the calls that own its lock know of it.          *)
EntryOf(t) == <<t.rec, t.ev>>
Working == Covering \cup {"undo", "redo", "clear"}
HasIndex(p) == pc[p] \in Working /\ Indexes(tx[p])
Half(t) ==
  /\ Pending(t.rec, t)
  /\ \E d \in dirs[t.rec] : d.tx = t /\ d.whole /\ index = Append(d.index, EntryOf(t))
Indexed(t) ==
  \A d \in dirs[t.rec] : d.tx = t =>
    /\ Pending(t.rec, t) => Complete(d.index)
    /\ marker[t.rec] = t => index = Append(d.index, EntryOf(t))
IndexInv ==
  /\ Complete(index) \/ (indexLock.written /\ Half(indexLock.tx))
  /\ indexLock.written => Indexed(indexLock.tx)
FreshInv(p) ==
  pc[p] \in {"fill", "openIndex", "fillIndex", "compare"} => \A d \in dirs[Rec(p)] : d.tx # tx[p]
IndexProc(p) == Indexes(tx[p]) =>
  /\ pc[p] = "clear" => Owned(indexLock, tx[p])
  /\ pc[p] \in {"stage", "promote", "rename", "mark", "rollback", "redo", "undo"} =>
       \A d \in dirs[Rec(p)] : d.tx = tx[p] => d.index = base[p].index
  /\ pc[p] \in {"rename", "mark", "redo"} => index = Append(base[p].index, EntryOf(tx[p]))
  /\ pc[p] \in {"stage", "dropPromoted", "dropStaging", "clear"} => Complete(index)
  /\ pc[p] \in {"stage", "promote"} => Complete(base[p].index)
Indices == IndexInv /\ \A p \in Proc : FreshInv(p) /\ IndexProc(p)

(* Only a call at work writes files.                                       *)
LEMMA WorkOnly ==
  ASSUME NEW p \in Proc, Act(p), pc[p] \notin Working
  PROVE  UNCHANGED files
<1> USE DEF files, Working, Covering, Reset, Undone, Throw, Goto
<1>1. CASE Call(p)
  BY <1>1 DEF Call, Ask
<1>2. CASE Look(p)
  BY <1>2 DEF Look
<1>3. CASE Inspect(p)
  BY <1>3 DEF Inspect
<1>4. CASE Redo(p)
  BY <1>4 DEF Redo
<1>5. CASE Undo(p)
  BY <1>5 DEF Undo
<1>6. CASE Clear(p)
  BY <1>6 DEF Clear
<1>7. CASE FreeIndex(p)
  BY <1>7 DEF FreeIndex
<1>8. CASE FreeLock(p)
  BY <1>8 DEF FreeLock
<1>9. CASE Before(p)
  BY <1>9 DEF Before
<1>10. CASE Open(p)
  BY <1>10 DEF Open
<1>11. CASE Fill(p)
  BY <1>11 DEF Fill
<1>12. CASE OpenIndex(p)
  BY <1>12 DEF OpenIndex
<1>13. CASE FillIndex(p)
  BY <1>13 DEF FillIndex
<1>14. CASE Compare(p)
  BY <1>14 DEF Compare
<1>15. CASE Stage(p)
  BY <1>15 DEF Stage
<1>16. CASE Promote(p)
  BY <1>16 DEF Promote
<1>17. CASE Rename(p)
  BY <1>17 DEF Rename
<1>18. CASE Mark(p)
  BY <1>18 DEF Mark
<1>19. CASE Rollback(p)
  BY <1>19 DEF Rollback
<1>20. CASE DropPromoted(p)
  BY <1>20 DEF DropPromoted
<1>21. CASE DropStaging(p)
  BY <1>21 DEF DropStaging
<1>22. CASE ReadRecord(p)
  BY <1>22 DEF ReadRecord
<1>23. CASE ReadLog(p)
  BY <1>23 DEF ReadLog
<1>24. CASE Release(p)
  BY <1>24 DEF Release
<1>25. CASE ReleaseOwn(p)
  BY <1>25 DEF ReleaseOwn
<1>26. CASE Return(p)
  BY <1>26 DEF Return
<1>27. CASE Fail(p)
  BY <1>27 DEF Fail
<1>28. CASE Crash(p)
  BY <1>28 DEF Crash
<1> QED
  BY StepKinds, <1>1, <1>2, <1>3, <1>4, <1>5, <1>6, <1>7, <1>8, <1>9, <1>10, <1>11, <1>12,
     <1>13, <1>14, <1>15, <1>16, <1>17, <1>18, <1>19, <1>20, <1>21, <1>22, <1>23, <1>24,
     <1>25, <1>26, <1>27, <1>28

(* The call that owns the index lock is one.                               *)
LEMMA IndexOwner ==
  ASSUME Known, \A p \in Proc : IndexProc(p), NEW p \in Proc, HasIndex(p)
  PROVE  /\ Owned(indexLock, tx[p]) /\ tx[p].rec = Rec(p) /\ tx[p].ev \in Indexing
         /\ Rec(p) \in Record /\ pc[p] \in Locking
<1>1. TypeOK /\ Shape /\ LockInv(p) /\ WorkInv(p) /\ IndexProc(p)
  BY DEF Known, Records, Locks
<1>2. Owned(indexLock, tx[p])
  BY <1>1 DEF HasIndex, Working, LockInv, WorkInv, IndexProc, OwnsIndex, Owned
<1>3. pc[p] \in Locking /\ pc[p] # "idle"
  BY DEF HasIndex, Working, Covering, Locking, Holding, Appending, Recovery
<1> QED
  BY <1>1, <1>2, <1>3 DEF Shape, CallShape, Locking, Recovering, HasIndex, Indexes, Rec

(* No two calls work on the index at once: assertArtifactIndexLocksOwned.  *)
LEMMA OneIndexOwner ==
  ASSUME Known, \A p \in Proc : IndexProc(p), NEW p \in Proc, NEW q \in Proc,
         HasIndex(p), HasIndex(q)
  PROVE  p = q
<1>1. tx[p] = tx[q]
  BY IndexOwner DEF Owned
<1>2. Rec(p) = Rec(q) /\ pc[p] \in Locking /\ pc[q] \in Locking
  BY <1>1, IndexOwner
<1> QED
  BY <1>2, Exclusive DEF Known

(* The transaction that owns the index lock works on a record whose files  *)
(* only its call changes.                                                  *)
LEMMA IndexedRecord ==
  ASSUME Known, NEW p \in Proc, Act(p), ~HasIndex(p), indexLock.written,
         NEW r, r = indexLock.tx.rec
  PROVE  r \in Record /\ dirs'[r] = dirs[r] /\ marker'[r] = marker[r]
<1>1. TypeOK /\ Shape /\ Locks
  BY DEF Known
<1>2. r \in Record /\ Indexes(indexLock.tx) /\ Owned(lock[r], indexLock.tx)
  BY <1>1 DEF Locks, IndexLockInv
<1>3. CASE pc[p] \notin Working
  BY <1>2, <1>3, WorkOnly DEF files
<1>4. CASE pc[p] \in Working
  <2>1. lock[Rec(p)].tx = tx[p]
    BY <1>1, <1>4 DEF Locks, LockInv, Working, Covering, Holding, Appending, Recovery
  <2>2. r # Rec(p)
    BY <1>2, <1>4, <2>1 DEF Owned, HasIndex
  <2> QED
    BY <1>1, <1>2, <2>2, RecordsUnmoved
<1> QED
  BY <1>3, <1>4

(* Nobody else changes the index.                                          *)
LEMMA IndexUnmoved ==
  ASSUME NEW p \in Proc, Act(p), ~HasIndex(p)
  PROVE  index' = index
<1>1. CASE pc[p] \notin Working
  BY <1>1, WorkOnly DEF files
<1>2. CASE pc[p] \in Working
  <2>1. ~Indexes(tx[p])
    BY <1>2 DEF HasIndex
  <2> USE <1>2, <2>1 DEF files, WriteNext, WritePrevious, Reset, Undone, Throw, Goto, RemoveDir
  <2>2. CASE Call(p)
    BY <2>2, <2>1 DEF Call, Ask
  <2>3. CASE Look(p)
    BY <2>3, <2>1 DEF Look
  <2>4. CASE Inspect(p)
    BY <2>4, <2>1 DEF Inspect
  <2>5. CASE Redo(p)
    BY <2>5, <2>1 DEF Redo
  <2>6. CASE Undo(p)
    BY <2>6, <2>1 DEF Undo
  <2>7. CASE Clear(p)
    BY <2>7, <2>1 DEF Clear
  <2>8. CASE FreeIndex(p)
    BY <2>8, <2>1 DEF FreeIndex
  <2>9. CASE FreeLock(p)
    BY <2>9, <2>1 DEF FreeLock
  <2>10. CASE Before(p)
    BY <2>10, <2>1 DEF Before
  <2>11. CASE Open(p)
    BY <2>11, <2>1 DEF Open
  <2>12. CASE Fill(p)
    BY <2>12, <2>1 DEF Fill
  <2>13. CASE OpenIndex(p)
    BY <2>13, <2>1 DEF OpenIndex
  <2>14. CASE FillIndex(p)
    BY <2>14, <2>1 DEF FillIndex
  <2>15. CASE Compare(p)
    BY <2>15, <2>1 DEF Compare
  <2>16. CASE Stage(p)
    BY <2>16, <2>1 DEF Stage
  <2>17. CASE Promote(p)
    BY <2>17, <2>1 DEF Promote
  <2>18. CASE Rename(p)
    BY <2>18, <2>1 DEF Rename
  <2>19. CASE Mark(p)
    BY <2>19, <2>1 DEF Mark
  <2>20. CASE Rollback(p)
    BY <2>20, <2>1 DEF Rollback
  <2>21. CASE DropPromoted(p)
    BY <2>21, <2>1 DEF DropPromoted
  <2>22. CASE DropStaging(p)
    BY <2>22, <2>1 DEF DropStaging
  <2>23. CASE ReadRecord(p)
    BY <2>23, <2>1 DEF ReadRecord
  <2>24. CASE ReadLog(p)
    BY <2>24, <2>1 DEF ReadLog
  <2>25. CASE Release(p)
    BY <2>25, <2>1 DEF Release
  <2>26. CASE ReleaseOwn(p)
    BY <2>26, <2>1 DEF ReleaseOwn
  <2>27. CASE Return(p)
    BY <2>27, <2>1 DEF Return
  <2>28. CASE Fail(p)
    BY <2>28, <2>1 DEF Fail
  <2>29. CASE Crash(p)
    BY <2>29, <2>1 DEF Crash
  <2> QED
    BY StepKinds, <2>2, <2>3, <2>4, <2>5, <2>6, <2>7, <2>8, <2>9, <2>10, <2>11, <2>12, <2>13,
       <2>14, <2>15, <2>16, <2>17, <2>18, <2>19, <2>20, <2>21, <2>22, <2>23, <2>24, <2>25,
       <2>26, <2>27, <2>28, <2>29
<1> QED
  BY <1>1, <1>2

(* An index is complete as long as nothing that indexes commits.           *)
LEMMA CompleteStill ==
  ASSUME Known, NEW p \in Proc, Act(p), pc[p] = "mark" => ~Indexes(tx[p]), NEW idx
  PROVE  Complete(idx)' <=> Complete(idx)
<1>1. TypeOK /\ Shape /\ WorkInv(p) /\ \A r \in Record : RecordInv(r)
  BY DEF Known, Records
<1>2. ASSUME NEW r \in Record, NEW e \in Indexing
      PROVE  e \in ToSet(Committed(r))' <=> e \in ToSet(Committed(r))
  <2>1. CASE marker'[r] = marker[r]
    BY <2>1 DEF Committed
  <2>2. CASE marker'[r] # marker[r]
    <3>1. pc[p] = "mark" /\ r = Rec(p) /\ marker'[r] = tx[p]
      BY <1>1, <2>2, MarkerMoves
    <3>2. Pending(r, tx[p]) /\ tx[p].pre \in Seq(Event) /\ tx[p].ev \in Event
      BY <3>1, UnderWay
    <3>3. Committed(r)' = Append(tx[p].pre, tx[p].ev)
      BY <3>1, <3>2, StoreAssumption DEF Committed, NoTx
    <3>4. ToSet(Committed(r))' = ToSet(Committed(r)) \cup {tx[p].ev}
      BY <3>2, <3>3, Appends DEF Pending
    <3>5. e # tx[p].ev
      BY <3>1 DEF Indexes
    <3> QED
      BY <3>4, <3>5
  <2> QED
    BY <2>1, <2>2
<1>3. {t \in Record \X Indexing : t[2] \in ToSet(Committed(t[1]))'}
        = {t \in Record \X Indexing : t[2] \in ToSet(Committed(t[1]))}
  BY <1>2
<1> QED
  BY <1>3 DEF Complete

(* An event is appended to the complete index of the records before it.    *)
LEMMA CompleteAppend ==
  ASSUME NEW idx \in Seq(Entry), Complete(idx), NEW r \in Record, NEW e \in Indexing,
         e \notin ToSet(Committed(r)), ToSet(Committed(r)') = ToSet(Committed(r)) \cup {e},
         \A s \in Record : s # r => marker'[s] = marker[s]
  PROVE  Complete(Append(idx, <<r, e>>))'
<1> DEFINE new == Append(idx, <<r, e>>)
<1>0. <<r, e>> \in Entry
  BY StoreAssumption DEF Entry
<1>1. /\ Len(idx) \in Nat /\ DOMAIN idx = 1..Len(idx) /\ DOMAIN new = 1..(Len(idx) + 1)
      /\ new[Len(idx) + 1] = <<r, e>>
      /\ \A i \in 1..Len(idx) : new[i] = idx[i]
  BY <1>0
<1>2. 1..(Len(idx) + 1) = 1..Len(idx) \cup {Len(idx) + 1}
  BY <1>1
<1>3. ToSet(new) = ToSet(idx) \cup {<<r, e>>}
  BY <1>1, <1>2 DEF ToSet
<1>4. <<r, e>> \notin ToSet(idx)
  BY DEF Complete
<1>5. \A i \in 1..Len(idx) : idx[i] # <<r, e>>
  BY <1>1, <1>4 DEF ToSet
<1>6. \A i, j \in DOMAIN new : new[i] = new[j] => i = j
  <2>1. \A i, j \in 1..Len(idx) : new[i] = new[j] => i = j
    BY <1>1 DEF Complete
  <2> HIDE DEF new
  <2>2. \A i \in 1..Len(idx) : new[i] # new[Len(idx) + 1]
    BY <1>1, <1>5
  <2> QED
    BY <1>1, <1>2, <2>1, <2>2
<1>7. ToSet(new) = {t \in Record \X Indexing : t[2] \in ToSet(Committed(t[1])')}
  <2>1. \A s \in Record : s # r => Committed(s)' = Committed(s)
    BY DEF Committed
  <2>2. ToSet(idx) = {t \in Record \X Indexing : t[2] \in ToSet(Committed(t[1]))}
    BY DEF Complete
  <2>3. \A t \in Record \X Indexing :
          t[2] \in ToSet(Committed(t[1])') <=> t[2] \in ToSet(Committed(t[1])) \/ t = <<r, e>>
    <3>1. ASSUME NEW s \in Record, NEW x \in Indexing
          PROVE  x \in ToSet(Committed(s)') <=> x \in ToSet(Committed(s)) \/ <<s, x>> = <<r, e>>
      BY <2>1
    <3> QED
      BY <3>1
  <2> HIDE DEF new
  <2> QED
    BY <1>3, <2>2, <2>3
<1> HIDE DEF new
<1>8. Complete(new)'
  <2>1. ToSet(new)' = ToSet(new) /\ DOMAIN new' = DOMAIN new /\ new' = new
    BY DEF new
  <2> QED
    BY <1>6, <1>7, <2>1 DEF Complete
<1> QED
  BY <1>8 DEF new

(* A step of a call that does not own the index, while the index lock      *)
(* stays with the transaction that has it.                                 *)
LEMMA IndexStays ==
  ASSUME Known, IndexInv, NEW p \in Proc, Act(p), ~HasIndex(p),
         indexLock'.written => indexLock.written /\ indexLock'.tx = indexLock.tx,
         indexLock.written /\ ~indexLock'.written => Complete(index)
  PROVE  IndexInv'
<1>1. index' = index
  BY IndexUnmoved
<1>2. \A idx : Complete(idx)' <=> Complete(idx)
  <2>1. pc[p] = "mark" => ~Indexes(tx[p])
    BY DEF HasIndex, Working, Covering
  <2> QED
    BY <2>1, CompleteStill
<1>3. CASE ~indexLock'.written
  <2>1. Complete(index)
    BY <1>3 DEF IndexInv
  <2>2. Complete(index)'
    <3>1. PICK i : i = index
      OBVIOUS
    <3>2. Complete(i)'
      BY <1>2, <2>1, <3>1
    <3> QED
      BY <1>1, <3>1, <3>2 DEF Complete
  <2> QED
    BY <1>3, <2>2 DEF IndexInv
<1>4. CASE indexLock'.written
  <2>1. PICK t : t = indexLock.tx
    OBVIOUS
  <2>2. indexLock.written /\ indexLock'.tx = t
    BY <1>4, <2>1
  <2>3. t.rec \in Record /\ dirs'[t.rec] = dirs[t.rec] /\ marker'[t.rec] = marker[t.rec]
    BY <2>1, <2>2, IndexedRecord
  <2>4. Committed(t.rec)' = Committed(t.rec)
    BY <2>3 DEF Committed
  <2>5. Pending(t.rec, t)' <=> Pending(t.rec, t)
    BY <2>4 DEF Pending
  <2>6. Complete(index) => Complete(index)'
    <3>1. PICK i : i = index
      OBVIOUS
    <3>2. Complete(i)' <=> Complete(i)
      BY <1>2
    <3> QED
      BY <1>1, <3>1, <3>2 DEF Complete
  <2>7. Half(t) => Half(t)'
    BY <1>1, <2>3, <2>5 DEF Half
  <2>8. Indexed(t) => Indexed(t)'
    BY <1>1, <1>2, <2>3, <2>5 DEF Indexed
  <2>9. /\ Complete(index) \/ Half(t)
        /\ Indexed(t)
    BY <2>1, <2>2 DEF IndexInv
  <2>10. (Complete(index) \/ Half(t))' /\ Indexed(t)'
    BY <2>6, <2>7, <2>8, <2>9
  <2>11. Half(indexLock.tx)' <=> Half(t)'
    BY <2>2 DEF Half, Pending, Committed, EntryOf
  <2>12. Indexed(indexLock.tx)' <=> Indexed(t)'
    BY <2>2 DEF Indexed, Pending, Committed, EntryOf
  <2> QED
    BY <1>4, <2>10, <2>11, <2>12 DEF IndexInv
<1> QED
  BY <1>3, <1>4

(* The index is complete when its lock is released.                        *)
LEMMA CleanIndex ==
  ASSUME Known, IndexInv, NEW p \in Proc, Owned(indexLock, tx[p]),
         pc[p] \in {"settle", "freeIndex", "release"}
  PROVE  Complete(index)
<1>1. TypeOK /\ Shape /\ Locks /\ WorkInv(p)
  BY DEF Known, Records
<1>2. indexLock.tx = tx[p] /\ Clean(Rec(p), tx[p]) /\ tx[p].rec = Rec(p) /\ Rec(p) \in Record
  BY <1>1 DEF Owned, WorkInv, Unready, Shape, CallShape, Holding, Recovering, Recovery, Rec
<1>3. tx[p].ev \in Event /\ tx[p].pre \in Seq(Event)
  BY <1>1, StoreAssumption DEF Locks, IndexLockInv, Owned, Indexes, TypeOK, Tx
<1>4. ASSUME Half(tx[p]) PROVE FALSE
  <2>1. marker[Rec(p)] = tx[p] /\ Pending(Rec(p), tx[p])
    BY <1>2, <1>4 DEF Half, Clean
  <2>2. Committed(Rec(p)) = Nxt(tx[p])
    BY <1>1, <1>2, <1>3, <2>1, CommittedTyped
  <2> QED
    BY <1>3, <2>1, <2>2, Appends DEF Pending, Nxt
<1> QED
  BY <1>2, <1>4 DEF IndexInv

(* The index is kept by every step of a call that does not own it.         *)
LEMMA IndexElsewhere ==
  ASSUME Known, Indices, NEW p \in Proc, Act(p), ~HasIndex(p)
  PROVE  IndexInv'
<1>1. TypeOK /\ Shape /\ Locks /\ IndexInv
  BY DEF Known, Indices
<1>2. CASE indexLock'.written /\ ~indexLock.written
  <2>1. pc[p] = "fillIndex" /\ indexLock'.tx = tx[p] /\ Indexes(tx[p])
    BY <1>1, <1>2, IndexLockWritten
  <2>2. tx[p].rec = Rec(p) /\ Rec(p) \in Record
    BY <1>1, <2>1 DEF Shape, CallShape, Holding, Appending, Rec
  <2>3. \A d \in dirs[Rec(p)] : d.tx # tx[p]
    BY <2>1 DEF Indices, FreshInv
  <2>4. UNCHANGED files
    BY <2>1, WorkOnly DEF Working, Covering
  <2>5. Complete(index)'
    BY <1>1, <1>2, <2>4 DEF IndexInv, files, Complete, Committed
  <2>6. Indexed(indexLock.tx)'
    BY <2>1, <2>2, <2>3, <2>4 DEF Indexed, files
  <2> QED
    BY <2>5, <2>6 DEF IndexInv
<1>3. CASE ~(indexLock'.written /\ ~indexLock.written)
  <2>1. indexLock'.written => indexLock.written /\ indexLock'.tx = indexLock.tx
    <3>1. pc[p] = "fillIndex" => ~indexLock.written
      BY <1>1 DEF Locks, LockInv
    <3> QED
      BY <1>1, <1>3, <3>1, IndexLockWritten
  <2>2. ASSUME indexLock.written, ~indexLock'.written PROVE Complete(index)
    <3>1. ~Owned(indexLock', indexLock.tx) /\ Owned(indexLock, indexLock.tx)
      BY <2>2 DEF Owned
    <3>2. pc[p] \in {"settle", "freeIndex", "release"} /\ tx[p] = indexLock.tx
      BY <1>1, <3>1, OwnedKept
    <3> QED
      BY <1>1, <3>1, <3>2, CleanIndex
  <2> QED
    BY <1>1, <2>1, <2>2, IndexStays
<1> QED
  BY <1>2, <1>3

(* Nor does another call change what a call knows of the index.            *)
LEMMA IndexKnown ==
  ASSUME Known, Indices, NEW p \in Proc, Act(p), NEW q \in Proc, q # p
  PROVE  FreshInv(q)' /\ IndexProc(q)'
<1>1. TypeOK /\ Shape /\ Locks /\ Serial /\ FreshInv(q) /\ IndexProc(q) /\ \A o \in Proc : IndexProc(o)
  BY DEF Known, Indices
<1>2. /\ pc'[q] = pc[q] /\ tx'[q] = tx[q] /\ base'[q] = base[q] /\ Rec(q)' = Rec(q)
  BY <1>1, OthersUnmoved DEF Rec
<1>3. pc[q] \in Locking => Same(Rec(q))
  BY <1>1, Outside
<1>4. FreshInv(q)'
  BY <1>1, <1>2, <1>3 DEF FreshInv, Same, Locking, Holding, Appending
<1>5. CASE ~HasIndex(q)
  BY <1>2, <1>4, <1>5 DEF IndexProc, HasIndex, Working, Covering, Indexes
<1>6. CASE HasIndex(q)
  <2>1. ~HasIndex(p)
    BY <1>1, <1>6, OneIndexOwner
  <2>2. index' = index /\ \A idx : Complete(idx)' <=> Complete(idx)
    <3>1. pc[p] = "mark" => ~Indexes(tx[p])
      BY <2>1 DEF HasIndex, Working, Covering
    <3> QED
      BY <2>1, <3>1, CompleteStill, IndexUnmoved
  <2>3. Owned(indexLock, tx[q]) /\ tx[q].rec = Rec(q) /\ Rec(q) \in Record /\ pc[q] \in Locking
    BY <1>1, <1>6, IndexOwner
  <2>4. Owned(indexLock', tx[q])
    <3>1. pc[p] \in {"settle", "freeIndex", "release"} => tx[p].rec = Rec(p) /\ pc[p] \in Locking
      BY <1>1 DEF Shape, CallShape, Holding, Recovering, Recovery, Locking
    <3>2. pc[p] \in Locking => Rec(p) # Rec(q)
      BY <1>1, <2>3, Exclusive
    <3> QED
      BY <1>1, <2>3, <3>1, <3>2, OwnedKept
  <2>5. Same(Rec(q))
    BY <1>3, <2>3
  <2>6. PICK i, b : i = index /\ b = base[q].index
    OBVIOUS
  <2>7. /\ Complete(index) => Complete(index)'
        /\ Complete(base[q].index) => Complete(base[q].index)'
    <3>1. (Complete(i)' <=> Complete(i)) /\ (Complete(b)' <=> Complete(b))
      BY <2>2
    <3> QED
      BY <1>2, <2>2, <2>6, <3>1 DEF Complete
  <2>8. /\ (\A d \in dirs[Rec(q)] : d.tx = tx[q] => d.index = base[q].index) =>
             (\A d \in dirs[Rec(q)] : d.tx = tx[q] => d.index = base[q].index)'
        /\ index = Append(base[q].index, EntryOf(tx[q])) =>
             (index = Append(base[q].index, EntryOf(tx[q])))'
        /\ Owned(indexLock, tx[q])'
    BY <1>2, <2>2, <2>4, <2>5 DEF Same, EntryOf, Owned
  <2> QED
    BY <1>1, <1>2, <1>4, <1>6, <2>7, <2>8 DEF IndexProc, HasIndex
<1> QED
  BY <1>4, <1>5, <1>6

(* The steps after which a call need not know anything of the index.       *)
Bound == {"stage", "promote", "rename", "mark", "rollback", "redo", "undo", "dropPromoted",
          "dropStaging", "clear"}

(* A call is bound to the index by its comparison, or by its inspection.   *)
LEMMA Entering ==
  ASSUME TypeOK, NEW p \in Proc, Act(p), ~Inspect(p), pc[p] \notin Working
  PROVE  pc'[p] \notin Bound
<1>1. DOMAIN pc = Proc
  BY DEF TypeOK
<1> USE DEF Working, Covering, Bound, Reset, Undone, Throw, Goto
<1>2. CASE Call(p)
  BY <1>2, <1>1 DEF Call, Ask
<1>3. CASE Look(p)
  BY <1>3, <1>1 DEF Look
<1>4. CASE Redo(p)
  BY <1>4, <1>1 DEF Redo
<1>5. CASE Undo(p)
  BY <1>5, <1>1 DEF Undo
<1>6. CASE Clear(p)
  BY <1>6, <1>1 DEF Clear
<1>7. CASE FreeIndex(p)
  BY <1>7, <1>1 DEF FreeIndex
<1>8. CASE FreeLock(p)
  BY <1>8, <1>1 DEF FreeLock
<1>9. CASE Before(p)
  BY <1>9, <1>1 DEF Before
<1>10. CASE Open(p)
  BY <1>10, <1>1 DEF Open
<1>11. CASE Fill(p)
  BY <1>11, <1>1 DEF Fill
<1>12. CASE OpenIndex(p)
  BY <1>12, <1>1 DEF OpenIndex
<1>13. CASE FillIndex(p)
  BY <1>13, <1>1 DEF FillIndex
<1>14. CASE Compare(p)
  BY <1>14, <1>1 DEF Compare
<1>15. CASE Stage(p)
  BY <1>15, <1>1 DEF Stage
<1>16. CASE Promote(p)
  BY <1>16, <1>1 DEF Promote
<1>17. CASE Rename(p)
  BY <1>17, <1>1 DEF Rename
<1>18. CASE Mark(p)
  BY <1>18, <1>1 DEF Mark
<1>19. CASE Rollback(p)
  BY <1>19, <1>1 DEF Rollback
<1>20. CASE DropPromoted(p)
  BY <1>20, <1>1 DEF DropPromoted
<1>21. CASE DropStaging(p)
  BY <1>21, <1>1 DEF DropStaging
<1>22. CASE ReadRecord(p)
  BY <1>22, <1>1 DEF ReadRecord
<1>23. CASE ReadLog(p)
  BY <1>23, <1>1 DEF ReadLog
<1>24. CASE Release(p)
  BY <1>24, <1>1 DEF Release
<1>25. CASE ReleaseOwn(p)
  BY <1>25, <1>1 DEF ReleaseOwn
<1>26. CASE Return(p)
  BY <1>26, <1>1 DEF Return
<1>27. CASE Fail(p)
  BY <1>27, <1>1 DEF Fail
<1>28. CASE Crash(p)
  BY <1>28, <1>1 DEF Crash
<1> QED
  BY StepKinds, <1>2, <1>3, <1>4, <1>5, <1>6, <1>7, <1>8, <1>9, <1>10, <1>11, <1>12,
     <1>13, <1>14, <1>15, <1>16, <1>17, <1>18, <1>19, <1>20, <1>21, <1>22, <1>23, <1>24,
     <1>25, <1>26, <1>27, <1>28

(* A call at work stays with its transaction, or ends.                     *)
LEMMA Staying ==
  ASSUME TypeOK, NEW p \in Proc, Act(p), pc[p] \in Working
  PROVE  tx'[p] = tx[p] \/ pc'[p] = "idle"
<1>1. DOMAIN pc = Proc
  BY DEF TypeOK
<1> USE DEF Working, Covering, Reset, Undone, Throw, Goto, RemoveDir
<1>2. CASE Call(p)
  BY <1>2, <1>1 DEF Call, Ask
<1>3. CASE Look(p)
  BY <1>3, <1>1 DEF Look
<1>4. CASE Inspect(p)
  BY <1>4, <1>1 DEF Inspect
<1>5. CASE Redo(p)
  BY <1>5, <1>1 DEF Redo
<1>6. CASE Undo(p)
  BY <1>6, <1>1 DEF Undo
<1>7. CASE Clear(p)
  BY <1>7, <1>1 DEF Clear
<1>8. CASE FreeIndex(p)
  BY <1>8, <1>1 DEF FreeIndex
<1>9. CASE FreeLock(p)
  BY <1>9, <1>1 DEF FreeLock
<1>10. CASE Before(p)
  BY <1>10, <1>1 DEF Before
<1>11. CASE Open(p)
  BY <1>11, <1>1 DEF Open
<1>12. CASE Fill(p)
  BY <1>12, <1>1 DEF Fill
<1>13. CASE OpenIndex(p)
  BY <1>13, <1>1 DEF OpenIndex
<1>14. CASE FillIndex(p)
  BY <1>14, <1>1 DEF FillIndex
<1>15. CASE Compare(p)
  BY <1>15, <1>1 DEF Compare
<1>16. CASE Stage(p)
  BY <1>16, <1>1 DEF Stage
<1>17. CASE Promote(p)
  BY <1>17, <1>1 DEF Promote
<1>18. CASE Rename(p)
  BY <1>18, <1>1 DEF Rename
<1>19. CASE Mark(p)
  BY <1>19, <1>1 DEF Mark
<1>20. CASE Rollback(p)
  BY <1>20, <1>1 DEF Rollback
<1>21. CASE DropPromoted(p)
  BY <1>21, <1>1 DEF DropPromoted
<1>22. CASE DropStaging(p)
  BY <1>22, <1>1 DEF DropStaging
<1>23. CASE ReadRecord(p)
  BY <1>23, <1>1 DEF ReadRecord
<1>24. CASE ReadLog(p)
  BY <1>24, <1>1 DEF ReadLog
<1>25. CASE Release(p)
  BY <1>25, <1>1 DEF Release
<1>26. CASE ReleaseOwn(p)
  BY <1>26, <1>1 DEF ReleaseOwn
<1>27. CASE Return(p)
  BY <1>27, <1>1 DEF Return
<1>28. CASE Fail(p)
  BY <1>28, <1>1 DEF Fail
<1>29. CASE Crash(p)
  BY <1>29, <1>1 DEF Crash
<1> QED
  BY StepKinds, <1>2, <1>3, <1>4, <1>5, <1>6, <1>7, <1>8, <1>9, <1>10, <1>11, <1>12, <1>13,
     <1>14, <1>15, <1>16, <1>17, <1>18, <1>19, <1>20, <1>21, <1>22, <1>23, <1>24, <1>25,
     <1>26, <1>27, <1>28, <1>29

(* A transaction that has just taken the lock has no directory.            *)
LEMMA FreshOwn ==
  ASSUME Known, Indices, NEW p \in Proc, Act(p)
  PROVE  FreshInv(p)'
<1>1. TypeOK /\ Shape /\ Locks /\ FreshInv(p) /\ OpenInv(p)
  BY DEF Known, Records, Indices
<1>2. DOMAIN pc = Proc
  BY <1>1 DEF TypeOK
<1>3. CASE Open(p)
  <2>1. CASE lock[Rec(p)] # Free
    <3>1. pc'[p] = "return"
      BY <1>2, <1>3, <2>1 DEF Open, Goto, Throw
    <3> QED
      BY <3>1 DEF FreshInv
  <2>2. CASE lock[Rec(p)] = Free
    <3>1. pc[p] = "open" /\ UNCHANGED <<files, want, tx>> /\ ~lock[Rec(p)].written
      BY <1>3, <2>2 DEF Open, Free
    <3>2. Rec(p) \in Record
      BY <1>1, <3>1 DEF Shape, CallShape, Rec
    <3>3. \A d \in dirs[Rec(p)] : Kept(Rec(p), d) /\ d.tx.ev \in Event
      BY <1>1, <3>1, <3>2 DEF Known, Records, RecordInv, Made, Shape, StoreShape
    <3>4. tx[p].ev = (IF Reading(p) THEN p ELSE want[p].ev) /\ p \notin Event
      BY <1>1, <3>1, StoreAssumption DEF Shape, CallShape
    <3>5. \A d \in dirs[Rec(p)] : d.tx # tx[p]
      BY <1>1, <3>1, <3>3, <3>4 DEF Kept, OpenInv
    <3> QED
      BY <3>1, <3>5 DEF FreshInv, files, Rec
  <2> QED
    BY <2>1, <2>2
<1>4. CASE Fill(p)
  BY <1>1, <1>4 DEF Fill, FreshInv, files, Rec
<1>5. CASE OpenIndex(p)
  BY <1>1, <1>5 DEF OpenIndex, FreshInv, files, Rec
<1>6. CASE FillIndex(p)
  BY <1>1, <1>6 DEF FillIndex, FreshInv, files, Rec
<1>7. ASSUME pc'[p] \notin {"fill", "openIndex", "fillIndex", "compare"} PROVE FreshInv(p)'
  BY <1>7 DEF FreshInv
<1>8. ASSUME ~Open(p), ~Fill(p), ~OpenIndex(p), ~FillIndex(p)
      PROVE  pc'[p] \notin {"fill", "openIndex", "fillIndex", "compare"}
  <2> USE DEF Reset, Undone, Throw, Goto, RemoveDir, Advance
  <2>1. CASE Call(p)
    BY <2>1, <1>2 DEF Call, Ask
  <2>2. CASE Look(p)
    BY <2>2, <1>2 DEF Look
  <2>3. CASE Inspect(p)
    BY <2>3, <1>2 DEF Inspect
  <2>4. CASE Redo(p)
    BY <2>4, <1>2 DEF Redo
  <2>5. CASE Undo(p)
    BY <2>5, <1>2 DEF Undo
  <2>6. CASE Clear(p)
    BY <2>6, <1>2 DEF Clear
  <2>7. CASE FreeIndex(p)
    BY <2>7, <1>2 DEF FreeIndex
  <2>8. CASE FreeLock(p)
    BY <2>8, <1>2 DEF FreeLock
  <2>9. CASE Before(p)
    BY <2>9, <1>2 DEF Before
  <2>10. CASE Compare(p)
    BY <2>10, <1>2 DEF Compare
  <2>11. CASE Stage(p)
    BY <2>11, <1>2 DEF Stage
  <2>12. CASE Promote(p)
    BY <2>12, <1>2 DEF Promote
  <2>13. CASE Rename(p)
    BY <2>13, <1>2 DEF Rename
  <2>14. CASE Mark(p)
    BY <2>14, <1>2 DEF Mark
  <2>15. CASE Rollback(p)
    BY <2>15, <1>2 DEF Rollback
  <2>16. CASE DropPromoted(p)
    BY <2>16, <1>2 DEF DropPromoted
  <2>17. CASE DropStaging(p)
    BY <2>17, <1>2 DEF DropStaging
  <2>18. CASE ReadRecord(p)
    BY <2>18, <1>2 DEF ReadRecord
  <2>19. CASE ReadLog(p)
    BY <2>19, <1>2 DEF ReadLog
  <2>20. CASE Release(p)
    BY <2>20, <1>2 DEF Release
  <2>21. CASE ReleaseOwn(p)
    BY <2>21, <1>2 DEF ReleaseOwn
  <2>22. CASE Return(p)
    BY <2>22, <1>2 DEF Return
  <2>23. CASE Fail(p)
    BY <2>23, <1>2 DEF Fail
  <2>24. CASE Crash(p)
    BY <2>24, <1>2 DEF Crash
  <2> QED
    BY StepKinds, <2>1, <2>2, <2>3, <2>4, <2>5, <2>6, <2>7, <2>8, <2>9, <1>8, <1>8, <1>8,
       <1>8, <2>10, <2>11, <2>12, <2>13, <2>14, <2>15, <2>16, <2>17, <2>18, <2>19, <2>20,
       <2>21, <2>22, <2>23, <2>24
<1> QED
  BY <1>3, <1>4, <1>5, <1>6, <1>7, <1>8

(* What an inspection finds is what the transaction staged.                *)
LEMMA InspectIndex ==
  ASSUME Known, Indices, NEW p \in Proc, Act(p), Inspect(p)
  PROVE  IndexProc(p)'
<1>1. TypeOK /\ Shape /\ Locks /\ IndexInv
  BY DEF Known, Indices
<1>2. DOMAIN pc = Proc /\ DOMAIN base = Proc
  BY <1>1 DEF TypeOK
<1>3. pc[p] = "inspect" /\ UNCHANGED <<files, locks, want, tx>>
  BY DEF Inspect
<1>4. Rec(p) \in Record /\ tx[p].rec = Rec(p) /\ RecordInv(Rec(p))
  BY <1>1, <1>3 DEF Known, Records, Shape, CallShape, Rec, Recovering, Recovery
<1>5. CASE pc'[p] \notin {"redo", "undo"}
  <2>1. pc'[p] \notin Bound
    BY <1>2, <1>5 DEF Inspect, Goto, Throw, Bound
  <2> QED
    BY <2>1 DEF IndexProc, Bound
<1>6. CASE pc'[p] \in {"redo", "undo"}
  <2> DEFINE found == RecoveryDirs(Rec(p), tx[p])
  <2>1. PICK d \in found :
          base' = [base EXCEPT ![p] = [log |-> d.log, record |-> d.tx.pre, index |-> d.index]]
    BY <1>2, <1>6 DEF Inspect, Goto, Throw
  <2>2. pc'[p] = "redo" => marker[Rec(p)] = tx[p]
    BY <1>2, <1>6 DEF Inspect, Goto, Throw
  <2>3. OwnsIndex(tx[p])
    BY <1>2, <1>6 DEF Inspect, Goto, Throw
  <2>4. d \in dirs[Rec(p)] /\ d.tx = tx[p] /\ base'[p].index = d.index
    BY <1>2, <2>1 DEF RecoveryDirs, Dirs
  <2>5. \A c \in dirs[Rec(p)] : c.tx = tx[p] => c.index = d.index
    BY <1>4, <2>4 DEF RecordInv
  <2>6. (\A c \in dirs[Rec(p)] : c.tx = tx[p] => c.index = base[p].index)'
    BY <1>3, <2>4, <2>5 DEF files, Rec
  <2>7. Indexes(tx[p]) /\ pc'[p] = "redo" => index' = Append(base'[p].index, EntryOf(tx[p]))
    BY <1>1, <1>3, <1>4, <2>2, <2>3, <2>4 DEF OwnsIndex, Owned, IndexInv, Indexed, files
  <2> QED
    BY <1>3, <1>6, <2>6, <2>7 DEF IndexProc, EntryOf, Indexes
<1> QED
  BY <1>5, <1>6

(* What a call that does not own the index knows of it.                    *)
LEMMA OutsideIndex ==
  ASSUME Known, Indices, NEW p \in Proc, Act(p), ~HasIndex(p)
  PROVE  IndexProc(p)'
<1>1. TypeOK
  BY DEF Known
<1>2. CASE Inspect(p)
  BY <1>2, InspectIndex
<1>3. CASE ~Inspect(p) /\ pc[p] \notin Working
  <2>1. pc'[p] \notin Bound
    BY <1>1, <1>3, Entering
  <2> QED
    BY <2>1 DEF IndexProc, Bound
<1>4. CASE pc[p] \in Working
  <2>1. ~Indexes(tx[p])
    BY <1>4 DEF HasIndex
  <2>2. CASE tx'[p] = tx[p]
    BY <2>1, <2>2 DEF IndexProc, Indexes
  <2>3. CASE pc'[p] = "idle"
    BY <2>3 DEF IndexProc
  <2> QED
    BY <1>1, <1>4, <2>2, <2>3, Staying
<1> QED
  BY <1>2, <1>3, <1>4

(* What is known of the index where a call works on it.                    *)
LEMMA IndexUnder ==
  ASSUME Known, Indices, NEW p \in Proc, HasIndex(p), NEW r, r = Rec(p), NEW t, t = tx[p]
  PROVE  /\ r \in Record /\ t.rec = r /\ t.ev \in Indexing /\ t.ev \in Event
         /\ t.pre \in Seq(Event) /\ Indexes(t) /\ IndexProc(p)
         /\ indexLock.tx = t /\ indexLock.written
         /\ Complete(index) \/ Half(t)
         /\ Indexed(t) /\ base[p].index \in Seq(Entry)
         /\ Pending(r, t) => marker[r] # t
<1>1. TypeOK /\ Shape /\ IndexInv /\ \A o \in Proc : IndexProc(o)
  BY DEF Known, Indices
<1>2. Owned(indexLock, t) /\ t.rec = r /\ r \in Record /\ t.ev \in Indexing /\ Indexes(t)
  BY <1>1, IndexOwner DEF HasIndex
<1>3. t.pre \in Seq(Event) /\ base[p].index \in Seq(Entry) /\ t.ev \in Event
  BY <1>1, <1>2, StoreAssumption DEF TypeOK, Tx
<1>4. indexLock.tx = t /\ indexLock.written
  BY <1>2 DEF Owned
<1>5. (Complete(index) \/ Half(t)) /\ Indexed(t)
  BY <1>1, <1>4 DEF IndexInv
<1>6. ASSUME Pending(r, t), marker[r] = t PROVE FALSE
  <2>1. Committed(r) = Nxt(t)
    BY <1>1, <1>2, <1>3, <1>6, CommittedTyped
  <2> QED
    BY <1>3, <1>6, <2>1, Appends DEF Pending, Nxt
<1> QED
  BY <1>1, <1>2, <1>3, <1>4, <1>5, <1>6

(* The index lock's transaction stays: what is left to show of its step.   *)
LEMMA IndexGoal ==
  ASSUME NEW t, indexLock'.written, indexLock'.tx = t, Complete(index)' \/ Half(t)', Indexed(t)'
  PROVE  IndexInv'
<1>1. Half(indexLock.tx)' <=> Half(t)'
  BY DEF Half, Pending, Committed, EntryOf
<1>2. Indexed(indexLock.tx)' <=> Indexed(t)'
  BY DEF Indexed, Pending, Committed, EntryOf
<1> QED
  BY <1>1, <1>2 DEF IndexInv

(* A step that does not commit leaves an index as complete as it was.      *)
LEMMA CompleteKept ==
  ASSUME Known, NEW p \in Proc, Act(p), pc[p] # "mark", NEW i, Complete(i)
  PROVE  /\ \A j : j = i => Complete(j)'
         /\ index' = i => Complete(index)'
         /\ base'[p].index = i => Complete(base[p].index)'
<1>1. Complete(i)'
  BY CompleteStill
<1>2. index' = i => Complete(index)'
  BY <1>1 DEF Complete
<1>3. base'[p].index = i => Complete(base[p].index)'
  BY <1>1 DEF Complete
<1> QED
  BY <1>1, <1>2, <1>3

(* A step that writes no index, and changes no directory's copy of it.     *)
LEMMA IndexHeld ==
  ASSUME Known, Indices, NEW p \in Proc, Act(p), pc[p] # "mark", HasIndex(p),
         NEW r, r = Rec(p), NEW t, t = tx[p],
         indexLock'.tx = indexLock.tx, indexLock'.written = indexLock.written,
         index' = index, marker' = marker,
         \A d \in dirs'[r] : d.tx = t => \E c \in dirs[r] : c.tx = t /\ c.index = d.index,
         \/ Complete(index)
         \/ \A c \in dirs[r] : c.tx = t /\ c.whole =>
              \E d \in dirs'[r] : d.tx = t /\ d.whole /\ d.index = c.index
  PROVE  IndexInv'
<1>1. /\ r \in Record /\ t.rec = r /\ indexLock.tx = t /\ indexLock.written
      /\ Complete(index) \/ Half(t)
      /\ Indexed(t)
  BY IndexUnder
<1>2. (Pending(r, t)' <=> Pending(r, t)) /\ marker'[r] = marker[r]
  BY DEF Pending, Committed
<1>3. Complete(index)' \/ Half(t)'
  <2>1. CASE Complete(index)
    <3>1. PICK i : i = index
      OBVIOUS
    <3>2. Complete(i)
      BY <2>1, <3>1
    <3> QED
      BY <3>1, <3>2, CompleteKept
  <2>2. CASE ~Complete(index)
    <3>1. PICK c \in dirs[r] : c.tx = t /\ c.whole /\ index = Append(c.index, EntryOf(t))
      BY <1>1, <2>2 DEF Half
    <3>2. PICK d \in dirs'[r] : d.tx = t /\ d.whole /\ d.index = c.index
      BY <2>2, <3>1
    <3>3. Pending(t.rec, t)'
      BY <1>1, <1>2, <2>2 DEF Half
    <3> QED
      BY <1>1, <3>1, <3>2, <3>3 DEF Half, EntryOf
  <2> QED
    BY <2>1, <2>2
<1>4. Indexed(t)'
  <2>1. ASSUME NEW d \in dirs'[r], d.tx = t
        PROVE  /\ Pending(r, t)' => Complete(d.index)'
               /\ marker'[r] = t => index' = Append(d.index, EntryOf(t))
    <3>1. PICK c \in dirs[r] : c.tx = t /\ c.index = d.index
      BY <2>1
    <3>2. /\ Pending(r, t) => Complete(c.index)
          /\ marker[r] = t => index = Append(c.index, EntryOf(t))
      BY <1>1, <3>1 DEF Indexed
    <3>3. PICK i : i = d.index
      OBVIOUS
    <3>4. Pending(r, t) => Complete(i)
      BY <3>1, <3>2, <3>3
    <3>5. Complete(i) => Complete(i)'
      BY CompleteKept
    <3> QED
      BY <1>2, <3>1, <3>2, <3>3, <3>4, <3>5
  <2> QED
    BY <1>1, <2>1 DEF Indexed, EntryOf
<1> QED
  BY <1>1, <1>3, <1>4, IndexGoal

(* A call that fails or dies leaves the files as they are.                 *)
LEMMA BreakIndex ==
  ASSUME Known, Indices, NEW p \in Proc, Act(p), HasIndex(p), Fail(p) \/ Crash(p)
  PROVE  IndexInv' /\ IndexProc(p)'
<1>1. TypeOK /\ IndexProc(p)
  BY DEF Known, Indices
<1>2. DOMAIN pc = Proc /\ UNCHANGED files
  BY <1>1 DEF Fail, Crash, TypeOK
<1>3. indexLock'.tx = indexLock.tx /\ indexLock'.written = indexLock.written
  <2>1. indexLock \in LockFile
    BY <1>1 DEF TypeOK
  <2>2. indexLock' = indexLock \/ indexLock' = Orphan(indexLock, p)
    BY DEF Fail, Crash, locks
  <2> QED
    BY <2>1, <2>2 DEF Orphan, LockFile
<1>4. IndexInv'
  <2>1. CASE pc[p] # "mark"
    BY <1>2, <1>3, <2>1, IndexHeld DEF files
  <2>2. CASE pc[p] = "mark"
    <3>1. PICK t : t = tx[p]
      OBVIOUS
    <3>2. /\ indexLock'.tx = t /\ indexLock'.written
          /\ Complete(index) \/ Half(t)
          /\ Indexed(t)
      BY <1>3, <3>1, IndexUnder
    <3>3. Complete(index)' \/ Half(t)'
      BY <1>2, <3>2 DEF files, Complete, Half, Pending, Committed, EntryOf
    <3>4. Indexed(t)'
      BY <1>2, <3>2 DEF files, Complete, Indexed, Pending, Committed, EntryOf
    <3> QED
      BY <3>2, <3>3, <3>4, IndexGoal
  <2> QED
    BY <2>1, <2>2
<1>5. IndexProc(p)'
  <2>1. CASE Crash(p)
    <3>1. pc'[p] = "idle"
      BY <1>2, <2>1 DEF Crash, Reset, Goto
    <3> QED
      BY <3>1 DEF IndexProc
  <2>2. CASE Fail(p)
    <3>1. UNCHANGED <<tx, base, want, files>>
      BY <2>2 DEF Fail
    <3>2. CASE pc'[p] \in {"return", "release"}
      BY <3>2 DEF IndexProc
    <3>3. CASE pc'[p] = "dropStaging"
      <4>1. pc[p] = "stage" /\ Indexes(tx[p])
        BY <1>2, <2>2, <3>3 DEF Fail, Throw, Undone, Goto, HasIndex
      <4>2. Complete(index)
        BY <1>1, <4>1 DEF IndexProc
      <4>3. Complete(index)'
        BY <1>2, <4>2 DEF files, Complete, Committed
      <4> QED
        BY <3>3, <4>3 DEF IndexProc
    <3>4. CASE pc'[p] = "rollback"
      <4>1. pc[p] \in {"promote", "rename", "mark"} /\ Indexes(tx[p])
        BY <1>2, <2>2, <3>4 DEF Fail, Throw, Undone, Goto, HasIndex
      <4>2. \A d \in dirs[Rec(p)] : d.tx = tx[p] => d.index = base[p].index
        BY <1>1, <4>1 DEF IndexProc
      <4>3. (\A d \in dirs[Rec(p)] : d.tx = tx[p] => d.index = base[p].index)'
        BY <3>1, <4>2 DEF files, Rec
      <4> QED
        BY <3>4, <4>3 DEF IndexProc
    <3>5. pc'[p] \in {"return", "release", "dropStaging", "rollback"}
      BY <1>2, <2>2 DEF Fail, Throw, Undone, Goto
    <3> QED
      BY <3>2, <3>3, <3>4, <3>5
  <2> QED
    BY <2>1, <2>2
<1> QED
  BY <1>4, <1>5

(* The comparison copies a complete index, whose lock nobody else has.     *)
LEMMA CompareIndex ==
  ASSUME Known, Indices, NEW p \in Proc, Act(p), HasIndex(p), Compare(p),
         NEW r, r = Rec(p), NEW t, t = tx[p]
  PROVE  IndexInv' /\ IndexProc(p)'
<1>0. TypeOK /\ Shape /\ WorkInv(p) /\ WorkInv(p)' /\ IndexProc(p)
  <2>1. OwnKept(p)
    BY OwnStep
  <2> QED
    BY <2>1 DEF Known, Records, Indices, OwnKept
<1>1. /\ DOMAIN pc = Proc /\ DOMAIN base = Proc /\ DOMAIN dirs = Record /\ DOMAIN file = Proc
      /\ DOMAIN marker = Record
  BY <1>0 DEF TypeOK
<1>2. /\ r \in Record /\ t.rec = r /\ t.ev \in Indexing /\ t.ev \in Event
      /\ t.pre \in Seq(Event) /\ Indexes(t)
      /\ indexLock.tx = t /\ indexLock.written
      /\ Complete(index) \/ Half(t)
      /\ Indexed(t) /\ base[p].index \in Seq(Entry)
      /\ Pending(r, t) => marker[r] # t
  BY IndexUnder
<1>3. pc[p] = "compare" /\ UNCHANGED <<index, marker, locks, want, tx>>
  BY DEF Compare
<1>4. \A d \in dirs[r] : d.tx # t
  BY <1>3 DEF Indices, FreshInv
<1>5. Complete(index)
  BY <1>2, <1>4 DEF Half
<1>6. CASE dirs' = dirs /\ pc'[p] \notin Bound
  <2>1. IndexInv'
    BY <1>3, <1>6, IndexHeld DEF locks
  <2> QED
    BY <1>6, <2>1 DEF IndexProc, Bound
<1>7. ASSUME NEW new, new = Staging(t, log[r], index, FALSE), dirs'[r] = dirs[r] \cup {new},
             base'[p].index = index, pc'[p] = "stage"
      PROVE  IndexInv' /\ IndexProc(p)'
  <2>1. new.tx = t /\ new.index = index
    BY <1>7 DEF Staging
  <2>2. PICK i : i = index
    OBVIOUS
  <2>3. Complete(i)
    BY <1>5, <2>2
  <2>4. Complete(i)' /\ Complete(index)' /\ Complete(base[p].index)'
    BY <1>3, <1>7, <2>2, <2>3, CompleteKept
  <2>5. \A d \in dirs'[r] : d.tx = t => d.index = i
    BY <1>4, <1>7, <2>1, <2>2
  <2>6. marker'[r] # t
    <3>1. Pending(r, t)'
      BY <1>0, <1>3, <1>7 DEF WorkInv, Pending, Committed, Rec
    <3>2. Pending(r, t)
      BY <1>3, <3>1 DEF Pending, Committed
    <3> QED
      BY <1>2, <1>3, <3>2
  <2>7. Indexed(t)'
    BY <1>2, <2>4, <2>5, <2>6 DEF Indexed, Complete
  <2>8. IndexInv'
    BY <1>2, <1>3, <2>4, <2>7, IndexGoal DEF locks
  <2>9. (\A d \in dirs[Rec(p)] : d.tx = tx[p] => d.index = base[p].index)'
    BY <1>3, <1>7, <2>2, <2>5 DEF Rec
  <2> QED
    BY <1>7, <2>4, <2>8, <2>9 DEF IndexProc
<1>8. CASE Superseded(p) \/ Dirs(r, t) # {}
  <2>1. dirs' = dirs /\ pc'[p] \in {"release", "dropStaging"}
    BY <1>1, <1>8 DEF Compare, Throw, Goto
  <2>2. CASE pc'[p] = "release"
    BY <1>6, <2>1, <2>2 DEF Bound
  <2>3. CASE pc'[p] = "dropStaging"
    <3>1. Dirs(r, t) # {}
      BY <1>1, <2>3 DEF Compare, Throw, Goto
    <3> QED
      BY <1>4, <3>1 DEF Dirs
  <2> QED
    BY <2>1, <2>2, <2>3
<1>9. CASE ~Superseded(p) /\ Dirs(r, t) = {}
  <2>1. PICK new : new = Staging(t, log[r], index, FALSE)
    OBVIOUS
  <2>2. /\ base' = [base EXCEPT ![p] = [log |-> log[r], record |-> record[r], index |-> index]]
        /\ dirs' = [dirs EXCEPT ![r] = @ \cup {new}]
        /\ Goto(p, "stage")
    BY <1>9, <2>1 DEF Compare
  <2>3. dirs'[r] = dirs[r] \cup {new}
    BY <1>1, <1>2, <2>2
  <2>4. base'[p].index = index
    BY <1>1, <2>2
  <2>5. pc'[p] = "stage"
    BY <1>1, <2>2 DEF Goto
  <2> QED
    BY <1>7, <2>1, <2>3, <2>4, <2>5
<1> QED
  BY <1>8, <1>9

(* The staged directory is completed with the same copy.                   *)
LEMMA StageIndex ==
  ASSUME Known, Indices, NEW p \in Proc, Act(p), HasIndex(p), Stage(p),
         NEW r, r = Rec(p), NEW t, t = tx[p]
  PROVE  IndexInv' /\ IndexProc(p)'
<1>0. TypeOK /\ Shape /\ WorkInv(p) /\ WorkInv(p)' /\ IndexProc(p)
  <2>1. OwnKept(p)
    BY OwnStep
  <2> QED
    BY <2>1 DEF Known, Records, Indices, OwnKept
<1>1. /\ DOMAIN pc = Proc /\ DOMAIN base = Proc /\ DOMAIN dirs = Record /\ DOMAIN file = Proc
      /\ DOMAIN marker = Record
  BY <1>0 DEF TypeOK
<1>2. /\ r \in Record /\ t.rec = r /\ t.ev \in Indexing /\ t.ev \in Event
      /\ t.pre \in Seq(Event) /\ Indexes(t)
      /\ indexLock.tx = t /\ indexLock.written
      /\ Complete(index) \/ Half(t)
      /\ Indexed(t) /\ base[p].index \in Seq(Entry)
      /\ Pending(r, t) => marker[r] # t
  BY IndexUnder
<1>3. pc[p] = "stage" /\ UNCHANGED <<index, marker, locks, want, tx, base>>
  BY DEF Stage
<1>4. OwnsLocks(p) /\ Pending(r, t)
  BY <1>2, <1>3, UnderWay
<1>5. /\ Complete(index) /\ Complete(base[p].index)
      /\ \A d \in dirs[r] : d.tx = t => d.index = base[p].index
  BY <1>0, <1>2, <1>3 DEF IndexProc
<1>6. PICK new : new = Staging(t, base[p].log, base[p].index, TRUE)
  OBVIOUS
<1>7. pc'[p] = "promote" /\ dirs'[r] = (dirs[r] \ {d \in Dirs(r, t) : ~d.promoted}) \cup {new}
  BY <1>1, <1>2, <1>4, <1>6 DEF Stage, Goto
<1>8. new.index = base[p].index
  BY <1>6 DEF Staging
<1>9. \A d \in dirs'[r] : d.tx = t => d.index = base[p].index
  BY <1>5, <1>7, <1>8
<1>10. PICK b, i : b = base[p].index /\ i = index
  OBVIOUS
<1>11. Complete(b) /\ Complete(i)
  BY <1>5, <1>10
<1>12. Complete(b)' /\ Complete(index)' /\ Complete(base[p].index)'
  <2>1. Complete(b)' /\ Complete(base[p].index)'
    BY <1>3, <1>10, <1>11, CompleteKept
  <2>2. Complete(index)'
    BY <1>3, <1>10, <1>11, CompleteKept
  <2> QED
    BY <2>1, <2>2
<1>13. Indexed(t)'
  BY <1>2, <1>3, <1>4, <1>9, <1>10, <1>12 DEF Indexed, Complete
<1>14. IndexInv'
  BY <1>2, <1>3, <1>12, <1>13, IndexGoal DEF locks
<1>15. (\A d \in dirs[Rec(p)] : d.tx = tx[p] => d.index = base[p].index)'
  BY <1>3, <1>9 DEF Rec
<1> QED
  BY <1>7, <1>12, <1>14, <1>15 DEF IndexProc

(* The index is promoted last: from then on its directory can restore it.  *)
LEMMA PromoteIndex ==
  ASSUME Known, Indices, NEW p \in Proc, Act(p), HasIndex(p), Promote(p),
         NEW r, r = Rec(p), NEW t, t = tx[p]
  PROVE  IndexInv' /\ IndexProc(p)'
<1>0. TypeOK /\ Shape /\ WorkInv(p) /\ WorkInv(p)' /\ IndexProc(p)
  <2>1. OwnKept(p)
    BY OwnStep
  <2> QED
    BY <2>1 DEF Known, Records, Indices, OwnKept
<1>1. /\ DOMAIN pc = Proc /\ DOMAIN base = Proc /\ DOMAIN dirs = Record /\ DOMAIN file = Proc
      /\ DOMAIN marker = Record
  BY <1>0 DEF TypeOK
<1>2. /\ r \in Record /\ t.rec = r /\ t.ev \in Indexing /\ t.ev \in Event
      /\ t.pre \in Seq(Event) /\ Indexes(t)
      /\ indexLock.tx = t /\ indexLock.written
      /\ Complete(index) \/ Half(t)
      /\ Indexed(t) /\ base[p].index \in Seq(Entry)
      /\ Pending(r, t) => marker[r] # t
  BY IndexUnder
<1>3. pc[p] = "promote" /\ UNCHANGED <<dirs, marker, locks, want, tx, base>>
  BY DEF Promote
<1>4. OwnsLocks(p) /\ Pending(r, t) /\ Restorable(r, t)
  BY <1>0, <1>2, <1>3, UnderWay DEF WorkInv
<1>5. WriteNext(p, file[p]) /\ Advance(p, Forth, "rename") /\ file[p] \in Writable
  BY <1>0, <1>3, <1>4 DEF Promote, Shape, CallShape
<1>6. Complete(base[p].index) /\ \A d \in dirs[r] : d.tx = t => d.index = base[p].index
  BY <1>0, <1>2, <1>3 DEF IndexProc
<1>7. (\A d \in dirs[Rec(p)] : d.tx = tx[p] => d.index = base[p].index)'
  BY <1>3, <1>6 DEF Rec
<1>8. PICK b : b = base[p].index
  OBVIOUS
<1>9. Complete(b)
  BY <1>6, <1>8
<1>10. Complete(b)' /\ Complete(base[p].index)'
  BY <1>3, <1>8, <1>9, CompleteKept
<1>11. CASE file[p] # "index"
  <2>1. index' = index /\ pc' = pc
    BY <1>1, <1>5, <1>11, Orders DEF WriteNext, Advance, Writable
  <2>2. IndexInv'
    BY <1>3, <2>1, IndexHeld DEF locks
  <2> QED
    BY <1>3, <1>7, <1>10, <2>1, <2>2 DEF IndexProc
<1>12. CASE file[p] = "index"
  <2>1. index' = Append(b, EntryOf(t)) /\ pc'[p] = "rename"
    BY <1>1, <1>2, <1>5, <1>8, <1>12, Orders DEF WriteNext, Advance, Goto, EntryOf
  <2>2. Half(t)'
    <3>1. PICK d \in dirs[r] : d.tx = t /\ d.whole
      BY <1>4 DEF Restorable
    <3>2. index' = Append(d.index, EntryOf(t))
      BY <1>6, <1>8, <2>1, <3>1
    <3>3. Pending(t.rec, t)'
      BY <1>2, <1>3, <1>4 DEF Pending, Committed
    <3> QED
      BY <1>2, <1>3, <3>1, <3>2, <3>3 DEF Half, EntryOf
  <2>3. Indexed(t)'
    BY <1>2, <1>3, <1>4, <1>6, <1>8, <1>10 DEF Indexed, Complete
  <2>4. IndexInv'
    BY <1>2, <1>3, <2>2, <2>3, IndexGoal DEF locks
  <2>5. (index = Append(base[p].index, EntryOf(tx[p])))'
    BY <1>3, <1>8, <2>1 DEF EntryOf
  <2> QED
    BY <1>7, <2>1, <2>4, <2>5 DEF IndexProc
<1> QED
  BY <1>11, <1>12

(* A directory that is renamed has the same copy.                          *)
LEMMA RenameIndex ==
  ASSUME Known, Indices, NEW p \in Proc, Act(p), HasIndex(p), Rename(p),
         NEW r, r = Rec(p), NEW t, t = tx[p]
  PROVE  IndexInv' /\ IndexProc(p)'
<1>0. TypeOK /\ Shape /\ WorkInv(p) /\ WorkInv(p)' /\ IndexProc(p)
  <2>1. OwnKept(p)
    BY OwnStep
  <2> QED
    BY <2>1 DEF Known, Records, Indices, OwnKept
<1>1. /\ DOMAIN pc = Proc /\ DOMAIN base = Proc /\ DOMAIN dirs = Record /\ DOMAIN file = Proc
      /\ DOMAIN marker = Record
  BY <1>0 DEF TypeOK
<1>2. /\ r \in Record /\ t.rec = r /\ t.ev \in Indexing /\ t.ev \in Event
      /\ t.pre \in Seq(Event) /\ Indexes(t)
      /\ indexLock.tx = t /\ indexLock.written
      /\ Complete(index) \/ Half(t)
      /\ Indexed(t) /\ base[p].index \in Seq(Entry)
      /\ Pending(r, t) => marker[r] # t
  BY IndexUnder
<1>3. pc[p] = "rename" /\ UNCHANGED <<index, marker, locks, want, tx, base>>
  BY DEF Rename
<1>4. /\ index = Append(base[p].index, EntryOf(t))
      /\ \A d \in dirs[r] : d.tx = t => d.index = base[p].index
  BY <1>0, <1>2, <1>3 DEF IndexProc
<1>5. PICK staged : staged = {d \in Dirs(r, t) : ~d.promoted}
  OBVIOUS
<1>6. \/ dirs' = dirs /\ pc'[p] = "rollback"
      \/ /\ dirs'[r] = (dirs[r] \ staged) \cup {[d EXCEPT !.promoted = TRUE] : d \in staged}
         /\ pc'[p] = "mark"
  BY <1>1, <1>2, <1>5 DEF Rename, Undone, Throw, Goto
<1>7. \A d \in dirs[r] : /\ [d EXCEPT !.promoted = TRUE].tx = d.tx
                         /\ [d EXCEPT !.promoted = TRUE].whole = d.whole
                         /\ [d EXCEPT !.promoted = TRUE].index = d.index
  BY <1>0, <1>2 DEF TypeOK, Dir
<1>8. staged \subseteq dirs[r]
  BY <1>5 DEF Dirs
<1>9. \A d \in dirs'[r] : d.tx = t => \E c \in dirs[r] : c.tx = t /\ c.index = d.index
  <2> SUFFICES ASSUME NEW d \in dirs'[r], d.tx = t, d \notin dirs[r]
               PROVE  \E c \in dirs[r] : c.tx = t /\ c.index = d.index
    OBVIOUS
  <2>1. PICK c \in staged : d = [c EXCEPT !.promoted = TRUE]
    BY <1>6
  <2> QED
    BY <1>7, <1>8, <2>1
<1>10. \A c \in dirs[r] : c.tx = t /\ c.whole =>
         \E d \in dirs'[r] : d.tx = t /\ d.whole /\ d.index = c.index
  <2> TAKE c \in dirs[r]
  <2>1. CASE c \in dirs'[r]
    BY <2>1
  <2>2. CASE c \notin dirs'[r]
    <3>1. c \in staged /\ [c EXCEPT !.promoted = TRUE] \in dirs'[r]
      BY <1>6, <2>2
    <3> QED
      BY <1>7, <3>1
  <2> QED
    BY <2>1, <2>2
<1>11. IndexInv'
  BY <1>3, <1>9, <1>10, IndexHeld DEF locks
<1>12. (\A d \in dirs[Rec(p)] : d.tx = tx[p] => d.index = base[p].index)'
  BY <1>3, <1>4, <1>9 DEF Rec
<1>13. (index = Append(base[p].index, EntryOf(tx[p])))'
  BY <1>3, <1>4 DEF EntryOf
<1> QED
  BY <1>6, <1>11, <1>12, <1>13 DEF IndexProc

(* The commit makes the promoted index the complete one.                   *)
LEMMA MarkIndex ==
  ASSUME Known, Indices, NEW p \in Proc, Act(p), HasIndex(p), Mark(p),
         NEW r, r = Rec(p), NEW t, t = tx[p]
  PROVE  IndexInv' /\ IndexProc(p)'
<1>0. TypeOK /\ Shape /\ WorkInv(p) /\ WorkInv(p)' /\ IndexProc(p)
  <2>1. OwnKept(p)
    BY OwnStep
  <2> QED
    BY <2>1 DEF Known, Records, Indices, OwnKept
<1>1. /\ DOMAIN pc = Proc /\ DOMAIN base = Proc /\ DOMAIN dirs = Record /\ DOMAIN file = Proc
      /\ DOMAIN marker = Record
  BY <1>0 DEF TypeOK
<1>2. /\ r \in Record /\ t.rec = r /\ t.ev \in Indexing /\ t.ev \in Event
      /\ t.pre \in Seq(Event) /\ Indexes(t)
      /\ indexLock.tx = t /\ indexLock.written
      /\ Complete(index) \/ Half(t)
      /\ Indexed(t) /\ base[p].index \in Seq(Entry)
      /\ Pending(r, t) => marker[r] # t
  BY IndexUnder
<1>3. pc[p] = "mark" /\ UNCHANGED <<index, dirs, locks, want, tx, base>>
  BY DEF Mark
<1>4. OwnsLocks(p) /\ Pending(r, t) /\ Restorable(r, t)
  BY <1>0, <1>2, <1>3, UnderWay DEF WorkInv
<1>5. /\ marker' = [marker EXCEPT ![r] = t] /\ pc'[p] = "release"
  BY <1>1, <1>4 DEF Mark, Goto
<1>6. /\ index = Append(base[p].index, EntryOf(t))
      /\ \A d \in dirs[r] : d.tx = t => d.index = base[p].index
  BY <1>0, <1>2, <1>3 DEF IndexProc
<1>7. Complete(base[p].index)
  BY <1>2, <1>4, <1>6 DEF Restorable, Indexed
<1>8. Committed(r)' = Append(t.pre, t.ev)
  BY <1>1, <1>2, <1>5, StoreAssumption DEF Committed, NoTx
<1>9. /\ ToSet(Committed(r)') = ToSet(Committed(r)) \cup {t.ev}
      /\ t.ev \notin ToSet(Committed(r)) /\ t.ev \in ToSet(Committed(r)')
  BY <1>2, <1>4, <1>8, Appends DEF Pending
<1>10. PICK i, b : i = index /\ b = base[p].index
  OBVIOUS
<1>11. Complete(b) /\ b \in Seq(Entry) /\ i = Append(b, <<r, t.ev>>)
  BY <1>2, <1>6, <1>7, <1>10 DEF EntryOf
<1>12. \A s \in Record : s # r => marker'[s] = marker[s]
  BY <1>1, <1>5
<1>13. Complete(Append(b, <<r, t.ev>>))'
  BY <1>2, <1>9, <1>11, <1>12, CompleteAppend
<1>14. Complete(index)'
  <2>1. PICK n : n = Append(b, <<r, t.ev>>)
    OBVIOUS
  <2>2. Complete(n)'
    BY <1>13, <2>1
  <2>3. index' = n
    BY <1>3, <1>10, <1>11, <2>1
  <2> QED
    BY <2>2, <2>3 DEF Complete
<1>15. Indexed(t)'
  <2>1. ~Pending(r, t)'
    BY <1>2, <1>4, <1>9 DEF Pending
  <2> QED
    BY <1>2, <1>3, <1>6, <2>1 DEF Indexed, EntryOf
<1>16. IndexInv'
  BY <1>2, <1>3, <1>14, <1>15, IndexGoal DEF locks
<1> QED
  BY <1>5, <1>16 DEF IndexProc

(* Redoing writes the index that is there.                                 *)
LEMMA RedoIndex ==
  ASSUME Known, Indices, NEW p \in Proc, Act(p), HasIndex(p), Redo(p),
         NEW r, r = Rec(p), NEW t, t = tx[p]
  PROVE  IndexInv' /\ IndexProc(p)'
<1>0. TypeOK /\ Shape /\ WorkInv(p) /\ WorkInv(p)' /\ IndexProc(p)
  <2>1. OwnKept(p)
    BY OwnStep
  <2> QED
    BY <2>1 DEF Known, Records, Indices, OwnKept
<1>1. /\ DOMAIN pc = Proc /\ DOMAIN base = Proc /\ DOMAIN dirs = Record /\ DOMAIN file = Proc
      /\ DOMAIN marker = Record
  BY <1>0 DEF TypeOK
<1>2. /\ r \in Record /\ t.rec = r /\ t.ev \in Indexing /\ t.ev \in Event
      /\ t.pre \in Seq(Event) /\ Indexes(t)
      /\ indexLock.tx = t /\ indexLock.written
      /\ Complete(index) \/ Half(t)
      /\ Indexed(t) /\ base[p].index \in Seq(Entry)
      /\ Pending(r, t) => marker[r] # t
  BY IndexUnder
<1>3. pc[p] = "redo" /\ UNCHANGED <<dirs, marker, locks, want, tx, base>> /\ WriteNext(p, file[p])
  BY DEF Redo
<1>4. /\ index = Append(base[p].index, EntryOf(t))
      /\ \A d \in dirs[r] : d.tx = t => d.index = base[p].index
  BY <1>0, <1>2, <1>3 DEF IndexProc
<1>5. index' = index
  BY <1>2, <1>3, <1>4 DEF WriteNext, EntryOf
<1>6. IndexInv'
  BY <1>3, <1>5, IndexHeld DEF locks
<1>7. pc'[p] \in {"redo", "settle"}
  BY <1>1, <1>3 DEF Redo, Advance, Goto
<1>8. (\A d \in dirs[Rec(p)] : d.tx = tx[p] => d.index = base[p].index)'
  BY <1>3, <1>4 DEF Rec
<1>9. (index = Append(base[p].index, EntryOf(tx[p])))'
  BY <1>3, <1>4, <1>5 DEF EntryOf
<1> QED
  BY <1>6, <1>7, <1>8, <1>9 DEF IndexProc

(* The index is restored last, from the directory's copy.                  *)
LEMMA RestoreIndex ==
  ASSUME Known, Indices, NEW p \in Proc, Act(p), HasIndex(p), pc[p] \in {"rollback", "undo"},
         WritePrevious(p, file[p]), UNCHANGED <<dirs, marker, locks, want, tx, base>>,
         NEW then \in {"dropPromoted", "clear"}, Advance(p, Back, then),
         NEW r, r = Rec(p), NEW t, t = tx[p]
  PROVE  IndexInv' /\ IndexProc(p)'
<1>0. TypeOK /\ Shape /\ WorkInv(p) /\ WorkInv(p)' /\ IndexProc(p)
  <2>1. OwnKept(p)
    BY OwnStep
  <2> QED
    BY <2>1 DEF Known, Records, Indices, OwnKept
<1>1. /\ DOMAIN pc = Proc /\ DOMAIN base = Proc /\ DOMAIN dirs = Record /\ DOMAIN file = Proc
      /\ DOMAIN marker = Record
  BY <1>0 DEF TypeOK
<1>2. /\ r \in Record /\ t.rec = r /\ t.ev \in Indexing /\ t.ev \in Event
      /\ t.pre \in Seq(Event) /\ Indexes(t)
      /\ indexLock.tx = t /\ indexLock.written
      /\ Complete(index) \/ Half(t)
      /\ Indexed(t) /\ base[p].index \in Seq(Entry)
      /\ Pending(r, t) => marker[r] # t
  BY IndexUnder
<1>3. Pending(r, t) /\ Restorable(r, t) /\ file[p] \in Writable
  BY <1>0, <1>2, UnderWay DEF WorkInv, Shape, CallShape
<1>4. \A d \in dirs[r] : d.tx = t => d.index = base[p].index
  BY <1>0, <1>2 DEF IndexProc
<1>5. Complete(base[p].index)
  BY <1>2, <1>3, <1>4 DEF Restorable, Indexed
<1>6. (\A d \in dirs[Rec(p)] : d.tx = tx[p] => d.index = base[p].index)'
  BY <1>4 DEF Rec
<1>7. CASE file[p] # "index"
  <2>1. index' = index /\ pc' = pc
    BY <1>1, <1>3, <1>7, Orders DEF WritePrevious, Advance, Writable
  <2>2. IndexInv'
    BY <2>1, IndexHeld DEF locks
  <2> QED
    BY <1>6, <2>1, <2>2 DEF IndexProc
<1>8. CASE file[p] = "index"
  <2>1. index' = base[p].index /\ pc'[p] = then
    BY <1>1, <1>2, <1>8, Orders DEF WritePrevious, Advance, Goto
  <2>2. PICK b : b = base[p].index
    OBVIOUS
  <2>3. Complete(b)
    BY <1>5, <2>2
  <2>4. Complete(b)' /\ Complete(index)'
    BY <2>1, <2>2, <2>3, CompleteKept
  <2>5. Indexed(t)'
    BY <1>2, <1>3, <1>4, <2>2, <2>4 DEF Indexed, Complete
  <2>6. IndexInv'
    BY <1>2, <2>4, <2>5, IndexGoal DEF locks
  <2>7. Owned(indexLock, tx[p])'
    BY <1>2 DEF Owned, locks
  <2> QED
    BY <2>1, <2>4, <2>6, <2>7 DEF IndexProc
<1> QED
  BY <1>7, <1>8

(* A rollback restores it.                                                 *)
LEMMA RollbackIndex ==
  ASSUME Known, Indices, NEW p \in Proc, Act(p), HasIndex(p), Rollback(p),
         NEW r, r = Rec(p), NEW t, t = tx[p]
  PROVE  IndexInv' /\ IndexProc(p)'
<1>1. /\ pc[p] = "rollback" /\ UNCHANGED <<dirs, marker, locks, want, tx, base>>
      /\ WritePrevious(p, file[p]) /\ Advance(p, Back, "dropPromoted")
  BY DEF Rollback
<1> QED
  BY <1>1, RestoreIndex

(* So does a recovery.                                                     *)
LEMMA UndoIndex ==
  ASSUME Known, Indices, NEW p \in Proc, Act(p), HasIndex(p), Undo(p),
         NEW r, r = Rec(p), NEW t, t = tx[p]
  PROVE  IndexInv' /\ IndexProc(p)'
<1>1. pc[p] = "undo" /\ UNCHANGED <<dirs, marker, locks, want, tx, base>>
  BY DEF Undo
<1>2. WorkInv(p)
  BY DEF Known, Records
<1>3. \E d \in Dirs(Rec(p), tx[p]) : d.whole
  BY <1>1, <1>2 DEF WorkInv, Restorable, Dirs
<1>4. WritePrevious(p, file[p]) /\ Advance(p, Back, "clear")
  BY <1>3 DEF Undo
<1> QED
  BY <1>1, <1>4, RestoreIndex

(* A directory is removed when the index is complete without it.           *)
LEMMA RemoveIndex ==
  ASSUME Known, Indices, NEW p \in Proc, Act(p), HasIndex(p),
         pc[p] \in {"dropPromoted", "dropStaging", "clear"},
         UNCHANGED <<index, marker, locks, want, tx, base>>,
         NEW old, old \subseteq dirs[Rec(p)], NEW then, RemoveDir(p, old, then),
         pc'[p] \in {"dropPromoted", "dropStaging", "release", "settle"} \/ pc' = pc,
         NEW r, r = Rec(p), NEW t, t = tx[p]
  PROVE  IndexInv' /\ IndexProc(p)'
<1>0. TypeOK /\ Shape /\ WorkInv(p) /\ WorkInv(p)' /\ IndexProc(p)
  <2>1. OwnKept(p)
    BY OwnStep
  <2> QED
    BY <2>1 DEF Known, Records, Indices, OwnKept
<1>1. /\ DOMAIN pc = Proc /\ DOMAIN base = Proc /\ DOMAIN dirs = Record /\ DOMAIN file = Proc
      /\ DOMAIN marker = Record
  BY <1>0 DEF TypeOK
<1>2. /\ r \in Record /\ t.rec = r /\ t.ev \in Indexing /\ t.ev \in Event
      /\ t.pre \in Seq(Event) /\ Indexes(t)
      /\ indexLock.tx = t /\ indexLock.written
      /\ Complete(index) \/ Half(t)
      /\ Indexed(t) /\ base[p].index \in Seq(Entry)
      /\ Pending(r, t) => marker[r] # t
  BY IndexUnder
<1>3. Complete(index)
  BY <1>0, <1>2 DEF IndexProc
<1>4. \A d \in dirs[r] : /\ [d EXCEPT !.whole = FALSE].tx = d.tx
                         /\ [d EXCEPT !.whole = FALSE].index = d.index
  BY <1>0, <1>2 DEF TypeOK, Dir
<1>5. \/ dirs'[r] = dirs[r] \ old
      \/ dirs'[r] = (dirs[r] \ old) \cup {[d EXCEPT !.whole = FALSE] : d \in old}
  BY <1>1, <1>2 DEF RemoveDir
<1>6. \A d \in dirs'[r] : d.tx = t => \E c \in dirs[r] : c.tx = t /\ c.index = d.index
  <2> SUFFICES ASSUME NEW d \in dirs'[r], d.tx = t, d \notin dirs[r]
               PROVE  \E c \in dirs[r] : c.tx = t /\ c.index = d.index
    OBVIOUS
  <2>1. PICK c \in old : d = [c EXCEPT !.whole = FALSE]
    BY <1>5
  <2> QED
    BY <1>4, <2>1
<1>7. IndexInv'
  BY <1>3, <1>6, IndexHeld DEF locks
<1>8. Complete(index)'
  <2>1. PICK i : i = index
    OBVIOUS
  <2>2. Complete(i)
    BY <1>3, <2>1
  <2> QED
    BY <2>1, <2>2, CompleteKept
<1>9. pc[p] = "clear" => Owned(indexLock, tx[p])'
  BY <1>2 DEF Owned, locks
<1> QED
  BY <1>7, <1>8, <1>9 DEF IndexProc

(* What a call at work does to the index it owns.                          *)
LEMMA OwnIndex ==
  ASSUME Known, Indices, NEW p \in Proc, Act(p), HasIndex(p)
  PROVE  IndexInv' /\ IndexProc(p)'
<1>0. DOMAIN pc = Proc
  BY DEF Known, TypeOK
<1>1. PICK r, t : r = Rec(p) /\ t = tx[p]
  OBVIOUS
<1>2. CASE DropPromoted(p) \/ DropStaging(p) \/ Clear(p)
  <2>1. PICK old, then : old \subseteq dirs[Rec(p)] /\ RemoveDir(p, old, then)
                         /\ then \in {"dropStaging", "release", "settle"}
    BY <1>2 DEF DropPromoted, DropStaging, Clear, RecoveryDirs, Dirs
  <2>2. /\ pc[p] \in {"dropPromoted", "dropStaging", "clear"}
        /\ UNCHANGED <<index, marker, locks, want, tx, base>>
    BY <1>2 DEF DropPromoted, DropStaging, Clear
  <2>3. pc'[p] \in {"dropPromoted", "dropStaging", "release", "settle"} \/ pc' = pc
    BY <1>0, <2>1 DEF RemoveDir, Goto
  <2> QED
    BY <1>1, <2>1, <2>2, <2>3, RemoveIndex
<1>3. CASE Fail(p) \/ Crash(p)
  BY <1>3, BreakIndex
<1>4. CASE Compare(p)
  BY <1>1, <1>4, CompareIndex
<1>5. CASE Stage(p)
  BY <1>1, <1>5, StageIndex
<1>6. CASE Promote(p)
  BY <1>1, <1>6, PromoteIndex
<1>7. CASE Rename(p)
  BY <1>1, <1>7, RenameIndex
<1>8. CASE Mark(p)
  BY <1>1, <1>8, MarkIndex
<1>9. CASE Rollback(p)
  BY <1>1, <1>9, RollbackIndex
<1>10. CASE Undo(p)
  BY <1>1, <1>10, UndoIndex
<1>11. CASE Redo(p)
  BY <1>1, <1>11, RedoIndex
<1> QED
  BY StepKinds, <1>2, <1>3, <1>4, <1>5, <1>6, <1>7, <1>8, <1>9, <1>10, <1>11
     DEF HasIndex, Working, Covering, Call, Ask, Look, Inspect, FreeIndex, FreeLock, Before, Open,
         Fill, OpenIndex, FillIndex, ReadRecord, ReadLog, Release, ReleaseOwn, Return

(* The index and what the calls know of it are kept together.              *)
LEMMA IndicesHold ==
  ASSUME Known, Indices, [Next]_vars
  PROVE  Indices'
<1>1. ASSUME NEW p \in Proc, Act(p) PROVE Indices'
  <2>1. IndexInv' /\ IndexProc(p)'
    BY <1>1, OwnIndex, IndexElsewhere, OutsideIndex
  <2>2. FreshInv(p)'
    BY <1>1, FreshOwn
  <2>3. \A q \in Proc : q # p => FreshInv(q)' /\ IndexProc(q)'
    BY <1>1, IndexKnown
  <2> QED
    BY <2>1, <2>2, <2>3 DEF Indices
<1>2. CASE UNCHANGED vars
  <2> USE <1>2 DEF vars, files, locks
  <2>1. Complete(index)' <=> Complete(index)
    BY DEF Complete, Committed
  <2>2. Half(indexLock.tx)' <=> Half(indexLock.tx)
    BY DEF Half, Pending, Committed, EntryOf
  <2>3. Indexed(indexLock.tx)' <=> Indexed(indexLock.tx)
    BY DEF Indexed, Pending, Committed, EntryOf, Complete
  <2>4. IndexInv'
    BY <2>1, <2>2, <2>3 DEF Indices, IndexInv
  <2>5. ASSUME NEW q \in Proc PROVE FreshInv(q)' /\ IndexProc(q)'
    <3>1. FreshInv(q) /\ IndexProc(q)
      BY DEF Indices
    <3>2. Complete(base[q].index)' <=> Complete(base[q].index)
      BY DEF Complete, Committed
    <3> QED
      BY <2>1, <3>1, <3>2 DEF FreshInv, IndexProc, Rec, Owned, Indexes, EntryOf
  <2> QED
    BY <2>4, <2>5 DEF Indices
<1> QED
  BY <1>1, <1>2 DEF Next, Act

(* At the start the index is empty, and nothing is committed.              *)
LEMMA IndicesInit == Init => Indices
<1> SUFFICES ASSUME Init PROVE Indices
  OBVIOUS
<1>1. Complete(index)
  <2>1. \A r \in Record : Committed(r) = <<>>
    BY DEF Init, Committed
  <2>2. ToSet(<<>>) = {}
    BY DEF ToSet
  <2>3. \A t \in Record \X Indexing : t[2] \notin ToSet(Committed(t[1]))
    BY <2>1, <2>2
  <2>4. index = <<>> /\ DOMAIN index = {}
    BY DEF Init
  <2> QED
    BY <2>2, <2>3, <2>4 DEF Complete
<1>2. ~indexLock.written
  BY DEF Init, Free
<1>3. \A p \in Proc : pc[p] = "idle"
  BY DEF Init
<1> QED
  BY <1>1, <1>2, <1>3 DEF Indices, IndexInv, FreshInv, IndexProc

(* In a behaviour in which recoveries do not overlap and no two calls are  *)
(* twins, the shared index that nobody has locked names every committed    *)
(* event that indexes, of all the records, once.  Nothing in the code      *)
(* keeps to that, and the recovery of a dead twin can take the entry of a  *)
(* committed event out.                                                    *)
THEOREM StoreIndexCompleteIfApart == Spec /\ [](Serial /\ NoTwins) => []IndexComplete
<1>1. Init => Known /\ Indices
  BY KnownInit, IndicesInit
<1>2. Known /\ Indices /\ [Next /\ Serial' /\ NoTwins']_vars => (Known /\ Indices)'
  <2> SUFFICES ASSUME Known, Indices, [Next /\ Serial' /\ NoTwins']_vars PROVE Known' /\ Indices'
    OBVIOUS
  <2>1. [Next]_vars
    OBVIOUS
  <2> QED
    BY <2>1, KnownStep, IndicesHold
<1>3. Known /\ Indices => IndexComplete
  BY DEF Indices, IndexInv, IndexComplete, Free
<1> QED
  BY <1>1, <1>2, <1>3, ApartStep, PTL DEF Spec

(***************************************************************************)
(* The refinement of ControlLog.                                           *)
(***************************************************************************)

(* How a call ends is decided where it starts to end.                      *)
Undoing == {"rollback", "dropPromoted", "dropStaging"}
Ending == Undoing \cup {"release", "releaseLock", "return"}
OutcomeInv(p) ==
  /\ outcome[p] = "none" <=> pc[p] \notin Ending
  /\ pc[p] \in Undoing => outcome[p] = "error"
  /\ pc[p] = "idle" => want[p] = NoWant
  /\ outcome[p] = "ok" /\ Reading(p) => base[p].log = base[p].record

(* What a step does to a call as its caller sees it: nothing, it ends it   *)
(* with an error, it forgets it, or one of three steps of its own.         *)
Steady(p) ==
  /\ pc[p] # "idle" /\ pc'[p] # "idle" /\ want'[p] = want[p] /\ outcome'[p] = outcome[p]
  /\ outcome[p] = "ok" => base'[p] = base[p]
Failing(p) ==
  /\ pc[p] # "idle" /\ pc'[p] # "idle" /\ want'[p] = want[p] /\ outcome'[p] = "error"
  /\ ~(outcome[p] = "ok" /\ Reading(p))
Leaving(p) ==
  /\ pc[p] # "idle" /\ pc'[p] = "idle" /\ want'[p] = NoWant /\ outcome'[p] = "none"

(* Every step of a call is one of these.                                   *)
LEMMA CallMoves ==
  ASSUME TypeOK, NEW p \in Proc, Act(p), OutcomeInv(p)
  PROVE  \/ Steady(p) \/ Failing(p) \/ Leaving(p)
         \/ Call(p) \/ ReadLog(p) \/ (Mark(p) /\ OwnsLocks(p))
<1>1. /\ DOMAIN pc = Proc /\ DOMAIN outcome = Proc /\ DOMAIN want = Proc
  BY DEF TypeOK
<1> USE DEF Steady, Failing, Leaving, OutcomeInv, Undoing, Ending, Reset, Undone, Throw, Goto,
            RemoveDir, Advance
<1>2. CASE Look(p)
  BY <1>2, <1>1 DEF Look
<1>3. CASE Inspect(p)
  BY <1>3, <1>1 DEF Inspect
<1>4. CASE Redo(p)
  BY <1>4, <1>1 DEF Redo
<1>5. CASE Undo(p)
  BY <1>5, <1>1 DEF Undo
<1>6. CASE Clear(p)
  BY <1>6, <1>1 DEF Clear
<1>7. CASE FreeIndex(p)
  BY <1>7, <1>1 DEF FreeIndex
<1>8. CASE FreeLock(p)
  BY <1>8, <1>1 DEF FreeLock
<1>9. CASE Before(p)
  BY <1>9, <1>1 DEF Before
<1>10. CASE Open(p)
  BY <1>10, <1>1 DEF Open
<1>11. CASE Fill(p)
  BY <1>11, <1>1 DEF Fill
<1>12. CASE OpenIndex(p)
  BY <1>12, <1>1 DEF OpenIndex
<1>13. CASE FillIndex(p)
  BY <1>13, <1>1 DEF FillIndex
<1>14. CASE Compare(p)
  BY <1>14, <1>1 DEF Compare
<1>15. CASE Stage(p)
  BY <1>15, <1>1 DEF Stage
<1>16. CASE Promote(p)
  BY <1>16, <1>1 DEF Promote
<1>17. CASE Rename(p)
  BY <1>17, <1>1 DEF Rename
<1>18. CASE Mark(p)
  BY <1>18, <1>1 DEF Mark, OwnsLocks
<1>19. CASE Rollback(p)
  BY <1>19, <1>1 DEF Rollback
<1>20. CASE DropPromoted(p)
  BY <1>20, <1>1 DEF DropPromoted
<1>21. CASE DropStaging(p)
  BY <1>21, <1>1 DEF DropStaging
<1>22. CASE ReadRecord(p)
  BY <1>22, <1>1 DEF ReadRecord
<1>23. CASE Release(p)
  BY <1>23, <1>1 DEF Release
<1>24. CASE ReleaseOwn(p)
  BY <1>24, <1>1 DEF ReleaseOwn
<1>25. CASE Return(p)
  BY <1>25, <1>1 DEF Return
<1>26. CASE Fail(p)
  BY <1>26, <1>1 DEF Fail
<1>27. CASE Crash(p)
  BY <1>27, <1>1 DEF Crash
<1> QED
  BY StepKinds, <1>1, <1>2, <1>3, <1>4, <1>5, <1>6, <1>7, <1>8, <1>9, <1>10, <1>11, <1>12,
     <1>13, <1>14, <1>15, <1>16, <1>17, <1>18, <1>19, <1>20, <1>21, <1>22, <1>1, <1>23,
     <1>24, <1>25, <1>26, <1>27

(* Its outcome stays in step with where it is.                             *)
LEMMA OutcomeHolds ==
  ASSUME Known, NEW p \in Proc, Act(p), NEW q \in Proc, OutcomeInv(q)
  PROVE  OutcomeInv(q)'
<1>1. /\ TypeOK /\ DOMAIN pc = Proc /\ DOMAIN outcome = Proc /\ DOMAIN want = Proc /\ DOMAIN base = Proc
      /\ \A o \in Proc : WorkInv(o)
      /\ \A o \in Proc : pc[o] \in Consulting \cup Appending =>
           want[o].rec \in Record /\ (Reading(o) <=> pc[o] \in Consulting)
  BY DEF Known, TypeOK, Records, Shape, CallShape, Appending, Consulting, Holding
<1>2. CASE q # p
  BY <1>1, <1>2, OthersUnmoved DEF OutcomeInv, Reading
<1>3. CASE q = p /\ ReadLog(p)
  <2>1. /\ pc[p] = "readLog" /\ pc'[p] = "release" /\ outcome'[p] = "ok" /\ UNCHANGED want
        /\ base' = [base EXCEPT ![p].log = log[Rec(p)]]
    BY <1>1, <1>3 DEF ReadLog, Goto
  <2>2. base[p] \in Base
    BY <1>1 DEF TypeOK, Base
  <2>3. base'[p].log = log[Rec(p)] /\ base'[p].record = base[p].record
    BY <1>1, <2>1, <2>2 DEF Base
  <2>4. base[p].record = Committed(Rec(p)) /\ log[Rec(p)] = Committed(Rec(p))
    BY <1>1, <2>1 DEF WorkInv, Unready, Clean, Settled
  <2> QED
    BY <1>3, <2>1, <2>3, <2>4 DEF OutcomeInv, Undoing, Ending
<1>4. CASE q = p /\ ~ReadLog(p)
  <2>1. /\ outcome'[p] = "none" <=> pc'[p] \notin Ending
        /\ pc'[p] \in Undoing => outcome'[p] = "error"
        /\ pc'[p] = "idle" => want'[p] = NoWant
    <3> USE <1>4 DEF OutcomeInv, Undoing, Ending, Reset, Undone, Throw, Goto, RemoveDir, Advance
    <3>1. CASE Call(p)
      BY <3>1, <1>1 DEF Call, Ask
    <3>2. CASE Look(p)
      BY <3>2, <1>1 DEF Look
    <3>3. CASE Inspect(p)
      BY <3>3, <1>1 DEF Inspect
    <3>4. CASE Redo(p)
      BY <3>4, <1>1 DEF Redo
    <3>5. CASE Undo(p)
      BY <3>5, <1>1 DEF Undo
    <3>6. CASE Clear(p)
      BY <3>6, <1>1 DEF Clear
    <3>7. CASE FreeIndex(p)
      BY <3>7, <1>1 DEF FreeIndex
    <3>8. CASE FreeLock(p)
      BY <3>8, <1>1 DEF FreeLock
    <3>9. CASE Before(p)
      BY <3>9, <1>1 DEF Before
    <3>10. CASE Open(p)
      BY <3>10, <1>1 DEF Open
    <3>11. CASE Fill(p)
      BY <3>11, <1>1 DEF Fill
    <3>12. CASE OpenIndex(p)
      BY <3>12, <1>1 DEF OpenIndex
    <3>13. CASE FillIndex(p)
      BY <3>13, <1>1 DEF FillIndex
    <3>14. CASE Compare(p)
      BY <3>14, <1>1 DEF Compare
    <3>15. CASE Stage(p)
      BY <3>15, <1>1 DEF Stage
    <3>16. CASE Promote(p)
      BY <3>16, <1>1 DEF Promote
    <3>17. CASE Rename(p)
      BY <3>17, <1>1 DEF Rename
    <3>18. CASE Mark(p)
      BY <3>18, <1>1 DEF Mark
    <3>19. CASE Rollback(p)
      BY <3>19, <1>1 DEF Rollback
    <3>20. CASE DropPromoted(p)
      BY <3>20, <1>1 DEF DropPromoted
    <3>21. CASE DropStaging(p)
      BY <3>21, <1>1 DEF DropStaging
    <3>22. CASE ReadRecord(p)
      BY <3>22, <1>1 DEF ReadRecord
    <3>23. CASE Release(p)
      BY <3>23, <1>1 DEF Release
    <3>24. CASE ReleaseOwn(p)
      BY <3>24, <1>1 DEF ReleaseOwn
    <3>25. CASE Return(p)
      BY <3>25, <1>1 DEF Return
    <3>26. CASE Fail(p)
      BY <3>26, <1>1 DEF Fail
    <3>27. CASE Crash(p)
      BY <3>27, <1>1 DEF Crash
    <3> QED
      BY StepKinds, <3>1, <3>2, <3>3, <3>4, <3>5, <3>6, <3>7, <3>8, <3>9, <3>10, <3>11, <3>12,
         <3>13, <3>14, <3>15, <3>16, <3>17, <3>18, <3>19, <3>20, <3>21, <3>22, <1>4, <3>23,
         <3>24, <3>25, <3>26, <3>27
  <2>2. outcome'[p] = "ok" /\ Reading(p)' => base'[p].log = base'[p].record
    <3>1. CASE Steady(p) \/ Failing(p) \/ Leaving(p)
      BY <1>4, <3>1 DEF Steady, Failing, Leaving, OutcomeInv, Reading
    <3>2. CASE Call(p)
      BY <1>4, <3>2 DEF Call, Ask, OutcomeInv, Ending, Undoing
    <3>3. CASE Mark(p)
      BY <1>1, <3>3 DEF Mark, Reading, Appending, Consulting
    <3> QED
      BY <1>1, <1>4, <3>1, <3>2, <3>3, CallMoves
  <2> QED
    BY <1>4, <2>1, <2>2 DEF OutcomeInv
<1> QED
  BY <1>2, <1>3, <1>4

(* A call as its caller sees it, spelled out.                              *)
Seen(p, phase, value) ==
  [phase |-> phase, rec |-> want[p].rec, ev |-> want[p].ev, value |-> value]

(* There are five things a caller can see.                                 *)
LEMMA CallSeen ==
  ASSUME NEW p \in Proc, OutcomeInv(p)
  PROVE  /\ pc[p] = "idle" => CallOf(p) = Promise!Idle
         /\ pc[p] # "idle" /\ outcome[p] = "none" => CallOf(p) = Seen(p, "asked", <<>>)
         /\ pc[p] # "idle" /\ outcome[p] = "error" => CallOf(p) = Seen(p, "failed", <<>>)
         /\ pc[p] # "idle" /\ outcome[p] = "ok" /\ ~Reading(p) => CallOf(p) = Seen(p, "done", <<>>)
         /\ pc[p] # "idle" /\ outcome[p] = "ok" /\ Reading(p) =>
              CallOf(p) = Seen(p, "done", base[p].log)
<1>1. CASE pc[p] = "idle"
  BY <1>1 DEF OutcomeInv, CallOf, Promise!Idle, NoWant, Ending, Undoing
<1>2. CASE pc[p] # "idle" /\ outcome[p] = "none"
  BY <1>2 DEF CallOf, Seen
<1>3. CASE pc[p] # "idle" /\ outcome[p] = "error"
  BY <1>3 DEF CallOf, Seen
<1>4. CASE pc[p] # "idle" /\ outcome[p] = "ok"
  BY <1>4 DEF CallOf, Seen, OutcomeInv
<1> QED
  BY <1>1, <1>2, <1>3, <1>4

(* The same of the state after a step.                                     *)
LEMMA CallSeenNext ==
  ASSUME NEW p \in Proc, OutcomeInv(p)'
  PROVE  /\ pc'[p] = "idle" => CallOf(p)' = Promise!Idle
         /\ pc'[p] # "idle" /\ outcome'[p] = "none" => CallOf(p)' = Seen(p, "asked", <<>>)'
         /\ pc'[p] # "idle" /\ outcome'[p] = "error" => CallOf(p)' = Seen(p, "failed", <<>>)'
         /\ pc'[p] # "idle" /\ outcome'[p] = "ok" /\ ~Reading(p)' =>
              CallOf(p)' = Seen(p, "done", <<>>)'
         /\ pc'[p] # "idle" /\ outcome'[p] = "ok" /\ Reading(p)' =>
              CallOf(p)' = Seen(p, "done", base[p].log)'
<1>1. CASE pc'[p] = "idle"
  BY <1>1 DEF OutcomeInv, CallOf, Promise!Idle, NoWant, Ending, Undoing
<1>2. CASE pc'[p] # "idle" /\ outcome'[p] = "none"
  BY <1>2 DEF CallOf, Seen
<1>3. CASE pc'[p] # "idle" /\ outcome'[p] = "error"
  BY <1>3 DEF CallOf, Seen
<1>4. CASE pc'[p] # "idle" /\ outcome'[p] = "ok"
  BY <1>4 DEF CallOf, Seen, OutcomeInv
<1> QED
  BY <1>1, <1>2, <1>3, <1>4

(* The log and the calls of the promise.                                   *)
Logs == [r \in Record |-> Committed(r)]
Calls == [p \in Proc |-> CallOf(p)]

(* Only the commit changes a log.                                          *)
LEMMA LogsStill ==
  ASSUME NEW p \in Proc, Act(p), ~(Mark(p) /\ OwnsLocks(p))
  PROVE  Logs' = Logs
<1>1. marker' = marker
  <2> USE DEF files, Undone, Reset, Throw, Goto, RemoveDir
  <2>1. CASE Call(p)
    BY <2>1 DEF Call, Ask
  <2>2. CASE Look(p)
    BY <2>2 DEF Look
  <2>3. CASE Inspect(p)
    BY <2>3 DEF Inspect
  <2>4. CASE Redo(p)
    BY <2>4 DEF Redo
  <2>5. CASE Undo(p)
    BY <2>5 DEF Undo
  <2>6. CASE Clear(p)
    BY <2>6 DEF Clear
  <2>7. CASE FreeIndex(p)
    BY <2>7 DEF FreeIndex
  <2>8. CASE FreeLock(p)
    BY <2>8 DEF FreeLock
  <2>9. CASE Before(p)
    BY <2>9 DEF Before
  <2>10. CASE Open(p)
    BY <2>10 DEF Open
  <2>11. CASE Fill(p)
    BY <2>11 DEF Fill
  <2>12. CASE OpenIndex(p)
    BY <2>12 DEF OpenIndex
  <2>13. CASE FillIndex(p)
    BY <2>13 DEF FillIndex
  <2>14. CASE Compare(p)
    BY <2>14 DEF Compare
  <2>15. CASE Stage(p)
    BY <2>15 DEF Stage
  <2>16. CASE Promote(p)
    BY <2>16 DEF Promote
  <2>17. CASE Rename(p)
    BY <2>17 DEF Rename
  <2>18. CASE Mark(p)
    BY <2>18 DEF Mark, OwnsLocks
  <2>19. CASE Rollback(p)
    BY <2>19 DEF Rollback
  <2>20. CASE DropPromoted(p)
    BY <2>20 DEF DropPromoted
  <2>21. CASE DropStaging(p)
    BY <2>21 DEF DropStaging
  <2>22. CASE ReadRecord(p)
    BY <2>22 DEF ReadRecord
  <2>23. CASE ReadLog(p)
    BY <2>23 DEF ReadLog
  <2>24. CASE Release(p)
    BY <2>24 DEF Release
  <2>25. CASE ReleaseOwn(p)
    BY <2>25 DEF ReleaseOwn
  <2>26. CASE Return(p)
    BY <2>26 DEF Return
  <2>27. CASE Fail(p)
    BY <2>27 DEF Fail
  <2>28. CASE Crash(p)
    BY <2>28 DEF Crash
  <2> QED
    BY StepKinds, <2>1, <2>2, <2>3, <2>4, <2>5, <2>6, <2>7, <2>8, <2>9, <2>10, <2>11, <2>12,
       <2>13, <2>14, <2>15, <2>16, <2>17, <2>18, <2>19, <2>20, <2>21, <2>22, <2>23, <2>24,
       <2>25, <2>26, <2>27, <2>28
<1>2. \A r \in Record : Committed(r)' = Committed(r)
  BY <1>1 DEF Committed
<1> QED
  BY <1>2 DEF Logs

(* A step moves the call of its own process only.                          *)
LEMMA OneCall ==
  ASSUME TypeOK, NEW p \in Proc, Act(p), NEW c, CallOf(p)' = c
  PROVE  Calls' = [Calls EXCEPT ![p] = c]
<1>1. \A q \in Proc : q # p => CallOf(q)' = CallOf(q)
  BY OthersUnmoved DEF CallOf, Reading
<1>2. Calls' = [q \in Proc |-> CallOf(q)']
  BY DEF Calls
<1>3. [Calls EXCEPT ![p] = c] = [q \in Proc |-> IF q = p THEN c ELSE CallOf(q)]
  BY DEF Calls
<1> QED
  BY <1>1, <1>2, <1>3

(* The fields of a call, one changed.                                      *)
LEMMA CallFields ==
  ASSUME NEW a, NEW b, NEW c, NEW d, NEW x, NEW o,
         o = [phase |-> a, rec |-> b, ev |-> c, value |-> d]
  PROVE  /\ [o EXCEPT !.phase = x] = [phase |-> x, rec |-> b, ev |-> c, value |-> d]
         /\ [o EXCEPT !.rec = x] = [phase |-> a, rec |-> x, ev |-> c, value |-> d]
         /\ [o EXCEPT !.ev = x] = [phase |-> a, rec |-> b, ev |-> x, value |-> d]
         /\ [o EXCEPT !.value = x] = [phase |-> a, rec |-> b, ev |-> c, value |-> x]
OBVIOUS

(* Every step of the store is a step of its promise, or none.              *)
LEMMA PromiseStep ==
  ASSUME Known, NEW p \in Proc, Act(p), OutcomeInv(p), OutcomeInv(p)'
  PROVE  [Promise!Next]_<<Logs, Calls>>
<1>1. /\ TypeOK /\ Shape /\ WorkInv(p) /\ Calls[p] = CallOf(p) /\ want[p] \in Want
      /\ DOMAIN want = Proc /\ DOMAIN pc = Proc /\ DOMAIN outcome = Proc /\ DOMAIN base = Proc
      /\ DOMAIN marker = Record
  BY DEF Known, Records, Calls, TypeOK, Want
<1> SUFFICES \/ Logs' = Logs /\ Calls' = Calls
             \/ Promise!Ask(p) \/ Promise!Commit(p) \/ Promise!Read(p) \/ Promise!Fail(p)
             \/ Promise!Reply(p) \/ Promise!Die(p)
  BY DEF Promise!Next
<1>2. ASSUME NEW c, CallOf(p)' = c PROVE Calls' = [Calls EXCEPT ![p] = c]
  BY <1>1, <1>2, OneCall
<1>3. CASE Steady(p)
  <2>1. CallOf(p)' = CallOf(p)
    <3>1. CASE outcome[p] = "ok"
      BY <1>3, <3>1 DEF Steady, CallOf, Reading
    <3>2. CASE outcome[p] # "ok"
      BY <1>3, <3>2 DEF Steady, CallOf, Reading
    <3> QED
      BY <3>1, <3>2
  <2>2. Calls' = Calls
    <3>1. Calls' = [Calls EXCEPT ![p] = CallOf(p)]
      BY <1>2, <2>1
    <3> QED
      BY <1>1, <3>1 DEF Calls
  <2>3. ~(Mark(p) /\ OwnsLocks(p))
    BY <1>1, <1>3 DEF Mark, Goto, Steady, OutcomeInv, Ending, Undoing
  <2>4. Logs' = Logs
    BY <2>3, LogsStill
  <2> QED
    BY <2>2, <2>4
<1>4. CASE Failing(p)
  <2>1. CallOf(p)' = Seen(p, "failed", <<>>)'
    BY <1>4, CallSeenNext DEF Failing
  <2>2. CallOf(p)' = Seen(p, "failed", <<>>)
    BY <1>4, <2>1 DEF Failing, Seen
  <2>3. CASE outcome[p] = "error"
    <3>1. CallOf(p)' = CallOf(p)
      BY <1>4, <2>2, <2>3, CallSeen DEF Failing
    <3>2. Calls' = [Calls EXCEPT ![p] = CallOf(p)]
      BY <1>2, <3>1
    <3>3. Calls' = Calls
      BY <1>1, <3>2 DEF Calls
    <3>4. ~(Mark(p) /\ OwnsLocks(p))
      BY <1>1, <2>3 DEF Mark, OutcomeInv, Ending, Undoing
    <3> QED
      BY <3>3, <3>4, LogsStill
  <2>4. CASE outcome[p] # "error"
    <3>1. ~(Mark(p) /\ OwnsLocks(p))
      BY <1>1, <1>4 DEF Mark, Failing
    <3>2. Logs' = Logs
      BY <3>1, LogsStill
    <3>3. PICK phase \in {"asked", "done"} : CallOf(p) = Seen(p, phase, <<>>)
      <4>1. outcome[p] \in {"none", "ok"}
        BY <1>1, <2>4 DEF TypeOK, Outcome
      <4> QED
        BY <1>4, <4>1, CallSeen DEF Failing
    <3>4. Calls' = [Calls EXCEPT ![p] = Seen(p, "failed", <<>>)]
      BY <1>2, <2>2
    <3>5. Seen(p, "failed", <<>>) =
            [[CallOf(p) EXCEPT !.phase = "failed"] EXCEPT !.value = <<>>]
      <4>1. PICK o : o = [CallOf(p) EXCEPT !.phase = "failed"]
        OBVIOUS
      <4>2. o = [phase |-> "failed", rec |-> want[p].rec, ev |-> want[p].ev, value |-> <<>>]
        BY <3>3, <4>1, CallFields DEF Seen
      <4>3. [o EXCEPT !.value = <<>>] = o
        BY <4>2, CallFields
      <4> QED
        BY <4>1, <4>2, <4>3 DEF Seen
    <3>6. CallOf(p).phase \in {"asked", "done"}
      BY <3>3 DEF Seen
    <3> QED
      BY <1>1, <3>2, <3>4, <3>5, <3>6 DEF Promise!Fail, Calls, Logs
  <2> QED
    BY <2>3, <2>4
<1>5. CASE Leaving(p)
  <2>1. CallOf(p)' = Promise!Idle
    BY <1>5, CallSeenNext DEF Leaving
  <2>2. Calls' = [Calls EXCEPT ![p] = Promise!Idle]
    BY <1>2, <2>1
  <2>3. ~(Mark(p) /\ OwnsLocks(p))
    BY <1>1, <1>5 DEF Mark, Goto, Leaving
  <2>4. Logs' = Logs
    BY <2>3, LogsStill
  <2> QED
    BY <2>2, <2>4 DEF Promise!Die, Calls, Logs
<1>6. CASE Call(p)
  <2>1. PICK r \in Record, e \in Event \cup {Nobody} : Ask(p, r, e)
    BY <1>6 DEF Call
  <2>2. /\ pc[p] = "idle" /\ pc'[p] = "look" /\ want'[p] = [rec |-> r, ev |-> e]
        /\ outcome'[p] = outcome[p] /\ outcome[p] = "none"
    BY <1>1, <2>1 DEF Ask, Goto, OutcomeInv, Ending, Undoing
  <2>3. CallOf(p) = Promise!Idle
    BY <2>2, CallSeen
  <2>4. CallOf(p)' = [phase |-> "asked", rec |-> r, ev |-> e, value |-> <<>>]
    BY <2>2, CallSeenNext DEF Seen
  <2>5. CallOf(p)' = [[[Promise!Idle EXCEPT !.phase = "asked"] EXCEPT !.rec = r] EXCEPT !.ev = e]
    <3>1. PICK a : a = [Promise!Idle EXCEPT !.phase = "asked"]
      OBVIOUS
    <3>2. a = [phase |-> "asked", rec |-> Nobody, ev |-> Nobody, value |-> <<>>]
      BY <3>1, CallFields DEF Promise!Idle
    <3>3. PICK b : b = [a EXCEPT !.rec = r]
      OBVIOUS
    <3>4. b = [phase |-> "asked", rec |-> r, ev |-> Nobody, value |-> <<>>]
      BY <3>2, <3>3, CallFields
    <3>5. [b EXCEPT !.ev = e] = [phase |-> "asked", rec |-> r, ev |-> e, value |-> <<>>]
      BY <3>4, CallFields
    <3> QED
      BY <2>4, <3>1, <3>3, <3>5
  <2>6. Calls' = [Calls EXCEPT ![p] =
                   [[[Promise!Idle EXCEPT !.phase = "asked"] EXCEPT !.rec = r] EXCEPT !.ev = e]]
    BY <1>2, <2>5
  <2>7. ~(Mark(p) /\ OwnsLocks(p))
    BY <2>2 DEF Mark
  <2>8. Logs' = Logs
    BY <2>7, LogsStill
  <2> QED
    BY <1>1, <2>3, <2>6, <2>8 DEF Promise!Ask, Calls, Logs
<1>7. CASE ReadLog(p)
  <2>1. /\ pc[p] = "readLog" /\ pc'[p] = "release" /\ outcome'[p] = "ok" /\ UNCHANGED want
        /\ base' = [base EXCEPT ![p].log = log[Rec(p)]]
    BY <1>1, <1>7 DEF ReadLog, Goto
  <2>2. outcome[p] = "none" /\ Reading(p) /\ Rec(p) \in Record
    BY <1>1, <2>1 DEF OutcomeInv, Ending, Undoing, Shape, CallShape, Consulting, Rec
  <2>3. base'[p].log = Committed(Rec(p))
    <3>1. base[p] \in Base
      BY <1>1 DEF TypeOK, Base
    <3>2. log[Rec(p)] = Committed(Rec(p))
      BY <1>1, <2>1 DEF WorkInv, Unready, Clean, Settled
    <3> QED
      BY <1>1, <2>1, <3>1, <3>2 DEF Base
  <2>4. CallOf(p) = Seen(p, "asked", <<>>)
    BY <2>1, <2>2, CallSeen
  <2>5. CallOf(p)' = [phase |-> "done", rec |-> Rec(p), ev |-> Nobody, value |-> Committed(Rec(p))]
    <3>1. Reading(p)' /\ want'[p] = want[p]
      BY <2>1, <2>2 DEF Reading
    <3>2. CallOf(p)' = Seen(p, "done", base[p].log)'
      BY <2>1, <3>1, CallSeenNext
    <3> QED
      BY <2>2, <2>3, <3>1, <3>2 DEF Seen, Rec, Reading
  <2>6. CallOf(p)' = [[CallOf(p) EXCEPT !.phase = "done"] EXCEPT !.value = Logs[CallOf(p).rec]]
    <3>1. CallOf(p) = [phase |-> "asked", rec |-> Rec(p), ev |-> Nobody, value |-> <<>>]
      BY <2>2, <2>4 DEF Seen, Rec, Reading
    <3>2. Logs[CallOf(p).rec] = Committed(Rec(p))
      BY <2>2, <3>1 DEF Logs
    <3>3. PICK o : o = [CallOf(p) EXCEPT !.phase = "done"]
      OBVIOUS
    <3>4. o = [phase |-> "done", rec |-> Rec(p), ev |-> Nobody, value |-> <<>>]
      BY <3>1, <3>3, CallFields
    <3>5. [o EXCEPT !.value = Logs[CallOf(p).rec]] =
            [phase |-> "done", rec |-> Rec(p), ev |-> Nobody, value |-> Committed(Rec(p))]
      BY <3>2, <3>4, CallFields
    <3> QED
      BY <2>5, <3>3, <3>5
  <2>7. Calls' = [Calls EXCEPT ![p] =
                   [[CallOf(p) EXCEPT !.phase = "done"] EXCEPT !.value = Logs[CallOf(p).rec]]]
    BY <1>2, <2>6
  <2>8. ~(Mark(p) /\ OwnsLocks(p))
    BY <2>1 DEF Mark
  <2>9. Logs' = Logs
    BY <2>8, LogsStill
  <2>10. CallOf(p).phase = "asked" /\ CallOf(p).ev = Nobody
    BY <2>2, <2>4 DEF Seen, Reading
  <2> QED
    BY <1>1, <2>7, <2>9, <2>10 DEF Promise!Read, Calls, Logs
<1>8. CASE Mark(p) /\ OwnsLocks(p)
  <2>1. /\ pc[p] = "mark" /\ pc'[p] = "release" /\ outcome'[p] = "ok" /\ UNCHANGED want
        /\ marker' = [marker EXCEPT ![Rec(p)] = tx[p]]
    BY <1>1, <1>8 DEF Mark, Goto
  <2>2. /\ outcome[p] = "none" /\ ~Reading(p) /\ Rec(p) \in Record
        /\ tx[p].ev = want[p].ev /\ want[p].ev \in Event /\ tx[p].rec = Rec(p)
    BY <1>1, <2>1 DEF OutcomeInv, Ending, Undoing, Shape, CallShape, Appending, Holding, Rec, Reading, Want
  <2>3. Pending(Rec(p), tx[p])
    BY <1>1, <2>1 DEF WorkInv
  <2>4. PICK r : r = Rec(p)
    OBVIOUS
  <2>5. Committed(r)' = Append(Committed(r), want[p].ev)
    <3>1. marker'[r] = tx[p] /\ tx[p] # NoTx
      BY <1>1, <2>1, <2>2, <2>4, StoreAssumption DEF NoTx
    <3> QED
      BY <2>2, <2>3, <2>4, <3>1 DEF Committed, Pending
  <2>6. Logs' = [Logs EXCEPT ![r] = Append(Logs[r], want[p].ev)]
    <3>1. \A s \in Record : s # r => Committed(s)' = Committed(s)
      BY <1>1, <2>1, <2>4 DEF Committed
    <3>2. Logs' = [s \in Record |-> Committed(s)']
      BY DEF Logs
    <3>3. [Logs EXCEPT ![r] = Append(Logs[r], want[p].ev)] =
            [s \in Record |-> IF s = r THEN Append(Committed(r), want[p].ev) ELSE Committed(s)]
      BY <2>2, <2>4 DEF Logs
    <3> QED
      BY <2>5, <3>1, <3>2, <3>3
  <2>7. CallOf(p) = Seen(p, "asked", <<>>)
    BY <2>1, <2>2, CallSeen
  <2>8. CallOf(p)' = Seen(p, "done", <<>>)
    <3>1. ~Reading(p)' /\ want'[p] = want[p]
      BY <2>1, <2>2 DEF Reading
    <3>2. CallOf(p)' = Seen(p, "done", <<>>)'
      BY <2>1, <3>1, CallSeenNext
    <3> QED
      BY <3>1, <3>2 DEF Seen
  <2>9. CallOf(p)' = [CallOf(p) EXCEPT !.phase = "done"]
    BY <2>7, <2>8 DEF Seen
  <2>10. Calls' = [Calls EXCEPT ![p] = [CallOf(p) EXCEPT !.phase = "done"]]
    BY <1>2, <2>9
  <2>11. Calls[p].phase = "asked" /\ Calls[p].ev = want[p].ev /\ Calls[p].rec = r
    BY <1>1, <2>4, <2>7 DEF Seen, Rec
  <2>12. Calls[p].ev \in Event /\ Calls[p].ev \notin ToSet(Logs[Calls[p].rec])
    BY <2>2, <2>3, <2>4, <2>11 DEF Logs, Pending
  <2>13. Logs' = [Logs EXCEPT ![Calls[p].rec] = Append(Logs[Calls[p].rec], Calls[p].ev)]
    BY <2>6, <2>11
  <2>14. Calls' = [Calls EXCEPT ![p] = [Calls[p] EXCEPT !.phase = "done"]]
    BY <1>1, <2>10
  <2>15. Promise!ToSet(Logs[Calls[p].rec]) = ToSet(Logs[Calls[p].rec])
    BY DEF ToSet, Promise!ToSet
  <2>16. Promise!Commit(p)
    BY <2>11, <2>12, <2>15, <2>13, <2>14 DEF Promise!Commit, Calls, Logs
  <2> QED
    BY <2>16
<1> QED
  BY <1>1, <1>3, <1>4, <1>5, <1>6, <1>7, <1>8, CallMoves

(* A behaviour of the store in which recoveries do not overlap and no two  *)
(* calls are twins keeps the promise of ControlLog: an append takes effect *)
(* once, when the marker is replaced, or not at all; a reader is answered  *)
(* with the log as it was at one moment of its call.  Without the          *)
(* condition, which nothing in the code ensures, the store is no atomic    *)
(* log: the recovery of a twin removes what was committed.                 *)
THEOREM StorePromiseIfApart == Spec /\ [](Serial /\ NoTwins) => LogSpec
<1> DEFINE Inv == Known /\ \A p \in Proc : OutcomeInv(p)
<1>1. Init => Inv
  <2> SUFFICES ASSUME Init PROVE \A p \in Proc : OutcomeInv(p)
    BY KnownInit
  <2> QED
    BY DEF Init, OutcomeInv, Ending, Undoing
<1>2. Init => Promise!Init
  <2> SUFFICES ASSUME Init PROVE Logs = [r \in Record |-> <<>>] /\ Calls = [p \in Proc |-> Promise!Idle]
    BY DEF Promise!Init, Logs, Calls
  <2>1. \A r \in Record : Committed(r) = <<>>
    BY DEF Init, Committed
  <2>2. \A p \in Proc : CallOf(p) = Promise!Idle
    BY DEF Init, CallOf, Reading, NoWant, Promise!Idle
  <2> QED
    BY <2>1, <2>2 DEF Logs, Calls
<1>3. Inv /\ [Next /\ Serial' /\ NoTwins']_vars => Inv' /\ [Promise!Next]_<<Logs, Calls>>
  <2> SUFFICES ASSUME Inv, [Next /\ Serial' /\ NoTwins']_vars
               PROVE  Inv' /\ [Promise!Next]_<<Logs, Calls>>
    OBVIOUS
  <2>1. Known'
    BY KnownStep
  <2>2. CASE Next
    <3>1. PICK p \in Proc : Act(p)
      BY <2>2 DEF Next, Act
    <3>2. \A q \in Proc : OutcomeInv(q)'
      BY <3>1, OutcomeHolds
    <3> QED
      BY <2>1, <3>1, <3>2, PromiseStep
  <2>3. CASE UNCHANGED vars
    <3> USE <2>3 DEF vars, files, locks
    <3>1. \A q \in Proc : OutcomeInv(q)'
      BY DEF OutcomeInv, Reading
    <3>2. Logs' = Logs
      BY DEF Logs, Committed
    <3>3. Calls' = Calls
      BY DEF Calls, CallOf, Reading
    <3> QED
      BY <2>1, <3>1, <3>2, <3>3
  <2> QED
    BY <2>2, <2>3
<1>4. [Promise!Next]_<<Logs, Calls>> =>
        [Promise!Next]_<<[r \in Record |-> Committed(r)], [p \in Proc |-> CallOf(p)]>>
  BY DEF Logs, Calls
<1> HIDE DEF Inv
<1> QED
  BY <1>1, <1>2, <1>3, <1>4, ApartStep, PTL DEF Spec, LogSpec, Promise!Spec

=============================================================================
