--------------------- MODULE ControlStoreRecords_proofs ---------------------
(***************************************************************************)
(* Proofs about the files of a record in ControlStore: in a behaviour that *)
(* keeps calls apart (Serial and NoTwins, which nothing in the code        *)
(* ensures), a record that nobody has locked is in a committed state, and  *)
(* one that is torn can be recovered.                                      *)
(***************************************************************************)
EXTENDS ControlStore_proofs

USE StoreAssumption

(* What a record's files hold while it is locked, and what each call knows *)
(* of them, when calls are apart.                                          *)
Nxt(t) == Append(t.pre, t.ev)
Pending(r, t) == t.pre = Committed(r) /\ t.ev \notin ToSet(t.pre)
Kept(r, d) ==
  /\ d.tx.ev \in ToSet(Committed(r)) /\ d.tx.ev \notin ToSet(d.tx.pre)
  /\ d.promoted /\ d.whole
Made(r, d) == lock[r].written /\ d.tx = lock[r].tx /\ Pending(r, d.tx)
Between(r, t) ==
  /\ log[r] \in {t.pre, Nxt(t)}
  /\ record[r] \in {t.pre, Nxt(t)}
  /\ receipts[r] \in {ToSet(t.pre), ToSet(t.pre) \cup {t.ev}}
Restorable(r, t) == \E d \in dirs[r] : d.tx = t /\ d.whole
Torn(r) ==
  /\ lock[r].written /\ Pending(r, lock[r].tx) /\ Between(r, lock[r].tx)
  /\ Restorable(r, lock[r].tx) /\ OwnsIndex(lock[r].tx)
RecordInv(r) ==
  /\ \A d, c \in dirs[r] : d.tx = c.tx => d = c
  /\ \A d \in dirs[r] : d.log = d.tx.pre /\ (Kept(r, d) \/ Made(r, d))
  /\ Settled(r) \/ Torn(r)
  /\ lock[r].tx.ev \in Event /\ lock[r].tx.ev \in ToSet(Committed(r)) =>
       marker[r] = lock[r].tx \/ lock[r].tx.ev \in ToSet(lock[r].tx.pre)

Clean(r, t) == Settled(r) /\ \A d \in dirs[r] : d.tx = t => marker[r] = t
Based(p) == base[p].log = tx[p].pre /\ base[p].record = tx[p].pre
Advanced(r, t, f) ==
  /\ f \in {"record", "receipt", "index", "end"} => log[r] = Nxt(t)
  /\ f \in {"receipt", "index", "end"} => record[r] = Nxt(t)
  /\ f \in {"index", "end"} => receipts[r] = ToSet(t.pre) \cup {t.ev}
Restored(r, t, f) ==
  /\ f \in {"log", "receipt", "index"} => record[r] = t.pre
  /\ f \in {"receipt", "index"} => log[r] = t.pre
  /\ f = "index" => receipts[r] = ToSet(t.pre)
Staged(r, t, promoted) == \A d \in dirs[r] : d.tx = t => d.promoted = promoted
Unready == {"fill", "openIndex", "fillIndex", "compare", "read", "readLog", "release",
            "releaseLock", "settle", "freeIndex", "freeLock"}
OpenInv(p) ==
  pc[p] = "open" /\ ~Reading(p) /\ tx[p].ev \in ToSet(Committed(Rec(p))) =>
    tx[p].ev \in ToSet(tx[p].pre)
WorkInv(p) ==
  /\ pc[p] \in Unready => Clean(Rec(p), tx[p])
  /\ pc[p] \in {"stage", "promote", "rename", "mark", "rollback", "dropPromoted",
                "dropStaging", "undo", "clear"} => Pending(Rec(p), tx[p])
  /\ pc[p] \in {"stage", "promote", "rename", "mark", "rollback", "redo", "undo"} => Based(p)
  /\ pc[p] \in {"stage", "dropPromoted", "dropStaging", "clear", "redo"} => Settled(Rec(p))
  /\ pc[p] \in {"stage", "promote", "rename", "dropStaging"} => Staged(Rec(p), tx[p], FALSE)
  /\ pc[p] = "mark" => Staged(Rec(p), tx[p], TRUE)
  /\ pc[p] \in {"promote", "rename", "mark", "rollback", "undo"} => Restorable(Rec(p), tx[p])
  /\ pc[p] = "promote" => Advanced(Rec(p), tx[p], file[p])
  /\ pc[p] \in {"rename", "mark"} => Advanced(Rec(p), tx[p], "end")
  /\ pc[p] \in {"undo", "rollback"} => Restored(Rec(p), tx[p], file[p])
  /\ pc[p] = "redo" => marker[Rec(p)] = tx[p]
  /\ pc[p] \in {"undo", "redo"} => OwnsIndex(tx[p])
  /\ pc[p] = "readLog" => base[p].record = Committed(Rec(p))
Records ==
  /\ \A r \in Record : RecordInv(r)
  /\ \A p \in Proc : OpenInv(p) /\ WorkInv(p)
Known == TypeOK /\ Shape /\ Locks /\ Serial /\ NoTwins /\ Records

(* Appending an event to a log.                                            *)
LEMMA Appends ==
  ASSUME NEW s \in Seq(Event), NEW e \in Event
  PROVE  /\ Append(s, e) \in Seq(Event) /\ Append(s, e) # s /\ Append(s, e) # <<>>
         /\ ToSet(Append(s, e)) = ToSet(s) \cup {e}
         /\ Last(Append(s, e)) = e
<1>1. Len(Append(s, e)) = Len(s) + 1 /\ Append(s, e)[Len(s) + 1] = e /\ Len(s) \in Nat
  OBVIOUS
<1>2. \A i \in 1..Len(s) : Append(s, e)[i] = s[i]
  OBVIOUS
<1>3. Append(s, e) \in Seq(Event)
  OBVIOUS
<1>4. Append(s, e) # s
  <2>1. Len(s) + 1 # Len(s)
    BY <1>1
  <2> QED
    BY <1>1, <2>1
<1>5. Append(s, e) # <<>>
  BY <1>1
<1>6. DOMAIN s = 1..Len(s) /\ DOMAIN Append(s, e) = 1..(Len(s) + 1)
  BY <1>1, <1>3
<1>7. 1..(Len(s) + 1) = 1..Len(s) \cup {Len(s) + 1}
  BY <1>1
<1>8. ToSet(Append(s, e)) = ToSet(s) \cup {e}
  BY <1>1, <1>2, <1>6, <1>7 DEF ToSet
<1> QED
  BY <1>1, <1>3, <1>4, <1>5, <1>8 DEF Last

(* What the marker stands for.                                             *)
LEMMA CommittedTyped ==
  ASSUME TypeOK, Shape, NEW r \in Record
  PROVE  /\ Committed(r) \in Seq(Event)
         /\ \A t : t.ev \in Event /\ marker[r] = t => Committed(r) = Nxt(t)
<1>1. marker[r] # NoTx => marker[r].ev \in Event
  BY DEF Shape, StoreShape
<1>2. marker[r].pre \in Seq(Event)
  BY DEF TypeOK, Tx
<1>3. Committed(r) \in Seq(Event)
  <2>1. CASE marker[r] = NoTx
    <3>1. <<>> \in Seq(Event)
      OBVIOUS
    <3> QED
      BY <2>1, <3>1 DEF Committed
  <2>2. CASE marker[r] # NoTx
    BY <1>1, <1>2, <2>2, Appends DEF Committed
  <2> QED
    BY <2>1, <2>2
<1>4. NoTx.ev \notin Event
  BY StoreAssumption DEF NoTx
<1> QED
  BY <1>3, <1>4 DEF Committed, Nxt

(* What a step may leave of a record as it is.                             *)
Same(r) ==
  /\ log'[r] = log[r] /\ record'[r] = record[r] /\ receipts'[r] = receipts[r]
  /\ dirs'[r] = dirs[r] /\ marker'[r] = marker[r]
SameLock(r) == lock'[r].tx = lock[r].tx /\ lock'[r].written = lock[r].written

(* A record of which nothing changes keeps its invariant.                  *)
LEMMA SameRecord ==
  ASSUME NEW r \in Record, Same(r), SameLock(r), RecordInv(r),
         Settled(r) \/ (OwnsIndex(lock[r].tx) => OwnsIndex(lock[r].tx)')
  PROVE  RecordInv(r)'
<1>1. Committed(r)' = Committed(r)
  BY DEF Committed, Same
<1>2. \A d : Made(r, d) => Made(r, d)'
  BY <1>1 DEF Made, Pending, SameLock
<1>3. \A d : Kept(r, d) => Kept(r, d)'
  BY <1>1 DEF Kept
<1>4. Settled(r) => Settled(r)'
  BY <1>1 DEF Settled, Same
<1>5. Torn(r) /\ (OwnsIndex(lock[r].tx) => OwnsIndex(lock[r].tx)') => Torn(r)'
  <2>1. OwnsIndex(lock[r].tx)' <=> (Indexes(lock[r].tx) => Owned(indexLock', lock[r].tx))
    BY DEF OwnsIndex, Indexes, Owned, SameLock
  <2>2. Between(r, lock[r].tx) => Between(r, lock[r].tx)'
    BY DEF Between, Nxt, Same, SameLock
  <2>3. Restorable(r, lock[r].tx) => Restorable(r, lock[r].tx)'
    BY DEF Restorable, Same, SameLock
  <2>4. Pending(r, lock[r].tx) => Pending(r, lock[r].tx)'
    BY <1>1 DEF Pending, SameLock
  <2> QED
    BY <2>2, <2>3, <2>4 DEF Torn, SameLock
<1> QED
  BY <1>1, <1>2, <1>3, <1>4, <1>5 DEF RecordInv, Same, SameLock

(* What holds of a record and a call's transaction holds as long as        *)
(* neither changes.                                                        *)
LEMMA HoldsStill ==
  ASSUME NEW q \in Proc, Same(Rec(q)), want'[q] = want[q], tx'[q] = tx[q]
  PROVE  /\ Clean(Rec(q), tx[q]) => Clean(Rec(q), tx[q])'
         /\ Settled(Rec(q)) => Settled(Rec(q))'
         /\ Pending(Rec(q), tx[q]) => Pending(Rec(q), tx[q])'
         /\ Staged(Rec(q), tx[q], FALSE) => Staged(Rec(q), tx[q], FALSE)'
         /\ Staged(Rec(q), tx[q], TRUE) => Staged(Rec(q), tx[q], TRUE)'
         /\ Restorable(Rec(q), tx[q]) => Restorable(Rec(q), tx[q])'
         /\ Advanced(Rec(q), tx[q], "end") => Advanced(Rec(q), tx[q], "end")'
         /\ Committed(Rec(q))' = Committed(Rec(q))
         /\ Rec(q)' = Rec(q)
<1>1. Rec(q)' = Rec(q)
  BY DEF Rec
<1>2. Committed(Rec(q))' = Committed(Rec(q))
  BY <1>1 DEF Committed, Same
<1>3. /\ Clean(Rec(q), tx[q]) => Clean(Rec(q), tx[q])'
      /\ Settled(Rec(q)) => Settled(Rec(q))'
  BY <1>1, <1>2 DEF Clean, Settled, Same
<1>4. /\ Pending(Rec(q), tx[q]) => Pending(Rec(q), tx[q])'
      /\ Staged(Rec(q), tx[q], FALSE) => Staged(Rec(q), tx[q], FALSE)'
      /\ Staged(Rec(q), tx[q], TRUE) => Staged(Rec(q), tx[q], TRUE)'
      /\ Restorable(Rec(q), tx[q]) => Restorable(Rec(q), tx[q])'
  BY <1>1, <1>2 DEF Pending, Staged, Restorable, Same
<1>5. Advanced(Rec(q), tx[q], "end") => Advanced(Rec(q), tx[q], "end")'
  BY <1>1 DEF Advanced, Nxt, Same
<1> QED
  BY <1>1, <1>2, <1>3, <1>4, <1>5

(* A call that does not move, at a record that does not change, still      *)
(* knows what it knew.                                                     *)
LEMMA SameWork ==
  ASSUME NEW q \in Proc, WorkInv(q), Same(Rec(q)), want'[q] = want[q], pc'[q] = pc[q],
         tx'[q] = tx[q], base'[q] = base[q], file'[q] = file[q],
         pc[q] \in {"undo", "redo"} /\ OwnsIndex(tx[q]) => OwnsIndex(tx[q])'
  PROVE  WorkInv(q)'
<1>1. Rec(q)' = Rec(q) /\ Committed(Rec(q))' = Committed(Rec(q))
  BY HoldsStill
<1>3. /\ Clean(Rec(q), tx[q]) => Clean(Rec(q), tx[q])'
      /\ Settled(Rec(q)) => Settled(Rec(q))'
  BY HoldsStill
<1>4. /\ Pending(Rec(q), tx[q]) => Pending(Rec(q), tx[q])'
      /\ Staged(Rec(q), tx[q], FALSE) => Staged(Rec(q), tx[q], FALSE)'
      /\ Staged(Rec(q), tx[q], TRUE) => Staged(Rec(q), tx[q], TRUE)'
      /\ Restorable(Rec(q), tx[q]) => Restorable(Rec(q), tx[q])'
      /\ Based(q) => Based(q)'
      /\ marker[Rec(q)] = tx[q] => (marker[Rec(q)] = tx[q])'
      /\ base[q].record = Committed(Rec(q)) => (base[q].record = Committed(Rec(q)))'
  BY <1>1, HoldsStill DEF Based, Same
<1>5. /\ Advanced(Rec(q), tx[q], file[q]) => Advanced(Rec(q), tx[q], file[q])'
      /\ Advanced(Rec(q), tx[q], "end") => Advanced(Rec(q), tx[q], "end")'
      /\ Restored(Rec(q), tx[q], file[q]) => Restored(Rec(q), tx[q], file[q])'
  BY <1>1 DEF Advanced, Restored, Nxt, Same
<1>6. /\ pc'[q] \in Unready => Clean(Rec(q), tx[q])'
      /\ pc'[q] \in {"stage", "dropPromoted", "dropStaging", "clear", "redo"} => Settled(Rec(q))'
  BY <1>3 DEF WorkInv
<1>7. /\ pc'[q] \in {"stage", "promote", "rename", "mark", "rollback", "dropPromoted",
                "dropStaging", "undo", "clear"} => Pending(Rec(q), tx[q])'
      /\ pc'[q] \in {"stage", "promote", "rename", "mark", "rollback", "redo", "undo"} => Based(q)'
      /\ pc'[q] \in {"stage", "promote", "rename", "dropStaging"} => Staged(Rec(q), tx[q], FALSE)'
      /\ pc'[q] = "mark" => Staged(Rec(q), tx[q], TRUE)'
      /\ pc'[q] \in {"promote", "rename", "mark", "rollback", "undo"} => Restorable(Rec(q), tx[q])'
      /\ pc'[q] = "redo" => (marker[Rec(q)] = tx[q])'
      /\ pc'[q] = "readLog" => (base[q].record = Committed(Rec(q)))'
  BY <1>4 DEF WorkInv
<1>8. /\ pc'[q] = "promote" => Advanced(Rec(q), tx[q], file[q])'
      /\ pc'[q] \in {"rename", "mark"} => Advanced(Rec(q), tx[q], "end")'
      /\ pc'[q] \in {"undo", "rollback"} => Restored(Rec(q), tx[q], file[q])'
  BY <1>5 DEF WorkInv
<1>9. pc'[q] \in {"undo", "redo"} => OwnsIndex(tx[q])'
  BY DEF WorkInv
<1> QED
  BY <1>6, <1>7, <1>8, <1>9 DEF WorkInv

(* A record that two calls share is changed by neither while the other     *)
(* holds or recovers it.                                                   *)
LEMMA Outside ==
  ASSUME TypeOK, Shape, Locks, Serial, NEW p \in Proc, Act(p), NEW q \in Proc, q # p,
         pc[q] \in Locking
  PROVE  Same(Rec(q))
<1>1. Rec(q) \in Record
  <2>1. pc[q] # "idle"
    BY DEF Locking, Holding, Appending, Consulting, Recovery
  <2> QED
    BY <2>1 DEF Shape, CallShape, Rec
<1>2. CASE Rec(p) # Rec(q)
  BY <1>1, <1>2, RecordsUnmoved DEF Same
<1>3. CASE pc[p] \notin Locking
  <2>1. UNCHANGED files
    <3> USE <1>3 DEF Locking, Holding, Appending, Consulting, Recovery, files
    <3>1. CASE Call(p)
      BY <3>1, <1>3 DEF Call, Ask
    <3>2. CASE Look(p)
      BY <3>2, <1>3 DEF Look
    <3>3. CASE Inspect(p)
      BY <3>3, <1>3 DEF Inspect
    <3>4. CASE Redo(p)
      BY <3>4, <1>3 DEF Redo
    <3>5. CASE Undo(p)
      BY <3>5, <1>3 DEF Undo
    <3>6. CASE Clear(p)
      BY <3>6, <1>3 DEF Clear
    <3>7. CASE FreeIndex(p)
      BY <3>7, <1>3 DEF FreeIndex
    <3>8. CASE FreeLock(p)
      BY <3>8, <1>3 DEF FreeLock
    <3>9. CASE Before(p)
      BY <3>9, <1>3 DEF Before
    <3>10. CASE Open(p)
      BY <3>10, <1>3 DEF Open
    <3>11. CASE Fill(p)
      BY <3>11, <1>3 DEF Fill
    <3>12. CASE OpenIndex(p)
      BY <3>12, <1>3 DEF OpenIndex
    <3>13. CASE FillIndex(p)
      BY <3>13, <1>3 DEF FillIndex
    <3>14. CASE Compare(p)
      BY <3>14, <1>3 DEF Compare
    <3>15. CASE Stage(p)
      BY <3>15, <1>3 DEF Stage
    <3>16. CASE Promote(p)
      BY <3>16, <1>3 DEF Promote
    <3>17. CASE Rename(p)
      BY <3>17, <1>3 DEF Rename
    <3>18. CASE Mark(p)
      BY <3>18, <1>3 DEF Mark
    <3>19. CASE Rollback(p)
      BY <3>19, <1>3 DEF Rollback
    <3>20. CASE DropPromoted(p)
      BY <3>20, <1>3 DEF DropPromoted
    <3>21. CASE DropStaging(p)
      BY <3>21, <1>3 DEF DropStaging
    <3>22. CASE ReadRecord(p)
      BY <3>22, <1>3 DEF ReadRecord
    <3>23. CASE ReadLog(p)
      BY <3>23, <1>3 DEF ReadLog
    <3>24. CASE Release(p)
      BY <3>24, <1>3 DEF Release
    <3>25. CASE ReleaseOwn(p)
      BY <3>25, <1>3 DEF ReleaseOwn
    <3>26. CASE Return(p)
      BY <3>26, <1>3 DEF Return
    <3>27. CASE Fail(p)
      BY <3>27, <1>3 DEF Fail
    <3>28. CASE Crash(p)
      BY <3>28, <1>3 DEF Crash
    <3> QED
      BY StepKinds, <3>1, <3>2, <3>3, <3>4, <3>5, <3>6, <3>7, <3>8, <3>9, <3>10, <3>11, <3>12,
         <3>13, <3>14, <3>15, <3>16, <3>17, <3>18, <3>19, <3>20, <3>21, <3>22, <3>23, <3>24,
         <3>25, <3>26, <3>27, <3>28
  <2> QED
    BY <2>1 DEF files, Same
<1> QED
  BY <1>2, <1>3, Exclusive

(* An index lock is released by the transaction that owns it, never by     *)
(* another.                                                                *)
LEMMA OwnedKept ==
  ASSUME TypeOK, Shape, Locks, NEW p \in Proc, Act(p), NEW t, Owned(indexLock, t),
         pc[p] \in {"settle", "freeIndex", "release"} => tx[p] # t
  PROVE  Owned(indexLock', t)
<1>1. indexLock \in LockFile /\ indexLock # Free /\ indexLock.written /\ indexLock.tx = t
  BY DEF TypeOK, Owned, Free
<1>2. CASE FillIndex(p)
  <2>1. pc[p] = "fillIndex"
    BY <1>2 DEF FillIndex
  <2>2. ~indexLock.written
    BY <2>1 DEF Locks, LockInv
  <2> QED
    BY <1>1, <2>2
<1>3. CASE OpenIndex(p)
  <2>1. indexLock' = indexLock
    BY <1>1, <1>3 DEF OpenIndex
  <2> QED
    BY <2>1
<1>4. CASE Crash(p)
  <2>1. indexLock'.tx = indexLock.tx /\ (indexLock.written => indexLock'.written)
    BY <1>1, <1>4 DEF Crash, Orphan, LockFile
  <2> QED
    BY <1>1, <2>1 DEF Owned
<1>5. CASE FreeIndex(p)
  <2>1. indexLock' = indexLock
    BY <1>1, <1>5 DEF FreeIndex, ReleaseIndex, Owned
  <2> QED
    BY <2>1
<1>6. CASE Release(p)
  <2>1. indexLock' = indexLock
    BY <1>1, <1>6 DEF Release, ReleaseIndex, Owned
  <2> QED
    BY <2>1
<1>7. ASSUME indexLock' = indexLock PROVE Owned(indexLock', t)
  BY <1>7
<1> USE DEF locks
<1>8. CASE Call(p)
  BY <1>8, <1>7 DEF Call, Ask
<1>9. CASE Look(p)
  BY <1>9, <1>7 DEF Look
<1>10. CASE Inspect(p)
  BY <1>10, <1>7 DEF Inspect
<1>11. CASE Redo(p)
  BY <1>11, <1>7 DEF Redo
<1>12. CASE Undo(p)
  BY <1>12, <1>7 DEF Undo
<1>13. CASE Clear(p)
  BY <1>13, <1>7 DEF Clear
<1>14. CASE FreeLock(p)
  BY <1>14, <1>7 DEF FreeLock
<1>15. CASE Before(p)
  BY <1>15, <1>7 DEF Before
<1>16. CASE Open(p)
  BY <1>16, <1>7 DEF Open
<1>17. CASE Fill(p)
  BY <1>17, <1>7 DEF Fill
<1>18. CASE Compare(p)
  BY <1>18, <1>7 DEF Compare
<1>19. CASE Stage(p)
  BY <1>19, <1>7 DEF Stage
<1>20. CASE Promote(p)
  BY <1>20, <1>7 DEF Promote
<1>21. CASE Rename(p)
  BY <1>21, <1>7 DEF Rename
<1>22. CASE Mark(p)
  BY <1>22, <1>7 DEF Mark
<1>23. CASE Rollback(p)
  BY <1>23, <1>7 DEF Rollback
<1>24. CASE DropPromoted(p)
  BY <1>24, <1>7 DEF DropPromoted
<1>25. CASE DropStaging(p)
  BY <1>25, <1>7 DEF DropStaging
<1>26. CASE ReadRecord(p)
  BY <1>26, <1>7 DEF ReadRecord
<1>27. CASE ReadLog(p)
  BY <1>27, <1>7 DEF ReadLog
<1>28. CASE ReleaseOwn(p)
  BY <1>28, <1>7 DEF ReleaseOwn
<1>29. CASE Return(p)
  BY <1>29, <1>7 DEF Return
<1>30. CASE Fail(p)
  BY <1>30, <1>7 DEF Fail
<1> QED
  BY StepKinds, <1>8, <1>9, <1>10, <1>11, <1>12, <1>13, <1>5, <1>14, <1>15, <1>16, <1>17,
     <1>3, <1>2, <1>18, <1>19, <1>20, <1>21, <1>22, <1>23, <1>24, <1>25, <1>26, <1>27, <1>6,
     <1>28, <1>29, <1>30, <1>4

(* The other records keep their invariant.                                 *)
LEMMA RecordElsewhere ==
  ASSUME Known, NEW p \in Proc, Act(p), NEW r \in Record, r # Rec(p)
  PROVE  RecordInv(r)'
<1>1. TypeOK /\ Shape /\ Locks /\ RecordInv(r)
  BY DEF Known, Records
<1>2. Same(r) /\ SameLock(r)
  BY <1>1, RecordsUnmoved DEF Same, SameLock
<1>3. OwnsIndex(lock[r].tx) => OwnsIndex(lock[r].tx)'
  <2> SUFFICES ASSUME Indexes(lock[r].tx), Owned(indexLock, lock[r].tx)
               PROVE  Owned(indexLock', lock[r].tx)
    BY <1>2 DEF OwnsIndex, Indexes, Owned, SameLock
  <2>1. lock[r].tx.rec = r
    <3>1. lock[r] # Free
      <4>1. lock[r].tx # NoTx
        BY StoreAssumption DEF Indexes, NoTx
      <4> QED
        BY <4>1 DEF Free
    <3> QED
      BY <1>1, <3>1 DEF Shape, StoreShape
  <2>2. pc[p] \in {"settle", "freeIndex", "release"} => tx[p].rec = Rec(p)
    BY <1>1 DEF Shape, CallShape, Holding, Recovering, Recovery
  <2> QED
    BY <1>1, <2>1, <2>2, OwnedKept
<1> QED
  BY <1>1, <1>2, <1>3, SameRecord

(* A call at work keeps what it knows while others step.                   *)
LEMMA WorkElsewhere ==
  ASSUME Known, NEW p \in Proc, Act(p), NEW q \in Proc, q # p
  PROVE  WorkInv(q)'
<1>1. /\ TypeOK /\ Shape /\ Locks /\ Serial /\ WorkInv(q)
  BY DEF Known, Records
<1>2. /\ pc'[q] = pc[q] /\ want'[q] = want[q] /\ tx'[q] = tx[q]
      /\ base'[q] = base[q] /\ file'[q] = file[q]
  BY <1>1, OthersUnmoved
<1>3. CASE pc[q] \notin Locking
  BY <1>2, <1>3 DEF WorkInv, Locking, Holding, Appending, Consulting, Recovery, Unready
<1>4. CASE pc[q] \in Locking
  <2>1. Same(Rec(q))
    BY <1>1, <1>4, Outside
  <2>2. pc[q] \in {"undo", "redo"} /\ OwnsIndex(tx[q]) => OwnsIndex(tx[q])'
    <3> SUFFICES ASSUME pc[q] \in {"undo", "redo"}, Indexes(tx[q]), Owned(indexLock, tx[q])
                 PROVE  Owned(indexLock', tx[q])
      BY <1>2 DEF OwnsIndex, Indexes, Owned
    <3>1. pc[p] \in {"settle", "freeIndex", "release"} => pc[p] \in Locking /\ tx[p].rec = Rec(p)
      BY <1>1 DEF Shape, CallShape, Locking, Holding, Recovering, Recovery
    <3>2. tx[q].rec = Rec(q)
      BY <1>1 DEF Shape, CallShape, Recovering, Recovery
    <3>3. pc[p] \in Locking => Rec(p) # Rec(q)
      BY <1>1, <1>4, Exclusive
    <3> QED
      BY <1>1, <3>1, <3>2, <3>3, OwnedKept
  <2> QED
    BY <1>1, <1>2, <2>1, <2>2, SameWork
<1> QED
  BY <1>3, <1>4

(* The marker moves with the commit only.                                  *)
LEMMA MarkerMoves ==
  ASSUME TypeOK, NEW p \in Proc, Act(p), NEW r \in Record, marker'[r] # marker[r]
  PROVE  pc[p] = "mark" /\ r = Rec(p) /\ marker'[r] = tx[p]
<1>1. DOMAIN marker = Record
  BY DEF TypeOK
<1>2. CASE Mark(p)
  BY <1>1, <1>2 DEF Mark
<1> USE DEF files, Undone, Throw, Reset, RemoveDir
<1>3. CASE Call(p)
  BY <1>3, <1>1 DEF Call, Ask
<1>4. CASE Look(p)
  BY <1>4, <1>1 DEF Look
<1>5. CASE Inspect(p)
  BY <1>5, <1>1 DEF Inspect
<1>6. CASE Redo(p)
  BY <1>6, <1>1 DEF Redo
<1>7. CASE Undo(p)
  BY <1>7, <1>1 DEF Undo
<1>8. CASE Clear(p)
  BY <1>8, <1>1 DEF Clear
<1>9. CASE FreeIndex(p)
  BY <1>9, <1>1 DEF FreeIndex
<1>10. CASE FreeLock(p)
  BY <1>10, <1>1 DEF FreeLock
<1>11. CASE Before(p)
  BY <1>11, <1>1 DEF Before
<1>12. CASE Open(p)
  BY <1>12, <1>1 DEF Open
<1>13. CASE Fill(p)
  BY <1>13, <1>1 DEF Fill
<1>14. CASE OpenIndex(p)
  BY <1>14, <1>1 DEF OpenIndex
<1>15. CASE FillIndex(p)
  BY <1>15, <1>1 DEF FillIndex
<1>16. CASE Compare(p)
  BY <1>16, <1>1 DEF Compare
<1>17. CASE Stage(p)
  BY <1>17, <1>1 DEF Stage
<1>18. CASE Promote(p)
  BY <1>18, <1>1 DEF Promote
<1>19. CASE Rename(p)
  BY <1>19, <1>1 DEF Rename
<1>20. CASE Rollback(p)
  BY <1>20, <1>1 DEF Rollback
<1>21. CASE DropPromoted(p)
  BY <1>21, <1>1 DEF DropPromoted
<1>22. CASE DropStaging(p)
  BY <1>22, <1>1 DEF DropStaging
<1>23. CASE ReadRecord(p)
  BY <1>23, <1>1 DEF ReadRecord
<1>24. CASE ReadLog(p)
  BY <1>24, <1>1 DEF ReadLog
<1>25. CASE Release(p)
  BY <1>25, <1>1 DEF Release
<1>26. CASE ReleaseOwn(p)
  BY <1>26, <1>1 DEF ReleaseOwn
<1>27. CASE Return(p)
  BY <1>27, <1>1 DEF Return
<1>28. CASE Fail(p)
  BY <1>28, <1>1 DEF Fail
<1>29. CASE Crash(p)
  BY <1>29, <1>1 DEF Crash
<1> QED
  BY StepKinds, <1>3, <1>4, <1>5, <1>6, <1>7, <1>8, <1>9, <1>10, <1>11, <1>12, <1>13, <1>14,
     <1>15, <1>16, <1>17, <1>18, <1>19, <1>2, <1>20, <1>21, <1>22, <1>23, <1>24, <1>25,
     <1>26, <1>27, <1>28, <1>29

(* Before it has the lock, a call's event is new to the record, or was     *)
(* already in what it read: what commits meanwhile is another event.       *)
LEMMA OpenElsewhere ==
  ASSUME Known, NEW p \in Proc, Act(p), NEW q \in Proc, q # p
  PROVE  OpenInv(q)'
<1>1. TypeOK /\ Shape /\ OpenInv(q) /\ WorkInv(p)
  BY DEF Known, Records
<1>2. pc'[q] = pc[q] /\ want'[q] = want[q] /\ tx'[q] = tx[q]
  BY <1>1, OthersUnmoved
<1> SUFFICES ASSUME pc[q] = "open", ~Reading(q), tx[q].ev \in ToSet(Committed(Rec(q))')
             PROVE  tx[q].ev \in ToSet(tx[q].pre)
  BY <1>2 DEF OpenInv, Reading
<1>3. Rec(q) \in Record /\ tx[q].ev = want[q].ev
  BY <1>1 DEF Shape, CallShape, Rec, Reading
<1>4. CASE marker'[Rec(q)] = marker[Rec(q)]
  BY <1>1, <1>2, <1>4 DEF Committed, OpenInv, Rec
<1>5. CASE marker'[Rec(q)] # marker[Rec(q)]
  <2>1. pc[p] = "mark" /\ Rec(q) = Rec(p) /\ marker'[Rec(q)] = tx[p]
    BY <1>1, <1>3, <1>5, MarkerMoves
  <2>2. Pending(Rec(p), tx[p])
    BY <1>1, <2>1 DEF WorkInv
  <2>3. ~Reading(p) /\ tx[p].ev = want[p].ev /\ want[p].ev \in Event
    BY <1>1, <2>1 DEF Shape, CallShape, Appending, Holding, Reading, TypeOK
  <2>4. want[q].ev # want[p].ev
    <3>1. want[p] # want[q]
      BY <2>3 DEF Known, NoTwins
    <3>2. want[p] \in Want /\ want[q] \in Want
      BY <1>1 DEF TypeOK, Want
    <3> QED
      BY <2>1, <3>1, <3>2 DEF Rec, Want
  <2>5. Committed(Rec(q))' = Append(Committed(Rec(p)), tx[p].ev)
    <3>1. marker'[Rec(q)] # NoTx
      BY <2>1, <2>3, StoreAssumption DEF NoTx
    <3>2. Rec(q)' = Rec(q)
      BY <1>2 DEF Rec
    <3> QED
      BY <2>1, <2>2, <3>1, <3>2 DEF Committed, Pending
  <2>6. Committed(Rec(p)) \in Seq(Event)
    BY <1>1, <1>3, <2>1, CommittedTyped
  <2>7. ToSet(Committed(Rec(q))') = ToSet(Committed(Rec(p))) \cup {tx[p].ev}
    BY <2>3, <2>5, <2>6, Appends
  <2>8. tx[q].ev \in ToSet(Committed(Rec(q)))
    BY <1>3, <2>1, <2>3, <2>4, <2>7
  <2> QED
    BY <1>1, <2>8 DEF OpenInv
<1> QED
  BY <1>4, <1>5

(* A step that leaves the record's files alone keeps the record.           *)
LEMMA QuietRecord ==
  ASSUME Known, NEW p \in Proc, Act(p), NEW r \in Record, r = Rec(p), Same(r), SameLock(r)
  PROVE  RecordInv(r)'
<1>1. TypeOK /\ Shape /\ Locks /\ RecordInv(r) /\ WorkInv(p)
  BY DEF Known, Records
<1>2. Settled(r) \/ (OwnsIndex(lock[r].tx) => OwnsIndex(lock[r].tx)')
  <2>1. CASE pc[p] \in {"settle", "freeIndex", "release"}
    BY <1>1, <2>1 DEF WorkInv, Unready, Clean
  <2>2. CASE pc[p] \notin {"settle", "freeIndex", "release"}
    <3> SUFFICES ASSUME Indexes(lock[r].tx), Owned(indexLock, lock[r].tx)
                 PROVE  Owned(indexLock', lock[r].tx)
      BY DEF OwnsIndex, Indexes, Owned, SameLock
    <3> QED
      BY <1>1, <2>2, OwnedKept
  <2> QED
    BY <2>1, <2>2
<1> QED
  BY <1>1, <1>2, SameRecord

(* What each lemma below shows of one action.                              *)
OwnKept(p) ==
  /\ \A r \in Record : r = Rec(p) => RecordInv(r)'
  /\ OpenInv(p)' /\ WorkInv(p)'

(* Outside its locks a call knows nothing of the record.                   *)
LEMMA KnowsNothing ==
  ASSUME NEW p \in Proc, pc'[p] \in {"idle", "look", "before", "inspect", "return"}
  PROVE  OpenInv(p)' /\ WorkInv(p)'
BY DEF OpenInv, WorkInv, Unready

(* Between its work and its release it knows a clean record.               *)
LEMMA KnowsClean ==
  ASSUME NEW p \in Proc, pc'[p] \in Unready \ {"readLog"}, Clean(Rec(p), tx[p])'
  PROVE  OpenInv(p)' /\ WorkInv(p)'
BY DEF OpenInv, WorkInv, Unready

(* The steps that change neither the files of a record nor its lock.       *)
Quiet(p) ==
  \/ Call(p) \/ Look(p) \/ Inspect(p) \/ Before(p) \/ ReadRecord(p) \/ ReadLog(p) \/ Return(p)
  \/ Fail(p) \/ Crash(p) \/ OpenIndex(p) \/ FillIndex(p) \/ FreeIndex(p) \/ Release(p)

(* They leave the files of every record and its lock as they are, but for  *)
(* the owner that dies.                                                    *)
LEMMA QuietFiles ==
  ASSUME TypeOK, NEW p \in Proc, Quiet(p), NEW r \in Record
  PROVE  Same(r) /\ SameLock(r)
<1>1. UNCHANGED files /\ (lock' = lock \/ lock' = [s \in Record |-> Orphan(lock[s], p)])
  <2> USE DEF files, locks
  <2>1. CASE Call(p)
    BY <2>1 DEF Call, Ask
  <2>2. CASE Look(p)
    BY <2>2 DEF Look
  <2>3. CASE Inspect(p)
    BY <2>3 DEF Inspect
  <2>4. CASE Before(p)
    BY <2>4 DEF Before
  <2>5. CASE ReadRecord(p)
    BY <2>5 DEF ReadRecord
  <2>6. CASE ReadLog(p)
    BY <2>6 DEF ReadLog
  <2>7. CASE Return(p)
    BY <2>7 DEF Return
  <2>8. CASE Fail(p)
    BY <2>8 DEF Fail
  <2>9. CASE Crash(p)
    BY <2>9 DEF Crash
  <2>10. CASE OpenIndex(p)
    BY <2>10 DEF OpenIndex
  <2>11. CASE FillIndex(p)
    BY <2>11 DEF FillIndex
  <2>12. CASE FreeIndex(p)
    BY <2>12 DEF FreeIndex
  <2>13. CASE Release(p)
    BY <2>13 DEF Release
  <2> QED
    BY <2>1, <2>2, <2>3, <2>4, <2>5, <2>6, <2>7, <2>8, <2>9, <2>10, <2>11, <2>12, <2>13 DEF Quiet
<1>2. lock[r] \in LockFile
  BY DEF TypeOK
<1>3. SameLock(r)
  BY <1>1, <1>2 DEF SameLock, Orphan, LockFile
<1>4. Same(r)
  BY <1>1 DEF Same, files
<1> QED
  BY <1>3, <1>4

(* Each of them leaves the call with what it needs to know next.           *)
LEMMA QuietWork ==
  ASSUME Known, NEW p \in Proc, Quiet(p), Act(p)
  PROVE  OpenInv(p)' /\ WorkInv(p)'
<1>1. /\ TypeOK /\ Shape /\ Locks /\ WorkInv(p)
      /\ \A r \in Record : RecordInv(r)
  BY DEF Known, Records
<1>2. /\ DOMAIN pc = Proc /\ DOMAIN want = Proc /\ DOMAIN tx = Proc /\ DOMAIN base = Proc
      /\ DOMAIN file = Proc
      /\ pc[p] # "idle" => Rec(p) \in Record
  BY <1>1 DEF TypeOK, Shape, CallShape, Rec
<1>3. pc[p] # "idle" => Same(Rec(p))
  BY <1>1, <1>2, QuietFiles
<1>4. CASE Call(p)
  <2>1. pc'[p] = "look"
    BY <1>2, <1>4 DEF Call, Ask, Goto
  <2> QED
    BY <2>1, KnowsNothing
<1>5. CASE Look(p)
  <2>1. pc'[p] \in {"inspect", "before"}
    BY <1>2, <1>5 DEF Look, Goto
  <2> QED
    BY <2>1, KnowsNothing
<1>6. CASE Return(p) \/ Crash(p)
  <2>1. pc'[p] = "idle"
    BY <1>2, <1>6 DEF Return, Crash, Reset, Goto
  <2> QED
    BY <2>1, KnowsNothing
<1>7. ASSUME UNCHANGED <<want, tx>>, pc[p] \in Unready, pc'[p] \in Unready \ {"readLog"}
      PROVE  OpenInv(p)' /\ WorkInv(p)'
  <2>1. Clean(Rec(p), tx[p]) /\ Same(Rec(p))
    BY <1>1, <1>3, <1>7 DEF WorkInv, Unready
  <2>2. Clean(Rec(p), tx[p])'
    BY <1>7, <2>1, HoldsStill
  <2> QED
    BY <1>7, <2>2, KnowsClean
<1>8. CASE OpenIndex(p)
  <2>1. pc[p] = "openIndex" /\ pc'[p] \in {"fillIndex", "release"} /\ UNCHANGED <<want, tx>>
    BY <1>2, <1>8 DEF OpenIndex, Goto, Throw
  <2> QED
    BY <1>7, <2>1 DEF Unready
<1>9. CASE FillIndex(p)
  <2>1. pc[p] = "fillIndex" /\ pc'[p] = "compare" /\ UNCHANGED <<want, tx>>
    BY <1>2, <1>9 DEF FillIndex, Goto
  <2> QED
    BY <1>7, <2>1 DEF Unready
<1>10. CASE Release(p)
  <2>1. pc[p] = "release" /\ pc'[p] = "releaseLock" /\ UNCHANGED <<want, tx>>
    BY <1>2, <1>10 DEF Release, Goto
  <2> QED
    BY <1>7, <2>1 DEF Unready
<1>11. CASE ReadLog(p)
  <2>1. pc[p] = "readLog" /\ pc'[p] = "release" /\ UNCHANGED <<want, tx>>
    BY <1>2, <1>11 DEF ReadLog, Goto
  <2> QED
    BY <1>7, <2>1 DEF Unready
<1>12. CASE FreeIndex(p)
  <2>1. pc[p] \in {"settle", "freeIndex"} /\ pc'[p] \in {"freeLock", "return"} /\ UNCHANGED <<want, tx>>
    BY <1>2, <1>12 DEF FreeIndex, Goto, Throw
  <2> QED
    BY <1>7, <2>1, KnowsNothing DEF Unready
<1>13. CASE ReadRecord(p)
  <2>1. /\ pc[p] = "read" /\ pc'[p] = "readLog" /\ UNCHANGED <<want, tx>>
        /\ base'[p].record = record[Rec(p)]
    <3>1. base[p] \in Base
      BY <1>1 DEF TypeOK, Base
    <3> QED
      BY <1>2, <1>13, <3>1 DEF ReadRecord, Goto, Base
  <2>2. Clean(Rec(p), tx[p]) /\ Same(Rec(p))
    BY <1>1, <1>3, <2>1 DEF WorkInv, Unready
  <2>3. Clean(Rec(p), tx[p])' /\ Committed(Rec(p))' = Committed(Rec(p))
    BY <2>1, <2>2, HoldsStill
  <2>4. base'[p].record = Committed(Rec(p))'
    BY <2>1, <2>2, <2>3 DEF Clean, Settled
  <2> QED
    BY <2>1, <2>3, <2>4 DEF OpenInv, WorkInv, Unready
<1>14. CASE Before(p)
  <2>1. CASE lock[Rec(p)] # Free
    <3>1. pc'[p] = "return"
      BY <1>2, <1>14, <2>1 DEF Before, Goto, Throw
    <3> QED
      BY <3>1, KnowsNothing
  <2>2. CASE lock[Rec(p)] = Free
    <3>1. /\ pc[p] = "before" /\ pc'[p] = "open" /\ UNCHANGED want
          /\ ~Reading(p) => tx'[p] = Transaction(Rec(p), want[p].ev, record[Rec(p)])
      BY <1>2, <1>14, <2>2 DEF Before, Goto
    <3>2. Settled(Rec(p))
      <4>1. ~lock[Rec(p)].written
        BY <2>2 DEF Free
      <4>2. RecordInv(Rec(p))
        BY <1>1, <1>2, <3>1
      <4> QED
        BY <4>1, <4>2 DEF RecordInv, Torn
    <3>3. Committed(Rec(p))' = Committed(Rec(p))
      <4>1. Rec(p)' = Rec(p)
        BY <3>1 DEF Rec
      <4> QED
        BY <1>3, <3>1, <4>1 DEF Same, Committed
    <3>4. ~Reading(p) => tx'[p].pre = Committed(Rec(p))
      BY <3>1, <3>2 DEF Transaction, Settled
    <3> QED
      BY <3>1, <3>3, <3>4 DEF OpenInv, WorkInv, Unready, Reading
  <2> QED
    BY <2>1, <2>2
<1>15. CASE Inspect(p)
  <2> DEFINE found == RecoveryDirs(Rec(p), tx[p])
  <2>1. /\ pc[p] = "inspect" /\ UNCHANGED <<want, tx>> /\ Rec(p) \in Record /\ Same(Rec(p))
        /\ Rec(p)' = Rec(p)
    BY <1>2, <1>3, <1>15 DEF Inspect, Rec
  <2>2. /\ RecordInv(Rec(p)) /\ lock[Rec(p)].tx = tx[p]
        /\ tx[p].ev \in Event \cup Proc /\ tx[p].rec = Rec(p)
    BY <1>1, <2>1 DEF Locks, LockInv, Recovery, Shape, CallShape, Recovering
  <2>3. /\ \A d \in found : d \in dirs[Rec(p)] /\ d.tx = tx[p]
        /\ found = {} => \A d \in dirs[Rec(p)] : d.tx # tx[p]
    BY DEF RecoveryDirs, Dirs
  <2>4. marker[Rec(p)] = tx[p] => Settled(Rec(p))
    <3> SUFFICES ASSUME marker[Rec(p)] = tx[p], Pending(Rec(p), tx[p]) PROVE FALSE
      BY <2>2 DEF RecordInv, Torn
    <3>1. tx[p] # NoTx
      BY <2>2, StoreAssumption DEF NoTx
    <3>2. marker[Rec(p)].ev \in Event
      BY <1>1, <2>1, <3>1 DEF Shape, StoreShape
    <3>3. Committed(Rec(p)) = Append(tx[p].pre, tx[p].ev) /\ tx[p].pre \in Seq(Event)
      BY <1>1, <3>1 DEF Committed, TypeOK, Tx
    <3> QED
      BY <3>2, <3>3, Appends DEF Pending
  <2>5. CASE NothingToRecover(p)
    <3>1. pc'[p] = "freeIndex"
      BY <1>2, <1>15, <2>5 DEF Inspect, Goto
    <3>2. found = {} /\ ~Restorable(Rec(p), tx[p])
      BY <2>3, <2>5 DEF NothingToRecover, Restorable
    <3>3. Clean(Rec(p), tx[p])
      BY <2>2, <2>3, <3>2 DEF RecordInv, Torn, Clean
    <3>4. Clean(Rec(p), tx[p])'
      BY <2>1, <3>3, HoldsStill
    <3> QED
      BY <3>1, <3>4, KnowsClean DEF Unready
  <2>6. CASE ~NothingToRecover(p) /\ (found = {} \/ (\E d \in found : ~d.whole) \/ ~OwnsIndex(tx[p]))
    <3>1. pc'[p] = "return"
      BY <1>2, <1>15, <2>6 DEF Inspect, Goto, Throw
    <3> QED
      BY <3>1, KnowsNothing
  <2>7. CASE ~NothingToRecover(p) /\ found # {} /\ (\A d \in found : d.whole) /\ OwnsIndex(tx[p])
    <3>1. PICK d \in found :
             base' = [base EXCEPT ![p] = [log |-> d.log, record |-> d.tx.pre, index |-> d.index]]
      BY <1>15, <2>7 DEF Inspect
    <3>2. /\ pc'[p] = IF marker[Rec(p)] = tx[p] THEN "redo" ELSE "undo"
          /\ file'[p] = IF marker[Rec(p)] = tx[p] THEN "log" ELSE "record"
          /\ UNCHANGED indexLock
      BY <1>2, <1>15, <2>7 DEF Inspect, Goto, locks
    <3>3. d \in dirs[Rec(p)] /\ d.tx = tx[p] /\ d.whole /\ d.log = tx[p].pre
      BY <2>2, <2>3, <2>7 DEF RecordInv
    <3>4. Based(p)'
      BY <1>2, <2>1, <3>1, <3>3 DEF Based
    <3>5. OwnsIndex(tx[p])'
      BY <2>1, <2>7, <3>2 DEF OwnsIndex, Indexes, Owned
    <3>6. CASE marker[Rec(p)] = tx[p]
      <4>1. Settled(Rec(p))' /\ marker'[Rec(p)] = tx[p]
        BY <2>1, <2>4, <3>6, HoldsStill DEF Same
      <4>2. pc'[p] = "redo"
        BY <3>2, <3>6
      <4> QED
        BY <2>1, <3>4, <3>5, <4>1, <4>2 DEF OpenInv, WorkInv, Unready
    <3>7. CASE marker[Rec(p)] # tx[p]
      <4>1. Made(Rec(p), d)
        BY <1>1, <2>1, <2>2, <3>3, <3>7 DEF RecordInv, Kept, Shape, StoreShape
      <4>2. Pending(Rec(p), tx[p]) /\ Restorable(Rec(p), tx[p])
        BY <3>3, <4>1 DEF Made, Restorable
      <4>3. Pending(Rec(p), tx[p])' /\ Restorable(Rec(p), tx[p])'
        BY <2>1, <4>2, HoldsStill
      <4>4. pc'[p] = "undo" /\ file'[p] = "record"
        BY <3>2, <3>7
      <4>5. Restored(Rec(p), tx[p], file[p])'
        BY <4>4 DEF Restored
      <4> QED
        BY <2>1, <3>4, <3>5, <4>3, <4>4, <4>5 DEF OpenInv, WorkInv, Unready
    <3> QED
      BY <3>6, <3>7
  <2> QED
    BY <2>5, <2>6, <2>7
<1>16. CASE Fail(p)
  <2>1. UNCHANGED <<want, tx, base>> /\ pc[p] # "idle"
    BY <1>16 DEF Fail
  <2>2. CASE pc'[p] = "return"
    BY <2>2, KnowsNothing
  <2>3. CASE pc'[p] = "release"
    <3>1. pc[p] \in Unready
      BY <1>2, <1>16, <2>3 DEF Fail, Throw, Undone, Goto, Unready
    <3> QED
      BY <1>7, <2>1, <2>3, <3>1 DEF Unready
  <2>4. CASE pc'[p] = "dropStaging"
    <3>1. pc[p] = "stage"
      BY <1>2, <1>16, <2>4 DEF Fail, Throw, Undone, Goto
    <3>2. Pending(Rec(p), tx[p]) /\ Settled(Rec(p)) /\ Staged(Rec(p), tx[p], FALSE)
      BY <1>1, <3>1 DEF WorkInv
    <3>3. Pending(Rec(p), tx[p])' /\ Settled(Rec(p))' /\ Staged(Rec(p), tx[p], FALSE)'
      BY <1>3, <2>1, <3>2, HoldsStill
    <3> QED
      BY <2>4, <3>3 DEF OpenInv, WorkInv, Unready
  <2>5. CASE pc'[p] = "rollback"
    <3>1. pc[p] \in {"promote", "rename", "mark"} /\ file'[p] = "record"
      BY <1>2, <1>16, <2>5 DEF Fail, Throw, Undone, Goto
    <3>2. Pending(Rec(p), tx[p]) /\ Restorable(Rec(p), tx[p]) /\ Based(p)
      BY <1>1, <3>1 DEF WorkInv
    <3>3. Pending(Rec(p), tx[p])' /\ Restorable(Rec(p), tx[p])' /\ Based(p)'
      BY <1>3, <2>1, <3>2, HoldsStill DEF Based
    <3>4. Restored(Rec(p), tx[p], file[p])'
      BY <3>1 DEF Restored
    <3> QED
      BY <2>5, <3>3, <3>4 DEF OpenInv, WorkInv, Unready
  <2>6. pc'[p] \in {"return", "release", "dropStaging", "rollback"}
    BY <1>2, <1>16 DEF Fail, Throw, Undone, Goto
  <2> QED
    BY <2>2, <2>3, <2>4, <2>5, <2>6
<1> QED
  BY <1>4, <1>5, <1>6, <1>8, <1>9, <1>10, <1>11, <1>12, <1>13, <1>14, <1>15, <1>16 DEF Quiet

(* So they keep the record and what the call knows of it.                  *)
LEMMA QuietOwn ==
  ASSUME Known, NEW p \in Proc, Quiet(p), Act(p)
  PROVE  OwnKept(p)
<1>1. TypeOK
  BY DEF Known
<1>2. \A r \in Record : r = Rec(p) => RecordInv(r)'
  BY <1>1, QuietFiles, QuietRecord
<1> QED
  BY <1>2, QuietWork DEF OwnKept

(* A record whose directories do not change, and that is settled, keeps    *)
(* its invariant when its lock is taken, filled or released.               *)
LEMMA RelockedRecord ==
  ASSUME NEW r \in Record, Same(r), RecordInv(r), Settled(r),
         \A d \in dirs[r] : Made(r, d) /\ ~Kept(r, d) => Made(r, d)',
         lock'[r].tx.ev \in Event /\ lock'[r].tx.ev \in ToSet(Committed(r)) =>
           marker[r] = lock'[r].tx \/ lock'[r].tx.ev \in ToSet(lock'[r].tx.pre)
  PROVE  RecordInv(r)'
<1>1. Committed(r)' = Committed(r)
  BY DEF Committed, Same
<1>2. Settled(r)'
  BY <1>1 DEF Settled, Same
<1>3. \A d \in dirs[r] : Kept(r, d) => Kept(r, d)'
  BY <1>1 DEF Kept
<1> QED
  BY <1>1, <1>2, <1>3 DEF RecordInv, Same

(* A lock is opened on a record that nobody had: what its directories are  *)
(* of is committed, and the transaction is not.                            *)
LEMMA OpenOwn ==
  ASSUME Known, NEW p \in Proc, Act(p), NEW r \in Record, r = Rec(p), Open(p)
  PROVE  RecordInv(r)' /\ OpenInv(p)' /\ WorkInv(p)'
<1>1. /\ TypeOK /\ Shape /\ Locks /\ RecordInv(r) /\ OpenInv(p) /\ WorkInv(p)
  BY DEF Known, Records
<1>2. /\ DOMAIN pc = Proc /\ DOMAIN lock = Record /\ DOMAIN dirs = Record /\ DOMAIN file = Proc
      /\ lock[r] \in LockFile
  BY <1>1 DEF TypeOK
<1>3. Same(r) /\ UNCHANGED <<want, tx>> /\ pc[p] = "open" /\ Rec(p)' = r
  BY DEF Open, Same, files, Rec
<1>4. CASE lock[r] # Free
  <2>1. lock' = lock /\ pc'[p] = "return"
    BY <1>2, <1>4 DEF Open, Goto, Throw
  <2>2. SameLock(r)
    BY <2>1 DEF SameLock
  <2> QED
    BY <1>3, <2>1, <2>2, QuietRecord, KnowsNothing
<1>5. CASE lock[r] = Free
  <2>1. lock'[r].tx = tx[p] /\ pc'[p] = "fill" /\ ~lock[r].written
    BY <1>2, <1>5 DEF Open, Goto, Free
  <2>2. Settled(r) /\ \A d \in dirs[r] : ~Made(r, d)
    BY <1>1, <2>1 DEF RecordInv, Torn, Made
  <2>3. tx[p].ev = (IF Reading(p) THEN p ELSE want[p].ev) /\ p \notin Event
    BY <1>1, <1>3, StoreAssumption DEF Shape, CallShape
  <2>4. tx[p].ev \in Event /\ tx[p].ev \in ToSet(Committed(r)) => tx[p].ev \in ToSet(tx[p].pre)
    BY <1>1, <1>3, <2>3 DEF OpenInv
  <2>5. \A d \in dirs[r] : d.tx # tx[p]
    <3>1. \A d \in dirs[r] : Kept(r, d) /\ d.tx.ev \in Event
      BY <1>1, <2>2 DEF RecordInv, Shape, StoreShape
    <3> QED
      BY <2>4, <3>1 DEF Kept
  <2>6. Clean(r, tx[p])
    BY <2>2, <2>5 DEF Clean
  <2>7. Clean(Rec(p), tx[p])'
    BY <1>3, <2>6, HoldsStill
  <2>8. RecordInv(r)'
    BY <1>1, <1>3, <2>1, <2>2, <2>4, RelockedRecord
  <2> QED
    BY <2>1, <2>7, <2>8, KnowsClean DEF Unready
<1> QED
  BY <1>4, <1>5

(* Filling the lock file makes the transaction the owner of a clean        *)
(* record.                                                                 *)
LEMMA FillOwn ==
  ASSUME Known, NEW p \in Proc, Act(p), NEW r \in Record, r = Rec(p), Fill(p)
  PROVE  RecordInv(r)' /\ OpenInv(p)' /\ WorkInv(p)'
<1>1. /\ TypeOK /\ Shape /\ Locks /\ RecordInv(r) /\ OpenInv(p) /\ WorkInv(p)
  BY DEF Known, Records
<1>2. /\ DOMAIN pc = Proc /\ DOMAIN lock = Record /\ DOMAIN dirs = Record /\ DOMAIN file = Proc
      /\ lock[r] \in LockFile
  BY <1>1 DEF TypeOK
<1>3. Same(r) /\ UNCHANGED <<want, tx>> /\ pc[p] = "fill"
  BY DEF Fill, Same, files
<1>4. lock'[r].tx = lock[r].tx /\ ~lock[r].written
  BY <1>1, <1>2, <1>3 DEF Fill, LockFile, Shape, Filling
<1>5. pc'[p] \in {"read", "openIndex", "compare"}
  BY <1>2 DEF Fill, Goto
<1>6. Clean(r, tx[p])
  BY <1>1, <1>3 DEF WorkInv, Unready
<1>7. \A d \in dirs[r] : ~Made(r, d)
  BY <1>4 DEF Made
<1>8. RecordInv(r)'
  BY <1>1, <1>3, <1>4, <1>6, <1>7, RelockedRecord DEF Clean, RecordInv
<1>9. Clean(Rec(p), tx[p])'
  BY <1>3, <1>6, HoldsStill
<1> QED
  BY <1>5, <1>8, <1>9, KnowsClean DEF Unready

(* A lock is released by its transaction, when the record is clean.        *)
LEMMA ReleasedRecord ==
  ASSUME Known, NEW p \in Proc, NEW r \in Record, r = Rec(p), Same(r), Clean(r, tx[p]),
         ReleaseLock(r, tx[p]), tx[p].ev \in Event \cup Proc
  PROVE  RecordInv(r)'
<1>1. /\ TypeOK /\ Shape /\ Locks /\ RecordInv(r) /\ OpenInv(p) /\ WorkInv(p)
  BY DEF Known, Records
<1>2. /\ DOMAIN pc = Proc /\ DOMAIN lock = Record /\ DOMAIN dirs = Record /\ DOMAIN file = Proc
      /\ lock[r] \in LockFile
  BY <1>1 DEF TypeOK
<1>3. CASE ~Owned(lock[r], tx[p])
  <2>1. lock' = lock
    BY <1>3 DEF ReleaseLock
  <2>2. \A d \in dirs[r] : Made(r, d) => Made(r, d)'
    BY <2>1 DEF Made, Pending, Same, Committed
  <2> QED
    BY <1>1, <2>1, <2>2, RelockedRecord DEF Clean, RecordInv
<1>4. CASE Owned(lock[r], tx[p])
  <2>1. lock'[r] = Free /\ lock[r].tx = tx[p]
    BY <1>2, <1>4 DEF ReleaseLock, Owned
  <2>2. Free.tx.ev \notin Event
    BY StoreAssumption DEF Free, NoTx
  <2>3. ASSUME NEW d \in dirs[r], Made(r, d) PROVE FALSE
    <3>1. d.tx = tx[p] /\ Pending(r, tx[p]) /\ marker[r] = tx[p]
      BY <2>1, <2>3 DEF Made, Clean
    <3>2. tx[p].ev \in Event
      BY <1>1, <3>1 DEF Shape, StoreShape
    <3>3. Committed(r) = Nxt(tx[p])
      BY <1>1, <3>1, <3>2, CommittedTyped
    <3>4. tx[p].pre \in Seq(Event)
      BY <1>1 DEF TypeOK, Tx
    <3> QED
      BY <3>1, <3>2, <3>3, <3>4, Appends DEF Pending, Nxt
  <2> QED
    BY <1>1, <2>1, <2>2, <2>3, RelockedRecord DEF Clean
<1> QED
  BY <1>3, <1>4

(* A recovery releases the lock of a record it has made clean.             *)
LEMMA FreeLockOwn ==
  ASSUME Known, NEW p \in Proc, Act(p), NEW r \in Record, r = Rec(p), FreeLock(p)
  PROVE  RecordInv(r)' /\ OpenInv(p)' /\ WorkInv(p)'
<1>1. /\ TypeOK /\ Shape /\ Locks /\ RecordInv(r) /\ OpenInv(p) /\ WorkInv(p)
  BY DEF Known, Records
<1>2. /\ DOMAIN pc = Proc /\ DOMAIN lock = Record /\ DOMAIN dirs = Record /\ DOMAIN file = Proc
      /\ lock[r] \in LockFile
  BY <1>1 DEF TypeOK
<1>3. Same(r) /\ pc[p] = "freeLock" /\ pc'[p] = "before" /\ ReleaseLock(r, tx[p])
  BY <1>2 DEF FreeLock, Same, files, Goto
<1>4. Clean(r, tx[p]) /\ tx[p].ev \in Event \cup Proc
  BY <1>1, <1>3 DEF WorkInv, Unready, Shape, CallShape, Recovering, Recovery
<1> QED
  BY <1>3, <1>4, ReleasedRecord, KnowsNothing

(* So does the call that appended or read.                                 *)
LEMMA ReleaseOwnOwn ==
  ASSUME Known, NEW p \in Proc, Act(p), NEW r \in Record, r = Rec(p), ReleaseOwn(p)
  PROVE  RecordInv(r)' /\ OpenInv(p)' /\ WorkInv(p)'
<1>1. /\ TypeOK /\ Shape /\ Locks /\ RecordInv(r) /\ OpenInv(p) /\ WorkInv(p)
  BY DEF Known, Records
<1>2. /\ DOMAIN pc = Proc /\ DOMAIN lock = Record /\ DOMAIN dirs = Record /\ DOMAIN file = Proc
      /\ lock[r] \in LockFile
  BY <1>1 DEF TypeOK
<1>3. Same(r) /\ pc[p] = "releaseLock" /\ pc'[p] = "return" /\ ReleaseLock(r, tx[p])
  BY <1>2 DEF ReleaseOwn, Same, files, Goto
<1>4. Clean(r, tx[p])
  BY <1>1, <1>3 DEF WorkInv, Unready
<1>5. tx[p].ev \in Event \cup Proc
  <2>1. tx[p].ev = (IF Reading(p) THEN p ELSE want[p].ev)
    BY <1>1, <1>3 DEF Shape, CallShape, Holding
  <2>2. ~Reading(p) => want[p].ev \in Event
    BY <1>1 DEF Reading, TypeOK
  <2> QED
    BY <2>1, <2>2
<1> QED
  BY <1>3, <1>4, <1>5, ReleasedRecord, KnowsNothing

(* The files as they are before the marker is replaced.                    *)
LEMMA TornOrSettled ==
  ASSUME Known, NEW p \in Proc, NEW r \in Record, r = Rec(p), Pending(r, tx[p]),
         lock[r].tx = tx[p], tx[p].ev \in Event
  PROVE  Between(r, tx[p])
<1>1. RecordInv(r)
  BY DEF Known, Records
<1>2. Settled(r) => Between(r, tx[p])
  BY DEF Settled, Between, Pending
<1> QED
  BY <1>1, <1>2 DEF RecordInv, Torn

(* What passes the comparison under the lock is not committed yet: from    *)
(* here on the transaction is pending, with a directory of its own.        *)
LEMMA CompareOwn ==
  ASSUME Known, NEW p \in Proc, Act(p), NEW r \in Record, r = Rec(p), Compare(p)
  PROVE  RecordInv(r)' /\ OpenInv(p)' /\ WorkInv(p)'
<1>1. /\ TypeOK /\ Shape /\ Locks /\ RecordInv(r) /\ OpenInv(p) /\ WorkInv(p)
  BY DEF Known, Records
<1>2. /\ DOMAIN pc = Proc /\ DOMAIN lock = Record /\ DOMAIN dirs = Record /\ DOMAIN file = Proc
      /\ lock[r] \in LockFile
  BY <1>1 DEF TypeOK
<1>3. /\ pc[p] = "compare"
      /\ UNCHANGED <<want, tx, lock, indexLock, marker, log, record, receipts>>
      /\ Rec(p)' = r /\ base[p] \in Base
  BY <1>1 DEF Compare, locks, Rec, TypeOK, Base
<1>4. Clean(r, tx[p]) /\ lock[r].tx = tx[p] /\ lock[r].written /\ tx[p].ev \in Event
  BY <1>1, <1>3 DEF WorkInv, Unready, Locks, LockInv, Holding, Appending, Shape, CallShape, Reading, TypeOK
<1>5. CASE Superseded(p)
  <2>1. Same(r) /\ SameLock(r) /\ pc'[p] = "release"
    BY <1>2, <1>3, <1>5 DEF Compare, Goto, Throw, Same, SameLock
  <2>2. Clean(Rec(p), tx[p])'
    BY <1>3, <1>4, <2>1, HoldsStill
  <2> QED
    BY <2>1, <2>2, QuietRecord, KnowsClean DEF Unready
<1>6. CASE ~Superseded(p)
  <2>1. /\ record[r] = tx[p].pre /\ tx[p].ev \notin ToSet(log[r])
        /\ log[r] = Committed(r) /\ record[r] = Committed(r) /\ Settled(r)
    BY <1>4, <1>6 DEF Superseded, SeenEvent, Clean, Settled
  <2>2. Pending(r, tx[p])
    BY <2>1 DEF Pending
  <2>3. \A d \in dirs[r] : d.tx # tx[p]
    <3>1. marker[r] # tx[p]
      <4>1. tx[p].pre \in Seq(Event)
        BY <1>1 DEF TypeOK, Tx
      <4> QED
        BY <1>1, <1>4, <2>2, <4>1, CommittedTyped, Appends DEF Pending, Nxt
    <3> QED
      BY <1>4, <3>1 DEF Clean
  <2>4. Dirs(r, tx[p]) = {}
    BY <2>3 DEF Dirs
  <2>0. PICK new : new = Staging(tx[p], log[r], index, FALSE)
    OBVIOUS
  <2>5. /\ dirs'[r] = dirs[r] \cup {new} /\ pc'[p] = "stage"
        /\ base'[p] = [log |-> log[r], record |-> record[r], index |-> index]
    BY <1>1, <1>2, <1>6, <2>0, <2>4 DEF Compare, Goto, TypeOK
  <2>6. new.tx = tx[p] /\ new.log = log[r] /\ new.promoted = FALSE
    BY <2>0 DEF Staging
  <2>7. Committed(r)' = Committed(r)
    BY <1>3 DEF Committed
  <2>8. Settled(r)'
    BY <1>3, <2>1, <2>7 DEF Settled
  <2>9. \A d \in dirs[r] : (Kept(r, d) => Kept(r, d)') /\ (Made(r, d) => Made(r, d)')
    BY <1>3, <2>7 DEF Kept, Made, Pending
  <2>10. Made(r, new)'
    BY <1>3, <1>4, <2>2, <2>6, <2>7 DEF Made, Pending
  <2>11. RecordInv(r)'
    <3>1. \A d, c \in dirs'[r] : d.tx = c.tx => d = c
      BY <1>1, <2>3, <2>5, <2>6 DEF RecordInv
    <3>2. \A d \in dirs'[r] : d.log = d.tx.pre /\ (Kept(r, d)' \/ Made(r, d)')
      BY <1>1, <2>1, <2>5, <2>6, <2>9, <2>10 DEF RecordInv
    <3> QED
      BY <1>1, <1>3, <2>7, <2>8, <3>1, <3>2 DEF RecordInv
  <2>12. Pending(Rec(p), tx[p])'
    BY <1>3, <2>2, <2>7 DEF Pending
  <2>13. Based(p)'
    BY <1>3, <2>1, <2>5 DEF Based
  <2>14. Staged(Rec(p), tx[p], FALSE)'
    BY <1>3, <2>3, <2>5, <2>6 DEF Staged
  <2> QED
    BY <1>3, <2>5, <2>8, <2>11, <2>12, <2>13, <2>14 DEF OpenInv, WorkInv, Unready
<1> QED
  BY <1>5, <1>6

(* While a transaction is under way its directory may change, as long as   *)
(* what it can be restored from is still there.                            *)
LEMMA RedirectedRecord ==
  ASSUME NEW r \in Record, RecordInv(r),
         log'[r] = log[r], record'[r] = record[r], receipts'[r] = receipts[r],
         marker'[r] = marker[r], UNCHANGED <<lock, indexLock>>,
         lock[r].written, Pending(r, lock[r].tx),
         \A d \in dirs'[r] : d \in dirs[r] \/ (d.tx = lock[r].tx /\ d.log = d.tx.pre),
         \A d, c \in dirs'[r] : d.tx = c.tx => d = c,
         Settled(r) \/ \E d \in dirs'[r] : d.tx = lock[r].tx /\ d.whole
  PROVE  RecordInv(r)'
<1>1. Committed(r)' = Committed(r)
  BY DEF Committed
<1>2. \A d \in dirs'[r] : d.log = d.tx.pre /\ (Kept(r, d)' \/ Made(r, d)')
  BY <1>1 DEF RecordInv, Kept, Made, Pending
<1>3. Settled(r) => Settled(r)'
  BY <1>1 DEF Settled
<1>4. Torn(r) /\ (\E d \in dirs'[r] : d.tx = lock[r].tx /\ d.whole) => Torn(r)'
  BY <1>1 DEF Torn, Pending, Between, Nxt, Restorable, OwnsIndex, Indexes, Owned
<1> QED
  BY <1>1, <1>2, <1>3, <1>4 DEF RecordInv

(* What is known of a call under way.                                      *)
LEMMA UnderWay ==
  ASSUME Known, NEW p \in Proc, NEW r \in Record, r = Rec(p),
         pc[p] \in {"stage", "promote", "rename", "mark", "rollback", "dropPromoted",
                    "dropStaging", "undo", "clear"}
  PROVE  /\ lock[r].tx = tx[p] /\ lock[r].written /\ Pending(r, tx[p])
         /\ tx[p].pre \in Seq(Event)
         /\ tx[p].ev \in Event \cup Proc
         /\ pc[p] # "clear" => tx[p].ev \in Event
         /\ pc[p] \in {"stage", "promote", "rename", "mark", "rollback", "undo"} => OwnsIndex(tx[p])
         /\ pc[p] \in {"stage", "promote", "rename", "mark"} => OwnsLocks(p)
<1>1. /\ TypeOK /\ Shape /\ LockInv(p) /\ RecordInv(r) /\ WorkInv(p)
  BY DEF Known, Records, Locks
<1>2. Pending(r, tx[p])
  BY <1>1 DEF WorkInv
<1>3. lock[r].tx = tx[p] /\ lock[r].written
  BY <1>1 DEF LockInv, Holding, Appending, Recovery
<1>4. tx[p].pre \in Seq(Event)
  BY <1>1 DEF TypeOK, Tx
<1>5. /\ tx[p].ev \in Event \cup Proc
      /\ pc[p] # "clear" => tx[p].ev \in Event
  BY <1>1 DEF Shape, CallShape, Holding, Appending, Recovering, Recovery, Reading, TypeOK
<1>6. pc[p] \in {"stage", "promote", "rename", "mark", "rollback"} => OwnsIndex(tx[p])
  BY <1>1 DEF LockInv, Covering, OwnsIndex, Owned
<1>7. pc[p] = "undo" => OwnsIndex(tx[p])
  BY <1>1 DEF WorkInv
<1>8. Owned(lock[Rec(p)], tx[p])
  BY <1>3 DEF Owned
<1> QED
  BY <1>2, <1>3, <1>4, <1>5, <1>6, <1>7, <1>8 DEF OwnsLocks

(* The staged directory is complete, and holds the previous content.       *)
LEMMA StageOwn ==
  ASSUME Known, NEW p \in Proc, Act(p), NEW r \in Record, r = Rec(p), Stage(p)
  PROVE  RecordInv(r)' /\ OpenInv(p)' /\ WorkInv(p)'
<1>1. /\ TypeOK /\ Shape /\ Locks /\ RecordInv(r) /\ OpenInv(p) /\ WorkInv(p)
  BY DEF Known, Records
<1>2. /\ DOMAIN pc = Proc /\ DOMAIN lock = Record /\ DOMAIN dirs = Record /\ DOMAIN file = Proc
      /\ lock[r] \in LockFile
  BY <1>1 DEF TypeOK
<1>3. /\ pc[p] = "stage" /\ UNCHANGED <<want, tx, base, lock, indexLock, marker, log, record, receipts>>
      /\ Rec(p)' = r
  BY DEF Stage, locks, Rec
<1>4. /\ lock[r].tx = tx[p] /\ lock[r].written /\ Pending(r, tx[p]) /\ OwnsLocks(p)
  BY <1>3, UnderWay
<1>5. Settled(r) /\ Based(p) /\ Staged(r, tx[p], FALSE)
  BY <1>1, <1>3 DEF WorkInv
<1>6. PICK new : new = Staging(tx[p], base[p].log, base[p].index, TRUE)
  OBVIOUS
<1>7. new.tx = tx[p] /\ new.log = tx[p].pre /\ new.promoted = FALSE /\ new.whole = TRUE
  BY <1>5, <1>6 DEF Staging, Based
<1>8. {d \in Dirs(r, tx[p]) : ~d.promoted} = {d \in dirs[r] : d.tx = tx[p]}
  BY <1>5 DEF Staged, Dirs
<1>9. /\ dirs'[r] = (dirs[r] \ {d \in dirs[r] : d.tx = tx[p]}) \cup {new}
      /\ pc'[p] = "promote" /\ file'[p] = "log"
  BY <1>2, <1>4, <1>6, <1>8 DEF Stage, Goto
<1>10. RecordInv(r)'
  <2>1. \A d, c \in dirs'[r] : d.tx = c.tx => d = c
    BY <1>1, <1>7, <1>9 DEF RecordInv
  <2>2. \A d \in dirs'[r] : d \in dirs[r] \/ (d.tx = lock[r].tx /\ d.log = d.tx.pre)
    BY <1>4, <1>7, <1>9
  <2> QED
    BY <1>1, <1>3, <1>4, <1>5, <2>1, <2>2, RedirectedRecord
<1>11. Pending(Rec(p), tx[p])' /\ Based(p)'
  BY <1>3, <1>4, <1>5 DEF Pending, Committed, Based
<1>12. Staged(Rec(p), tx[p], FALSE)' /\ Restorable(Rec(p), tx[p])'
  BY <1>3, <1>7, <1>9 DEF Staged, Restorable
<1>13. Advanced(Rec(p), tx[p], file[p])'
  BY <1>9 DEF Advanced
<1> QED
  BY <1>9, <1>10, <1>11, <1>12, <1>13 DEF OpenInv, WorkInv, Unready

(* The directory that is renamed is still the one to restore from.         *)
LEMMA RenameOwn ==
  ASSUME Known, NEW p \in Proc, Act(p), NEW r \in Record, r = Rec(p), Rename(p)
  PROVE  RecordInv(r)' /\ OpenInv(p)' /\ WorkInv(p)'
<1>1. /\ TypeOK /\ Shape /\ Locks /\ RecordInv(r) /\ OpenInv(p) /\ WorkInv(p)
  BY DEF Known, Records
<1>2. /\ DOMAIN pc = Proc /\ DOMAIN lock = Record /\ DOMAIN dirs = Record /\ DOMAIN file = Proc
      /\ lock[r] \in LockFile
  BY <1>1 DEF TypeOK
<1>3. /\ pc[p] = "rename" /\ UNCHANGED <<want, tx, base, lock, indexLock, marker, log, record, receipts>>
      /\ Rec(p)' = r
  BY DEF Rename, locks, Rec
<1>4. /\ lock[r].tx = tx[p] /\ lock[r].written /\ Pending(r, tx[p])
  BY <1>3, UnderWay
<1>5. Based(p) /\ Staged(r, tx[p], FALSE) /\ Restorable(r, tx[p]) /\ Advanced(r, tx[p], "end")
  BY <1>1, <1>3 DEF WorkInv
<1>6. Pending(Rec(p), tx[p])' /\ Based(p)'
  BY <1>3, <1>4, <1>5 DEF Pending, Committed, Based
<1>7. CASE dirs' = dirs /\ pc'[p] = "rollback" /\ file'[p] = "record"
  <2>1. Same(r) /\ SameLock(r)
    BY <1>3, <1>7 DEF Same, SameLock
  <2>2. Restorable(Rec(p), tx[p])' /\ Restored(Rec(p), tx[p], file[p])'
    BY <1>3, <1>5, <1>7 DEF Restorable, Restored
  <2> QED
    BY <1>6, <1>7, <2>1, <2>2, QuietRecord DEF OpenInv, WorkInv, Unready
<1>8. ASSUME NEW staged, staged = {d \in Dirs(Rec(p), tx[p]) : ~d.promoted},
             dirs'[r] = (dirs[r] \ staged) \cup {[d EXCEPT !.promoted = TRUE] : d \in staged},
             pc'[p] = "mark"
      PROVE  RecordInv(r)' /\ OpenInv(p)' /\ WorkInv(p)'
  <2>1. staged = {d \in dirs[r] : d.tx = tx[p]}
    BY <1>5, <1>8 DEF Staged, Dirs
  <2>2. PICK d \in dirs[r] : d.tx = tx[p] /\ d.whole
    BY <1>5 DEF Restorable
  <2>3. staged = {d} /\ d \in Dir
    BY <1>1, <2>1, <2>2 DEF RecordInv, TypeOK
  <2>4. PICK new : new = [d EXCEPT !.promoted = TRUE]
    OBVIOUS
  <2>5. new.tx = tx[p] /\ new.log = d.log /\ new.promoted /\ new.whole = d.whole
    BY <2>2, <2>3, <2>4 DEF Dir
  <2>6. dirs'[r] = (dirs[r] \ {d}) \cup {new}
    BY <1>8, <2>3, <2>4
  <2>7. RecordInv(r)'
    <3>1. d.log = tx[p].pre
      BY <1>1, <2>2 DEF RecordInv
    <3>2. \A a, b \in dirs'[r] : a.tx = b.tx => a = b
      BY <1>1, <2>2, <2>5, <2>6 DEF RecordInv
    <3>3. \A a \in dirs'[r] : a \in dirs[r] \/ (a.tx = lock[r].tx /\ a.log = a.tx.pre)
      BY <1>4, <2>5, <2>6, <3>1
    <3>4. \E a \in dirs'[r] : a.tx = lock[r].tx /\ a.whole
      BY <1>4, <2>2, <2>5, <2>6
    <3> QED
      BY <1>1, <1>3, <1>4, <3>2, <3>3, <3>4, RedirectedRecord
  <2>8. Restorable(Rec(p), tx[p])'
    BY <1>3, <2>2, <2>5, <2>6 DEF Restorable
  <2>9. Staged(Rec(p), tx[p], TRUE)'
    <3>1. \A a \in dirs[r] : a.tx = tx[p] => a = d
      BY <1>1, <2>2 DEF RecordInv
    <3>2. new.promoted = TRUE
      BY <2>3, <2>4 DEF Dir
    <3> QED
      BY <1>3, <2>5, <2>6, <3>1, <3>2 DEF Staged
  <2>10. Advanced(Rec(p), tx[p], "end")'
    BY <1>3, <1>5 DEF Advanced, Nxt
  <2> QED
    BY <1>6, <1>8, <2>7, <2>8, <2>9, <2>10 DEF OpenInv, WorkInv, Unready
<1> QED
  BY <1>2, <1>7, <1>8 DEF Rename, Undone, Throw, Goto

(* Removing a directory takes it apart before it takes it away.            *)
LEMMA RemovedRecord ==
  ASSUME Known, NEW p \in Proc, NEW r \in Record, r = Rec(p), NEW old \in SUBSET dirs[r],
         \A d \in old : d.tx = tx[p], NEW then, RemoveDir(p, old, then),
         pc[p] \in {"dropPromoted", "dropStaging", "clear"}, Settled(r),
         UNCHANGED <<want, tx, lock, indexLock, marker, log, record, receipts>>
  PROVE  /\ RecordInv(r)' /\ Rec(p)' = r /\ Settled(Rec(p))' /\ Pending(Rec(p), tx[p])'
         /\ \A d \in dirs'[r] : (\E c \in dirs[r] : d.tx = c.tx /\ d.promoted = c.promoted)
         /\ pc' = pc \/ (pc'[p] = then /\ dirs'[r] = dirs[r] \ old)
<1>1. /\ TypeOK /\ Shape /\ Locks /\ RecordInv(r) /\ OpenInv(p) /\ WorkInv(p)
  BY DEF Known, Records
<1>2. /\ DOMAIN pc = Proc /\ DOMAIN lock = Record /\ DOMAIN dirs = Record /\ DOMAIN file = Proc
      /\ lock[r] \in LockFile
  BY <1>1 DEF TypeOK
<1>3. /\ lock[r].tx = tx[p] /\ lock[r].written /\ Pending(r, tx[p])
  BY UnderWay
<1>4. \A d \in old : /\ [d EXCEPT !.whole = FALSE].tx = d.tx
                     /\ [d EXCEPT !.whole = FALSE].log = d.log
                     /\ [d EXCEPT !.whole = FALSE].promoted = d.promoted
  BY <1>1 DEF TypeOK, Dir
<1>5. \/ dirs'[r] = dirs[r] \ old /\ pc'[p] = then
      \/ dirs'[r] = (dirs[r] \ old) \cup {[d EXCEPT !.whole = FALSE] : d \in old} /\ pc' = pc
  BY <1>2 DEF RemoveDir, Goto
<1>6. /\ \A d \in dirs'[r] : d \in dirs[r] \/ (d.tx = lock[r].tx /\ d.log = d.tx.pre)
      /\ \A d, c \in dirs'[r] : d.tx = c.tx => d = c
      /\ \A d \in dirs'[r] : (\E c \in dirs[r] : d.tx = c.tx /\ d.promoted = c.promoted)
  <2>1. CASE dirs'[r] = dirs[r] \ old
    BY <1>1, <2>1 DEF RecordInv
  <2>2. CASE dirs'[r] = (dirs[r] \ old) \cup {[d EXCEPT !.whole = FALSE] : d \in old}
    <3>1. \A d \in dirs'[r] : d \in dirs[r] \ old \/ \E c \in old : d = [c EXCEPT !.whole = FALSE]
      BY <2>2
    <3>2. ASSUME NEW d \in dirs'[r], d \notin dirs[r] \ old
          PROVE  \E c \in old : /\ d = [c EXCEPT !.whole = FALSE] /\ d.tx = tx[p]
                                /\ d.log = d.tx.pre /\ d.promoted = c.promoted
      <4>1. PICK c \in old : d = [c EXCEPT !.whole = FALSE]
        BY <3>1, <3>2
      <4>2. c.tx = tx[p] /\ c.log = c.tx.pre
        BY <1>1 DEF RecordInv
      <4> QED
        BY <1>4, <4>1, <4>2
    <3>3. \A d, c \in old : d = c
      BY <1>1 DEF RecordInv
    <3>4. \A d \in dirs[r] \ old, c \in old : d.tx # tx[p] /\ d.tx # c.tx
      BY <1>1 DEF RecordInv
    <3>5. ASSUME NEW d \in dirs'[r], NEW c \in dirs'[r], d.tx = c.tx PROVE d = c
      <4>1. CASE d \in dirs[r] \ old /\ c \in dirs[r] \ old
        BY <1>1, <3>5, <4>1 DEF RecordInv
      <4>2. CASE d \in dirs[r] \ old /\ c \notin dirs[r] \ old
        BY <3>2, <3>4, <3>5, <4>2
      <4>3. CASE d \notin dirs[r] \ old /\ c \in dirs[r] \ old
        BY <3>2, <3>4, <3>5, <4>3
      <4>4. CASE d \notin dirs[r] \ old /\ c \notin dirs[r] \ old
        <5>1. PICK a \in old : d = [a EXCEPT !.whole = FALSE]
          BY <3>2, <4>4
        <5>2. PICK b \in old : c = [b EXCEPT !.whole = FALSE]
          BY <3>2, <4>4
        <5>3. a = b
          BY <3>3
        <5> QED
          BY <5>1, <5>2, <5>3
      <4> QED
        BY <4>1, <4>2, <4>3, <4>4
    <3>6. \A d \in dirs'[r] : d \in dirs[r] \/ (d.tx = lock[r].tx /\ d.log = d.tx.pre)
      BY <1>3, <3>2
    <3>7. \A d \in dirs'[r] : (\E c \in dirs[r] : d.tx = c.tx /\ d.promoted = c.promoted)
      BY <3>2
    <3> QED
      BY <3>5, <3>6, <3>7
  <2> QED
    BY <1>5, <2>1, <2>2
<1>7. RecordInv(r)'
  BY <1>1, <1>3, <1>6, RedirectedRecord
<1>8. Rec(p)' = r /\ Committed(Rec(p))' = Committed(r)
  BY DEF Rec, Committed
<1>9. Settled(Rec(p))' /\ Pending(Rec(p), tx[p])'
  BY <1>3, <1>8 DEF Settled, Pending
<1> QED
  BY <1>5, <1>6, <1>7, <1>8, <1>9

(* A call that gave up removes the promoted directory, when all its files  *)
(* are restored.                                                           *)
LEMMA DropPromotedOwn ==
  ASSUME Known, NEW p \in Proc, Act(p), NEW r \in Record, r = Rec(p), DropPromoted(p)
  PROVE  RecordInv(r)' /\ OpenInv(p)' /\ WorkInv(p)'
<1>1. /\ TypeOK /\ Shape /\ Locks /\ RecordInv(r) /\ OpenInv(p) /\ WorkInv(p)
  BY DEF Known, Records
<1>2. /\ DOMAIN pc = Proc /\ DOMAIN lock = Record /\ DOMAIN dirs = Record /\ DOMAIN file = Proc
      /\ lock[r] \in LockFile
  BY <1>1 DEF TypeOK
<1>3. PICK old : old = {d \in Dirs(Rec(p), tx[p]) : d.promoted}
  OBVIOUS
<1>4. /\ pc[p] = "dropPromoted" /\ RemoveDir(p, old, "dropStaging")
      /\ UNCHANGED <<want, tx, lock, indexLock, marker, log, record, receipts>>
      /\ old \in SUBSET dirs[r] /\ \A d \in old : d.tx = tx[p]
  BY <1>3 DEF DropPromoted, Dirs, locks
<1>5. Settled(r)
  BY <1>1, <1>4 DEF WorkInv
<1>6. /\ RecordInv(r)' /\ Rec(p)' = r /\ Settled(Rec(p))' /\ Pending(Rec(p), tx[p])'
      /\ pc' = pc \/ (pc'[p] = "dropStaging" /\ dirs'[r] = dirs[r] \ old)
  BY <1>4, <1>5, RemovedRecord
<1>7. CASE pc' = pc
  BY <1>4, <1>6, <1>7 DEF OpenInv, WorkInv, Unready
<1>8. CASE pc'[p] = "dropStaging" /\ dirs'[r] = dirs[r] \ old
  <2>1. \A d \in dirs'[r] : d.tx = tx[p] => ~d.promoted /\ d \in Dir
    BY <1>1, <1>3, <1>8 DEF Dirs, TypeOK
  <2>2. Staged(Rec(p), tx[p], FALSE)'
    BY <1>4, <1>6, <2>1 DEF Staged, Dir
  <2> QED
    BY <1>6, <1>8, <2>2 DEF OpenInv, WorkInv, Unready
<1> QED
  BY <1>6, <1>7, <1>8

(* And the staging directory: then the record is clean.                    *)
LEMMA DropStagingOwn ==
  ASSUME Known, NEW p \in Proc, Act(p), NEW r \in Record, r = Rec(p), DropStaging(p)
  PROVE  RecordInv(r)' /\ OpenInv(p)' /\ WorkInv(p)'
<1>1. /\ TypeOK /\ Shape /\ Locks /\ RecordInv(r) /\ OpenInv(p) /\ WorkInv(p)
  BY DEF Known, Records
<1>2. /\ DOMAIN pc = Proc /\ DOMAIN lock = Record /\ DOMAIN dirs = Record /\ DOMAIN file = Proc
      /\ lock[r] \in LockFile
  BY <1>1 DEF TypeOK
<1>3. PICK old : old = {d \in Dirs(Rec(p), tx[p]) : ~d.promoted}
  OBVIOUS
<1>4. /\ pc[p] = "dropStaging" /\ RemoveDir(p, old, "release")
      /\ UNCHANGED <<want, tx, lock, indexLock, marker, log, record, receipts>>
      /\ old \in SUBSET dirs[r] /\ \A d \in old : d.tx = tx[p]
  BY <1>3 DEF DropStaging, Dirs, locks
<1>5. Settled(r) /\ Staged(r, tx[p], FALSE)
  BY <1>1, <1>4 DEF WorkInv
<1>6. /\ RecordInv(r)' /\ Rec(p)' = r /\ Settled(Rec(p))' /\ Pending(Rec(p), tx[p])'
      /\ \A d \in dirs'[r] : (\E c \in dirs[r] : d.tx = c.tx /\ d.promoted = c.promoted)
      /\ pc' = pc \/ (pc'[p] = "release" /\ dirs'[r] = dirs[r] \ old)
  BY <1>4, <1>5, RemovedRecord
<1>7. CASE pc' = pc
  <2>1. Staged(Rec(p), tx[p], FALSE)'
    BY <1>4, <1>5, <1>6 DEF Staged
  <2> QED
    BY <1>4, <1>6, <1>7, <2>1 DEF OpenInv, WorkInv, Unready
<1>8. CASE pc'[p] = "release" /\ dirs'[r] = dirs[r] \ old
  <2>1. \A d \in dirs'[r] : d.tx # tx[p]
    BY <1>3, <1>5, <1>8 DEF Dirs, Staged
  <2>2. Clean(Rec(p), tx[p])'
    BY <1>4, <1>6, <2>1 DEF Clean
  <2> QED
    BY <1>6, <1>8, <2>2, KnowsClean DEF Unready
<1> QED
  BY <1>6, <1>7, <1>8

(* A recovery that went back removes the directory it restored from.       *)
LEMMA ClearOwn ==
  ASSUME Known, NEW p \in Proc, Act(p), NEW r \in Record, r = Rec(p), Clear(p)
  PROVE  RecordInv(r)' /\ OpenInv(p)' /\ WorkInv(p)'
<1>1. /\ TypeOK /\ Shape /\ Locks /\ RecordInv(r) /\ OpenInv(p) /\ WorkInv(p)
  BY DEF Known, Records
<1>2. /\ DOMAIN pc = Proc /\ DOMAIN lock = Record /\ DOMAIN dirs = Record /\ DOMAIN file = Proc
      /\ lock[r] \in LockFile
  BY <1>1 DEF TypeOK
<1>3. PICK old : old = RecoveryDirs(Rec(p), tx[p])
  OBVIOUS
<1>4. /\ pc[p] = "clear" /\ RemoveDir(p, old, "settle")
      /\ UNCHANGED <<want, tx, lock, indexLock, marker, log, record, receipts>>
      /\ old \in SUBSET dirs[r] /\ \A d \in old : d.tx = tx[p]
  BY <1>3 DEF Clear, Dirs, RecoveryDirs, locks
<1>5. Settled(r)
  BY <1>1, <1>4 DEF WorkInv
<1>6. /\ RecordInv(r)' /\ Rec(p)' = r /\ Settled(Rec(p))' /\ Pending(Rec(p), tx[p])'
      /\ pc' = pc \/ (pc'[p] = "settle" /\ dirs'[r] = dirs[r] \ old)
  BY <1>4, <1>5, RemovedRecord
<1>7. CASE pc' = pc
  BY <1>4, <1>6, <1>7 DEF OpenInv, WorkInv, Unready
<1>8. CASE pc'[p] = "settle" /\ dirs'[r] = dirs[r] \ old
  <2>1. \A d \in dirs[r] : d.tx = tx[p] => d \in old
    BY <1>1, <1>3 DEF Dirs, RecoveryDirs, RecordInv
  <2>2. Clean(Rec(p), tx[p])'
    BY <1>4, <1>6, <1>8, <2>1 DEF Clean
  <2> QED
    BY <1>6, <1>8, <2>2, KnowsClean DEF Unready
<1> QED
  BY <1>6, <1>7, <1>8

(* The commit: every file has its next content, and the directory stays.   *)
LEMMA MarkOwn ==
  ASSUME Known, NEW p \in Proc, Act(p), NEW r \in Record, r = Rec(p), Mark(p)
  PROVE  RecordInv(r)' /\ OpenInv(p)' /\ WorkInv(p)'
<1>1. /\ TypeOK /\ Shape /\ Locks /\ RecordInv(r) /\ OpenInv(p) /\ WorkInv(p)
  BY DEF Known, Records
<1>2. /\ DOMAIN pc = Proc /\ DOMAIN lock = Record /\ DOMAIN dirs = Record /\ DOMAIN file = Proc
      /\ lock[r] \in LockFile
  BY <1>1 DEF TypeOK
<1>3. pc[p] = "mark"
  BY DEF Mark
<1>4. /\ lock[r].tx = tx[p] /\ lock[r].written /\ Pending(r, tx[p]) /\ OwnsLocks(p)
      /\ tx[p].pre \in Seq(Event) /\ tx[p].ev \in Event
  BY <1>3, UnderWay
<1>5. /\ UNCHANGED <<want, tx, lock, log, record, receipts, dirs>> /\ marker'[r] = tx[p]
      /\ pc'[p] = "release" /\ Rec(p)' = r
  BY <1>1, <1>2, <1>4 DEF Mark, Goto, locks, Rec, TypeOK
<1>6. Staged(r, tx[p], TRUE) /\ Restorable(r, tx[p]) /\ Advanced(r, tx[p], "end")
  BY <1>1, <1>3 DEF WorkInv
<1>7. Committed(r)' = Nxt(tx[p]) /\ Committed(Rec(p))' = Nxt(tx[p])
  BY <1>4, <1>5, StoreAssumption DEF Committed, Nxt, NoTx
<1>8. ToSet(Nxt(tx[p])) = ToSet(Committed(r)) \cup {tx[p].ev} /\ tx[p].ev \notin ToSet(tx[p].pre)
  BY <1>4, Appends DEF Nxt, Pending
<1>9. Settled(r)' /\ Settled(Rec(p))'
  BY <1>4, <1>5, <1>6, <1>7, <1>8 DEF Settled, Advanced, Pending
<1>10. \A d \in dirs[r] : Kept(r, d)'
  <2> TAKE d \in dirs[r]
  <2>1. CASE Kept(r, d)
    BY <1>7, <1>8, <2>1 DEF Kept
  <2>2. CASE Made(r, d)
    <3>1. d.tx = tx[p]
      BY <1>4, <2>2 DEF Made
    <3>2. d.promoted /\ d.whole
      BY <1>1, <1>6, <3>1 DEF Staged, Restorable, RecordInv
    <3> QED
      BY <1>7, <1>8, <3>1, <3>2 DEF Kept
  <2> QED
    BY <1>1, <2>1, <2>2 DEF RecordInv
<1>11. RecordInv(r)'
  BY <1>1, <1>4, <1>5, <1>9, <1>10 DEF RecordInv
<1>12. Clean(Rec(p), tx[p])'
  BY <1>5, <1>9 DEF Clean
<1> QED
  BY <1>5, <1>11, <1>12, KnowsClean DEF Unready

(* What writing the next, or the previous, content of a file leaves.       *)
LEMMA NextWritten ==
  ASSUME TypeOK, NEW p \in Proc, NEW r \in Record, tx[p].rec = r, Based(p),
         NEW f \in Writable, WriteNext(p, f)
  PROVE  /\ log'[r] = IF f = "log" THEN Nxt(tx[p]) ELSE log[r]
         /\ record'[r] = IF f = "record" THEN Nxt(tx[p]) ELSE record[r]
         /\ receipts'[r] = IF f = "receipt" THEN receipts[r] \cup {tx[p].ev} ELSE receipts[r]
<1>1. DOMAIN log = Record /\ DOMAIN record = Record /\ DOMAIN receipts = Record
  BY DEF TypeOK
<1> QED
  BY <1>1 DEF WriteNext, Based, Nxt

(* And the previous content of a file.                                     *)
LEMMA PreviousWritten ==
  ASSUME TypeOK, NEW p \in Proc, NEW r \in Record, tx[p].rec = r, Based(p),
         NEW f \in Writable, WritePrevious(p, f)
  PROVE  /\ log'[r] = IF f = "log" THEN tx[p].pre ELSE log[r]
         /\ record'[r] = IF f = "record" THEN tx[p].pre ELSE record[r]
         /\ receipts'[r] = IF f = "receipt" THEN receipts[r] \ {tx[p].ev} ELSE receipts[r]
<1>1. DOMAIN log = Record /\ DOMAIN record = Record /\ DOMAIN receipts = Record
  BY DEF TypeOK
<1> QED
  BY <1>1 DEF WritePrevious, Based

(* A record is torn while its files are written, and can be restored.      *)
LEMMA WrittenRecord ==
  ASSUME NEW r \in Record, RecordInv(r), UNCHANGED <<dirs, marker, lock, indexLock>>,
         NEW t, lock[r].tx = t, lock[r].written, Pending(r, t), Restorable(r, t), OwnsIndex(t),
         log'[r] \in {t.pre, Nxt(t)}, record'[r] \in {t.pre, Nxt(t)},
         receipts'[r] \in {ToSet(t.pre), ToSet(t.pre) \cup {t.ev}}
  PROVE  RecordInv(r)'
<1>1. Committed(r)' = Committed(r)
  BY DEF Committed
<1>2. \A d \in dirs[r] : (Kept(r, d) => Kept(r, d)') /\ (Made(r, d) => Made(r, d)')
  BY <1>1 DEF Kept, Made, Pending
<1>3. Torn(r)'
  BY <1>1 DEF Torn, Pending, Between, Restorable, OwnsIndex, Indexes, Owned, Nxt
<1> QED
  BY <1>1, <1>2, <1>3 DEF RecordInv

(* Promoting one file after the other leads from the previous record to    *)
(* the next; in between it is torn.                                        *)
LEMMA PromoteOwn ==
  ASSUME Known, NEW p \in Proc, Act(p), NEW r \in Record, r = Rec(p), Promote(p)
  PROVE  RecordInv(r)' /\ OpenInv(p)' /\ WorkInv(p)'
<1>1. /\ TypeOK /\ Shape /\ Locks /\ RecordInv(r) /\ OpenInv(p) /\ WorkInv(p)
  BY DEF Known, Records
<1>2. /\ DOMAIN pc = Proc /\ DOMAIN lock = Record /\ DOMAIN dirs = Record /\ DOMAIN file = Proc
      /\ lock[r] \in LockFile
  BY <1>1 DEF TypeOK
<1>3. /\ pc[p] = "promote" /\ UNCHANGED <<dirs, marker, lock, indexLock, want, tx, base>>
      /\ Rec(p)' = r
  BY DEF Promote, locks, Rec
<1>4. /\ lock[r].tx = tx[p] /\ lock[r].written /\ Pending(r, tx[p]) /\ OwnsLocks(p)
      /\ OwnsIndex(tx[p]) /\ tx[p].ev \in Event
  BY <1>3, UnderWay
<1>5. Based(p) /\ Staged(r, tx[p], FALSE) /\ Restorable(r, tx[p]) /\ Advanced(r, tx[p], file[p])
  BY <1>1, <1>3 DEF WorkInv
<1>6. Between(r, tx[p])
  BY <1>4, TornOrSettled
<1>7. file[p] \in Writable /\ tx[p].rec = r
  BY <1>1, <1>3 DEF Shape, CallShape, Holding, Appending
<1>8. WriteNext(p, file[p]) /\ Advance(p, Forth, "rename")
  BY <1>4 DEF Promote
<1>9. /\ log'[r] = IF file[p] = "log" THEN Nxt(tx[p]) ELSE log[r]
      /\ record'[r] = IF file[p] = "record" THEN Nxt(tx[p]) ELSE record[r]
      /\ receipts'[r] = IF file[p] = "receipt" THEN receipts[r] \cup {tx[p].ev} ELSE receipts[r]
  BY <1>1, <1>5, <1>7, <1>8, NextWritten
<1>10. RecordInv(r)'
  BY <1>1, <1>3, <1>4, <1>5, <1>6, <1>9, WrittenRecord DEF Between
<1>11. /\ file'[p] = Forth[file[p]]
       /\ pc'[p] = IF Forth[file[p]] = "end" THEN "rename" ELSE "promote"
  BY <1>2, <1>3, <1>8 DEF Advance, Goto
<1>12. Advanced(Rec(p), tx[p], file[p])'
  <2>1. \/ file[p] = "log" /\ file'[p] = "record"
        \/ file[p] = "record" /\ file'[p] = "receipt"
        \/ file[p] = "receipt" /\ file'[p] = "index"
        \/ file[p] = "index" /\ file'[p] = "end"
    BY <1>7, <1>11, Orders DEF Writable
  <2> QED
    BY <1>3, <1>5, <1>6, <1>9, <2>1 DEF Advanced, Between, Nxt
<1>13. pc'[p] = "promote" \/ (pc'[p] = "rename" /\ file'[p] = "end")
  BY <1>11
<1>14. Pending(Rec(p), tx[p])' /\ Based(p)' /\ Staged(Rec(p), tx[p], FALSE)' /\ Restorable(Rec(p), tx[p])'
  BY <1>3, <1>4, <1>5 DEF Pending, Committed, Based, Staged, Restorable
<1>15. file'[p] = "end" => Advanced(Rec(p), tx[p], "end")'
  BY <1>12 DEF Advanced
<1> QED
  BY <1>10, <1>12, <1>13, <1>14, <1>15 DEF OpenInv, WorkInv, Unready

(* One file restored, in the order that restores the record first.         *)
LEMMA RestoreStep ==
  ASSUME Known, NEW p \in Proc, NEW r \in Record, r = Rec(p), pc[p] \in {"rollback", "undo"},
         WritePrevious(p, file[p]), UNCHANGED <<dirs, marker, lock, indexLock, want, tx, base>>,
         NEW then, Advance(p, Back, then)
  PROVE  /\ RecordInv(r)' /\ Rec(p)' = r /\ Pending(Rec(p), tx[p])'
         /\ \/ /\ pc' = pc /\ Restored(Rec(p), tx[p], file[p])' /\ Based(p)'
               /\ Restorable(Rec(p), tx[p])'
            \/ pc'[p] = then /\ Settled(Rec(p))'
<1>1. /\ TypeOK /\ Shape /\ Locks /\ RecordInv(r) /\ OpenInv(p) /\ WorkInv(p)
  BY DEF Known, Records
<1>2. /\ DOMAIN pc = Proc /\ DOMAIN lock = Record /\ DOMAIN dirs = Record /\ DOMAIN file = Proc
      /\ lock[r] \in LockFile
  BY <1>1 DEF TypeOK
<1>3. Rec(p)' = r
  BY DEF Rec
<1>4. /\ lock[r].tx = tx[p] /\ lock[r].written /\ Pending(r, tx[p])
      /\ OwnsIndex(tx[p]) /\ tx[p].ev \in Event /\ tx[p].ev \notin ToSet(tx[p].pre)
  BY UnderWay DEF Pending
<1>5. Based(p) /\ Restorable(r, tx[p]) /\ Restored(r, tx[p], file[p])
  BY <1>1 DEF WorkInv
<1>6. Between(r, tx[p])
  BY <1>4, TornOrSettled
<1>7. file[p] \in Writable /\ tx[p].rec = r
  BY <1>1 DEF Shape, CallShape, Holding, Appending, Recovering, Recovery
<1>8. /\ log'[r] = IF file[p] = "log" THEN tx[p].pre ELSE log[r]
      /\ record'[r] = IF file[p] = "record" THEN tx[p].pre ELSE record[r]
      /\ receipts'[r] = IF file[p] = "receipt" THEN receipts[r] \ {tx[p].ev} ELSE receipts[r]
  BY <1>1, <1>5, <1>7, PreviousWritten
<1>9. file[p] = "receipt" => receipts'[r] = ToSet(tx[p].pre)
  BY <1>4, <1>6, <1>8 DEF Between
<1>10. RecordInv(r)'
  BY <1>1, <1>4, <1>5, <1>6, <1>8, <1>9, WrittenRecord DEF Between
<1>11. Pending(Rec(p), tx[p])' /\ Based(p)' /\ Restorable(Rec(p), tx[p])'
  BY <1>3, <1>4, <1>5 DEF Pending, Committed, Based, Restorable
<1>12. CASE file[p] # "index"
  <2>1. Back[file[p]] # "end" /\ file'[p] = Back[file[p]]
    BY <1>2, <1>7, <1>12, Orders DEF Writable, Advance
  <2>2. pc' = pc
    BY <2>1 DEF Advance
  <2>3. \/ file[p] = "record" /\ file'[p] = "log"
        \/ file[p] = "log" /\ file'[p] = "receipt"
        \/ file[p] = "receipt" /\ file'[p] = "index"
    BY <1>7, <1>12, <2>1, Orders DEF Writable
  <2>4. Restored(Rec(p), tx[p], file[p])'
    BY <1>3, <1>5, <1>8, <1>9, <2>3 DEF Restored
  <2> QED
    BY <1>3, <1>10, <1>11, <2>2, <2>4
<1>13. CASE file[p] = "index"
  <2>1. pc'[p] = then
    BY <1>2, <1>13, Orders DEF Advance, Goto
  <2>2. Committed(Rec(p))' = tx[p].pre
    BY <1>3, <1>4 DEF Committed, Pending
  <2>3. Settled(Rec(p))'
    BY <1>3, <1>5, <1>8, <1>13, <2>2 DEF Settled, Restored
  <2> QED
    BY <1>3, <1>10, <1>11, <2>1, <2>3
<1> QED
  BY <1>12, <1>13

(* A call that gives up leads back from there to the previous record.      *)
LEMMA RollbackOwn ==
  ASSUME Known, NEW p \in Proc, Act(p), NEW r \in Record, r = Rec(p), Rollback(p)
  PROVE  RecordInv(r)' /\ OpenInv(p)' /\ WorkInv(p)'
<1>1. /\ pc[p] = "rollback" /\ UNCHANGED <<dirs, marker, lock, indexLock, want, tx, base>>
      /\ WritePrevious(p, file[p]) /\ Advance(p, Back, "dropPromoted")
  BY DEF Rollback, locks
<1>2. /\ RecordInv(r)' /\ Pending(Rec(p), tx[p])'
      /\ \/ /\ pc' = pc /\ Restored(Rec(p), tx[p], file[p])' /\ Based(p)'
            /\ Restorable(Rec(p), tx[p])'
         \/ pc'[p] = "dropPromoted" /\ Settled(Rec(p))'
  BY <1>1, RestoreStep
<1> QED
  BY <1>1, <1>2 DEF OpenInv, WorkInv, Unready

(* A recovery that goes back does the same for a dead owner.               *)
LEMMA UndoOwn ==
  ASSUME Known, NEW p \in Proc, Act(p), NEW r \in Record, r = Rec(p), Undo(p)
  PROVE  RecordInv(r)' /\ OpenInv(p)' /\ WorkInv(p)'
<1>1. pc[p] = "undo" /\ UNCHANGED <<dirs, marker, lock, indexLock, want, tx, base>>
  BY DEF Undo, locks
<1>2. WorkInv(p)
  BY DEF Known, Records
<1>3. \E d \in Dirs(Rec(p), tx[p]) : d.whole
  BY <1>1, <1>2 DEF WorkInv, Restorable, Dirs
<1>4. WritePrevious(p, file[p]) /\ Advance(p, Back, "clear")
  BY <1>3 DEF Undo
<1>5. /\ RecordInv(r)' /\ Pending(Rec(p), tx[p])' /\ Rec(p)' = r
      /\ \/ /\ pc' = pc /\ Restored(Rec(p), tx[p], file[p])' /\ Based(p)'
            /\ Restorable(Rec(p), tx[p])'
         \/ pc'[p] = "clear" /\ Settled(Rec(p))'
  BY <1>1, <1>4, RestoreStep
<1>6. OwnsIndex(tx[p])'
  BY <1>1, <1>2 DEF WorkInv, OwnsIndex, Indexes, Owned
<1> QED
  BY <1>1, <1>5, <1>6 DEF OpenInv, WorkInv, Unready

(* Writing a committed transaction again writes what is there.             *)
LEMMA RedoOwn ==
  ASSUME Known, NEW p \in Proc, Act(p), NEW r \in Record, r = Rec(p), Redo(p)
  PROVE  RecordInv(r)' /\ OpenInv(p)' /\ WorkInv(p)'
<1>1. /\ TypeOK /\ Shape /\ Locks /\ RecordInv(r) /\ OpenInv(p) /\ WorkInv(p)
  BY DEF Known, Records
<1>2. /\ DOMAIN pc = Proc /\ DOMAIN lock = Record /\ DOMAIN dirs = Record /\ DOMAIN file = Proc
      /\ lock[r] \in LockFile
  BY <1>1 DEF TypeOK
<1>3. /\ pc[p] = "redo" /\ UNCHANGED <<dirs, marker, lock, indexLock, want, tx, base>>
      /\ WriteNext(p, file[p]) /\ Advance(p, Forth, "settle") /\ Rec(p)' = r
  BY DEF Redo, locks, Rec
<1>4. Based(p) /\ Settled(r) /\ marker[r] = tx[p] /\ OwnsIndex(tx[p])
  BY <1>1, <1>3 DEF WorkInv
<1>5. file[p] \in Writable /\ tx[p].rec = r /\ tx[p].ev \in Event /\ tx[p].pre \in Seq(Event)
  BY <1>1, <1>3 DEF Shape, CallShape, Recovering, Recovery, TypeOK, Tx
<1>6. Committed(r) = Nxt(tx[p]) /\ ToSet(Committed(r)) = ToSet(Committed(r)) \cup {tx[p].ev}
  <2>1. Committed(r) = Nxt(tx[p])
    BY <1>1, <1>4, <1>5, CommittedTyped
  <2>2. ToSet(Nxt(tx[p])) = ToSet(tx[p].pre) \cup {tx[p].ev}
    BY <1>5, Appends DEF Nxt
  <2> QED
    BY <2>1, <2>2
<1>7. /\ log'[r] = IF file[p] = "log" THEN Nxt(tx[p]) ELSE log[r]
      /\ record'[r] = IF file[p] = "record" THEN Nxt(tx[p]) ELSE record[r]
      /\ receipts'[r] = IF file[p] = "receipt" THEN receipts[r] \cup {tx[p].ev} ELSE receipts[r]
  <2>1. TypeOK /\ tx[p].rec = r /\ Based(p) /\ file[p] \in Writable /\ WriteNext(p, file[p])
    BY <1>1, <1>3, <1>4, <1>5
  <2> QED
    BY <2>1, NextWritten
<1>8. Same(r) /\ SameLock(r)
  BY <1>3, <1>4, <1>6, <1>7 DEF Same, SameLock, Settled
<1>9. RecordInv(r)'
  BY <1>8, QuietRecord
<1>10. Settled(Rec(p))' /\ marker'[r] = tx[p] /\ Based(p)' /\ OwnsIndex(tx[p])'
  BY <1>3, <1>4, <1>8, HoldsStill DEF Based, OwnsIndex, Indexes, Owned, Same
<1>11. pc'[p] \in {"redo", "settle"}
  BY <1>2, <1>3 DEF Advance, Goto
<1>12. Clean(Rec(p), tx[p])'
  BY <1>3, <1>10 DEF Clean
<1> QED
  BY <1>3, <1>9, <1>10, <1>11, <1>12 DEF OpenInv, WorkInv, Unready

(* Every step keeps the record its call is about and what the call knows.  *)
LEMMA OwnStep ==
  ASSUME Known, NEW p \in Proc, Act(p)
  PROVE  OwnKept(p)
<1>1. CASE Quiet(p)
  BY <1>1, QuietOwn
<1>2. CASE ~Quiet(p)
  <2>1. \/ Redo(p) \/ Undo(p) \/ Clear(p) \/ FreeLock(p) \/ Open(p) \/ Fill(p) \/ Compare(p)
        \/ Stage(p) \/ Promote(p) \/ Rename(p) \/ Mark(p) \/ Rollback(p) \/ DropPromoted(p)
        \/ DropStaging(p) \/ ReleaseOwn(p)
    BY <1>2, StepKinds DEF Quiet
  <2>2. Rec(p) \in Record
    <3>1. pc[p] # "idle"
      BY <2>1 DEF Redo, Undo, Clear, FreeLock, Open, Fill, Compare, Stage, Promote, Rename, Mark,
                  Rollback, DropPromoted, DropStaging, ReleaseOwn
    <3> QED
      BY <3>1 DEF Known, Shape, CallShape, Rec
  <2>3. ASSUME NEW r \in Record, r = Rec(p) PROVE RecordInv(r)' /\ OpenInv(p)' /\ WorkInv(p)'
    <3>1. CASE Redo(p)
      BY <2>3, <3>1, RedoOwn
    <3>2. CASE Undo(p)
      BY <2>3, <3>2, UndoOwn
    <3>3. CASE Clear(p)
      BY <2>3, <3>3, ClearOwn
    <3>4. CASE FreeLock(p)
      BY <2>3, <3>4, FreeLockOwn
    <3>5. CASE Open(p)
      BY <2>3, <3>5, OpenOwn
    <3>6. CASE Fill(p)
      BY <2>3, <3>6, FillOwn
    <3>7. CASE Compare(p)
      BY <2>3, <3>7, CompareOwn
    <3>8. CASE Stage(p)
      BY <2>3, <3>8, StageOwn
    <3>9. CASE Promote(p)
      BY <2>3, <3>9, PromoteOwn
    <3>10. CASE Rename(p)
      BY <2>3, <3>10, RenameOwn
    <3>11. CASE Mark(p)
      BY <2>3, <3>11, MarkOwn
    <3>12. CASE Rollback(p)
      BY <2>3, <3>12, RollbackOwn
    <3>13. CASE DropPromoted(p)
      BY <2>3, <3>13, DropPromotedOwn
    <3>14. CASE DropStaging(p)
      BY <2>3, <3>14, DropStagingOwn
    <3>15. CASE ReleaseOwn(p)
      BY <2>3, <3>15, ReleaseOwnOwn
    <3> QED
      BY <2>1, <3>1, <3>2, <3>3, <3>4, <3>5, <3>6, <3>7, <3>8, <3>9, <3>10, <3>11, <3>12, <3>13, <3>14,
         <3>15
  <2> QED
    BY <2>2, <2>3 DEF OwnKept
<1> QED
  BY <1>1, <1>2

(* The records are inductive where calls are apart.                        *)
LEMMA RecordsHold ==
  ASSUME Known, [Next]_vars
  PROVE  Records'
<1>1. ASSUME NEW p \in Proc, Act(p) PROVE Records'
  <2>1. OwnKept(p)
    BY <1>1, OwnStep
  <2>2. \A r \in Record : RecordInv(r)'
    BY <1>1, <2>1, RecordElsewhere DEF OwnKept
  <2>3. \A q \in Proc : OpenInv(q)' /\ WorkInv(q)'
    BY <1>1, <2>1, OpenElsewhere, WorkElsewhere DEF OwnKept
  <2> QED
    BY <2>2, <2>3 DEF Records
<1>2. CASE UNCHANGED vars
  <2> USE <1>2 DEF vars, files, locks
  <2>1. \A r \in Record : Same(r) /\ SameLock(r)
    BY DEF Same, SameLock
  <2>2. \A r \in Record : RecordInv(r)'
    <3>1. ASSUME NEW r \in Record PROVE RecordInv(r)'
      <4>1. OwnsIndex(lock[r].tx) => OwnsIndex(lock[r].tx)'
        BY DEF OwnsIndex, Indexes, Owned
      <4>2. RecordInv(r)
        BY DEF Known, Records
      <4> QED
        BY <2>1, <4>1, <4>2, SameRecord
    <3> QED
      BY <3>1
  <2>3. \A q \in Proc : OpenInv(q)'
    BY DEF Known, Records, OpenInv, Reading, Rec, Committed
  <2>4. \A q \in Proc : WorkInv(q)'
    <3>1. ASSUME NEW q \in Proc PROVE WorkInv(q)'
      <4>1. Same(Rec(q))
        BY DEF Same
      <4>2. OwnsIndex(tx[q]) => OwnsIndex(tx[q])'
        BY DEF OwnsIndex, Indexes, Owned
      <4>3. WorkInv(q)
        BY DEF Known, Records
      <4> QED
        BY <4>1, <4>2, <4>3, SameWork
    <3> QED
      BY <3>1
  <2> QED
    BY <2>2, <2>3, <2>4 DEF Records
<1> QED
  BY <1>1, <1>2 DEF Next, Act

(* At the start everything is empty.                                       *)
LEMMA KnownInit == Init => Known
<1> SUFFICES ASSUME Init PROVE Known
  OBVIOUS
<1>1. TypeOK /\ Shape
  BY ShapeInit
<1>2. \A p \in Proc : pc[p] = "idle" /\ want[p] = NoWant
  BY DEF Init
<1>3. Locks
  BY LocksInit
<1>4. Serial /\ NoTwins
  BY <1>2, StoreAssumption DEF Serial, NoTwins, Recovering, Recovery, NoWant
<1>5. \A p \in Proc : OpenInv(p) /\ WorkInv(p)
  BY <1>2 DEF OpenInv, WorkInv, Unready
<1>6. \A r \in Record : RecordInv(r)
  <2>1. \A r \in Record : Committed(r) = <<>> /\ ToSet(<<>>) = {}
    BY DEF Init, Committed, ToSet
  <2>2. \A r \in Record : Settled(r)
    BY <2>1 DEF Init, Settled
  <2>3. Free.tx.ev \notin Event
    BY StoreAssumption DEF Free, NoTx
  <2>4. \A r \in Record : dirs[r] = {} /\ lock[r] = Free
    BY DEF Init
  <2> QED
    BY <2>2, <2>3, <2>4 DEF RecordInv
<1> QED
  BY <1>1, <1>3, <1>4, <1>5, <1>6 DEF Known, Records

(* All of it is inductive.                                                 *)
LEMMA KnownStep == Known /\ [Next /\ Serial' /\ NoTwins']_vars => Known'
<1> SUFFICES ASSUME Known, [Next /\ Serial' /\ NoTwins']_vars PROVE Known'
  OBVIOUS
<1>1. TypeOK /\ Shape /\ Locks /\ Serial /\ [Next]_vars
  BY DEF Known
<1>2. TypeOK' /\ Shape'
  BY <1>1, ShapeStep
<1>3. Locks'
  BY <1>1, LocksHold
<1>4. Records'
  BY <1>1, RecordsHold
<1>5. Serial' /\ NoTwins'
  <2>1. CASE UNCHANGED vars
    BY <2>1 DEF Known, vars, Serial, NoTwins, Recovering, Rec
  <2> QED
    BY <2>1
<1> QED
  BY <1>2, <1>3, <1>4, <1>5 DEF Known

(* Every step of a behaviour that keeps calls apart ends with them apart.  *)
LEMMA ApartStep ==
  [Next]_vars /\ (Serial /\ NoTwins)' => [Next /\ Serial' /\ NoTwins']_vars
OBVIOUS

(* In a behaviour in which recoveries do not overlap and no two calls are  *)
(* twins, a record that nobody has locked agrees with the commit marker.   *)
(* The code lets both happen, and a recovery by a twin breaks the record.  *)
THEOREM StoreFreeIsSettledIfApart == Spec /\ [](Serial /\ NoTwins) => []FreeIsSettled
<1>1. Init => Known
  BY KnownInit
<1>2. Known /\ [Next /\ Serial' /\ NoTwins']_vars => Known'
  BY KnownStep
<1>3. Known => FreeIsSettled
  <2>1. ~Free.written
    BY DEF Free
  <2> QED
    BY <2>1 DEF Known, Records, RecordInv, Torn, FreeIsSettled
<1> QED
  BY <1>1, <1>2, <1>3, ApartStep, PTL DEF Spec

(* In a behaviour in which recoveries do not overlap and no two calls are  *)
(* twins, whatever a dead owner left torn can be restored: the directory   *)
(* of its transaction is complete and the index lock it needs is still its *)
(* own.  Nothing in the code keeps to that, and where calls are not apart  *)
(* one recovery removes the directory that another, or a twin, needs.      *)
THEOREM StoreTornIsRecoverableIfApart == Spec /\ [](Serial /\ NoTwins) => []TornIsRecoverable
<1>1. Init => Known
  BY KnownInit
<1>2. Known /\ [Next /\ Serial' /\ NoTwins']_vars => Known'
  BY KnownStep
<1>3. Known => TornIsRecoverable
  <2> SUFFICES ASSUME Known, NEW r \in Record, ~Settled(r)
               PROVE  /\ \E d \in RecoveryDirs(r, lock[r].tx) : d.whole
                      /\ OwnsIndex(lock[r].tx)
    BY DEF TornIsRecoverable
  <2>1. RecordInv(r) /\ Torn(r)
    BY DEF Known, Records, RecordInv
  <2>2. PICK d \in dirs[r] : d.tx = lock[r].tx /\ d.whole
    BY <2>1 DEF Torn, Restorable
  <2>3. Dirs(r, lock[r].tx) = {d}
    BY <2>1, <2>2 DEF Dirs, RecordInv
  <2>4. d \in RecoveryDirs(r, lock[r].tx)
    BY <2>3 DEF RecoveryDirs
  <2> QED
    BY <2>1, <2>2, <2>4 DEF Torn
<1> QED
  BY <1>1, <1>2, <1>3, ApartStep, PTL DEF Spec

=============================================================================
