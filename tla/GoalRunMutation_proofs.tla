----------------------- MODULE GoalRunMutation_proofs -----------------------
(***************************************************************************)
(* Theorems of GoalRunMutation: an attempt commits once at most, whoever   *)
(* interferes; and what is published is consistent, when nobody interferes *)
(* with a call.                                                            *)
(***************************************************************************)
EXTENDS GoalRunMutation, TLAPS

USE PartitionedAssumption, ContentAssumption

(* What a call remembers before it has looked at anything is well typed.   *)
LEMMA BlankTyped == Blank \in Memory
<1> DEFINE c == CHOOSE x \in Content : TRUE
<1>1. c \in Content
  BY DEF ContentAssumption
<1> HIDE DEF c
<1>2. [recovered |-> FALSE, touched |-> {}, own |-> [p \in Path |-> c],
       changed |-> {}, rest |-> c, proof |-> 0] \in Memory
  BY <1>1 DEF Memory, Tree
<1> QED
  BY <1>2 DEF Blank, c

(* A longer history is a history: what was there stays where it was.       *)
LEMMA LogGrows ==
  ASSUME NEW s \in Seq(Commit), NEW m \in Commit
  PROVE  /\ Append(s, m) \in Seq(Commit)
         /\ Len(Append(s, m)) = Len(s) + 1
         /\ \A k \in 1..Len(s) : Append(s, m)[k] = s[k]
         /\ Append(s, m)[Len(s) + 1] = m
OBVIOUS

(* The entries of the history, and the one at its tip.                     *)
LEMMA EntryTyped == WorldTyped => \A k \in 1..Len(log) : log[k] \in Commit
BY DEF WorldTyped

(* There is a commit at the tip, and it has the owned paths in it.         *)
LEMMA TipTyped ==
  WorldTyped => Tip \in Nat /\ Tip >= 1 /\ Tip \in 1..Len(log) /\ TipTree \in Tree
<1> SUFFICES ASSUME WorldTyped
             PROVE  Tip \in Nat /\ Tip >= 1 /\ Tip \in 1..Len(log) /\ TipTree \in Tree
  OBVIOUS
<1>1. Tip \in Nat /\ Tip >= 1 /\ Tip \in 1..Len(log)
  BY DEF WorldTyped, Tip
<1>2. log[Tip] \in Commit
  BY <1>1, EntryTyped
<1> QED
  BY <1>1, <1>2 DEF TipTree, Commit

(* What was looked at can be remembered: the fields of a call, one by one. *)
LEMMA Remembered ==
  ASSUME NEW m \in Memory
  PROVE  /\ \A x \in BOOLEAN : [m EXCEPT !.recovered = x] \in Memory
         /\ \A x \in SUBSET Path : [m EXCEPT !.touched = x] \in Memory
         /\ \A x \in SUBSET Path : [m EXCEPT !.changed = x] \in Memory
         /\ \A x \in Tree : [m EXCEPT !.own = x] \in Memory
         /\ \A x \in Content : [m EXCEPT !.rest = x] \in Memory
         /\ \A x \in Nat : [m EXCEPT !.proof = x] \in Memory
<1>1. \A x \in BOOLEAN : [m EXCEPT !.recovered = x] \in Memory
  BY DEF Memory
<1>2. \A x \in SUBSET Path : [m EXCEPT !.touched = x] \in Memory
  BY DEF Memory
<1>3. \A x \in SUBSET Path : [m EXCEPT !.changed = x] \in Memory
  BY DEF Memory
<1>4. \A x \in Tree : [m EXCEPT !.own = x] \in Memory
  BY DEF Memory
<1>5. \A x \in Content : [m EXCEPT !.rest = x] \in Memory
  BY DEF Memory
<1>6. \A x \in Nat : [m EXCEPT !.proof = x] \in Memory
  BY DEF Memory
<1> QED
  BY <1>1, <1>2, <1>3, <1>4, <1>5, <1>6

-----------------------------------------------------------------------------
(* Types: the world, the files of the attempt, the memory of the call.     *)

(* Only a commit makes the history longer, and it is one entry.            *)
LEMMA CommitTyped ==
  ASSUME TypeOK, CommitOwnedPaths, Uncommitted # {}
  PROVE  \E m \in Commit : m.by = id /\ log' = Append(log, m)
<1> DEFINE m == [by |-> id,
      tree |-> [p \in Path |-> IF p \in call.changed THEN work[p] ELSE TipTree[p]],
      changed |-> Uncommitted]
<1>1. TipTree \in Tree /\ work \in Tree /\ id \in Nat
  BY TipTyped DEF TypeOK, WorldTyped
<1>2. Uncommitted \in SUBSET Path
  BY DEF TypeOK, CallTyped, Memory, Uncommitted
<1>3. [p \in Path |-> IF p \in call.changed THEN work[p] ELSE TipTree[p]] \in Tree
  BY <1>1 DEF Tree
<1>4. m \in Commit /\ m.by = id
  BY <1>1, <1>2, <1>3 DEF Commit
<1>5. log' = Append(log, m)
  BY DEF CommitOwnedPaths
<1> HIDE DEF m
<1> QED
  BY <1>4, <1>5

(* A commit of somebody else is one more entry, of nobody's attempt.       *)
LEMMA ForeignTyped ==
  ASSUME TypeOK, ForeignCommit
  PROVE  \E m \in Commit : m.by = 0 /\ log' = Append(log, m)
<1>1. PICK S \in SUBSET Path :
      log' = Append(log, [by |-> 0, changed |-> S,
               tree |-> [p \in Path |-> IF p \in S THEN work[p] ELSE TipTree[p]]])
  BY DEF ForeignCommit
<1> DEFINE m == [by |-> 0, changed |-> S,
               tree |-> [p \in Path |-> IF p \in S THEN work[p] ELSE TipTree[p]]]
<1>2. TipTree \in Tree /\ work \in Tree
  BY TipTyped DEF TypeOK, WorldTyped
<1>3. [p \in Path |-> IF p \in S THEN work[p] ELSE TipTree[p]] \in Tree
  BY <1>2 DEF Tree
<1>4. m \in Commit /\ m.by = 0
  BY <1>3 DEF Commit
<1> QED
  BY <1>1, <1>4

(* No step makes of the history and the workspace anything else.           *)
LEMMA WorldStep == TypeOK /\ [Next]_vars => WorldTyped'
<1> SUFFICES ASSUME TypeOK, [Next]_vars PROVE WorldTyped'
  OBVIOUS
<1> USE DEF world, TypeOK
<1>1. CASE UNCHANGED <<world, id>>
  BY <1>1 DEF WorldTyped
<1>2. CASE AdapterWrites
  BY <1>2 DEF AdapterWrites, WorldTyped, Tree
<1>3. CASE CommitOwnedPaths
  <2>1. CASE Uncommitted # {}
    BY <1>3, <2>1, CommitTyped, LogGrows DEF CommitOwnedPaths, WorldTyped
  <2>2. CASE Uncommitted = {}
    BY <1>1, <1>3, <2>2 DEF CommitOwnedPaths
  <2> QED
    BY <2>1, <2>2
<1>4. CASE Remediate
  BY <1>4 DEF Remediate, WorldTyped
<1>5. CASE Edit
  BY <1>5 DEF Edit, WorldTyped, Tree
<1>6. CASE ForeignCommit
  <2>1. PICK m \in Commit : log' = Append(log, m)
    BY <1>6, ForeignTyped
  <2>2. work' = work /\ id' = id /\ outside' \in Content
    BY <1>6 DEF ForeignCommit
  <2> QED
    BY <2>1, <2>2, LogGrows DEF WorldTyped
<1>7. CASE UNCHANGED vars
  BY <1>1, <1>7 DEF vars
<1>8. CASE Call \/ Stop
  BY <1>1, <1>8 DEF Call, Stop
<1>9. CASE \/ Lookup \/ TakeBaseline \/ Compare \/ RunCommands \/ ReplayCommands
           \/ VerifyCommit \/ PublishEvidence \/ PublishClosure \/ Advance
  BY <1>1, <1>9 DEF Lookup, TakeBaseline, Compare, RunCommands, ReplayCommands,
     VerifyCommit, PublishEvidence, PublishClosure, Advance
<1>10. CASE \E d \in SUBSET Path : AdapterReturns(d)
  BY <1>1, <1>10 DEF AdapterReturns
<1> QED
  BY <1>2, <1>3, <1>4, <1>5, <1>6, <1>7, <1>8, <1>9, <1>10 DEF Next, Step

(* No step writes a file of the attempt that is not one.                   *)
LEMMA FilesStep == TypeOK /\ [Next]_vars => FilesTyped'
<1> SUFFICES ASSUME TypeOK, [Next]_vars PROVE FilesTyped'
  OBVIOUS
<1> USE DEF files, TypeOK
<1>1. CASE UNCHANGED files
  BY <1>1 DEF FilesTyped
<1>2. CASE TakeBaseline
  <2>1. [head |-> Tip, own |-> work, outside |-> outside] \in Baseline
    BY TipTyped DEF Baseline, WorldTyped
  <2> QED
    BY <1>2, <2>1 DEF TakeBaseline, FilesTyped
<1>3. CASE PublishEvidence
  <2>1. [own |-> call.own, changed |-> call.changed] \in Seen
    BY DEF Seen, CallTyped, Memory
  <2> QED
    BY <1>3, <2>1 DEF PublishEvidence, FilesTyped
<1>4. CASE PublishClosure
  <2>1. [changed |-> call.changed, commit |-> call.proof]
          \in [changed : SUBSET Path, commit : Nat]
    BY DEF CallTyped, Memory
  <2> QED
    BY <1>4, <2>1 DEF PublishClosure, FilesTyped
<1>5. CASE Advance
  BY <1>5 DEF Advance, FilesTyped
<1>6. CASE Stop
  <2>1. Pending \subseteq Artifact
    BY DEF Pending
  <2> QED
    BY <1>6, <2>1 DEF Stop, FilesTyped
<1>7. CASE Remediate
  BY <1>7 DEF Remediate, FilesTyped
<1>8. CASE UNCHANGED vars
  BY <1>1, <1>8 DEF vars
<1>9. CASE Call \/ Edit \/ ForeignCommit
  BY <1>1, <1>9 DEF Call, Edit, ForeignCommit
<1>10. CASE \/ Lookup \/ Compare \/ AdapterWrites \/ RunCommands \/ ReplayCommands
            \/ CommitOwnedPaths \/ VerifyCommit
  BY <1>1, <1>10 DEF Lookup, Compare, AdapterWrites, RunCommands, ReplayCommands,
     CommitOwnedPaths, VerifyCommit
<1>11. CASE \E d \in SUBSET Path : AdapterReturns(d)
  BY <1>1, <1>11 DEF AdapterReturns
<1> QED
  BY <1>2, <1>3, <1>4, <1>5, <1>6, <1>7, <1>8, <1>9, <1>10, <1>11 DEF Next, Step

(* No step leaves a call with a memory that is not one.                    *)
LEMMA CallStep == TypeOK /\ [Next]_vars => CallTyped'
<1> SUFFICES ASSUME TypeOK, [Next]_vars PROVE CallTyped'
  OBVIOUS
<1> USE BlankTyped, Remembered DEF Goto, Over, TypeOK, CallTyped, Location
<1>1. CASE Call \/ Stop \/ Advance
  BY <1>1 DEF Call, Stop, Advance
<1>2. CASE Lookup
  <2>1. ASSUME NEW e \in evidence, NEW k \in 0..Tip
        PROVE  [call EXCEPT !.own = e.own, !.changed = e.changed, !.proof = k] \in Memory
    <3>1. e.own \in Tree /\ e.changed \in SUBSET Path /\ k \in Nat
      BY TipTyped DEF FilesTyped, Seen
    <3> QED
      BY <3>1 DEF Memory
  <2> QED
    BY <1>2, <2>1 DEF Lookup
<1>3. CASE TakeBaseline
  BY <1>3 DEF TakeBaseline
<1>4. CASE Compare
  <2>1. [call EXCEPT !.own = work, !.rest = outside, !.proof = Tip] \in Memory
    BY TipTyped DEF WorldTyped, Memory
  <2> QED
    BY <1>4, <2>1 DEF Compare
<1>5. CASE AdapterWrites
  <2>1. ASSUME NEW p \in Path PROVE call.touched \cup {p} \in SUBSET Path
    BY DEF Memory
  <2> QED
    BY <1>5, <2>1 DEF AdapterWrites
<1>6. ASSUME NEW d \in SUBSET Path, AdapterReturns(d) PROVE CallTyped'
  <2>1. [call EXCEPT !.own = work, !.rest = outside] \in Memory
    BY DEF WorldTyped, Memory
  <2> QED
    BY <1>6, <2>1 DEF AdapterReturns
<1>7. CASE RunCommands
  <2>1. \A b \in base : ChangedSince(b.own) \in SUBSET Path
    BY DEF ChangedSince
  <2> QED
    BY <1>7, <2>1 DEF RunCommands
<1>8. CASE ReplayCommands
  <2>1. Undisturbed(call.proof) => log[call.proof].changed \in SUBSET Path
    BY TipTyped, EntryTyped DEF Undisturbed, Commit
  <2> QED
    BY <1>8, <2>1 DEF ReplayCommands
<1>9. CASE CommitOwnedPaths
  <2>1. Candidates \subseteq Nat
    BY TipTyped DEF Candidates
  <2> QED
    BY <1>9, <2>1 DEF CommitOwnedPaths
<1>10. CASE VerifyCommit
  <2>1. ASSUME NEW k \in 1..Tip
        PROVE  [call EXCEPT !.proof = k,
                  !.changed = IF @ = {} THEN log[k].changed ELSE @] \in Memory
    <3>1. log[k].changed \in SUBSET Path /\ k \in Nat
      BY EntryTyped DEF Tip, Commit
    <3> QED
      BY <3>1 DEF Memory
  <2> QED
    BY <1>10, <2>1 DEF VerifyCommit
<1>11. CASE PublishEvidence \/ PublishClosure
  BY <1>11 DEF PublishEvidence, PublishClosure
<1>12. CASE Remediate \/ Edit \/ ForeignCommit \/ UNCHANGED vars
  BY <1>12 DEF Remediate, Edit, ForeignCommit, vars
<1> QED
  BY <1>1, <1>2, <1>3, <1>4, <1>5, <1>6, <1>7, <1>8, <1>9, <1>10, <1>11, <1>12
     DEF Next, Step

(* Every step keeps the types.                                             *)
LEMMA TypeStep == TypeOK /\ [Next]_vars => TypeOK'
BY WorldStep, FilesStep, CallStep DEF TypeOK

(* They hold in the beginning.                                             *)
LEMMA TypeInit == Init => TypeOK
<1> SUFFICES ASSUME Init PROVE TypeOK
  OBVIOUS
<1>1. PICK t \in Tree : log = <<[by |-> 0, tree |-> t, changed |-> {}]>>
  BY DEF Init
<1>2. [by |-> 0, tree |-> t, changed |-> {}] \in Commit
  BY DEF Commit
<1>3. log \in Seq(Commit) /\ Len(log) = 1
  BY <1>1, <1>2
<1>4. WorldTyped
  BY <1>3 DEF Init, WorldTyped
<1>5. FilesTyped
  BY DEF Init, FilesTyped
<1>6. CallTyped
  BY BlankTyped DEF Init, CallTyped, Location
<1> QED
  BY <1>4, <1>5, <1>6 DEF TypeOK

(* Every variable keeps its type, whoever interferes.                      *)
THEOREM TypeCorrect == Spec => []TypeOK
BY TypeInit, TypeStep, PTL DEF Spec

-----------------------------------------------------------------------------
(* One commit per attempt.  The argument is about the baseline: an attempt *)
(* commits after it has written its baseline down, so a call that finds    *)
(* the history where the baseline left it knows that there is no commit of *)
(* the attempt yet, whatever an earlier call was doing when it ended.      *)

ByAttempts == \A k \in 1..Len(log) : log[k].by <= id

BaselineInHistory ==
  /\ \A b \in base : b.head <= Len(log)
  /\ \A b, c \in base : b.head = c.head

CommitAfterBaseline ==
  \A k \in 1..Len(log) : log[k].by = id => \E b \in base : b.head < k

NothingCommitted == \A k \in 1..Len(log) : log[k].by # id

CommitInv ==
  /\ OneCommitPerAttempt
  /\ ByAttempts
  /\ BaselineInHistory
  /\ CommitAfterBaseline
  /\ pc = "commit" => base # {} /\ NothingCommitted

(* In the beginning there is no commit of the authority.                   *)
LEMMA CommitInit == Init => CommitInv
<1> SUFFICES ASSUME Init PROVE CommitInv
  OBVIOUS
<1>1. PICK t \in Tree : log = <<[by |-> 0, tree |-> t, changed |-> {}]>>
  BY DEF Init
<1>2. Len(log) = 1 /\ log[1].by = 0
  BY <1>1
<1>3. id = 1 /\ base = {} /\ pc = "idle"
  BY DEF Init
<1> QED
  BY <1>2, <1>3 DEF CommitInv, OneCommitPerAttempt, ByAttempts, BaselineInHistory,
     CommitAfterBaseline

(* One more entry, of the attempt or of nobody.                            *)
LEMMA CommitGrows ==
  ASSUME TypeOK, CommitInv, NEW m \in Commit, log' = Append(log, m),
         UNCHANGED <<id, base>>,
         \/ m.by = 0 /\ pc' = pc
         \/ m.by = id /\ pc = "commit" /\ pc' = "verify"
  PROVE  CommitInv'
<1> DEFINE n == Len(log)
<1>1. n \in Nat /\ n >= 1 /\ id \in Nat /\ id # 0
  BY DEF TypeOK, WorldTyped
<1>2. /\ Len(log') = n + 1
      /\ \A k \in 1..n : log'[k] = log[k]
      /\ log'[n + 1] = m
  BY LogGrows DEF TypeOK, WorldTyped
<1>3. \A k \in 1..n : log[k].by \in Nat
  BY EntryTyped DEF TypeOK, Commit
<1>4. \A b \in base : b.head \in Nat
  BY DEF TypeOK, FilesTyped, Baseline
<1>5. \A k \in 1..(n + 1) : k \in 1..n \/ k = n + 1
  BY <1>1
<1>6. m.by = 0 \/ NothingCommitted
  BY DEF CommitInv
<1>7. OneCommitPerAttempt'
  <2>1. \A k \in 1..n : log'[k].by # 0 => log'[k].by # m.by
    BY <1>2, <1>6 DEF NothingCommitted
  <2> SUFFICES ASSUME NEW j \in 1..(n + 1), NEW k \in 1..(n + 1),
                      log'[j].by # 0, log'[j].by = log'[k].by
               PROVE  j = k
    BY <1>2 DEF OneCommitPerAttempt
  <2>2. CASE j \in 1..n /\ k \in 1..n
    BY <1>2, <2>2 DEF CommitInv, OneCommitPerAttempt
  <2> QED
    BY <1>2, <1>5, <2>1, <2>2
<1>8. ByAttempts'
  BY <1>1, <1>2, <1>5 DEF CommitInv, ByAttempts
<1>9. BaselineInHistory'
  BY <1>1, <1>2, <1>4 DEF CommitInv, BaselineInHistory
<1>10. CommitAfterBaseline'
  <2>1. ASSUME NEW k \in 1..n, log'[k].by = id PROVE \E b \in base : b.head < k
    BY <1>2, <2>1 DEF CommitInv, CommitAfterBaseline
  <2>2. ASSUME m.by = id PROVE \E b \in base : b.head < n + 1
    BY <1>1, <1>4, <2>2 DEF CommitInv, BaselineInHistory
  <2> QED
    BY <1>2, <1>5, <2>1, <2>2 DEF CommitAfterBaseline
<1>11. pc' = "commit" => base' # {} /\ NothingCommitted'
  BY <1>1, <1>2, <1>5 DEF CommitInv, NothingCommitted
<1> QED
  BY <1>7, <1>8, <1>9, <1>10, <1>11 DEF CommitInv

(* Every step keeps the invariant: one step per action that matters.       *)
LEMMA CommitStep == TypeOK /\ CommitInv /\ [Next]_vars => CommitInv'
<1> SUFFICES ASSUME TypeOK, CommitInv, [Next]_vars PROVE CommitInv'
  OBVIOUS
<1> USE DEF Goto, Over, files, world
<1>1. ASSUME UNCHANGED <<log, id, base>>, pc' = pc \/ pc' # "commit"
      PROVE  CommitInv'
  BY <1>1 DEF CommitInv, OneCommitPerAttempt, ByAttempts, BaselineInHistory,
     CommitAfterBaseline, NothingCommitted
<1>2. CASE TakeBaseline
  <2>1. ASSUME base = {}, base' = {[head |-> Tip, own |-> work, outside |-> outside]}
        PROVE  CommitInv'
    <3>1. UNCHANGED <<log, id>> /\ pc' # "commit"
      BY <1>2 DEF TakeBaseline
    <3>2. Tip \in Nat /\ Tip = Len(log)
      BY TipTyped DEF TypeOK, Tip
    <3>3. \A b \in base' : b.head = Tip
      BY <2>1
    <3>4. NothingCommitted
      BY <2>1 DEF CommitInv, CommitAfterBaseline, NothingCommitted
    <3> QED
      BY <3>1, <3>2, <3>3, <3>4 DEF CommitInv, OneCommitPerAttempt, ByAttempts,
         BaselineInHistory, CommitAfterBaseline, NothingCommitted
  <2>2. CASE UNCHANGED base
    <3>1. UNCHANGED <<log, id>> /\ pc' # "commit"
      BY <1>2 DEF TakeBaseline
    <3> QED
      BY <1>1, <2>2, <3>1
  <2> QED
    BY <1>2, <2>1, <2>2 DEF TakeBaseline
<1>3. CASE RunCommands
  <2>1. CASE pc' # "commit"
    BY <1>1, <1>3, <2>1 DEF RunCommands
  <2>2. CASE pc' = "commit"
    <3>1. PICK b \in base : Tip = b.head
      BY <1>3, <2>2 DEF RunCommands, Undisturbed
    <3>2. NothingCommitted
      <4>1. \A c \in base : c.head = Len(log)
        BY <3>1 DEF CommitInv, BaselineInHistory, Tip
      <4>2. Len(log) \in Nat
        BY DEF TypeOK, WorldTyped
      <4> QED
        BY <4>1, <4>2 DEF CommitInv, CommitAfterBaseline, NothingCommitted
    <3>3. UNCHANGED <<log, id, base>>
      BY <1>3 DEF RunCommands
    <3> QED
      BY <3>1, <3>2, <3>3 DEF CommitInv, OneCommitPerAttempt, ByAttempts,
         BaselineInHistory, CommitAfterBaseline, NothingCommitted
  <2> QED
    BY <2>1, <2>2
<1>4. CASE CommitOwnedPaths
  <2>1. CASE Uncommitted # {}
    <3>1. PICK m \in Commit : m.by = id /\ log' = Append(log, m)
      BY <1>4, <2>1, CommitTyped
    <3>2. UNCHANGED <<id, base>> /\ pc = "commit" /\ pc' = "verify"
      BY <1>4, <2>1 DEF CommitOwnedPaths
    <3> QED
      BY <3>1, <3>2, CommitGrows
  <2>2. CASE Uncommitted = {}
    BY <1>1, <1>4, <2>2 DEF CommitOwnedPaths
  <2> QED
    BY <2>1, <2>2
<1>5. CASE Remediate
  <2>1. /\ UNCHANGED log /\ id' = id + 1 /\ base' = {}
        /\ pc' # "commit" /\ id \in Nat /\ Len(log) \in Nat
    BY <1>5 DEF Remediate, TypeOK, WorldTyped
  <2>2. \A k \in 1..Len(log) : log[k].by \in Nat
    BY EntryTyped DEF TypeOK, Commit
  <2> QED
    BY <2>1, <2>2 DEF CommitInv, OneCommitPerAttempt, ByAttempts, BaselineInHistory,
       CommitAfterBaseline
<1>6. CASE ForeignCommit
  <2>1. PICK m \in Commit : m.by = 0 /\ log' = Append(log, m)
    BY <1>6, ForeignTyped
  <2>2. UNCHANGED <<id, base, pc>>
    BY <1>6 DEF ForeignCommit
  <2> QED
    BY <2>1, <2>2, CommitGrows
<1>7. CASE Edit \/ AdapterWrites \/ UNCHANGED vars
  BY <1>1, <1>7 DEF Edit, AdapterWrites, vars
<1>8. CASE Call \/ Stop
  BY <1>1, <1>8 DEF Call, Stop
<1>9. CASE \/ Lookup \/ Compare \/ ReplayCommands \/ VerifyCommit
           \/ PublishEvidence \/ PublishClosure \/ Advance
  BY <1>1, <1>9 DEF Lookup, Compare, ReplayCommands, VerifyCommit, PublishEvidence,
     PublishClosure, Advance
<1>10. CASE \E d \in SUBSET Path : AdapterReturns(d)
  BY <1>1, <1>10 DEF AdapterReturns
<1> QED
  BY <1>2, <1>3, <1>4, <1>5, <1>6, <1>7, <1>8, <1>9, <1>10 DEF Next, Step

(* However often an attempt is interrupted and called again, and whatever  *)
(* others do to the workspace and the history meanwhile, it commits once.  *)
THEOREM CommitsOnce == Spec => []OneCommitPerAttempt
<1>1. CommitInv => OneCommitPerAttempt
  BY DEF CommitInv
<1> QED
  BY <1>1, TypeInit, TypeStep, CommitInit, CommitStep, PTL DEF Spec

-----------------------------------------------------------------------------
(* What is published, when nobody interferes with a call.  The commit that *)
(* a closure names is the newest of the authority's commits with the owned *)
(* paths of the evidence, and stays it: once there is evidence no call of  *)
(* the attempt commits any more.  So a later call finds the same one.      *)

Newest(k, own) ==
  /\ k \in 1..Len(log) /\ log[k].by # 0 /\ log[k].tree = own
  /\ \A j \in 1..Len(log) : log[j].by # 0 /\ log[j].tree = own => j <= k

Proven(k, own) == IF Partitioned THEN Newest(k, own) ELSE k = 0

PublishedInv ==
  /\ \A e, f \in evidence : e = f
  /\ evidence = {} => closure = {}
  /\ \A c \in closure, e \in evidence :
       c.changed = e.changed /\ Proven(c.commit, e.own)

(* What the call knows: of the evidence, of the workspace, of the commit.  *)
CallInv ==
  /\ pc \in {"baseline", "compare", "adapter", "commands", "replay", "commit",
             "verify", "evidence"} => evidence = {}
  /\ pc \in {"lookup", "baseline", "compare", "adapter", "commands", "commit"} =>
       call.proof = 0
  /\ pc \in {"commands", "replay", "commit", "verify"} => call.own = work
  /\ pc \in {"replay", "commit", "verify"} => Partitioned
  /\ pc \in {"replay", "evidence", "closure"} => Proven(call.proof, call.own)
  /\ pc = "verify" => call.proof = 0 \/ Proven(call.proof, call.own)
  /\ pc = "closure" => evidence = {[own |-> call.own, changed |-> call.changed]}
  /\ pc # "conflict"

(* A quiet step is a step.                                                 *)
LEMMA QuietIsNext == [QuietNext]_vars => [Next]_vars
BY DEF QuietNext, Next

(* In the beginning nothing is published and nobody calls.                 *)
LEMMA PublishedInit == Init => PublishedInv /\ CallInv
BY DEF Init, PublishedInv, CallInv

(* There is one newest commit with given owned paths.                      *)
LEMMA NewestUnique ==
  ASSUME NEW own, NEW j, NEW k, Newest(j, own), Newest(k, own)
  PROVE  j = k
BY DEF Newest

(* It is the one that the search through the history finds.                *)
LEMMA CandidateNewest ==
  ASSUME NEW k, AuthorityCommit(k)
  PROVE  Newest(k, work)
BY DEF AuthorityCommit, Candidates, Newest, Tip

(* A commit of the authority at the tip is the newest of its kind.         *)
LEMMA TipNewest ==
  ASSUME TypeOK, NEW own, log[Tip].by # 0, log[Tip].tree = own
  PROVE  Newest(Tip, own)
BY TipTyped DEF Newest, TypeOK, Tip

(* Evidence that can be recovered from leads to the newest commit.         *)
LEMMA RecoveryProven ==
  ASSUME NEW e, NEW k, RecoversWith(e, k)
  PROVE  Proven(k, e.own)
BY CandidateNewest DEF RecoversWith, Proven

(* A commit of somebody else leaves the proofs what they are.              *)
LEMMA ForeignKeepsProof ==
  ASSUME TypeOK, ForeignCommit, NEW k, NEW own, Proven(k, own)
  PROVE  Proven(k, own)'
<1>1. PICK m \in Commit : m.by = 0 /\ log' = Append(log, m)
  BY ForeignTyped
<1>2. /\ Len(log) \in Nat /\ Len(log') = Len(log) + 1
      /\ \A j \in 1..Len(log) : log'[j] = log[j]
      /\ log'[Len(log) + 1] = m
  BY <1>1, LogGrows DEF TypeOK, WorldTyped
<1>3. ASSUME Newest(k, own) PROVE Newest(k, own)'
  BY <1>1, <1>2, <1>3 DEF Newest
<1> QED
  BY <1>3 DEF Proven

-----------------------------------------------------------------------------
(* What is published changes at two steps of a call, at a remediation, and *)
(* with the history.                                                       *)
LEMMA PublishedStep ==
  TypeOK /\ PublishedInv /\ CallInv /\ [QuietNext]_vars => PublishedInv'
<1> SUFFICES ASSUME TypeOK, PublishedInv, CallInv, [QuietNext]_vars
             PROVE  PublishedInv'
  OBVIOUS
<1> USE DEF files, world
<1>1. ASSUME UNCHANGED <<log, evidence, closure>> PROVE PublishedInv'
  BY <1>1 DEF PublishedInv, Proven, Newest
<1>2. CASE CommitOwnedPaths
  <2>1. evidence = {} /\ UNCHANGED <<evidence, closure>>
    BY <1>2 DEF CommitOwnedPaths, CallInv
  <2> QED
    BY <2>1 DEF PublishedInv
<1>3. CASE PublishEvidence
  <2>1. closure' = {}
    BY <1>3 DEF PublishEvidence, CallInv, PublishedInv
  <2> QED
    BY <1>3, <2>1 DEF PublishEvidence, PublishedInv
<1>4. CASE PublishClosure
  <2>1. CASE UNCHANGED closure
    BY <1>1, <1>4, <2>1 DEF PublishClosure
  <2>2. CASE closure' = {[changed |-> call.changed, commit |-> call.proof]}
    <3>1. /\ evidence = {[own |-> call.own, changed |-> call.changed]}
          /\ Proven(call.proof, call.own)
      BY <1>4 DEF PublishClosure, CallInv
    <3>2. UNCHANGED <<log, evidence>>
      BY <1>4 DEF PublishClosure
    <3>3. \A c \in closure', e \in evidence' :
            c.changed = e.changed /\ c.commit = call.proof /\ e.own = call.own
      BY <2>2, <3>1, <3>2
    <3>4. \A k, own : Proven(k, own) => Proven(k, own)'
      BY <3>2 DEF Proven, Newest
    <3> QED
      BY <3>1, <3>2, <3>3, <3>4 DEF PublishedInv
  <2> QED
    BY <1>4, <2>1, <2>2 DEF PublishClosure
<1>5. CASE Remediate
  BY <1>5 DEF Remediate, PublishedInv
<1>6. CASE ForeignCommit
  <2>1. UNCHANGED <<evidence, closure>>
    BY <1>6 DEF ForeignCommit
  <2>2. \A k, own : Proven(k, own) => Proven(k, own)'
    BY <1>6, ForeignKeepsProof
  <2> QED
    BY <2>1, <2>2 DEF PublishedInv
<1>7. CASE Call \/ Stop \/ Edit \/ UNCHANGED vars
  BY <1>1, <1>7 DEF Call, Stop, Edit, vars
<1>8. CASE \/ Lookup \/ TakeBaseline \/ Compare \/ AdapterWrites \/ RunCommands
           \/ ReplayCommands \/ VerifyCommit \/ Advance
  BY <1>1, <1>8 DEF Lookup, TakeBaseline, Compare, AdapterWrites, RunCommands,
     ReplayCommands, VerifyCommit, Advance
<1>9. CASE \E d \in SUBSET Path : AdapterReturns(d)
  BY <1>1, <1>9 DEF AdapterReturns
<1> QED
  BY <1>2, <1>3, <1>4, <1>5, <1>6, <1>7, <1>8, <1>9 DEF QuietNext, Step

(* What the call knows stays true, and it learns nothing that is false.    *)
LEMMA CallInvStep ==
  TypeOK /\ PublishedInv /\ CallInv /\ [QuietNext]_vars => CallInv'
<1> SUFFICES ASSUME TypeOK, PublishedInv, CallInv, [QuietNext]_vars
             PROVE  CallInv'
  OBVIOUS
<1> USE DEF Goto, files, world
<1>0. ASSUME pc' = "idle" \/ pc' = "advance" PROVE CallInv'
  BY <1>0 DEF CallInv
<1>2. CASE Over
  BY <1>0, <1>2 DEF Over
<1>3. CASE Call
  <2>1. call'.proof = 0 /\ pc' = "lookup"
    BY <1>3 DEF Call, Blank
  <2> QED
    BY <2>1 DEF CallInv
<1>4. CASE Lookup
  <2>1. CASE evidence = {} /\ pc' = "baseline" /\ UNCHANGED call
    BY <1>4, <2>1 DEF Lookup, CallInv
  <2>2. ASSUME NEW e \in evidence, NEW k \in 0..Tip, RecoversWith(e, k), Goto("closure"),
               call' = [call EXCEPT !.own = e.own, !.changed = e.changed, !.proof = k]
        PROVE  CallInv'
    <3>1. call'.own = e.own /\ call'.changed = e.changed /\ call'.proof = k
      BY <2>2 DEF TypeOK, CallTyped, Memory
    <3>2. UNCHANGED <<log, evidence>>
      BY <1>4 DEF Lookup
    <3>3. e = [own |-> e.own, changed |-> e.changed]
      BY DEF TypeOK, FilesTyped, Seen
    <3>4. evidence = {e}
      BY DEF PublishedInv
    <3>5. Proven(k, e.own)
      BY <2>2, RecoveryProven
    <3>6. Proven(call.proof, call.own)'
      BY <3>1, <3>2, <3>5 DEF Proven, Newest
    <3> QED
      BY <2>2, <3>1, <3>2, <3>3, <3>4, <3>6 DEF CallInv
  <2> QED
    BY <1>2, <1>4, <2>1, <2>2 DEF Lookup
<1>5. CASE TakeBaseline
  <2>1. \/ Over
        \/ pc = "baseline" /\ pc' = "compare" /\ UNCHANGED evidence
             /\ \E x \in BOOLEAN : call' = [call EXCEPT !.recovered = x]
    BY <1>5 DEF TakeBaseline
  <2>2. \A x \in BOOLEAN : [call EXCEPT !.recovered = x].proof = call.proof
    BY DEF TypeOK, CallTyped, Memory
  <2> QED
    BY <1>2, <2>1, <2>2 DEF CallInv
<1>6. CASE Compare
  <2>1. CASE pc' = "replay"
    <3>1. /\ Partitioned /\ AuthorityCommit(Tip)
          /\ call' = [call EXCEPT !.own = work, !.rest = outside, !.proof = Tip]
          /\ UNCHANGED <<log, work, evidence>> /\ pc = "compare"
      BY <1>6, <2>1 DEF Compare, Committed, Over
    <3>2. call'.own = work /\ call'.proof = Tip
      BY <3>1 DEF TypeOK, CallTyped, Memory
    <3>3. Newest(call.proof, call.own)'
      BY <3>1, <3>2, CandidateNewest DEF Newest
    <3> QED
      BY <2>1, <3>1, <3>2, <3>3 DEF CallInv, Proven
  <2>2. CASE pc' = "adapter"
    BY <1>6, <2>2 DEF Compare, CallInv, Over
  <2> QED
    BY <1>0, <1>6, <2>1, <2>2 DEF Compare, Over
<1>7. CASE AdapterWrites
  <2>1. pc = "adapter" /\ pc' = "adapter" /\ UNCHANGED evidence
    BY <1>7 DEF AdapterWrites
  <2>2. call'.proof = call.proof
    BY <1>7 DEF AdapterWrites, TypeOK, CallTyped, Memory
  <2> QED
    BY <2>1, <2>2 DEF CallInv
<1>8. ASSUME NEW d \in SUBSET Path, AdapterReturns(d) PROVE CallInv'
  <2>1. CASE pc' = "commands"
    <3>1. /\ call' = [call EXCEPT !.own = work, !.rest = outside]
          /\ UNCHANGED <<work, evidence>> /\ pc = "adapter"
      BY <1>8, <2>1 DEF AdapterReturns, Over
    <3>2. call'.own = work /\ call'.proof = call.proof
      BY <3>1 DEF TypeOK, CallTyped, Memory
    <3> QED
      BY <2>1, <3>1, <3>2 DEF CallInv
  <2> QED
    BY <1>0, <1>8, <2>1 DEF AdapterReturns, Over
<1>9. CASE RunCommands
  <2>1. CASE pc' # "idle"
    <3>1. /\ \E x \in SUBSET Path : call' = [call EXCEPT !.changed = x]
          /\ UNCHANGED <<log, work, evidence>> /\ pc = "commands"
          /\ pc' = IF Partitioned THEN "commit" ELSE "evidence"
      BY <1>9, <2>1 DEF RunCommands, Over, ChangedSince
    <3>2. call'.own = call.own /\ call'.proof = call.proof
      BY <3>1 DEF TypeOK, CallTyped, Memory
    <3> QED
      BY <3>1, <3>2 DEF CallInv, Proven
  <2> QED
    BY <1>0, <2>1
<1>10. CASE ReplayCommands
  <2>1. CASE pc' # "idle"
    <3>1. /\ \E x \in SUBSET Path : call' = [call EXCEPT !.changed = x]
          /\ UNCHANGED <<log, work, evidence>> /\ pc = "replay" /\ pc' = "evidence"
      <4>1. call.proof \in 1..Len(log)
        BY <1>10 DEF ReplayCommands, CallInv, Proven, Newest
      <4>2. log[call.proof].changed \in SUBSET Path
        BY <4>1, EntryTyped DEF TypeOK, Commit
      <4> QED
        BY <1>10, <2>1, <4>2 DEF ReplayCommands, Over
    <3>2. call'.own = call.own /\ call'.proof = call.proof
      BY <3>1 DEF TypeOK, CallTyped, Memory
    <3>3. Proven(call.proof, call.own)'
      BY <3>1, <3>2 DEF CallInv, Proven, Newest
    <3> QED
      BY <3>1, <3>2, <3>3 DEF CallInv
  <2> QED
    BY <1>0, <2>1
<1>11. CASE CommitOwnedPaths
  <2>1. CASE Uncommitted # {}
    <3>1. UNCHANGED <<work, evidence, call>> /\ pc = "commit" /\ pc' = "verify"
      BY <1>11, <2>1 DEF CommitOwnedPaths
    <3> QED
      BY <3>1 DEF CallInv
  <2>2. ASSUME NEW k \in Candidates, AuthorityCommit(k), Uncommitted = {},
               call' = [call EXCEPT !.proof = k]
        PROVE  CallInv'
    <3>1. UNCHANGED <<log, work, evidence>> /\ pc = "commit" /\ pc' = "verify"
      BY <1>11, <2>2 DEF CommitOwnedPaths
    <3>2. call'.own = call.own /\ call'.proof = k
      BY <2>2 DEF TypeOK, CallTyped, Memory
    <3>3. Newest(call.proof, call.own)'
      BY <2>2, <3>1, <3>2, CandidateNewest DEF CallInv, Newest
    <3> QED
      BY <3>1, <3>2, <3>3 DEF CallInv, Proven
  <2> QED
    BY <1>2, <1>11, <2>1, <2>2 DEF CommitOwnedPaths
<1>12. CASE VerifyCommit
  <2>1. ASSUME NEW b \in base, NEW k \in 1..Tip, Proves(b, k), Goto("evidence"),
               call' = [call EXCEPT !.proof = k,
                          !.changed = IF @ = {} THEN log[k].changed ELSE @]
        PROVE  CallInv'
    <3>1. UNCHANGED <<log, work, evidence>> /\ pc = "verify"
      BY <1>12 DEF VerifyCommit
    <3>2. call'.own = call.own /\ call'.proof = k
      BY <2>1 DEF TypeOK, CallTyped, Memory
    <3>3. Newest(k, call.own)
      <4>1. CASE OwnCommit(b, k)
        BY <2>1, <3>1, <4>1, TipNewest DEF OwnCommit, Proves, CallInv
      <4>2. CASE k = call.proof
        <5>1. k # 0
          BY TipTyped DEF TypeOK
        <5> QED
          BY <3>1, <4>2, <5>1 DEF CallInv, Proven
      <4> QED
        BY <2>1, <4>1, <4>2 DEF Proves
    <3>4. Proven(call.proof, call.own)'
      BY <3>1, <3>2, <3>3 DEF CallInv, Proven, Newest
    <3> QED
      BY <2>1, <3>1, <3>2, <3>4 DEF CallInv
  <2> QED
    BY <1>2, <1>12, <2>1 DEF VerifyCommit
<1>13. CASE PublishEvidence
  <2>1. /\ UNCHANGED <<log, work, call>> /\ pc = "evidence" /\ pc' = "closure"
        /\ evidence' = {[own |-> call.own, changed |-> call.changed]}
    BY <1>13 DEF PublishEvidence
  <2>2. Proven(call.proof, call.own)'
    BY <2>1 DEF CallInv, Proven, Newest
  <2> QED
    BY <2>1, <2>2 DEF CallInv
<1>14. CASE PublishClosure
  <2> DEFINE k == [changed |-> call.changed, commit |-> call.proof]
  <2>1. /\ evidence = {[own |-> call.own, changed |-> call.changed]}
        /\ Proven(call.proof, call.own)
    BY <1>14 DEF PublishClosure, CallInv
  <2>2. ASSUME NEW c \in closure PROVE c = k
    <3>1. c.changed = call.changed /\ Proven(c.commit, call.own)
      BY <2>1 DEF PublishedInv
    <3>2. c.commit = call.proof
      BY <2>1, <3>1, NewestUnique DEF Proven
    <3>3. c = [changed |-> c.changed, commit |-> c.commit]
      BY DEF TypeOK, FilesTyped
    <3> QED
      BY <3>1, <3>2, <3>3
  <2>3. closure \subseteq {k}
    BY <2>2
  <2>4. CASE Over
    BY <1>2, <1>14, <2>4 DEF PublishClosure
  <2>5. CASE "closure" \notin torn
    <3>1. pc' = "advance"
      BY <1>14, <2>3, <2>5 DEF PublishClosure
    <3> QED
      BY <1>0, <3>1
  <2> QED
    BY <1>14, <2>4, <2>5 DEF PublishClosure
<1>15. CASE Stop \/ Advance
  BY <1>2, <1>15 DEF Stop, Advance
<1>16. CASE Remediate \/ (pc = "idle" /\ (Edit \/ ForeignCommit))
  BY <1>0, <1>16 DEF Remediate, Edit, ForeignCommit
<1>17. CASE UNCHANGED vars
  BY <1>17 DEF vars, CallInv, Proven, Newest
<1> QED
  BY <1>3, <1>4, <1>5, <1>6, <1>7, <1>8, <1>9, <1>10, <1>11, <1>12, <1>13, <1>14,
     <1>15, <1>16, <1>17 DEF QuietNext, Step

(* Both hold always, when nobody interferes with a call.                   *)
LEMMA QuietInvariant == QuietSpec => []PublishedInv /\ []CallInv
<1>1. TypeOK /\ [QuietNext]_vars => TypeOK'
  BY TypeStep, QuietIsNext
<1> QED
  BY <1>1, TypeInit, PublishedInit, PublishedStep, CallInvStep, PTL DEF QuietSpec

(* The commit that a closure gives as its proof holds the owned paths as   *)
(* the evidence of the closure observed them, when nobody interferes with  *)
(* a call.                                                                 *)
THEOREM ClosureIsProven == QuietSpec => []ProofHoldsEvidence
<1>1. PublishedInv => ProofHoldsEvidence
  BY DEF PublishedInv, Proven, Newest, ProofHoldsEvidence
<1> QED
  BY <1>1, QuietInvariant, PTL

(* A call that goes on from published evidence publishes the closure that  *)
(* an interrupted call has published already, when nobody interferes.      *)
THEOREM RecoveryReproduces == QuietSpec => []ClosureReproduced
<1>1. CallInv => ClosureReproduced
  BY DEF CallInv, ClosureReproduced
<1> QED
  BY <1>1, QuietInvariant, PTL

-----------------------------------------------------------------------------
(* What an authority's execution keeps to (AuthorityRound), under Spec.    *)
(* There is no evidence until a call publishes what it observed; from then *)
(* on a call of the attempt has nothing but that evidence in mind.         *)

RoundInv ==
  /\ pc \in {"baseline", "compare", "adapter", "commands", "replay", "commit",
             "verify", "evidence"} => evidence = {}
  /\ \A e, f \in evidence : e = f
  /\ pc = "closure" => observations = {call.own}
  /\ pc = "advance" => closure # {}

(* In the beginning there is no evidence and no call.                      *)
LEMMA RoundInit == Init => RoundInv /\ Round!Init
BY DEF Init, RoundInv, Round!Init, stage, observed, observations, TypeOK, WorldTyped

(* The call's end leaves the files of the attempt alone.                   *)
LEMMA RoundOver ==
  ASSUME RoundInv, pc' = "idle", UNCHANGED <<work, id, evidence, closure, done>>
  PROVE  RoundInv' /\ (Round!End \/ UNCHANGED Round!authority)
<1>1. RoundInv'
  BY DEF RoundInv
<1>2. stage' = "none" /\ observed' = {} /\ observations' = observations
  BY DEF stage, observed, observations
<1>3. stage = "none" => observed = {}
  BY DEF observed
<1> QED
  BY <1>1, <1>2, <1>3 DEF Round!End, Round!authority, Round!published, Round!inCall

(* A step within one of the places that look alike from outside.           *)
LEMMA RoundStutter ==
  ASSUME RoundInv, UNCHANGED <<work, id, evidence, closure, done>>,
         stage' = stage, stage \in {"observed", "closing"} => call'.own = call.own,
         pc' = pc \/ evidence = {}, pc' = pc \/ pc' \notin {"closure", "advance"}
  PROVE  RoundInv' /\ UNCHANGED Round!authority
<1>1. observed' = observed /\ observations' = observations
  BY DEF observed, observations
<1>2. pc' = "closure" => stage = "closing"
  BY DEF stage
<1>3. RoundInv'
  BY <1>1, <1>2 DEF RoundInv
<1> QED
  BY <1>1, <1>3 DEF Round!authority, Round!published, Round!inCall

(* Every step is a step of the authority's execution, or none of it.       *)
LEMMA RoundStep ==
  TypeOK /\ RoundInv /\ [Next]_vars => RoundInv' /\ [Round!Next]_(Round!authority)
<1> SUFFICES ASSUME TypeOK, RoundInv, [Next]_vars
             PROVE  RoundInv' /\ (Round!Next \/ UNCHANGED Round!authority)
  OBVIOUS
<1> DEFINE Goal == RoundInv' /\ (Round!Next \/ UNCHANGED Round!authority)
<1> USE DEF Goto, files, world
<1>a. work' \in Tree /\ id \in Nat /\ id + 1 \in Nat /\ id + 1 > id
  BY TypeStep DEF TypeOK, WorldTyped
<1>b. call \in Memory
  BY DEF TypeOK, CallTyped
<1>0. ASSUME Over, UNCHANGED <<work, id, evidence, closure, done>> PROVE Goal
  BY <1>0, RoundOver DEF Over, Round!Next
<1>1. CASE Call
  <2>1. /\ stage = "none" /\ stage' = "working" /\ observed = {} /\ observed' = {}
        /\ observations' = observations
    BY <1>1 DEF Call, stage, observed, observations
  <2>2. Round!Begin
    BY <1>1, <2>1 DEF Call, Round!Begin, Round!published
  <2>3. RoundInv'
    BY <1>1 DEF Call, RoundInv
  <2> QED
    BY <2>2, <2>3 DEF Round!Next
<1>2. CASE Lookup
  <2>1. CASE evidence = {} /\ pc' = "baseline" /\ UNCHANGED call
    <3>1. stage = "working" /\ stage' = "working"
      BY <1>2, <2>1 DEF Lookup, stage
    <3> QED
      BY <1>2, <2>1, <3>1, RoundStutter DEF Lookup
  <2>2. ASSUME NEW e \in evidence, NEW k \in 0..Tip, RecoversWith(e, k), pc' = "closure",
               call' = [call EXCEPT !.own = e.own, !.changed = e.changed, !.proof = k]
        PROVE  Goal
    <3>1. call'.own = e.own /\ e.own = work
      BY <1>b, <2>2 DEF Memory, RecoversWith
    <3>2. observations = {work}
      BY <3>1 DEF RoundInv, observations
    <3>3. UNCHANGED <<work, id, evidence, closure, done>> /\ pc = "lookup"
      BY <1>2 DEF Lookup
    <3>4. stage = "working" /\ stage' = "closing" /\ observed' = {work}
      BY <2>2, <3>1, <3>3 DEF stage, observed
    <3>5. observations' = observations
      BY <3>3 DEF observations
    <3>6. Round!Recover
      BY <3>2, <3>3, <3>4, <3>5 DEF Round!Recover, Round!published
    <3>7. RoundInv'
      BY <2>2, <3>1, <3>2, <3>3, <3>5 DEF RoundInv
    <3> QED
      BY <3>6, <3>7 DEF Round!Next
  <2> QED
    BY <1>0, <1>2, <2>1, <2>2 DEF Lookup
<1>3. CASE TakeBaseline
  <2>1. CASE pc' = "compare"
    <3>1. stage = "working" /\ stage' = "working" /\ evidence = {}
      BY <1>3, <2>1 DEF TakeBaseline, stage, RoundInv
    <3> QED
      BY <1>3, <2>1, <3>1, RoundStutter DEF TakeBaseline
  <2> QED
    BY <1>0, <1>3, <2>1 DEF TakeBaseline
<1>4. ASSUME stage = "working", evidence = {}, stage' = "observed", call'.own = work,
             UNCHANGED <<work, id, evidence, closure, done>>
      PROVE  Goal
  <2>1. observed' = {work'} /\ observations' = observations /\ observations = {}
    BY <1>4 DEF observed, observations
  <2>2. Round!Observe
    BY <1>a, <1>4, <2>1 DEF Round!Observe, Round!published
  <2>3. RoundInv'
    BY <1>4 DEF RoundInv, stage
  <2> QED
    BY <2>2, <2>3 DEF Round!Next
<1>5. CASE Compare
  <2>1. pc = "compare" /\ evidence = {} /\ UNCHANGED <<work, id, evidence, closure, done>>
    BY <1>5 DEF Compare, RoundInv
  <2>2. CASE pc' = "replay" /\ call' = [call EXCEPT !.own = work, !.rest = outside, !.proof = Tip]
    BY <1>b, <1>4, <2>1, <2>2 DEF Memory, stage
  <2>3. CASE pc' = "adapter" /\ UNCHANGED call
    BY <2>1, <2>3, RoundStutter DEF stage, Round!Next
  <2> QED
    BY <1>0, <1>5, <2>1, <2>2, <2>3 DEF Compare
<1>6. ASSUME UNCHANGED <<id, evidence, closure, done, pc>>,
             pc \notin {"idle", "lookup", "baseline", "compare", "adapter"} => call' = call
      PROVE  Goal
  <2>1. stage' = stage /\ observed' = observed /\ observations' = observations
    <3>1. stage \in {"observed", "closing"} => call' = call
      BY <1>6 DEF stage
    <3> QED
      BY <1>6, <3>1 DEF stage, observed, observations
  <2>2. Round!Edit
    BY <1>a, <1>6, <2>1 DEF Round!Edit, Round!published, Round!inCall
  <2>3. RoundInv'
    BY <1>6, <2>1 DEF RoundInv
  <2> QED
    BY <2>2, <2>3 DEF Round!Next
<1>7. CASE AdapterWrites \/ Edit
  BY <1>6, <1>7 DEF AdapterWrites, Edit
<1>8. ASSUME NEW d \in SUBSET Path, AdapterReturns(d) PROVE Goal
  <2>1. pc = "adapter" /\ evidence = {} /\ UNCHANGED <<work, id, evidence, closure, done>>
    BY <1>8 DEF AdapterReturns, RoundInv
  <2>2. CASE pc' = "commands" /\ call' = [call EXCEPT !.own = work, !.rest = outside]
    BY <1>b, <1>4, <2>1, <2>2 DEF Memory, stage
  <2> QED
    BY <1>0, <1>8, <2>1, <2>2 DEF AdapterReturns
<1>9. ASSUME pc \in {"commands", "replay", "commit", "verify"},
             pc' \in {"commit", "verify", "evidence"}, call'.own = call.own,
             UNCHANGED <<work, id, evidence, closure, done>>
      PROVE  Goal
  <2>1. stage = "observed" /\ stage' = "observed" /\ evidence = {}
    BY <1>9 DEF stage, RoundInv
  <2> QED
    BY <1>9, <2>1, RoundStutter
<1>10. CASE RunCommands \/ ReplayCommands
  <2>1. UNCHANGED <<work, id, evidence, closure, done>>
    BY <1>10 DEF RunCommands, ReplayCommands
  <2>2. ASSUME NEW x, call' = [call EXCEPT !.changed = x] PROVE call'.own = call.own
    BY <1>b, <2>2 DEF Memory
  <2> QED
    BY <1>0, <1>9, <1>10, <2>1, <2>2 DEF RunCommands, ReplayCommands
<1>11. CASE CommitOwnedPaths \/ VerifyCommit
  <2>1. UNCHANGED <<work, id, evidence, closure, done>>
    BY <1>11 DEF CommitOwnedPaths, VerifyCommit
  <2>2. ASSUME NEW x, NEW y, \/ call' = [call EXCEPT !.proof = x]
                             \/ call' = [call EXCEPT !.proof = x, !.changed = y]
        PROVE call'.own = call.own
    BY <1>b, <2>2 DEF Memory
  <2>3. CASE CommitOwnedPaths
    BY <1>0, <1>9, <2>1, <2>2, <2>3 DEF CommitOwnedPaths
  <2>4. CASE VerifyCommit
    BY <1>0, <1>9, <2>1, <2>2, <2>4 DEF VerifyCommit
  <2> QED
    BY <1>11, <2>3, <2>4
<1>12. CASE PublishEvidence
  <2>1. /\ pc = "evidence" /\ pc' = "closure" /\ evidence = {} /\ UNCHANGED call
        /\ UNCHANGED <<work, id, closure, done>>
        /\ evidence' = {[own |-> call.own, changed |-> call.changed]}
    BY <1>12 DEF PublishEvidence, RoundInv
  <2>2. stage = "observed" /\ stage' = "closing"
    BY <2>1 DEF stage
  <2>3. /\ observed = {call.own} /\ observed' = {call.own}
        /\ observations = {} /\ observations' = {call.own}
    BY <2>1, <2>2 DEF observed, observations
  <2>4. Round!PublishEvidence
    BY <2>1, <2>2, <2>3 DEF Round!PublishEvidence
  <2>5. RoundInv'
    BY <2>1, <2>3 DEF RoundInv
  <2> QED
    BY <2>4, <2>5 DEF Round!Next
<1>13. CASE PublishClosure
  <2>1. pc = "closure" /\ UNCHANGED <<work, id, evidence, done>> /\ observations = {call.own}
    BY <1>13 DEF PublishClosure, RoundInv
  <2>2. stage = "closing" /\ observed = observations /\ observations' = observations
    BY <2>1 DEF stage, observed, observations
  <2>3. CASE /\ pc' = "advance" /\ UNCHANGED call
             /\ closure' = {[changed |-> call.changed, commit |-> call.proof]}
    <3>1. stage' = "closed" /\ observed' = {} /\ closure' # {}
      BY <2>3 DEF stage, observed
    <3>2. Round!PublishClosure
      BY <2>1, <2>2, <3>1 DEF Round!PublishClosure
    <3>3. RoundInv'
      BY <2>1, <2>3, <3>1 DEF RoundInv
    <3> QED
      BY <3>2, <3>3 DEF Round!Next
  <2>4. CASE pc' = "conflict" /\ UNCHANGED <<closure, call>>
    <3>1. stage' = "none" /\ observed' = {}
      BY <2>4 DEF stage, observed
    <3>2. Round!End
      BY <2>1, <2>2, <2>4, <3>1 DEF Round!End, Round!published
    <3>3. RoundInv'
      BY <2>1, <2>4 DEF RoundInv
    <3> QED
      BY <3>2, <3>3 DEF Round!Next
  <2> QED
    BY <1>0, <1>13, <2>1, <2>3, <2>4 DEF PublishClosure
<1>14. CASE Advance
  <2>1. /\ pc = "advance" /\ pc' = "idle" /\ closure # {} /\ done' = TRUE
        /\ UNCHANGED <<work, id, evidence, closure>>
    BY <1>14 DEF Advance, Over, RoundInv
  <2>2. /\ stage = "closed" /\ stage' = "none" /\ observed = {} /\ observed' = {}
        /\ observations' = observations
    BY <2>1 DEF stage, observed, observations
  <2>3. Round!Name
    BY <2>1, <2>2 DEF Round!Name
  <2>4. RoundInv'
    BY <2>1 DEF RoundInv
  <2> QED
    BY <2>3, <2>4 DEF Round!Next
<1>15. CASE Stop
  BY <1>0, <1>15 DEF Stop
<1>16. CASE Remediate
  <2>1. /\ pc = "idle" /\ pc' = "idle" /\ id' = id + 1 /\ evidence' = {} /\ closure' = {}
        /\ done' = FALSE /\ UNCHANGED <<work, call>>
    BY <1>16 DEF Remediate
  <2>2. /\ stage = "none" /\ stage' = "none" /\ observed = {} /\ observed' = {}
        /\ observations' = {}
    BY <2>1 DEF stage, observed, observations
  <2>3. Round!Renew
    BY <1>a, <2>1, <2>2 DEF Round!Renew, Round!inCall
  <2>4. RoundInv'
    BY <2>1 DEF RoundInv
  <2> QED
    BY <2>3, <2>4 DEF Round!Next
<1>17. CASE ForeignCommit
  BY <1>6, <1>17 DEF ForeignCommit
<1>18. CASE UNCHANGED vars
  BY <1>6, <1>18 DEF vars
<1> QED
  BY <1>1, <1>2, <1>3, <1>5, <1>7, <1>8, <1>10, <1>11, <1>12, <1>13, <1>14, <1>15,
     <1>16, <1>17, <1>18 DEF Next, Step

(* The mutation keeps to what GoalRun takes it for, and so does what       *)
(* surrounds it: one observation in an attempt, published before the       *)
(* closure that rests on it, with any interruptions and interference.      *)
THEOREM KeepsToRound == Spec => RoundSpec
<1>1. TypeOK /\ RoundInv /\ [Next]_vars => [Round!Next]_(Round!authority)
  BY RoundStep
<1>2. TypeOK /\ RoundInv /\ [Next]_vars => RoundInv'
  BY RoundStep
<1> QED
  BY <1>1, <1>2, TypeInit, TypeStep, RoundInit, PTL DEF Spec, RoundSpec, Round!Spec
=============================================================================
