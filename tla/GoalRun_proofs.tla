--------------------------- MODULE GoalRun_proofs ---------------------------
(***************************************************************************)
(* Proofs about GoalRun for any authorities with any acyclic dependencies, *)
(* any runners, activators, candidates and contents.                       *)
(***************************************************************************)
EXTENDS GoalRun, TLAPS, FiniteSetTheorems, WellFoundedInduction

USE AuthorityAssumption, DepsAssumption, ActivatorAssumption, RunnerAssumption

(* The invalidation set contains the roots and, with an authority, all     *)
(* that depend on it: deriveGoalExecutionInvalidationSet.                  *)
LEMMA InvalidationCarries ==
  ASSUME NEW S \in SUBSET Authority
  PROVE  S \subseteq InvalidationSet(S) /\ CarriesDependents(InvalidationSet(S))
<1>1. S \subseteq InvalidationSet(S)
  BY DEF InvalidationSet
<1>2. ASSUME NEW a \in Authority, Deps[a] \cap InvalidationSet(S) # {}
      PROVE  a \in InvalidationSet(S)
  <2>1. PICK d \in Deps[a] : d \in InvalidationSet(S)
    BY <1>2
  <2>2. ASSUME NEW T \in SUBSET Authority, S \subseteq T, CarriesDependents(T)
        PROVE  a \in T
    BY <2>1, <2>2 DEF InvalidationSet, CarriesDependents
  <2> QED
    BY <2>2 DEF InvalidationSet
<1> QED
  BY <1>1, <1>2 DEF CarriesDependents

-----------------------------------------------------------------------------
(* An activator in an activation has chosen its candidate.                 *)
ActivatorsChoose == \A x \in Activator : apc[x] # "idle" => chosen[x] \in Candidate

(* The activation keeps its types.                                         *)
LEMMA ActivationTypeStep ==
  ASSUME ActivationTypeOK, ActivatorsChoose, attempt \in Pointer, ActivationNext
  PROVE  ActivationTypeOK' /\ ActivatorsChoose'
<1> USE DEF ActivationTypeOK, ActivatorsChoose, AGoto
<1> DEFINE Goal == ActivationTypeOK' /\ ActivatorsChoose'
<1>1. ASSUME NEW x \in Activator, Observe(x) PROVE Goal
  BY <1>1 DEF Observe
<1>2. ASSUME NEW x \in Activator, TakeControl(x) PROVE Goal
  BY <1>2 DEF TakeControl
<1>3. ASSUME NEW x \in Activator, RestoreClaimed(x, attempt) PROVE Goal
  BY <1>3 DEF RestoreClaimed
<1>4. ASSUME NEW x \in Activator, PublishClaim(x, attempt) PROVE Goal
  <2>1. chosen[x] \in Candidate
    BY <1>4 DEF PublishClaim
  <2> QED
    BY <1>4, <2>1 DEF PublishClaim
<1>5. ASSUME NEW x \in Activator, ReuseOrRefuse(x, attempt) PROVE Goal
  BY <1>5 DEF ReuseOrRefuse
<1>6. ASSUME NEW x \in Activator, Promote(x) PROVE Goal
  BY <1>6 DEF Promote
<1>7. ASSUME NEW x \in Activator, Leave(x) PROVE Goal
  BY <1>7 DEF Leave
<1>8. CASE LosePointer
  BY <1>8 DEF LosePointer
<1> QED
  BY <1>1, <1>2, <1>3, <1>4, <1>5, <1>6, <1>7, <1>8
  DEF ActivationNext, ActivationStep, ReturnFromActivation, ControlTimesOut, ActivatorCrash

-----------------------------------------------------------------------------
(* The inductive invariant of the executor.                                *)

Working == {"mutate", "evidence", "readmit", "closure", "advance"}
Holding == Leased \ {"prepare", "release", "conflict"}

(* What a runner knows where it is: from the preparation to the release it *)
(* is alone and has the pointer on disk in memory; the phase in it and the *)
(* artifacts on disk are those of its place in the loop.                   *)
RunnerInv(r) ==
  /\ pc[r] # "conflict"
  /\ pc[r] \in Leased => lease = r
  /\ pc[r] \in Holding => copy[r] = attempt /\ attempt.phase # "none"
  /\ pc[r] = "remediate" => roots[r] # {}
  /\ pc[r] \in Working => copy[r].phase = "executing" /\ copy[r].next # 0
  /\ pc[r] \in {"evidence", "readmit", "closure"} => seen[r] # Nobody
  /\ pc[r] = "advance" =>
       \E k \in ClosureOf(copy[r].id, copy[r].next) :
         k[4] = DepsClosed(copy[r].closed, copy[r].next)
  /\ pc[r] = "campaign" => copy[r].phase \in {"closure_pending", "closed"}
  /\ pc[r] = "close" => copy[r].phase = "closure_pending" /\ copy[r].id \in campaigns

(* The pointer on disk passes its verification.                            *)
AttemptInv ==
  /\ attempt.phase = "none" => attempt = NoAttempt
  /\ attempt.phase # "none" =>
       attempt.id # 0 /\ ProgressValid(attempt) /\ ClosureRefsValid(attempt)
  /\ attempt.phase = "executing" => attempt.next # 0
  /\ attempt.phase = "closed" => attempt.id \in campaigns

(* The invariant of the executor: types, pointer on disk, every runner.    *)
RunInv == RunTypeOK /\ AttemptInv /\ \A r \in Runner : RunnerInv(r)

(* A step of the runner with the lease leaves the others where they are:   *)
(* none of them has the lease.                                             *)
LEMMA OthersRest ==
  ASSUME RunInv, NEW r \in Runner, pc[r] \in Leased,
         NEW s \in Runner, s # r, pc'[s] = pc[s]
  PROVE  RunnerInv(s)'
<1>1. pc[s] \notin Leased
  BY DEF RunInv, RunnerInv
<1> QED
  BY <1>1 DEF RunnerInv, Working, Holding, Leased

(* Steps outside the lease touch nothing another runner relies on.         *)
LEMMA OthersUntouched ==
  ASSUME RunInv, NEW s \in Runner,
         UNCHANGED <<attempt, closures, campaigns>>,
         pc[s] \in Leased => lease' = s,
         pc'[s] = pc[s], copy'[s] = copy[s], roots'[s] = roots[s], seen'[s] = seen[s]
  PROVE  RunnerInv(s)'
BY DEF RunInv, RunnerInv, ClosureOf, DepsClosed

(* A pointer's closures stay valid when closures are only added.           *)
LEMMA RefsKept ==
  ASSUME NEW p, ClosureRefsValid(p), attempt' = p, closures \subseteq closures'
  PROVE  ClosureRefsValid(attempt)'
<1> SUFFICES ASSUME NEW a \in Authority, p.closed[a] # 0
             PROVE  \E k \in ClosureOf(p.closed[a], a)' :
                      /\ k[4] = DepsClosed(p.closed, a)
                      /\ \A d \in Deps[a] : p.closed[d] # 0
  BY DEF ClosureRefsValid, DepsClosed, ClosureOf
<1>1. PICK k \in ClosureOf(p.closed[a], a) :
             /\ k[4] = DepsClosed(p.closed, a)
             /\ \A d \in Deps[a] : p.closed[d] # 0
  BY DEF ClosureRefsValid
<1>2. k \in ClosureOf(p.closed[a], a)'
  BY <1>1 DEF ClosureOf
<1> QED
  BY <1>1, <1>2

(* The pointer stays valid in a step that does not write it.               *)
LEMMA AttemptKept ==
  ASSUME AttemptInv, attempt' = attempt, closures \subseteq closures',
         campaigns \subseteq campaigns'
  PROVE  AttemptInv'
<1>1. ClosureRefsValid(attempt) => ClosureRefsValid(attempt)'
  BY RefsKept
<1>2. ProgressValid(attempt) => ProgressValid(attempt)'
  BY DEF ProgressValid
<1> QED
  BY <1>1, <1>2 DEF AttemptInv

(* Nothing has run: the invariant of the executor holds.                   *)
LEMMA RunInit_RunInv == RunInit => RunInv
BY DEF RunInit, RunInv, RunTypeOK, AttemptInv, RunnerInv, NoAttempt, Pointer, Phase,
       NothingClosed, Leased, Holding, Working, ArtifactName

(* Opening and ending a call; the steps that only look.                    *)
LEMMA AdmitStep ==
  ASSUME RunInv, ActivationTypeOK, NEW r \in Runner, Admit(r)
  PROVE  RunInv'
<1> USE DEF Admit, Goto, diskVars
<1>1. RunTypeOK'
  BY DEF RunInv, RunTypeOK, ActivationTypeOK
<1>2. AttemptInv'
  BY AttemptKept DEF RunInv
<1>3. RunnerInv(r)'
  BY DEF RunInv, RunTypeOK, RunnerInv, Leased, Holding, Working
<1>4. ASSUME NEW s \in Runner, s # r PROVE RunnerInv(s)'
  BY <1>4, OthersUntouched DEF RunInv, RunTypeOK, RunnerInv
<1> QED
  BY <1>1, <1>2, <1>3, <1>4 DEF RunInv

(* The lease is taken by one runner, and the others do not have it.        *)
LEMMA AcquireLeaseStep ==
  ASSUME RunInv, NEW r \in Runner, AcquireLease(r)
  PROVE  RunInv'
<1> USE DEF AcquireLease, Goto, diskVars
<1>1. RunTypeOK'
  BY DEF RunInv, RunTypeOK, Leased
<1>2. AttemptInv'
  BY AttemptKept DEF RunInv
<1>3. RunnerInv(r)'
  BY DEF RunInv, RunTypeOK, RunnerInv, Leased, Holding, Working
<1>4. ASSUME NEW s \in Runner, s # r PROVE RunnerInv(s)'
  <2>1. pc'[s] = pc[s] /\ pc[s] \notin Leased
    BY <1>4 DEF RunInv, RunTypeOK, RunnerInv
  <2> QED
    BY <2>1 DEF RunnerInv, Leased, Holding, Working
<1> QED
  BY <1>1, <1>2, <1>3, <1>4 DEF RunInv

(* What drifted is a set of authorities; without roots the call resumes.   *)
LEMMA InspectStep ==
  ASSUME RunInv, NEW r \in Runner, Inspect(r)
  PROVE  RunInv'
<1> USE DEF Inspect, Goto, diskVars
<1>1. RunTypeOK'
  BY DEF RunInv, RunTypeOK, Leased, Drifted
<1>2. AttemptInv'
  BY AttemptKept DEF RunInv
<1>3. RunnerInv(r)'
  BY DEF RunInv, RunTypeOK, RunnerInv, Leased, Holding, Working
<1>4. ASSUME NEW s \in Runner, s # r PROVE RunnerInv(s)'
  BY <1>4, OthersRest DEF Leased, RunInv, RunTypeOK
<1> QED
  BY <1>1, <1>2, <1>3, <1>4 DEF RunInv

(* A closure is published or the attempt is to be blocked.                 *)
LEMMA ReadmitStep ==
  ASSUME RunInv, NEW r \in Runner, Readmit(r)
  PROVE  RunInv'
<1> USE DEF Readmit, Goto, diskVars
<1>1. RunTypeOK'
  BY DEF RunInv, RunTypeOK, Leased
<1>2. AttemptInv'
  BY AttemptKept DEF RunInv
<1>3. RunnerInv(r)'
  BY DEF RunInv, RunTypeOK, RunnerInv, Leased, Holding, Working
<1>4. ASSUME NEW s \in Runner, s # r PROVE RunnerInv(s)'
  BY <1>4, OthersRest DEF Leased, RunInv, RunTypeOK
<1> QED
  BY <1>1, <1>2, <1>3, <1>4 DEF RunInv

(* Release, Crash and the lease that never became free.                    *)
LEMMA LeavesStep ==
  ASSUME RunInv, NEW r \in Runner, Leaves(r), torn' \subseteq ArtifactName
  PROVE  RunInv'
<1> USE DEF Leaves, Goto
<1>1. RunTypeOK'
  BY DEF RunInv, RunTypeOK, Pointer, NoAttempt, Phase, NothingClosed
<1>2. AttemptInv'
  BY AttemptKept DEF RunInv
<1>3. RunnerInv(r)'
  BY DEF RunInv, RunTypeOK, RunnerInv, Leased, Holding, Working
<1>4. ASSUME NEW s \in Runner, s # r PROVE RunnerInv(s)'
  <2>1. /\ pc'[s] = pc[s] /\ copy'[s] = copy[s] /\ roots'[s] = roots[s] /\ seen'[s] = seen[s]
        /\ pc[s] \in Leased => lease' = s
    BY <1>4 DEF RunInv, RunTypeOK, RunnerInv
  <2> QED
    BY <2>1, OthersUntouched
<1> QED
  BY <1>1, <1>2, <1>3, <1>4 DEF RunInv

(* A torn file has the name of an artifact.                                *)
LEMMA TornTyped ==
  ASSUME RunTypeOK, NEW r \in Runner, MayTear(r)
  PROVE  torn' \subseteq ArtifactName
<1>1. copy[r].id \in Nat /\ copy[r].next \in Authority \cup {0}
  BY DEF RunTypeOK, Pointer
<1>2. Pending(r) \subseteq ArtifactName
  BY <1>1 DEF Pending, ArtifactName
<1> QED
  BY <1>2 DEF MayTear, RunTypeOK

(* Release, timeouts, failures and crashes keep the invariant.             *)
LEMMA EndingStep ==
  ASSUME RunInv, NEW r \in Runner, Release(r) \/ TimesOut(r) \/ Fail(r) \/ Crash(r)
  PROVE  RunInv'
<1>1. CASE Release(r)
  BY <1>1, LeavesStep DEF Release, RunInv, RunTypeOK
<1>2. CASE Crash(r)
  BY <1>2, LeavesStep, TornTyped DEF Crash, RunInv
<1>3. CASE TimesOut(r) /\ Leaves(r)
  BY <1>3, LeavesStep DEF TimesOut, RunInv, RunTypeOK, Goto, diskVars
<1>4. ASSUME NEW l \in {"block", "release"}, Goto(r, l), l = "block" => Inside(r),
             pc[r] \in Leased \ {"release", "conflict"}, torn' \subseteq ArtifactName,
             UNCHANGED <<attempt, ids, evidence, closures, campaigns, files, lease,
                         copy, admitted, roots, seen>>
      PROVE  RunInv'
  <2> USE <1>4 DEF Goto
  <2>1. RunTypeOK'
    BY DEF RunInv, RunTypeOK, Leased
  <2>2. AttemptInv'
    BY AttemptKept DEF RunInv
  <2>3. RunnerInv(r)'
    BY DEF RunInv, RunTypeOK, RunnerInv, Leased, Holding, Working, Inside
  <2>4. ASSUME NEW s \in Runner, s # r PROVE RunnerInv(s)'
    BY <2>4, OthersRest DEF Leased, RunInv, RunTypeOK
  <2> QED
    BY <2>1, <2>2, <2>3, <2>4 DEF RunInv
<1>5. CASE Fail(r)
  BY <1>5, <1>4, TornTyped DEF Fail, Inside, Leased, RunInv
<1>6. CASE TimesOut(r) /\ ~Leaves(r)
  BY <1>6, <1>4 DEF TimesOut, RunInv, RunTypeOK, Leased, diskVars
<1> QED
  BY <1>1, <1>2, <1>3, <1>5, <1>6

(* The adapter and the artifacts.                                          *)

(* The adapter of the next authority runs, or its evidence is recovered.   *)
LEMMA MutateStep ==
  ASSUME RunInv, NEW r \in Runner, Mutate(r)
  PROVE  RunInv'
<1> USE DEF Mutate, Goto, diskVars
<1>1. RunTypeOK'
  <2>1. CASE UNCHANGED <<files, seen>>
    BY <2>1 DEF RunInv, RunTypeOK, Leased
  <2>2. ASSUME NEW c \in Content, files' = [files EXCEPT ![copy[r].next] = c],
               seen' = [seen EXCEPT ![r] = c]
        PROVE  RunTypeOK'
    BY <2>2 DEF RunInv, RunTypeOK, Leased
  <2>3. CASE seen' = [seen EXCEPT ![r] = files[copy[r].next]] /\ UNCHANGED files
    <3>1. copy[r].next \in Authority
      BY DEF RunInv, RunTypeOK, RunnerInv, Working, Pointer
    <3> QED
      BY <2>3, <3>1 DEF RunInv, RunTypeOK, Leased
  <2> QED
    BY <2>1, <2>2, <2>3
<1>2. AttemptInv'
  BY AttemptKept DEF RunInv
<1>3. RunnerInv(r)'
  <2>1. pc'[r] \in {"evidence", "readmit"} => seen'[r] # Nobody
    <3>1. copy[r].next \in Authority
      BY DEF RunInv, RunTypeOK, RunnerInv, Working, Pointer
    <3>2. seen'[r] = files[copy[r].next] \/ seen'[r] \in Content \/ pc'[r] = "block"
      BY DEF RunInv, RunTypeOK, Leased
    <3>3. files[copy[r].next] \in Content
      BY <3>1 DEF RunInv, RunTypeOK
    <3> HIDE DEF Mutate
    <3> QED
      BY <3>2, <3>3
  <2>2. /\ pc'[r] \in {"evidence", "readmit", "block"}
        /\ pc[r] \in Leased \cap Holding \cap Working
    BY DEF RunInv, RunTypeOK, Leased, Holding, Working
  <2> QED
    BY <2>1, <2>2 DEF RunInv, RunnerInv, Leased, Holding, Working
<1>4. ASSUME NEW s \in Runner, s # r PROVE RunnerInv(s)'
  BY <1>4, OthersRest DEF Leased, RunInv, RunTypeOK
<1> QED
  BY <1>1, <1>2, <1>3, <1>4 DEF RunInv

(* Evidence changes nothing the pointer rests on.                          *)
LEMMA PublishEvidenceStep ==
  ASSUME RunInv, NEW r \in Runner, PublishEvidence(r)
  PROVE  RunInv'
<1> USE DEF PublishEvidence, Goto, diskVars
<1>1. RunTypeOK'
  <2>1. copy[r].id \in Nat /\ copy[r].next \in Authority /\ seen[r] \in Content
    BY DEF RunInv, RunTypeOK, RunnerInv, Working, Pointer
  <2> QED
    BY <2>1 DEF RunInv, RunTypeOK, Leased
<1>2. AttemptInv'
  BY AttemptKept DEF RunInv
<1>3. RunnerInv(r)'
  BY DEF RunInv, RunTypeOK, RunnerInv, Leased, Holding, Working
<1>4. ASSUME NEW s \in Runner, s # r PROVE RunnerInv(s)'
  BY <1>4, OthersRest DEF Leased, RunInv, RunTypeOK
<1> QED
  BY <1>1, <1>2, <1>3, <1>4 DEF RunInv

(* The closure that is published rests on those in the pointer.            *)
LEMMA PublishClosureStep ==
  ASSUME RunInv, NEW r \in Runner, PublishClosure(r)
  PROVE  RunInv'
<1> USE DEF PublishClosure, Goto, diskVars
<1>1. RunTypeOK'
  <2>1. copy[r].id \in Nat /\ copy[r].next \in Authority /\ seen[r] \in Content
        /\ copy[r].closed \in [Authority -> Nat]
    BY DEF RunInv, RunTypeOK, RunnerInv, Working, Pointer
  <2>2. DepsClosed(copy[r].closed, copy[r].next) \in [Deps[copy[r].next] -> Nat]
    BY <2>1 DEF DepsClosed
  <2> DEFINE k == <<copy[r].id, copy[r].next, seen[r], DepsClosed(copy[r].closed, copy[r].next)>>
  <2>3. k \in Nat \X Authority \X Content \X [Deps[k[2]] -> Nat]
    BY <2>1, <2>2
  <2>4. closures' \subseteq closures \cup {k}
    OBVIOUS
  <2> HIDE DEF k
  <2>5. \A j \in closures' : j \in Nat \X Authority \X Content \X [Deps[j[2]] -> Nat]
    BY <2>3, <2>4 DEF RunInv, RunTypeOK
  <2> QED
    BY <2>5 DEF RunInv, RunTypeOK, Leased
<1>2. AttemptInv'
  BY AttemptKept DEF RunInv
<1>3. RunnerInv(r)'
  <2> DEFINE k == <<copy[r].id, copy[r].next, seen[r], DepsClosed(copy[r].closed, copy[r].next)>>
  <2>1. CASE pc' = [pc EXCEPT ![r] = "advance"] /\ closures' = closures \cup {k}
    <3>1. k \in ClosureOf(copy[r].id, copy[r].next)'
      BY <2>1 DEF ClosureOf
    <3>2. k[4] = DepsClosed(copy[r].closed, copy[r].next)'
      BY DEF DepsClosed
    <3>3. UNCHANGED <<copy, attempt, lease>> /\ pc'[r] = "advance"
      BY <2>1 DEF RunInv, RunTypeOK
    <3>4. \E j \in ClosureOf(copy[r].id, copy[r].next)' :
            j[4] = DepsClosed(copy[r].closed, copy[r].next)'
      BY <3>1, <3>2
    <3> QED
      BY <3>3, <3>4 DEF RunInv, RunnerInv, Leased, Holding, Working
  <2>2. CASE pc' = [pc EXCEPT ![r] = "block"]
    BY <2>2 DEF RunInv, RunTypeOK, RunnerInv, Leased, Holding, Working
  <2> QED
    BY <2>1, <2>2
<1>4. ASSUME NEW s \in Runner, s # r PROVE RunnerInv(s)'
  BY <1>4, OthersRest DEF Leased, RunInv, RunTypeOK
<1> QED
  BY <1>1, <1>2, <1>3, <1>4 DEF RunInv

(* The campaign closure is there before the attempt is closed.             *)
LEMMA PublishCampaignStep ==
  ASSUME RunInv, NEW r \in Runner, PublishCampaign(r)
  PROVE  RunInv'
<1> USE DEF PublishCampaign, Goto, diskVars
<1>1. RunTypeOK'
  <2>1. copy[r].id \in Nat
    BY DEF RunInv, RunTypeOK, Pointer
  <2> QED
    BY <2>1 DEF RunInv, RunTypeOK, Leased
<1>2. AttemptInv'
  BY AttemptKept DEF RunInv
<1>3. RunnerInv(r)'
  BY DEF RunInv, RunTypeOK, RunnerInv, Leased, Holding, Working
<1>4. ASSUME NEW s \in Runner, s # r PROVE RunnerInv(s)'
  BY <1>4, OthersRest DEF Leased, RunInv, RunTypeOK
<1> QED
  BY <1>1, <1>2, <1>3, <1>4 DEF RunInv

(* The invariant says nothing of the contents of owned paths.              *)
LEMMA EditStep ==
  ASSUME RunInv, Edit
  PROVE  RunInv'
<1> USE DEF Edit, diskVars, localVars
<1>1. RunTypeOK'
  BY DEF RunInv, RunTypeOK
<1>2. AttemptInv'
  BY AttemptKept DEF RunInv
<1>3. ASSUME NEW s \in Runner PROVE RunnerInv(s)'
  BY OthersUntouched DEF RunInv, RunnerInv
<1> QED
  BY <1>1, <1>2, <1>3 DEF RunInv

-----------------------------------------------------------------------------
(* The steps that write the pointer.                                       *)

(* A valid pointer is written.                                             *)
LEMMA WriteValid ==
  ASSUME NEW r, NEW p, NEW l, Write(r, p, l), ProgressValid(p), ClosureRefsValid(p)
  PROVE  attempt' = p /\ Adopt(r, p, l)
BY DEF Write

(* A legal transition to a valid pointer is committed.                     *)
LEMMA CommitValid ==
  ASSUME NEW r, NEW p, NEW l, Commit(r, p, l), copy[r] = attempt,
         TransitionLegal(attempt, p), ProgressValid(p), ClosureRefsValid(p)
  PROVE  attempt' = p /\ Adopt(r, p, l)
BY WriteValid DEF Commit

(* What a step that writes the pointer has to see to.                      *)
LEMMA PointerWritten ==
  ASSUME RunInv, NEW r \in Runner, NEW p \in Pointer, NEW l \in Leased,
         pc[r] \in Leased, attempt' = p, Adopt(r, p, l),
         UNCHANGED <<diskVars, files, lease, admitted>>,
         ids' \in Nat,
         roots' = [roots EXCEPT ![r] = {}] \/ roots' = roots,
         seen' = [seen EXCEPT ![r] = Nobody] \/ seen' = seen,
         p.phase # "none", p.id # 0, ProgressValid(p), ClosureRefsValid(p),
         p.phase = "executing" => p.next # 0,
         p.phase = "closed" => p.id \in campaigns,
         \/ l \in {"inspect", "resume", "release"}
         \/ l = "mutate" /\ p.phase = "executing"
         \/ l = "campaign" /\ p.phase = "closure_pending"
  PROVE  RunInv'
<1> USE DEF Adopt, Goto, diskVars
<1>1. RunTypeOK'
  BY DEF RunInv, RunTypeOK
<1>2. AttemptInv'
  <2>1. ClosureRefsValid(attempt)'
    BY RefsKept
  <2>2. ProgressValid(attempt)'
    BY DEF ProgressValid
  <2> QED
    BY <2>1, <2>2 DEF AttemptInv
<1>3. RunnerInv(r)'
  BY DEF RunInv, RunTypeOK, RunnerInv, Leased, Holding, Working
<1>4. ASSUME NEW s \in Runner, s # r PROVE RunnerInv(s)'
  BY <1>4, OthersRest DEF Leased, RunInv, RunTypeOK
<1> QED
  BY <1>1, <1>2, <1>3, <1>4 DEF RunInv

(* What such a step makes of the attempt, seen from outside.               *)
Starts(r) ==
  /\ control = Nobody /\ AtRun(r) /\ ~Unfinished(attempt) /\ attempt.run # admitted[r]
  /\ attempt'.run = admitted[r] /\ attempt'.closed = NothingClosed
  /\ attempt'.phase = "prepared" /\ attempt'.id = ids + 1 /\ ids' = ids + 1
Reopens(r) ==
  /\ AtRun(r) /\ attempt.run = admitted[r] /\ attempt.phase # "none"
  /\ \E S \in SUBSET Authority :
       /\ S # {}
       /\ attempt'.closed = WithoutClosures(attempt.closed, InvalidationSet(S))
  /\ attempt'.run = attempt.run /\ attempt'.phase = "executing"
  /\ attempt'.id = ids + 1 /\ ids' = ids + 1
Advances ==
  /\ attempt.phase = "executing" /\ attempt.next \in Authority
  /\ attempt.closed[attempt.next] = 0
  /\ \A d \in Deps[attempt.next] : attempt.closed[d] # 0
  /\ attempt'.closed = [attempt.closed EXCEPT ![attempt.next] = attempt.id]
  /\ attempt'.run = attempt.run /\ attempt'.id = attempt.id /\ attempt.id # 0
  /\ attempt'.phase \in {"executing", "closure_pending"}
Turns ==
  /\ Unfinished(attempt) /\ attempt'.phase # "none"
  /\ attempt'.phase = "closed" => AllClosed(attempt.closed)
  /\ attempt'.run = attempt.run /\ attempt'.closed = attempt.closed
  /\ attempt'.id = attempt.id

(* Preparing takes the attempt of the run as it is, or starts a new one.   *)
LEMMA PrepareStep ==
  ASSUME RunInv, NEW r \in Runner, Prepare(r), active \in Nat
  PROVE  RunInv' /\ (Starts(r) \/ UNCHANGED attempt)
<1> USE DEF Prepare
<1>1. pc[r] \in Leased
  BY DEF Leased
<1>2. ASSUME Adopt(r, attempt, "inspect"), UNCHANGED <<attempt, ids>>, attempt.phase # "none"
      PROVE  RunInv'
  BY <1>1, <1>2, PointerWritten DEF RunInv, RunTypeOK, AttemptInv, Leased
<1>3. ASSUME NEW n \in Authority \cup {0}, ComesNext(n, NothingClosed),
             Write(r, Prepared(ids + 1, admitted[r], n), "inspect"), ids' = ids + 1,
             control = Nobody, AtRun(r), ~Unfinished(attempt), attempt.run # admitted[r]
      PROVE  RunInv' /\ Starts(r)
  <2> DEFINE p == Prepared(ids + 1, admitted[r], n)
  <2>1. p \in Pointer /\ p.phase = "prepared" /\ p.id # 0
    BY DEF RunInv, RunTypeOK, Prepared, Pointer, Phase, NothingClosed
  <2>2. ProgressValid(p) /\ ClosureRefsValid(p)
    BY <1>3 DEF ProgressValid, ClosureRefsValid, Prepared, NothingClosed
  <2>3. attempt' = p /\ Adopt(r, p, "inspect")
    BY <1>3, <2>2, WriteValid
  <2>4. Starts(r)
    BY <1>3, <2>3 DEF Starts, Adopt, Prepared
  <2> HIDE DEF p
  <2> QED
    BY <1>1, <1>3, <2>1, <2>2, <2>3, <2>4, PointerWritten DEF RunInv, RunTypeOK, Leased
<1>4. ASSUME Goto(r, "release"), UNCHANGED <<attempt, ids, copy>>
      PROVE  RunInv'
  <2> USE <1>4 DEF Goto, diskVars
  <2>1. RunTypeOK'
    BY DEF RunInv, RunTypeOK, Leased
  <2>2. AttemptInv'
    BY AttemptKept DEF RunInv
  <2>3. RunnerInv(r)'
    BY DEF RunInv, RunTypeOK, RunnerInv, Leased, Holding, Working
  <2>4. ASSUME NEW s \in Runner, s # r PROVE RunnerInv(s)'
    BY <2>4, <1>1, OthersRest DEF RunInv, RunTypeOK
  <2> QED
    BY <2>1, <2>2, <2>3, <2>4 DEF RunInv
<1> QED
  BY <1>2, <1>3, <1>4

(* No closure that is kept rests on one that is dropped.                   *)
LEMMA RemediatedValid ==
  ASSUME RunInv, NEW S \in SUBSET Authority, S # {}, NEW i \in Nat \ {0},
         NEW n \in Authority \cup {0}, attempt.started, attempt.phase # "none",
         ComesNext(n, Remediated(attempt, i, S, n).closed)
  PROVE  LET p == Remediated(attempt, i, S, n) IN
           /\ p \in Pointer /\ p.id = i /\ p.phase = "executing" /\ p.next # 0
           /\ ProgressValid(p) /\ ClosureRefsValid(p)
<1> DEFINE p == Remediated(attempt, i, S, n)
           X == InvalidationSet(S)
<1>1. attempt \in Pointer /\ attempt.closed \in [Authority -> Nat]
  BY DEF RunInv, RunTypeOK, Pointer
<1>2. p.closed = WithoutClosures(attempt.closed, X) /\ p.closed \in [Authority -> Nat]
  BY <1>1 DEF Remediated, WithoutClosures, Pointer
<1>3. p \in Pointer /\ p.id = i /\ p.phase = "executing" /\ p.started /\ p.next = n
  BY <1>1, <1>2 DEF Remediated, Pointer, Phase
<1>4. PICK a \in Authority : a \in S
  OBVIOUS
<1>5. p.closed[a] = 0
  BY <1>2, <1>4, InvalidationCarries DEF WithoutClosures
<1>6. p.next # 0
  BY <1>3, <1>5 DEF ComesNext, AllClosed
<1>7. ProgressValid(p)
  BY <1>3 DEF ProgressValid
<1>8. ClosureRefsValid(p)
  <2> SUFFICES ASSUME NEW b \in Authority, p.closed[b] # 0
               PROVE  \E k \in ClosureOf(p.closed[b], b) :
                        k[4] = DepsClosed(p.closed, b) /\ \A d \in Deps[b] : p.closed[d] # 0
    BY DEF ClosureRefsValid
  <2>1. b \notin X /\ p.closed[b] = attempt.closed[b]
    BY <1>2 DEF WithoutClosures
  <2>2. \A d \in Deps[b] : d \in Authority /\ d \notin X
    BY <2>1, InvalidationCarries DEF CarriesDependents
  <2>3. \A d \in Deps[b] : p.closed[d] = attempt.closed[d]
    BY <2>2, <1>2 DEF WithoutClosures
  <2>4. DepsClosed(p.closed, b) = DepsClosed(attempt.closed, b)
    BY <2>3 DEF DepsClosed
  <2>5. ClosureRefsValid(attempt)
    BY DEF RunInv, AttemptInv
  <2> QED
    BY <2>1, <2>3, <2>4, <2>5 DEF ClosureRefsValid
<1> QED
  BY <1>3, <1>6, <1>7, <1>8

(* Remediating reopens authorities under a new attempt id.                 *)
LEMMA RemediateStep ==
  ASSUME RunInv, NEW r \in Runner, Remediate(r)
  PROVE  RunInv' /\ (Reopens(r) \/ UNCHANGED attempt)
<1> USE DEF Remediate
<1>1. pc[r] \in Leased /\ attempt.phase # "none" /\ roots[r] \in SUBSET Authority /\ roots[r] # {}
  BY DEF RunInv, RunTypeOK, RunnerInv, Leased, Holding
<1>2. ASSUME attempt.started, NEW n \in Authority \cup {0},
             ComesNext(n, Remediated(attempt, ids + 1, roots[r], n).closed),
             Write(r, Remediated(attempt, ids + 1, roots[r], n), "resume"), ids' = ids + 1,
             AtRun(r), attempt.run = admitted[r]
      PROVE  RunInv' /\ Reopens(r)
  <2> DEFINE p == Remediated(attempt, ids + 1, roots[r], n)
  <2>1. ids + 1 \in Nat \ {0}
    BY DEF RunInv, RunTypeOK
  <2>2. /\ p \in Pointer /\ p.id = ids + 1 /\ p.phase = "executing" /\ p.next # 0
        /\ ProgressValid(p) /\ ClosureRefsValid(p)
    BY <1>1, <1>2, <2>1, RemediatedValid
  <2>3. attempt' = p /\ Adopt(r, p, "resume")
    BY <1>2, <2>2, WriteValid
  <2>4. Reopens(r)
    <3>1. p.closed = WithoutClosures(attempt.closed, InvalidationSet(roots[r])) /\ p.run = attempt.run
      BY DEF Remediated, RunInv, RunTypeOK, Pointer
    <3> HIDE DEF p
    <3> QED
      BY <1>1, <1>2, <2>2, <2>3, <3>1 DEF Reopens
  <2> HIDE DEF p
  <2> QED
    BY <1>1, <1>2, <2>1, <2>2, <2>3, <2>4, PointerWritten DEF Leased
<1>3. ASSUME Goto(r, "release"), UNCHANGED <<attempt, ids, copy>>
      PROVE  RunInv'
  <2> USE <1>3 DEF Goto, diskVars
  <2>1. RunTypeOK'
    BY DEF RunInv, RunTypeOK, Leased
  <2>2. AttemptInv'
    BY AttemptKept DEF RunInv
  <2>3. RunnerInv(r)'
    BY DEF RunInv, RunTypeOK, RunnerInv, Leased, Holding, Working
  <2>4. ASSUME NEW s \in Runner, s # r PROVE RunnerInv(s)'
    BY <2>4, <1>1, OthersRest DEF RunInv, RunTypeOK
  <2> QED
    BY <2>1, <2>2, <2>3, <2>4 DEF RunInv
<1> QED
  BY <1>2, <1>3

(* A transition within a valid attempt that keeps its closures.            *)
LEMMA PhaseChanged ==
  ASSUME RunInv, attempt.phase # "none",
         NEW f \in {"executing", "closure_pending", "blocked", "closed"},
         f \in LegalTransitions[attempt.phase],
         f = "executing" => attempt.next # 0,
         f \in {"closure_pending", "closed"} => attempt.next = 0
  PROVE  LET p == Transitioned(attempt, f, attempt.next, attempt.closed) IN
           /\ p \in Pointer /\ p.id = attempt.id /\ p.phase = f /\ p.next = attempt.next
           /\ p.run = attempt.run /\ p.closed = attempt.closed
           /\ TransitionLegal(attempt, p) /\ ProgressValid(p) /\ ClosureRefsValid(p)
<1> DEFINE p == Transitioned(attempt, f, attempt.next, attempt.closed)
<1>1. attempt \in Pointer /\ ProgressValid(attempt) /\ ClosureRefsValid(attempt)
  BY DEF RunInv, RunTypeOK, AttemptInv
<1>2. /\ p \in Pointer /\ p.id = attempt.id /\ p.phase = f /\ p.next = attempt.next
      /\ p.run = attempt.run /\ p.closed = attempt.closed
      /\ p.started = (attempt.started \/ f # "blocked")
  BY <1>1 DEF Transitioned, Pointer, Phase
<1>3. f \in {"closure_pending", "closed"} => AllClosed(attempt.closed)
  BY <1>1 DEF ProgressValid, ComesNext
<1>4. ProgressValid(p)
  BY <1>1, <1>2, <1>3 DEF ProgressValid
<1>5. ClosureRefsValid(p)
  <2> HIDE DEF p
  <2> QED
    BY <1>1, <1>2 DEF ClosureRefsValid
<1>6. TransitionLegal(attempt, p)
  BY <1>1, <1>2 DEF TransitionLegal, ProgressValid
<1> QED
  BY <1>2, <1>4, <1>5, <1>6

(* A prepared or blocked attempt goes on where its closures say.           *)
LEMMA ResumeStep ==
  ASSUME RunInv, NEW r \in Runner, Resume(r)
  PROVE  RunInv' /\ (Turns \/ UNCHANGED attempt)
<1> USE DEF Resume
<1>1. /\ pc[r] \in Leased /\ copy[r] = attempt /\ attempt.phase # "none"
      /\ attempt \in Pointer /\ ProgressValid(attempt) /\ attempt.id # 0
  BY DEF RunInv, RunTypeOK, RunnerInv, AttemptInv, Leased, Holding
<1>2. CASE attempt.phase \in {"prepared", "blocked"}
  <2> DEFINE f == IF attempt.next # 0 THEN "executing" ELSE "closure_pending"
             p == Transitioned(attempt, f, attempt.next, attempt.closed)
  <2>1. f \in LegalTransitions[attempt.phase]
    <3>1. attempt.phase = "prepared" => attempt.next # 0
      BY <1>1 DEF ProgressValid, ComesNext, AllClosed, NothingClosed
    <3> QED
      BY <1>2, <3>1 DEF LegalTransitions
  <2>2. /\ p \in Pointer /\ p.id = attempt.id /\ p.phase = f /\ p.next = attempt.next
        /\ TransitionLegal(attempt, p) /\ ProgressValid(p) /\ ClosureRefsValid(p)
        /\ p.run = attempt.run /\ p.closed = attempt.closed
    BY <1>1, <2>1, PhaseChanged
  <2>3. Commit(r, p, LoopHead(attempt))
    BY <1>1, <1>2
  <2>4. attempt' = p /\ Adopt(r, p, LoopHead(attempt))
    BY <1>1, <2>2, <2>3, CommitValid
  <2> HIDE DEF p
  <2>5. \/ LoopHead(attempt) = "mutate" /\ p.phase = "executing" /\ p.next # 0
        \/ LoopHead(attempt) = "campaign" /\ p.phase = "closure_pending"
    BY <2>2 DEF LoopHead
  <2>6. ids' \in Nat /\ UNCHANGED <<diskVars, files, lease, admitted, roots, seen>>
    BY DEF RunInv, RunTypeOK
  <2>7. Turns
    BY <1>2, <2>2, <2>4 DEF Turns, Unfinished
  <2> QED
    BY <1>1, <2>2, <2>4, <2>5, <2>6, <2>7, PointerWritten DEF Leased
<1>3. CASE attempt.phase \notin {"prepared", "blocked"}
  <2>1. Goto(r, LoopHead(attempt)) /\ UNCHANGED <<attempt, copy>>
    BY <1>1, <1>3
  <2>2. \/ LoopHead(attempt) = "mutate" /\ attempt.phase = "executing" /\ attempt.next # 0
        \/ LoopHead(attempt) = "campaign" /\ attempt.phase \in {"closure_pending", "closed"}
    <3>1. attempt.phase \in {"executing", "closure_pending", "closed"}
      BY <1>1, <1>3 DEF Pointer, Phase
    <3>2. attempt.phase \in {"closure_pending", "closed"} => attempt.next = 0
      BY <1>1 DEF ProgressValid, ComesNext
    <3> QED
      BY <3>1, <3>2 DEF LoopHead, RunInv, AttemptInv
  <2> HIDE DEF Resume
  <2>3. UNCHANGED <<ids, diskVars, files, lease, admitted, roots, seen>>
    BY DEF Resume
  <2> USE <2>1, <2>3 DEF Goto, diskVars
  <2>4. RunTypeOK'
    BY <2>2 DEF RunInv, RunTypeOK, Leased
  <2>5. AttemptInv'
    BY AttemptKept DEF RunInv
  <2>6. RunnerInv(r)'
    BY <1>1, <2>2 DEF RunInv, RunTypeOK, RunnerInv, Leased, Holding, Working
  <2>7. ASSUME NEW s \in Runner, s # r PROVE RunnerInv(s)'
    BY <2>7, <1>1, OthersRest DEF RunInv, RunTypeOK
  <2> QED
    BY <2>1, <2>4, <2>5, <2>6, <2>7 DEF RunInv
<1> QED
  BY <1>2, <1>3

(* An attempt with its campaign closure published is closed.               *)
LEMMA CloseStep ==
  ASSUME RunInv, NEW r \in Runner, Close(r)
  PROVE  RunInv' /\ Turns
<1> DEFINE p == Transitioned(attempt, "closed", attempt.next, attempt.closed)
<1>1. /\ pc[r] \in Leased /\ copy[r] = attempt /\ attempt.phase = "closure_pending"
      /\ attempt.id \in campaigns /\ attempt.id # 0 /\ ProgressValid(attempt)
  BY DEF Close, RunInv, RunnerInv, AttemptInv, Leased, Holding
<1>2. attempt.next = 0
  BY <1>1 DEF ProgressValid, ComesNext
<1>3. /\ p \in Pointer /\ p.id = attempt.id /\ p.phase = "closed"
      /\ p.run = attempt.run /\ p.closed = attempt.closed
      /\ TransitionLegal(attempt, p) /\ ProgressValid(p) /\ ClosureRefsValid(p)
  BY <1>1, <1>2, PhaseChanged DEF LegalTransitions
<1>4. attempt' = p /\ Adopt(r, p, "release")
  BY <1>1, <1>2, <1>3, CommitValid DEF Close
<1>5. ids' \in Nat /\ UNCHANGED <<diskVars, files, lease, admitted, roots, seen>>
  BY DEF Close, RunInv, RunTypeOK
<1>6. RunInv'
  <2> HIDE DEF p
  <2> QED
    BY <1>1, <1>3, <1>4, <1>5, PointerWritten DEF Leased
<1>7. Turns
  <2> HIDE DEF p
  <2> QED
    BY <1>1, <1>3, <1>4 DEF Turns, Unfinished, ProgressValid
<1> QED
  BY <1>6, <1>7

(* A call that failed blocks the attempt it has in memory.                 *)
LEMMA BlockStep ==
  ASSUME RunInv, NEW r \in Runner, Block(r)
  PROVE  RunInv' /\ (Turns \/ UNCHANGED attempt)
<1>1. /\ pc[r] \in Leased /\ copy[r] = attempt /\ attempt.phase # "none"
      /\ attempt \in Pointer /\ attempt.id # 0
  BY DEF Block, RunInv, RunTypeOK, RunnerInv, AttemptInv, Leased, Holding
<1>2. ids' \in Nat /\ UNCHANGED <<ids, diskVars, files, lease, admitted, roots, seen>>
  BY DEF Block, RunInv, RunTypeOK
<1>3. CASE attempt.phase \notin {"closed", "blocked"}
  <2> DEFINE p == Transitioned(attempt, "blocked", attempt.next, attempt.closed)
  <2>1. "blocked" \in LegalTransitions[attempt.phase]
    BY <1>1, <1>3 DEF LegalTransitions, Pointer, Phase
  <2>2. /\ p \in Pointer /\ p.id = attempt.id /\ p.phase = "blocked"
        /\ p.run = attempt.run /\ p.closed = attempt.closed
        /\ TransitionLegal(attempt, p) /\ ProgressValid(p) /\ ClosureRefsValid(p)
    BY <1>1, <2>1, PhaseChanged
  <2>3. attempt' = p /\ Adopt(r, p, "release")
    BY <1>1, <1>3, <2>2, CommitValid DEF Block
  <2> HIDE DEF p
  <2>4. Turns
    BY <1>1, <1>3, <2>2, <2>3 DEF Turns, Unfinished
  <2> QED
    BY <1>1, <1>2, <2>2, <2>3, <2>4, PointerWritten DEF Leased
<1>4. CASE attempt.phase \in {"closed", "blocked"}
  <2> USE <1>2 DEF Goto, diskVars
  <2>1. Goto(r, "release") /\ UNCHANGED <<attempt, copy>>
    BY <1>4 DEF Block
  <2> USE <2>1
  <2>2. RunTypeOK'
    BY DEF RunInv, RunTypeOK, Leased
  <2>3. AttemptInv'
    BY AttemptKept DEF RunInv
  <2>4. RunnerInv(r)'
    BY <1>1 DEF RunInv, RunTypeOK, RunnerInv, Leased, Holding, Working
  <2>5. ASSUME NEW s \in Runner, s # r PROVE RunnerInv(s)'
    BY <2>5, <1>1, OthersRest DEF RunInv, RunTypeOK
  <2> QED
    BY <2>1, <2>2, <2>3, <2>4, <2>5 DEF RunInv
<1> QED
  BY <1>3, <1>4

(* The closure just published closes its authority in the pointer.         *)
LEMMA AdvanceStep ==
  ASSUME RunInv, NEW r \in Runner, Advance(r)
  PROVE  RunInv' /\ Advances
<1>1. /\ pc[r] \in Leased /\ copy[r] = attempt /\ attempt.phase = "executing"
      /\ attempt.next # 0 /\ attempt.id # 0 /\ attempt \in Pointer
      /\ ProgressValid(attempt) /\ ClosureRefsValid(attempt)
      /\ \E k \in ClosureOf(attempt.id, attempt.next) :
           k[4] = DepsClosed(attempt.closed, attempt.next)
  BY DEF Advance, RunInv, RunTypeOK, RunnerInv, AttemptInv, Leased, Holding, Working
<1> DEFINE a == attempt.next
           c == [attempt.closed EXCEPT ![a] = attempt.id]
<1>2. /\ a \in Authority /\ attempt.closed \in [Authority -> Nat] /\ attempt.id \in Nat
      /\ attempt.started /\ attempt.run \in Nat
  BY <1>1 DEF Pointer, ProgressValid
<1>3. attempt.closed[a] = 0 /\ \A d \in Deps[a] : attempt.closed[d] # 0
  <2>1. ComesNext(a, attempt.closed) /\ a # 0
    BY <1>1 DEF ProgressValid
  <2> QED
    BY <1>2, <2>1 DEF ComesNext
<1>4. PICK n \in Authority \cup {0} :
        /\ ComesNext(n, c)
        /\ Commit(r, Transitioned(attempt, IF n # 0 THEN "executing" ELSE "closure_pending", n, c),
                  LoopHead(Transitioned(attempt, IF n # 0 THEN "executing" ELSE "closure_pending", n, c)))
  BY <1>1 DEF Advance
<1> DEFINE f == IF n # 0 THEN "executing" ELSE "closure_pending"
           p == Transitioned(attempt, f, n, c)
<1>5. /\ p \in Pointer /\ p.id = attempt.id /\ p.run = attempt.run /\ p.started
      /\ p.phase = f /\ p.next = n /\ p.closed = c
  BY <1>1, <1>2 DEF Transitioned, Pointer, Phase
<1>6. f \in {"executing", "closure_pending"}
  OBVIOUS
<1>7. ProgressValid(p)
  <2>1. n = 0 => AllClosed(c)
    BY <1>4 DEF ComesNext
  <2> QED
    BY <1>4, <1>5, <2>1 DEF ProgressValid
<1>8. ClosureRefsValid(p)
  <2> SUFFICES ASSUME NEW b \in Authority, c[b] # 0
               PROVE  \E k \in ClosureOf(c[b], b) :
                        k[4] = DepsClosed(c, b) /\ \A d \in Deps[b] : c[d] # 0
    BY <1>5 DEF ClosureRefsValid
  <2>1. a \notin Deps[b]
    <3>1. CASE b = a
      <4>1. \A x \in Authority : x \in Nat /\ x \notin Deps[x]
        OBVIOUS
      <4> QED
        BY <3>1, <4>1, <1>2
    <3>2. CASE b # a
      <4>1. attempt.closed[b] # 0
        BY <3>2, <1>2
      <4>2. \A d \in Deps[b] : attempt.closed[d] # 0
        BY <4>1, <1>1 DEF ClosureRefsValid
      <4> QED
        BY <4>2, <1>3
    <3> QED
      BY <3>1, <3>2
  <2>2. \A d \in Deps[b] : d \in Authority /\ c[d] = attempt.closed[d]
    BY <1>2, <2>1
  <2>3. DepsClosed(c, b) = DepsClosed(attempt.closed, b)
    BY <2>2 DEF DepsClosed
  <2>4. CASE b = a
    <3>1. c[b] = attempt.id
      BY <2>4, <1>2
    <3> QED
      BY <1>1, <1>3, <2>2, <2>3, <2>4, <3>1
  <2>5. CASE b # a
    <3>1. c[b] = attempt.closed[b]
      BY <2>5, <1>2
    <3> QED
      BY <1>1, <2>2, <2>3, <3>1 DEF ClosureRefsValid
  <2> QED
    BY <2>4, <2>5
<1>9. TransitionLegal(attempt, p)
  BY <1>1, <1>2, <1>3, <1>5, <1>6 DEF TransitionLegal, LegalTransitions
<1>10. attempt' = p /\ Adopt(r, p, LoopHead(p))
  BY <1>1, <1>4, <1>7, <1>8, <1>9, CommitValid
<1>11. /\ ids' \in Nat /\ UNCHANGED <<diskVars, files, lease, admitted, roots>>
       /\ seen' = [seen EXCEPT ![r] = Nobody]
  BY DEF Advance, RunInv, RunTypeOK
<1>12. RunInv'
  <2>1. \/ LoopHead(p) = "mutate" /\ p.phase = "executing" /\ p.next # 0
        \/ LoopHead(p) = "campaign" /\ p.phase = "closure_pending"
    BY <1>5 DEF LoopHead
  <2> HIDE DEF p
  <2> QED
    BY <1>1, <1>5, <1>7, <1>8, <1>10, <1>11, <2>1, PointerWritten DEF Leased
<1> QED
  BY <1>1, <1>2, <1>3, <1>5, <1>10, <1>12 DEF Advances

-----------------------------------------------------------------------------
(* The executor and the activation together.                               *)

(* The inductive invariant.                                                *)
Inv == ActivationTypeOK /\ ActivatorsChoose /\ RunInv

(* Every step of a runner keeps the invariant, and is one of four changes  *)
(* of the pointer or none.                                                 *)
LEMMA RunStep ==
  ASSUME Inv, NEW r \in Runner, Admit(r) \/ Step(r) \/ Fail(r) \/ Crash(r)
  PROVE  RunInv' /\ (Starts(r) \/ Reopens(r) \/ Advances \/ Turns \/ UNCHANGED attempt)
<1>1. CASE Prepare(r)
  BY <1>1, PrepareStep DEF Inv, ActivationTypeOK
<1>2. CASE Remediate(r)
  BY <1>2, RemediateStep DEF Inv
<1>3. CASE Resume(r) \/ Close(r) \/ Block(r)
  BY <1>3, ResumeStep, CloseStep, BlockStep DEF Inv
<1>4. CASE Advance(r)
  BY <1>4, AdvanceStep DEF Inv
<1>5. CASE Admit(r) \/ AcquireLease(r) \/ Inspect(r) \/ Readmit(r)
  BY <1>5, AdmitStep, AcquireLeaseStep, InspectStep, ReadmitStep
  DEF Inv, Admit, AcquireLease, Inspect, Readmit
<1>6. CASE Mutate(r) \/ PublishEvidence(r) \/ PublishClosure(r) \/ PublishCampaign(r)
  BY <1>6, MutateStep, PublishEvidenceStep, PublishClosureStep, PublishCampaignStep
  DEF Inv, Mutate, PublishEvidence, PublishClosure, PublishCampaign
<1>7. CASE Release(r) \/ TimesOut(r) \/ Fail(r) \/ Crash(r)
  BY <1>7, EndingStep DEF Inv, Release, TimesOut, Fail, Crash, Leaves
<1> QED
  BY <1>1, <1>2, <1>3, <1>4, <1>5, <1>6, <1>7 DEF Step

(* The executor's invariant reads no variable of the activation.           *)
LEMMA RunUnchanged == RunInv /\ UNCHANGED runVars => RunInv'
<1> SUFFICES ASSUME RunInv, UNCHANGED runVars PROVE RunInv'
  OBVIOUS
<1> USE DEF runVars
<1>1. RunTypeOK'
  BY DEF RunInv, RunTypeOK
<1>2. AttemptInv'
  BY AttemptKept DEF RunInv
<1>3. ASSUME NEW s \in Runner PROVE RunnerInv(s)'
  BY OthersUntouched DEF RunInv, RunnerInv
<1> QED
  BY <1>1, <1>2, <1>3 DEF RunInv

(* The invariant is inductive.                                             *)
LEMMA InvStep == Inv /\ [Next]_vars => Inv'
<1> SUFFICES ASSUME Inv, [Next]_vars PROVE Inv'
  OBVIOUS
<1>1. CASE (RunnerNext \/ Edit) /\ UNCHANGED activationVars
  <2>1. RunInv'
    BY <1>1, RunStep, EditStep DEF RunnerNext, Inv
  <2> QED
    BY <1>1, <2>1 DEF Inv, activationVars, ActivationTypeOK, ActivatorsChoose
<1>2. CASE ActivationNext /\ UNCHANGED runVars
  BY <1>2, ActivationTypeStep, RunUnchanged DEF Inv, RunInv, RunTypeOK
<1>3. CASE UNCHANGED vars
  BY <1>3, RunUnchanged DEF Inv, vars, activationVars, ActivationTypeOK, ActivatorsChoose
<1> QED
  BY <1>1, <1>2, <1>3 DEF Next

(* The invariant holds initially.                                          *)
LEMMA InvInit == Init => Inv
<1> SUFFICES ASSUME Init PROVE Inv
  OBVIOUS
<1>1. ActivationTypeOK /\ ActivatorsChoose
  BY DEF Init, ActivationInit, ActivationTypeOK, ActivatorsChoose
<1> QED
  BY <1>1, RunInit_RunInv DEF Init, Inv

(* The invariant holds in every behaviour.                                 *)
LEMMA Inductive == Spec => []Inv
BY InvInit, InvStep, PTL DEF Spec

(* Every variable of the execution and the activation keeps its type.      *)
THEOREM TypeCorrect == Spec => []TypeOK
<1>1. Inv => TypeOK
  BY DEF Inv, RunInv, TypeOK
<1> QED
  BY <1>1, Inductive, PTL

(* The executor's pointer in memory is the one on disk from the            *)
(* preparation to the release, and nobody else is there.                   *)
THEOREM LeaseHeld == Spec => []LeaseHolderCurrent
<1>1. Inv => LeaseHolderCurrent
  BY DEF Inv, RunInv, RunnerInv, LeaseHolderCurrent, Holding
<1> QED
  BY <1>1, Inductive, PTL

(* commitPointer never refuses what executeCommittedGoalRun hands it.      *)
THEOREM CommitsAccepted == Spec => []NoCommitRefused
<1>1. Inv => NoCommitRefused
  BY DEF Inv, RunInv, RunnerInv, NoCommitRefused
<1> QED
  BY <1>1, Inductive, PTL

(* parsePointer never refuses the pointer file.                            *)
THEOREM PointerOnDiskValid == Spec => []PointerValid
<1>1. Inv => PointerValid
  BY DEF Inv, RunInv, AttemptInv, PointerValid
<1> QED
  BY <1>1, Inductive, PTL

(* An adapter runs only after everything its authority depends on.         *)
THEOREM DependenciesAreFirst == Spec => []DependenciesFirst
<1>1. Inv => DependenciesFirst
  <2> SUFFICES ASSUME Inv, NEW r \in Runner,
                      pc[r] \in {"mutate", "evidence", "readmit", "closure", "advance"}
               PROVE  copy[r].next # 0 /\ \A d \in Deps[copy[r].next] : attempt.closed[d] # 0
    BY DEF DependenciesFirst
  <2>1. /\ copy[r] = attempt /\ attempt.next # 0 /\ ProgressValid(attempt)
        /\ attempt \in Pointer
    BY DEF Inv, RunInv, RunTypeOK, RunnerInv, AttemptInv, Leased, Holding, Working
  <2>2. attempt.next \in Authority /\ ComesNext(attempt.next, attempt.closed)
    BY <2>1 DEF Pointer, ProgressValid
  <2> QED
    BY <2>1, <2>2 DEF ComesNext
<1> QED
  BY <1>1, Inductive, PTL

(* A closed attempt has its campaign closure.                              *)
THEOREM ClosedIsPublished == Spec => []ClosedHasCampaign
<1>1. Inv => ClosedHasCampaign
  BY DEF Inv, RunInv, AttemptInv, ClosedHasCampaign
<1> QED
  BY <1>1, Inductive, PTL

-----------------------------------------------------------------------------
(* Activation beside the execution.  The claims run ahead of the pointer   *)
(* by one at most, and only while no attempt is under way: the activator   *)
(* that claims has the control lock and has looked at the attempt, and an  *)
(* attempt is started or reopened only for the run the claims end with.    *)

(* AttemptPinsRun, and what an activator between its claim and its rename  *)
(* relies on.                                                              *)
PinInv ==
  /\ AttemptPinsRun
  /\ attempt.run <= Len(claims)
  /\ \A x \in Activator :
       /\ apc[x] \in {"deciding", "promoting"} => control = x
       /\ apc[x] = "promoting" =>
            /\ ~Unfinished(attempt)
            /\ expected[x] + 1 = Len(claims)
            /\ active \in {0, expected[x]}

(* The executor starts and reopens attempts under the last claim only.     *)
LEMMA PinRunStep ==
  ASSUME Inv, PinInv, NEW r \in Runner, UNCHANGED activationVars,
         Starts(r) \/ Reopens(r) \/ Advances \/ Turns \/ UNCHANGED attempt
  PROVE  PinInv'
<1> USE DEF activationVars
<1>1. attempt.run \in Nat /\ Len(claims) \in Nat /\ active \in Nat
  BY DEF Inv, RunInv, RunTypeOK, ActivationTypeOK, Pointer
<1>2. CASE Starts(r) \/ Reopens(r)
  <2>1. active # 0 /\ active = Len(claims) /\ attempt'.run = Len(claims)
    BY <1>2 DEF Starts, Reopens, AtRun, CurrentRun
  <2>2. \A x \in Activator : apc[x] # "promoting"
    BY <1>1, <2>1 DEF PinInv, Inv, ActivationTypeOK
  <2> QED
    BY <1>1, <2>1, <2>2 DEF PinInv, AttemptPinsRun
<1>3. CASE Advances \/ Turns
  <2>1. Unfinished(attempt) /\ attempt'.run = attempt.run
    BY <1>3 DEF Advances, Turns, Unfinished
  <2> QED
    BY <1>1, <2>1 DEF PinInv, AttemptPinsRun
<1>4. CASE UNCHANGED attempt
  BY <1>4 DEF PinInv, AttemptPinsRun, Unfinished
<1> QED
  BY <1>2, <1>3, <1>4

(* An activator claims and promotes only when no attempt is under way, and *)
(* moves the pointer to the last claim only.                               *)
LEMMA PinActivationStep ==
  ASSUME Inv, PinInv, ActivationNext, UNCHANGED runVars
  PROVE  PinInv' /\ (active' # active => active' \in {0, Len(claims)})
<1> USE DEF AGoto, runVars
<1> DEFINE Goal == PinInv' /\ (active' # active => active' \in {0, Len(claims)})
<1>1. /\ attempt.run \in Nat /\ Len(claims) \in Nat /\ active \in Nat
      /\ claims \in Seq(Candidate) /\ expected \in [Activator -> Nat]
      /\ apc \in [Activator -> {"idle", "observed", "deciding", "promoting", "leaving"}]
      /\ (claims = <<>> <=> Len(claims) = 0)
  BY DEF Inv, RunInv, RunTypeOK, ActivationTypeOK, Pointer
<1>2. ASSUME NEW x \in Activator, Observe(x) PROVE Goal
  BY <1>1, <1>2 DEF Observe, PinInv, AttemptPinsRun, Unfinished
<1>3. ASSUME NEW x \in Activator, TakeControl(x) PROVE Goal
  BY <1>1, <1>3 DEF TakeControl, PinInv, AttemptPinsRun, Unfinished
<1>4. ASSUME NEW x \in Activator, RestoreClaimed(x, attempt) PROVE Goal
  <2>1. \A y \in Activator : apc[y] = "promoting" => y = x
    BY <1>4 DEF RestoreClaimed, PinInv
  <2>2. \A y \in Activator : apc'[y] # "promoting"
    BY <1>1, <1>4, <2>1 DEF RestoreClaimed
  <2> QED
    BY <1>1, <1>4, <2>2 DEF RestoreClaimed, PinInv, AttemptPinsRun, Unfinished
<1>5. ASSUME NEW x \in Activator, PublishClaim(x, attempt) PROVE Goal
  <2>1. /\ ~Unfinished(attempt) /\ active = expected[x]
        /\ active = 0 => claims = <<>>
    BY <1>5 DEF PublishClaim, MayClaim
  <2>2. chosen[x] \in Candidate
    BY <1>5 DEF PublishClaim, Inv, ActivatorsChoose
  <2>3. Len(claims') = active + 1
    <3>1. CASE active = Len(claims)
      BY <1>1, <1>5, <2>2, <3>1 DEF PublishClaim
    <3>2. CASE active # Len(claims)
      BY <1>1, <1>5, <2>1, <3>2 DEF PublishClaim, PinInv, AttemptPinsRun
    <3> QED
      BY <3>1, <3>2
  <2>4. Len(claims') >= Len(claims)
    BY <1>1, <2>1, <2>3 DEF PinInv, AttemptPinsRun
  <2>5. \A y \in Activator : y # x => apc'[y] \notin {"deciding", "promoting"}
    BY <1>1, <1>5 DEF PublishClaim, PinInv
  <2> QED
    BY <1>1, <1>5, <2>1, <2>3, <2>4, <2>5
    DEF PublishClaim, PinInv, AttemptPinsRun, Unfinished
<1>6. ASSUME NEW x \in Activator, ReuseOrRefuse(x, attempt) PROVE Goal
  BY <1>1, <1>6 DEF ReuseOrRefuse, PinInv, AttemptPinsRun, Unfinished
<1>7. ASSUME NEW x \in Activator, Promote(x) PROVE Goal
  <2>1. \A y \in Activator : y # x => apc'[y] \notin {"deciding", "promoting"}
    BY <1>1, <1>7 DEF Promote, PinInv
  <2> QED
    BY <1>1, <1>7, <2>1 DEF Promote, PinInv, AttemptPinsRun, Unfinished
<1>8. ASSUME NEW x \in Activator, Leave(x) PROVE Goal
  BY <1>1, <1>8 DEF Leave, PinInv, AttemptPinsRun, Unfinished
<1>9. CASE LosePointer
  BY <1>1, <1>9 DEF LosePointer, PinInv, AttemptPinsRun, Unfinished
<1> QED
  BY <1>2, <1>3, <1>4, <1>5, <1>6, <1>7, <1>8, <1>9
  DEF ActivationNext, ActivationStep, ReturnFromActivation, ControlTimesOut, ActivatorCrash

(* The two together.                                                       *)
LEMMA PinStep ==
  ASSUME Inv, PinInv, [Next]_vars
  PROVE  PinInv' /\ (active' # active => active' \in {0, Len(claims)})
<1>1. CASE RunnerNext /\ UNCHANGED activationVars
  BY <1>1, RunStep, PinRunStep DEF RunnerNext, activationVars
<1>2. CASE (Edit \/ UNCHANGED runVars) /\ UNCHANGED activationVars
  BY <1>2 DEF Edit, runVars, activationVars, PinInv, AttemptPinsRun, Unfinished
<1>3. CASE ActivationNext /\ UNCHANGED runVars
  BY <1>3, PinActivationStep
<1> QED
  BY <1>1, <1>2, <1>3 DEF Next, vars

(* Claims, pointer and attempt agree in every behaviour.                   *)
LEMMA PinInductive == Spec => [](Inv /\ PinInv)
<1>1. Init => PinInv
  BY DEF Init, ActivationInit, RunInit, PinInv, AttemptPinsRun,
         Unfinished, NoAttempt
<1>2. Inv /\ PinInv /\ [Next]_vars => PinInv'
  BY PinStep
<1> QED
  BY <1>1, <1>2, Inductive, PTL DEF Spec

(* A run is not superseded while its execution is under way, and a claim   *)
(* that got ahead of the pointer can always be rolled forward.             *)
THEOREM RunPinned == Spec => []AttemptPinsRun
BY PinInductive, PTL DEF PinInv

(* The pointer file moves to the highest claim only.                       *)
THEOREM FollowsClaims == Spec => PointerFollowsClaims
<1>1. Inv /\ PinInv /\ [Next]_vars => [active' # active => active' \in {0, Len(claims)}]_vars
  BY PinStep
<1> QED
  BY <1>1, PinInductive, PTL DEF Spec, PointerFollowsClaims

-----------------------------------------------------------------------------
(* Closures are dropped together with whatever rests on them, by a new     *)
(* attempt only.                                                           *)

(* Each of the four changes of the pointer keeps closures, or drops them   *)
(* under a new attempt id with their dependents.                           *)
LEMMA ClosuresKept ==
  ASSUME Inv, NEW r \in Runner,
         Starts(r) \/ Reopens(r) \/ Advances \/ Turns \/ UNCHANGED attempt,
         attempt'.run = attempt.run, NEW a \in Authority
  PROVE  /\ attempt.closed[a] # 0 /\ attempt'.closed[a] # attempt.closed[a] =>
              attempt'.closed[a] = 0 /\ attempt'.id = ids' /\ attempt'.id > ids
         /\ attempt'.closed[a] # 0 => \A d \in Deps[a] : attempt'.closed[d] = attempt.closed[d]
<1>1. /\ attempt.closed \in [Authority -> Nat] /\ ids \in Nat
      /\ \A d \in Deps[a] : d \in Authority /\ d # a
  BY DEF Inv, RunInv, RunTypeOK, Pointer
<1>2. ASSUME Starts(r) PROVE FALSE
  BY <1>2 DEF Starts
<1>3. CASE Reopens(r)
  <2>1. PICK S \in SUBSET Authority :
          attempt'.closed = WithoutClosures(attempt.closed, InvalidationSet(S))
    BY <1>3 DEF Reopens
  <2>2. \A b \in Authority :
          attempt'.closed[b] = IF b \in InvalidationSet(S) THEN 0 ELSE attempt.closed[b]
    BY <2>1 DEF WithoutClosures
  <2>3. a \notin InvalidationSet(S) => \A d \in Deps[a] : d \notin InvalidationSet(S)
    BY InvalidationCarries DEF CarriesDependents
  <2>4. attempt'.closed[a] # 0 => \A d \in Deps[a] : attempt'.closed[d] = attempt.closed[d]
    BY <1>1, <2>2, <2>3
  <2> QED
    BY <1>1, <1>3, <2>2, <2>4 DEF Reopens
<1>4. CASE Advances
  <2> DEFINE n == attempt.next
  <2>1. /\ n \in Authority /\ attempt.closed[n] = 0
        /\ attempt'.closed = [attempt.closed EXCEPT ![n] = attempt.id]
        /\ ClosureRefsValid(attempt)
    BY <1>4 DEF Advances, Inv, RunInv, AttemptInv
  <2> HIDE DEF n
  <2>2. \A b \in Authority : b # n => attempt'.closed[b] = attempt.closed[b]
    BY <1>1, <2>1
  <2>3. ASSUME attempt'.closed[a] # 0 PROVE n \notin Deps[a]
    <3>1. CASE a = n
      BY <1>1, <3>1
    <3>2. CASE a # n
      BY <2>1, <2>2, <2>3, <3>2 DEF ClosureRefsValid
    <3> QED
      BY <3>1, <3>2
  <2>4. attempt'.closed[a] # 0 => \A d \in Deps[a] : attempt'.closed[d] = attempt.closed[d]
    BY <1>1, <2>2, <2>3
  <2> QED
    BY <2>1, <2>2, <2>4
<1>5. CASE Turns \/ UNCHANGED attempt
  BY <1>5 DEF Turns
<1> QED
  BY <1>2, <1>3, <1>4, <1>5

(* A closure in the pointer goes away only by remediation, with all that   *)
(* rests on it, and under a new attempt id.                                *)
THEOREM OnlyRemediationReopens == Spec => ClosuresOnlyRemediated
<1> DEFINE A ==
      attempt'.run = attempt.run =>
       /\ \A a \in Authority : attempt.closed[a] # 0 /\ attempt'.closed[a] # attempt.closed[a] =>
            /\ attempt'.closed[a] = 0
            /\ attempt'.id = ids' /\ attempt'.id > ids
       /\ \A a \in Authority : attempt'.closed[a] # 0 =>
            \A d \in Deps[a] : attempt'.closed[d] = attempt.closed[d]
<1>1. Inv /\ [Next]_vars => [A]_vars
  <2> SUFFICES ASSUME Inv, [Next]_vars PROVE [A]_vars
    OBVIOUS
  <2>1. CASE RunnerNext /\ UNCHANGED activationVars
    <3>1. PICK r \in Runner : Starts(r) \/ Reopens(r) \/ Advances \/ Turns \/ UNCHANGED attempt
      BY <2>1, RunStep DEF RunnerNext
    <3> QED
      BY <3>1, ClosuresKept
  <2>2. CASE Edit \/ UNCHANGED runVars
    BY <2>2 DEF Edit, runVars
  <2> QED
    BY <2>1, <2>2 DEF Next, vars
<1> QED
  BY <1>1, Inductive, PTL DEF Spec, ClosuresOnlyRemediated

-----------------------------------------------------------------------------
(* The abstract campaign.                                                  *)

(* Each of the four changes of the pointer is a step of GoalCampaign.      *)
LEMMA CampaignStep ==
  ASSUME Inv, PinInv, [Next]_vars
  PROVE  [Campaign!Next]_(Campaign!campaign)
<1> DEFINE done == {a \in Authority : attempt.closed[a] # 0}
           status == IF attempt.phase = "none" THEN "none"
                     ELSE IF attempt.phase = "closed" THEN "finished" ELSE "open"
<1>1. /\ attempt.closed \in [Authority -> Nat] /\ attempt.run \in Nat
      /\ active \in Nat /\ Len(claims) \in Nat
      /\ admitted \in [Runner -> Nat]
  BY DEF Inv, RunInv, RunTypeOK, ActivationTypeOK, Pointer
<1>2. ASSUME UNCHANGED attempt PROVE UNCHANGED Campaign!campaign
  BY <1>2 DEF Campaign!campaign
<1>3. ASSUME NEW r \in Runner, Starts(r) PROVE Campaign!Next
  <2>1. attempt'.run \in Nat /\ attempt'.run > attempt.run
    BY <1>1, <1>3 DEF Starts, AtRun, CurrentRun, PinInv
  <2>2. done' = {} /\ status' = "open" /\ status # "open"
    BY <1>3 DEF Starts, NothingClosed, Unfinished
  <2>3. Campaign!StartRun
    BY <2>1, <2>2 DEF Campaign!StartRun
  <2> QED
    BY <2>3 DEF Campaign!Next
<1>4. ASSUME NEW r \in Runner, Reopens(r) PROVE Campaign!Next
  <2>1. PICK S \in SUBSET Authority :
          S # {} /\ attempt'.closed = WithoutClosures(attempt.closed, InvalidationSet(S))
    BY <1>4 DEF Reopens
  <2>2. \A b \in Authority :
          attempt'.closed[b] = IF b \in InvalidationSet(S) THEN 0 ELSE attempt.closed[b]
    BY <2>1 DEF WithoutClosures
  <2>3. done' = done \ InvalidationSet(S)
    BY <2>2
  <2>4. done' \subseteq done /\ done' # Authority
    BY <2>1, <2>3, InvalidationCarries
  <2>5. ASSUME NEW a \in done' PROVE Deps[a] \subseteq done'
    <3>1. a \in Authority /\ a \in done /\ a \notin InvalidationSet(S)
      BY <2>3
    <3>2. Deps[a] \subseteq done
      <4>1. ClosureRefsValid(attempt)
        BY <1>4 DEF Reopens, Inv, RunInv, AttemptInv
      <4> QED
        BY <3>1, <4>1 DEF ClosureRefsValid
    <3>3. Deps[a] \cap InvalidationSet(S) = {}
      BY <3>1, InvalidationCarries DEF CarriesDependents
    <3> QED
      BY <2>3, <3>2, <3>3
  <2>6. status # "none" /\ status' = "open" /\ attempt'.run = attempt.run
    BY <1>4 DEF Reopens
  <2>7. Campaign!Reopen
    BY <2>4, <2>5, <2>6 DEF Campaign!Reopen
  <2> QED
    BY <2>7 DEF Campaign!Next
<1>5. ASSUME Advances PROVE Campaign!Next
  <2> PICK n \in Authority : n = attempt.next
    BY <1>5 DEF Advances
  <2>1. n \notin done /\ Deps[n] \subseteq done
    BY <1>5 DEF Advances
  <2>2. done' = done \cup {n}
    BY <1>1, <1>5 DEF Advances
  <2>3. status = "open" /\ status' = "open" /\ attempt'.run = attempt.run
    BY <1>5 DEF Advances
  <2>4. Campaign!CloseAuthority(n)
    BY <2>1, <2>2, <2>3 DEF Campaign!CloseAuthority
  <2> QED
    BY <2>4 DEF Campaign!Next
<1>6. ASSUME Turns PROVE Campaign!Next \/ UNCHANGED Campaign!campaign
  <2>1. done' = done /\ attempt'.run = attempt.run /\ status = "open"
    BY <1>6 DEF Turns, Unfinished
  <2>2. CASE attempt'.phase = "closed"
    <3>1. done = Authority /\ status' = "finished"
      BY <1>6, <2>2 DEF Turns, AllClosed
    <3>2. Campaign!Finish
      BY <2>1, <3>1 DEF Campaign!Finish
    <3> QED
      BY <3>2 DEF Campaign!Next
  <2>3. CASE attempt'.phase # "closed"
    <3>1. status' = "open"
      BY <1>6, <2>3 DEF Turns
    <3> QED
      BY <2>1, <3>1 DEF Campaign!campaign
  <2> QED
    BY <2>2, <2>3
<1>7. CASE RunnerNext /\ UNCHANGED activationVars
  <2>1. PICK r \in Runner : Starts(r) \/ Reopens(r) \/ Advances \/ Turns \/ UNCHANGED attempt
    BY <1>7, RunStep DEF RunnerNext
  <2> QED
    BY <2>1, <1>2, <1>3, <1>4, <1>5, <1>6
<1>8. CASE Edit \/ UNCHANGED runVars
  BY <1>2, <1>8 DEF Edit, runVars
<1> QED
  BY <1>7, <1>8 DEF Next, vars

(* The files and their handlers implement the campaign.                    *)
THEOREM Refinement == Spec => CampaignSpec
<1>1. Init => Campaign!Init
  BY DEF Init, RunInit, NoAttempt, NothingClosed, Campaign!Init
<1> QED
  BY <1>1, CampaignStep, PinInductive, PTL DEF Spec, CampaignSpec, Campaign!Spec

-----------------------------------------------------------------------------
(* Write-once artifacts.  Only the runner at the lease writes evidence, and *)
(* only where it found neither evidence nor a torn file; a closure is       *)
(* written only over the evidence it was admitted with.                     *)

(* WrittenOnce, and what a runner has found out before it publishes.       *)
ArtifactInv ==
  /\ WrittenOnce
  /\ \A r \in Runner : pc[r] = "evidence" =>
       /\ EvidenceOf(copy[r].id, copy[r].next) = {}
       /\ <<"evidence", copy[r].id, copy[r].next>> \notin torn
  /\ \A r \in Runner : pc[r] \in {"readmit", "closure"} =>
       <<copy[r].id, copy[r].next, seen[r]>> \in evidence

(* One runner at a time has the lease.                                     *)
LEMMA OnlyLeased ==
  ASSUME RunInv, NEW r \in Runner, pc[r] \in Leased, NEW s \in Runner, s # r
  PROVE  pc[s] \notin Leased
BY DEF RunInv, RunnerInv

(* A step that publishes nothing keeps the artifacts' invariant.           *)
LEMMA ArtifactsUntouched ==
  ASSUME RunInv, ArtifactInv, NEW r \in Runner,
         UNCHANGED <<evidence, closures, torn>>,
         pc'[r] \notin {"evidence", "readmit", "closure"},
         \A s \in Runner \ {r} : pc'[s] = pc[s] /\ copy'[s] = copy[s] /\ seen'[s] = seen[s]
  PROVE  ArtifactInv'
BY DEF ArtifactInv, WrittenOnce, EvidenceOf

(* Every step of a runner keeps the artifacts' invariant.                  *)
LEMMA ArtifactStep ==
  ASSUME Inv, ArtifactInv, NEW r \in Runner, Admit(r) \/ Step(r) \/ Fail(r) \/ Crash(r)
  PROVE  ArtifactInv'
<1> USE DEF diskVars
<1>1. /\ RunInv /\ pc \in [Runner -> {"idle", "admitted"} \cup Leased]
      /\ copy \in [Runner -> Pointer] /\ seen \in [Runner -> Content \cup {Nobody}]
  BY DEF Inv, RunInv, RunTypeOK
<1>2. CASE Admit(r) \/ AcquireLease(r) \/ Inspect(r)
  BY <1>1, <1>2, ArtifactsUntouched DEF Admit, AcquireLease, Inspect, Goto
<1>3. CASE Prepare(r) \/ Remediate(r)
  BY <1>1, <1>3, ArtifactsUntouched DEF Prepare, Remediate, Write, Adopt, Goto
<1>4. CASE Resume(r) \/ Close(r) \/ Block(r) \/ Advance(r)
  <2>1. \A p : LoopHead(p) \in {"mutate", "campaign"}
    BY DEF LoopHead
  <2>2. CASE Resume(r)
    BY <1>1, <2>1, <2>2, ArtifactsUntouched DEF Resume, Commit, Write, Adopt, Goto
  <2>3. CASE Close(r) \/ Block(r)
    BY <1>1, <2>3, ArtifactsUntouched DEF Close, Block, Commit, Write, Adopt, Goto
  <2>4. CASE Advance(r)
    BY <1>1, <2>1, <2>4, ArtifactsUntouched DEF Advance, Commit, Write, Adopt, Goto
  <2> QED
    BY <1>4, <2>2, <2>3, <2>4
<1>5. CASE PublishCampaign(r)
  BY <1>1, <1>5, ArtifactsUntouched DEF PublishCampaign, Goto
<1>6. CASE Release(r) \/ TimesOut(r)
  BY <1>1, <1>6, ArtifactsUntouched DEF Release, TimesOut, Leaves, Goto
<1>7. CASE Mutate(r)
  <2>1. \A s \in Runner \ {r} : pc'[s] = pc[s] /\ pc[s] \notin Leased
    BY <1>1, <1>7, OnlyLeased DEF Mutate, Goto, Leased
  <2>2. copy' = copy /\ evidence' = evidence /\ closures' = closures /\ torn' = torn
    BY <1>7 DEF Mutate
  <2>3. pc'[r] = "evidence" =>
          /\ EvidenceOf(copy[r].id, copy[r].next) = {}
          /\ <<"evidence", copy[r].id, copy[r].next>> \notin torn
    BY <1>1, <1>7 DEF Mutate, Goto
  <2>4. pc'[r] \notin {"closure"}
    BY <1>1, <1>7 DEF Mutate, Goto
  <2>5. pc'[r] = "readmit" => <<copy[r].id, copy[r].next, seen'[r]>> \in evidence
    BY <1>1, <1>7 DEF Mutate, Goto, EvidenceCurrent
  <2> QED
    BY <2>1, <2>2, <2>3, <2>4, <2>5 DEF ArtifactInv, WrittenOnce, EvidenceOf, Leased
<1>8. CASE PublishEvidence(r)
  <2>1. \A s \in Runner \ {r} : pc'[s] = pc[s] /\ pc[s] \notin Leased
    BY <1>1, <1>8, OnlyLeased DEF PublishEvidence, Goto, Leased
  <2> DEFINE e == <<copy[r].id, copy[r].next, seen[r]>>
  <2>2. /\ evidence' = evidence \cup {e} /\ pc'[r] = "readmit"
        /\ UNCHANGED <<copy, seen, closures, torn>>
    BY <1>1, <1>8 DEF PublishEvidence, Goto
  <2>3. /\ \A f \in evidence : ~(f[1] = e[1] /\ f[2] = e[2])
        /\ <<"evidence", e[1], e[2]>> \notin torn
    BY <1>8 DEF PublishEvidence, ArtifactInv, EvidenceOf
  <2>4. WrittenOnce'
    <3> HIDE DEF e
    <3> QED
      BY <2>2, <2>3 DEF ArtifactInv, WrittenOnce
  <2> QED
    BY <2>1, <2>2, <2>4 DEF ArtifactInv, Leased
<1>9. CASE Readmit(r)
  <2>1. \A s \in Runner \ {r} : pc'[s] = pc[s] /\ pc[s] \notin Leased
    BY <1>1, <1>9, OnlyLeased DEF Readmit, Goto, Leased
  <2>2. pc[r] = "readmit" /\ pc'[r] # "evidence"
        /\ UNCHANGED <<copy, seen, evidence, closures, torn>>
    BY <1>1, <1>9 DEF Readmit, Goto
  <2> QED
    BY <2>1, <2>2 DEF ArtifactInv, WrittenOnce, Leased
<1>10. CASE PublishClosure(r)
  <2>1. \A s \in Runner \ {r} : pc'[s] = pc[s] /\ pc[s] \notin Leased
    BY <1>1, <1>10, OnlyLeased DEF PublishClosure, Goto, Leased
  <2> DEFINE k == <<copy[r].id, copy[r].next, seen[r], DepsClosed(copy[r].closed, copy[r].next)>>
  <2>2. /\ pc[r] = "closure" /\ pc'[r] \in {"advance", "block"}
        /\ UNCHANGED <<copy, seen, evidence, torn>>
        /\ \/ closures' = closures
           \/ /\ closures' = closures \cup {k}
              /\ ClosureOf(copy[r].id, copy[r].next) \subseteq {k}
    BY <1>1, <1>10 DEF PublishClosure, Goto
  <2>3. /\ <<k[1], k[2], k[3]>> \in evidence
        /\ k[1] = copy[r].id /\ k[2] = copy[r].next
    BY <2>2 DEF ArtifactInv
  <2>4. WrittenOnce'
    <3> HIDE DEF k
    <3>1. CASE closures' = closures
      BY <2>2, <3>1 DEF ArtifactInv, WrittenOnce
    <3>2. CASE closures' # closures
      <4>1. \A j \in closures : j[1] = k[1] /\ j[2] = k[2] => j = k
        BY <2>2, <2>3, <3>2 DEF ClosureOf
      <4> QED
        BY <2>2, <2>3, <3>2, <4>1 DEF ArtifactInv, WrittenOnce
    <3> QED
      BY <3>1, <3>2
  <2> QED
    BY <2>1, <2>2, <2>4 DEF ArtifactInv, Leased
<1>11. CASE Fail(r) \/ Crash(r)
  <2>1. /\ UNCHANGED <<evidence, closures>> /\ pc'[r] \in {"idle", "block", "release"}
        /\ \A s \in Runner \ {r} : pc'[s] = pc[s] /\ copy'[s] = copy[s] /\ seen'[s] = seen[s]
    BY <1>1, <1>11 DEF Fail, Crash, Leaves, Goto
  <2>2. PICK T \in SUBSET Pending(r) : torn' = torn \cup T
    BY <1>11 DEF Fail, Crash, MayTear
  <2>3. CASE T = {}
    <3>1. torn' = torn
      BY <2>2, <2>3
    <3> QED
      BY <1>1, <2>1, <3>1, ArtifactsUntouched
  <2>4. CASE T # {}
    <3>1. pc[r] \in {"evidence", "closure", "campaign"}
      BY <2>4 DEF Pending
    <3>2. \A s \in Runner \ {r} : pc[s] \notin Leased
      BY <1>1, <3>1, OnlyLeased DEF Leased
    <3>3. \A e \in evidence : <<"evidence", e[1], e[2]>> \notin Pending(r)
      BY <3>1 DEF Pending, ArtifactInv, EvidenceOf
    <3>4. WrittenOnce'
      BY <2>1, <2>2, <3>3 DEF ArtifactInv, WrittenOnce
    <3> QED
      BY <2>1, <3>2, <3>4 DEF ArtifactInv, Leased
  <2> QED
    BY <2>3, <2>4
<1> QED
  BY <1>2, <1>3, <1>4, <1>5, <1>6, <1>7, <1>8, <1>9, <1>10, <1>11 DEF Step

(* Every step keeps the artifacts' invariant.                              *)
LEMMA ArtifactNext == Inv /\ ArtifactInv /\ [Next]_vars => ArtifactInv'
<1> SUFFICES ASSUME Inv, ArtifactInv, [Next]_vars PROVE ArtifactInv'
  OBVIOUS
<1>1. CASE RunnerNext
  BY <1>1, ArtifactStep DEF RunnerNext
<1>2. CASE Edit \/ UNCHANGED runVars
  BY <1>2 DEF Edit, runVars, diskVars, localVars, ArtifactInv, WrittenOnce, EvidenceOf
<1> QED
  BY <1>1, <1>2 DEF Next, vars

(* It holds in every behaviour.                                            *)
LEMMA ArtifactsInductive == Spec => []ArtifactInv
<1>1. Init => ArtifactInv
  BY DEF Init, RunInit, ArtifactInv, WrittenOnce
<1> QED
  BY <1>1, ArtifactNext, Inductive, PTL DEF Spec

(* Evidence and closures are never given two contents, and no torn file    *)
(* stands where evidence is.                                               *)
THEOREM ArtifactsWrittenOnce == Spec => []WrittenOnce
<1>1. ArtifactInv => WrittenOnce
  BY DEF ArtifactInv
<1> QED
  BY <1>1, ArtifactsInductive, PTL

-----------------------------------------------------------------------------
(* The rounds of an authority (AuthorityRound).                            *)

(* Attempt ids are drawn in order: nothing on disk is of an attempt that   *)
(* has not been drawn yet, so a new attempt begins without artifacts.      *)
IdsDrawn ==
  /\ attempt.id <= ids
  /\ \A a \in Authority : attempt.closed[a] <= ids
  /\ \A e \in evidence : e[1] <= ids
  /\ \A k \in closures : k[1] <= ids

(* What a runner publishes is of the attempt on disk.                      *)
LEMMA IdsDrawnStep ==
  ASSUME Inv, IdsDrawn, NEW r \in Runner, Admit(r) \/ Step(r) \/ Fail(r) \/ Crash(r)
  PROVE  IdsDrawn'
<1>1. /\ ids \in Nat /\ attempt.id \in Nat /\ attempt.closed \in [Authority -> Nat]
      /\ \A e \in evidence : e[1] \in Nat
      /\ \A k \in closures : k[1] \in Nat
  BY DEF Inv, RunInv, RunTypeOK, Pointer
<1>2. ids' \in {ids, ids + 1}
  BY DEF Admit, Step, Fail, Crash, AcquireLease, Prepare, Inspect, Remediate, Resume, Mutate,
     PublishEvidence, Readmit, PublishClosure, Advance, PublishCampaign, Close, Block, Release,
     TimesOut, Leaves
<1>3. attempt'.id <= ids' /\ \A a \in Authority : attempt'.closed[a] <= ids'
  <2>1. Starts(r) \/ Reopens(r) \/ Advances \/ Turns \/ UNCHANGED attempt
    BY RunStep
  <2>2. CASE Starts(r)
    BY <1>1, <2>2 DEF Starts, NothingClosed
  <2>3. CASE Reopens(r)
    BY <1>1, <2>3 DEF Reopens, WithoutClosures, IdsDrawn
  <2>4. CASE Advances
    BY <1>1, <1>2, <2>4 DEF Advances, IdsDrawn
  <2>5. CASE Turns \/ UNCHANGED attempt
    BY <1>1, <1>2, <2>5 DEF Turns, IdsDrawn
  <2> QED
    BY <2>1, <2>2, <2>3, <2>4, <2>5
<1>4. CASE UNCHANGED <<evidence, closures>>
  <2>1. \A i \in Nat : i <= ids => i <= ids'
    BY <1>1, <1>2
  <2>2. /\ \A e \in evidence' : e[1] <= ids'
        /\ \A k \in closures' : k[1] <= ids'
    BY <1>1, <1>4, <2>1 DEF IdsDrawn
  <2> QED
    BY <1>3, <2>2 DEF IdsDrawn
<1>5. CASE PublishEvidence(r)
  <2>1. copy[r].id = attempt.id
    BY <1>5 DEF PublishEvidence, Inv, RunInv, RunnerInv, Holding, Leased
  <2> QED
    BY <1>1, <1>2, <1>3, <1>5, <2>1 DEF PublishEvidence, IdsDrawn
<1>6. CASE PublishClosure(r)
  <2>1. copy[r].id = attempt.id
    BY <1>6 DEF PublishClosure, Inv, RunInv, RunnerInv, Holding, Leased
  <2> QED
    BY <1>1, <1>2, <1>3, <1>6, <2>1 DEF PublishClosure, IdsDrawn
<1> QED
  BY <1>4, <1>5, <1>6
  DEF Admit, Step, Fail, Crash, AcquireLease, Prepare, Inspect, Remediate, Resume, Mutate,
      Readmit, Advance, PublishCampaign, Close, Block, Release, TimesOut, Leaves, diskVars

(* It holds in every behaviour.                                            *)
LEMMA IdsInductive == Spec => []IdsDrawn
<1>1. Init => IdsDrawn
  BY DEF Init, RunInit, IdsDrawn, NoAttempt, NothingClosed
<1>2. Inv /\ IdsDrawn /\ [Next]_vars => IdsDrawn'
  <2> SUFFICES ASSUME Inv, IdsDrawn, [Next]_vars PROVE IdsDrawn'
    OBVIOUS
  <2>1. CASE RunnerNext
    BY <2>1, IdsDrawnStep DEF RunnerNext
  <2>2. CASE Edit \/ UNCHANGED runVars
    BY <2>2 DEF Edit, runVars, diskVars, IdsDrawn
  <2> QED
    BY <2>1, <2>2 DEF Next, vars
<1> QED
  BY <1>1, <1>2, Inductive, PTL DEF Spec

(* Where a runner is, as an authority sees it: mine says whether it is the *)
(* authority the runner works on.                                          *)
StageAt(place, mine) ==
  IF ~mine THEN "none"
  ELSE IF place = "mutate" THEN "working"
  ELSE IF place = "evidence" THEN "observed"
  ELSE IF place \in {"readmit", "closure"} THEN "closing"
  ELSE IF place = "advance" THEN "closed" ELSE "none"
ObservedAt(place, mine, what) ==
  IF mine /\ place \in {"evidence", "readmit", "closure"} THEN {what} ELSE {}

(* One runner alone can be at work.                                        *)
LEMMA StageNow ==
  ASSUME NEW r \in Runner, NEW a, \A s \in Runner \ {r} : pc[s] \notin Working
  PROVE  /\ Stage(a) = StageAt(pc[r], copy[r].next = a)
         /\ Observed(a) = ObservedAt(pc[r], copy[r].next = a, seen[r])
<1>1. ASSUME NEW places \in SUBSET Working
      PROVE  At(a, places) = IF pc[r] \in places /\ copy[r].next = a THEN {r} ELSE {}
  BY DEF At
<1>2. /\ {"mutate"} \subseteq Working /\ {"evidence"} \subseteq Working
      /\ {"readmit", "closure"} \subseteq Working /\ {"advance"} \subseteq Working
      /\ {"evidence", "readmit", "closure"} \subseteq Working
  BY DEF Working
<1> DEFINE mine == copy[r].next = a
<1>3. /\ (At(a, {"mutate"}) # {}) <=> (pc[r] = "mutate" /\ mine)
      /\ (At(a, {"evidence"}) # {}) <=> (pc[r] = "evidence" /\ mine)
      /\ (At(a, {"readmit", "closure"}) # {}) <=> (pc[r] \in {"readmit", "closure"} /\ mine)
      /\ (At(a, {"advance"}) # {}) <=> (pc[r] = "advance" /\ mine)
  BY <1>1, <1>2
<1>4. Stage(a) = StageAt(pc[r], mine)
  BY <1>3 DEF Stage, StageAt
<1>5. Observed(a) = ObservedAt(pc[r], mine, seen[r])
  BY <1>1, <1>2 DEF Observed, ObservedAt
<1> QED
  BY <1>4, <1>5

(* The same of the next state.                                             *)
LEMMA StageThen ==
  ASSUME NEW r \in Runner, NEW a, \A s \in Runner \ {r} : pc'[s] \notin Working
  PROVE  /\ Stage(a)' = StageAt(pc'[r], copy'[r].next = a)
         /\ Observed(a)' = ObservedAt(pc'[r], copy'[r].next = a, seen'[r])
<1>1. ASSUME NEW places \in SUBSET Working
      PROVE  At(a, places)' = IF pc'[r] \in places /\ copy'[r].next = a THEN {r} ELSE {}
  BY DEF At
<1>2. /\ {"mutate"} \subseteq Working /\ {"evidence"} \subseteq Working
      /\ {"readmit", "closure"} \subseteq Working /\ {"advance"} \subseteq Working
      /\ {"evidence", "readmit", "closure"} \subseteq Working
  BY DEF Working
<1> DEFINE mine == copy'[r].next = a
<1>3. /\ (At(a, {"mutate"})' # {}) <=> (pc'[r] = "mutate" /\ mine)
      /\ (At(a, {"evidence"})' # {}) <=> (pc'[r] = "evidence" /\ mine)
      /\ (At(a, {"readmit", "closure"})' # {}) <=> (pc'[r] \in {"readmit", "closure"} /\ mine)
      /\ (At(a, {"advance"})' # {}) <=> (pc'[r] = "advance" /\ mine)
  BY <1>1, <1>2
<1>4. Stage(a)' = StageAt(pc'[r], mine)
  BY <1>3 DEF Stage, StageAt
<1>5. Observed(a)' = ObservedAt(pc'[r], mine, seen'[r])
  BY <1>1, <1>2 DEF Observed, ObservedAt
<1> QED
  BY <1>4, <1>5

(* Nobody starts, ends or goes on with the work on an authority.           *)
LEMMA StageKept ==
  ASSUME NEW a,
         \A s \in Runner : pc[s] \in Working \/ pc'[s] \in Working =>
           pc'[s] = pc[s] /\ copy'[s] = copy[s] /\ seen'[s] = seen[s]
  PROVE  Stage(a)' = Stage(a) /\ Observed(a)' = Observed(a)
<1>1. ASSUME NEW places \in SUBSET Working PROVE At(a, places)' = At(a, places)
  BY DEF At
<1>2. /\ {"mutate"} \subseteq Working /\ {"evidence"} \subseteq Working
      /\ {"readmit", "closure"} \subseteq Working /\ {"advance"} \subseteq Working
      /\ {"evidence", "readmit", "closure"} \subseteq Working
  BY DEF Working
<1>3. Stage(a)' = Stage(a)
  <2>1. /\ At(a, {"mutate"})' = At(a, {"mutate"})
        /\ At(a, {"evidence"})' = At(a, {"evidence"})
        /\ At(a, {"readmit", "closure"})' = At(a, {"readmit", "closure"})
        /\ At(a, {"advance"})' = At(a, {"advance"})
    BY <1>1, <1>2
  <2> QED
    BY <2>1 DEF Stage
<1>4. Observed(a)' = Observed(a)
  <2> DEFINE places == {"evidence", "readmit", "closure"}
  <2>1. At(a, places)' = At(a, places)
    BY <1>1, <1>2
  <2>2. \A s \in At(a, places) : seen'[s] = seen[s]
    BY <1>2 DEF At
  <2> QED
    BY <2>1, <2>2 DEF Observed
<1> QED
  BY <1>3, <1>4

(* Of an authority, a step may do nothing.                                 *)
LEMMA NotConcerned ==
  ASSUME NEW a \in Authority, Stage(a)' = Stage(a), Observed(a)' = Observed(a),
         files'[a] = files[a], RoundOf(a)' = RoundOf(a),
         (attempt'.closed[a] # 0) = (attempt.closed[a] # 0),
         EvidenceOf(RoundOf(a), a)' = EvidenceOf(RoundOf(a), a),
         ClosureOf(RoundOf(a), a)' = ClosureOf(RoundOf(a), a)
  PROVE  UNCHANGED Round(a)!authority
BY DEF Round!authority, Round!published, Round!inCall, Observations

(* A runner with the lease that has an authority's artifacts in hand works *)
(* in the round of that authority.                                         *)
LEMMA RoundInHand ==
  ASSUME Inv, NEW r \in Runner, pc[r] \in Working
  PROVE  /\ copy[r] = attempt /\ attempt.next \in Authority
         /\ attempt.closed[attempt.next] = 0 /\ RoundOf(attempt.next) = attempt.id
<1>1. /\ copy[r] = attempt /\ attempt.next # 0 /\ attempt \in Pointer
      /\ ProgressValid(attempt)
  BY DEF Inv, RunInv, RunTypeOK, RunnerInv, AttemptInv, Leased, Holding, Working
<1>2. ComesNext(attempt.next, attempt.closed) /\ attempt.next \in Authority
  BY <1>1 DEF ProgressValid, Pointer
<1> QED
  BY <1>1, <1>2 DEF ComesNext, RoundOf

(* A step of the lease's holder leaves the others at rest.                 *)
LEMMA HolderAlone ==
  ASSUME Inv, NEW r \in Runner, pc[r] \in Leased, NEW l, Goto(r, l)
  PROVE  /\ \A s \in Runner \ {r} : pc[s] \notin Working /\ pc'[s] \notin Working
         /\ pc'[r] = l
BY OnlyLeased DEF Inv, RunInv, RunTypeOK, Goto, Leased, Working

(* The steps outside the loop over the authorities that leave the attempt. *)
LEMMA RoundAway ==
  ASSUME Inv, NEW a \in Authority, NEW r \in Runner, NEW l, l \notin Working, Goto(r, l),
         pc[r] \notin Working, UNCHANGED <<attempt, evidence, closures, files>>,
         \A s \in Runner \ {r} : copy'[s] = copy[s] /\ seen'[s] = seen[s]
  PROVE  UNCHANGED Round(a)!authority
<1>1. pc'[r] = l /\ \A s \in Runner \ {r} : pc'[s] = pc[s]
  BY DEF Inv, RunInv, RunTypeOK, Goto
<1>2. Stage(a)' = Stage(a) /\ Observed(a)' = Observed(a)
  BY <1>1, StageKept
<1> QED
  BY <1>2, NotConcerned DEF RoundOf, EvidenceOf, ClosureOf

(* The call that works on an authority ends, or somebody else's does.      *)
LEMMA RoundEnds ==
  ASSUME Inv, NEW a \in Authority, NEW r \in Runner, NEW l, l \notin Working, Goto(r, l),
         pc[r] \in Leased, UNCHANGED <<attempt, evidence, closures, files>>
  PROVE  Round(a)!End \/ UNCHANGED Round(a)!authority
<1>1. pc'[r] = l /\ \A s \in Runner \ {r} : pc[s] \notin Working /\ pc'[s] \notin Working
  BY HolderAlone
<1>2. Stage(a)' = "none" /\ Observed(a)' = {}
  BY <1>1, StageThen DEF StageAt, ObservedAt, Working
<1>3. Stage(a) = "none" => Observed(a) = {}
  BY <1>1, StageNow DEF StageAt, ObservedAt
<1>4. RoundOf(a)' = RoundOf(a) /\ Observations(a)' = Observations(a)
      /\ ClosureOf(RoundOf(a), a)' = ClosureOf(RoundOf(a), a)
  BY DEF RoundOf, Observations, EvidenceOf, ClosureOf
<1> QED
  BY <1>2, <1>3, <1>4 DEF Round!End, Round!authority, Round!published, Round!inCall

(* A new attempt is a new round for every authority that is open in it,    *)
(* and none for those that stay closed.                                    *)
LEMMA RoundRenewed ==
  ASSUME Inv, IdsDrawn, NEW a \in Authority, NEW r \in Runner,
         Prepare(r) \/ Remediate(r)
  PROVE  Round(a)!Renew \/ UNCHANGED Round(a)!authority
<1>1. pc[r] \in {"prepare", "remediate"} /\ UNCHANGED <<evidence, closures, files, seen>>
  BY DEF Prepare, Remediate, diskVars
<1>2. \A s \in Runner \ {r} : pc[s] \notin Working /\ pc'[s] \notin Working
  BY <1>1, OnlyLeased DEF Prepare, Remediate, Write, Adopt, Goto, Inv, RunInv, RunTypeOK,
     Leased, Working
<1>3. pc'[r] \notin Working
  BY DEF Prepare, Remediate, Write, Adopt, Goto, Inv, RunInv, RunTypeOK, Working
<1>4. /\ Stage(a) = "none" /\ Observed(a) = {}
      /\ Stage(a)' = "none" /\ Observed(a)' = {}
  BY <1>1, <1>2, <1>3, StageNow, StageThen DEF StageAt, ObservedAt, Working
<1>5. /\ ids \in Nat /\ attempt.id \in Nat /\ attempt.closed \in [Authority -> Nat]
      /\ \A e \in evidence : e[1] \in Nat
      /\ \A k \in closures : k[1] \in Nat
  BY DEF Inv, RunInv, RunTypeOK, Pointer
<1>6. ASSUME attempt'.closed[a] = 0, attempt'.id = ids + 1 PROVE Round(a)!Renew
  <2>1. RoundOf(a)' = ids + 1
    BY <1>6 DEF RoundOf
  <2>2. RoundOf(a) <= ids /\ RoundOf(a) \in Nat
    BY <1>5 DEF RoundOf, IdsDrawn
  <2>3. RoundOf(a)' \in Nat /\ RoundOf(a)' > RoundOf(a)
    BY <1>5, <2>1, <2>2
  <2>4. /\ \A e \in evidence' : e[1] # RoundOf(a)'
        /\ \A k \in closures' : k[1] # RoundOf(a)'
    BY <1>1, <1>5, <2>1 DEF IdsDrawn
  <2>5. Observations(a)' = {} /\ ClosureOf(RoundOf(a), a)' = {}
    <3>1. EvidenceOf(RoundOf(a), a)' = {} /\ ClosureOf(RoundOf(a), a)' = {}
      BY <2>4 DEF EvidenceOf, ClosureOf
    <3> QED
      BY <3>1 DEF Observations
  <2> QED
    BY <1>1, <1>4, <1>6, <2>3, <2>5 DEF Round!Renew, Round!inCall
<1>7. ASSUME RoundOf(a)' = RoundOf(a), (attempt'.closed[a] # 0) = (attempt.closed[a] # 0)
      PROVE  UNCHANGED Round(a)!authority
  BY <1>1, <1>4, <1>7, NotConcerned DEF EvidenceOf, ClosureOf
<1>8. CASE Starts(r)
  BY <1>6, <1>8 DEF Starts, NothingClosed
<1>9. CASE Reopens(r)
  <2>1. attempt'.closed[a] # 0 => attempt'.closed[a] = attempt.closed[a]
    BY <1>9 DEF Reopens, WithoutClosures
  <2>2. CASE attempt'.closed[a] # 0
    BY <1>7, <2>1, <2>2 DEF RoundOf
  <2> QED
    BY <1>6, <1>9, <2>2 DEF Reopens
<1>10. CASE Advances \/ Turns \/ UNCHANGED attempt
  <2>1. CASE Advances
    <3>1. attempt.phase = "executing"
      BY <2>1 DEF Advances
    <3>2. UNCHANGED attempt \/ attempt'.id = ids + 1
      <4>1. CASE Prepare(r)
        <5>1. \A run, n : Prepared(ids + 1, run, n).id = ids + 1
          BY DEF Prepared
        <5> QED
          BY <4>1, <5>1 DEF Prepare, Write, Adopt
      <4>2. CASE Remediate(r)
        <5>1. \A S, n : Remediated(attempt, ids + 1, S, n).id = ids + 1
          <6>1. attempt \in Pointer
            BY DEF Inv, RunInv, RunTypeOK
          <6> QED
            BY <6>1 DEF Pointer, Remediated
        <5> QED
          BY <4>2, <5>1 DEF Remediate, Write, Adopt
      <4> QED
        BY <4>1, <4>2
    <3>3. attempt'.id = attempt.id
      BY <2>1 DEF Advances
    <3>4. attempt.id # ids + 1
      BY <1>5 DEF IdsDrawn
    <3>5. UNCHANGED attempt
      BY <3>2, <3>3, <3>4
    <3> QED
      BY <1>7, <3>5 DEF RoundOf
  <2>2. CASE Turns \/ UNCHANGED attempt
    BY <1>7, <2>2 DEF Turns, RoundOf
  <2> QED
    BY <1>10, <2>1, <2>2
<1> QED
  BY <1>8, <1>9, <1>10, RunStep DEF Step

(* The loop turns to its next authority.                                   *)
LEMMA RoundBegun ==
  ASSUME Inv, RunInv', NEW a \in Authority, NEW r \in Runner, pc[r] \in Leased,
         copy[r].next # a \/ pc[r] \notin Working,
         NEW l \in {"mutate", "campaign"}, Goto(r, l),
         UNCHANGED <<evidence, closures, files>>,
         RoundOf(a)' = RoundOf(a), attempt'.closed[a] = attempt.closed[a]
  PROVE  Round(a)!Begin \/ UNCHANGED Round(a)!authority
<1>1. pc'[r] = l /\ \A s \in Runner \ {r} : pc[s] \notin Working /\ pc'[s] \notin Working
  BY HolderAlone
<1>2. Stage(a) = "none" /\ Observed(a) = {}
  BY <1>1, StageNow DEF StageAt, ObservedAt, Working
<1>3. EvidenceOf(RoundOf(a), a)' = EvidenceOf(RoundOf(a), a)
      /\ ClosureOf(RoundOf(a), a)' = ClosureOf(RoundOf(a), a)
  BY DEF EvidenceOf, ClosureOf
<1>4. CASE l = "mutate" /\ copy'[r].next = a
  <2>1. /\ copy'[r] = attempt' /\ ProgressValid(attempt') /\ attempt'.next = a /\ a # 0
    BY <1>1, <1>4 DEF RunInv, RunnerInv, AttemptInv, Holding, Leased, ProgressValid
  <2>2. attempt.closed[a] = 0
    BY <2>1 DEF ProgressValid, ComesNext
  <2>3. Stage(a)' = "working" /\ Observed(a)' = {}
    BY <1>1, <1>4, StageThen DEF StageAt, ObservedAt
  <2> QED
    BY <1>2, <1>3, <2>2, <2>3 DEF Round!Begin, Round!published, Observations
<1>5. CASE ~(l = "mutate" /\ copy'[r].next = a)
  <2>1. Stage(a)' = "none" /\ Observed(a)' = {}
    BY <1>1, <1>5, StageThen DEF StageAt, ObservedAt
  <2> QED
    BY <1>2, <1>3, <2>1, NotConcerned
<1> QED
  BY <1>4, <1>5

(* Resuming, and naming a closure in the pointer.                          *)
LEMMA RoundLoop ==
  ASSUME Inv, NEW a \in Authority, NEW r \in Runner, Resume(r) \/ Advance(r)
  PROVE  Round(a)!Next \/ UNCHANGED Round(a)!authority
<1>1. RunInv' /\ UNCHANGED <<evidence, closures, files>> /\ pc[r] \in Leased
  BY RunStep DEF Step, Resume, Advance, diskVars, Leased
<1>2. PICK l \in {"mutate", "campaign", "conflict"} : Goto(r, l)
  BY DEF Resume, Advance, Commit, Write, Adopt, LoopHead
<1>3. l # "conflict"
  <2>1. pc'[r] = l
    BY <1>2 DEF Goto, Inv, RunInv, RunTypeOK
  <2> QED
    BY <1>1, <2>1 DEF RunInv, RunnerInv
<1>4. CASE Resume(r)
  <2>1. pc[r] \notin Working
    BY <1>4 DEF Resume, Working
  <2>2. Turns \/ UNCHANGED attempt
    BY <1>4, ResumeStep DEF Inv
  <2>3. RoundOf(a)' = RoundOf(a) /\ attempt'.closed[a] = attempt.closed[a]
    BY <2>2 DEF Turns, RoundOf
  <2> QED
    BY <1>1, <1>2, <1>3, <2>1, <2>3, RoundBegun DEF Round!Next
<1>5. CASE Advance(r)
  <2> DEFINE n == attempt.next
  <2>1. /\ pc[r] = "advance" /\ copy[r] = attempt /\ n \in Authority
        /\ attempt.closed[n] = 0 /\ RoundOf(n) = attempt.id
    BY <1>5, RoundInHand DEF Advance, Working
  <2>2. Advances
    BY <1>5, AdvanceStep DEF Inv
  <2>3. /\ attempt.closed \in [Authority -> Nat]
        /\ attempt'.closed = [attempt.closed EXCEPT ![n] = attempt.id]
        /\ attempt'.id = attempt.id /\ attempt.id # 0
    BY <2>2 DEF Advances, Inv, RunInv, RunTypeOK, Pointer
  <2> HIDE DEF n
  <2>4. CASE a # n
    <3>1. attempt'.closed[a] = attempt.closed[a]
      BY <2>3, <2>4
    <3>2. RoundOf(a)' = RoundOf(a)
      BY <2>3, <3>1 DEF RoundOf
    <3> QED
      BY <1>1, <1>2, <1>3, <2>1, <2>4, <3>1, <3>2, RoundBegun DEF Round!Next, n
  <2>5. CASE a = n
    <3>1. attempt'.closed[a] = attempt.id
      BY <2>3, <2>5, <2>1
    <3>2. RoundOf(a)' = RoundOf(a)
      BY <2>1, <2>3, <2>5, <3>1 DEF RoundOf
    <3>3. EvidenceOf(RoundOf(a), a)' = EvidenceOf(RoundOf(a), a)
          /\ ClosureOf(RoundOf(a), a)' = ClosureOf(RoundOf(a), a)
      BY <1>1, <3>2 DEF EvidenceOf, ClosureOf
    <3>4. ClosureOf(RoundOf(a), a) # {}
      <4>1. \E k : k \in ClosureOf(copy[r].id, copy[r].next)
        BY <2>1 DEF Inv, RunInv, RunnerInv
      <4> QED
        BY <2>1, <2>5, <4>1 DEF n
    <3>5. pc'[r] = l /\ \A s \in Runner \ {r} : pc[s] \notin Working /\ pc'[s] \notin Working
      BY <1>1, <1>2, HolderAlone
    <3>6. Stage(a) = "closed" /\ Observed(a) = {}
      BY <2>1, <2>5, <3>5, StageNow DEF StageAt, ObservedAt, n
    <3>7. l = "mutate" => copy'[r].next # a
      <4>1. l = "mutate" =>
              copy'[r] = attempt' /\ ProgressValid(attempt') /\ attempt'.next # 0
        BY <1>1, <3>5 DEF RunInv, RunnerInv, AttemptInv, Holding, Working, Leased
      <4> QED
        BY <2>3, <3>1, <4>1 DEF ProgressValid, ComesNext
    <3>8. Stage(a)' = "none" /\ Observed(a)' = {}
      BY <1>3, <3>5, <3>7, StageThen DEF StageAt, ObservedAt
    <3>9. Round(a)!Name
      BY <1>1, <2>3, <3>1, <3>2, <3>3, <3>4, <3>6, <3>8 DEF Round!Name, Observations
    <3> QED
      BY <3>9 DEF Round!Next
  <2> QED
    BY <2>4, <2>5
<1> QED
  BY <1>4, <1>5

(* What the adapter leaves behind is observed; evidence that is there is   *)
(* recovered, or the attempt is blocked.                                   *)
LEMMA RoundMutates ==
  ASSUME Inv, NEW a \in Authority, NEW r \in Runner, Mutate(r)
  PROVE  Round(a)!Next \/ UNCHANGED Round(a)!authority
<1> DEFINE n == attempt.next
<1>1. /\ pc[r] = "mutate" /\ copy[r] = attempt /\ n \in Authority
      /\ attempt.closed[n] = 0 /\ RoundOf(n) = attempt.id
  BY RoundInHand DEF Mutate, Working
<1>2. UNCHANGED <<attempt, copy, evidence, closures>> /\ files \in [Authority -> Content]
      /\ seen \in [Runner -> Content \cup {Nobody}]
  BY DEF Mutate, diskVars, Inv, RunInv, RunTypeOK
<1>3. /\ RoundOf(a)' = RoundOf(a) /\ attempt'.closed[a] = attempt.closed[a]
      /\ EvidenceOf(RoundOf(a), a)' = EvidenceOf(RoundOf(a), a)
      /\ ClosureOf(RoundOf(a), a)' = ClosureOf(RoundOf(a), a)
      /\ Observations(a)' = Observations(a)
  BY <1>2 DEF RoundOf, EvidenceOf, ClosureOf, Observations
<1>4. ASSUME NEW l, Goto(r, l)
      PROVE  /\ pc'[r] = l
             /\ Stage(a) = StageAt("mutate", n = a)
             /\ Observed(a) = ObservedAt("mutate", n = a, seen[r])
             /\ Stage(a)' = StageAt(l, n = a)
             /\ Observed(a)' = ObservedAt(l, n = a, seen'[r])
  <2>1. pc'[r] = l /\ \A s \in Runner \ {r} : pc[s] \notin Working /\ pc'[s] \notin Working
    BY <1>1, <1>4, HolderAlone DEF Leased
  <2>2. copy'[r].next = n /\ copy[r].next = n
    BY <1>1, <1>2
  <2> HIDE DEF n
  <2>3. /\ Stage(a) = StageAt(pc[r], n = a)
        /\ Observed(a) = ObservedAt(pc[r], n = a, seen[r])
    BY <2>1, <2>2, StageNow
  <2>4. /\ Stage(a)' = StageAt(l, n = a)
        /\ Observed(a)' = ObservedAt(l, n = a, seen'[r])
    BY <2>1, <2>2, StageThen
  <2> QED
    BY <1>1, <2>1, <2>3, <2>4
<1>5. CASE a # n
  <2>1. files'[a] = files[a]
    BY <1>1, <1>2, <1>5 DEF Mutate
  <2>2. PICK l : Goto(r, l)
    BY DEF Mutate
  <2>3. Stage(a)' = Stage(a) /\ Observed(a)' = Observed(a)
    BY <1>4, <1>5, <2>2 DEF StageAt, ObservedAt
  <2> QED
    BY <1>3, <2>1, <2>3, NotConcerned
<1>6. CASE a = n
  <2>1. \/ /\ EvidenceOf(attempt.id, n) = {}
           /\ \E c \in Content :
                files' = [files EXCEPT ![n] = c] /\ seen' = [seen EXCEPT ![r] = c]
           /\ Goto(r, "evidence")
        \/ /\ EvidenceCurrent(attempt.id, n)
           /\ seen' = [seen EXCEPT ![r] = files[n]] /\ Goto(r, "readmit")
           /\ UNCHANGED files
        \/ Goto(r, "block") /\ UNCHANGED files
    BY <1>1 DEF Mutate
  <2> HIDE DEF n
  <2>2. ASSUME EvidenceOf(attempt.id, n) = {}, NEW c \in Content,
               files' = [files EXCEPT ![n] = c], seen' = [seen EXCEPT ![r] = c],
               Goto(r, "evidence")
        PROVE  Round(a)!Observe
    <3>1. Stage(a) = "working" /\ Stage(a)' = "observed" /\ Observed(a)' = {c}
      BY <1>2, <1>4, <1>6, <2>2 DEF StageAt, ObservedAt
    <3>2. Observations(a) = {}
      BY <1>1, <1>6, <2>2 DEF Observations, n
    <3>3. files'[a] = c
      BY <1>2, <1>6, <2>2
    <3> QED
      BY <1>3, <3>1, <3>2, <3>3 DEF Round!Observe, Round!published
  <2>3. ASSUME EvidenceCurrent(attempt.id, n), seen' = [seen EXCEPT ![r] = files[n]],
               Goto(r, "readmit"), UNCHANGED files
        PROVE  Round(a)!Recover
    <3>1. Stage(a) = "working" /\ Stage(a)' = "closing" /\ Observed(a)' = {files[a]}
      BY <1>2, <1>4, <1>6, <2>3 DEF StageAt, ObservedAt
    <3>2. files[a] \in Observations(a)
      <4>1. <<attempt.id, a, files[a]>> \in EvidenceOf(RoundOf(a), a)
        BY <1>1, <1>6, <2>3 DEF EvidenceCurrent, EvidenceOf, n
      <4> QED
        BY <4>1 DEF Observations
    <3> QED
      BY <1>3, <2>3, <3>1, <3>2 DEF Round!Recover, Round!published
  <2>4. ASSUME Goto(r, "block"), UNCHANGED files
        PROVE  Round(a)!Next \/ UNCHANGED Round(a)!authority
    BY <1>1, <1>2, <2>4, RoundEnds DEF Round!Next, Working, Leased
  <2> QED
    BY <2>1, <2>2, <2>3, <2>4 DEF Round!Next
<1> QED
  BY <1>5, <1>6

(* The evidence of a round is what the round observed, and the first.      *)
LEMMA RoundPublishesEvidence ==
  ASSUME Inv, ArtifactInv, NEW a \in Authority, NEW r \in Runner, PublishEvidence(r)
  PROVE  Round(a)!Next \/ UNCHANGED Round(a)!authority
<1> DEFINE n == attempt.next
           e == <<attempt.id, n, seen[r]>>
<1>1. /\ pc[r] = "evidence" /\ copy[r] = attempt /\ n \in Authority
      /\ attempt.closed[n] = 0 /\ RoundOf(n) = attempt.id
  BY RoundInHand DEF PublishEvidence, Working
<1>2. /\ UNCHANGED <<attempt, copy, closures, files, seen>> /\ Goto(r, "readmit")
      /\ evidence' = evidence \cup {e}
  BY <1>1 DEF PublishEvidence
<1>3. /\ RoundOf(a)' = RoundOf(a) /\ attempt'.closed[a] = attempt.closed[a]
      /\ ClosureOf(RoundOf(a), a)' = ClosureOf(RoundOf(a), a)
  BY <1>2 DEF RoundOf, ClosureOf
<1>4. /\ Stage(a) = StageAt("evidence", n = a)
      /\ Observed(a) = ObservedAt("evidence", n = a, seen[r])
      /\ Stage(a)' = StageAt("readmit", n = a)
      /\ Observed(a)' = ObservedAt("readmit", n = a, seen[r])
  <2>1. /\ pc'[r] = "readmit"
        /\ \A s \in Runner \ {r} : pc[s] \notin Working /\ pc'[s] \notin Working
    BY <1>1, <1>2, HolderAlone DEF Leased
  <2>2. copy'[r].next = n /\ copy[r].next = n
    BY <1>1, <1>2
  <2> HIDE DEF n, e
  <2>3. /\ Stage(a) = StageAt(pc[r], n = a)
        /\ Observed(a) = ObservedAt(pc[r], n = a, seen[r])
    BY <2>1, <2>2, StageNow
  <2>4. /\ Stage(a)' = StageAt("readmit", n = a)
        /\ Observed(a)' = ObservedAt("readmit", n = a, seen'[r])
    BY <2>1, <2>2, StageThen
  <2> QED
    BY <1>1, <1>2, <2>3, <2>4
<1>5. CASE a # n
  <2>1. EvidenceOf(RoundOf(a), a)' = EvidenceOf(RoundOf(a), a)
    BY <1>2, <1>3, <1>5 DEF EvidenceOf
  <2>2. Stage(a)' = Stage(a) /\ Observed(a)' = Observed(a)
    BY <1>4, <1>5 DEF StageAt, ObservedAt
  <2> QED
    BY <1>2, <1>3, <2>1, <2>2, NotConcerned
<1>6. CASE a = n
  <2>1. EvidenceOf(attempt.id, n) = {}
    BY <1>1 DEF ArtifactInv
  <2>2. EvidenceOf(RoundOf(a), a)' = {e}
    BY <1>1, <1>2, <1>3, <1>6, <2>1 DEF EvidenceOf
  <2>3. Observations(a) = {} /\ Observations(a)' = {seen[r]}
    BY <1>1, <1>6, <2>1, <2>2 DEF Observations
  <2> HIDE DEF n, e
  <2>4. /\ Stage(a) = "observed" /\ Observed(a) = {seen[r]}
        /\ Stage(a)' = "closing" /\ Observed(a)' = {seen[r]}
    BY <1>4, <1>6 DEF StageAt, ObservedAt
  <2>5. Round(a)!PublishEvidence
    BY <1>2, <1>3, <2>3, <2>4 DEF Round!PublishEvidence
  <2> QED
    BY <2>5 DEF Round!Next
<1> QED
  BY <1>5, <1>6

(* The committed run is resolved again: the round goes on, or ends.        *)
LEMMA RoundReadmits ==
  ASSUME Inv, NEW a \in Authority, NEW r \in Runner, Readmit(r)
  PROVE  Round(a)!End \/ UNCHANGED Round(a)!authority
<1>1. /\ pc[r] = "readmit" /\ (Goto(r, "closure") \/ Goto(r, "block"))
      /\ UNCHANGED <<attempt, copy, evidence, closures, files, seen>>
  BY DEF Readmit, diskVars
<1>2. CASE Goto(r, "closure")
  <2>1. /\ pc'[r] = "closure"
        /\ \A s \in Runner \ {r} : pc[s] \notin Working /\ pc'[s] \notin Working
    BY <1>1, <1>2, HolderAlone DEF Leased
  <2>2. Stage(a)' = Stage(a) /\ Observed(a)' = Observed(a)
    <3> DEFINE mine == copy[r].next = a
    <3>1. (copy'[r].next = a) = mine /\ seen'[r] = seen[r]
      BY <1>1
    <3>2. /\ Stage(a) = StageAt("readmit", mine)
          /\ Observed(a) = ObservedAt("readmit", mine, seen[r])
      BY <1>1, <2>1, StageNow
    <3>3. /\ Stage(a)' = StageAt("closure", mine)
          /\ Observed(a)' = ObservedAt("closure", mine, seen[r])
      BY <2>1, <3>1, StageThen
    <3> QED
      BY <3>2, <3>3 DEF StageAt, ObservedAt
  <2> QED
    BY <1>1, <2>2, NotConcerned DEF RoundOf, EvidenceOf, ClosureOf
<1>3. CASE Goto(r, "block")
  BY <1>1, <1>3, RoundEnds DEF Working, Leased
<1> QED
  BY <1>1, <1>2, <1>3

(* A closure is published over the evidence of its round.                  *)
LEMMA RoundPublishesClosure ==
  ASSUME Inv, ArtifactInv, NEW a \in Authority, NEW r \in Runner, PublishClosure(r)
  PROVE  Round(a)!Next \/ UNCHANGED Round(a)!authority
<1> DEFINE n == attempt.next
           k == <<attempt.id, n, seen[r], DepsClosed(attempt.closed, n)>>
<1>1. /\ pc[r] = "closure" /\ copy[r] = attempt /\ n \in Authority
      /\ attempt.closed[n] = 0 /\ RoundOf(n) = attempt.id
  BY RoundInHand DEF PublishClosure, Working
<1>2. /\ UNCHANGED <<attempt, copy, evidence, files, seen>>
      /\ \/ Goto(r, "block") /\ UNCHANGED closures
         \/ Goto(r, "advance") /\ closures' = closures \cup {k}
  BY <1>1 DEF PublishClosure
<1>3. CASE Goto(r, "block") /\ UNCHANGED closures
  BY <1>1, <1>2, <1>3, RoundEnds DEF Round!Next, Working, Leased
<1>4. CASE Goto(r, "advance") /\ closures' = closures \cup {k}
  <2>1. /\ RoundOf(a)' = RoundOf(a) /\ attempt'.closed[a] = attempt.closed[a]
        /\ EvidenceOf(RoundOf(a), a)' = EvidenceOf(RoundOf(a), a)
        /\ Observations(a)' = Observations(a)
    BY <1>2 DEF RoundOf, EvidenceOf, Observations
  <2>2. /\ Stage(a) = StageAt("closure", n = a)
        /\ Observed(a) = ObservedAt("closure", n = a, seen[r])
        /\ Stage(a)' = StageAt("advance", n = a)
        /\ Observed(a)' = ObservedAt("advance", n = a, seen[r])
    <3>1. /\ pc'[r] = "advance"
          /\ \A s \in Runner \ {r} : pc[s] \notin Working /\ pc'[s] \notin Working
      BY <1>1, <1>4, HolderAlone DEF Leased
    <3>2. copy'[r].next = n /\ copy[r].next = n
      BY <1>1, <1>2
    <3> HIDE DEF n, k
    <3>3. /\ Stage(a) = StageAt(pc[r], n = a)
          /\ Observed(a) = ObservedAt(pc[r], n = a, seen[r])
      BY <3>1, <3>2, StageNow
    <3>4. /\ Stage(a)' = StageAt("advance", n = a)
          /\ Observed(a)' = ObservedAt("advance", n = a, seen'[r])
      BY <3>1, <3>2, StageThen
    <3> QED
      BY <1>1, <1>2, <3>3, <3>4
  <2>3. CASE a # n
    <3>1. ClosureOf(RoundOf(a), a)' = ClosureOf(RoundOf(a), a)
      BY <1>4, <2>1, <2>3 DEF ClosureOf
    <3>2. Stage(a)' = Stage(a) /\ Observed(a)' = Observed(a)
      BY <2>2, <2>3 DEF StageAt, ObservedAt
    <3> QED
      BY <1>2, <2>1, <3>1, <3>2, NotConcerned
  <2>4. CASE a = n
    <3>1. <<attempt.id, a, seen[r]>> \in EvidenceOf(RoundOf(a), a)
      BY <1>1, <2>4 DEF ArtifactInv, EvidenceOf
    <3>2. \A e \in EvidenceOf(RoundOf(a), a) : e = <<attempt.id, a, seen[r]>>
      BY <3>1 DEF ArtifactInv, WrittenOnce, EvidenceOf
    <3>3. Observations(a) = {seen[r]}
      BY <3>1, <3>2 DEF Observations
    <3>4. ClosureOf(RoundOf(a), a)' # {}
      <4>1. k \in ClosureOf(RoundOf(a), a)'
        BY <1>1, <1>4, <2>1, <2>4 DEF ClosureOf
      <4> QED
        BY <4>1
    <3> HIDE DEF n, k
    <3>5. /\ Stage(a) = "closing" /\ Observed(a) = {seen[r]}
          /\ Stage(a)' = "closed" /\ Observed(a)' = {}
      BY <2>2, <2>4 DEF StageAt, ObservedAt
    <3>6. Round(a)!PublishClosure
      BY <1>2, <2>1, <3>3, <3>4, <3>5 DEF Round!PublishClosure
    <3> QED
      BY <3>6 DEF Round!Next
  <2> QED
    BY <2>3, <2>4
<1> QED
  BY <1>2, <1>3, <1>4

(* A change of phase alone belongs to no round.                            *)
LEMMA RoundTurns ==
  ASSUME Inv, NEW a \in Authority, NEW r \in Runner, Close(r) \/ Block(r)
  PROVE  UNCHANGED Round(a)!authority
<1>1. /\ pc[r] \in {"close", "block"} /\ UNCHANGED <<evidence, closures, files>>
      /\ Goto(r, "release") \/ Goto(r, "conflict")
  BY DEF Close, Block, Commit, Write, Adopt, diskVars
<1>2. RoundOf(a)' = RoundOf(a) /\ attempt'.closed[a] = attempt.closed[a]
  <2>1. Turns \/ UNCHANGED attempt
    BY CloseStep, BlockStep DEF Inv
  <2> QED
    BY <2>1 DEF Turns, RoundOf
<1>3. ASSUME NEW l \in {"release", "conflict"}, Goto(r, l)
      PROVE  Stage(a)' = Stage(a) /\ Observed(a)' = Observed(a)
  <2>1. pc'[r] = l /\ \A s \in Runner \ {r} : pc[s] \notin Working /\ pc'[s] \notin Working
    BY <1>1, <1>3, HolderAlone DEF Leased
  <2>2. Stage(a) = "none" /\ Observed(a) = {}
    BY <1>1, <2>1, StageNow DEF StageAt, ObservedAt
  <2>3. Stage(a)' = "none" /\ Observed(a)' = {}
    BY <2>1, StageThen DEF StageAt, ObservedAt
  <2> QED
    BY <2>2, <2>3
<1> QED
  BY <1>1, <1>2, <1>3, NotConcerned DEF EvidenceOf, ClosureOf

(* A call comes, waits, looks, confirms, or is over.                       *)
LEMMA RoundPasses ==
  ASSUME Inv, NEW a \in Authority, NEW r \in Runner,
         \/ Admit(r) \/ AcquireLease(r) \/ Inspect(r) \/ PublishCampaign(r)
         \/ Release(r) \/ TimesOut(r) \/ Fail(r) \/ Crash(r)
  PROVE  Round(a)!End \/ UNCHANGED Round(a)!authority
<1>1. copy \in [Runner -> Pointer] /\ seen \in [Runner -> Content \cup {Nobody}]
  BY DEF Inv, RunInv, RunTypeOK
<1>2. CASE Admit(r) \/ AcquireLease(r) \/ Inspect(r) \/ PublishCampaign(r)
  <2>1. PICK l \in {"admitted", "prepare", "resume", "remediate", "block", "release", "close"} :
          Goto(r, l)
    BY <1>2 DEF Admit, AcquireLease, Inspect, PublishCampaign
  <2>2. /\ pc[r] \in {"idle", "admitted", "inspect", "campaign"}
        /\ UNCHANGED <<attempt, evidence, closures, files, copy, seen>>
    BY <1>2 DEF Admit, AcquireLease, Inspect, PublishCampaign, diskVars
  <2> QED
    BY <2>1, <2>2, RoundAway DEF Working
<1>3. CASE Release(r) \/ TimesOut(r)
  <2>1. PICK l \in {"idle", "release"} : Goto(r, l)
    BY <1>3 DEF Release, TimesOut, Leaves
  <2>2. /\ pc[r] \in {"release", "conflict", "admitted", "prepare", "remediate"}
        /\ UNCHANGED <<attempt, evidence, closures, files>>
        /\ \A s \in Runner \ {r} : copy'[s] = copy[s] /\ seen'[s] = seen[s]
    BY <1>1, <1>3 DEF Release, TimesOut, Leaves, diskVars
  <2> QED
    BY <2>1, <2>2, RoundAway DEF Working
<1>4. CASE Fail(r)
  <2>1. PICK l \in {"block", "release"} : Goto(r, l)
    BY <1>4 DEF Fail
  <2>2. pc[r] \in Leased /\ UNCHANGED <<attempt, evidence, closures, files>>
    BY <1>4 DEF Fail, Inside, Leased
  <2> QED
    BY <2>1, <2>2, RoundEnds DEF Working
<1>5. CASE Crash(r)
  <2>1. /\ pc[r] # "idle" /\ Goto(r, "idle") /\ UNCHANGED <<attempt, evidence, closures, files>>
        /\ \A s \in Runner \ {r} : copy'[s] = copy[s] /\ seen'[s] = seen[s]
    BY <1>1, <1>5 DEF Crash, Leaves
  <2>2. CASE pc[r] = "admitted"
    BY <2>1, <2>2, RoundAway DEF Working
  <2>3. CASE pc[r] \in Leased
    BY <2>1, <2>3, RoundEnds DEF Working
  <2> QED
    BY <2>1, <2>2, <2>3 DEF Inv, RunInv, RunTypeOK
<1> QED
  BY <1>2, <1>3, <1>4, <1>5

(* Each step of a runner is a step of the round of one authority at most.  *)
LEMMA RoundStep ==
  ASSUME Inv, ArtifactInv, IdsDrawn, NEW a \in Authority, NEW r \in Runner,
         Admit(r) \/ Step(r) \/ Fail(r) \/ Crash(r)
  PROVE  Round(a)!Next \/ UNCHANGED Round(a)!authority
<1>1. Round(a)!Renew \/ Round(a)!End => Round(a)!Next
  BY DEF Round!Next
<1>2. CASE Prepare(r) \/ Remediate(r)
  BY <1>1, <1>2, RoundRenewed
<1>3. CASE Resume(r) \/ Advance(r)
  BY <1>3, RoundLoop
<1>4. CASE Mutate(r) \/ PublishEvidence(r) \/ PublishClosure(r)
  BY <1>4, RoundMutates, RoundPublishesEvidence, RoundPublishesClosure
<1>5. CASE Readmit(r)
  BY <1>1, <1>5, RoundReadmits
<1>6. CASE Close(r) \/ Block(r)
  BY <1>6, RoundTurns
<1>7. CASE \/ Admit(r) \/ AcquireLease(r) \/ Inspect(r) \/ PublishCampaign(r)
           \/ Release(r) \/ TimesOut(r) \/ Fail(r) \/ Crash(r)
  BY <1>1, <1>7, RoundPasses
<1> QED
  BY <1>2, <1>3, <1>4, <1>5, <1>6, <1>7 DEF Step

(* The same for everything else that happens.                              *)
LEMMA RoundNext ==
  ASSUME Inv, ArtifactInv, IdsDrawn, [Next]_vars, NEW a \in Authority
  PROVE  [Round(a)!Next]_(Round(a)!authority)
<1>1. CASE RunnerNext
  BY <1>1, RoundStep DEF RunnerNext
<1>2. CASE Edit
  <2>1. /\ UNCHANGED <<attempt, evidence, closures, pc, copy, seen>>
        /\ files \in [Authority -> Content]
        /\ \E b \in Authority, c \in Content : files' = [files EXCEPT ![b] = c]
    BY <1>2 DEF Edit, diskVars, localVars, Inv, RunInv, RunTypeOK
  <2>2. Stage(a)' = Stage(a) /\ Observed(a)' = Observed(a)
    BY <2>1, StageKept
  <2>3. files'[a] \in Content
    BY <2>1
  <2>4. Round(a)!Edit
    BY <2>1, <2>2, <2>3
    DEF Round!Edit, Round!published, Round!inCall, RoundOf, Observations, EvidenceOf, ClosureOf
  <2> QED
    BY <2>4 DEF Round!Next
<1>3. CASE UNCHANGED runVars
  <2>1. UNCHANGED <<attempt, evidence, closures, pc, copy, seen, files>>
    BY <1>3 DEF runVars
  <2>2. Stage(a)' = Stage(a) /\ Observed(a)' = Observed(a)
    BY <2>1, StageKept
  <2> QED
    BY <2>1, <2>2, NotConcerned DEF RoundOf, EvidenceOf, ClosureOf
<1> QED
  BY <1>1, <1>2, <1>3 DEF Next, vars

(* At first every authority is open, in no attempt, and nothing is there.  *)
LEMMA RoundInitial ==
  ASSUME Init, NEW a \in Authority
  PROVE  Round(a)!Init
<1>1. /\ attempt.closed[a] = 0 /\ attempt.id = 0 /\ evidence = {} /\ closures = {}
      /\ files \in [Authority -> Content] /\ pc = [r \in Runner |-> "idle"]
  BY DEF Init, RunInit, NoAttempt, NothingClosed
<1>2. Stage(a) = "none" /\ Observed(a) = {}
  <2>1. \A places : "idle" \notin places => At(a, places) = {}
    BY <1>1 DEF At
  <2> QED
    BY <2>1 DEF Stage, Observed
<1>3. RoundOf(a) = 0 /\ Observations(a) = {} /\ ClosureOf(RoundOf(a), a) = {}
  BY <1>1 DEF RoundOf, Observations, EvidenceOf, ClosureOf
<1> QED
  BY <1>1, <1>2, <1>3 DEF Round!Init

(* The executor keeps to the rounds of every authority at once: one call,  *)
(* going through the authorities, interrupted anywhere and gone on with by *)
(* anybody, looks to each of them like AuthorityRound.                     *)
THEOREM RoundsRefined == Spec => RoundsSpec
<1> DEFINE RoundsInit == \A a \in Authority : Round(a)!Init
           RoundsNext == \A a \in Authority : [Round(a)!Next]_(Round(a)!authority)
<1>1. Init => RoundsInit
  BY RoundInitial
<1>2. Inv /\ ArtifactInv /\ IdsDrawn /\ [Next]_vars => [RoundsNext]_vars
  BY RoundNext
<1>3. RoundsSpec <=> RoundsInit /\ [][RoundsNext]_vars
  BY DEF RoundsSpec
<1> HIDE DEF RoundsInit, RoundsNext
<1> QED
  BY <1>1, <1>2, <1>3, Inductive, ArtifactsInductive, IdsInductive, PTL DEF Spec

-----------------------------------------------------------------------------
(* How long a call may take.                                               *)

(* The order of the natural numbers, as a relation.                        *)
LEMMA LessWellFounded ==
  \E R : IsWellFoundedOn(R, Nat) /\ \A x, y \in Nat : <<x, y>> \in R <=> x < y
<1>1. \A x, y \in Nat : <<x, y>> \in OpToRel(<, Nat) <=> x < y
  BY DEF OpToRel
<1> QED
  BY <1>1, NatLessThanWellFounded

(* Of some numbers one is the least.                                       *)
LEMMA LeastNumber ==
  ASSUME NEW T \in SUBSET Nat, T # {}
  PROVE  \E m \in T : \A k \in T : m <= k
<1>1. PICK R : IsWellFoundedOn(R, Nat) /\ \A x, y \in Nat : <<x, y>> \in R <=> x < y
  BY LessWellFounded
<1>2. IsWellFoundedOn(R, Nat) /\ T \subseteq Nat
  BY <1>1
<1>3. \E m \in T : \A k \in T : ~(<<k, m>> \in R)
  BY <1>2, WFMin, Zenon
<1>4. PICK m \in T : \A k \in T : ~(<<k, m>> \in R)
  BY <1>3
<1>5. \A k \in T : ~(k < m)
  BY <1>1, <1>2, <1>4
<1>6. \A k \in T : m <= k
  BY <1>2, <1>5
<1> QED
  BY <1>6

(* Whatever is closed, exactly one authority comes next, or none is left:  *)
(* the executor never finds nothing to go on with, nor a choice.           *)
THEOREM OneComesNext ==
  ASSUME NEW closed \in [Authority -> Nat]
  PROVE  /\ \E n \in Authority \cup {0} : ComesNext(n, closed)
         /\ \A m, n \in Authority \cup {0} :
              ComesNext(m, closed) /\ ComesNext(n, closed) => m = n
<1> DEFINE open == {a \in Authority : closed[a] = 0}
<1>1. \E n \in Authority \cup {0} : ComesNext(n, closed)
  <2>1. CASE AllClosed(closed)
    BY <2>1 DEF ComesNext
  <2>2. CASE ~AllClosed(closed)
    <3>1. open \in SUBSET Nat /\ open # {}
      BY <2>2 DEF AllClosed
    <3>2. PICK n \in open : \A k \in open : n <= k
      <4> HIDE DEF open
      <4> QED
        BY <3>1, LeastNumber
    <3>3. \A a \in Authority : a < n => closed[a] # 0
      BY <3>2
    <3> QED
      BY <2>2, <3>2, <3>3 DEF ComesNext
  <2> QED
    BY <2>1, <2>2
<1>2. ASSUME NEW m \in Authority \cup {0}, NEW n \in Authority \cup {0},
             ComesNext(m, closed), ComesNext(n, closed)
      PROVE  m = n
  <2>1. CASE AllClosed(closed)
    BY <1>2, <2>1 DEF ComesNext
  <2>2. CASE ~AllClosed(closed)
    <3>1. /\ m \in Authority /\ closed[m] = 0 /\ ~(n < m)
          /\ n \in Authority /\ closed[n] = 0 /\ ~(m < n)
      BY <1>2, <2>2 DEF ComesNext
    <3>2. m \in Nat /\ n \in Nat
      BY <3>1
    <3> QED
      BY <3>1, <3>2
  <2> QED
    BY <2>1, <2>2
<1> QED
  BY <1>1, <1>2

Opening == {"admitted", "prepare", "inspect", "remediate", "resume"}
Ending  == {"campaign", "close", "block", "conflict", "release", "idle"}
Open(closed) == {a \in Authority : closed[a] = 0}

(* The authorities that are open are as many as there are, at most, and    *)
(* one fewer when one of them is closed.                                   *)
LEMMA OpenCount ==
  ASSUME NEW closed \in [Authority -> Nat]
  PROVE  /\ Cardinality(Open(closed)) \in Nat /\ Cardinality(Authority) \in Nat
         /\ Cardinality(Open(closed)) <= Cardinality(Authority)
         /\ \A n \in Authority, i \in Nat \ {0} : closed[n] = 0 =>
              Cardinality(Open([closed EXCEPT ![n] = i])) = Cardinality(Open(closed)) - 1
<1>1. IsFiniteSet(Authority) /\ Open(closed) \in SUBSET Authority
  BY FiniteAssumption DEF Open
<1>2. IsFiniteSet(Open(closed)) /\ Cardinality(Open(closed)) <= Cardinality(Authority)
  BY <1>1, FS_Subset
<1>3. Cardinality(Open(closed)) \in Nat /\ Cardinality(Authority) \in Nat
  BY <1>1, <1>2, FS_CardinalityType
<1>4. ASSUME NEW n \in Authority, NEW i \in Nat \ {0}, closed[n] = 0
      PROVE  Cardinality(Open([closed EXCEPT ![n] = i])) = Cardinality(Open(closed)) - 1
  <2>1. Open([closed EXCEPT ![n] = i]) = Open(closed) \ {n}
    BY <1>4 DEF Open
  <2>2. n \in Open(closed)
    BY <1>4 DEF Open
  <2>3. Cardinality(Open(closed) \ {n}) =
          IF n \in Open(closed) THEN Cardinality(Open(closed)) - 1 ELSE Cardinality(Open(closed))
    BY <1>2, FS_RemoveElement
  <2> QED
    BY <2>1, <2>2, <2>3
<1> QED
  BY <1>2, <1>3, <1>4

(* The places in the order they are passed.                                *)
LEMMA LeftOf ==
  /\ Left["admitted"] = 14 /\ Left["prepare"] = 13 /\ Left["inspect"] = 12
  /\ Left["remediate"] = 11 /\ Left["resume"] = 10 /\ Left["mutate"] = 9
  /\ Left["evidence"] = 8 /\ Left["readmit"] = 7 /\ Left["closure"] = 6
  /\ Left["advance"] = 5 /\ Left["campaign"] = 4 /\ Left["close"] = 3
  /\ Left["block"] = 2 /\ Left["conflict"] = 1 /\ Left["release"] = 1 /\ Left["idle"] = 0
BY DEF Left

(* Effort, by place.                                                       *)
LEMMA EffortNow ==
  ASSUME NEW r \in Runner, pc[r] \in Opening \cup Working \cup Ending
  PROVE  /\ pc[r] \in Opening => Effort(r) = Left[pc[r]] + 5 * Cardinality(Authority)
         /\ pc[r] \in Working =>
              Effort(r) = Left[pc[r]] + 5 * Cardinality(Open(copy[r].closed))
         /\ pc[r] \in Ending => Effort(r) = Left[pc[r]]
<1>1. Cardinality({}) = 0
  BY FS_EmptySet
<1>2. /\ pc[r] \in Opening => Ahead(r) = Authority
      /\ pc[r] \in Working => Ahead(r) = Open(copy[r].closed)
      /\ pc[r] \in Ending => Ahead(r) = {}
  BY DEF Ahead, Opening, Working, Ending, Open
<1>3. pc[r] \in Ending => Left[pc[r]] \in Nat
  BY LeftOf DEF Ending
<1>4. pc[r] \in Ending => Effort(r) = Left[pc[r]]
  <2>1. pc[r] \in Ending => Effort(r) = Left[pc[r]] + 5 * Cardinality({})
    BY <1>2 DEF Effort
  <2> QED
    BY <1>1, <1>3, <2>1
<1> QED
  BY <1>2, <1>4 DEF Effort

(* The same of the next state.                                             *)
LEMMA EffortThen ==
  ASSUME NEW r \in Runner, pc'[r] \in Opening \cup Working \cup Ending
  PROVE  /\ pc'[r] \in Opening => Effort(r)' = Left[pc'[r]] + 5 * Cardinality(Authority)
         /\ pc'[r] \in Working =>
              Effort(r)' = Left[pc'[r]] + 5 * Cardinality(Open(copy'[r].closed))
         /\ pc'[r] \in Ending => Effort(r)' = Left[pc'[r]]
<1>1. Cardinality({}) = 0
  BY FS_EmptySet
<1>2. /\ pc'[r] \in Opening => Ahead(r)' = Authority
      /\ pc'[r] \in Working => Ahead(r)' = Open(copy'[r].closed)
      /\ pc'[r] \in Ending => Ahead(r)' = {}
  BY DEF Ahead, Opening, Working, Ending, Open
<1>3. pc'[r] \in Ending => Left[pc'[r]] \in Nat
  BY LeftOf DEF Ending
<1>4. pc'[r] \in Ending => Effort(r)' = Left[pc'[r]]
  <2>1. pc'[r] \in Ending => Effort(r)' = Left[pc'[r]] + 5 * Cardinality({})
    BY <1>2 DEF Effort
  <2> QED
    BY <1>1, <1>3, <2>1
<1> QED
  BY <1>2, <1>4 DEF Effort

(* A place that comes later, and that opens no authority.                  *)
Passed(l, place) ==
  \/ l \in Ending
  \/ l \in Opening \cup Working /\ place \in Opening
  \/ l \in Working /\ place \in Working

(* A step down to a later place is an effort less, as long as no authority *)
(* is opened again by it.                                                  *)
LEMMA EffortFalls ==
  ASSUME Inv, RunInv', NEW r \in Runner,
         NEW l \in Opening \cup Working \cup Ending, Goto(r, l),
         pc[r] \in Opening \cup Working \cup Ending,
         Left[l] < Left[pc[r]], Passed(l, pc[r]),
         pc[r] \in Working /\ l \in Working => copy'[r].closed = copy[r].closed
  PROVE  Effort(r)' < Effort(r)
<1>1. /\ pc'[r] = l
      /\ copy[r].closed \in [Authority -> Nat] /\ copy'[r].closed \in [Authority -> Nat]
  BY DEF Inv, RunInv, RunTypeOK, Goto, Pointer
<1> DEFINE A == Cardinality(Authority)
           O == Cardinality(Open(copy[r].closed))
           P == Cardinality(Open(copy'[r].closed))
<1>2. A \in Nat /\ O \in Nat /\ P \in Nat /\ O <= A /\ P <= A
  BY <1>1, OpenCount
<1>3. \A p \in Opening \cup Working \cup Ending : Left[p] \in Nat
  BY LeftOf DEF Opening, Working, Ending
<1>4. /\ pc[r] \in Opening => Effort(r) = Left[pc[r]] + 5 * A
      /\ pc[r] \in Working => Effort(r) = Left[pc[r]] + 5 * O
      /\ pc[r] \in Ending => Effort(r) = Left[pc[r]]
  BY EffortNow
<1>5. /\ l \in Opening => Effort(r)' = Left[l] + 5 * A
      /\ l \in Working => Effort(r)' = Left[l] + 5 * P
      /\ l \in Ending => Effort(r)' = Left[l]
  BY <1>1, EffortThen
<1>6. pc[r] \in Working /\ l \in Working => O = P
  OBVIOUS
<1>7. Left[l] \in Nat /\ Left[pc[r]] \in Nat
  BY <1>3
<1> HIDE DEF A, O, P
<1>8. CASE l \in Ending
  <2>1. Effort(r) >= Left[pc[r]]
    BY <1>2, <1>4, <1>7
  <2>2. Effort(r)' = Left[l]
    BY <1>5, <1>8
  <2>3. Effort(r) = Left[pc[r]] \/ Effort(r) = Left[pc[r]] + 5 * A \/ Effort(r) = Left[pc[r]] + 5 * O
    BY <1>4
  <2> QED
    BY <1>2, <1>7, <2>2, <2>3
<1>9. CASE l \in Opening \cup Working /\ pc[r] \in Opening
  BY <1>2, <1>4, <1>5, <1>7, <1>9
<1>10. CASE l \in Working /\ pc[r] \in Working
  BY <1>2, <1>4, <1>5, <1>6, <1>7, <1>10
<1> QED
  BY <1>8, <1>9, <1>10 DEF Passed

(* The loop comes back to its head with one authority fewer to go.         *)
LEMMA EffortOfAdvance ==
  ASSUME Inv, RunInv', NEW r \in Runner, Advance(r)
  PROVE  Effort(r)' < Effort(r)
<1>1. PICK l \in {"mutate", "campaign", "conflict"} : Goto(r, l)
  BY DEF Advance, Commit, Write, Adopt, LoopHead
<1>2. pc[r] = "advance" /\ pc'[r] = l
  BY <1>1 DEF Advance, Goto, Inv, RunInv, RunTypeOK
<1>3. CASE l # "mutate"
  BY <1>1, <1>2, <1>3, EffortFalls, LeftOf DEF Passed, Working, Ending
<1>4. CASE l = "mutate"
  <2>1. copy[r] = attempt /\ attempt.next \in Authority /\ attempt.closed[attempt.next] = 0
    BY <1>2, RoundInHand DEF Working
  <2>2. copy'[r] = attempt'
    BY <1>2, <1>4 DEF RunInv, RunnerInv, Holding, Leased
  <2>3. /\ attempt'.closed = [attempt.closed EXCEPT ![attempt.next] = attempt.id]
        /\ attempt.id \in Nat \ {0} /\ attempt.closed \in [Authority -> Nat]
    <3>1. Advances
      BY AdvanceStep DEF Inv
    <3> QED
      BY <3>1 DEF Advances, Inv, RunInv, RunTypeOK, Pointer
  <2> DEFINE O == Cardinality(Open(attempt.closed))
  <2>4. O \in Nat /\ Cardinality(Open(attempt'.closed)) = O - 1
    BY <2>1, <2>3, OpenCount
  <2>5. Effort(r) = 5 + 5 * O
    BY <1>2, <2>1, EffortNow, LeftOf DEF Working
  <2>6. Effort(r)' = 9 + 5 * (O - 1)
    BY <1>2, <1>4, <2>2, <2>4, EffortThen, LeftOf DEF Working
  <2> HIDE DEF O
  <2> QED
    BY <2>4, <2>5, <2>6
<1> QED
  BY <1>3, <1>4

(* Every step a call takes leaves it less to do.                           *)
LEMMA EffortStep ==
  ASSUME Inv, NEW r \in Runner, Step(r) \/ Fail(r) \/ Crash(r)
  PROVE  Effort(r)' < Effort(r)
<1>1. RunInv'
  BY RunStep
<1>2. pc \in [Runner -> {"idle", "admitted"} \cup Leased]
      /\ pc[r] \in Opening \cup Working \cup Ending
  BY DEF Inv, RunInv, RunTypeOK, Leased, Opening, Working, Ending
<1>3. CASE AcquireLease(r) \/ Prepare(r) \/ Inspect(r) \/ Remediate(r)
  <2>1. PICK l \in {"prepare", "inspect", "remediate", "resume", "release", "conflict"} :
          Goto(r, l) /\ Left[l] < Left[pc[r]] /\ pc[r] \in Opening
    BY <1>3, LeftOf DEF AcquireLease, Prepare, Inspect, Remediate, Write, Adopt, Opening
  <2> QED
    BY <1>1, <1>2, <2>1, EffortFalls DEF Passed, Opening, Working, Ending
<1>4. CASE Resume(r)
  <2>1. PICK l \in {"mutate", "campaign", "conflict"} : Goto(r, l)
    BY <1>4 DEF Resume, Commit, Write, Adopt, LoopHead
  <2>2. pc[r] = "resume" /\ Left[l] < Left[pc[r]]
    BY <1>4, LeftOf DEF Resume
  <2> QED
    BY <1>1, <1>2, <2>1, <2>2, EffortFalls DEF Passed, Opening, Working, Ending
<1>5. CASE Mutate(r) \/ PublishEvidence(r) \/ Readmit(r) \/ PublishClosure(r)
  <2>1. PICK l \in {"evidence", "readmit", "closure", "advance", "block"} :
          Goto(r, l) /\ Left[l] < Left[pc[r]] /\ pc[r] \in Working /\ UNCHANGED copy
    BY <1>5, LeftOf DEF Mutate, PublishEvidence, Readmit, PublishClosure, Working
  <2> QED
    BY <1>1, <1>2, <2>1, EffortFalls DEF Passed, Opening, Working, Ending
<1>6. CASE Advance(r)
  BY <1>1, <1>6, EffortOfAdvance
<1>7. CASE PublishCampaign(r) \/ Release(r) \/ TimesOut(r)
  <2>1. PICK l \in {"close", "block", "release", "idle"} :
          Goto(r, l) /\ Left[l] < Left[pc[r]]
    BY <1>7, LeftOf DEF PublishCampaign, Release, TimesOut, Leaves
  <2> QED
    BY <1>1, <1>2, <2>1, EffortFalls DEF Passed, Working, Ending
<1>8. CASE Close(r) \/ Block(r)
  <2>1. PICK l \in {"release", "conflict"} : Goto(r, l)
    BY <1>8 DEF Close, Block, Commit, Write, Adopt
  <2>2. pc[r] \in {"close", "block"}
    BY <1>8 DEF Close, Block
  <2>3. Left[l] < Left[pc[r]]
    BY <2>1, <2>2, LeftOf
  <2> QED
    BY <1>1, <1>2, <2>1, <2>3, EffortFalls DEF Passed, Working, Ending
<1>9. CASE Fail(r)
  <2>1. PICK l \in {"block", "release"} :
          /\ Goto(r, l) /\ pc[r] \in Leased \ {"release", "conflict"}
          /\ l = "block" => pc[r] # "block"
    BY <1>9 DEF Fail, Inside, Leased
  <2>2. Left[l] < Left[pc[r]]
    BY <2>1, LeftOf DEF Leased
  <2> QED
    BY <1>1, <1>2, <2>1, <2>2, EffortFalls DEF Passed, Working, Ending
<1>10. CASE Crash(r)
  <2>1. Goto(r, "idle") /\ pc[r] # "idle"
    BY <1>10 DEF Crash, Leaves
  <2>2. Left["idle"] < Left[pc[r]]
    BY <1>2, <2>1, LeftOf DEF Opening, Working, Ending
  <2> QED
    BY <1>1, <1>2, <2>1, <2>2, EffortFalls DEF Passed, Working, Ending
<1> QED
  BY <1>3, <1>4, <1>5, <1>6, <1>7, <1>8, <1>9, <1>10 DEF Step

(* What the others do leaves a call where it is.                           *)
LEMMA OthersWait ==
  ASSUME Inv, NEW r \in Runner, NEW s \in Runner, s # r,
         Admit(s) \/ Step(s) \/ Fail(s) \/ Crash(s)
  PROVE  UNCHANGED <<pc[r], copy[r]>>
<1>1. pc \in [Runner -> {"idle", "admitted"} \cup Leased] /\ copy \in [Runner -> Pointer]
  BY DEF Inv, RunInv, RunTypeOK
<1>2. pc'[r] = pc[r]
  BY <1>1 DEF Admit, Step, Fail, Crash, AcquireLease, Prepare, Inspect, Remediate, Resume,
    Mutate, PublishEvidence, Readmit, PublishClosure, Advance, PublishCampaign, Close, Block,
    Release, TimesOut, Leaves, Commit, Write, Adopt, Goto
<1>3. copy'[r] = copy[r]
  BY <1>1 DEF Admit, Step, Fail, Crash, AcquireLease, Prepare, Inspect, Remediate, Resume,
    Mutate, PublishEvidence, Readmit, PublishClosure, Advance, PublishCampaign, Close, Block,
    Release, TimesOut, Leaves, Commit, Write, Adopt, Goto
<1> QED
  BY <1>2, <1>3

(* No call goes on for ever: fourteen steps, and five for each authority.  *)
THEOREM CallsAreBounded == Spec => CallsBounded
<1> DEFINE R == \A r \in Runner : pc[r] # "idle" =>
              UNCHANGED <<pc[r], copy[r]>> \/ Effort(r)' < Effort(r)
<1>1. Inv /\ [Next]_vars => R
  <2> SUFFICES ASSUME Inv, [Next]_vars, NEW r \in Runner, pc[r] # "idle"
               PROVE  UNCHANGED <<pc[r], copy[r]>> \/ Effort(r)' < Effort(r)
    OBVIOUS
  <2>1. CASE RunnerNext
    <3>1. PICK s \in Runner : Admit(s) \/ Step(s) \/ Fail(s) \/ Crash(s)
      BY <2>1 DEF RunnerNext
    <3>2. CASE s = r
      BY <3>1, <3>2, EffortStep DEF Admit
    <3>3. CASE s # r
      BY <3>1, <3>3, OthersWait
    <3> QED
      BY <3>2, <3>3
  <2>2. CASE Edit \/ UNCHANGED runVars
    BY <2>2 DEF Edit, localVars, runVars
  <2> QED
    BY <2>1, <2>2 DEF Next, vars
<1>2. [][Next]_vars /\ []Inv => [][R]_vars
  BY <1>1, PTL
<1>3. CallsBounded <=> [][R]_vars
  BY DEF CallsBounded
<1> HIDE DEF R
<1> QED
  BY <1>2, <1>3, Inductive, PTL DEF Spec
=============================================================================
