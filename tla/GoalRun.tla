------------------------------ MODULE GoalRun ------------------------------
(***************************************************************************)
(* The execution of the active run: executeCommittedGoalRun of             *)
(* packages/bmad-speckit/src/main-agent/source-authority/scripts/          *)
(* main-agent-goal-run-executor.ts, with the attempt pointer it advances,  *)
(* the write-once artifacts it publishes and the activations that go on    *)
(* beside it.                                                              *)
(*                                                                         *)
(* A runner is a process that calls the executor.  A call is admitted for  *)
(* the active run, takes the run lease, recovers or creates the attempt    *)
(* pointer, remediates what drifted, and then closes one authority after   *)
(* another: run the adapter, publish the evidence, publish the closure,    *)
(* advance the pointer.  A call may die at any step, and the next call of  *)
(* anybody goes on from the files.                                         *)
(***************************************************************************)
EXTENDS GoalActivation

CONSTANTS
  Runner,      \* processes that call the executor
  Content      \* what the owned paths of an authority may contain

ASSUME RunnerAssumption == Nobody \notin Runner \cup Content

VARIABLES
  attempt,     \* the attempt pointer file
  ids,         \* the attempt ids drawn so far: 1..ids
  evidence,    \* evidence files: <<attempt id, authority, content it saw>>
  closures,    \* closure files: <<attempt id, authority, content, closures of Deps>>
  campaigns,   \* the attempts whose campaign closure is published
  torn,        \* names of artifacts that were created but not written out
  files,       \* what the owned paths of each authority contain now
  lease,       \* the runner that holds execution-run.lock
  pc,          \* where each runner is
  copy,        \* the pointer a runner holds in memory
  admitted,    \* the version of the active run it was admitted for
  roots,       \* what it is to remediate
  seen         \* the content its mutation observed

diskVars  == <<evidence, closures, campaigns, torn>>
localVars == <<pc, copy, admitted, roots, seen>>
runVars   == <<attempt, ids, evidence, closures, campaigns, torn, files, lease,
               pc, copy, admitted, roots, seen>>
vars      == <<activationVars, runVars>>

\* Where a runner has the lease.
Leased == {"prepare", "inspect", "remediate", "resume", "mutate", "evidence",
           "readmit", "closure", "advance", "campaign", "close", "block",
           "conflict", "release"}

ArtifactName == {"evidence", "closure", "campaign"} \X Nat \X (Authority \cup {0})

RunTypeOK ==
  /\ attempt \in Pointer /\ ids \in Nat
  /\ evidence \subseteq Nat \X Authority \X Content
  /\ \A k \in closures :
       k \in Nat \X Authority \X Content \X [Deps[k[2]] -> Nat]
  /\ campaigns \subseteq Nat
  /\ torn \subseteq ArtifactName
  /\ files \in [Authority -> Content]
  /\ lease \in Runner \cup {Nobody}
  /\ pc \in [Runner -> {"idle", "admitted"} \cup Leased]
  /\ copy \in [Runner -> Pointer]
  /\ admitted \in [Runner -> Nat]
  /\ roots \in [Runner -> SUBSET Authority]
  /\ seen \in [Runner -> Content \cup {Nobody}]

TypeOK == ActivationTypeOK /\ RunTypeOK

RunInit ==
  /\ attempt = NoAttempt /\ ids = 0
  /\ evidence = {} /\ closures = {} /\ campaigns = {} /\ torn = {}
  /\ files \in [Authority -> Content]
  /\ lease = Nobody
  /\ pc = [r \in Runner |-> "idle"]
  /\ copy = [r \in Runner |-> NoAttempt]
  /\ admitted = [r \in Runner |-> 0]
  /\ roots = [r \in Runner |-> {}]
  /\ seen = [r \in Runner |-> Nobody]

Init == ActivationInit /\ RunInit

Goto(r, l) == pc' = [pc EXCEPT ![r] = l]

AtRun(r) == CurrentRun /\ active = admitted[r]

-----------------------------------------------------------------------------
(* Write-once artifacts.  writeImmutableBytes creates the file and then    *)
(* fills it: a process that dies or fails in between leaves a torn file,   *)
(* and whoever finds different bytes under the name is refused.            *)

EvidenceOf(id, a) == {e \in evidence : e[1] = id /\ e[2] = a}
ClosureOf(id, a)  == {k \in closures : k[1] = id /\ k[2] = a}

(* The evidence file of authority a in attempt id says what the owned      *)
(* paths contain now (observedEvidenceCurrent).                            *)
EvidenceCurrent(id, a) == <<id, a, files[a]>> \in evidence

DepsClosed(closed, a) == [d \in Deps[a] |-> closed[d]]

(* verifyClosureRefs: every closure the pointer names is published and     *)
(* rests on the closures the pointer names for its dependencies.           *)
ClosureRefsValid(p) ==
  \A a \in Authority : p.closed[a] # 0 =>
    \E k \in ClosureOf(p.closed[a], a) :
      k[4] = DepsClosed(p.closed, a) /\ \A d \in Deps[a] : p.closed[d] # 0

(* The artifact a runner is about to create. *)
Pending(r) ==
  LET id == copy[r].id IN
    CASE pc[r] = "evidence" -> {<<"evidence", id, copy[r].next>>}
      [] pc[r] = "closure" /\ ClosureOf(id, copy[r].next) = {}
           -> {<<"closure", id, copy[r].next>>}
      [] pc[r] = "campaign" /\ id \notin campaigns -> {<<"campaign", id, 0>>}
      [] OTHER -> {}

MayTear(r) == \E T \in SUBSET Pending(r) : torn' = torn \cup T

-----------------------------------------------------------------------------
(* Writing the pointer.  commitPointer verifies what it is to write, the   *)
(* closures included, and renames it into place; a transition is compared  *)
(* with the pointer on disk first.  A refusal ends the call.               *)

Adopt(r, p, l) ==
  /\ copy' = [copy EXCEPT ![r] = p]
  /\ Goto(r, l)

Write(r, p, l) ==
  IF ProgressValid(p) /\ ClosureRefsValid(p)
    THEN attempt' = p /\ Adopt(r, p, l)
    ELSE Goto(r, "conflict") /\ UNCHANGED <<attempt, copy>>

Commit(r, p, l) ==
  IF copy[r] = attempt /\ TransitionLegal(attempt, p)
    THEN Write(r, p, l)
    ELSE Goto(r, "conflict") /\ UNCHANGED <<attempt, copy>>

-----------------------------------------------------------------------------
(* Opening a call.                                                         *)

Admit(r) ==
  /\ pc[r] = "idle" /\ CurrentRun
  /\ admitted' = [admitted EXCEPT ![r] = active]
  /\ Goto(r, "admitted")
  /\ UNCHANGED <<attempt, ids, diskVars, files, lease, copy, roots, seen>>

(* Mistake: the lease is not waited for. *)
AcquireLeaseUnchecked(r) ==
  /\ pc[r] = "admitted"
  /\ lease' = r
  /\ Goto(r, "prepare")
  /\ UNCHANGED <<attempt, ids, diskVars, files, copy, admitted, roots, seen>>

AcquireLease(r) ==
  /\ pc[r] = "admitted" /\ lease = Nobody
  /\ lease' = r
  /\ Goto(r, "prepare")
  /\ UNCHANGED <<attempt, ids, diskVars, files, copy, admitted, roots, seen>>

(* prepareGoalExecutionAttempt, in the execution-control lock: the active  *)
(* run is looked at again there.                                           *)
Prepare(r) ==
  /\ pc[r] = "prepare" /\ control = Nobody
  /\ \/ /\ AtRun(r) /\ attempt.phase # "none" /\ attempt.run = admitted[r]
        /\ Adopt(r, attempt, "inspect")
        /\ UNCHANGED <<attempt, ids>>
     \/ /\ AtRun(r) /\ ~Unfinished(attempt) /\ attempt.run # admitted[r]
        /\ \E n \in Authority \cup {0} :
             /\ ComesNext(n, NothingClosed)
             /\ Write(r, Prepared(ids + 1, admitted[r], n), "inspect")
        /\ ids' = ids + 1
     \/ /\ ~AtRun(r) \/ (Unfinished(attempt) /\ attempt.run # admitted[r])
        /\ Goto(r, "release")
        /\ UNCHANGED <<attempt, ids, copy>>
  /\ UNCHANGED <<diskVars, files, lease, admitted, roots, seen>>

(* The closed authorities whose owned paths no longer are as their evidence *)
(* says (closureConsumerStateCurrent).                                      *)
Drifted(p) == {a \in Authority : p.closed[a] # 0 /\ ~EvidenceCurrent(p.closed[a], a)}

(* The caller may name one authority to remediate from. *)
Inspect(r) ==
  /\ pc[r] = "inspect"
  /\ \E S \in {{}} \cup {{a} : a \in Authority} :
       LET from == S \cup Drifted(copy[r]) IN
         /\ roots' = [roots EXCEPT ![r] = from]
         /\ Goto(r, IF from = {} THEN "resume" ELSE "remediate")
  /\ UNCHANGED <<attempt, ids, diskVars, files, lease, copy, admitted, seen>>

(* remediateGoalExecutionAttempt, in the execution-control lock. *)
Remediate(r) ==
  /\ pc[r] = "remediate" /\ control = Nobody
  /\ IF AtRun(r) /\ attempt.started /\ attempt.run = admitted[r]
       THEN \E n \in Authority \cup {0} :
              LET p == Remediated(attempt, ids + 1, roots[r], n) IN
                /\ ComesNext(n, p.closed)
                /\ Write(r, p, "resume")
                /\ ids' = ids + 1
       ELSE Goto(r, "release") /\ UNCHANGED <<attempt, ids, copy>>
  /\ roots' = [roots EXCEPT ![r] = {}]
  /\ UNCHANGED <<diskVars, files, lease, admitted, seen>>

-----------------------------------------------------------------------------
(* The loop over the authorities.                                          *)

(* Mistake: the last closure is taken for the end of the campaign. *)
LoopHeadNoCampaign(p) == IF p.next # 0 THEN "mutate" ELSE "close"

LoopHead(p) == IF p.next # 0 THEN "mutate" ELSE "campaign"

Resume(r) ==
  /\ pc[r] = "resume"
  /\ LET p == copy[r]
         phase == IF p.next # 0 THEN "executing" ELSE "closure_pending" IN
       IF p.phase \in {"prepared", "blocked"}
         THEN Commit(r, Transitioned(p, phase, p.next, p.closed), LoopHead(p))
         ELSE Goto(r, LoopHead(p)) /\ UNCHANGED <<attempt, copy>>
  /\ UNCHANGED <<ids, diskVars, files, lease, admitted, roots, seen>>

(* Mistakes: evidence on disk is not looked for; it is found and not read. *)
MutateAgain(r) ==
  /\ pc[r] = "mutate"
  /\ \E c \in Content :
       /\ files' = [files EXCEPT ![copy[r].next] = c]
       /\ seen' = [seen EXCEPT ![r] = c]
  /\ Goto(r, "evidence")
  /\ UNCHANGED <<attempt, ids, diskVars, lease, copy, admitted, roots>>

MutateUnread(r) ==
  /\ pc[r] = "mutate"
  /\ IF EvidenceOf(copy[r].id, copy[r].next) = {}
       THEN /\ seen' = [seen EXCEPT ![r] = files[copy[r].next]]
            /\ Goto(r, "evidence")
       ELSE Goto(r, "readmit") /\ UNCHANGED seen
  /\ UNCHANGED <<attempt, ids, diskVars, files, lease, copy, admitted, roots>>

(* The mutation of the next authority, unless this attempt has evidence of *)
(* it already.  The adapter may leave any content; what it does outside    *)
(* the owned paths of its authority is an Edit and a Fail.                 *)
Mutate(r) ==
  /\ pc[r] = "mutate"
  /\ LET id == copy[r].id
         a  == copy[r].next IN
       \/ /\ EvidenceOf(id, a) = {} /\ <<"evidence", id, a>> \notin torn
          /\ \E c \in Content :
               /\ files' = [files EXCEPT ![a] = c]
               /\ seen' = [seen EXCEPT ![r] = c]
          /\ Goto(r, "evidence")
       \/ /\ EvidenceCurrent(id, a)
          /\ seen' = [seen EXCEPT ![r] = files[a]]
          /\ Goto(r, "readmit")
          /\ UNCHANGED files
       \/ /\ ~EvidenceCurrent(id, a)
          /\ EvidenceOf(id, a) # {} \/ <<"evidence", id, a>> \in torn
          /\ Goto(r, "block")
          /\ UNCHANGED <<files, seen>>
  /\ UNCHANGED <<attempt, ids, diskVars, lease, copy, admitted, roots>>

PublishEvidence(r) ==
  /\ pc[r] = "evidence"
  /\ evidence' = evidence \cup {<<copy[r].id, copy[r].next, seen[r]>>}
  /\ Goto(r, "readmit")
  /\ UNCHANGED <<attempt, ids, closures, campaigns, torn, files, lease, copy, admitted, roots, seen>>

(* Mistake: a call whose run is not resolved goes round once more. *)
ReadmitAgain(r) ==
  /\ pc[r] = "readmit"
  /\ Goto(r, IF AtRun(r) THEN "closure" ELSE "resume")
  /\ UNCHANGED <<attempt, ids, diskVars, files, lease, copy, admitted, roots, seen>>

(* The committed run is resolved once more before a closure is published. *)
Readmit(r) ==
  /\ pc[r] = "readmit"
  /\ Goto(r, IF AtRun(r) THEN "closure" ELSE "block")
  /\ UNCHANGED <<attempt, ids, diskVars, files, lease, copy, admitted, roots, seen>>

PublishClosure(r) ==
  /\ pc[r] = "closure"
  /\ LET id == copy[r].id
         a  == copy[r].next
         k  == <<id, a, seen[r], DepsClosed(copy[r].closed, a)>> IN
       IF /\ \A d \in Deps[a] : copy[r].closed[d] # 0
          /\ ClosureOf(id, a) \subseteq {k} /\ <<"closure", id, a>> \notin torn
         THEN closures' = closures \cup {k} /\ Goto(r, "advance")
         ELSE Goto(r, "block") /\ UNCHANGED closures
  /\ UNCHANGED <<attempt, ids, evidence, campaigns, torn, files, lease, copy, admitted, roots, seen>>

Advance(r) ==
  /\ pc[r] = "advance"
  /\ LET p == copy[r]
         closed == [p.closed EXCEPT ![p.next] = p.id] IN
       \E n \in Authority \cup {0} :
         /\ ComesNext(n, closed)
         /\ LET phase == IF n # 0 THEN "executing" ELSE "closure_pending"
                q == Transitioned(p, phase, n, closed) IN
              Commit(r, q, LoopHead(q))
  /\ seen' = [seen EXCEPT ![r] = Nobody]
  /\ UNCHANGED <<ids, diskVars, files, lease, admitted, roots>>

(* publishCampaign; for an attempt found closed it only confirms it. *)
PublishCampaign(r) ==
  /\ pc[r] = "campaign"
  /\ IF <<"campaign", copy[r].id, 0>> \in torn
       THEN Goto(r, "block") /\ UNCHANGED campaigns
       ELSE /\ campaigns' = campaigns \cup {copy[r].id}
            /\ Goto(r, IF copy[r].phase = "closed" THEN "release" ELSE "close")
  /\ UNCHANGED <<attempt, ids, evidence, closures, torn, files, lease, copy, admitted, roots, seen>>

Close(r) ==
  /\ pc[r] = "close"
  /\ Commit(r, Transitioned(copy[r], "closed", 0, copy[r].closed), "release")
  /\ UNCHANGED <<ids, diskVars, files, lease, admitted, roots, seen>>

-----------------------------------------------------------------------------
(* Ending a call.                                                          *)

(* Mistake: a mutation that failed is tried again in the same call. *)
TriesAgain(r) ==
  /\ pc[r] = "block"
  /\ Goto(r, IF copy[r].next # 0 THEN "mutate" ELSE "release")
  /\ UNCHANGED <<attempt, ids, diskVars, files, lease, copy, admitted, roots, seen>>

(* The inner catch clause: the pointer is marked blocked when it still is  *)
(* the one the call has in memory.                                         *)
Block(r) ==
  /\ pc[r] = "block"
  /\ IF copy[r] = attempt /\ attempt.phase \notin {"closed", "blocked"}
       THEN Commit(r, Transitioned(attempt, "blocked", attempt.next, attempt.closed), "release")
       ELSE Goto(r, "release") /\ UNCHANGED <<attempt, copy>>
  /\ UNCHANGED <<ids, diskVars, files, lease, admitted, roots, seen>>

(* The call ends, or its process is gone: what it knew is forgotten. *)
Leaves(r) ==
  /\ Goto(r, "idle")
  /\ lease' = IF lease = r THEN Nobody ELSE lease
  /\ copy' = [copy EXCEPT ![r] = NoAttempt]
  /\ admitted' = [admitted EXCEPT ![r] = 0]
  /\ roots' = [roots EXCEPT ![r] = {}]
  /\ seen' = [seen EXCEPT ![r] = Nobody]
  /\ UNCHANGED <<attempt, ids, evidence, closures, campaigns, files>>

Release(r) ==
  /\ pc[r] \in {"release", "conflict"}
  /\ Leaves(r) /\ UNCHANGED torn

(* A lock was not free for as long as a call waits for it. *)
TimesOut(r) ==
  \/ /\ pc[r] = "admitted" /\ lease # Nobody
     /\ Leaves(r) /\ UNCHANGED torn
  \/ /\ pc[r] \in {"prepare", "remediate"} /\ control # Nobody
     /\ Goto(r, "release")
     /\ UNCHANGED <<attempt, ids, diskVars, files, lease, copy, admitted, roots, seen>>

(* Anything that throws: a file operation, the adapter, a command, a lock  *)
(* of the pointer.  Inside the inner try block every error but a conflict  *)
(* blocks the attempt.                                                     *)
Inside(r) ==
  \/ pc[r] \in {"mutate", "evidence", "readmit", "closure", "advance", "close"}
  \/ pc[r] \in {"resume", "campaign"} /\ copy[r].phase # "closed"

Fail(r) ==
  /\ \/ Inside(r) /\ Goto(r, "block")
     \/ pc[r] \in Leased \ {"release", "conflict"} /\ Goto(r, "release")
  /\ MayTear(r)
  /\ UNCHANGED <<attempt, ids, evidence, closures, campaigns, files, lease, copy, admitted, roots, seen>>

(* The process dies anywhere; its lease becomes free. *)
Crash(r) ==
  /\ pc[r] # "idle"
  /\ Leaves(r) /\ MayTear(r)

(* Somebody else changes the owned paths of an authority. *)
Edit ==
  /\ \E a \in Authority, c \in Content :
       c # files[a] /\ files' = [files EXCEPT ![a] = c]
  /\ UNCHANGED <<attempt, ids, diskVars, lease, localVars>>

Step(r) ==
  \/ AcquireLease(r)
  \/ Prepare(r)
  \/ Inspect(r)
  \/ Remediate(r)
  \/ Resume(r)
  \/ Mutate(r)
  \/ PublishEvidence(r)
  \/ Readmit(r)
  \/ PublishClosure(r)
  \/ Advance(r)
  \/ PublishCampaign(r)
  \/ Close(r)
  \/ Block(r)
  \/ Release(r)
  \/ TimesOut(r)

RunnerNext ==
  \E r \in Runner : Admit(r) \/ Step(r) \/ Fail(r) \/ Crash(r)

ActivationNext ==
  \/ \E x \in Activator :
       Observe(x) \/ ActivationStep(x, attempt) \/ ActivatorCrash(x)
  \/ LosePointer

Next ==
  \/ (RunnerNext \/ Edit) /\ UNCHANGED activationVars
  \/ ActivationNext /\ UNCHANGED runVars

Spec == Init /\ [][Next]_vars

(* A process that is in a call or an activation goes on with it; nobody    *)
(* has to start one.                                                       *)
Fairness ==
  /\ \A r \in Runner : WF_vars(Step(r) /\ UNCHANGED activationVars)
  /\ \A x \in Activator : WF_vars(ActivationStep(x, attempt) /\ UNCHANGED runVars)

FairSpec == Spec /\ Fairness

-----------------------------------------------------------------------------
(* Properties.                                                             *)

(* A run is not superseded while its execution is under way, whatever      *)
(* crashes or is lost: the unfinished attempt belongs to the highest       *)
(* claimed run, and the pointer file names no other.  At most one claim    *)
(* runs ahead of the pointer file, and then the next activation of its     *)
(* claimant can roll it forward: nothing has started under the run it      *)
(* replaces.                                                               *)
AttemptPinsRun ==
  /\ Unfinished(attempt) => attempt.run = Len(claims) /\ active \in {0, attempt.run}
  /\ active \notin {0, Len(claims)} => active + 1 = Len(claims)

(* A runner between taking the pointer and releasing the lease is alone,   *)
(* and the pointer it has in memory is the one on disk.                    *)
LeaseHolderCurrent ==
  \A r \in Runner : pc[r] \in Leased =>
    /\ lease = r
    /\ pc[r] \notin {"prepare", "release", "conflict"} => copy[r] = attempt

(* commitPointer never refuses what the executor hands it: no lost update, *)
(* no illegal transition, no closure that rests on a closure that was      *)
(* remediated away, after any history of crashes and remediations.         *)
NoCommitRefused == \A r \in Runner : pc[r] # "conflict"

(* No artifact name is ever given two contents, so none of the immutable   *)
(* files can conflict with a later publication: evidence that is on disk   *)
(* is recovered and never produced again, and a closure is published again *)
(* only as it was.                                                         *)
WrittenOnce ==
  /\ \A e, f \in evidence : e[1] = f[1] /\ e[2] = f[2] => e = f
  /\ \A k, l \in closures : k[1] = l[1] /\ k[2] = l[2] => k = l
  /\ \A k \in closures : <<k[1], k[2], k[3]>> \in evidence
  /\ \A e \in evidence : <<"evidence", e[1], e[2]>> \notin torn

(* The pointer on disk passes the verification every reader makes.         *)
PointerValid ==
  attempt.phase # "none" => ProgressValid(attempt) /\ ClosureRefsValid(attempt)

(* The adapter of an authority runs only when all its dependencies are     *)
(* closed in the pointer on disk.                                          *)
DependenciesFirst ==
  \A r \in Runner : pc[r] \in {"mutate", "evidence", "readmit", "closure", "advance"} =>
    /\ copy[r].next # 0
    /\ \A d \in Deps[copy[r].next] : attempt.closed[d] # 0

(* A closed attempt has a published campaign closure.                      *)
ClosedHasCampaign == attempt.phase = "closed" => attempt.id \in campaigns

(* Closures are final within an attempt: only a new attempt of the same    *)
(* run drops closures, under an id that was never used before, and every   *)
(* closure it keeps keeps all it rests on.                                 *)
ClosuresOnlyRemediated ==
  [][attempt'.run = attempt.run =>
       /\ \A a \in Authority : attempt.closed[a] # 0 /\ attempt'.closed[a] # attempt.closed[a] =>
            /\ attempt'.closed[a] = 0
            /\ attempt'.id = ids' /\ attempt'.id > ids
       /\ \A a \in Authority : attempt'.closed[a] # 0 =>
            \A d \in Deps[a] : attempt'.closed[d] = attempt.closed[d]]_vars

(* The pointer file moves to the highest claimed version and never back to *)
(* an earlier one.                                                         *)
PointerFollowsClaims ==
  [][active' # active => active' \in {0, Len(claims)}]_vars

(* The files implement the campaign the control plane talks about.        *)
Campaign == INSTANCE GoalCampaign WITH
  run <- attempt.run,
  done <- {a \in Authority : attempt.closed[a] # 0},
  status <- IF attempt.phase = "none" THEN "none"
            ELSE IF attempt.phase = "closed" THEN "finished" ELSE "open"
CampaignSpec == Campaign!Spec

(* The execution of one authority seen from outside: the attempt it was    *)
(* closed in, or is open in, and what the call does that works on it.      *)
RoundOf(a) == IF attempt.closed[a] # 0 THEN attempt.closed[a] ELSE attempt.id
At(a, places) == {r \in Runner : pc[r] \in places /\ copy[r].next = a}
Stage(a) ==
  CASE At(a, {"mutate"}) # {} -> "working"
    [] At(a, {"evidence"}) # {} -> "observed"
    [] At(a, {"readmit", "closure"}) # {} -> "closing"
    [] At(a, {"advance"}) # {} -> "closed"
    [] OTHER -> "none"
Observed(a) == {seen[r] : r \in At(a, {"evidence", "readmit", "closure"})}
Observations(a) == {e[3] : e \in EvidenceOf(RoundOf(a), a)}

(* What the executor does for an authority, with its atomic Mutate, keeps  *)
(* to the same rounds as the mutation in GoalRunMutation: calls that are   *)
(* interrupted anywhere, remediations and drift included.                  *)
Round(a) == INSTANCE AuthorityRound WITH
  content <- files[a], round <- RoundOf(a), evidence <- Observations(a),
  closed <- ClosureOf(RoundOf(a), a) # {}, done <- attempt.closed[a] # 0,
  step <- Stage(a), saw <- Observed(a)
RoundsSpec ==
  /\ \A a \in Authority : Round(a)!Init
  /\ [][\A a \in Authority : [Round(a)!Next]_(Round(a)!authority)]_vars

(* A call takes five steps for each authority that is open in its pointer, *)
(* and fourteen more, at most, whatever crashes, fails, is edited or is    *)
(* remediated meanwhile: an authority it has closed does not come again,   *)
(* and nobody else makes it turn back.                                     *)
Left ==
  [admitted |-> 14, prepare |-> 13, inspect |-> 12, remediate |-> 11, resume |-> 10,
   mutate |-> 9, evidence |-> 8, readmit |-> 7, closure |-> 6, advance |-> 5,
   campaign |-> 4, close |-> 3, block |-> 2, conflict |-> 1, release |-> 1, idle |-> 0]
Ahead(r) ==
  CASE pc[r] \in {"admitted", "prepare", "inspect", "remediate", "resume"} -> Authority
    [] pc[r] \in {"mutate", "evidence", "readmit", "closure", "advance"} ->
         {a \in Authority : copy[r].closed[a] = 0}
    [] OTHER -> {}
Effort(r) == Left[pc[r]] + 5 * Cardinality(Ahead(r))
CallsBounded ==
  [][\A r \in Runner : pc[r] # "idle" =>
       UNCHANGED <<pc[r], copy[r]>> \/ Effort(r)' < Effort(r)]_vars

(* Every call comes to an end, with any number of edits, failures and      *)
(* activations beside it.                                                  *)
CallsEnd == \A r \in Runner : pc[r] # "idle" ~> pc[r] = "idle"
=============================================================================
