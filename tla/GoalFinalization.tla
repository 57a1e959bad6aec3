-------------------------- MODULE GoalFinalization --------------------------
(* The finalization of a closed campaign (main-agent-goal-run-finalizer.ts)*)
(* and the user's decision on it                                           *)
(* (main-agent-controlled-closeout-confirmation.ts), for one candidate of  *)
(* the requirements-backed profile.  A call of the finalizer that finds no *)
(* accepted result claims the candidate, has it judged, publishes what the *)
(* judges answered as write-once artifacts, and then records in the        *)
(* requirement record that execution and audit passed and that the user's  *)
(* acceptance is requested.  A call that finds an accepted result only     *)
(* does the latter, without a claim.                                       *)
(*                                                                         *)
(* The claim is a lease file with an owner id drawn per call, looked at    *)
(* and changed under a generation lock (AttemptMutex): each such section   *)
(* is one step.  The record is kept by the control store (ControlStore):   *)
(* an append reads the record, then takes the store's lock under a         *)
(* transaction id made of the event and of what it read, writes the record *)
(* file and commits.  Finalizers that bring one event to one record have   *)
(* one transaction id, and a death or an error can leave the lock for      *)
(* ever.  The finalizer reads the record file without the lock.  Two       *)
(* recoveries of one dead owner at once are not modelled here.             *)
EXTENDS Naturals, Sequences, SequencesExt

CONSTANTS
  Proc,        \* processes that finalize or confirm
  Judgement,   \* what the final judge may answer with a pass
  Review,      \* what the reviewer beside it may answer with a pass
  None,        \* no file, no owner, no answer
  Dead,        \* an owner that does not live any more
  Torn,        \* a file created and not filled
  Fixed        \* the content of an artifact that is the same for every call

ASSUME FinalizationAssumption ==
  /\ {None, Dead} \cap Proc = {} /\ None # Dead
  /\ Torn \notin Proc \cup {Dead}
  /\ None # Torn /\ None # Fixed /\ Torn # Fixed
  /\ {None, Torn, Fixed} \cap (Judgement \cup (Judgement \X Review)) = {}

VARIABLES
  claim,     \* the claim file of the candidate: its owner, and whether its lease is over
  artifact,  \* the write-once artifacts of the candidate
  log,       \* the events committed in the control store, once a dead owner is recovered
  record,    \* requirement-record.json: the events it was reduced from
  store,     \* the owner of the control store's lock; Torn when no caller can recover it
  marker,    \* current-commit.json: the transaction it names, as what it made of the record
  dirs,      \* the transactions of the finalizers that have a directory and a receipt
  at,        \* where each process is, and what it keeps in memory
  results,   \* the accepted results that calls have returned
  undone     \* the record file was put back after somebody may have read it

storeVars == <<log, record, store, marker, dirs, undone>>
vars == <<claim, artifact, storeVars, at, results>>

Answer == Judgement \X Review

(* The decisions of the user, and the events of the record: the two model  *)
(* statuses, the request for acceptance, a decision.                       *)
Decision == {"accepted", "rejected"}
Event == {"execution_closure", "audit_review", "request"} \cup Decision
Has(s, e) == e \in ToSet(s)
Decided(s) == \E d \in Decision : Has(s, d)

NoClaim == [owner |-> None, stale |-> FALSE]
ClaimOf(p) == [owner |-> p, stale |-> FALSE]
Idle == [pc |-> "idle", goal |-> "none", tries |-> 0, seen |-> <<>>, pre |-> <<>>,
         answer |-> None, taken |-> None]

ArtifactName ==
  {"candidate", "request", "response", "aggregate", "accepted", "pass", "closeout"}

Init ==
  /\ claim = NoClaim
  /\ artifact = [f \in ArtifactName |-> None]
  /\ log = <<>> /\ record = <<>> /\ store = None /\ marker = <<>> /\ dirs = {}
  /\ at = [p \in Proc |-> Idle]
  /\ results = {} /\ undone = FALSE

Goto(p, to) == at' = [at EXCEPT ![p].pc = to]

(* An error: the finally block gives the claim back.                       *)
Leave(p) == at' = [at EXCEPT ![p] = [Idle EXCEPT !.pc = IF claim.owner = p THEN "release" ELSE "idle"]]

(* A loop of up to three attempts to bring an event into the record.       *)
Pursue(p, goal) == at' = [at EXCEPT ![p].pc = "read", ![p].goal = goal, ![p].tries = 1]

(***************************************************************************)
(* finalizeCommittedGoalRun.                                               *)
(***************************************************************************)

Call(p) ==
  /\ at[p] = Idle
  /\ Goto(p, "look")
  /\ UNCHANGED <<claim, artifact, storeVars, results>>

(* recoverAcceptedResult: before the claim, instead of one (another call   *)
(* published the result), and again under it.                              *)
Bound(a) ==
  /\ artifact["candidate"] = Fixed /\ artifact["request"] = Fixed
  /\ artifact["response"] = a[1] /\ artifact["aggregate"] = a
Look(p) ==
  LET found == artifact["accepted"] IN
  /\ at[p].pc \in {"look", "reread", "recheck"}
  /\ \/ found = None /\ at[p].pc = "look" /\ Goto(p, "claim")
     \/ found = None /\ at[p].pc = "recheck" /\ Pursue(p, "execution_closure")
     \/ found \in Answer /\ Bound(found)
        /\ at' = [at EXCEPT ![p].pc = "pass", ![p].taken = found]
     \/ found # None /\ ~(found \in Answer /\ Bound(found)) /\ Leave(p)
  /\ UNCHANGED <<claim, artifact, storeVars, results>>

(* acquireFinalizationClaim: a claim whose lease is over is taken over,    *)
(* whoever owns it; else the call waits, and gives up after a while.       *)
NeverTakesOver(p) == claim = NoClaim
MayClaim(p) == claim = NoClaim \/ claim.stale
Claim(p) ==
  /\ at[p].pc = "claim"
  /\ \/ /\ artifact["accepted"] # None
        /\ Goto(p, "reread")
        /\ UNCHANGED claim
     \/ /\ artifact["accepted"] = None /\ MayClaim(p)
        /\ claim' = ClaimOf(p)
        /\ Goto(p, "recheck")
  /\ UNCHANGED <<artifact, storeVars, results>>
GiveUp(p) ==
  /\ at[p].pc = "claim" /\ artifact["accepted"] = None /\ ~MayClaim(p)
  /\ Leave(p)
  /\ UNCHANGED <<claim, artifact, storeVars, results>>

(* The two actors are asked and awaited; the claim is refreshed meanwhile, *)
(* as long as it is the call's own.  Anything but a pass ends the call.    *)
Refresh(p) ==
  /\ at[p].pc = "judge" /\ claim = [owner |-> p, stale |-> TRUE]
  /\ claim' = ClaimOf(p)
  /\ UNCHANGED <<artifact, storeVars, at, results>>
Judge(p) ==
  /\ at[p].pc = "judge"
  /\ \E a \in Answer : at' = [at EXCEPT ![p].pc = "judged", ![p].answer = a]
  /\ UNCHANGED <<claim, artifact, storeVars, results>>
NotPassed(p) ==
  /\ at[p].pc = "judge"
  /\ Leave(p)
  /\ UNCHANGED <<claim, artifact, storeVars, results>>

(* assertOwned, after the judges' answer and before the result.            *)
AssertOwned(p) ==
  /\ at[p].pc \in {"judged", "published"}
  /\ IF claim.owner # p THEN Leave(p)
     ELSE Goto(p, IF at[p].pc = "judged" THEN "request" ELSE "accepted")
  /\ UNCHANGED <<claim, artifact, storeVars, results>>

(* publishRecord: an artifact is written once; one that exists must have   *)
(* the bytes it would be given.                                            *)
ContentOf(p, f) ==
  CASE f = "response" -> at[p].answer[1]
    [] f \in {"aggregate", "accepted"} -> at[p].answer
    [] f = "pass" -> at[p].taken
    [] OTHER -> Fixed
AcceptAnything(f, c) == artifact[f] # Torn
Accept(f, c) == artifact[f] \in {None, c}
Following == [candidate |-> "judge", request |-> "response", response |-> "aggregate",
              aggregate |-> "published", accepted |-> "pass"]
WithoutStatuses(p) == Goto(p, "closeout")
Materialize(p) == Pursue(p, "execution_closure")
Publish(p) ==
  LET f == at[p].pc
      c == ContentOf(p, f)
  IN
  /\ f \in ArtifactName
  /\ IF Accept(f, c)
       THEN /\ artifact' = [artifact EXCEPT ![f] = c]
            /\ \/ f = "accepted" /\ at' = [at EXCEPT ![p].pc = "pass", ![p].taken = c, ![p].answer = None]
               \/ f = "pass" /\ Materialize(p)
               \/ f = "closeout" /\ Pursue(p, "request")
               \/ f \in {"candidate", "request", "response", "aggregate"} /\ Goto(p, Following[f])
       ELSE Leave(p) /\ UNCHANGED artifact
  /\ UNCHANGED <<claim, storeVars, results>>

Passed == Has(record, "execution_closure") /\ Has(record, "audit_review")
(* deliveryVerifiedStatuses: the statuses are looked up once more before   *)
(* the gate receipt, the request and the page are published ("closeout").  *)
Verify(p) ==
  /\ at[p].pc = "verify"
  /\ IF Passed THEN Goto(p, "closeout") ELSE Leave(p)
  /\ UNCHANGED <<claim, artifact, storeVars, results>>

Finish(p) ==
  /\ at[p].pc = "finish"
  /\ results' = results \cup {at[p].taken}
  /\ Leave(p)
  /\ UNCHANGED <<claim, artifact, storeVars>>

Release(p) ==
  /\ at[p].pc = "release"
  /\ claim' = IF claim.owner = p THEN NoClaim ELSE claim
  /\ at' = [at EXCEPT ![p] = Idle]
  /\ UNCHANGED <<artifact, storeVars, results>>

(***************************************************************************)
(* The requirement record.                                                 *)
(***************************************************************************)

(* ensureFinalizationRuntimeStatus and registerControlledCloseoutRequest   *)
(* read the record file as it is.  What is there needs no append; a        *)
(* request that was decided already, or a fourth attempt, is an error.     *)
AfterStatus(p) ==
  CASE at[p].goal = "audit_review" -> at' = [at EXCEPT ![p].pc = "verify", ![p].tries = 0]
    [] at[p].goal = "execution_closure" /\ at[p].taken = None ->
         at' = [at EXCEPT ![p].pc = "candidate", ![p].tries = 0]
    [] OTHER -> Pursue(p, "audit_review")
SpentLate(p) == at[p].tries > 4
Spent(p) == at[p].tries > 3
Read(p) ==
  LET goal == at[p].goal IN
  /\ at[p].pc = "read"
  /\ \/ Spent(p) /\ Leave(p)
     \/ /\ ~Spent(p) /\ Has(record, goal)
        /\ IF goal # "request" THEN AfterStatus(p)
           ELSE IF Decided(record) THEN Leave(p)
           ELSE at' = [at EXCEPT ![p].pc = "finish", ![p].tries = 0]
     \/ /\ ~Spent(p) /\ ~Has(record, goal)
        /\ at' = [at EXCEPT ![p].pc = "append", ![p].seen = record]
  /\ UNCHANGED <<claim, artifact, storeVars, results>>

(* appendControlEventAndReplay.  It recovers what a dead owner has left,   *)
(* and reads the record.  A lock that is held is an error to the           *)
(* finalizer; the confirmation waits, for as long as a lock lasts whose    *)
(* owner lives.                                                            *)
Confirming(p) == at[p].goal \in Decision
Recover ==
  /\ record' = log /\ store' = None
  /\ undone' = (undone \/ record # log)
Append_(p) ==
  /\ at[p].pc = "append"
  /\ \/ /\ store = Torn \/ (store \in Proc /\ ~Confirming(p))
        /\ Leave(p)
        /\ UNCHANGED <<record, store, undone>>
     \/ /\ store \in {None, Dead}
        /\ Recover
        /\ at' = [at EXCEPT ![p].pc = "lock", ![p].pre = log]
  /\ UNCHANGED <<claim, artifact, log, marker, dirs, results>>

(* It takes the lock, and then the record must be the one that was read,   *)
(* before the lock and by the caller.  The ids of a finalizer's events are *)
(* the same in every call: a receipt that the event left is an error.  A   *)
(* decision is recorded with the time, and has no twin.                    *)
Retry(p) ==
  [at[p] EXCEPT !.seen = <<>>, !.pre = <<>>,
                !.pc = IF Confirming(p) THEN "admit" ELSE "read", !.tries = @ + 1]
AsBeforeLock(p) == at[p].pre = log
AsSeen(p) == at[p].seen = log /\ at[p].pre = log
LeftOver(e) == \E t \in dirs : Last(t) = e
Lock(p) ==
  LET goal == at[p].goal IN
  /\ at[p].pc = "lock"
  /\ IF store = None /\ AsSeen(p) /\ ~LeftOver(goal)
       THEN /\ record' = Append(log, goal)
            /\ store' = p
            /\ at' = [at EXCEPT ![p].pc = "commit", ![p].seen = <<>>, ![p].pre = <<>>]
       ELSE /\ UNCHANGED <<record, store>>
            /\ \/ /\ IF store = None THEN AsSeen(p) ELSE ~Confirming(p)
                  /\ Leave(p)
               \/ /\ store = None /\ ~AsSeen(p)
                  /\ at' = [at EXCEPT ![p] = Retry(p)]
               \/ /\ store # None /\ Confirming(p)
                  /\ at' = [at EXCEPT ![p].pc = "append", ![p].pre = <<>>]
  /\ UNCHANGED <<claim, artifact, log, marker, dirs, undone, results>>

(* The transaction directory is renamed and the commit marker replaced.  A *)
(* status is looked up again after it was recorded, a decision is admitted *)
(* again.                                                                  *)
Committed(p) ==
  /\ log' = record /\ marker' = record
  /\ dirs' = IF Confirming(p) THEN dirs ELSE dirs \cup {record}
  /\ UNCHANGED <<record, undone>>
Commit(p) ==
  /\ at[p].pc = "commit"
  /\ Committed(p) /\ store' = None
  /\ at' = [at EXCEPT
       ![p].pc = CASE Confirming(p) -> "answer" [] at[p].goal = "request" -> "finish" [] OTHER -> "read",
       ![p].tries = IF at[p].goal \in {"execution_closure", "audit_review"}
                      THEN at[p].tries + 1 ELSE 0]
  /\ UNCHANGED <<claim, artifact, results>>

(***************************************************************************)
(* confirmMainAgentControlledCloseoutByRequestId.                          *)
(***************************************************************************)

Confirm(p) ==
  /\ at[p] = Idle
  /\ \E d \in Decision : at' = [at EXCEPT ![p].pc = "admit", ![p].goal = d, ![p].tries = 1]
  /\ UNCHANGED <<claim, artifact, storeVars, results>>

(* closeoutAdmission reads under the store's lock, so what it reads is     *)
(* committed, unless the lock is there for ever.  The call ends when the   *)
(* request is not there, when it has been decided before, in its sense     *)
(* (then the call succeeds) or not, after a failed comparison, and after   *)
(* the commit of its own decision ("answer").                              *)
Admit(p) ==
  /\ at[p].pc \in {"admit", "answer"}
  /\ \/ store = Torn /\ Leave(p) /\ UNCHANGED <<record, store, undone>>
     \/ /\ store \in {None, Dead}
        /\ Recover
        /\ IF /\ Has(log, "request") /\ artifact["closeout"] = Fixed /\ ~Decided(log)
              /\ at[p].pc = "admit" /\ at[p].tries = 1
             THEN at' = [at EXCEPT ![p].pc = "append", ![p].seen = log]
             ELSE Leave(p)
  /\ UNCHANGED <<claim, artifact, log, marker, dirs, results>>

(***************************************************************************)
(* What can go wrong.                                                      *)
(***************************************************************************)

(* A lease ends although the call lives: the process was suspended, or     *)
(* busy for long.                                                          *)
Expire ==
  /\ claim # NoClaim /\ ~claim.stale
  /\ claim' = [claim EXCEPT !.stale = TRUE]
  /\ UNCHANGED <<artifact, storeVars, at, results>>

(* What an interrupted step may have done: a file created and not filled,  *)
(* a claim that was moved away and not replaced, or replaced in part.      *)
MayTear(p) ==
  LET f == at[p].pc IN
  IF f \in ArtifactName /\ artifact[f] = None
    THEN artifact' \in {artifact, [artifact EXCEPT ![f] = Torn]}
    ELSE UNCHANGED artifact
HalfClaimed(p) ==
  IF at[p].pc = "claim" /\ artifact["accepted"] = None /\ MayClaim(p)
    THEN {claim, NoClaim, ClaimOf(Dead)} ELSE {claim}
Orphan(c, p) == IF c.owner = p THEN [c EXCEPT !.owner = Dead] ELSE c

(* What an interrupted append or read leaves of the store: a lock file     *)
(* that was created and not filled, half of the recovery of a dead owner,  *)
(* or an append that is undone, or done.  Once the manifest is removed     *)
(* from a transaction directory, nobody can recover its lock any more.     *)
LeavesStore(p, owner) ==
  \/ at[p].pc # "commit" /\ UNCHANGED storeVars
  \/ /\ at[p].pc \in {"lock", "admit", "answer"} /\ store = None
     /\ store' = Torn
     /\ UNCHANGED <<log, record, marker, dirs, undone>>
  \/ /\ at[p].pc \in {"append", "admit", "answer"} /\ store = Dead
     /\ record' = log /\ store' \in {Dead, Torn, None}
     /\ undone' = (undone \/ record # log)
     /\ UNCHANGED <<log, marker, dirs>>
  \/ /\ at[p].pc = "commit" /\ record' = log
     /\ store' = owner /\ undone' = TRUE
     /\ UNCHANGED <<log, marker, dirs>>
  \/ at[p].pc = "commit" /\ Committed(p) /\ store' = owner

(* What only a death leaves: a lock whose owner is dead.  Recovery goes    *)
(* forward when the marker names its transaction, and back when only a     *)
(* directory does: the directory of a twin that was committed, too, under  *)
(* all that was committed since.  In an undo, a directory can be left half *)
(* removed.                                                                *)
Orphans(p) ==
  LET t == Append(at[p].pre, at[p].goal) IN
  \/ /\ at[p].pc \in {"admit", "answer"} /\ store = None
     /\ store' = Dead
     /\ UNCHANGED <<log, record, marker, dirs, undone>>
  \/ /\ at[p].pc = "lock" /\ store = None
     /\ store' = Dead
     /\ IF marker = t /\ ~Confirming(p) THEN log' = t /\ UNCHANGED dirs
        ELSE IF t \in dirs THEN log' = at[p].pre /\ dirs' = dirs \ {t}
        ELSE UNCHANGED <<log, dirs>>
     /\ UNCHANGED <<record, marker, undone>>
  \/ /\ at[p].pc = "commit" /\ store' = Dead
     /\ UNCHANGED <<log, record, marker, dirs, undone>>
  \/ /\ at[p].pc = "commit" /\ record' = log
     /\ store' = Torn /\ undone' = TRUE
     /\ UNCHANGED <<log, marker, dirs>>

(* An error: an append that did not reach its commit marker is undone, one *)
(* that did is reported as failed; a claim that could not be given back    *)
(* has an owner id that nobody uses any more.                              *)
Fail(p) ==
  /\ at[p].pc # "idle"
  /\ MayTear(p)
  /\ IF at[p].pc = "release"
       THEN claim' = Orphan(claim, p) /\ at' = [at EXCEPT ![p] = Idle]
       ELSE claim' \in HalfClaimed(p) /\ Leave(p)
  /\ LeavesStore(p, None)
  /\ UNCHANGED results

Crash(p) ==
  /\ at[p].pc # "idle"
  /\ MayTear(p)
  /\ claim' \in {Orphan(c, p) : c \in HalfClaimed(p)}
  /\ LeavesStore(p, Dead) \/ Orphans(p)
  /\ at' = [at EXCEPT ![p] = Idle]
  /\ UNCHANGED results

Step(p) ==
  \/ Look(p) \/ Claim(p) \/ GiveUp(p) \/ Refresh(p) \/ Judge(p) \/ AssertOwned(p)
  \/ Publish(p) \/ Verify(p) \/ Finish(p) \/ Release(p)
  \/ Read(p) \/ Append_(p) \/ Lock(p) \/ Commit(p) \/ Admit(p)

Next ==
  \/ \E p \in Proc : Call(p) \/ Confirm(p) \/ Step(p) \/ NotPassed(p) \/ Fail(p) \/ Crash(p)
  \/ Expire

Spec == Init /\ [][Next]_vars

(***************************************************************************)
(* Properties.                                                             *)
(***************************************************************************)

Location ==
  {"idle", "look", "reread", "recheck", "claim", "judge", "judged", "published", "verify",
   "finish", "release", "read", "append", "lock", "commit", "admit", "answer"} \cup ArtifactName
Local ==
  [pc : Location, goal : Event \cup {"none"}, tries : 0..4, seen : Seq(Event), pre : Seq(Event),
   answer : Answer \cup {None}, taken : Answer \cup {None}]

(* Every variable has its type; a written artifact has a content of its    *)
(* kind.                                                                   *)
TypeOK ==
  /\ claim \in [owner : Proc \cup {None, Dead}, stale : BOOLEAN]
  /\ DOMAIN artifact = ArtifactName
  /\ \A f \in {"candidate", "request", "closeout"} : artifact[f] \in {None, Torn, Fixed}
  /\ artifact["response"] \in Judgement \cup {None, Torn}
  /\ \A f \in {"aggregate", "accepted", "pass"} : artifact[f] \in Answer \cup {None, Torn}
  /\ log \in Seq(Event) /\ record \in Seq(Event)
  /\ store \in Proc \cup {None, Dead, Torn}
  /\ marker \in Seq(Event) /\ dirs \subseteq Seq(Event)
  /\ at \in [Proc -> Local]
  /\ results \subseteq Answer
  /\ undone \in BOOLEAN

(* An accepted result names the response and the aggregate that are on     *)
(* disk, whoever published them and whoever lost the claim in between, and *)
(* so does the effective pass that is derived from it.  Whatever calls     *)
(* return is this one result.                                              *)
AcceptedIsBacked ==
  /\ artifact["accepted"] \in Answer => Bound(artifact["accepted"])
  /\ artifact["pass"] \in Answer => artifact["pass"] = artifact["accepted"]
  /\ results \subseteq {artifact["accepted"]}

(* The record holds every event once, a decision only after a request, and *)
(* at most one decision, whatever finalizers and users interleave.         *)
RecordedOnce ==
  LET place(e) == {i \in DOMAIN log : log[i] = e} IN
  /\ \A e \in Event : \A i, j \in place(e) : i = j
  /\ \A d \in Decision, i \in DOMAIN log : log[i] = d => \E j \in 1..(i - 1) : log[j] = "request"
  /\ ~(Has(log, "accepted") /\ Has(log, "rejected"))

(* The record says no more than the files bear out: audit review has       *)
(* passed only when the effective pass is on disk, and acceptance is       *)
(* requested only when the closeout page is, whatever was undone.  The     *)
(* request comes after both statuses in the committed log, as long as no   *)
(* append was undone that somebody may have read before.                   *)
RecordIsBacked ==
  /\ Has(log, "audit_review") => artifact["pass"] \in Answer
  /\ Has(log, "request") => artifact["closeout"] = Fixed
  /\ ~undone => \A i \in DOMAIN log : log[i] = "request" =>
       /\ \E j \in 1..(i - 1) : log[j] = "audit_review"
       /\ \E j \in 1..(i - 1) : log[j] = "execution_closure"
=============================================================================
