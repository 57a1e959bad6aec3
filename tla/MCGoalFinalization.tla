------------------------- MODULE MCGoalFinalization -------------------------
(* Small instances of the finalization for TLC.                            *)
EXTENDS GoalFinalization

CONSTANT MaxTrouble   \* errors, crashes, expired leases and refusals of the judges, at most

VARIABLE trouble
allVars == <<vars, trouble>>

(* The user confirms or rejects with the text of the page.  The two        *)
(* decisions are alike: in a state that knows of none, the next one may as *)
(* well be to accept.                                                      *)
Known(d) ==
  \/ \E s \in {log, record, marker} \cup dirs : Has(s, d)
  \/ \E q \in Proc : at[q].goal = d \/ Has(at[q].seen, d) \/ Has(at[q].pre, d)
Asked(p) ==
  /\ artifact["closeout"] = Fixed
  /\ Confirm(p) /\ (at'[p].goal = "rejected" => Known("accepted"))
(* The answers of the final judge are alike too, and in a state that knows *)
(* of none the next one may as well be always the same.                    *)
First == CHOOSE j \in Judgement : TRUE
Unjudged == artifact["response"] \notin Judgement /\ \A q \in Proc : at[q].answer = None
Works(p) ==
  /\ Step(p)
  /\ at[p].pc = "judge" /\ Unjudged => at'[p].answer \in {None} \cup ({First} \X Review)

Work(p) == (Call(p) \/ Asked(p) \/ Works(p)) /\ UNCHANGED trouble
Trouble ==
  /\ trouble < MaxTrouble /\ trouble' = trouble + 1
  /\ \/ \E p \in Proc : Fail(p) \/ Crash(p) \/ NotPassed(p)
     \/ claim.owner \in Proc /\ Expire
TimePasses == claim.owner = Dead /\ Expire /\ UNCHANGED trouble

MCInit == Init /\ trouble = 0
MCNext == (\E p \in Proc : Work(p)) \/ Trouble \/ TimePasses
MCSpec == MCInit /\ [][MCNext]_allVars

(* A process finishes its steps unless it dies, time passes, and somebody  *)
(* finalizes again when nobody does.                                       *)
FairSpec ==
  /\ MCSpec
  /\ \A p \in Proc : WF_allVars(Step(p) /\ UNCHANGED trouble)
  /\ WF_allVars(TimePasses)
  /\ SF_allVars(\E p \in Proc : Call(p) /\ UNCHANGED trouble)

(* A torn artifact, or the answer of a judge whose call did not come to    *)
(* publish its result, is never replaced.                                  *)
Contradicted ==
  \/ \E f \in ArtifactName : artifact[f] = Torn
  \/ artifact["response"] # None /\ artifact["accepted"] = None

(* The record file shows an append that a dead process did not commit, or  *)
(* that the recovery of its lock will undo: the finalizer takes it for     *)
(* recorded, so nobody has to recover the lock.                            *)
Dangling == store = Dead /\ record # log

(* The store's lock file was created and never filled                      *)
(* (requirement-record-control-store.ts:241), or its transaction directory *)
(* has no manifest (:2444, or half removed): no caller can recover it.     *)
Wedged == store = Torn

(* The receipt of an event that is not in the log any more: the recovery   *)
(* of a twin undid the event before it (:925-942).                         *)
Unrepeatable == \E t \in dirs : ~Has(log, Last(t))

(* The campaign is finalized for good however many calls fail, die or lose *)
(* their claim, unless one left a torn artifact, an answer without a       *)
(* result, an uncommitted request that later calls report as made, a       *)
(* store that nobody can append to, or a receipt without its event.        *)
Finalizes ==
  \/ <>[]Has(log, "request")
  \/ <>[]Contradicted \/ <>[]Dangling \/ <>[]Wedged \/ <>[]Unrepeatable
=============================================================================
