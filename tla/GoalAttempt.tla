---------------------------- MODULE GoalAttempt ----------------------------
(***************************************************************************)
(* The pointer file of a goal execution attempt and what its operations    *)
(* make of it: packages/bmad-speckit/src/main-agent/source-authority/      *)
(* scripts/main-agent-goal-execution-attempt.ts.                           *)
(*                                                                         *)
(* A run executes its authorities in a fixed order, numbered here by that  *)
(* order.  The pointer says which of them are closed, in which attempt     *)
(* each closure was published, and which authority comes next.             *)
(***************************************************************************)
EXTENDS Integers, FiniteSets

CONSTANTS
  Authority,   \* the execution authorities, as numbers in execution order
  Deps         \* the dependencies of each authority

(* No run is without authorities. *)
ASSUME AuthorityAssumption == Authority \subseteq Nat \ {0} /\ Authority # {}

(* A run is a list of authorities. *)
ASSUME FiniteAssumption == IsFiniteSet(Authority)

(* The order of a run is topological: resolvePartitionedExecutionAuthorities *)
(* refuses a run in which a dependency does not come first.                  *)
ASSUME DepsAssumption ==
  /\ Deps \in [Authority -> SUBSET Authority]
  /\ \A a \in Authority : \A d \in Deps[a] : d < a

Phase == {"none", "prepared", "executing", "closure_pending", "blocked", "closed"}

(* closed[a] is the id of the attempt that published the closure of a, or 0. *)
Pointer ==
  [id : Nat, run : Nat, started : BOOLEAN, phase : Phase,
   next : Authority \cup {0}, closed : [Authority -> Nat]]

NothingClosed == [a \in Authority |-> 0]

NoAttempt ==
  [id |-> 0, run |-> 0, started |-> FALSE, phase |-> "none",
   next |-> 0, closed |-> NothingClosed]

Unfinished(p) == p.phase \notin {"none", "closed"}

AllClosed(closed) == \A a \in Authority : closed[a] # 0

(* Mistake: any authority that is open may come next. *)
ComesNextInAnyOrder(n, closed) ==
  IF AllClosed(closed) THEN n = 0 ELSE n \in Authority /\ closed[n] = 0

(* n is the first authority in order that is not closed, 0 when all are.    *)
ComesNext(n, closed) ==
  IF AllClosed(closed)
    THEN n = 0
    ELSE n \in Authority /\ closed[n] = 0
         /\ \A a \in Authority : a < n => closed[a] # 0

LegalTransitions ==
  [none            |-> {},
   prepared        |-> {"executing", "blocked"},
   executing       |-> {"executing", "closure_pending", "blocked"},
   closure_pending |-> {"closure_pending", "closed", "blocked"},
   blocked         |-> {"blocked", "executing", "closure_pending"},
   closed          |-> {}]

(* verifyPointerSemantics without the closure files. *)
ProgressValid(p) ==
  /\ p.phase = "prepared" => p.closed = NothingClosed
  /\ p.phase \in {"closure_pending", "closed"} => AllClosed(p.closed)
  /\ ComesNext(p.next, p.closed)
  /\ ~p.started => p.phase \in {"prepared", "blocked"} /\ p.closed = NothingClosed
  /\ p.started => p.phase # "prepared"

(* What prepareGoalExecutionAttempt writes for a run it has no attempt of. *)
Prepared(id, run, n) ==
  [id |-> id, run |-> run, started |-> FALSE, phase |-> "prepared",
   next |-> n, closed |-> NothingClosed]

(* What transitionGoalExecutionAttempt makes of the current pointer, and   *)
(* what it refuses: a phase that may not follow, or a closure dropped or   *)
(* replaced.                                                               *)
Transitioned(p, phase, n, closed) ==
  [p EXCEPT !.started = p.started \/ phase # "blocked",
            !.phase = phase, !.next = n, !.closed = closed]

TransitionLegal(p, q) ==
  /\ q.phase \in LegalTransitions[p.phase]
  /\ \A a \in Authority : p.closed[a] # 0 => q.closed[a] = p.closed[a]
  /\ ~p.started => q.closed = NothingClosed

(* deriveGoalExecutionInvalidationSet: the roots and whatever depends on   *)
(* them, directly or not: the least set with the roots that an authority   *)
(* never enters later than one of its dependencies.                        *)
CarriesDependents(S) ==
  \A a \in Authority : Deps[a] \cap S # {} => a \in S

(* Mistake: the dependents keep their closures. *)
RootsOnly(roots) == roots

InvalidationSet(roots) ==
  {a \in Authority :
     \A S \in SUBSET Authority :
       roots \subseteq S /\ CarriesDependents(S) => a \in S}

(* Mistake: the filter is the wrong way round. *)
OnlyClosuresOf(closed, S) ==
  [a \in Authority |-> IF a \in S THEN closed[a] ELSE 0]

WithoutClosures(closed, S) ==
  [a \in Authority |-> IF a \in S THEN 0 ELSE closed[a]]

(* Mistake: the attempt id is kept, and with it the artifacts. *)
RemediatedInPlace(p, id, roots, n) ==
  [p EXCEPT !.started = TRUE, !.phase = "executing", !.next = n,
            !.closed = WithoutClosures(p.closed, InvalidationSet(roots))]

(* What remediateGoalExecutionAttempt writes: the same run, a new attempt. *)
Remediated(p, id, roots, n) ==
  [p EXCEPT !.id = id, !.started = TRUE, !.phase = "executing", !.next = n,
            !.closed = WithoutClosures(p.closed, InvalidationSet(roots))]
=============================================================================
