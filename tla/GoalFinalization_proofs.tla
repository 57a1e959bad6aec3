---------------------- MODULE GoalFinalization_proofs ----------------------
(***************************************************************************)
(* Proofs about the finalization of a campaign, for any processes and any  *)
(* answers of the judges, whatever fails, dies or loses its claim.  That   *)
(* the artifacts agree does not rest on the claim: it rests on artifacts   *)
(* being written once, and the record on every append comparing what it    *)
(* read.                                                                   *)
(***************************************************************************)
EXTENDS GoalFinalization, TLAPS

USE FinalizationAssumption DEF storeVars

(***************************************************************************)
(* The inductive invariant.                                                *)
(***************************************************************************)

(* What a call remembers where it is.                                      *)
Appending == {"read", "append", "lock", "commit"}
Remembers(l) ==
  /\ l.pc \in Appending => l.goal \in Event
  /\ l.pc \in {"append", "lock", "commit"} => l.tries \in 0..3
  /\ l.pc \in {"judged", "request", "response", "aggregate", "published", "accepted"} =>
       l.answer \in Answer
  /\ l.pc \in {"pass", "verify", "closeout", "finish"} => l.taken \in Answer
  /\ l.pc \in Appending /\ l.goal \in {"audit_review", "request"} => l.taken \in Answer
  /\ l.pc = "read" => l.goal \notin Decision
  /\ l.pc \in {"admit", "answer"} => l.goal \in Decision

(* What it has published is there, and what it has taken for accepted.     *)
Published(l) ==
  /\ l.pc \in {"judge", "judged", "request", "response", "aggregate", "published", "accepted"} =>
       artifact["candidate"] = Fixed
  /\ l.pc \in {"response", "aggregate", "published", "accepted"} => artifact["request"] = Fixed
  /\ l.pc \in {"aggregate", "published", "accepted"} => artifact["response"] = l.answer[1]
  /\ l.pc \in {"published", "accepted"} => artifact["aggregate"] = l.answer
  /\ l.taken # None => artifact["accepted"] = l.taken

(* What it has read of the record allows its append, if nothing was undone *)
(* the request too.                                                        *)
MayFollow(s, e) ==
  /\ ~Has(s, e)
  /\ e \in Decision => Has(s, "request") /\ ~Decided(s)
  /\ e = "request" /\ ~undone => Has(s, "execution_closure") /\ Has(s, "audit_review")
HasRead(l) ==
  /\ l.pc \in {"append", "lock"} => MayFollow(l.seen, l.goal)
  /\ ~undone /\ (l.pc = "closeout" \/ (l.pc \in Appending /\ l.goal = "request")) => Passed

(* What a log may be.                                                      *)
Places(s, e) == {i \in DOMAIN s : s[i] = e}
Once(s) ==
  /\ \A e \in Event : \A i, j \in Places(s, e) : i = j
  /\ \A d \in Decision, i \in DOMAIN s : s[i] = d => \E j \in 1..(i - 1) : s[j] = "request"
  /\ ~(Has(s, "accepted") /\ Has(s, "rejected"))
AuditedFirst(s) ==
  \A i \in DOMAIN s : s[i] = "request" =>
    /\ \E j \in 1..(i - 1) : s[j] = "audit_review"
    /\ \E j \in 1..(i - 1) : s[j] = "execution_closure"
Sound(s) == Once(s) /\ (~undone => AuditedFirst(s))
LogInv == Sound(log) /\ Sound(record) /\ Sound(marker)

Content == Judgement \cup Answer \cup {None, Torn, Fixed}
Typed == TypeOK /\ artifact \in [ArtifactName -> Content]
CallInv(p) == Remembers(at[p]) /\ Published(at[p]) /\ HasRead(at[p])
Core == Typed /\ LogInv /\ AcceptedIsBacked /\ \A p \in Proc : CallInv(p)

(* What a call has read before the lock was a log, and the record file is  *)
(* the log when nobody has the lock that might still change it.            *)
PreInv == \A p \in Proc : Sound(at[p].pre)
Settled == store \in {None, Torn} => record = log
Inv == Core /\ PreInv /\ Settled

(***************************************************************************)
(* Appending an event.                                                     *)
(***************************************************************************)

(* What an append does to a sequence.                                      *)
LEMMA Appends ==
  ASSUME NEW s \in Seq(Event), NEW e \in Event
  PROVE  /\ Append(s, e) \in Seq(Event)
         /\ DOMAIN Append(s, e) = DOMAIN s \cup {Len(s) + 1} /\ DOMAIN s = 1..Len(s)
         /\ \A i \in DOMAIN s : Append(s, e)[i] = s[i]
         /\ Append(s, e)[Len(s) + 1] = e
         /\ \A x : Has(Append(s, e), x) <=> Has(s, x) \/ x = e
<1>1. /\ Len(Append(s, e)) = Len(s) + 1 /\ Append(s, e)[Len(s) + 1] = e /\ Len(s) \in Nat
      /\ \A i \in 1..Len(s) : Append(s, e)[i] = s[i]
      /\ Append(s, e) \in Seq(Event)
  OBVIOUS
<1>2. DOMAIN s = 1..Len(s) /\ DOMAIN Append(s, e) = 1..(Len(s) + 1)
  BY <1>1
<1>3. 1..(Len(s) + 1) = 1..Len(s) \cup {Len(s) + 1}
  BY <1>1
<1> QED
  BY <1>1, <1>2, <1>3 DEF Has, ToSet

(* An event that may follow a log leaves it a log.                         *)
LEMMA OnceKept ==
  ASSUME NEW s \in Seq(Event), NEW e \in Event, Once(s), MayFollow(s, e)
  PROVE  Once(Append(s, e))
<1> DEFINE t == Append(s, e)
<1> HIDE DEF t
<1>1. /\ DOMAIN t = DOMAIN s \cup {Len(s) + 1} /\ DOMAIN s = 1..Len(s) /\ Len(s) \in Nat
      /\ \A i \in DOMAIN s : t[i] = s[i]
      /\ t[Len(s) + 1] = e
      /\ \A x : Has(t, x) <=> Has(s, x) \/ x = e
  BY Appends DEF t
<1>2. \A i \in DOMAIN s : s[i] # e
  BY DEF MayFollow, Has, ToSet
<1>3. \A x \in Event : \A i, j \in Places(t, x) : i = j
  BY <1>1, <1>2 DEF Once, Places
<1>4. ASSUME NEW d \in Decision, NEW i \in DOMAIN t, t[i] = d
      PROVE  \E j \in 1..(i - 1) : t[j] = "request"
  <2>1. CASE i \in DOMAIN s
    <3>1. PICK j \in 1..(i - 1) : s[j] = "request"
      BY <1>1, <1>4, <2>1 DEF Once
    <3> QED
      BY <1>1, <2>1, <3>1
  <2>2. CASE i = Len(s) + 1
    <3>1. PICK j \in DOMAIN s : s[j] = "request"
      BY <1>1, <1>4, <2>2 DEF MayFollow, Has, ToSet
    <3> QED
      BY <1>1, <2>2, <3>1
  <2> QED
    BY <1>1, <2>1, <2>2
<1>5. ~(Has(t, "accepted") /\ Has(t, "rejected"))
  BY <1>1 DEF Once, MayFollow, Decision, Decided
<1> QED
  BY <1>3, <1>4, <1>5 DEF Once, t

(* A request that may follow a log comes after the statuses.               *)
LEMMA AuditedKept ==
  ASSUME NEW s \in Seq(Event), NEW e \in Event, AuditedFirst(s), MayFollow(s, e), ~undone
  PROVE  AuditedFirst(Append(s, e))
<1> DEFINE t == Append(s, e)
<1> HIDE DEF t
<1>1. /\ DOMAIN t = DOMAIN s \cup {Len(s) + 1} /\ DOMAIN s = 1..Len(s) /\ Len(s) \in Nat
      /\ \A i \in DOMAIN s : t[i] = s[i]
      /\ t[Len(s) + 1] = e
  BY Appends DEF t
<1>2. ASSUME NEW i \in DOMAIN t, t[i] = "request", NEW x \in {"audit_review", "execution_closure"}
      PROVE  \E j \in 1..(i - 1) : t[j] = x
  <2>1. CASE i \in DOMAIN s
    <3>1. PICK j \in 1..(i - 1) : s[j] = x
      BY <1>1, <1>2, <2>1 DEF AuditedFirst
    <3> QED
      BY <1>1, <2>1, <3>1
  <2>2. CASE i = Len(s) + 1
    <3>1. PICK j \in DOMAIN s : s[j] = x
      BY <1>1, <1>2, <2>2 DEF MayFollow, Has, ToSet
    <3> QED
      BY <1>1, <2>2, <3>1
  <2> QED
    BY <1>1, <2>1, <2>2
<1> QED
  BY <1>2 DEF AuditedFirst, t

(***************************************************************************)
(* What every step does.                                                   *)
(***************************************************************************)

Kept == \A f \in ArtifactName : artifact[f] # None => artifact'[f] = artifact[f]
Grows == ~undone' => ~undone /\ (Passed => Passed')
Others(p) == \A q \in Proc \ {p} : at'[q] = at[q]
Quiet == UNCHANGED <<artifact, storeVars, results>>

(* A sequence that a log may be goes on to be one.                         *)
LEMMA SoundOn ==
  ASSUME ~undone' => ~undone
  PROVE  /\ \A s \in Seq(Event) : Sound(s) => Once(s) /\ (~undone' => AuditedFirst(s))
         /\ Sound(log)' <=> Once(log') /\ (~undone' => AuditedFirst(log'))
         /\ Sound(record)' <=> Once(record') /\ (~undone' => AuditedFirst(record'))
         /\ Sound(marker)' <=> Once(marker') /\ (~undone' => AuditedFirst(marker'))
         /\ \A q \in Proc : Sound(at[q].pre)' <=>
              Once(at'[q].pre) /\ (~undone' => AuditedFirst(at'[q].pre))
BY DEF Sound, Once, AuditedFirst, Places

(* A call that does not move keeps what it knows.                          *)
LEMMA CallKept ==
  ASSUME Typed, NEW q \in Proc, CallInv(q), Kept, Grows, at'[q] = at[q]
  PROVE  CallInv(q)'
<1>1. Remembers(at[q])'
  BY DEF CallInv, Remembers
<1>2. Published(at[q])'
  <2>1. \A a \in Answer : a # None /\ a[1] \in Judgement /\ a[1] # None
    BY DEF FinalizationAssumption, Answer
  <2>2. Fixed # None
    BY DEF FinalizationAssumption
  <2>3. {"candidate", "request", "response", "aggregate", "accepted"} \subseteq ArtifactName
    BY DEF ArtifactName
  <2>4. at[q].taken # None => artifact["accepted"] # None
    BY DEF CallInv, Published
  <2> QED
    BY <2>1, <2>2, <2>3, <2>4 DEF CallInv, Published, Remembers, Kept
<1>3. HasRead(at[q])'
  BY DEF CallInv, HasRead, MayFollow, Grows
<1> QED
  BY <1>1, <1>2, <1>3 DEF CallInv

(* A step that leaves artifacts, log and record alone keeps what is said   *)
(* of them.                                                                *)
LEMMA QuietKeeps ==
  ASSUME Inv, Quiet
  PROVE  Kept /\ Grows /\ LogInv' /\ AcceptedIsBacked'
<1>1. Kept /\ Grows
  BY DEF Quiet, Kept, Grows, Passed
<1>2. LogInv'
  BY DEF Quiet, Inv, Core, LogInv, Sound, Once, AuditedFirst, Places
<1>3. AcceptedIsBacked'
  BY DEF Quiet, Inv, Core, AcceptedIsBacked, Bound
<1> QED
  BY <1>1, <1>2, <1>3

(* The invariant from what a step of one call does.                        *)
LEMMA OneMoves ==
  ASSUME Inv, NEW p \in Proc, Typed', Kept, Grows, Others(p), CallInv(p)', LogInv', AcceptedIsBacked'
  PROVE  Core'
<1>1. ASSUME NEW q \in Proc PROVE CallInv(q)'
  BY CallKept DEF Inv, Core, Others
<1> QED
  BY <1>1 DEF Inv, Core

(* A call that gets a new local state.                                     *)
LEMMA Moves ==
  ASSUME Typed, NEW p \in Proc, NEW l \in Local, at' = [at EXCEPT ![p] = l]
  PROVE  at' \in [Proc -> Local] /\ at'[p] = l /\ Others(p)
BY DEF Typed, TypeOK, Others

(* A call that ends, or is about to give its claim back, remembers nothing.*)
LEMMA Ends ==
  ASSUME Typed, NEW p \in Proc, Leave(p) \/ at' = [at EXCEPT ![p] = Idle]
  PROVE  at' \in [Proc -> Local] /\ Others(p) /\ CallInv(p)'
<1> PICK c \in {"idle", "release"} : at' = [at EXCEPT ![p] = [Idle EXCEPT !.pc = c]]
  BY DEF Leave, Idle
<1> DEFINE l == [Idle EXCEPT !.pc = c]
<1>1. /\ l \in Local
      /\ l.pc = c /\ l.taken = None
  <2>1. l = [pc |-> c, goal |-> "none", tries |-> 0, seen |-> <<>>, pre |-> <<>>,
             answer |-> None, taken |-> None]
    BY DEF Idle
  <2>2. c \in Location /\ <<>> \in Seq(Event)
    BY DEF Location
  <2> HIDE DEF l
  <2>3. l \in Local
    BY <2>1, <2>2 DEF Local
  <2> QED
    BY <2>1, <2>3
<1>2. at' \in [Proc -> Local] /\ at'[p] = l /\ Others(p)
  BY <1>1, Moves
<1>3. CallInv(p)'
  BY <1>1, <1>2 DEF CallInv, Remembers, Published, HasRead, Appending
<1> QED
  BY <1>2, <1>3

(* A step of the call alone.                                               *)
LEMMA QuietStep ==
  ASSUME Inv, NEW p \in Proc, Quiet, claim' \in [owner : Proc \cup {None, Dead}, stale : BOOLEAN],
         at' \in [Proc -> Local], Others(p), CallInv(p)'
  PROVE  Core'
<1>1. Typed'
  BY DEF Inv, Core, Typed, TypeOK, Quiet
<1> QED
  BY <1>1, QuietKeeps, OneMoves

(* Going to another location, with nothing else.                           *)
LEMMA Goes ==
  ASSUME Typed, NEW p \in Proc, NEW to \in Location, Goto(p, to)
  PROVE  /\ at' \in [Proc -> Local] /\ Others(p)
         /\ at'[p] = [at[p] EXCEPT !.pc = to] /\ at[p] \in Local
         /\ at'[p].pc = to /\ at'[p].goal = at[p].goal /\ at'[p].tries = at[p].tries
         /\ at'[p].seen = at[p].seen /\ at'[p].answer = at[p].answer /\ at'[p].taken = at[p].taken
<1>1. at \in [Proc -> Local] /\ at[p] \in Local
  BY DEF Typed, TypeOK
<1> DEFINE l == [at[p] EXCEPT !.pc = to]
<1>2. /\ l \in Local
      /\ l.pc = to /\ l.goal = at[p].goal /\ l.tries = at[p].tries
      /\ l.seen = at[p].seen /\ l.answer = at[p].answer /\ l.taken = at[p].taken
  BY <1>1 DEF Local
<1>3. at' = [at EXCEPT ![p] = l]
  BY DEF Goto
<1> HIDE DEF l
<1>4. at' \in [Proc -> Local] /\ at'[p] = l /\ Others(p)
  BY <1>2, <1>3, Moves
<1> QED
  BY <1>1, <1>2, <1>4 DEF l

(* Pursuing an event, with nothing else.                                   *)
LEMMA Pursues ==
  ASSUME Typed, NEW p \in Proc, NEW e \in Event, Pursue(p, e)
  PROVE  /\ at' \in [Proc -> Local] /\ Others(p) /\ at[p] \in Local
         /\ at'[p].pc = "read" /\ at'[p].goal = e /\ at'[p].tries = 1
         /\ at'[p].answer = at[p].answer /\ at'[p].taken = at[p].taken
<1>1. at \in [Proc -> Local] /\ at[p] \in Local /\ "read" \in Location
  BY DEF Typed, TypeOK, Location
<1> DEFINE l == [at[p] EXCEPT !.pc = "read", !.goal = e, !.tries = 1]
<1>2. /\ l.pc = "read" /\ l.goal = e /\ l.tries = 1
      /\ l.answer = at[p].answer /\ l.taken = at[p].taken
  BY <1>1 DEF Local
<1>5. l \in Local
  <2>1. 1 \in 0..4 /\ e \in Event \cup {"none"}
    OBVIOUS
  <2> QED
    BY <1>1, <2>1 DEF Local
<1>3. at' = [at EXCEPT ![p] = l]
  BY <1>1 DEF Pursue, Local
<1> HIDE DEF l
<1>4. at' \in [Proc -> Local] /\ at'[p] = l /\ Others(p)
  BY <1>3, <1>5, Moves
<1> QED
  BY <1>1, <1>2, <1>4

(***************************************************************************)
(* finalizeCommittedGoalRun.                                               *)
(***************************************************************************)

(* The steps of a call that change nothing that others see.                *)
LEMMA CallStep ==
  ASSUME Inv, NEW p \in Proc, Call(p)
  PROVE  Core'
<1>1. /\ Goto(p, "look") /\ at[p].taken = None /\ Quiet /\ claim' = claim
      /\ "look" \in Location
  BY DEF Call, Idle, Quiet, Location
<1>2. CallInv(p)'
  <2>1. at'[p].pc = "look" /\ at'[p].taken = None
    BY <1>1, Goes DEF Inv, Core
  <2> QED
    BY <2>1 DEF CallInv, Remembers, Published, HasRead, Appending
<1> QED
  BY <1>1, <1>2, Goes, QuietStep DEF Inv, Core, Typed, TypeOK

(* Looking for an accepted result.                                         *)
LEMMA LookStep ==
  ASSUME Inv, NEW p \in Proc, Look(p)
  PROVE  Core'
<1> DEFINE found == artifact["accepted"]
<1>1. Quiet /\ claim' = claim /\ Typed /\ CallInv(p)
  BY DEF Inv, Core, Look, Quiet
<1>2. ASSUME at' \in [Proc -> Local] /\ Others(p) /\ CallInv(p)'
      PROVE  Core'
  BY <1>1, <1>2, QuietStep DEF Typed, TypeOK
<1>3. CASE Goto(p, "claim")
  <2>1. "claim" \in Location
    BY DEF Location
  <2> QED
    BY <1>1, <1>2, <1>3, <2>1, Goes DEF Quiet, CallInv, Remembers, Published, HasRead, Appending
<1>4. CASE Pursue(p, "execution_closure")
  <2>1. "execution_closure" \in Event \ Decision
    BY DEF Event, Decision
  <2> QED
    BY <1>1, <1>2, <1>4, <2>1, Pursues DEF Quiet, CallInv, Remembers, Published, HasRead, Appending
<1>5. CASE found \in Answer /\ at' = [at EXCEPT ![p].pc = "pass", ![p].taken = found]
  <2> DEFINE l == [at[p] EXCEPT !.pc = "pass", !.taken = found]
  <2>1. at[p] \in Local /\ "pass" \in Location
    BY <1>1 DEF Typed, TypeOK, Location, ArtifactName
  <2>2. l \in Local /\ l.pc = "pass" /\ l.taken = found /\ l.goal = at[p].goal
    BY <1>5, <2>1 DEF Local
  <2>3. at' = [at EXCEPT ![p] = l]
    BY <1>5, <2>1 DEF Local
  <2> HIDE DEF l
  <2>4. at' \in [Proc -> Local] /\ at'[p] = l /\ Others(p)
    BY <1>1, <2>2, <2>3, Moves
  <2>5. CallInv(p)'
    BY <1>1, <1>5, <2>2, <2>4 DEF Quiet, CallInv, Remembers, Published, HasRead, Appending
  <2> QED
    BY <1>2, <2>4, <2>5
<1>6. CASE Leave(p)
  BY <1>1, <1>2, <1>6, Ends
<1> QED
  BY <1>3, <1>4, <1>5, <1>6 DEF Look

(* Claiming, refreshing and losing the claim: nothing rests on who has it. *)
LEMMA ClaimStep ==
  ASSUME Inv, NEW p \in Proc, Claim(p) \/ GiveUp(p) \/ Refresh(p) \/ AssertOwned(p)
  PROVE  Core'
<1>1. /\ Quiet /\ Typed /\ CallInv(p) /\ at \in [Proc -> Local]
      /\ claim' \in [owner : Proc \cup {None, Dead}, stale : BOOLEAN]
  <2>1. claim' = claim \/ claim' = ClaimOf(p)
    BY DEF Claim, GiveUp, Refresh, AssertOwned
  <2>2. Quiet
    BY DEF Claim, GiveUp, Refresh, AssertOwned, Quiet
  <2>3. Typed /\ CallInv(p) /\ claim \in [owner : Proc \cup {None, Dead}, stale : BOOLEAN]
        /\ at \in [Proc -> Local]
    BY DEF Inv, Core, Typed, TypeOK
  <2>4. ClaimOf(p) \in [owner : Proc \cup {None, Dead}, stale : BOOLEAN]
    BY DEF ClaimOf
  <2> QED
    BY <2>1, <2>2, <2>3, <2>4
<1>2. ASSUME at' \in [Proc -> Local] /\ Others(p) /\ CallInv(p)'
      PROVE  Core'
  BY <1>1, <1>2, QuietStep
<1>3. ASSUME NEW to \in {"reread", "recheck"}, Goto(p, to)
      PROVE  Core'
  <2>1. to \in Location
    BY DEF Location
  <2> QED
    BY <1>1, <1>2, <1>3, <2>1, Goes DEF Quiet, CallInv, Remembers, Published, HasRead, Appending
<1>4. CASE at' = at
  BY <1>1, <1>2, <1>4, CallKept, QuietKeeps DEF Others
<1>5. CASE AssertOwned(p) /\ ~Leave(p)
  <2>1. PICK to \in {"request", "accepted"} :
          /\ Goto(p, to)
          /\ \/ (at[p].pc = "judged" /\ to = "request")
             \/ (at[p].pc = "published" /\ to = "accepted")
    BY <1>5 DEF AssertOwned
  <2>2. to \in Location
    BY DEF Location, ArtifactName
  <2>3. CallInv(p)'
    <3>1. /\ at'[p].pc = to /\ at'[p].answer = at[p].answer /\ at'[p].taken = at[p].taken
          /\ artifact' = artifact
      BY <1>1, <2>1, <2>2, Goes DEF Quiet
    <3>2. Remembers(at[p])' /\ HasRead(at[p])'
      BY <1>1, <2>1, <3>1 DEF CallInv, Remembers, HasRead, Appending
    <3>3. Published(at[p])'
      BY <1>1, <2>1, <3>1 DEF CallInv, Published
    <3> QED
      BY <3>2, <3>3 DEF CallInv
  <2> QED
    BY <1>1, <1>2, <2>1, <2>2, <2>3, Goes
<1>6. CASE Leave(p)
  BY <1>1, <1>2, <1>6, Ends
<1> QED
  BY <1>3, <1>4, <1>5, <1>6 DEF Claim, GiveUp, Refresh

(* The judges answer, or do not pass.                                      *)
LEMMA JudgeStep ==
  ASSUME Inv, NEW p \in Proc, Judge(p) \/ NotPassed(p)
  PROVE  Core'
<1>1. Quiet /\ claim' = claim /\ Typed /\ CallInv(p) /\ at[p].pc = "judge"
  BY DEF Inv, Core, Judge, NotPassed, Quiet
<1>2. ASSUME at' \in [Proc -> Local] /\ Others(p) /\ CallInv(p)'
      PROVE  Core'
  BY <1>1, <1>2, QuietStep DEF Typed, TypeOK
<1>3. CASE Judge(p)
  <2>1. PICK a \in Answer : at' = [at EXCEPT ![p].pc = "judged", ![p].answer = a]
    BY <1>3 DEF Judge
  <2> DEFINE l == [at[p] EXCEPT !.pc = "judged", !.answer = a]
  <2>2. at[p] \in Local /\ "judged" \in Location
    BY <1>1 DEF Typed, TypeOK, Location
  <2>3. /\ l \in Local /\ l.pc = "judged" /\ l.answer = a
        /\ l.goal = at[p].goal /\ l.taken = at[p].taken
    BY <2>2 DEF Local
  <2>4. at' = [at EXCEPT ![p] = l]
    BY <2>1, <2>2 DEF Local
  <2> HIDE DEF l
  <2>5. at' \in [Proc -> Local] /\ at'[p] = l /\ Others(p)
    BY <1>1, <2>3, <2>4, Moves
  <2>6. CallInv(p)'
    BY <1>1, <2>3, <2>5 DEF Quiet, CallInv, Remembers, Published, HasRead, Appending
  <2> QED
    BY <1>2, <2>5, <2>6
<1>4. CASE NotPassed(p)
  BY <1>1, <1>2, <1>4, Ends DEF NotPassed
<1> QED
  BY <1>3, <1>4

(* The statuses are looked up once more.                                   *)
LEMMA VerifyStep ==
  ASSUME Inv, NEW p \in Proc, Verify(p)
  PROVE  Core'
<1>1. Quiet /\ claim' = claim /\ Typed /\ CallInv(p) /\ at[p].pc = "verify"
  BY DEF Inv, Core, Verify, Quiet
<1>2. ASSUME at' \in [Proc -> Local] /\ Others(p) /\ CallInv(p)'
      PROVE  Core'
  BY <1>1, <1>2, QuietStep DEF Typed, TypeOK
<1>3. CASE Passed /\ Goto(p, "closeout")
  <2>1. "closeout" \in Location
    BY DEF Location, ArtifactName
  <2>2. CallInv(p)'
    BY <1>1, <1>3, <2>1, Goes DEF Quiet, CallInv, Remembers, Published, HasRead, Appending, Passed
  <2> QED
    BY <1>1, <1>2, <1>3, <2>1, <2>2, Goes
<1>4. CASE Leave(p)
  BY <1>1, <1>2, <1>4, Ends
<1> QED
  BY <1>3, <1>4 DEF Verify

(* A claim is given back.                                                  *)
LEMMA ReleaseStep ==
  ASSUME Inv, NEW p \in Proc, Release(p)
  PROVE  Core'
<1>1. /\ Quiet /\ Typed
      /\ claim' \in [owner : Proc \cup {None, Dead}, stale : BOOLEAN]
  BY DEF Inv, Core, Typed, TypeOK, Release, Quiet, NoClaim
<1> QED
  BY <1>1, Ends, QuietStep DEF Release

(* The result is returned.                                                 *)
LEMMA FinishStep ==
  ASSUME Inv, NEW p \in Proc, Finish(p)
  PROVE  Core'
<1>1. /\ UNCHANGED <<claim, artifact, storeVars>>
      /\ Typed /\ CallInv(p) /\ at[p].pc = "finish" /\ Leave(p)
      /\ results' = results \cup {at[p].taken}
  BY DEF Inv, Core, Finish
<1>2. at[p].taken \in Answer /\ artifact["accepted"] = at[p].taken
  BY <1>1 DEF CallInv, Remembers, Published, FinalizationAssumption, Answer
<1>3. Kept /\ Grows
  BY <1>1 DEF Kept, Grows, Passed
<1>4. at' \in [Proc -> Local] /\ Others(p) /\ CallInv(p)'
  BY <1>1, Ends
<1>5. Typed'
  BY <1>1, <1>2, <1>4 DEF Typed, TypeOK
<1>6. LogInv'
  BY <1>1 DEF Inv, Core, LogInv, Sound, Once, AuditedFirst, Places
<1>7. AcceptedIsBacked'
  BY <1>1, <1>2 DEF Inv, Core, AcceptedIsBacked, Bound
<1> QED
  BY <1>3, <1>4, <1>5, <1>6, <1>7, OneMoves

(***************************************************************************)
(* The artifacts.                                                          *)
(***************************************************************************)

FileTyped(g, c) ==
  /\ g \in {"candidate", "request", "closeout"} => c \in {None, Torn, Fixed}
  /\ g = "response" => c \in Judgement \cup {None, Torn}
  /\ g \in {"aggregate", "accepted", "pass"} => c \in Answer \cup {None, Torn}
FilesTyped ==
  artifact \in [ArtifactName -> Content] /\ \A g \in ArtifactName : FileTyped(g, artifact[g])
RestTyped ==
  /\ claim \in [owner : Proc \cup {None, Dead}, stale : BOOLEAN]
  /\ log \in Seq(Event) /\ record \in Seq(Event)
  /\ store \in Proc \cup {None, Dead, Torn}
  /\ marker \in Seq(Event) /\ dirs \subseteq Seq(Event)
  /\ at \in [Proc -> Local]
  /\ results \subseteq Answer
  /\ undone \in BOOLEAN

(* The types of the artifacts apart from the others.                       *)
LEMMA TypedIs == /\ Typed <=> FilesTyped /\ RestTyped
                 /\ Typed' <=> FilesTyped' /\ RestTyped'
<1>1. {"candidate", "request", "closeout", "response", "aggregate", "accepted", "pass"} = ArtifactName
  BY DEF ArtifactName
<1>2. Typed <=> FilesTyped /\ RestTyped
  BY <1>1 DEF Typed, TypeOK, FilesTyped, RestTyped, FileTyped
<1>3. Typed' <=> FilesTyped' /\ RestTyped'
  BY <1>1 DEF Typed, TypeOK, FilesTyped, RestTyped, FileTyped
<1> QED
  BY <1>2, <1>3

(* An artifact is written that was not there, or that has these bytes; an  *)
(* accepted result and a pass only for what is backed.                     *)
LEMMA Written ==
  ASSUME Inv, NEW f \in ArtifactName, NEW c \in Content, artifact[f] \in {None, c},
         FileTyped(f, c), artifact' = [artifact EXCEPT ![f] = c], results' = results,
         f = "accepted" /\ c \in Answer => Bound(c),
         f = "pass" /\ c \in Answer => c = artifact["accepted"]
  PROVE  Kept /\ FilesTyped' /\ AcceptedIsBacked'
<1>1. FilesTyped /\ AcceptedIsBacked /\ RestTyped
  BY TypedIs DEF Inv, Core
<1>2. /\ artifact \in [ArtifactName -> Content] /\ artifact' \in [ArtifactName -> Content]
      /\ artifact'[f] = c /\ \A g \in ArtifactName \ {f} : artifact'[g] = artifact[g]
  BY <1>1 DEF FilesTyped
<1>3. Kept
  BY <1>2 DEF Kept
<1>4. FilesTyped'
  BY <1>1, <1>2 DEF FilesTyped, FileTyped
<1>5. /\ {"candidate", "request", "response", "aggregate", "accepted", "pass"} \subseteq ArtifactName
      /\ None # Fixed
      /\ \A a \in Answer : a # None /\ a[1] # None
  BY DEF ArtifactName, FinalizationAssumption, Answer
<1>6. \A a \in Answer : Bound(a) => Bound(a)'
  BY <1>3, <1>5 DEF Bound, Kept
<1>7. (artifact["accepted"] \in Answer => Bound(artifact["accepted"]))'
  <2>1. CASE f = "accepted"
    BY <1>2, <1>6, <2>1
  <2>2. CASE f # "accepted"
    <3>1. artifact'["accepted"] = artifact["accepted"]
      BY <1>2, <1>5, <2>2
    <3>2. artifact["accepted"] \in Answer => Bound(artifact["accepted"])
      BY <1>1 DEF AcceptedIsBacked
    <3> QED
      BY <1>6, <3>1, <3>2
  <2> QED
    BY <2>1, <2>2
<1>8. (artifact["pass"] \in Answer => artifact["pass"] = artifact["accepted"])'
  <2>1. ASSUME artifact["accepted"] \in Answer PROVE artifact'["accepted"] = artifact["accepted"]
    BY <1>3, <1>5, <2>1 DEF Kept
  <2>2. CASE f = "pass"
    BY <1>2, <1>5, <2>1, <2>2
  <2>3. CASE f # "pass"
    BY <1>1, <1>2, <1>5, <2>1, <2>3 DEF AcceptedIsBacked
  <2> QED
    BY <2>2, <2>3
<1>9. results' \subseteq {artifact'["accepted"]}
  BY <1>1, <1>3, <1>5 DEF AcceptedIsBacked, RestTyped, Kept
<1> QED
  BY <1>3, <1>4, <1>7, <1>8, <1>9 DEF AcceptedIsBacked

(* What an interrupted step does to an artifact.                           *)
LEMMA Tears ==
  ASSUME Inv, NEW p \in Proc, MayTear(p), results' = results
  PROVE  Kept /\ FilesTyped' /\ AcceptedIsBacked'
<1>1. CASE artifact' = artifact
  <2>1. Kept
    BY <1>1 DEF Kept
  <2>2. FilesTyped /\ AcceptedIsBacked
    BY TypedIs DEF Inv, Core
  <2> QED
    BY <1>1, <2>1, <2>2 DEF FilesTyped, AcceptedIsBacked, Bound
<1>2. CASE artifact' # artifact
  <2> DEFINE f == at[p].pc
  <2>1. f \in ArtifactName /\ artifact[f] = None /\ artifact' = [artifact EXCEPT ![f] = Torn]
    BY <1>2 DEF MayTear
  <2>2. Torn \in Content /\ Torn \notin Answer /\ FileTyped(f, Torn)
    BY DEF Content, FinalizationAssumption, Answer, FileTyped
  <2> QED
    BY <2>1, <2>2, Written
<1> QED
  BY <1>1, <1>2

(* What the store and the calls hold that is, was, or may become the log.  *)
Logs == {log, record, marker} \cup {at[q].pre : q \in Proc}

(* Log, record and marker become one another, or what a call has read      *)
(* before the lock.                                                        *)
LEMMA LogsMove ==
  ASSUME Inv, log' \in Logs, record' \in Logs, marker' \in Logs, ~undone' => ~undone
  PROVE  LogInv' /\ log' \in Seq(Event) /\ record' \in Seq(Event) /\ marker' \in Seq(Event)
<1>1. \A s \in Logs : s \in Seq(Event) /\ Sound(s)
  BY DEF Logs, Inv, Core, Typed, TypeOK, Local, LogInv, PreInv
<1> QED
  BY <1>1, SoundOn DEF LogInv

(* An artifact is published, or found to be another.                       *)
LEMMA PublishStep ==
  ASSUME Inv, NEW p \in Proc, Publish(p)
  PROVE  Core'
<1> DEFINE f == at[p].pc
           c == ContentOf(p, f)
<1>1. /\ f \in ArtifactName /\ Typed /\ CallInv(p) /\ RestTyped
      /\ UNCHANGED <<claim, storeVars, results>>
  BY TypedIs DEF Inv, Core, Publish
<1>2. CASE ~Accept(f, c)
  <2>1. Quiet /\ Leave(p) /\ claim' \in [owner : Proc \cup {None, Dead}, stale : BOOLEAN]
    BY <1>1, <1>2 DEF Publish, Quiet, RestTyped
  <2> QED
    BY <1>1, <2>1, Ends, QuietStep
<1>3. CASE Accept(f, c)
  <2>1. artifact' = [artifact EXCEPT ![f] = c] /\ artifact[f] \in {None, c}
    BY <1>3 DEF Publish, Accept
  <2>2. /\ f \in {"candidate", "request", "closeout"} => c = Fixed
        /\ f = "response" => c = at[p].answer[1] /\ at[p].answer \in Answer
        /\ f \in {"aggregate", "accepted"} => c = at[p].answer /\ at[p].answer \in Answer
        /\ f = "pass" => c = at[p].taken /\ at[p].taken \in Answer
    BY <1>1 DEF ContentOf, CallInv, Remembers
  <2>3. \A a \in Answer : a # None /\ a[1] \in Judgement
    BY DEF FinalizationAssumption, Answer
  <2>4. c \in Content /\ FileTyped(f, c)
    BY <1>1, <2>2, <2>3 DEF ArtifactName, Content, FileTyped
  <2>5. f = "accepted" => Bound(c)
    BY <1>1, <2>2 DEF CallInv, Published, Bound
  <2>6. f = "pass" => c = artifact["accepted"]
    BY <1>1, <2>2, <2>3 DEF CallInv, Published
  <2>7. Kept /\ FilesTyped' /\ AcceptedIsBacked'
    BY <1>1, <2>1, <2>4, <2>5, <2>6, Written
  <2>8. Grows
    BY <1>1 DEF Grows, Passed
  <2>9. LogInv'
    BY <1>1, LogsMove DEF Logs
  <2>10. ASSUME at' \in [Proc -> Local] /\ Others(p) /\ CallInv(p)'
         PROVE  Core'
    <3>1. RestTyped'
      BY <1>1, <2>10 DEF RestTyped
    <3> QED
      BY <2>7, <2>8, <2>9, <2>10, <3>1, TypedIs, OneMoves
  <2>11. /\ artifact'[f] = c
         /\ {"candidate", "request", "response", "aggregate", "accepted"} \subseteq ArtifactName
         /\ Fixed # None
         /\ \A a \in Answer : a # None /\ a[1] # None
    BY <1>1, <2>1, <2>3 DEF Typed, TypeOK, ArtifactName, FinalizationAssumption
  <2>12. /\ at[p].taken # None => artifact'["accepted"] = at[p].taken
         /\ artifact["candidate"] = Fixed => artifact'["candidate"] = Fixed
         /\ artifact["request"] = Fixed => artifact'["request"] = Fixed
         /\ \A a \in Answer : artifact["response"] = a[1] => artifact'["response"] = a[1]
         /\ \A a \in Answer : artifact["aggregate"] = a => artifact'["aggregate"] = a
    BY <1>1, <2>7, <2>11 DEF CallInv, Published, Kept
  <2>13. CASE f = "accepted" /\ at' = [at EXCEPT ![p].pc = "pass", ![p].taken = c, ![p].answer = None]
    <3> DEFINE l == [at[p] EXCEPT !.pc = "pass", !.taken = c, !.answer = None]
    <3>1. at[p] \in Local /\ "pass" \in Location /\ c \in Answer
      BY <1>1, <2>2, <2>13 DEF Typed, TypeOK, Location, ArtifactName
    <3> HIDE DEF c
    <3>2. l.pc = "pass" /\ l.taken = c /\ l.goal = at[p].goal /\ l \in Local
      BY <3>1 DEF Local
    <3>3. at' = [at EXCEPT ![p] = l]
      BY <2>13, <3>1 DEF Local
    <3> HIDE DEF l
    <3>4. at' \in [Proc -> Local] /\ at'[p] = l /\ Others(p)
      BY <1>1, <3>2, <3>3, Moves
    <3>5. CallInv(p)'
      BY <2>11, <2>13, <3>1, <3>2, <3>4 DEF CallInv, Remembers, Published, HasRead, Appending
    <3> QED
      BY <2>10, <3>4, <3>5
  <2>14. CASE f = "pass" /\ Pursue(p, "execution_closure")
    <3>1. "execution_closure" \in Event \ Decision
      BY DEF Event, Decision
    <3>2. CallInv(p)'
      BY <1>1, <2>12, <2>14, <3>1, Pursues DEF CallInv, Remembers, Published, HasRead, Appending
    <3> QED
      BY <1>1, <2>10, <2>14, <3>1, <3>2, Pursues
  <2>15. CASE f = "closeout" /\ Pursue(p, "request")
    <3>1. "request" \in Event \ Decision
      BY DEF Event, Decision
    <3>2. at[p].taken \in Answer /\ (~undone' => Passed')
      BY <1>1, <2>8, <2>15 DEF CallInv, Remembers, HasRead, Grows
    <3>3. CallInv(p)'
      BY <1>1, <2>12, <2>15, <3>1, <3>2, Pursues DEF CallInv, Remembers, Published, HasRead, Appending
    <3> QED
      BY <1>1, <2>10, <2>15, <3>1, <3>3, Pursues
  <2>16. CASE f \in {"candidate", "request", "response", "aggregate"} /\ Goto(p, Following[f])
    <3> DEFINE to == Following[f]
    <3>1. /\ to \in Location
          /\ f = "candidate" => to = "judge"
          /\ f = "request" => to = "response"
          /\ f = "response" => to = "aggregate"
          /\ f = "aggregate" => to = "published"
      BY <2>16 DEF Following, Location, ArtifactName
    <3> HIDE DEF to
    <3>2. /\ at' \in [Proc -> Local] /\ Others(p) /\ at'[p].pc = to
          /\ at'[p].goal = at[p].goal /\ at'[p].answer = at[p].answer /\ at'[p].taken = at[p].taken
      BY <1>1, <2>16, <3>1, Goes DEF to
    <3>3. Remembers(at[p])'
      BY <1>1, <2>16, <3>1, <3>2 DEF CallInv, Remembers, Appending
    <3>4. Published(at[p])'
      BY <1>1, <2>2, <2>11, <2>12, <2>16, <3>1, <3>2 DEF CallInv, Published
    <3>5. HasRead(at[p])'
      BY <2>16, <3>1, <3>2 DEF HasRead, Appending
    <3> QED
      BY <2>10, <3>2, <3>3, <3>4, <3>5 DEF CallInv
  <2> QED
    BY <1>3, <2>13, <2>14, <2>15, <2>16 DEF Publish, Materialize
<1> QED
  BY <1>2, <1>3

(***************************************************************************)
(* The requirement record.                                                 *)
(***************************************************************************)

(* The record file is read: what an append follows is what it has seen.    *)
LEMMA ReadStep ==
  ASSUME Inv, NEW p \in Proc, Read(p)
  PROVE  Core'
<1>1. /\ Quiet /\ claim' = claim /\ Typed /\ CallInv(p) /\ at[p].pc = "read"
      /\ at[p] \in Local /\ record \in Seq(Event)
  BY DEF Inv, Core, Typed, TypeOK, Read, Quiet
<1>2. ASSUME at' \in [Proc -> Local] /\ Others(p) /\ CallInv(p)'
      PROVE  Core'
  BY <1>1, <1>2, QuietStep DEF Typed, TypeOK
<1>3. /\ at[p].goal \in {"execution_closure", "audit_review", "request"}
      /\ at[p].goal \in Event /\ at[p].goal \notin Decision
      /\ at[p].goal \in {"audit_review", "request"} => at[p].taken \in Answer
      /\ at[p].taken \in Answer \cup {None}
      /\ at[p].tries \in 0..4
  BY <1>1 DEF CallInv, Remembers, Appending, Event, Decision, Local
<1>4. CASE Leave(p)
  BY <1>1, <1>2, <1>4, Ends
<1>5. ASSUME NEW to \in {"verify", "candidate"}, to = "verify" => at[p].taken \in Answer,
             at' = [at EXCEPT ![p].pc = to, ![p].tries = 0]
      PROVE  Core'
  <2> DEFINE l == [at[p] EXCEPT !.pc = to, !.tries = 0]
  <2>1. to \in Location
    BY DEF Location, ArtifactName
  <2>2. l.pc = to /\ l.taken = at[p].taken /\ l.goal = at[p].goal /\ l \in Local
    <3>1. 0 \in 0..4
      OBVIOUS
    <3>2. l.pc = to /\ l.taken = at[p].taken /\ l.goal = at[p].goal
      BY <1>1 DEF Local
    <3>3. l \in Local
      BY <1>1, <2>1, <3>1 DEF Local
    <3> QED
      BY <3>2, <3>3
  <2>3. at' = [at EXCEPT ![p] = l]
    BY <1>1, <1>5 DEF Local
  <2> HIDE DEF l
  <2>4. at' \in [Proc -> Local] /\ at'[p] = l /\ Others(p)
    BY <1>1, <2>2, <2>3, Moves
  <2>5. CallInv(p)'
    BY <1>1, <1>5, <2>2, <2>4 DEF Quiet, CallInv, Remembers, Published, HasRead, Appending
  <2> QED
    BY <1>2, <2>4, <2>5
<1>6. CASE Pursue(p, "audit_review") /\ at[p].taken \in Answer
  <2>1. "audit_review" \in Event \ Decision
    BY DEF Event, Decision
  <2>2. CallInv(p)'
    BY <1>1, <1>6, <2>1, Pursues DEF Quiet, CallInv, Remembers, Published, HasRead, Appending
  <2> QED
    BY <1>1, <1>2, <1>6, <2>1, <2>2, Pursues
<1>7. CASE at[p].goal = "request" /\ at' = [at EXCEPT ![p].pc = "finish", ![p].tries = 0]
  <2> DEFINE l == [at[p] EXCEPT !.pc = "finish", !.tries = 0]
  <2>1. "finish" \in Location /\ 0 \in 0..4
    BY DEF Location
  <2>2. l.pc = "finish" /\ l.taken = at[p].taken
    BY <1>1 DEF Local
  <2>3. l \in Local
    BY <1>1, <2>1 DEF Local
  <2>4. at' = [at EXCEPT ![p] = l]
    BY <1>1, <1>7 DEF Local
  <2> HIDE DEF l
  <2>5. at' \in [Proc -> Local] /\ at'[p] = l /\ Others(p)
    BY <1>1, <2>3, <2>4, Moves
  <2>6. CallInv(p)'
    BY <1>1, <1>3, <1>7, <2>2, <2>5 DEF Quiet, CallInv, Remembers, Published, HasRead, Appending
  <2> QED
    BY <1>2, <2>5, <2>6
<1>8. CASE ~Spent(p) /\ ~Has(record, at[p].goal) /\ at' = [at EXCEPT ![p].pc = "append", ![p].seen = record]
  <2> DEFINE l == [at[p] EXCEPT !.pc = "append", !.seen = record]
  <2>1. "append" \in Location
    BY DEF Location
  <2>2. /\ l.pc = "append" /\ l.taken = at[p].taken /\ l.goal = at[p].goal
        /\ l.seen = record /\ l.tries = at[p].tries /\ l \in Local
    BY <1>1, <2>1 DEF Local
  <2>3. at' = [at EXCEPT ![p] = l]
    BY <1>1, <1>8 DEF Local
  <2> HIDE DEF l
  <2>4. at' \in [Proc -> Local] /\ at'[p] = l /\ Others(p)
    BY <1>1, <2>2, <2>3, Moves
  <2>5. at[p].tries \in 0..3
    BY <1>3, <1>8 DEF Spent
  <2>6. at[p].goal = "request" /\ ~undone => Has(record, "execution_closure") /\ Has(record, "audit_review")
    BY <1>1 DEF CallInv, HasRead, Appending, Passed
  <2>7. (Remembers(at[p]) /\ Published(at[p]))'
    BY <1>1, <1>3, <2>2, <2>4, <2>5 DEF Quiet, CallInv, Remembers, Published, Appending
  <2>8. HasRead(at[p])'
    BY <1>1, <1>3, <1>8, <2>2, <2>4, <2>6 DEF Quiet, HasRead, MayFollow, Appending, Passed
  <2> QED
    BY <1>2, <2>4, <2>7, <2>8 DEF CallInv
<1>9. CASE AfterStatus(p) /\ at[p].goal # "request"
  BY <1>3, <1>5, <1>6, <1>9 DEF AfterStatus
<1> QED
  BY <1>4, <1>7, <1>8, <1>9 DEF Read

(* The record is read before the lock, after what a dead owner left was    *)
(* put right.                                                              *)
LEMMA AppendStep ==
  ASSUME Inv, NEW p \in Proc, Append_(p)
  PROVE  Core'
<1>1. /\ Typed /\ CallInv(p) /\ RestTyped /\ at[p].pc = "append" /\ at[p] \in Local
      /\ UNCHANGED <<claim, artifact, log, marker, dirs, results>>
      /\ AcceptedIsBacked /\ FilesTyped
  BY TypedIs DEF Inv, Core, RestTyped, Append_
<1>2. Kept /\ AcceptedIsBacked' /\ FilesTyped'
  BY <1>1 DEF Kept, AcceptedIsBacked, Bound, FilesTyped
<1>3. CASE Leave(p) /\ UNCHANGED <<record, store, undone>>
  <2>1. Quiet /\ claim' \in [owner : Proc \cup {None, Dead}, stale : BOOLEAN]
    BY <1>1, <1>3 DEF Quiet, RestTyped
  <2> QED
    BY <1>1, <1>3, <2>1, Ends, QuietStep
<1>4. CASE Recover /\ at' = [at EXCEPT ![p].pc = "lock", ![p].pre = log]
  <2>1. /\ record' = log /\ store' = None /\ undone' \in BOOLEAN
        /\ (~undone' => ~undone /\ record = log)
    BY <1>1, <1>4 DEF RestTyped, Recover
  <2>2. LogInv' /\ record' \in Seq(Event)
    BY <1>1, <2>1, LogsMove DEF Logs
  <2>3. Grows
    BY <2>1 DEF Grows, Passed
  <2> DEFINE l == [at[p] EXCEPT !.pc = "lock", !.pre = log]
  <2>4. "lock" \in Location /\ log \in Seq(Event)
    BY <1>1 DEF Location, RestTyped
  <2>5. /\ l.pc = "lock" /\ l.taken = at[p].taken /\ l.goal = at[p].goal
        /\ l.tries = at[p].tries /\ l.seen = at[p].seen
    BY <1>1 DEF Local
  <2>6. l \in Local
    BY <1>1, <2>4 DEF Local
  <2>7. at' = [at EXCEPT ![p] = l]
    BY <1>1, <1>4 DEF Local
  <2> HIDE DEF l
  <2>8. at' \in [Proc -> Local] /\ at'[p] = l /\ Others(p)
    BY <1>1, <2>6, <2>7, Moves
  <2>9. (Remembers(at[p]) /\ Published(at[p]))'
    BY <1>1, <2>5, <2>8 DEF CallInv, Remembers, Published, Appending
  <2>10. HasRead(at[p])'
    BY <1>1, <2>1, <2>3, <2>5, <2>8 DEF CallInv, HasRead, MayFollow, Appending, Grows
  <2>11. RestTyped'
    BY <1>1, <2>1, <2>2, <2>8 DEF RestTyped
  <2> QED
    BY <1>2, <2>2, <2>3, <2>8, <2>9, <2>10, <2>11, TypedIs, OneMoves DEF CallInv
<1> QED
  BY <1>3, <1>4 DEF Append_

(* The record file is written under the lock, if it is the one that was    *)
(* read.                                                                   *)
LEMMA LockStep ==
  ASSUME Inv, NEW p \in Proc, Lock(p)
  PROVE  Core'
<1>1. /\ Typed /\ CallInv(p) /\ RestTyped /\ at[p].pc = "lock" /\ at[p] \in Local
      /\ UNCHANGED <<claim, artifact, log, marker, dirs, undone, results>>
      /\ LogInv /\ AcceptedIsBacked /\ FilesTyped
  BY TypedIs DEF Inv, Core, RestTyped, Lock
<1>2. /\ at[p].goal \in Event /\ at[p].tries \in 0..3 /\ MayFollow(at[p].seen, at[p].goal)
      /\ at[p].goal = "request" /\ ~undone => Passed
      /\ at[p].goal \in {"audit_review", "request"} => at[p].taken \in Answer
  BY <1>1 DEF CallInv, Remembers, HasRead, Appending
<1>3. Kept /\ AcceptedIsBacked' /\ FilesTyped'
  BY <1>1 DEF Kept, AcceptedIsBacked, Bound, FilesTyped
<1>4. ASSUME at' \in [Proc -> Local], Others(p), CallInv(p)', UNCHANGED <<record, store>>
      PROVE  Core'
  <2>1. Quiet /\ claim' \in [owner : Proc \cup {None, Dead}, stale : BOOLEAN]
    BY <1>1, <1>4 DEF Quiet, RestTyped
  <2> QED
    BY <1>4, <2>1, QuietStep
<1>5. CASE Leave(p) /\ UNCHANGED <<record, store>>
  BY <1>1, <1>4, <1>5, Ends
<1>6. CASE UNCHANGED <<record, store>> /\ at' = [at EXCEPT ![p] = Retry(p)]
  <2> DEFINE l == Retry(p)
  <2>1. /\ l.pc = (IF Confirming(p) THEN "admit" ELSE "read") /\ l.goal = at[p].goal
        /\ l.taken = at[p].taken /\ l \in Local
    <3>1. {"admit", "read"} \subseteq Location /\ <<>> \in Seq(Event) /\ at[p].tries + 1 \in 0..4
      BY <1>2 DEF Location
    <3>2. l = [at[p] EXCEPT !.seen = <<>>, !.pre = <<>>,
                            !.pc = IF Confirming(p) THEN "admit" ELSE "read",
                            !.tries = at[p].tries + 1]
      BY <1>1 DEF Retry, Local
    <3> HIDE DEF l
    <3>3. /\ l.pc = (IF Confirming(p) THEN "admit" ELSE "read") /\ l.goal = at[p].goal
          /\ l.taken = at[p].taken
      BY <1>1, <3>2 DEF Local
    <3>4. l \in Local
      BY <1>1, <3>1, <3>2 DEF Local
    <3> QED
      BY <3>3, <3>4
  <2> HIDE DEF l
  <2>2. at' \in [Proc -> Local] /\ at'[p] = l /\ Others(p)
    BY <1>1, <1>6, <2>1, Moves DEF l
  <2>3. Confirming(p) <=> l.goal \in Decision
    BY <2>1 DEF Confirming
  <2>4. (Remembers(at[p]) /\ Published(at[p]))'
    BY <1>1, <1>2, <2>1, <2>2, <2>3 DEF CallInv, Remembers, Published, Appending
  <2>5. HasRead(at[p])'
    BY <1>1, <1>2, <1>6, <2>1, <2>2 DEF HasRead, Appending, Passed
  <2> QED
    BY <1>4, <1>6, <2>2, <2>4, <2>5 DEF CallInv
<1>7. CASE UNCHANGED <<record, store>> /\ at' = [at EXCEPT ![p].pc = "append", ![p].pre = <<>>]
  <2> DEFINE l == [at[p] EXCEPT !.pc = "append", !.pre = <<>>]
  <2>1. "append" \in Location /\ <<>> \in Seq(Event)
    BY DEF Location
  <2>2. /\ l.pc = "append" /\ l.taken = at[p].taken /\ l.goal = at[p].goal
        /\ l.tries = at[p].tries /\ l.seen = at[p].seen
    BY <1>1 DEF Local
  <2>3. l \in Local
    BY <1>1, <2>1 DEF Local
  <2>4. at' = [at EXCEPT ![p] = l]
    BY <1>1, <1>7 DEF Local
  <2> HIDE DEF l
  <2>5. at' \in [Proc -> Local] /\ at'[p] = l /\ Others(p)
    BY <1>1, <2>3, <2>4, Moves
  <2>6. (Remembers(at[p]) /\ Published(at[p]))'
    BY <1>1, <2>2, <2>5 DEF CallInv, Remembers, Published, Appending
  <2>7. HasRead(at[p])'
    BY <1>1, <1>2, <1>7, <2>2, <2>5 DEF HasRead, MayFollow, Appending, Passed
  <2> QED
    BY <1>4, <1>7, <2>5, <2>6, <2>7 DEF CallInv
<1>8. CASE /\ AsSeen(p) /\ store = None /\ record' = Append(log, at[p].goal) /\ store' = p
           /\ at' = [at EXCEPT ![p].pc = "commit", ![p].seen = <<>>, ![p].pre = <<>>]
  <2>1. MayFollow(log, at[p].goal) /\ log \in Seq(Event)
    BY <1>1, <1>2, <1>8 DEF AsSeen, RestTyped
  <2>2. record' \in Seq(Event) /\ (\A x : Has(record', x) <=> Has(log, x) \/ x = at[p].goal)
    BY <1>2, <1>8, <2>1, Appends
  <2>4. Grows
    BY <1>1, <1>8, <2>2 DEF Grows, Passed, Inv, Settled
  <2>5. Once(record') /\ (~undone => AuditedFirst(record'))
    BY <1>1, <1>2, <1>8, <2>1, OnceKept, AuditedKept DEF LogInv, Sound
  <2>6. LogInv'
    BY <1>1, <2>5, SoundOn DEF LogInv, Sound
  <2> DEFINE l == [at[p] EXCEPT !.pc = "commit", !.seen = <<>>, !.pre = <<>>]
  <2>7. "commit" \in Location /\ <<>> \in Seq(Event)
    BY DEF Location
  <2>8. /\ l.pc = "commit" /\ l.taken = at[p].taken /\ l.goal = at[p].goal
        /\ l.tries = at[p].tries
    BY <1>1 DEF Local
  <2>9. l \in Local
    BY <1>1, <2>7 DEF Local
  <2>10. at' = [at EXCEPT ![p] = l]
    BY <1>1, <1>8 DEF Local
  <2> HIDE DEF l
  <2>11. at' \in [Proc -> Local] /\ at'[p] = l /\ Others(p)
    BY <1>1, <2>9, <2>10, Moves
  <2>12. (Remembers(at[p]) /\ Published(at[p]))'
    BY <1>1, <1>2, <2>8, <2>11 DEF CallInv, Remembers, Published, Appending
  <2>13. HasRead(at[p])'
    BY <1>2, <2>4, <2>8, <2>11 DEF HasRead, Appending, Grows
  <2>14. RestTyped'
    BY <1>1, <1>8, <2>2, <2>11 DEF RestTyped
  <2> QED
    BY <1>3, <2>4, <2>6, <2>11, <2>12, <2>13, <2>14, TypedIs, OneMoves DEF CallInv
<1> QED
  BY <1>5, <1>6, <1>7, <1>8 DEF Lock

(* The record becomes the log.                                             *)
LEMMA CommitStep ==
  ASSUME Inv, NEW p \in Proc, Commit(p)
  PROVE  Core'
<1>1. /\ Typed /\ CallInv(p) /\ RestTyped /\ at[p].pc = "commit" /\ at[p] \in Local
      /\ UNCHANGED <<claim, artifact, record, results, undone>> /\ store' = None
      /\ log' = record /\ marker' = record /\ dirs' \subseteq dirs \cup {record}
      /\ AcceptedIsBacked /\ FilesTyped
  BY TypedIs DEF Inv, Core, RestTyped, Commit, Committed
<1>2. /\ at[p].goal \in {"execution_closure", "audit_review", "request"} \cup Decision
      /\ at[p].tries \in 0..3
      /\ at[p].goal \in {"audit_review", "request"} => at[p].taken \in Answer
  BY <1>1 DEF CallInv, Remembers, Appending, Event
<1>3. Kept /\ AcceptedIsBacked' /\ FilesTyped' /\ Grows
  BY <1>1 DEF Kept, AcceptedIsBacked, Bound, FilesTyped, Grows, Passed
<1>4. LogInv' /\ log' \in Seq(Event) /\ marker' \in Seq(Event) /\ dirs' \subseteq Seq(Event)
  <2>1. LogInv' /\ log' \in Seq(Event) /\ marker' \in Seq(Event)
    BY <1>1, LogsMove DEF Logs
  <2> QED
    BY <1>1, <2>1 DEF RestTyped
<1> DEFINE to == CASE Confirming(p) -> "answer" [] at[p].goal = "request" -> "finish" [] OTHER -> "read"
           n == IF at[p].goal \in {"execution_closure", "audit_review"} THEN at[p].tries + 1 ELSE 0
           l == [at[p] EXCEPT !.pc = to, !.tries = n]
<1>5. /\ to = "read" => at[p].goal \in {"execution_closure", "audit_review"}
      /\ to = "answer" => at[p].goal \in Decision
      /\ to = "finish" => at[p].goal = "request"
      /\ to \in {"read", "answer", "finish"} /\ n \in 0..4
  <2>1. {"execution_closure", "audit_review", "request"} \cap Decision = {}
    BY DEF Decision
  <2>2. n \in 0..4
    BY <1>2
  <2>3. Confirming(p) <=> at[p].goal \in Decision
    BY DEF Confirming
  <2>4. CASE at[p].goal \in Decision
    BY <2>1, <2>2, <2>3, <2>4
  <2>5. CASE at[p].goal = "request"
    BY <2>1, <2>2, <2>3, <2>5
  <2>6. CASE at[p].goal \in {"execution_closure", "audit_review"}
    BY <2>1, <2>2, <2>3, <2>6
  <2> QED
    BY <1>2, <2>4, <2>5, <2>6
<1>6. at' = [at EXCEPT ![p] = l]
  <2>1. at' = [at EXCEPT ![p].pc = to, ![p].tries = n]
    BY DEF Commit
  <2> HIDE DEF to, n
  <2> QED
    BY <1>1, <2>1 DEF Local
<1> HIDE DEF to, n
<1>7. l.pc = to /\ l.taken = at[p].taken /\ l.goal = at[p].goal /\ l \in Local
  <2>1. to \in Location
    BY <1>5 DEF Location
  <2> QED
    BY <1>1, <1>5, <2>1 DEF Local
<1> HIDE DEF l
<1>8. at' \in [Proc -> Local] /\ at'[p] = l /\ Others(p)
  BY <1>1, <1>6, <1>7, Moves
<1>9. CallInv(p)'
  <2>1. {"execution_closure", "audit_review"} \subseteq Event \ Decision
    BY DEF Event, Decision
  <2>2. Remembers(at[p])'
    BY <1>2, <1>5, <1>7, <1>8, <2>1 DEF Remembers, Appending
  <2>3. Published(at[p])'
    BY <1>1, <1>5, <1>7, <1>8 DEF CallInv, Published
  <2>4. HasRead(at[p])'
    BY <1>5, <1>7, <1>8 DEF HasRead, Appending
  <2> QED
    BY <2>2, <2>3, <2>4 DEF CallInv
<1>10. RestTyped'
  BY <1>1, <1>4, <1>8 DEF RestTyped
<1> QED
  BY <1>3, <1>4, <1>8, <1>9, <1>10, TypedIs, OneMoves

(***************************************************************************)
(* The user's decision.                                                    *)
(***************************************************************************)

(* A decision is brought.                                                  *)
LEMMA ConfirmStep ==
  ASSUME Inv, NEW p \in Proc, Confirm(p)
  PROVE  Core'
<1>1. Quiet /\ claim' = claim /\ Typed
  BY DEF Inv, Core, Confirm, Quiet
<1>2. ASSUME at' \in [Proc -> Local] /\ Others(p) /\ CallInv(p)'
      PROVE  Core'
  BY <1>1, <1>2, QuietStep DEF Typed, TypeOK
<1>3. Core'
  <2>1. PICK d \in Decision : at' = [at EXCEPT ![p].pc = "admit", ![p].goal = d, ![p].tries = 1]
    BY DEF Confirm
  <2> DEFINE l == [at[p] EXCEPT !.pc = "admit", !.goal = d, !.tries = 1]
  <2>2. at[p] \in Local /\ "admit" \in Location /\ d \in Event /\ 1 \in 0..4
    BY <1>1 DEF Typed, TypeOK, Location, Event
  <2>3. at[p].taken = None
    <3>1. at[p] = Idle
      BY DEF Confirm
    <3>2. Idle.taken = None
      BY DEF Idle
    <3> QED
      BY <3>1, <3>2
  <2>4. l.pc = "admit" /\ l.goal = d /\ l.taken = at[p].taken
    BY <2>2 DEF Local
  <2>5. l \in Local
    BY <2>2 DEF Local
  <2>6. at' = [at EXCEPT ![p] = l]
    BY <2>1, <2>2 DEF Local
  <2> HIDE DEF l
  <2>7. at' \in [Proc -> Local] /\ at'[p] = l /\ Others(p)
    BY <1>1, <2>5, <2>6, Moves
  <2>8. CallInv(p)'
    BY <2>3, <2>4, <2>7 DEF CallInv, Remembers, Published, HasRead, Appending
  <2> QED
    BY <1>2, <2>7, <2>8
<1> QED
  BY <1>3

(* A decision is admitted on what is committed.                            *)
LEMMA AdmitStep ==
  ASSUME Inv, NEW p \in Proc, Admit(p)
  PROVE  Core'
<1> DEFINE d == at[p].goal
<1>1. /\ Typed /\ CallInv(p) /\ RestTyped /\ at[p].pc \in {"admit", "answer"} /\ at[p] \in Local
      /\ UNCHANGED <<claim, artifact, log, marker, dirs, results>>
      /\ AcceptedIsBacked /\ FilesTyped
  BY TypedIs DEF Inv, Core, RestTyped, Admit
<1>2. CASE UNCHANGED <<record, store, undone>> /\ Leave(p)
  <2>1. Quiet /\ claim' \in [owner : Proc \cup {None, Dead}, stale : BOOLEAN]
    BY <1>1, <1>2 DEF Quiet, RestTyped
  <2> QED
    BY <1>1, <1>2, <2>1, Ends, QuietStep
<1>3. ASSUME Recover, at' \in [Proc -> Local], Others(p), CallInv(p)'
      PROVE  Core'
  <2>1. /\ record' = log /\ store' = None /\ undone' \in BOOLEAN
        /\ (~undone' => ~undone /\ record = log)
    BY <1>1, <1>3 DEF RestTyped, Recover
  <2>2. Kept /\ AcceptedIsBacked' /\ FilesTyped' /\ Grows
    BY <1>1, <2>1 DEF Kept, AcceptedIsBacked, Bound, FilesTyped, Grows, Passed
  <2>3. LogInv' /\ record' \in Seq(Event)
    BY <1>1, <2>1, LogsMove DEF Logs
  <2>4. RestTyped'
    BY <1>1, <1>3, <2>1, <2>3 DEF RestTyped
  <2> QED
    BY <1>3, <2>2, <2>3, <2>4, TypedIs, OneMoves
<1>4. d \in Decision /\ d \in Event /\ d # "request"
  BY <1>1 DEF CallInv, Remembers, Event, Decision
<1>5. CASE Recover /\ Leave(p)
  BY <1>1, <1>3, <1>5, Ends
<1>6. CASE /\ Recover /\ Has(log, "request") /\ ~Decided(log) /\ at[p].tries = 1
           /\ at' = [at EXCEPT ![p].pc = "append", ![p].seen = log]
  <2> DEFINE l == [at[p] EXCEPT !.pc = "append", !.seen = log]
  <2>1. "append" \in Location /\ at[p].tries \in 0..3 /\ log \in Seq(Event)
    BY <1>1, <1>6 DEF Location, Local, RestTyped
  <2>2. /\ l.pc = "append" /\ l.taken = at[p].taken /\ l.goal = at[p].goal
        /\ l.seen = log /\ l.tries = at[p].tries /\ l \in Local
    BY <1>1, <2>1 DEF Local
  <2>3. at' = [at EXCEPT ![p] = l]
    BY <1>1, <1>6 DEF Local
  <2> HIDE DEF l
  <2>4. at' \in [Proc -> Local] /\ at'[p] = l /\ Others(p)
    BY <1>1, <2>2, <2>3, Moves
  <2>5. (Remembers(at[p]) /\ Published(at[p]))'
    <3>1. at[p].goal \notin {"audit_review", "request"}
      BY <1>4 DEF Decision
    <3> QED
      BY <1>1, <1>4, <2>1, <2>2, <2>4, <3>1 DEF CallInv, Remembers, Published, Appending
  <2>6. ~Has(log, d)
    BY <1>4, <1>6 DEF Decided
  <2>7. HasRead(at[p])'
    BY <1>4, <1>6, <2>2, <2>4, <2>6 DEF HasRead, MayFollow, Appending, Decided, Has
  <2> QED
    BY <1>3, <1>6, <2>4, <2>5, <2>7 DEF CallInv
<1> QED
  BY <1>2, <1>5, <1>6 DEF Admit

(***************************************************************************)
(* What can go wrong.                                                      *)
(***************************************************************************)

(* A lease ends.                                                           *)
LEMMA ExpireStep ==
  ASSUME Inv, Expire
  PROVE  Core'
<1>1. Quiet /\ at' = at /\ claim' = [claim EXCEPT !.stale = TRUE] /\ RestTyped /\ FilesTyped
  BY TypedIs DEF Inv, Core, Expire, Quiet
<1>2. Kept /\ Grows /\ LogInv' /\ AcceptedIsBacked'
  BY <1>1, QuietKeeps
<1>3. claim' \in [owner : Proc \cup {None, Dead}, stale : BOOLEAN]
  BY <1>1 DEF RestTyped
<1>4. Typed'
  BY <1>1, <1>3, TypedIs DEF RestTyped, FilesTyped, Quiet
<1>5. ASSUME NEW q \in Proc PROVE CallInv(q)'
  BY <1>1, <1>2, CallKept DEF Inv, Core
<1> QED
  BY <1>2, <1>4, <1>5 DEF Inv, Core

(* What a failure or a death leaves of the claim is a claim.               *)
LEMMA ClaimLeft ==
  ASSUME Typed, NEW p \in Proc, NEW c \in HalfClaimed(p) \cup {claim}
  PROVE  /\ c \in [owner : Proc \cup {None, Dead}, stale : BOOLEAN]
         /\ Orphan(c, p) \in [owner : Proc \cup {None, Dead}, stale : BOOLEAN]
<1>1. claim \in [owner : Proc \cup {None, Dead}, stale : BOOLEAN]
  BY DEF Typed, TypeOK
<1>2. {NoClaim, ClaimOf(Dead)} \subseteq [owner : Proc \cup {None, Dead}, stale : BOOLEAN]
  BY DEF NoClaim, ClaimOf
<1>3. c \in [owner : Proc \cup {None, Dead}, stale : BOOLEAN]
  BY <1>1, <1>2 DEF HalfClaimed
<1>4. Orphan(c, p) \in [owner : Proc \cup {None, Dead}, stale : BOOLEAN]
  BY <1>3 DEF Orphan
<1> QED
  BY <1>3, <1>4

(* What an interrupted append leaves of the store.                         *)
LEMMA LeavesWhat ==
  ASSUME RestTyped, NEW p \in Proc, NEW owner \in {None, Dead}, LeavesStore(p, owner)
  PROVE  /\ log' \in Logs /\ record' \in {log, record} /\ marker' \in {marker, record}
         /\ undone' \in BOOLEAN /\ (~undone' => ~undone /\ record' = record)
         /\ store' \in Proc \cup {None, Dead, Torn} /\ dirs' \subseteq dirs \cup {record}
BY DEF LeavesStore, Committed, Logs, RestTyped

(* What a dead owner leaves of it.                                         *)
LEMMA OrphansWhat ==
  ASSUME RestTyped, NEW p \in Proc, Orphans(p)
  PROVE  /\ log' \in Logs /\ record' \in {log, record} /\ marker' \in {marker, record}
         /\ undone' \in BOOLEAN /\ (~undone' => ~undone /\ record' = record)
         /\ store' \in Proc \cup {None, Dead, Torn} /\ dirs' \subseteq dirs \cup {record}
<1> DEFINE t == Append(at[p].pre, at[p].goal)
<1>1. CASE marker = t /\ log' = t /\ UNCHANGED <<dirs, record, marker, undone>> /\ store' = Dead
  BY <1>1 DEF Logs, RestTyped
<1> HIDE DEF t
<1>2. CASE /\ log' = at[p].pre /\ dirs' = dirs \ {t}
           /\ UNCHANGED <<record, marker, undone>> /\ store' = Dead
  BY <1>2 DEF Logs, RestTyped
<1>3. CASE /\ UNCHANGED <<log, marker, dirs>>
           /\ \/ UNCHANGED <<record, undone>> /\ store' = Dead
              \/ record' = log /\ undone' = TRUE /\ store' = Torn
  BY <1>3 DEF Logs, RestTyped
<1> QED
  BY <1>1, <1>2, <1>3 DEF Orphans, t

(* A step fails, or its process dies: an append is undone, which is then   *)
(* known, or done.                                                         *)
LEMMA TroubleStep ==
  ASSUME Inv, NEW p \in Proc, Fail(p) \/ Crash(p)
  PROVE  Core'
<1>1. /\ Typed /\ RestTyped /\ MayTear(p) /\ results' = results
      /\ Leave(p) \/ at' = [at EXCEPT ![p] = Idle]
  BY TypedIs DEF Inv, Core, Fail, Crash
<1>2. Kept /\ AcceptedIsBacked' /\ FilesTyped'
  BY <1>1, Tears
<1>3. at' \in [Proc -> Local] /\ Others(p) /\ CallInv(p)'
  BY <1>1, Ends
<1>4. claim' \in [owner : Proc \cup {None, Dead}, stale : BOOLEAN]
  <2>1. CASE Fail(p)
    BY <1>1, <2>1, ClaimLeft DEF Fail
  <2>2. CASE Crash(p)
    BY <1>1, <2>2, ClaimLeft DEF Crash
  <2> QED
    BY <2>1, <2>2
<1>5. /\ log' \in Logs /\ record' \in {log, record} /\ marker' \in {marker, record}
      /\ undone' \in BOOLEAN /\ (~undone' => ~undone /\ (record' = record))
      /\ store' \in Proc \cup {None, Dead, Torn} /\ dirs' \subseteq dirs \cup {record}
  <2>1. CASE LeavesStore(p, None) \/ LeavesStore(p, Dead)
    BY <1>1, <2>1, LeavesWhat
  <2>2. CASE Orphans(p)
    BY <1>1, <2>2, OrphansWhat
  <2> QED
    BY <2>1, <2>2 DEF Fail, Crash
<1>6. /\ LogInv' /\ log' \in Seq(Event) /\ record' \in Seq(Event) /\ marker' \in Seq(Event)
      /\ dirs' \subseteq Seq(Event) /\ Grows
  <2>1. Grows
    BY <1>5 DEF Grows, Passed
  <2>2. record' \in Logs /\ marker' \in Logs
    BY <1>5 DEF Logs
  <2>3. LogInv' /\ log' \in Seq(Event) /\ record' \in Seq(Event) /\ marker' \in Seq(Event)
    BY <1>5, <2>2, LogsMove
  <2> QED
    BY <1>1, <1>5, <2>1, <2>3 DEF RestTyped
<1>7. RestTyped'
  BY <1>1, <1>3, <1>4, <1>5, <1>6 DEF RestTyped
<1> QED
  BY <1>2, <1>3, <1>6, <1>7, TypedIs, OneMoves

(***************************************************************************)
(* The theorems.                                                           *)
(***************************************************************************)

(* Nothing is published or recorded at first.                              *)
LEMMA InitInv == Init => Inv
<1> SUFFICES ASSUME Init PROVE Inv
  OBVIOUS
<1>1. Idle \in Local /\ Idle.pc = "idle" /\ Idle.taken = None
  <2>1. <<>> \in Seq(Event) /\ "idle" \in Location
    BY DEF Location
  <2> QED
    BY <2>1 DEF Idle, Local
<1>2. FilesTyped
  BY DEF Init, FilesTyped, FileTyped, Content
<1>3. RestTyped
  <2>1. NoClaim \in [owner : Proc \cup {None, Dead}, stale : BOOLEAN]
    BY DEF NoClaim
  <2>2. <<>> \in Seq(Event)
    OBVIOUS
  <2> QED
    BY <1>1, <2>1, <2>2 DEF Init, RestTyped
<1>4. LogInv
  BY DEF Init, LogInv, Sound, Once, AuditedFirst, Places, Has, ToSet
<1>5. AcceptedIsBacked
  BY DEF Init, AcceptedIsBacked, ArtifactName, Answer, FinalizationAssumption
<1>6. ASSUME NEW p \in Proc PROVE CallInv(p)
  BY <1>1, <1>6 DEF Init, CallInv, Remembers, Published, HasRead, Appending
<1>7. PreInv /\ Settled
  <2>1. Idle.pre = <<>>
    BY DEF Idle
  <2> QED
    BY <1>4, <2>1 DEF Init, LogInv, PreInv, Settled
<1> QED
  BY <1>2, <1>3, <1>4, <1>5, <1>6, <1>7, TypedIs DEF Inv, Core

(* Every step keeps the invariant.                                         *)
LEMMA NextCore == Inv /\ [Next]_vars => Core'
<1> SUFFICES ASSUME Inv, [Next]_vars PROVE Core'
  OBVIOUS
<1>1. CASE UNCHANGED vars
  <2>1. Quiet /\ at' = at /\ claim' = claim
    BY <1>1 DEF vars, Quiet
  <2>2. Kept /\ Grows /\ LogInv' /\ AcceptedIsBacked'
    BY <2>1, QuietKeeps
  <2>3. ASSUME NEW q \in Proc PROVE CallInv(q)'
    BY <2>1, <2>2, CallKept DEF Inv, Core
  <2>4. Typed'
    BY <2>1 DEF Inv, Core, Typed, TypeOK, Quiet
  <2> QED
    BY <2>2, <2>3, <2>4 DEF Core
<1>2. CASE Expire
  BY <1>2, ExpireStep
<1>3. ASSUME NEW p \in Proc, Call(p) \/ Confirm(p) \/ Step(p) \/ NotPassed(p) \/ Fail(p) \/ Crash(p)
      PROVE  Core'
  <2>1. CASE Step(p)
    BY <2>1, LookStep, ClaimStep, JudgeStep, PublishStep, VerifyStep, FinishStep, ReleaseStep,
       ReadStep, AppendStep, LockStep, CommitStep, AdmitStep DEF Step
  <2> QED
    BY <1>3, <2>1, CallStep, ConfirmStep, JudgeStep, TroubleStep
<1> QED
  BY <1>1, <1>2, <1>3 DEF Next

(* What was undone once stays so, and the lock is free, or cannot be       *)
(* recovered, only when the record file is the log.                        *)
LEMMA StoreMoves ==
  ASSUME Inv, [Next]_vars
  PROVE  Settled' /\ (~undone' => ~undone)
<1>1. Settled
  BY DEF Inv
<1>2. ASSUME UNCHANGED storeVars
      PROVE  Settled' /\ (~undone' => ~undone)
  BY <1>1, <1>2 DEF Settled
<1>3. ASSUME NEW p \in Proc, Append_(p) \/ Admit(p)
      PROVE  Settled' /\ (~undone' => ~undone)
  <2>1. log' = log /\ (UNCHANGED <<record, store, undone>> \/ Recover)
    BY <1>3 DEF Append_, Admit
  <2>2. CASE UNCHANGED <<record, store, undone>>
    BY <1>1, <2>1, <2>2 DEF Settled
  <2>3. CASE Recover
    BY <2>1, <2>3 DEF Recover, Settled
  <2> QED
    BY <2>1, <2>2, <2>3
<1>4. ASSUME NEW p \in Proc, Lock(p)
      PROVE  Settled' /\ (~undone' => ~undone)
  <2>1. p \notin {None, Torn}
    BY DEF FinalizationAssumption
  <2> QED
    BY <1>1, <1>4, <2>1 DEF Lock, Settled
<1>5. ASSUME NEW p \in Proc, Commit(p)
      PROVE  Settled' /\ (~undone' => ~undone)
  BY <1>5 DEF Commit, Committed, Settled
<1>6. ASSUME NEW p \in Proc, NEW owner \in {None, Dead}, LeavesStore(p, owner)
      PROVE  Settled' /\ (~undone' => ~undone)
  <2>1. CASE UNCHANGED storeVars
    BY <1>2, <2>1
  <2>2. CASE UNCHANGED <<log, record, undone>> /\ store = None
    BY <1>1, <2>2 DEF Settled
  <2>3. CASE record' = log /\ UNCHANGED log /\ (~undone' => ~undone)
    BY <2>3 DEF Settled
  <2>4. CASE Committed(p)
    BY <2>4 DEF Committed, Settled
  <2> QED
    BY <1>6, <2>1, <2>2, <2>3, <2>4 DEF LeavesStore
<1>7. ASSUME NEW p \in Proc, Orphans(p)
      PROVE  Settled' /\ (~undone' => ~undone)
  <2>1. Dead \notin {None, Torn}
    BY DEF FinalizationAssumption
  <2> QED
    BY <1>7, <2>1 DEF Orphans, Settled
<1>8. ASSUME NEW p \in Proc, Fail(p) \/ Crash(p)
      PROVE  Settled' /\ (~undone' => ~undone)
  BY <1>6, <1>7, <1>8 DEF Fail, Crash
<1>9. ASSUME NEW p \in Proc, Call(p) \/ Confirm(p) \/ Step(p) \/ NotPassed(p)
      PROVE  Settled' /\ (~undone' => ~undone)
  <2>1. CASE Call(p) \/ Confirm(p) \/ NotPassed(p) \/ Look(p) \/ Claim(p) \/ GiveUp(p) \/ Refresh(p)
    BY <1>2, <2>1 DEF Call, Confirm, NotPassed, Look, Claim, GiveUp, Refresh
  <2>2. CASE Judge(p) \/ AssertOwned(p) \/ Publish(p) \/ Verify(p) \/ Finish(p)
    BY <1>2, <2>2 DEF Judge, AssertOwned, Publish, Verify, Finish
  <2>3. CASE Release(p) \/ Read(p)
    BY <1>2, <2>3 DEF Release, Read
  <2> QED
    BY <1>3, <1>4, <1>5, <1>9, <2>1, <2>2, <2>3 DEF Step
<1>10. CASE Expire \/ UNCHANGED vars
  BY <1>2, <1>10 DEF Expire, vars
<1> QED
  BY <1>8, <1>9, <1>10 DEF Next

(* What a call has read before the lock stays, is forgotten, or is the log.*)
LEMMA PreMoves ==
  ASSUME Inv, NEW p \in Proc,
         Call(p) \/ Confirm(p) \/ Step(p) \/ NotPassed(p) \/ Fail(p) \/ Crash(p)
  PROVE  \A q \in Proc : at'[q].pre \in {at[q].pre, <<>>, log}
<1>1. at \in [Proc -> Local] /\ at[p] \in Local
  BY DEF Inv, Core, Typed, TypeOK
<1>2. ASSUME NEW l, at' = [at EXCEPT ![p] = l], l.pre \in {at[p].pre, <<>>, log}
      PROVE  \A q \in Proc : at'[q].pre \in {at[q].pre, <<>>, log}
  BY <1>1, <1>2
<1>3. CASE Leave(p) \/ at' = [at EXCEPT ![p] = Idle]
  <2>1. PICK c \in {"idle", "release"} : at' = [at EXCEPT ![p] = [Idle EXCEPT !.pc = c]]
    BY <1>3 DEF Leave, Idle
  <2>2. [Idle EXCEPT !.pc = c].pre = <<>>
    BY DEF Idle
  <2> QED
    BY <1>2, <2>1, <2>2
<1>4. ASSUME at'[p].pre \in {at[p].pre, <<>>, log}, Others(p)
      PROVE  \A q \in Proc : at'[q].pre \in {at[q].pre, <<>>, log}
  BY <1>4 DEF Others
<1>5. ASSUME NEW to, NEW e, NEW n, NEW a, NEW t, NEW s,
             \/ at' = [at EXCEPT ![p].pc = to]
             \/ at' = [at EXCEPT ![p].pc = to, ![p].goal = e, ![p].tries = n]
             \/ at' = [at EXCEPT ![p].pc = to, ![p].tries = n]
             \/ at' = [at EXCEPT ![p].pc = to, ![p].answer = a]
             \/ at' = [at EXCEPT ![p].pc = to, ![p].taken = t]
             \/ at' = [at EXCEPT ![p].pc = to, ![p].taken = t, ![p].answer = a]
             \/ at' = [at EXCEPT ![p].pc = to, ![p].seen = s]
      PROVE  \A q \in Proc : at'[q].pre \in {at[q].pre, <<>>, log}
  <2> SUFFICES at'[p].pre = at[p].pre /\ Others(p)
    BY <1>4
  <2>1. CASE at' = [at EXCEPT ![p].pc = to]
    BY <1>1, <2>1 DEF Local, Others
  <2>2. CASE at' = [at EXCEPT ![p].pc = to, ![p].goal = e, ![p].tries = n]
    BY <1>1, <2>2 DEF Local, Others
  <2>3. CASE at' = [at EXCEPT ![p].pc = to, ![p].tries = n]
    BY <1>1, <2>3 DEF Local, Others
  <2>4. CASE at' = [at EXCEPT ![p].pc = to, ![p].answer = a]
    BY <1>1, <2>4 DEF Local, Others
  <2>5. CASE at' = [at EXCEPT ![p].pc = to, ![p].taken = t]
    BY <1>1, <2>5 DEF Local, Others
  <2>6. CASE at' = [at EXCEPT ![p].pc = to, ![p].taken = t, ![p].answer = a]
    BY <1>1, <2>6 DEF Local, Others
  <2>7. CASE at' = [at EXCEPT ![p].pc = to, ![p].seen = s]
    BY <1>1, <2>7 DEF Local, Others
  <2> QED
    BY <1>5, <2>1, <2>2, <2>3, <2>4, <2>5, <2>6, <2>7
<1>6. ASSUME NEW e, Pursue(p, e)
       PROVE  \A q \in Proc : at'[q].pre \in {at[q].pre, <<>>, log}
  BY <1>5, <1>6 DEF Pursue
<1>7. ASSUME NEW to, Goto(p, to)
       PROVE  \A q \in Proc : at'[q].pre \in {at[q].pre, <<>>, log}
  BY <1>5, <1>7 DEF Goto
<1>8. CASE Append_(p)
  <2>1. CASE at' = [at EXCEPT ![p].pc = "lock", ![p].pre = log]
    <3>1. at'[p].pre = log /\ Others(p)
      BY <1>1, <2>1 DEF Local, Others
    <3> QED
      BY <1>4, <3>1
  <2> QED
    BY <1>3, <1>8, <2>1 DEF Append_
<1>9. CASE Lock(p)
  <2>1. ASSUME NEW to, at' = [at EXCEPT ![p].pc = to, ![p].pre = <<>>]
        PROVE  \A q \in Proc : at'[q].pre \in {at[q].pre, <<>>, log}
    <3>1. at'[p].pre = <<>> /\ Others(p)
      BY <1>1, <2>1 DEF Local, Others
    <3> QED
      BY <1>4, <3>1
  <2>2. CASE at' = [at EXCEPT ![p].pc = "commit", ![p].seen = <<>>, ![p].pre = <<>>]
    <3>1. at'[p].pre = <<>> /\ Others(p)
      BY <1>1, <2>2 DEF Local, Others
    <3> QED
      BY <1>4, <3>1
  <2>3. CASE at' = [at EXCEPT ![p] = Retry(p)]
    <3>1. Retry(p).pre = <<>>
      BY <1>1 DEF Retry, Local
    <3> QED
      BY <1>2, <2>3, <3>1
  <2> QED
    BY <1>3, <1>9, <2>1, <2>2, <2>3 DEF Lock
<1>10. CASE Commit(p)
  <2> DEFINE to == CASE Confirming(p) -> "answer" [] at[p].goal = "request" -> "finish" [] OTHER -> "read"
             n == IF at[p].goal \in {"execution_closure", "audit_review"} THEN at[p].tries + 1 ELSE 0
  <2>1. at' = [at EXCEPT ![p].pc = to, ![p].tries = n]
    BY <1>10 DEF Commit
  <2> HIDE DEF to, n
  <2> QED
    BY <1>5, <2>1
<1>11. CASE Admit(p)
  BY <1>3, <1>5, <1>11 DEF Admit
<1>12. CASE Read(p)
  <2>1. CASE AfterStatus(p)
    <3>1. CASE at[p].goal = "audit_review"
      BY <1>5, <2>1, <3>1 DEF AfterStatus
    <3>2. CASE at' = [at EXCEPT ![p].pc = "candidate", ![p].tries = 0]
      BY <1>5, <3>2
    <3>3. CASE Pursue(p, "audit_review")
      BY <1>6, <3>3
    <3> QED
      BY <2>1, <3>1, <3>2, <3>3 DEF AfterStatus
  <2> QED
    BY <1>3, <1>5, <1>12, <2>1 DEF Read
<1>13. CASE Publish(p)
  <2>1. ASSUME NEW c, at' = [at EXCEPT ![p].pc = "pass", ![p].taken = c, ![p].answer = None]
        PROVE  \A q \in Proc : at'[q].pre \in {at[q].pre, <<>>, log}
    BY <1>5, <2>1
  <2> QED
    BY <1>3, <1>13, <1>6, <1>7, <2>1 DEF Publish, Materialize
<1>14. CASE Fail(p) \/ Crash(p)
  BY <1>3, <1>14 DEF Fail, Crash
<1>15. CASE Refresh(p)
  BY <1>15 DEF Refresh
<1>16. CASE Call(p) \/ Claim(p) \/ GiveUp(p) \/ AssertOwned(p) \/ Verify(p)
  BY <1>3, <1>16, <1>7 DEF Call, Claim, GiveUp, AssertOwned, Verify
<1>17. CASE Confirm(p)
  <2>1. PICK d \in Decision : at' = [at EXCEPT ![p].pc = "admit", ![p].goal = d, ![p].tries = 1]
    BY <1>17 DEF Confirm
  <2> QED
    BY <1>5, <2>1
<1>18. CASE Look(p) \/ Judge(p)
  <2>1. CASE Look(p)
    <3>1. CASE at' = [at EXCEPT ![p].pc = "pass", ![p].taken = artifact["accepted"]]
      BY <1>5, <3>1
    <3> QED
      BY <1>3, <1>6, <1>7, <2>1, <3>1 DEF Look
  <2>2. CASE Judge(p)
    <3>1. PICK a \in Answer : at' = [at EXCEPT ![p].pc = "judged", ![p].answer = a]
      BY <2>2 DEF Judge
    <3> QED
      BY <1>5, <3>1
  <2> QED
    BY <1>18, <2>1, <2>2
<1>19. CASE Finish(p) \/ Release(p) \/ NotPassed(p)
  BY <1>3, <1>19 DEF Finish, Release, NotPassed
<1> QED
  BY <1>8, <1>9, <1>10, <1>11, <1>12, <1>13, <1>14, <1>15, <1>16, <1>17, <1>18, <1>19
  DEF Step

(* Every step keeps the invariant.                                         *)
LEMMA NextInv == Inv /\ [Next]_vars => Inv'
<1> SUFFICES ASSUME Inv, [Next]_vars PROVE Inv'
  OBVIOUS
<1>1. Core' /\ Settled' /\ (~undone' => ~undone)
  BY NextCore, StoreMoves
<1>2. \A q \in Proc : at'[q].pre \in {at[q].pre, <<>>, log}
  <2>1. CASE at' = at
    BY <2>1
  <2> QED
    BY <2>1, PreMoves DEF Next, Expire, vars
<1>3. Sound(<<>>) /\ <<>> \in Seq(Event)
  BY DEF Sound, Once, AuditedFirst, Places, Has, ToSet
<1>4. \A q \in Proc : \A s \in {at[q].pre, <<>>, log} : s \in Seq(Event) /\ Sound(s)
  BY <1>3 DEF Inv, Core, PreInv, LogInv, Typed, TypeOK, Local
<1>5. PreInv'
  BY <1>1, <1>2, <1>4, SoundOn DEF PreInv
<1> QED
  BY <1>1, <1>5 DEF Inv

(* The invariant is inductive.                                             *)
LEMMA Invariance == Spec => []Inv
BY InitInv, NextInv, PTL DEF Spec

(* Every variable always has its type.                                     *)
THEOREM TypeCorrect == Spec => []TypeOK
<1>1. Inv => TypeOK
  BY DEF Inv, Core, Typed
<1> QED
  BY <1>1, Invariance, PTL

(* The accepted result always names the response and the aggregate on      *)
(* disk, and is the only one that calls return: without the claim, because *)
(* artifacts are written once and results are read back.                   *)
THEOREM ResultBacked == Spec => []AcceptedIsBacked
<1>1. Inv => AcceptedIsBacked
  BY DEF Inv, Core
<1> QED
  BY <1>1, Invariance, PTL

(* The log always holds an event once, and at most one decision, after the *)
(* request.                                                                *)
THEOREM EventsRecordedOnce == Spec => []RecordedOnce
<1>1. Inv => RecordedOnce
  BY DEF Inv, Core, LogInv, Sound, Once, Places, RecordedOnce
<1> QED
  BY <1>1, Invariance, PTL

(***************************************************************************)
(* What the record rests on.                                               *)
(***************************************************************************)

(* An artifact that is there stays as it is.                               *)
LEMMA ArtifactsKept == Inv /\ [Next]_vars => Kept
<1> SUFFICES ASSUME Inv, [Next]_vars PROVE Kept
  OBVIOUS
<1>1. artifact \in [ArtifactName -> Content]
  BY DEF Inv, Core, Typed
<1>2. ASSUME NEW f \in ArtifactName, NEW c, artifact[f] \in {None, c},
             artifact' = [artifact EXCEPT ![f] = c]
      PROVE  Kept
  BY <1>1, <1>2 DEF Kept
<1>3. CASE artifact' = artifact
  BY <1>3 DEF Kept
<1>4. ASSUME NEW p \in Proc, Publish(p) PROVE Kept
  <2> DEFINE f == at[p].pc
             c == ContentOf(p, f)
  <2>1. /\ f \in ArtifactName
        /\ \/ artifact[f] \in {None, c} /\ artifact' = [artifact EXCEPT ![f] = c]
           \/ artifact' = artifact
    BY <1>4 DEF Publish, Accept
  <2> HIDE DEF f, c
  <2> QED
    BY <1>2, <1>3, <2>1
<1>5. ASSUME NEW p \in Proc, MayTear(p) PROVE Kept
  BY <1>2, <1>3, <1>5 DEF MayTear
<1>6. ASSUME NEW p \in Proc, Fail(p) \/ Crash(p) PROVE Kept
  BY <1>5, <1>6 DEF Fail, Crash
<1> QED
  BY <1>3, <1>4, <1>6
  DEF Next, vars, Call, Confirm, Step, NotPassed, Expire, Look, Claim, GiveUp, Refresh, Judge,
      AssertOwned, Verify, Finish, Release, Read, Append_, Lock, Commit, Admit

(* A call that brings an event into the record and has taken a result has  *)
(* published the pass, and the page before the request.                    *)
Bringing == Appending \cup {"admit", "answer", "verify", "closeout"}
Rests(s) ==
  /\ Has(s, "audit_review") => artifact["pass"] \in Answer
  /\ Has(s, "request") => artifact["closeout"] = Fixed
Brings(l) ==
  /\ l.pc \in Bringing /\ l.taken # None => artifact["pass"] \in Answer
  /\ l.pc \in Appending /\ l.goal = "request" => artifact["closeout"] = Fixed
BackInv ==
  /\ Rests(log) /\ Rests(record) /\ Rests(marker)
  /\ \A p \in Proc : Brings(at[p]) /\ Rests(at[p].pre)

(* What is written of the files goes on to hold.                           *)
LEMMA RestsOn ==
  ASSUME Inv, BackInv, Kept
  PROVE  /\ \A s : Rests(s) => Rests(s)'
         /\ \A q \in Proc : at'[q] = at[q] => Brings(at[q])'
         /\ artifact["pass"] \in Answer => artifact'["pass"] \in Answer
         /\ artifact["closeout"] = Fixed => artifact'["closeout"] = Fixed
<1>1. /\ None \notin Answer /\ Fixed # None
      /\ "pass" \in ArtifactName /\ "closeout" \in ArtifactName
  BY DEF ArtifactName, Answer
<1>2. /\ artifact["pass"] \in Answer => artifact'["pass"] \in Answer
      /\ artifact["closeout"] = Fixed => artifact'["closeout"] = Fixed
  BY <1>1 DEF Kept
<1> QED
  BY <1>2 DEF Rests, Brings, BackInv

(* A step of one call.                                                     *)
Acts(p) == Call(p) \/ Confirm(p) \/ Step(p) \/ NotPassed(p) \/ Fail(p) \/ Crash(p)

(* A step of one call after which log and record are what the store or a   *)
(* call held before.                                                       *)
LEMMA BackedBy ==
  ASSUME Inv, BackInv, Kept, NEW p \in Proc,
         log' \in Logs, record' \in Logs, marker' \in {marker, record},
         Others(p), Brings(at[p])', Acts(p)
  PROVE  BackInv'
<1>1. \A s \in Logs : Rests(s)
  BY DEF BackInv, Logs
<1>2. Rests(<<>>)
  BY DEF Rests, Has, ToSet
<1>3. \A s : Rests(s) => Rests(s)'
  BY RestsOn
<1>4. /\ Rests(log)' <=> \A s : s = log' => Rests(s)'
      /\ Rests(record)' <=> \A s : s = record' => Rests(s)'
      /\ Rests(marker)' <=> \A s : s = marker' => Rests(s)'
      /\ \A q \in Proc : Rests(at[q].pre)' <=> \A s : s = at'[q].pre => Rests(s)'
  BY DEF Rests
<1>5. /\ \A s : s = log' => Rests(s)'
      /\ \A s : s = record' => Rests(s)'
      /\ \A s : s = marker' => Rests(s)'
  BY <1>1, <1>3 DEF Logs
<1>6. ASSUME NEW q \in Proc PROVE Brings(at[q])' /\ Rests(at[q].pre)'
  <2>1. Brings(at[q])'
    BY RestsOn DEF Others
  <2>2. at'[q].pre \in {at[q].pre, <<>>, log}
    BY PreMoves DEF Acts
  <2>3. Rests(at'[q].pre)
    BY <1>1, <1>2, <2>2 DEF Logs
  <2> QED
    BY <1>3, <1>4, <2>1, <2>3
<1> QED
  BY <1>4, <1>5, <1>6 DEF BackInv

(* Where a step leads, and with what.                                      *)
LEMMA GoneTo ==
  ASSUME Inv, NEW p \in Proc
  PROVE  /\ Leave(p) \/ at' = [at EXCEPT ![p] = Idle] => Others(p) /\ at'[p].pc \notin Bringing
         /\ \A to : Goto(p, to) =>
              /\ Others(p) /\ at'[p].pc = to
              /\ at'[p].goal = at[p].goal /\ at'[p].taken = at[p].taken
         /\ \A e : Pursue(p, e) =>
              Others(p) /\ at'[p].pc = "read" /\ at'[p].goal = e /\ at'[p].taken = at[p].taken
<1>1. at \in [Proc -> Local] /\ at[p] \in Local
  BY DEF Inv, Core, Typed, TypeOK
<1>2. ASSUME Leave(p) \/ at' = [at EXCEPT ![p] = Idle]
      PROVE  Others(p) /\ at'[p].pc \notin Bringing
  <2>1. PICK c \in {"idle", "release"} : at' = [at EXCEPT ![p] = [Idle EXCEPT !.pc = c]]
    BY <1>2 DEF Leave, Idle
  <2>2. [Idle EXCEPT !.pc = c].pc = c
    BY DEF Idle
  <2> QED
    BY <1>1, <2>1, <2>2 DEF Others, Bringing, Appending
<1>3. ASSUME NEW to, Goto(p, to)
      PROVE  /\ Others(p) /\ at'[p].pc = to
             /\ at'[p].goal = at[p].goal /\ at'[p].taken = at[p].taken
  BY <1>1, <1>3 DEF Goto, Others, Local
<1>4. ASSUME NEW e, Pursue(p, e)
      PROVE  Others(p) /\ at'[p].pc = "read" /\ at'[p].goal = e /\ at'[p].taken = at[p].taken
  BY <1>1, <1>4 DEF Pursue, Others, Local
<1> QED
  BY <1>2, <1>3, <1>4

(* The steps of a call that are not about the record.                      *)
LEMMA BackedOutside ==
  ASSUME Inv, BackInv, Kept, NEW p \in Proc,
         \/ Call(p) \/ Look(p) \/ Claim(p) \/ GiveUp(p) \/ Refresh(p) \/ Judge(p) \/ NotPassed(p)
         \/ AssertOwned(p) \/ Verify(p) \/ Finish(p) \/ Release(p) \/ Confirm(p)
  PROVE  BackInv'
<1>1. /\ UNCHANGED <<artifact, log, record, marker>> /\ at \in [Proc -> Local] /\ at[p] \in Local
      /\ Acts(p)
  BY DEF Acts, Step, Inv, Core, Typed, TypeOK, Call, Look, Claim, GiveUp, Refresh, Judge, NotPassed, AssertOwned,
         Verify, Finish, Release, Confirm
<1>2. ASSUME Others(p), Brings(at[p])' PROVE BackInv'
  BY <1>1, <1>2, BackedBy DEF Logs
<1>3. CASE Leave(p) \/ at' = [at EXCEPT ![p] = Idle]
  BY <1>2, <1>3, GoneTo DEF Brings, Bringing, Appending
<1>4. ASSUME NEW to, to \notin Bringing, Goto(p, to) PROVE BackInv'
  BY <1>2, <1>4, GoneTo DEF Brings, Bringing, Appending
<1>5. CASE at' = at
  BY <1>1, <1>2, <1>5, RestsOn DEF Others
<1>6. CASE at' = [at EXCEPT ![p].pc = "pass", ![p].taken = artifact["accepted"]]
  BY <1>1, <1>2, <1>6 DEF Others, Brings, Bringing, Appending, Local
<1>7. CASE Judge(p)
  <2>1. PICK a \in Answer : at' = [at EXCEPT ![p].pc = "judged", ![p].answer = a]
    BY <1>7 DEF Judge
  <2>2. at'[p].pc = "judged" /\ Others(p)
    BY <1>1, <2>1 DEF Others, Local
  <2> QED
    BY <1>2, <2>2 DEF Brings, Bringing, Appending
<1>8. CASE artifact["accepted"] = None /\ Pursue(p, "execution_closure")
  <2>1. at[p].taken = None
    BY <1>8 DEF Inv, Core, CallInv, Published
  <2> QED
    BY <1>2, <1>8, <2>1, GoneTo DEF Brings, Bringing, Appending
<1>9. CASE at[p].pc = "verify" /\ Goto(p, "closeout")
  <2>1. at[p].taken # None => artifact'["pass"] \in Answer
    BY <1>1, <1>9 DEF BackInv, Brings, Bringing
  <2> QED
    BY <1>2, <1>9, <2>1, GoneTo DEF Brings, Appending
<1>10. CASE Confirm(p)
  <2>1. PICK d \in Decision : at' = [at EXCEPT ![p].pc = "admit", ![p].goal = d, ![p].tries = 1]
    BY <1>10 DEF Confirm
  <2>2. at'[p].goal = d /\ at'[p].taken = at[p].taken /\ Others(p)
    BY <1>1, <2>1 DEF Others, Local
  <2>3. at[p].taken = None
    <3>1. at[p] = Idle /\ Idle.taken = None
      BY <1>10 DEF Confirm, Idle
    <3> QED
      BY <3>1
  <2>4. d # "request"
    BY DEF Decision
  <2> QED
    BY <1>2, <2>2, <2>3, <2>4 DEF Brings
<1> QED
  BY <1>3, <1>4, <1>5, <1>6, <1>7, <1>8, <1>9, <1>10
  DEF Call, Look, Claim, GiveUp, Refresh, NotPassed, AssertOwned, Verify, Finish, Release,
      Bringing, Appending

(* The pass and the page are there before the record is told.              *)
LEMMA BackedPublish ==
  ASSUME Inv, BackInv, Kept, NEW p \in Proc, Publish(p)
  PROVE  BackInv'
<1>1. /\ UNCHANGED <<log, record, marker>> /\ at \in [Proc -> Local] /\ at[p] \in Local
      /\ artifact \in [ArtifactName -> Content] /\ Acts(p)
  BY DEF Inv, Core, Typed, TypeOK, Publish, Acts, Step
<1>2. ASSUME Others(p), Brings(at[p])' PROVE BackInv'
  BY <1>1, <1>2, BackedBy DEF Logs
<1>3. CASE Leave(p)
  BY <1>2, <1>3, GoneTo DEF Brings, Bringing, Appending
<1>4. CASE at[p].pc = "pass" /\ Pursue(p, "execution_closure")
           /\ artifact' = [artifact EXCEPT !["pass"] = at[p].taken]
  <2>1. at[p].taken \in Answer /\ "pass" \in ArtifactName
    BY <1>4 DEF Inv, Core, CallInv, Remembers, ArtifactName
  <2>2. artifact'["pass"] \in Answer
    BY <1>1, <1>4, <2>1
  <2> QED
    BY <1>2, <1>4, <2>2, GoneTo DEF Brings, Bringing, Appending
<1>5. CASE at[p].pc = "closeout" /\ Pursue(p, "request")
           /\ artifact' = [artifact EXCEPT !["closeout"] = Fixed]
  <2>1. "closeout" \in ArtifactName
    BY DEF ArtifactName
  <2>2. artifact'["closeout"] = Fixed
    BY <1>1, <1>5, <2>1
  <2>3. artifact'["pass"] \in Answer
    <3>1. at[p].taken # None
      BY <1>5 DEF Inv, Core, CallInv, Remembers, Answer
    <3> QED
      BY <1>5, <3>1, RestsOn DEF BackInv, Brings, Bringing
  <2> QED
    BY <1>2, <1>5, <2>2, <2>3, GoneTo DEF Brings, Bringing, Appending
<1>6. CASE at[p].pc \in {"candidate", "request", "response", "aggregate"} /\ Goto(p, Following[at[p].pc])
  BY <1>2, <1>6, GoneTo DEF Brings, Bringing, Appending, Following
<1>7. CASE at' = [at EXCEPT ![p].pc = "pass", ![p].taken = ContentOf(p, at[p].pc), ![p].answer = None]
  BY <1>1, <1>2, <1>7 DEF Others, Brings, Bringing, Appending, Local
<1> QED
  BY <1>3, <1>4, <1>5, <1>6, <1>7 DEF Publish, Materialize, ContentOf

(* What is read of the record is brought on, or followed up.               *)
LEMMA BackedRead ==
  ASSUME Inv, BackInv, Kept, NEW p \in Proc, Read(p)
  PROVE  BackInv'
<1>1. /\ UNCHANGED <<artifact, log, record, marker>> /\ at \in [Proc -> Local] /\ at[p] \in Local
      /\ at[p].pc = "read" /\ Remembers(at[p]) /\ Acts(p)
  BY DEF Inv, Core, Typed, TypeOK, Read, CallInv, Acts, Step
<1>2. ASSUME Others(p), Brings(at[p])' PROVE BackInv'
  BY <1>1, <1>2, BackedBy DEF Logs
<1>3. /\ at[p].taken # None => artifact'["pass"] \in Answer
      /\ at[p].goal = "request" => artifact'["closeout"] = Fixed
  BY <1>1 DEF BackInv, Brings, Bringing, Appending
<1>4. CASE Leave(p)
  BY <1>2, <1>4, GoneTo DEF Brings, Bringing, Appending
<1>6. CASE Pursue(p, "audit_review")
  BY <1>2, <1>3, <1>6, GoneTo DEF Brings
<1>7. ASSUME NEW to \in {"verify", "candidate", "finish"},
             at' = [at EXCEPT ![p].pc = to, ![p].tries = 0]
      PROVE  BackInv'
  <2>1. at'[p].pc = to /\ at'[p].taken = at[p].taken /\ Others(p)
    BY <1>1, <1>7 DEF Others, Local
  <2> QED
    BY <1>2, <1>3, <2>1 DEF Brings, Appending
<1>8. CASE at' = [at EXCEPT ![p].pc = "append", ![p].seen = record]
  <2>1. at'[p].goal = at[p].goal /\ at'[p].taken = at[p].taken /\ Others(p)
    BY <1>1, <1>8 DEF Others, Local
  <2> QED
    BY <1>2, <1>3, <2>1 DEF Brings
<1> QED
  BY <1>4, <1>6, <1>7, <1>8 DEF Read, AfterStatus

(* What a call was to bring is as it was, where it waits for the lock.      *)
LEMMA BackedAppend ==
  ASSUME Inv, BackInv, Kept, NEW p \in Proc, Append_(p)
  PROVE  BackInv'
<1>1. /\ UNCHANGED <<artifact, log, marker>> /\ at \in [Proc -> Local] /\ at[p] \in Local
      /\ at[p].pc = "append" /\ record' \in {log, record} /\ Acts(p)
  BY DEF Inv, Core, Typed, TypeOK, Append_, Recover, Acts, Step
<1>2. ASSUME Others(p), Brings(at[p])' PROVE BackInv'
  BY <1>1, <1>2, BackedBy DEF Logs
<1>3. CASE Leave(p)
  BY <1>2, <1>3, GoneTo DEF Brings, Bringing, Appending
<1>4. CASE at' = [at EXCEPT ![p].pc = "lock", ![p].pre = log]
  <2>1. at'[p].goal = at[p].goal /\ at'[p].taken = at[p].taken /\ Others(p)
    BY <1>1, <1>4 DEF Others, Local
  <2> QED
    BY <1>1, <1>2, <2>1 DEF BackInv, Brings, Bringing, Appending
<1> QED
  BY <1>3, <1>4 DEF Append_

(* An event comes into the record with what it rests on.                   *)
LEMMA BackedLock ==
  ASSUME Inv, BackInv, Kept, NEW p \in Proc, Lock(p)
  PROVE  BackInv'
<1>1. /\ UNCHANGED <<artifact, log, marker>> /\ at \in [Proc -> Local] /\ at[p] \in Local
      /\ at[p].pc = "lock" /\ Remembers(at[p]) /\ log \in Seq(Event) /\ Acts(p)
  BY DEF Inv, Core, Typed, TypeOK, Lock, CallInv, Acts, Step
<1>2. ASSUME Others(p), Brings(at[p])', record' = record PROVE BackInv'
  BY <1>1, <1>2, BackedBy DEF Logs
<1>3. /\ at[p].taken # None => artifact["pass"] \in Answer
      /\ at[p].goal = "request" => artifact["closeout"] = Fixed
      /\ at[p].goal = "audit_review" => at[p].taken # None
      /\ at[p].goal \in Event
  BY <1>1 DEF BackInv, Brings, Bringing, Appending, Remembers, Answer
<1>4. CASE Leave(p) /\ UNCHANGED record
  BY <1>2, <1>4, GoneTo DEF Brings, Bringing, Appending
<1>5. CASE /\ record' = Append(log, at[p].goal)
           /\ at' = [at EXCEPT ![p].pc = "commit", ![p].seen = <<>>, ![p].pre = <<>>]
  <2>1. /\ at'[p].goal = at[p].goal /\ at'[p].taken = at[p].taken /\ Others(p)
        /\ at'[p].pre = <<>>
    BY <1>1, <1>5 DEF Others, Local
  <2>2. Brings(at[p])'
    BY <1>1, <1>3, <2>1 DEF Brings
  <2>3. \A x : Has(record', x) <=> Has(log, x) \/ x = at[p].goal
    BY <1>1, <1>3, <1>5, Appends
  <2>4. Rests(log)' /\ Rests(record)' /\ Rests(marker)'
    BY <1>1, <1>3, <2>3 DEF BackInv, Rests
  <2>5. ASSUME NEW q \in Proc PROVE Brings(at[q])' /\ Rests(at[q].pre)'
    <3>1. CASE q = p
      BY <2>1, <2>2, <3>1 DEF Rests, Has, ToSet
    <3>2. CASE q # p
      BY <1>1, <2>1, <3>2, RestsOn DEF Others, BackInv, Rests
    <3> QED
      BY <3>1, <3>2
  <2> QED
    BY <2>4, <2>5 DEF BackInv
<1>6. CASE record' = record /\ at' = [at EXCEPT ![p] = Retry(p)]
  <2>1. at'[p].goal = at[p].goal /\ at'[p].taken = at[p].taken /\ Others(p)
    <3>1. Retry(p).goal = at[p].goal /\ Retry(p).taken = at[p].taken
      BY <1>1 DEF Retry, Local
    <3> QED
      BY <1>1, <1>6, <3>1 DEF Others
  <2> QED
    BY <1>1, <1>2, <1>3, <1>6, <2>1 DEF Brings
<1>7. CASE record' = record /\ at' = [at EXCEPT ![p].pc = "append", ![p].pre = <<>>]
  <2>1. at'[p].goal = at[p].goal /\ at'[p].taken = at[p].taken /\ Others(p)
    BY <1>1, <1>7 DEF Others, Local
  <2> QED
    BY <1>1, <1>2, <1>3, <1>7, <2>1 DEF Brings
<1> QED
  BY <1>4, <1>5, <1>6, <1>7 DEF Lock

(* The record is committed, and the event looked up again or done with.    *)
LEMMA BackedCommit ==
  ASSUME Inv, BackInv, Kept, NEW p \in Proc, Commit(p)
  PROVE  BackInv'
<1>1. /\ UNCHANGED <<artifact, record>> /\ at \in [Proc -> Local] /\ at[p] \in Local
      /\ at[p].pc = "commit" /\ log' = record /\ marker' = record /\ Acts(p)
  BY DEF Inv, Core, Typed, TypeOK, Commit, Committed, Acts, Step
<1>2. at'[p].goal = at[p].goal /\ at'[p].taken = at[p].taken /\ Others(p)
  <2>1. PICK to, n : at' = [at EXCEPT ![p].pc = to, ![p].tries = n]
    BY DEF Commit
  <2> QED
    BY <1>1, <2>1 DEF Others, Local
<1>3. Brings(at[p])'
  BY <1>1, <1>2 DEF BackInv, Brings, Bringing, Appending
<1> QED
  BY <1>1, <1>2, <1>3, BackedBy DEF Logs

(* A decision rests on the request.                                        *)
LEMMA BackedAdmit ==
  ASSUME Inv, BackInv, Kept, NEW p \in Proc, Admit(p)
  PROVE  BackInv'
<1>1. /\ UNCHANGED <<artifact, log, marker>> /\ at \in [Proc -> Local] /\ at[p] \in Local
      /\ at[p].pc \in {"admit", "answer"} /\ at[p].goal \in Decision
      /\ record' \in {log, record} /\ Acts(p)
  BY DEF Inv, Core, Typed, TypeOK, Admit, Recover, CallInv, Remembers, Acts, Step
<1>2. ASSUME Others(p), Brings(at[p])' PROVE BackInv'
  BY <1>1, <1>2, BackedBy DEF Logs
<1>3. /\ at[p].taken # None => artifact'["pass"] \in Answer
      /\ at[p].goal # "request"
  BY <1>1 DEF BackInv, Brings, Bringing, Decision
<1>4. CASE Leave(p)
  BY <1>2, <1>4, GoneTo DEF Brings, Bringing, Appending
<1>6. CASE at' = [at EXCEPT ![p].pc = "append", ![p].seen = log]
  <2>1. at'[p].goal = at[p].goal /\ at'[p].taken = at[p].taken /\ Others(p)
    BY <1>1, <1>6 DEF Others, Local
  <2> QED
    BY <1>2, <1>3, <2>1 DEF Brings
<1> QED
  BY <1>4, <1>6 DEF Admit

(* A step fails, or its process dies.                                      *)
LEMMA BackedTrouble ==
  ASSUME Inv, BackInv, Kept, NEW p \in Proc, Fail(p) \/ Crash(p)
  PROVE  BackInv'
<1>1. (Leave(p) \/ at' = [at EXCEPT ![p] = Idle]) /\ Acts(p) /\ RestTyped
  BY TypedIs DEF Fail, Crash, Acts, Inv, Core
<1>2. log' \in Logs /\ record' \in {log, record} /\ marker' \in {marker, record}
  <2>1. CASE LeavesStore(p, None) \/ LeavesStore(p, Dead)
    BY <1>1, <2>1, LeavesWhat
  <2>2. CASE Orphans(p)
    BY <1>1, <2>2, OrphansWhat
  <2> QED
    BY <2>1, <2>2 DEF Fail, Crash
<1>3. Others(p) /\ Brings(at[p])'
  BY <1>1, GoneTo DEF Brings, Bringing, Appending
<1> QED
  BY <1>1, <1>2, <1>3, BackedBy DEF Logs

(* Every step keeps the record resting on the files.                       *)
LEMMA BackNext == Inv /\ BackInv /\ [Next]_vars => BackInv'
<1> SUFFICES ASSUME Inv, BackInv, [Next]_vars PROVE BackInv'
  OBVIOUS
<1>1. Kept
  BY ArtifactsKept
<1>2. CASE Expire \/ UNCHANGED vars
  <2>1. UNCHANGED <<log, record, marker, at>>
    BY <1>2 DEF Expire, vars
  <2> QED
    BY <1>1, <2>1, RestsOn DEF BackInv, Rests
<1>3. ASSUME NEW p \in Proc, Call(p) \/ Confirm(p) \/ Step(p) \/ NotPassed(p) \/ Fail(p) \/ Crash(p)
      PROVE  BackInv'
  <2>1. CASE Publish(p) \/ Read(p) \/ Append_(p) \/ Lock(p) \/ Commit(p) \/ Admit(p)
    BY <1>1, <2>1, BackedPublish, BackedRead, BackedAppend, BackedLock, BackedCommit, BackedAdmit
  <2>2. CASE Fail(p) \/ Crash(p)
    BY <1>1, <2>2, BackedTrouble
  <2> QED
    BY <1>1, <1>3, <2>1, <2>2, BackedOutside DEF Step
<1> QED
  BY <1>2, <1>3 DEF Next

(* There is nothing in the record at first, and nobody brings anything.    *)
LEMMA BackInit == Init => BackInv
<1> SUFFICES ASSUME Init PROVE BackInv
  OBVIOUS
<1>1. Idle.pc = "idle" /\ Idle.pre = <<>>
  BY DEF Idle
<1> QED
  BY <1>1 DEF Init, BackInv, Rests, Brings, Bringing, Appending, Has, ToSet

(* The record never says more than the files bear out, and the request     *)
(* comes after both statuses as long as nothing was undone.                *)
THEOREM RecordBacked == Spec => []RecordIsBacked
<1>1. Inv /\ BackInv => RecordIsBacked
  BY DEF Inv, Core, LogInv, Sound, AuditedFirst, BackInv, Rests, RecordIsBacked
<1> QED
  BY <1>1, BackInit, BackNext, Invariance, PTL DEF Spec
=============================================================================
