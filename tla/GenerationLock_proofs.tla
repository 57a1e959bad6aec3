----------------------- MODULE GenerationLock_proofs -----------------------
(***************************************************************************)
(* Proofs about GenerationLock for any set of processes and any set of     *)
(* owner tokens.                                                           *)
(***************************************************************************)
EXTENDS GenerationLock, TLAPS, WellFoundedInduction

USE TokenAssumption, ProcAssumption

(* Every variable keeps its type.                                          *)
LEMMA TypeStep == TypeOK /\ [Next]_vars => TypeOK'
<1> SUFFICES ASSUME TypeOK, [Next]_vars PROVE TypeOK'
  OBVIOUS
<1> USE DEF TypeOK, Goto, Runs, Remove, Location, Acquiring, Clearing, Over, Name
<1>1. ASSUME NEW p \in Proc, NEW t \in Token, Begin(p, t) PROVE TypeOK'
  BY <1>1 DEF Begin, EnsureProtocolGuard
<1>2. ASSUME NEW t \in Token, PublishChoosing(t) PROVE TypeOK'
  BY <1>2 DEF PublishChoosing
<1>3. ASSUME NEW t \in Token, BeginScan(t) PROVE TypeOK'
  BY <1>3 DEF BeginScan
<1>4. ASSUME NEW t \in Token, ReapMarker(t) PROVE TypeOK'
  BY <1>4 DEF ReapMarker
<1>5. ASSUME NEW t \in Token, ChooseTicket(t) PROVE TypeOK'
  <2>1. CASE StableScan(t)
    <3>1. \A u \in TicketsOf(listing[t]) : num[u] \in Nat
      BY DEF TicketsOf
    <3> QED
      BY <1>5, <2>1, <3>1 DEF ChooseTicket, EndScan
  <2>2. CASE ~StableScan(t)
    BY <1>5, <2>2 DEF ChooseTicket, EndScan
  <2> QED
    BY <2>1, <2>2
<1>6. ASSUME NEW t \in Token, PublishTicket(t) PROVE TypeOK'
  BY <1>6 DEF PublishTicket
<1>7. ASSUME NEW t \in Token, WithdrawChoosing(t) PROVE TypeOK'
  BY <1>7 DEF WithdrawChoosing
<1>8. ASSUME NEW t \in Token, Wait(t) PROVE TypeOK'
  <2>1. pc' = [pc EXCEPT ![t] = "entering"] \/ pc' = [pc EXCEPT ![t] = "wait"]
    BY <1>8 DEF Wait
  <2> QED
    BY <1>8, <2>1 DEF Wait, EndScan
<1>9. ASSUME NEW t \in Token, Enter(t) PROVE TypeOK'
  BY <1>9 DEF Enter, Legacy
<1>10. ASSUME NEW t \in Token, Release(t) PROVE TypeOK'
  BY <1>10 DEF Release
<1>11. ASSUME NEW t \in Token, CleanUp(t) PROVE TypeOK'
  BY <1>11 DEF CleanUp
<1>12. ASSUME NEW t \in Token, Fail(t) PROVE TypeOK'
  BY <1>12 DEF Fail
<1>13. ASSUME NEW p \in Proc, Crash(p) PROVE TypeOK'
  BY <1>13 DEF Crash
<1>14. CASE LeaseExpires
  BY <1>14 DEF LeaseExpires
<1>15. CASE LegacyExpires
  BY <1>15 DEF LegacyExpires, Legacy
<1>16. CASE UNCHANGED vars
  BY <1>16 DEF vars
<1> QED
  BY <1>1, <1>2, <1>3, <1>4, <1>5, <1>6, <1>7, <1>8, <1>9, <1>10, <1>11, <1>12,
     <1>13, <1>14, <1>15, <1>16 DEF Next, Step

(* The type invariant of the lock.                                         *)
THEOREM TypeCorrect == Spec => []TypeOK
<1>1. Init => TypeOK
  BY DEF Init, TypeOK, Location, Over
<1> QED
  BY <1>1, TypeStep, PTL DEF Spec

-----------------------------------------------------------------------------
(***************************************************************************)
(* The inductive invariant.  A scan that counts is a snapshot: at the step *)
(* that ends it the listing is the set of marker files.  So an attempt is  *)
(* admitted at a moment when no live attempt is choosing and it is ahead   *)
(* of every live attempt with a ticket.  From then on a live attempt can   *)
(* only get a ticket from a listing that has the admitted ticket in it,    *)
(* hence a larger one.                                                     *)
(***************************************************************************)

Announced(t) == pc[t] \in {"choose", "chooseScan", "publish", "withdraw"}
Ticketed(t)  == pc[t] \in {"withdraw", "wait", "waitScan", "entering", "held"}
Admitted(t)  == pc[t] \in {"entering", "held"}

(* A live attempt's markers are in the directory as long as it counts on   *)
(* them.                                                                   *)
MarkersKept ==
  \A t \in Token : Live(t) =>
    /\ Announced(t) => <<"choosing", t>> \in files
    /\ Ticketed(t) => <<"ticket", t>> \in files

(* Whoever is choosing has seen the admitted ticket; whoever has chosen is *)
(* behind it.                                                              *)
FirstInLine ==
  \A t, u \in Token :
    Live(t) /\ Admitted(t) /\ Live(u) /\ u # t =>
      /\ pc[u] = "chooseScan" => <<"ticket", t>> \in listing[u]
      /\ pc[u] = "publish" \/ Ticketed(u) => Before(t, u)

LockInv == TypeOK /\ MarkersKept /\ FirstInLine

(* Markers are removed by their attempt after it stopped counting on them, *)
(* or when the owner is dead.                                              *)
LEMMA MarkersStep == TypeOK /\ MarkersKept /\ [Next]_vars => MarkersKept'
<1> SUFFICES ASSUME TypeOK, MarkersKept, [Next]_vars PROVE MarkersKept'
  OBVIOUS
<1> USE DEF TypeOK, MarkersKept, Announced, Ticketed, Goto, Runs, Live, Remove,
            Location, Acquiring, Clearing, Over, Name
<1>1. ASSUME NEW p \in Proc, NEW t \in Token, Begin(p, t) PROVE MarkersKept'
  BY <1>1 DEF Begin, EnsureProtocolGuard
<1>2. ASSUME NEW t \in Token, PublishChoosing(t) PROVE MarkersKept'
  BY <1>2 DEF PublishChoosing
<1>3. ASSUME NEW t \in Token, BeginScan(t) PROVE MarkersKept'
  BY <1>3 DEF BeginScan
<1>4. ASSUME NEW t \in Token, ReapMarker(t) PROVE MarkersKept'
  <2>1. PICK name \in listing[t] : Stale(name) /\ Remove({name})
    BY <1>4 DEF ReapMarker
  <2>2. \A u \in Token, kind \in {"choosing", "ticket"} :
          Live(u) /\ <<kind, u>> \in files => <<kind, u>> \in files'
    BY <2>1 DEF Stale
  <2> QED
    BY <1>4, <2>2 DEF ReapMarker
<1>5. ASSUME NEW t \in Token, ChooseTicket(t) PROVE MarkersKept'
  BY <1>5 DEF ChooseTicket, EndScan
<1>6. ASSUME NEW t \in Token, PublishTicket(t) PROVE MarkersKept'
  BY <1>6 DEF PublishTicket
<1>7. ASSUME NEW t \in Token, WithdrawChoosing(t) PROVE MarkersKept'
  BY <1>7 DEF WithdrawChoosing
<1>8. ASSUME NEW t \in Token, Wait(t) PROVE MarkersKept'
  <2>1. pc' = [pc EXCEPT ![t] = "entering"] \/ pc' = [pc EXCEPT ![t] = "wait"]
    BY <1>8 DEF Wait
  <2> QED
    BY <1>8, <2>1 DEF Wait, EndScan
<1>9. ASSUME NEW t \in Token, Enter(t) PROVE MarkersKept'
  BY <1>9 DEF Enter
<1>10. ASSUME NEW t \in Token, Release(t) PROVE MarkersKept'
  BY <1>10 DEF Release
<1>11. ASSUME NEW t \in Token, CleanUp(t) PROVE MarkersKept'
  BY <1>11 DEF CleanUp
<1>12. ASSUME NEW t \in Token, Fail(t) PROVE MarkersKept'
  BY <1>12 DEF Fail
<1>13. ASSUME NEW p \in Proc, Crash(p) PROVE MarkersKept'
  BY <1>13 DEF Crash
<1>14. CASE LeaseExpires
  BY <1>14 DEF LeaseExpires
<1>15. CASE LegacyExpires
  BY <1>15 DEF LegacyExpires
<1>16. CASE UNCHANGED vars
  BY <1>16 DEF vars
<1> QED
  BY <1>1, <1>2, <1>3, <1>4, <1>5, <1>6, <1>7, <1>8, <1>9, <1>10, <1>11, <1>12,
     <1>13, <1>14, <1>15, <1>16 DEF Next, Step

(* The tickets are ordered: of two attempts one is ahead.                  *)
LEMMA BeforeTotal ==
  ASSUME TypeOK, NEW t \in Token, NEW u \in Token, t # u
  PROVE  Before(t, u) <=> ~Before(u, t)
BY DEF Before, TypeOK

(* The scan that admits is a snapshot, and the scan that gives a ticket    *)
(* saw the admitted one.                                                   *)
LEMMA FirstInLineStep == LockInv /\ [Next]_vars => FirstInLine'
<1> SUFFICES ASSUME LockInv, [Next]_vars,
                    NEW t \in Token, NEW u \in Token,
                    Live(t)', Admitted(t)', Live(u)', u # t
             PROVE  /\ (pc[u] = "chooseScan" => <<"ticket", t>> \in listing[u])'
                    /\ (pc[u] = "publish" \/ Ticketed(u) => Before(t, u))'
  BY DEF FirstInLine
<1> USE DEF LockInv, TypeOK, Goto, Runs, Live, Admitted, Ticketed, Before,
            Location, Acquiring, Clearing, Over, Name
<1> DEFINE Goal == /\ (pc[u] = "chooseScan" => <<"ticket", t>> \in listing[u])'
                   /\ (pc[u] = "publish" \/ Ticketed(u) => Before(t, u))'
<1>1. ASSUME NEW p \in Proc, NEW v \in Token, Begin(p, v) PROVE Goal
  BY <1>1 DEF Begin, EnsureProtocolGuard, FirstInLine
<1>2. ASSUME NEW v \in Token, PublishChoosing(v) PROVE Goal
  BY <1>2 DEF PublishChoosing, FirstInLine
<1>3. ASSUME NEW v \in Token, BeginScan(v) PROVE Goal
  <2>1. /\ num' = num /\ owner' = owner /\ alive' = alive
        /\ pc'[v] \in {"chooseScan", "waitScan"} /\ pc[v] \in {"choose", "wait"}
        /\ pc'[v] = "waitScan" <=> pc[v] = "wait"
        /\ \A w \in Token : w # v => pc'[w] = pc[w] /\ listing'[w] = listing[w]
        /\ listing'[v] = files
    BY <1>3 DEF BeginScan
  <2>2. v # t /\ Live(t) /\ Live(u) /\ Admitted(t)
    BY <2>1
  <2>3. <<"ticket", t>> \in files
    BY <2>2 DEF MarkersKept
  <2>4. Ticketed(u)' \/ (pc[u] = "publish")' => Ticketed(u) \/ pc[u] = "publish"
    BY <2>1
  <2>5. ASSUME v # u PROVE pc'[u] = pc[u] /\ listing'[u] = listing[u]
    BY <2>1, <2>5
  <2> QED
    BY <2>1, <2>2, <2>3, <2>4, <2>5 DEF FirstInLine
<1>4. ASSUME NEW v \in Token, ReapMarker(v) PROVE Goal
  BY <1>4 DEF ReapMarker, FirstInLine
<1>5. ASSUME NEW v \in Token, ChooseTicket(v) PROVE Goal
  <2>1. CASE v = u /\ StableScan(v)
    <3>1. PICK m \in {0} \cup {num[w] : w \in TicketsOf(listing[u])} :
            /\ \A k \in {0} \cup {num[w] : w \in TicketsOf(listing[u])} : k <= m
            /\ num' = [num EXCEPT ![u] = m + 1]
            /\ pc' = [pc EXCEPT ![u] = "publish"]
      BY <1>5, <2>1 DEF ChooseTicket
    <3>2. m \in Nat
      <4>1. \A w \in TicketsOf(listing[u]) : num[w] \in Nat
        BY DEF TicketsOf
      <4> QED
        BY <4>1
    <3>3. Live(t) /\ Admitted(t) /\ Live(u) /\ pc[u] = "chooseScan"
      BY <1>5, <2>1, <3>1 DEF ChooseTicket, EndScan
    <3>4. t \in TicketsOf(listing[u])
      BY <3>3 DEF FirstInLine, TicketsOf
    <3>5. num[t] <= m
      BY <3>1, <3>4
    <3>6. num'[t] = num[t] /\ num'[u] = m + 1
      BY <3>1
    <3>7. pc'[u] = "publish"
      BY <3>1
    <3>8. num'[t] < num'[u]
      <4>1. num[t] \in Nat
        OBVIOUS
      <4> QED
        BY <4>1, <3>2, <3>5, <3>6
    <3>9. Before(t, u)'
      BY <3>8 DEF Before
    <3> QED
      BY <3>7, <3>9
  <2>2. CASE v = u /\ ~StableScan(v)
    BY <1>5, <2>2 DEF ChooseTicket
  <2>3. CASE v # u
    <3>1. /\ pc'[u] = pc[u] /\ num'[u] = num[u] /\ listing'[u] = listing[u]
          /\ v # t => pc'[t] = pc[t] /\ num'[t] = num[t]
      BY <1>5, <2>3 DEF ChooseTicket, EndScan
    <3>2. v # t
      BY <1>5 DEF ChooseTicket
    <3> QED
      BY <1>5, <3>1, <3>2 DEF ChooseTicket, EndScan, FirstInLine
  <2> QED
    BY <2>1, <2>2, <2>3
<1>6. ASSUME NEW v \in Token, PublishTicket(v) PROVE Goal
  BY <1>6 DEF PublishTicket, FirstInLine
<1>7. ASSUME NEW v \in Token, WithdrawChoosing(v) PROVE Goal
  BY <1>7 DEF WithdrawChoosing, FirstInLine
<1>8. ASSUME NEW v \in Token, Wait(v) PROVE Goal
  <2>1. CASE v = t
    <3>1. StableScan(t) /\ ~Blocked(t) /\ pc' = [pc EXCEPT ![t] = "entering"]
      BY <1>8, <2>1 DEF Wait
    <3>2. Live(u) /\ pc'[u] = pc[u] /\ num' = num
      BY <1>8, <2>1 DEF Wait, EndScan
    <3>3. <<"choosing", u>> \notin files
      BY <3>1 DEF StableScan, Blocked
    <3>4. pc[u] \notin {"choose", "chooseScan", "publish", "withdraw"}
      BY <3>2, <3>3 DEF MarkersKept, Announced
    <3>5. ASSUME Ticketed(u) PROVE Before(t, u)
      <4>1. <<"ticket", u>> \in listing[t]
        BY <3>1, <3>2, <3>5 DEF MarkersKept, StableScan
      <4>2. ~Before(u, t)
        BY <3>1, <4>1 DEF Blocked, TicketsOf
      <4> QED
        BY <4>2, BeforeTotal
    <3> QED
      BY <3>2, <3>4, <3>5
  <2>2. CASE v # t
    <3>1. /\ num' = num /\ pc'[t] = pc[t] /\ Live(t) /\ Live(u)
          /\ pc'[u] = "chooseScan" => pc[u] = "chooseScan" /\ listing'[u] = listing[u]
          /\ pc'[u] = "publish" => pc[u] = "publish"
          /\ Ticketed(u)' => Ticketed(u)
      BY <1>8, <2>2 DEF Wait, EndScan
    <3> QED
      BY <3>1 DEF FirstInLine
  <2> QED
    BY <2>1, <2>2
<1>9. ASSUME NEW v \in Token, Enter(v) PROVE Goal
  BY <1>9 DEF Enter, FirstInLine
<1>10. ASSUME NEW v \in Token, Release(v) PROVE Goal
  BY <1>10 DEF Release, FirstInLine
<1>11. ASSUME NEW v \in Token, CleanUp(v) PROVE Goal
  BY <1>11 DEF CleanUp, FirstInLine
<1>12. ASSUME NEW v \in Token, Fail(v) PROVE Goal
  BY <1>12 DEF Fail, FirstInLine
<1>13. ASSUME NEW p \in Proc, Crash(p) PROVE Goal
  BY <1>13 DEF Crash, FirstInLine
<1>14. CASE LeaseExpires
  BY <1>14 DEF LeaseExpires, FirstInLine
<1>15. CASE LegacyExpires
  BY <1>15 DEF LegacyExpires, FirstInLine
<1>16. CASE UNCHANGED vars
  BY <1>16 DEF vars, FirstInLine
<1> QED
  BY <1>1, <1>2, <1>3, <1>4, <1>5, <1>6, <1>7, <1>8, <1>9, <1>10, <1>11, <1>12,
     <1>13, <1>14, <1>15, <1>16 DEF Next, Step

(* The invariant holds in every behaviour.                                 *)
LEMMA Inductive == Spec => []LockInv
<1>1. Init => LockInv
  BY DEF Init, LockInv, TypeOK, MarkersKept, FirstInLine, Announced, Ticketed, Admitted,
         Location, Over
<1>2. LockInv /\ [Next]_vars => LockInv'
  BY TypeStep, MarkersStep, FirstInLineStep DEF LockInv
<1> QED
  BY <1>1, <1>2, PTL DEF Spec

(* At most one live attempt has the handle.                                *)
THEOREM Exclusion == Spec => []MutualExclusion
<1>1. LockInv => MutualExclusion
  <2> SUFFICES ASSUME LockInv, NEW t \in Token, NEW u \in Token,
                      Runs(t, "held"), Runs(u, "held"), t # u
               PROVE  FALSE
    BY DEF MutualExclusion
  <2>1. Before(t, u) /\ Before(u, t)
    BY DEF LockInv, FirstInLine, Runs, Admitted, Ticketed
  <2> QED
    BY <2>1, BeforeTotal DEF LockInv
<1> QED
  BY <1>1, Inductive, PTL

(* The handle is given in the order of the tickets.                        *)
THEOREM Order == Spec => []TicketOrder
<1>1. LockInv => TicketOrder
  BY DEF LockInv, FirstInLine, TicketOrder, Admitted, Ticketed
<1> QED
  BY <1>1, Inductive, PTL

(* The holder finds its ticket file when it releases.                      *)
THEOREM TicketKept == Spec => []HolderKeepsTicket
<1>1. LockInv => HolderKeepsTicket
  BY DEF LockInv, MarkersKept, HolderKeepsTicket, Runs, Ticketed
<1> QED
  BY <1>1, Inductive, PTL

-----------------------------------------------------------------------------
(* Action properties.                                                      *)

(* The reaping scan takes no marker of a live attempt.                     *)
THEOREM ReapOnlyDead == Spec => OnlyDeadAreReaped
<1>1. ASSUME TypeOK, [Next]_vars, NEW name \in files \ files', Live(name[2])
      PROVE  pc'[name[2]] # pc[name[2]]
  <2> USE <1>1 DEF TypeOK, Name, Goto, Runs, Remove
  <2>1. ASSUME NEW t \in Token, ReapMarker(t) PROVE FALSE
    BY <2>1 DEF ReapMarker, Stale
  <2>2. ASSUME NEW t \in Token, WithdrawChoosing(t) PROVE pc'[name[2]] # pc[name[2]]
    BY <2>2 DEF WithdrawChoosing
  <2>3. ASSUME NEW t \in Token, Release(t) PROVE pc'[name[2]] # pc[name[2]]
    BY <2>3 DEF Release
  <2>4. ASSUME NEW t \in Token, CleanUp(t) PROVE pc'[name[2]] # pc[name[2]]
    BY <2>4 DEF CleanUp
  <2>5. ASSUME NEW t \in Token,
               PublishChoosing(t) \/ BeginScan(t) \/ ChooseTicket(t) \/ PublishTicket(t)
                 \/ Wait(t) \/ Enter(t) \/ Fail(t)
        PROVE  FALSE
    BY <2>5 DEF PublishChoosing, BeginScan, ChooseTicket, EndScan, PublishTicket, Wait, Enter, Fail
  <2>6. ASSUME NEW p \in Proc, NEW t \in Token, Begin(p, t) PROVE FALSE
    BY <2>6 DEF Begin
  <2>7. ASSUME NEW p \in Proc, Crash(p) PROVE FALSE
    BY <2>7 DEF Crash
  <2>8. CASE LeaseExpires \/ LegacyExpires \/ UNCHANGED vars
    BY <2>8 DEF LeaseExpires, LegacyExpires, vars
  <2> QED
    BY <2>1, <2>2, <2>3, <2>4, <2>5, <2>6, <2>7, <2>8 DEF Next, Step
<1>2. TypeOK /\ [Next]_vars =>
        [\A name \in files \ files' : Live(name[2]) => pc'[name[2]] # pc[name[2]]]_vars
  BY <1>1
<1> QED
  BY <1>2, TypeCorrect, PTL DEF Spec, OnlyDeadAreReaped

(* A ticket is taken above those of all who wait or hold.                  *)
THEOREM QueueBehind == Spec => NewcomersQueueBehind
<1> DEFINE Waiting(u) == pc[u] \in {"wait", "waitScan", "entering", "held"}
<1>1. ASSUME LockInv, [Next]_vars, NEW t \in Token, NEW u \in Token,
             num'[t] # num[t], Live(u), u # t, Waiting(u)
      PROVE  num'[t] > num[u]
  <2> USE <1>1 DEF LockInv, TypeOK, Name
  <2>1. ASSUME NEW v \in Token, ChooseTicket(v) PROVE num'[t] > num[u]
    <3>1. v = t /\ StableScan(t)
      BY <2>1 DEF ChooseTicket
    <3>2. u \in TicketsOf(listing[t])
      BY <3>1 DEF MarkersKept, Ticketed, StableScan, TicketsOf
    <3>3. PICK m \in {0} \cup {num[w] : w \in TicketsOf(listing[t])} :
            /\ \A k \in {0} \cup {num[w] : w \in TicketsOf(listing[t])} : k <= m
            /\ num' = [num EXCEPT ![t] = m + 1]
      BY <2>1, <3>1 DEF ChooseTicket
    <3>4. m \in Nat
      <4>1. \A w \in TicketsOf(listing[t]) : num[w] \in Nat
        BY DEF TicketsOf
      <4> QED
        BY <4>1
    <3>5. num[u] <= m
      BY <3>2, <3>3
    <3> QED
      BY <3>3, <3>4, <3>5
  <2>2. ASSUME NEW v \in Token, Step(v) \/ Fail(v), ~ChooseTicket(v) PROVE num' = num
    BY <2>2 DEF Step, PublishChoosing, BeginScan, ReapMarker, PublishTicket, WithdrawChoosing,
                Wait, Enter, Release, CleanUp, Fail
  <2>3. ASSUME NEW p \in Proc, NEW v \in Token, Begin(p, v) PROVE num' = num
    BY <2>3 DEF Begin
  <2>4. ASSUME NEW p \in Proc, Crash(p) PROVE num' = num
    BY <2>4 DEF Crash
  <2>5. CASE LeaseExpires \/ LegacyExpires \/ UNCHANGED vars
    BY <2>5 DEF LeaseExpires, LegacyExpires, vars
  <2> QED
    BY <2>1, <2>2, <2>3, <2>4, <2>5 DEF Next
<1>2. LockInv /\ [Next]_vars =>
        [\A t, u \in Token :
           /\ num'[t] # num[t]
           /\ Live(u) /\ u # t /\ pc[u] \in {"wait", "waitScan", "entering", "held"}
           => num'[t] > num[u]]_vars
  BY <1>1
<1> QED
  BY <1>2, Inductive, PTL DEF Spec, NewcomersQueueBehind

-----------------------------------------------------------------------------
(***************************************************************************)
(* Refinement of AttemptMutex.  A crash ends at most one attempt that is   *)
(* not over already, because a process makes one attempt at a time.        *)
(***************************************************************************)

(* A process makes one attempt at a time.                                  *)
OneAtATime ==
  /\ \A t \in Token : owner[t] = Nobody <=> pc[t] = "unused"
  /\ \A t, u \in Token :
       owner[t] = owner[u] /\ owner[t] # Nobody /\ t # u =>
         pc[t] \in Over \/ pc[u] \in Over

(* A token is drawn once, by a process that is in no other call.           *)
LEMMA OneAtATimeStep == TypeOK /\ OneAtATime /\ [Next]_vars => OneAtATime'
<1> SUFFICES ASSUME TypeOK, OneAtATime, [Next]_vars PROVE OneAtATime'
  OBVIOUS
<1> USE DEF TypeOK, OneAtATime, Goto, Runs, Live, Over, Location, Acquiring, Clearing
<1>1. ASSUME NEW p \in Proc, NEW t \in Token, Begin(p, t) PROVE OneAtATime'
  BY <1>1 DEF Begin, EnsureProtocolGuard
<1>2. ASSUME NEW t \in Token, Step(t) \/ Fail(t) PROVE OneAtATime'
  <2>1. owner' = owner /\ Live(t) /\ pc[t] \notin Over
        /\ \A u \in Token : u # t => pc'[u] = pc[u]
    BY <1>2 DEF Step, PublishChoosing, BeginScan, ReapMarker, ChooseTicket, EndScan,
       PublishTicket, WithdrawChoosing, Wait, Enter, Release, CleanUp, Fail, Scanning
  <2>2. owner[t] # Nobody /\ pc'[t] # "unused"
    BY <1>2, <2>1 DEF Step, PublishChoosing, BeginScan, ReapMarker, ChooseTicket, EndScan,
       PublishTicket, WithdrawChoosing, Wait, Enter, Release, CleanUp, Fail
  <2> QED
    BY <2>1, <2>2
<1>3. ASSUME NEW p \in Proc, Crash(p) PROVE OneAtATime'
  BY <1>3 DEF Crash
<1>4. CASE LeaseExpires \/ LegacyExpires \/ UNCHANGED vars
  BY <1>4 DEF LeaseExpires, LegacyExpires, vars
<1> QED
  BY <1>1, <1>2, <1>3, <1>4 DEF Next

(* In every behaviour a process makes one attempt at a time.               *)
LEMMA OneAtATimeInductive == Spec => []OneAtATime
<1>1. Init => OneAtATime
  BY DEF Init, OneAtATime
<1> QED
  BY <1>1, TypeCorrect, OneAtATimeStep, PTL DEF Spec

(* Every step lets in, ends, or leaves alone one attempt of the mutex.     *)
LEMMA StepRefines ==
  ASSUME LockInv, OneAtATime, LockInv', OneAtATime', [Next]_vars
  PROVE  [Lock!Next]_phase
<1> USE DEF LockInv, TypeOK, Runs, Goto, Live, phase
<1> DEFINE Same(u) == owner'[u] = owner[u] /\ pc'[u] = pc[u]
           Ended(u) == pc[u] \in {"released", "failed", "dropChoosing", "dropTicket"}
<1>1. ASSUME alive' = alive, NEW t \in Token, \A u \in Token \ {t} : Same(u)
      PROVE  \A u \in Token \ {t} : phase'[u] = phase[u]
  BY <1>1
<1>2. ASSUME NEW t \in Token, \A u \in Token \ {t} : phase'[u] = phase[u],
             phase[t] # "over", phase'[t] = "over"
      PROVE  Lock!Next
  <2>1. phase' = [phase EXCEPT ![t] = "over"]
    BY <1>2
  <2> QED
    BY <1>2, <2>1 DEF Lock!Next, Lock!Finish
<1>3. ASSUME NEW t \in Token, \A u \in Token \ {t} : phase'[u] = phase[u],
             phase'[t] = phase[t]
      PROVE  phase' = phase
  BY <1>3
<1>4. ASSUME NEW p \in Proc, NEW t \in Token, Begin(p, t) PROVE [Lock!Next]_phase
  <2>1. \A u \in Token \ {t} : phase'[u] = phase[u]
    BY <1>4, <1>1 DEF Begin, EnsureProtocolGuard
  <2>2. phase[t] = "out"
    BY <1>4 DEF Begin, OneAtATime
  <2>3. phase'[t] = "out" \/ phase'[t] = "over"
    BY <1>4 DEF Begin, EnsureProtocolGuard
  <2> QED
    BY <1>2, <1>3, <2>1, <2>2, <2>3
<1>5. ASSUME NEW t \in Token, Enter(t) PROVE [Lock!Next]_phase
  <2>1. \A u \in Token \ {t} : phase'[u] = phase[u]
    BY <1>5, <1>1 DEF Enter
  <2>2. phase[t] = "out" /\ owner[t] # Nobody
    BY <1>5 DEF Enter
  <2>3. CASE pc'[t] = "held"
    <3>1. ASSUME NEW u \in Token, phase[u] = "in" PROVE FALSE
      <4>1. Live(u) /\ pc[u] = "held" /\ Live(t) /\ pc[t] = "entering" /\ u # t
        BY <1>5, <3>1, <2>2 DEF Enter, OneAtATime
      <4>2. Before(t, u) /\ Before(u, t)
        BY <4>1 DEF FirstInLine, Admitted, Ticketed
      <4> QED
        BY <4>1, <4>2, BeforeTotal
    <3>2. phase' = [phase EXCEPT ![t] = "in"]
      <4>1. phase'[t] = "in"
        BY <1>5, <2>2, <2>3 DEF Enter
      <4> QED
        BY <2>1, <4>1
    <3> QED
      BY <2>2, <3>1, <3>2 DEF Lock!Next, Lock!LetIn
  <2>4. CASE pc'[t] # "held"
    <3>1. phase'[t] = "over"
      BY <1>5, <2>2, <2>4 DEF Enter
    <3> QED
      BY <2>1, <2>2, <3>1, <1>2
  <2> QED
    BY <2>3, <2>4
<1>6. ASSUME NEW t \in Token, Release(t) \/ Fail(t) PROVE [Lock!Next]_phase
  <2>1. \A u \in Token \ {t} : phase'[u] = phase[u]
    BY <1>6, <1>1 DEF Release, Fail
  <2>2. owner[t] # Nobody /\ phase[t] # "over"
    BY <1>6 DEF Release, Fail, Acquiring
  <2>3. phase'[t] = "over"
    BY <1>6, <2>2 DEF Release, Fail
  <2> QED
    BY <2>1, <2>2, <2>3, <1>2
<1>7. ASSUME NEW t \in Token,
             PublishChoosing(t) \/ BeginScan(t) \/ ReapMarker(t) \/ ChooseTicket(t)
               \/ PublishTicket(t) \/ WithdrawChoosing(t) \/ Wait(t) \/ CleanUp(t)
      PROVE  phase' = phase
  <2>1. alive' = alive /\ \A u \in Token \ {t} : Same(u)
    BY <1>7 DEF PublishChoosing, BeginScan, ReapMarker, ChooseTicket, EndScan, PublishTicket,
       WithdrawChoosing, Wait, CleanUp
  <2>2. owner' = owner /\ Live(t) /\ (Ended(t) <=> Ended(t)')
        /\ pc[t] # "held" /\ pc'[t] # "held"
    BY <1>7 DEF PublishChoosing, BeginScan, ReapMarker, ChooseTicket, EndScan, PublishTicket,
       WithdrawChoosing, Wait, CleanUp, Scanning
  <2>3. phase'[t] = phase[t]
    BY <2>1, <2>2
  <2> QED
    BY <1>1, <1>3, <2>1, <2>3
<1>8. ASSUME NEW p \in Proc, Crash(p) PROVE [Lock!Next]_phase
  <2>1. \A u \in Token : owner[u] # p => phase'[u] = phase[u]
    BY <1>8 DEF Crash
  <2>2. \A u \in Token : owner[u] = p /\ pc[u] \in Over => phase'[u] = phase[u]
    BY <1>8 DEF Crash, Over, OneAtATime
  <2>3. CASE \E t \in Token : owner[t] = p /\ pc[t] \notin Over
    <3>1. PICK t \in Token : owner[t] = p /\ pc[t] \notin Over
      BY <2>3
    <3>2. \A u \in Token \ {t} : phase'[u] = phase[u]
      BY <2>1, <2>2, <3>1 DEF OneAtATime
    <3>3. phase'[t] = "over"
      BY <1>8, <3>1 DEF Crash
    <3> QED
      BY <3>2, <3>3, <1>2, <1>3
  <2>4. CASE ~\E t \in Token : owner[t] = p /\ pc[t] \notin Over
    BY <2>1, <2>2, <2>4
  <2> QED
    BY <2>3, <2>4
<1>9. CASE LeaseExpires \/ LegacyExpires \/ UNCHANGED vars
  BY <1>9 DEF LeaseExpires, LegacyExpires, vars
<1> QED
  BY <1>4, <1>5, <1>6, <1>7, <1>8, <1>9 DEF Next, Step

(* The directory protocol implements the lock its callers count on.        *)
THEOREM Refinement == Spec => LockSpec
<1>1. Init => Lock!Init
  BY DEF Init, Lock!Init, phase
<1> QED
  BY <1>1, OneAtATimeInductive, Inductive, StepRefines, PTL DEF Spec, LockSpec, Lock!Spec

-----------------------------------------------------------------------------
(* What a call leaves behind.                                              *)

(* The markers of an attempt exist only between their publication and the  *)
(* release or cleanup that removes them.                                   *)
MarkersCovered ==
  \A t \in Token :
    /\ <<"choosing", t>> \in files => Announced(t) \/ pc[t] = "dropChoosing"
    /\ <<"ticket", t>> \in files => Ticketed(t) \/ pc[t] \in Clearing

(* A step of an attempt concerns its own markers, and a call ends only     *)
(* after both are gone.                                                    *)
LEMMA CoveredStep ==
  TypeOK /\ OneAtATime /\ MarkersCovered /\ [Next]_vars => MarkersCovered'
<1> SUFFICES ASSUME TypeOK, OneAtATime, MarkersCovered, [Next]_vars PROVE MarkersCovered'
  OBVIOUS
<1> USE DEF TypeOK, MarkersCovered, Announced, Ticketed, Goto, Runs, Remove, Clearing
<1>1. ASSUME NEW p \in Proc, NEW t \in Token, Begin(p, t) PROVE MarkersCovered'
  BY <1>1 DEF Begin, EnsureProtocolGuard, OneAtATime
<1>2. ASSUME NEW t \in Token, PublishChoosing(t) PROVE MarkersCovered'
  BY <1>2 DEF PublishChoosing
<1>3. ASSUME NEW t \in Token, BeginScan(t) PROVE MarkersCovered'
  BY <1>3 DEF BeginScan
<1>4. ASSUME NEW t \in Token, ReapMarker(t) PROVE MarkersCovered'
  <2>1. pc' = pc /\ files' \subseteq files
    BY <1>4 DEF ReapMarker
  <2> QED
    BY <2>1
<1>5. ASSUME NEW t \in Token, ChooseTicket(t) PROVE MarkersCovered'
  BY <1>5 DEF ChooseTicket, EndScan
<1>6. ASSUME NEW t \in Token, PublishTicket(t) PROVE MarkersCovered'
  BY <1>6 DEF PublishTicket
<1>7. ASSUME NEW t \in Token, WithdrawChoosing(t) PROVE MarkersCovered'
  BY <1>7 DEF WithdrawChoosing
<1>8. ASSUME NEW t \in Token, Wait(t) PROVE MarkersCovered'
  <2>1. pc' = [pc EXCEPT ![t] = "entering"] \/ pc' = [pc EXCEPT ![t] = "wait"]
    BY <1>8 DEF Wait
  <2> QED
    BY <1>8, <2>1 DEF Wait, EndScan
<1>9. ASSUME NEW t \in Token, Enter(t) PROVE MarkersCovered'
  BY <1>9 DEF Enter
<1>10. ASSUME NEW t \in Token, Release(t) PROVE MarkersCovered'
  BY <1>10 DEF Release
<1>11. ASSUME NEW t \in Token, CleanUp(t) PROVE MarkersCovered'
  BY <1>11 DEF CleanUp
<1>12. ASSUME NEW t \in Token, Fail(t) PROVE MarkersCovered'
  BY <1>12 DEF Fail, Acquiring
<1>13. ASSUME NEW p \in Proc, Crash(p) PROVE MarkersCovered'
  BY <1>13 DEF Crash
<1>14. CASE LeaseExpires \/ LegacyExpires \/ UNCHANGED vars
  BY <1>14 DEF LeaseExpires, LegacyExpires, vars
<1> QED
  BY <1>1, <1>2, <1>3, <1>4, <1>5, <1>6, <1>7, <1>8, <1>9, <1>10, <1>11, <1>12,
     <1>13, <1>14 DEF Next, Step

(* In every behaviour the markers are those of attempts under way.         *)
LEMMA CoveredInductive == Spec => []MarkersCovered
<1>1. Init => MarkersCovered
  BY DEF Init, MarkersCovered
<1> QED
  BY <1>1, TypeCorrect, OneAtATimeInductive, CoveredStep, PTL DEF Spec

(* A call that has returned leaves no marker behind.                       *)
THEOREM NothingLeft == Spec => []NoLeftovers
<1>1. MarkersCovered => NoLeftovers
  BY DEF MarkersCovered, NoLeftovers, Announced, Ticketed, Clearing
<1> QED
  BY <1>1, CoveredInductive, PTL

-----------------------------------------------------------------------------
(***************************************************************************)
(* No deadlock.  Of the attempts that wait, one has the least ticket and   *)
(* the least token: whoever alive obstructs it does not wait.              *)
(***************************************************************************)

(* The order of the natural numbers, as a relation.                        *)
LEMMA LessWellFounded ==
  \E R : IsWellFoundedOn(R, Nat) /\ \A x, y \in Nat : <<x, y>> \in R <=> x < y
<1>1. \A x, y \in Nat : <<x, y>> \in OpToRel(<, Nat) <=> x < y
  BY DEF OpToRel
<1> QED
  BY <1>1, NatLessThanWellFounded

(* Of some numbers one is the least.                                       *)
LEMMA LeastNumber ==
  ASSUME NEW T \in SUBSET Nat, T # {}
  PROVE  \E m \in T : \A k \in T : m <= k
<1>1. PICK R : IsWellFoundedOn(R, Nat) /\ \A x, y \in Nat : <<x, y>> \in R <=> x < y
  BY LessWellFounded
<1>2. IsWellFoundedOn(R, Nat) /\ T \subseteq Nat
  BY <1>1
<1>3. \E m \in T : \A k \in T : ~(<<k, m>> \in R)
  BY <1>2, WFMin, Zenon
<1>4. PICK m \in T : \A k \in T : ~(<<k, m>> \in R)
  BY <1>3
<1>5. \A k \in T : ~(k < m)
  BY <1>1, <1>2, <1>4
<1>6. \A k \in T : m <= k
  BY <1>2, <1>5
<1> QED
  BY <1>6

(* Of some attempts one is before the others.                              *)
LEMMA Foremost ==
  ASSUME TypeOK, NEW S \in SUBSET Token, S # {}
  PROVE  \E t \in S : \A u \in S : u # t => Before(t, u)
<1> DEFINE N == {num[t] : t \in S}
<1>1. num \in [Token -> Nat] /\ S \subseteq Nat
  BY DEF TypeOK
<1>2. PICK m \in N : \A k \in N : m <= k
  <2>1. N \in SUBSET Nat /\ N # {}
    BY <1>1
  <2> HIDE DEF N
  <2> QED
    BY <2>1, LeastNumber
<1> DEFINE L == {t \in S : num[t] = m}
<1>3. PICK t \in L : \A k \in L : t <= k
  <2>1. L \in SUBSET Nat /\ L # {}
    BY <1>1, <1>2
  <2> HIDE DEF L
  <2> QED
    BY <2>1, LeastNumber
<1>4. t \in S /\ num[t] = m /\ t \in Nat
  BY <1>1, <1>3
<1>5. ASSUME NEW u \in S, u # t PROVE Before(t, u)
  <2>1. num[u] \in Nat /\ m \in Nat /\ m <= num[u] /\ u \in Nat
    BY <1>1, <1>2
  <2>2. num[u] = m => t <= u
    BY <1>3
  <2> QED
    BY <1>4, <1>5, <2>1, <2>2 DEF Before
<1> QED
  BY <1>4, <1>5

(* The contenders never all wait for one another.                          *)
THEOREM NoDeadlock == Spec => []SomebodyMoves
<1> DEFINE W == {t \in Token : Waits(t)}
<1>1. ASSUME TypeOK, MarkersCovered PROVE SomebodyMoves
  <2> SUFFICES ASSUME W # {},
                      \A t \in Token : Live(t) /\ pc[t] \notin Over => Waits(t)
               PROVE  \E t \in Token : /\ Live(t) /\ pc[t] \notin Over
                                       /\ \A u \in Token : Obstructs(u, t) => ~Live(u)
    BY DEF SomebodyMoves
  <2>1. PICK t \in W : \A u \in W : u # t => Before(t, u)
    BY <1>1, Foremost
  <2>2. ASSUME NEW u \in Token, Obstructs(u, t), Live(u) PROVE FALSE
    <3>1. pc[u] \notin Over
      BY <1>1, <2>2 DEF Obstructs, MarkersCovered, Announced, Ticketed, Clearing, Over
    <3>2. u \in W
      BY <2>2, <3>1
    <3>3. <<"choosing", u>> \notin files
      BY <1>1, <3>2 DEF Waits, MarkersCovered, Announced
    <3>4. u # t /\ Before(u, t)
      BY <2>2, <3>3 DEF Obstructs
    <3> QED
      BY <1>1, <2>1, <3>2, <3>4, BeforeTotal
  <2>3. Live(t) /\ pc[t] \notin Over
    BY DEF Waits, Over
  <2> QED
    BY <2>2, <2>3
<1> QED
  BY <1>1, TypeCorrect, CoveredInductive, PTL
=============================================================================
