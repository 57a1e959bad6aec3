--------------------------- MODULE GenerationLock ---------------------------
(***************************************************************************)
(* The file-based generation lock of the goal-contract control plane,      *)
(* packages/bmad-speckit/src/utils/goal-contract/control-plane/            *)
(* control-plane-generation-lock.ts.                                       *)
(*                                                                         *)
(* A call of acquireControlPlaneGenerationLock is an attempt.  It draws a  *)
(* fresh owner token, announces itself with a "choosing" marker file,      *)
(* lists the markers of the lock, takes a ticket above every ticket listed,*)
(* publishes a "ticket" marker, withdraws the announcement, and lists the  *)
(* markers again and again until nobody is choosing and nobody is ahead of *)
(* it.  The only shared state is a directory: no operation below reads or  *)
(* writes more than one file, except a directory listing.                  *)
(*                                                                         *)
(* A process is one generation of an operating-system process (a pid with  *)
(* its start time): a restarted process is another member of Proc.         *)
(***************************************************************************)
EXTENDS Integers, FiniteSets

CONSTANTS
  Proc,      \* the process generations
  Nobody,    \* the owner of a token that no process has drawn yet
  Token      \* the owner tokens, as numbers in the order of their strings

ASSUME TokenAssumption == Token \subseteq Nat
ASSUME ProcAssumption  == Nobody \notin Proc

VARIABLES
  owner,     \* the process that drew each token
  alive,     \* the processes that have not crashed
  pc,        \* where the attempt of each token is
  num,       \* the ticket the attempt took, 0 before
  files,     \* the marker files in the lock's directory
  expired,   \* the marker files past their lease
  listing,   \* namesBefore of the scan an attempt is in
  guard,     \* the file at lockPath: absent, ours, or of a foreign protocol
  legacy     \* what owners of the legacy protocol left beside lockPath

vars == <<owner, alive, pc, num, files, expired, listing, guard, legacy>>

Name   == {"choosing", "ticket"} \X Token
Legacy == {"none", "barrier", "quarantined", "abandoned"}

Scanning  == {"chooseScan", "waitScan"}
Acquiring == {"announce", "choose", "chooseScan", "publish", "withdraw",
              "wait", "waitScan", "entering"}
Clearing  == {"dropChoosing", "dropTicket"}
Over      == {"unused", "released", "failed"}
Location  == Acquiring \cup Clearing \cup Over \cup {"held"}

Live(t)   == owner[t] \in alive
Runs(t,l) == Live(t) /\ pc[t] = l
Goto(t,l) == pc' = [pc EXCEPT ![t] = l]

TypeOK ==
  /\ owner \in [Token -> Proc \cup {Nobody}]
  /\ alive \subseteq Proc
  /\ pc \in [Token -> Location]
  /\ num \in [Token -> Nat]
  /\ files \subseteq Name
  /\ expired \subseteq Name
  /\ listing \in [Token -> SUBSET Name]
  /\ guard \in {"absent", "ours", "foreign"}
  /\ legacy \in Legacy

Init ==
  /\ owner = [t \in Token |-> Nobody]
  /\ alive = Proc
  /\ pc = [t \in Token |-> "unused"]
  /\ num = [t \in Token |-> 0]
  /\ files = {}
  /\ expired = {}
  /\ listing = [t \in Token |-> {}]
  /\ guard \in {"absent", "ours", "foreign"}
  /\ legacy \in Legacy

-----------------------------------------------------------------------------
(* Acquiring.  Process p calls acquire: the protocol guard is linked at    *)
(* lockPath, or compared when something is there already.  The callers are *)
(* synchronous and do not nest: one attempt of a process at a time.        *)

EnsureProtocolGuard(t) ==
  IF guard = "foreign"
    THEN Goto(t, "failed") /\ UNCHANGED guard
    ELSE Goto(t, "announce") /\ guard' = "ours"

Begin(p, t) ==
  /\ p \in alive
  /\ owner[t] = Nobody
  /\ \A u \in Token : owner[u] = p => pc[u] \in Over
  /\ owner' = [owner EXCEPT ![t] = p]
  /\ EnsureProtocolGuard(t)
  /\ UNCHANGED <<alive, num, files, expired, listing, legacy>>

(* Mistake: the choosing marker never reaches the directory. *)
AnnounceNothing(t) ==
  Runs(t, "announce") /\ Goto(t, "choose")
  /\ UNCHANGED <<owner, alive, num, files, expired, listing, guard, legacy>>

PublishChoosing(t) ==
  /\ Runs(t, "announce")
  /\ files' = files \cup {<<"choosing", t>>}
  /\ Goto(t, "choose")
  /\ UNCHANGED <<owner, alive, num, expired, listing, guard, legacy>>

Remove(names) ==
  /\ files' = files \ names
  /\ expired' = expired \ names

(* A scan: list the names, read every marker of the listing (removing one  *)
(* past its lease whose owner is dead), list again; it counts only when    *)
(* every marker was there to read and the two listings agree.  Reading a   *)
(* marker that is not stale changes nothing and has no step of its own: an *)
(* owner that dies after its marker was read may as well die after the     *)
(* scan.                                                                   *)

BeginScan(t) ==
  /\ \/ Runs(t, "choose") /\ Goto(t, "chooseScan")
     \/ Runs(t, "wait") /\ Goto(t, "waitScan")
  /\ listing' = [listing EXCEPT ![t] = files]
  /\ UNCHANGED <<owner, alive, num, files, expired, guard, legacy>>

(* Mistakes: age alone makes a marker stale; no marker is ever stale. *)
StaleByAge(name) == name \in expired
NeverStale(name) == FALSE

Stale(name) == name \in expired /\ ~Live(name[2])

ReapMarker(t) ==
  /\ Live(t) /\ pc[t] \in Scanning
  /\ \E name \in listing[t] : Stale(name) /\ Remove({name})
  /\ UNCHANGED <<owner, alive, pc, num, listing, guard, legacy>>

(* No two markers ever have the same name, so a listed marker that was     *)
(* missing or stale when it was read is missing from the second listing.   *)
StableScan(t) == listing[t] = files

TicketsOf(names) == {u \in Token : <<"ticket", u>> \in names}

EndScan(t) ==
  /\ \A name \in listing[t] : ~Stale(name)
  /\ listing' = [listing EXCEPT ![t] = {}]
  /\ UNCHANGED <<owner, alive, files, expired, guard, legacy>>

(* Mistake: the new ticket counts the tickets listed. *)
TicketFrom(t, m) ==
  /\ Runs(t, "chooseScan") /\ StableScan(t)
  /\ num' = [num EXCEPT ![t] = m]
  /\ Goto(t, "publish") /\ EndScan(t)

TicketByCount(t) == TicketFrom(t, Cardinality(TicketsOf(listing[t])) + 1)

ChooseTicket(t) ==
  /\ Runs(t, "chooseScan")
  /\ LET taken == {0} \cup {num[u] : u \in TicketsOf(listing[t])} IN
     IF StableScan(t)
       THEN \E m \in taken :
              /\ \A k \in taken : k <= m
              /\ num' = [num EXCEPT ![t] = m + 1]
              /\ Goto(t, "publish")
       ELSE Goto(t, "choose") /\ UNCHANGED num
  /\ EndScan(t)

PublishTicket(t) ==
  /\ Runs(t, "publish")
  /\ files' = files \cup {<<"ticket", t>>}
  /\ Goto(t, "withdraw")
  /\ UNCHANGED <<owner, alive, num, expired, listing, guard, legacy>>

WithdrawChoosing(t) ==
  /\ Runs(t, "withdraw")
  /\ Remove({<<"choosing", t>>})
  /\ Goto(t, "wait")
  /\ UNCHANGED <<owner, alive, num, listing, guard, legacy>>

(* Mistake: attempts that took the same ticket wait for one another. *)
BeforeOrEqual(t, u) == num[t] <= num[u]

Before(t, u) == num[t] < num[u] \/ (num[t] = num[u] /\ t < u)

(* Mistake: an attempt that is still choosing its ticket blocks nobody. *)
BlockedByTickets(t) == \E u \in TicketsOf(listing[t]) : u # t /\ Before(u, t)

Blocked(t) ==
  \/ \E u \in Token : <<"choosing", u>> \in listing[t]
  \/ \E u \in TicketsOf(listing[t]) : u # t /\ Before(u, t)

Wait(t) ==
  /\ Runs(t, "waitScan")
  /\ Goto(t, IF StableScan(t) /\ ~Blocked(t) THEN "entering" ELSE "wait")
  /\ EndScan(t) /\ UNCHANGED num

(* First in line: the guard is compared once more, and what legacy owners  *)
(* left is looked at; abandoned quarantine files are removed.              *)
Enter(t) ==
  /\ Runs(t, "entering")
  /\ IF guard = "ours" /\ legacy \notin {"barrier", "quarantined"}
       THEN Goto(t, "held") /\ legacy' = "none"
       ELSE Goto(t, "dropChoosing") /\ UNCHANGED legacy
  /\ UNCHANGED <<owner, alive, num, files, expired, listing, guard>>

Release(t) ==
  /\ Runs(t, "held")
  /\ Remove({<<"ticket", t>>})
  /\ Goto(t, "released")
  /\ UNCHANGED <<owner, alive, num, listing, guard, legacy>>

(* The deadline passed at a loop head, or a file operation failed: the     *)
(* catch clause removes the choosing marker, then the ticket.              *)
Fail(t) ==
  /\ Live(t) /\ pc[t] \in Acquiring
  /\ Goto(t, "dropChoosing")
  /\ listing' = [listing EXCEPT ![t] = {}]
  /\ UNCHANGED <<owner, alive, num, files, expired, guard, legacy>>

(* Mistake: the catch clause removes the ticket only. *)
CleanUpTicketOnly(t) ==
  /\ Runs(t, "dropChoosing")
  /\ Remove({<<"ticket", t>>}) /\ Goto(t, "failed")
  /\ UNCHANGED <<owner, alive, num, listing, guard, legacy>>

CleanUp(t) ==
  /\ \/ /\ Runs(t, "dropChoosing")
        /\ Remove({<<"choosing", t>>})
        /\ Goto(t, "dropTicket")
     \/ /\ Runs(t, "dropTicket")
        /\ Remove({<<"ticket", t>>})
        /\ Goto(t, "failed")
  /\ UNCHANGED <<owner, alive, num, listing, guard, legacy>>

-----------------------------------------------------------------------------
(* The environment: a process dies anywhere (process.abort included) and   *)
(* leaves its files; the clock passes a marker's lease, its owner alive or *)
(* not; a legacy owner's quarantined record goes stale.                    *)

Crash(p) ==
  /\ p \in alive
  /\ alive' = alive \ {p}
  /\ UNCHANGED <<owner, pc, num, files, expired, listing, guard, legacy>>

LeaseExpires ==
  /\ \E name \in files \ expired : expired' = expired \cup {name}
  /\ UNCHANGED <<owner, alive, pc, num, files, listing, guard, legacy>>

LegacyExpires ==
  /\ legacy = "quarantined"
  /\ legacy' = "abandoned"
  /\ UNCHANGED <<owner, alive, pc, num, files, expired, listing, guard>>

Step(t) ==
  \/ PublishChoosing(t)
  \/ BeginScan(t)
  \/ ReapMarker(t)
  \/ ChooseTicket(t)
  \/ PublishTicket(t)
  \/ WithdrawChoosing(t)
  \/ Wait(t)
  \/ Enter(t)
  \/ Release(t)
  \/ CleanUp(t)

Next ==
  \/ \E p \in Proc, t \in Token : Begin(p, t)
  \/ \E t \in Token : Step(t) \/ Fail(t)
  \/ \E p \in Proc : Crash(p)
  \/ LeaseExpires
  \/ LegacyExpires

Spec == Init /\ [][Next]_vars

(* A live process takes its next step, a holder releases, and time passes; *)
(* nothing forces a deadline, a failure or a crash.                        *)
Fairness == WF_vars(LeaseExpires) /\ \A t \in Token : WF_vars(Step(t))

FairSpec == Spec /\ Fairness

-----------------------------------------------------------------------------
(* Properties.                                                             *)

(* The purpose of acquireControlPlaneGenerationLock: at most one live      *)
(* attempt has been given the handle, whatever crashed, timed out or       *)
(* outlived its lease.                                                     *)
MutualExclusion ==
  \A t, u \in Token : Runs(t, "held") /\ Runs(u, "held") => t = u

(* The handle is given in ticket order: an attempt that was admitted is    *)
(* ahead of every live attempt that has published its ticket and waits.    *)
TicketOrder ==
  \A t, u \in Token :
    /\ Live(t) /\ pc[t] \in {"entering", "held"}
    /\ Live(u) /\ u # t /\ pc[u] \in {"wait", "waitScan", "entering"}
    => Before(t, u)

(* releaseControlPlaneGenerationLock never answers handle_invalid to the   *)
(* holder: no reaping scan and no cleanup of another attempt has taken its *)
(* ticket file.                                                            *)
HolderKeepsTicket ==
  \A t \in Token : Runs(t, "held") => <<"ticket", t>> \in files

(* A marker is reaped only when its owner is dead: the marker of a live    *)
(* attempt goes away by a step of that attempt alone, even past its lease. *)
OnlyDeadAreReaped ==
  [][\A name \in files \ files' : Live(name[2]) => pc'[name[2]] # pc[name[2]]]_vars

(* First come, first served: a ticket that is taken is above the ticket of *)
(* every live attempt that is already waiting or holding.                  *)
NewcomersQueueBehind ==
  [][\A t, u \in Token :
       /\ num'[t] # num[t]
       /\ Live(u) /\ u # t /\ pc[u] \in {"wait", "waitScan", "entering", "held"}
       => num'[t] > num[u]]_vars

(* A call that has returned, with or without the handle and its release,   *)
(* leaves no marker that the other attempts would wait for.                *)
NoLeftovers ==
  \A t \in Token : pc[t] \in {"released", "failed"} =>
    {<<"choosing", t>>, <<"ticket", t>>} \cap files = {}

(* The contenders never all wait for one another: while some wait, one     *)
(* live attempt is about to move by itself, or has nothing before it but   *)
(* markers of the dead, which the end of their leases clears away.         *)
Obstructs(u, t) ==
  \/ <<"choosing", u>> \in files
  \/ u # t /\ <<"ticket", u>> \in files /\ Before(u, t)
Waits(t) == Live(t) /\ pc[t] \in {"wait", "waitScan"}
SomebodyMoves ==
  (\E t \in Token : Waits(t)) =>
    \E t \in Token : /\ Live(t) /\ pc[t] \notin Over
                     /\ Waits(t) => \A u \in Token : Obstructs(u, t) => ~Live(u)

(* No set of contenders waits on itself, and a crash blocks nobody for     *)
(* longer than a lease: every call of a live process comes to an end or to *)
(* the handle although no deadline is forced on it.                        *)
CallsEnd ==
  \A t \in Token :
    pc[t] \in Acquiring ~> (pc[t] \notin Acquiring \/ ~Live(t))

(* The lock seen from outside: who is in, who is still out, who is over.   *)
phase ==
  [t \in Token |->
    IF owner[t] # Nobody /\ (~Live(t) \/ pc[t] \in {"released", "failed", "dropChoosing", "dropTicket"})
      THEN "over"
      ELSE IF pc[t] = "held" THEN "in" ELSE "out"]

(* The directory protocol implements the lock its callers count on.        *)
Lock == INSTANCE AttemptMutex
LockSpec == Lock!Spec
=============================================================================
