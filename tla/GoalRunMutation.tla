-------------------------- MODULE GoalRunMutation --------------------------
(***************************************************************************)
(* The mutation of one execution authority: executeGoalRunMutation of      *)
(* packages/bmad-speckit/src/main-agent/source-authority/scripts/          *)
(* main-agent-goal-run-mutation-executor.ts, with the loop body of the     *)
(* executor around it.                                                     *)
(*                                                                         *)
(* A call writes down a baseline of the workspace, lets an adapter change  *)
(* the owned paths, runs the authority's commands, commits the owned paths *)
(* to git when the authority belongs to a partition, and publishes what it *)
(* saw as evidence and closure.  It may die at any step; the next call of  *)
(* the same attempt goes on from the baseline, the git history and the     *)
(* evidence.  A remediation begins a new attempt, without them.            *)
(*                                                                         *)
(* Calls exclude each other by the run lease (GoalRun): one at a time.     *)
(***************************************************************************)
EXTENDS Integers, Sequences, FiniteSets

CONSTANTS
  Path,         \* the owned paths of the authority
  Content,      \* what a file, or all the rest of the workspace, may contain
  Partitioned   \* whether the authority belongs to a partition

ASSUME PartitionedAssumption == Partitioned \in BOOLEAN
ASSUME ContentAssumption == Content # {}

VARIABLES
  log,        \* the git history: by whom, the owned paths then, those it changed
  work,       \* the owned paths in the workspace
  outside,    \* what git status shows of all the others
  id,         \* the attempt
  base,       \* its mutation baseline, if published
  evidence,   \* its evidence, if published
  closure,    \* its closure, if published
  torn,       \* which of these files were created and not written out
  done,       \* whether the attempt pointer names the closure
  pc,         \* where the call is, "idle" when there is none
  call        \* what the call has in memory

world == <<log, work, outside>>
files == <<base, evidence, closure, torn, done>>
vars  == <<world, id, files, pc, call>>

Tree     == [Path -> Content]
Commit   == [by : Nat, tree : Tree, changed : SUBSET Path]
Baseline == [head : Nat, own : Tree, outside : Content]
Seen     == [own : Tree, changed : SUBSET Path]

\* recovered: the baseline is of an earlier call; touched: what the adapter
\* changed in this call; own, changed, rest: the workspace as it was looked at
\* last; proof: the commit relied on, 0 when there is none yet.
Memory ==
  [recovered : BOOLEAN, touched : SUBSET Path, own : Tree,
   changed : SUBSET Path, rest : Content, proof : Nat]

Artifact == {"baseline", "evidence", "closure"}

Location ==
  {"idle", "lookup", "baseline", "compare", "adapter", "commands", "replay",
   "commit", "verify", "evidence", "closure", "conflict", "advance"}

WorldTyped ==
  /\ log \in Seq(Commit) /\ Len(log) >= 1
  /\ work \in Tree
  /\ outside \in Content
  /\ id \in Nat \ {0}

FilesTyped ==
  /\ base \subseteq Baseline
  /\ evidence \subseteq Seen
  /\ closure \subseteq [changed : SUBSET Path, commit : Nat]
  /\ torn \subseteq Artifact /\ done \in BOOLEAN

CallTyped == pc \in Location /\ call \in Memory

TypeOK == WorldTyped /\ FilesTyped /\ CallTyped

Blank ==
  LET c == CHOOSE x \in Content : TRUE IN
    [recovered |-> FALSE, touched |-> {}, own |-> [p \in Path |-> c],
     changed |-> {}, rest |-> c, proof |-> 0]

Init ==
  /\ \E t \in Tree : log = <<[by |-> 0, tree |-> t, changed |-> {}]>>
  /\ work \in Tree
  /\ outside \in Content
  /\ id = 1
  /\ base = {} /\ evidence = {} /\ closure = {} /\ torn = {} /\ done = FALSE
  /\ pc = "idle"
  /\ call = Blank

Goto(l) == pc' = l

(* The call throws, or its process is gone: the files stay as they are.    *)
Over == Goto("idle") /\ call' = Blank

Tip     == Len(log)
TipTree == log[Tip].tree
ChangedSince(own) == {p \in Path : own[p] # work[p]}

(* The commits with the authority's trailer, of any attempt, that hold the *)
(* owned paths as they are now.                                            *)
Candidates == {k \in 1..Tip : log[k].by # 0 /\ log[k].tree = work}

(* Mistake: the history is searched from the other end. *)
OldestCommit(k) == k \in Candidates /\ \A j \in Candidates : k <= j

(* resolveReachableAuthorityCommit takes the newest. *)
AuthorityCommit(k) == k \in Candidates /\ \A j \in Candidates : j <= k

-----------------------------------------------------------------------------
(* A call for the authority that comes next, and the evidence it may find. *)

Call ==
  /\ pc = "idle" /\ ~done
  /\ Goto("lookup") /\ call' = Blank
  /\ UNCHANGED <<world, id, files>>

(* Mistake: the evidence is not held against the owned paths. *)
RecoversUnread(e, k) ==
  IF Partitioned
    THEN k \in 1..Tip /\ log[k].by # 0 /\ log[k].changed = e.changed
    ELSE k = 0

(* observedEvidenceCurrent and recoverGoalRunMutationFromEvidence. *)
RecoversWith(e, k) ==
  /\ e.own = work
  /\ IF Partitioned
       THEN AuthorityCommit(k) /\ log[k].changed = e.changed
       ELSE k = 0

Lookup ==
  /\ pc = "lookup"
  /\ \/ /\ evidence = {} /\ "evidence" \notin torn
        /\ Goto("baseline") /\ UNCHANGED call
     \/ "evidence" \in torn /\ Over
     \/ \E e \in evidence, k \in 0..Tip :
          /\ RecoversWith(e, k)
          /\ call' = [call EXCEPT !.own = e.own, !.changed = e.changed, !.proof = k]
          /\ Goto("closure")
     \/ /\ \E e \in evidence : \A k \in 0..Tip : ~RecoversWith(e, k)
        /\ Over
  /\ UNCHANGED <<world, id, files>>

(* Mistake: every call takes its own baseline. *)
BaselineAnew ==
  /\ pc = "baseline"
  /\ base' = {[head |-> Tip, own |-> work, outside |-> outside]}
  /\ call' = [call EXCEPT !.recovered = FALSE]
  /\ Goto("compare")
  /\ UNCHANGED <<world, id, evidence, closure, torn, done>>

(* prepareGoalRunMutationCheckpoint. *)
TakeBaseline ==
  /\ pc = "baseline"
  /\ \/ /\ base = {} /\ "baseline" \notin torn
        /\ base' = {[head |-> Tip, own |-> work, outside |-> outside]}
        /\ call' = [call EXCEPT !.recovered = FALSE]
        /\ Goto("compare")
     \/ /\ base # {} /\ UNCHANGED base
        /\ call' = [call EXCEPT !.recovered = TRUE]
        /\ Goto("compare")
     \/ "baseline" \in torn /\ Over /\ UNCHANGED base
  /\ UNCHANGED <<world, id, evidence, closure, torn, done>>

(* What was committed since the baseline is the authority's own commit and *)
(* nothing else: its adapter has run.                                      *)
Committed(b) == AuthorityCommit(Tip) /\ Tip = b.head + 1

Compare ==
  /\ pc = "compare"
  /\ \E b \in base :
       \/ /\ Partitioned /\ Tip # b.head /\ Committed(b)
          /\ call' = [call EXCEPT !.own = work, !.rest = outside, !.proof = Tip]
          /\ Goto("replay")
       \/ /\ Partitioned /\ Tip # b.head /\ ~Committed(b)
          /\ Over
       \/ /\ ~Partitioned \/ Tip = b.head
          /\ Goto("adapter") /\ UNCHANGED call
  /\ UNCHANGED <<world, id, files>>

-----------------------------------------------------------------------------
(* The adapter, a process of its own, writes the owned paths one by one,   *)
(* or others, and tells in the end which owned paths it changed.           *)

AdapterWrites ==
  /\ pc = "adapter"
  /\ \/ \E p \in Path, c \in Content :
          /\ work' = [work EXCEPT ![p] = c]
          /\ call' = [call EXCEPT !.touched = @ \cup {p}]
          /\ UNCHANGED outside
     \/ outside' \in Content /\ UNCHANGED <<work, call>>
  /\ UNCHANGED <<log, id, files, pc>>

(* Mistake: an adapter that finds its work done is held to the baseline.   *)
DeclaredInScope(b, declared) ==
  Tip = b.head /\ outside = b.outside /\ ChangedSince(b.own) = declared

(* The workspace may differ from the baseline in owned paths only, and in  *)
(* those that the adapter declares; when the baseline is of an earlier     *)
(* call it may declare none.                                               *)
InScope(b, declared) ==
  /\ Tip = b.head
  /\ outside = b.outside
  /\ \/ ChangedSince(b.own) = declared
     \/ call.recovered /\ declared = {}

AdapterReturns(declared) ==
  /\ pc = "adapter"
  /\ \E b \in base :
       \/ /\ InScope(b, declared)
          /\ call' = [call EXCEPT !.own = work, !.rest = outside]
          /\ Goto("commands")
       \/ ~InScope(b, declared) /\ Over
  /\ UNCHANGED <<world, id, files>>

(* The commands have left the workspace as it was. *)
Undisturbed(head) == Tip = head /\ work = call.own /\ outside = call.rest

RunCommands ==
  /\ pc = "commands"
  /\ \E b \in base :
       \/ /\ Undisturbed(b.head)
          /\ call' = [call EXCEPT !.changed = ChangedSince(b.own)]
          /\ Goto(IF Partitioned THEN "commit" ELSE "evidence")
       \/ ~Undisturbed(b.head) /\ Over
  /\ UNCHANGED <<world, id, files>>

(* The commit is there already: only the commands are run again. *)
ReplayCommands ==
  /\ pc = "replay"
  /\ IF Undisturbed(call.proof)
       THEN /\ call' = [call EXCEPT !.changed = log[call.proof].changed]
            /\ Goto("evidence")
       ELSE Over
  /\ UNCHANGED <<world, id, files>>

-----------------------------------------------------------------------------
(* The commit of the owned paths (publishOwnedPathCommit). *)

Uncommitted == {p \in call.changed : work[p] # TipTree[p]}

CommitOwnedPaths ==
  /\ pc = "commit"
  /\ \/ /\ Uncommitted # {}
        /\ log' = Append(log,
             [by      |-> id,
              tree    |-> [p \in Path |-> IF p \in call.changed THEN work[p] ELSE TipTree[p]],
              changed |-> Uncommitted])
        /\ Goto("verify") /\ UNCHANGED call
     \/ /\ Uncommitted = {}
        /\ \E k \in Candidates :
             AuthorityCommit(k) /\ call' = [call EXCEPT !.proof = k]
        /\ Goto("verify") /\ UNCHANGED log
     \/ /\ Uncommitted = {} /\ Candidates = {}
        /\ Over /\ UNCHANGED log
  /\ UNCHANGED <<work, outside, id, files>>

(* The commit made: the only one since the baseline, and of all that       *)
(* changed.                                                                *)
OwnCommit(b, k) ==
  /\ call.proof = 0 /\ k = Tip
  /\ k = b.head + 1 /\ log[k].by # 0 /\ log[k].changed = call.changed

(* Mistake: what is left uncommitted in the owned paths is not looked at. *)
ProvesUnmatched(b, k) == OwnCommit(b, k) \/ k = call.proof

Proves(b, k) == (OwnCommit(b, k) \/ k = call.proof) /\ log[k].tree = work

VerifyCommit ==
  /\ pc = "verify"
  /\ \E b \in base :
       \/ \E k \in 1..Tip :
            /\ Proves(b, k)
            /\ call' = [call EXCEPT !.proof = k,
                          !.changed = IF @ = {} THEN log[k].changed ELSE @]
            /\ Goto("evidence")
       \/ (\A k \in 1..Tip : ~Proves(b, k)) /\ Over
  /\ UNCHANGED <<world, id, files>>

-----------------------------------------------------------------------------
(* The executor publishes what the mutation returned. *)

PublishEvidence ==
  /\ pc = "evidence"
  /\ evidence' = {[own |-> call.own, changed |-> call.changed]}
  /\ Goto("closure")
  /\ UNCHANGED <<world, id, base, closure, torn, done, call>>

PublishClosure ==
  /\ pc = "closure"
  /\ LET k == [changed |-> call.changed, commit |-> call.proof] IN
       \/ /\ "closure" \notin torn /\ UNCHANGED call
          /\ IF closure \subseteq {k}
               THEN closure' = {k} /\ Goto("advance")
               ELSE Goto("conflict") /\ UNCHANGED closure
       \/ "closure" \in torn /\ Over /\ UNCHANGED closure
  /\ UNCHANGED <<world, id, base, evidence, torn, done>>

Advance ==
  /\ pc = "advance"
  /\ done' = TRUE /\ Over
  /\ UNCHANGED <<world, id, base, evidence, closure, torn>>

(* The file the call is about to create: writeImmutableBytes creates it    *)
(* first and fills it then.                                                *)
Pending ==
  {f \in Artifact : f = pc /\ CASE f = "baseline" -> base = {}
                               [] f = "evidence" -> evidence = {}
                               [] f = "closure"  -> closure = {}}

(* Anything that throws, a failing adapter or command among it, or the     *)
(* death of the process, anywhere.  The file it was about to publish may   *)
(* be left torn: no later call of the attempt reads it or replaces it.     *)
Stop ==
  /\ pc # "idle"
  /\ \E T \in SUBSET Pending : torn' = torn \cup T
  /\ Over
  /\ UNCHANGED <<world, id, base, evidence, closure, done>>

(* The authority is remediated, drifted or not: a new attempt.             *)
Remediate ==
  /\ pc = "idle"
  /\ id' = id + 1
  /\ base' = {} /\ evidence' = {} /\ closure' = {} /\ torn' = {} /\ done' = FALSE
  /\ UNCHANGED <<world, pc, call>>

(* Other people and tools, at any time: they edit, and they commit some of *)
(* the owned paths as they are now, or none.                               *)
Edit ==
  /\ \/ \E p \in Path, c \in Content : work' = [work EXCEPT ![p] = c] /\ UNCHANGED outside
     \/ outside' \in Content /\ UNCHANGED work
  /\ UNCHANGED <<log, id, files, pc, call>>

ForeignCommit ==
  /\ \E S \in SUBSET Path :
       log' = Append(log,
         [by |-> 0, changed |-> S,
          tree |-> [p \in Path |-> IF p \in S THEN work[p] ELSE TipTree[p]]])
  /\ outside' \in Content
  /\ UNCHANGED <<work, id, files, pc, call>>

Step ==
  \/ Lookup
  \/ TakeBaseline
  \/ Compare
  \/ AdapterWrites
  \/ \E declared \in SUBSET Path : AdapterReturns(declared)
  \/ RunCommands
  \/ ReplayCommands
  \/ CommitOwnedPaths
  \/ VerifyCommit
  \/ PublishEvidence
  \/ PublishClosure
  \/ Advance

Next == Call \/ Step \/ Stop \/ Remediate \/ Edit \/ ForeignCommit

Spec == Init /\ [][Next]_vars

(* The same, when nobody interferes with a call.                           *)
QuietNext ==
  \/ Call \/ Step \/ Stop \/ Remediate
  \/ pc = "idle" /\ (Edit \/ ForeignCommit)

QuietSpec == Init /\ [][QuietNext]_vars

-----------------------------------------------------------------------------
(* Properties.                                                             *)

(* "Exactly one owned-path commit" (the executor's own test): however      *)
(* often an attempt is interrupted and called again, and whatever others   *)
(* do to the workspace and the history meanwhile, it commits once at most. *)
OneCommitPerAttempt ==
  \A j, k \in 1..Len(log) : log[j].by # 0 /\ log[j].by = log[k].by => j = k

(* The commit that a closure gives as its proof holds the owned paths as   *)
(* the evidence of the closure observed them.                              *)
ProofHoldsEvidence ==
  \A c \in closure, e \in evidence :
    c.commit # 0 => log[c.commit].tree = e.own

(* A call that recovers published evidence never comes to another closure  *)
(* than the one that an interrupted call has published.                    *)
ClosureReproduced == pc # "conflict"

(* "Recovers published evidence after a crash before closure": evidence    *)
(* that still describes the owned paths is good enough for the next call.  *)
EvidenceRecoverable ==
  \A e \in evidence :
    closure = {} /\ e.own = work => \E k \in 0..Tip : RecoversWith(e, k)

(* The call seen from outside: where it is, and what it has observed.      *)
stage ==
  CASE pc \in {"lookup", "baseline", "compare", "adapter"} -> "working"
    [] pc \in {"commands", "replay", "commit", "verify", "evidence"} -> "observed"
    [] pc = "closure" -> "closing"
    [] pc = "advance" -> "closed"
    [] OTHER -> "none"
observed == IF stage \in {"observed", "closing"} THEN {call.own} ELSE {}
observations == {e.own : e \in evidence}

(* The mutation keeps to what the executor counts on of an authority: in   *)
(* an attempt, one observation, published before the closure that rests on *)
(* it, whoever interferes and however often a call is interrupted.         *)
Round == INSTANCE AuthorityRound WITH
  Content <- Tree, content <- work, round <- id, evidence <- observations,
  closed <- closure # {}, step <- stage, saw <- observed
RoundSpec == Round!Spec
=============================================================================
