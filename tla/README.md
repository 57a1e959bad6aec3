# Goal control plane: models, checks and proofs

This directory holds TLA+ modules about the goal control plane of
BMAD-Speckit: the code that compiles an approved goal into a *candidate run*,
makes one candidate the *active run*, executes its *authorities* one after
another, publishes immutable evidence and closures on the way, has the closed
campaign judged, and records in the *requirement record* that the user is asked
to accept it; and about two stores beside it that requirements are kept in.
Everything the control plane knows is in files below the project's output root,
every command is a process of its own, several hosts and agents may issue commands
at once, and any of them may die anywhere. There is no server and no database: the
protocol is what the processes do to the files, and that is what is modelled.

Paths below are relative to `src/packages/bmad-speckit/src/`; `scripts/` stands
for `main-agent/source-authority/scripts/` and `control-plane/` for
`utils/goal-contract/control-plane/`.

## 1. Inventory

### Modelled

**Control-plane generation lock** (`control-plane/control-plane-generation-lock.ts`).
A mutual exclusion lock made of marker files, a bakery algorithm in a directory.
*State*: the guard file at `lockPath`, one `choosing` and one `ticket` marker per
owner token, each with a lease; records that owners of an older protocol left.
*Operations*: acquire (guard, announce, scan, take a ticket, publish it, withdraw
the announcement, wait, enter), release, the cleanup of a failed acquire, the
reaping of markers whose lease is over and whose owner is dead.
*Used by*: the execution-control lock, the run lease and the pointer lock below.
*Hard*: no operation is atomic over more than one file; directory listings are
overtaken; leases end under owners that are alive; owners die.
*Correct when*: one holder at a time, in ticket order; live owners keep their
markers; nothing blocks for ever.

**Goal execution attempt pointer** (`scripts/main-agent-goal-execution-attempt.ts`).
*State*: one pointer file per attempt root: attempt id, run, phase, next
authority, the closures published so far. *Operations*: read with verification,
prepare, transition, remediate; the two locks around them. *Interacts*: rests on
the closure files and on the active run; the activation reads it to see whether a
run may be superseded. *Hard*: compare-and-swap over a copy held in memory during
a long mutation; partial remediations that leave closures of several attempts
side by side. *Correct when*: what is written always passes the verification every
reader makes, progress is only lost by remediation, and then together with what
rests on it.

**Goal run executor** (`scripts/main-agent-goal-run-executor.ts`,
`scripts/subcontract-evidence.ts`, `scripts/subcontract-closure.ts`,
`scripts/campaign-closure.ts`). *State*: evidence, closure and campaign files,
each written once; the owned paths of every authority; what a call has in memory.
*Operations*: one call, `executeCommittedGoalRun`: admission, lease, preparation
or adoption of an attempt, drift and remediation, the loop (adapter, evidence,
second admission, closure, advance), campaign closure, close, block, release.
*Hard*: a crash between any two writes; torn files under names that are never
overwritten; edits by other people under closed authorities; two callers.
*Correct when*: immutable files are never contradicted, dependencies come first, a
closed attempt has its campaign closure, and calling again brings the campaign to
its end.

**Active-run activation** (`control-plane/frozen-goal-activation.ts`, in part).
*State*: `active-run.json` and the write-once claim of each pointer version.
*Operations*: observe, claim the next version, promote the pointer, restore a lost
pointer, reuse, refuse. *Interacts*: excluded from preparation and remediation by
the execution-control lock; forbidden while an attempt is unfinished. *Hard*: the
claim and the rename are two steps; the pointer is read before the lock is taken;
the file may disappear under an attempt. *Correct when*: no run is superseded under
way, and a claim that got ahead can be rolled forward.

**Goal run mutation executor** (`scripts/main-agent-goal-run-mutation-executor.ts`,
all but aggregate-only authorities, which own no paths). *State*: a baseline of the
workspace per authority and attempt, the workspace, the git history; the evidence
and the closure of the authority. *Operations*: take or recover the baseline,
recognise an earlier call's commit, run the adapter, run the commands, commit the
owned paths when the authority belongs to a partition, prove the commit, recover
from published evidence. *Interacts*: the body of the executor's loop. *Hard*: the
adapter runs at least once; a crash between any two of these steps; commits and
edits by others; a commit of an earlier attempt that already holds the wanted
content. *Correct when*: an attempt commits once, the proof a closure names
holds what its evidence observed, a recovery finds the same, and calling again
gets there.

**Requirement record control store** (`scripts/requirement-record-control-store.ts`).
*State*: for each record a log of control events, the record reduced from it, a
receipt per event, a commit marker, transaction directories and a lock file; one
artifact index for all records, with a lock file of its own. *Operations*: append an
event (stage, promote file by file, rename, mark, or roll back), read
authoritatively, recover what a dead owner left. *Used by*: the finalizer and the
confirmation below, and every other writer of a record. *Hard*: five files that must
change together; recovery forward or back by what a marker says; two locks taken and
released one after the other; the record is read before the lock is taken. *Correct
when*: an append takes effect whole or not at all, whoever dies where, and an event
is in the log once.

**Goal run finalizer** (`scripts/main-agent-goal-run-finalizer.ts`,
`scripts/main-agent-controlled-closeout-confirmation.ts`,
`scripts/main-agent-execution-final-judge-campaign.ts`, for the requirements-backed
profile). *State*: a claim with a lease, seven kinds of write-once artifacts, the
events in the requirement record. *Operations*: `finalizeCommittedGoalRun` (look,
claim, judge with a heartbeat, publish, accept, record two statuses, request the
user's acceptance) and the confirmation or rejection of that request. *Interacts*:
appends through the control store, but reads the record file without its lock.
*Hard*: judges that answer differently each time; a lease that runs out under a live
call; a claim that is checked and then relied on; dirty reads. *Correct when*: one
result is accepted and everything on disk agrees with it; one request, one decision,
the request after the audit; calling again finalizes the candidate.

**Requirements file lock and semantic checkpoints**
(`scripts/requirements-contract-file-lock.ts`,
`scripts/requirements-contract-semantic-checkpoint-store.ts`). *State*: a lock file, a
recovery file beside it, and under them a state file with the compiled units of a
build. *Operations*: acquire with the takeover of an abandoned lock and of an
abandoned recovery file, release; run the units of a job: read, reuse, execute, save.
*Hard*: an abandoned file is judged, compared and removed in separate steps; the
state is read and units are executed without the lock. *Correct when*: a live writer
keeps its lock, no save drops what another run has done, and calling again completes
the job.

### Not modelled

| Component | State and operations | Why it is left out |
|---|---|---|
| Governance packet pipeline (`governance-packet-*`, `governance-execution-result-ingestor`, `bmad-runtime-worker`, ...) | Execution records with a status, a lease and a history, read, changed and written back whole | No command reaches it: its only entry, `processQueue`, returns at once, as autonomous fallback execution "has been hard disabled" (`scripts/bmad-runtime-worker.ts:839`) |
| Prompt transaction lock, durable build store | A lock file with a lease and an archive of the stale one; immutable builds whose active authority is compared and swapped under the requirements file lock | The store has the shape of the checkpoint store; the lock is left to a later model (section 6) |
| Orchestration state (`orchestration-state.ts`) | The pending packet of a session, a file rewritten whole by the one main agent of the session | Nothing is compared or locked: no protocol between processes |
| Main agent orchestration | Derives the next action from everybody's files | A decision table over record contents |
| Delivery gates | Validation of documents | Pure functions of large documents |
| Goal contract compilation and partition | Documents to documents | Pure; that the order of a run is topological is an assumption here |
| Closures and supersession of the requirements-backed profile | Builders and verifiers of the same artifacts | Pure functions of documents |
| Requirements contract authoring | About 140 modules that parse, render, judge, hash | Its transactions run under the requirements file lock, which is modelled with its simplest user |
| Scoring and dashboard; CLI, init and sync; Ralph method; runtime context; large document writer | Files written by one command at a time | Batch work and I/O, without a protocol between processes |
| Skills and workflows | Prose, templates, configuration | Not code |

`PROJECT.json` lists every component with its source files, and under `hazards`
what can go wrong in each at the line where it bites.

## 2. Modules

| Module | What it is |
|---|---|
| `GenerationLock` | The lock's protocol, file by file |
| `AttemptMutex` | What a caller of the lock may count on; `GenerationLock` implements it |
| `GoalAttempt` | The attempt pointer: its values, its verification, its transitions, the invalidation set. No variables |
| `GoalActivation` | Claims and the active-run pointer: variables and actions of the activators |
| `GoalRun` | The executor, composed with `GoalActivation`: the whole state, `Spec`, the properties |
| `GoalCampaign` | The campaign seen from outside; `GoalRun` implements it |
| `AuthorityRound` | The execution of one authority seen from outside, round by round; `GoalRun` (for every authority) and `GoalRunMutation` implement it |
| `GoalRunMutation` | What one authority's mutation does, with the loop body around it |
| `ControlStore` | The control store, file by file |
| `ControlLog` | What a caller of the store may count on as long as calls are apart (section 4); then `ControlStore` implements it |
| `GoalFinalization` | The finalizer and the confirmation, with what their appends leave in the store |
| `RequirementsFileLock` | The requirements file lock, without a user |
| `SemanticCheckpoint` | The checkpoint store, its user; extends `RequirementsFileLock` |
| `MC...` | Instances, bounds and fairness for TLC |
| `GenerationLock_proofs`, `GoalRun_proofs`, `GoalRunMutation_proofs`, `GoalFinalization_proofs`, `SemanticCheckpoint_proofs` | The theorems |
| `ControlStore_proofs`, `ControlStoreRecords_proofs`, `ControlStorePromise_proofs` | The theorems of the control store, each module on top of the one before |

`GoalAttempt` is extended by `GoalActivation`, and that by `GoalRun`. The
execution-control lock and the run lease are generation locks. In `GoalRun` they
are variables (`control`, `lease`) that a process finds free and sets in one step
and that a crash frees: exactly what `AttemptMutex` promises, and what
`GenerationLock` is shown and proved to implement. That a crashed owner's lock
becomes free is the reaping of its markers once their lease is over.

### GenerationLock and the code

A call of `acquireControlPlaneGenerationLock` is an *attempt*, identified by the
owner token it draws. `pc[t]` is its place in the function, `files` the markers in
the directory, `listing[t]` the names of the scan it is in, `num[t]` its ticket.
`Begin` is the entry with `ensureProtocolGuard`; `PublishChoosing` the exclusive
creation of the marker; `BeginScan`, `ReapMarker` and the end of the scan
(`StableScan`, `EndScan`) are the three parts of `scanLiveMarkers`; `ChooseTicket`,
`PublishTicket`, `WithdrawChoosing`, `Wait` and `Enter` are the rest of acquire in
order; `Fail` and `CleanUp` its catch clause. A marker's lease passes with
`LeaseExpires`, whoever owns it. `Stale` is the code's condition for reaping: lease
over *and* owner dead. A process is one generation (pid with start time), so a
restarted process is another member of `Proc`. Markers that cannot be read or are
malformed make a scan throw, which is `Fail`. Abstracted: the contents of markers
other than the ticket number, hashes, clock values, sleeping between scans.

### GoalRun and the code

Authorities are numbers in execution order; the order is topological
(`DepsAssumption`), which the partition loader verifies. The active-run pointer's
version numbers runs, since every version is claimed by one candidate for good. An
artifact name is an attempt id with an authority; its content is what the evidence
observed of the owned paths (`Content`) and, for a closure, the closures it rests
on. `torn` holds names under which a crash left an unfinished file, as
`writeImmutableBytes` creates before it fills. One action is one write or one
guarded look of `executeCommittedGoalRun`, in the order of the code:

`Admit`, `AcquireLease`, `Prepare`, `Inspect`, (`Remediate`), `Resume`, then per
authority `Mutate`, `PublishEvidence`, `Readmit`, `PublishClosure`, `Advance`; then
`PublishCampaign`, `Close`, `Release`. `Block` is the inner catch clause that marks
the attempt blocked, `conflict` the place of a refused pointer write, which the
code does not turn into a block. `Fail` is anything that throws, `Crash` a process
that dies, `Edit` somebody else's change of owned paths, `LosePointer` the loss of
`active-run.json`. Hashes, schema checks, path confinement and time stamps are
abstracted. Two points of reading deserve mention:

- The pointer lock of `commitPointer` is held only around one write by the holder
  of the run lease; a failure to get it is a `Fail`.
- `Mutate` is atomic: the adapter may leave any content in the owned paths. A
  crash or failure *after* the adapter and before the evidence is `Crash` or `Fail`
  at `evidence`, so the adapter may well run twice in one attempt. `GoalRun` shows
  what the executor makes of that, `GoalRunMutation` what happens inside.

### GoalRunMutation and the code

`work` is the owned paths in the workspace, `outside` all that `git status` shows of
the rest, `log` the history from the first commit on: by which attempt (0: somebody
else), the owned paths at that commit, those it changed. A call goes through
`Lookup` (evidence there already?), `TakeBaseline`
(`prepareGoalRunMutationCheckpoint`), `Compare` (has HEAD moved since the
baseline?), then either `AdapterWrites`, `AdapterReturns`, `RunCommands`,
`CommitOwnedPaths` and `VerifyCommit`, or, when the attempt's own commit is the
one thing made since the baseline, `ReplayCommands`; then `PublishEvidence`,
`PublishClosure`, `Advance`. `call` is what it holds in memory. The adapter is a
process of its own that writes path by path, inside or outside the owned paths, and
may declare anything; `InScope` is what the code holds it to. `AuthorityCommit` is
`resolveReachableAuthorityCommit`: the newest commit with the authority's trailer
that holds the owned paths as they are, of whatever attempt. `Stop` is anything that throws and every death of the process. Baseline, evidence and closure are
all written by `writeImmutableBytes`, which creates a file and then fills it; `Stop` may
leave the one that is being written (`Pending`) `torn`, and from then on `Lookup`,
`TakeBaseline` and `PublishClosure` refuse it in every call of the attempt, as `MayTear`
has it in `GoalRun`. `Remediate` begins another attempt, with or without drift. `Edit` and
`ForeignCommit` are other people: at any time in `Spec`, between calls in
`QuietSpec`. Calls do not overlap: that is the run lease, which `GoalRun` has.
Abstracted: the git index, ignored files, hashes, the scope patterns (an owned path
is a path), histories that are rewritten, the contents of command output.

`GoalRunMutation` stands beside `GoalRun` and is not yet composed with it: `GoalRun`
has many authorities and an atomic mutation, `GoalRunMutation` one authority with
its steps.

### ControlStore and the code

A call is `appendControlEventAndReplay` (it names an event) or
`readControlStoreAuthoritatively` (it names none). Both begin with
`recoverControlStore`: `Look`, `Inspect`, then `Redo` or `Undo` one file at a time,
`Clear`, `FreeIndex`, `FreeLock`. `Before` reads the record, whose hash goes into the
transaction id: the id is the event with the record as it was. `Open` and `Fill` are
the two steps of a lock file's creation, `OpenIndex` and `FillIndex` the same for the
index. `Compare` is all that is checked under the lock, with the making of the staging
directory; `Stage` its manifest, `Promote` one file after another, `Rename` the
read-back and the rename of the directory, `Mark` the commit. `Undone` is the
`restore()` of the catch clause, `Rollback` its writes, `DropPromoted`, `DropStaging`,
`Release` and `ReleaseOwn` the finally block in its order. A directory has its
manifest or not (`whole`), since removing a directory is not one step. `Fail` is an
error of the file system anywhere, `Crash` a death anywhere, in the recovery too. A
record is the sequence of events it was reduced from, so reducers and schemas are
abstracted. The comparison of the marker before and after an authoritative read is
left out: the lock keeps commits out of it. The artifacts an event writes are
promoted and restored as the index is.

### GoalFinalization and the code

Actions follow `finalizeCommittedGoalRun`: `Look` is `recoverAcceptedResult`, wherever
it is called from; `Claim` and `Release` are the sections under a generation lock,
one step each; `Judge` is the wait for the actors, with `Refresh` the heartbeat;
`Publish` writes one artifact by the rule of `writeImmutableBytes`; `Read`, `Append_`,
`Lock` and `Commit` are one round of the loops that bring an event into the record.

The record is *not* the atomic log of `ControlLog`: two finalizers bring the same event
to the same record, so they are the twins for which the store does not keep that
promise. The module has the store's own state, as far as this caller can tell it apart:
`record`, the file that changes before the commit does and that the finalizer reads
without the lock; `store`, whose lock it is, a process's, a dead owner's, or nobody's for
ever (`Torn`); `marker`, the transaction of the last commit; `dirs`, the transactions
that finalizers have left in a directory and a receipt. A transaction is the record it
makes, since the finalizer's event ids are the same in every call; the user's decisions
carry the time and have no twins. `Append_` is the recovery with the reading of the record
before the lock, `Lock` all that is compared under it with the files up to the
record, `Commit` the marker and the release. `LeavesStore` is what an
interrupted append or read leaves, by an error or a death: the lock file unfilled, a
recovery half done, the append undone or done. `Orphans` is what only a death leaves: the
lock of a dead owner. There a twin matters: if the marker names its transaction, the
recovery goes forward to it; if only a directory does, the recovery undoes
*that* transaction, under everything committed since, the user's decision included.

`Confirm` and `Admit` are the user's decision by request id, which reads under the lock,
before the append and again after it (`answer`). Artifacts whose bytes are the same for every call have the
content `Fixed`; the gate receipt, the request and the page are one (`closeout`). A
claim owner is drawn per call, so a dead one is `Dead`. The flag `lost` of the
heartbeat is folded into `AssertOwned`, which looks at the claim itself. A reader that
meets a half-written artifact fails, which is that call's `Fail`. Left out: the
standalone profile, which has no record; the four model statuses that nothing in the
finalizer depends on; the older confirmation by receipt; how the actors are resolved.

### RequirementsFileLock, SemanticCheckpoint and the code

`acquireRequirementsFileLock` goes through `Look` (is there a recovery file?),
`Sweep` (remove an abandoned one: compare, then remove), `Open`, `Fill` and `Recheck`;
or, when the lock file exists, through `Occupied`, `Recover`, `Evict`, `Reopen` and
`EndRecovery`. `Abandoned` is `abandonedOwner`: begun five minutes ago and, if the file
can be parsed, its process dead. Time is the flag `old`, set by `FiveMinutesPass`.
The lock is never waited for: a call that finds it taken throws, nobody catches it,
and the process ends (`dead`); a process may be started again under a process id that
no file mentions (`Available`). `SemanticCheckpoint` adds what its callers do under
the lock and without it: `Read` decides what is reused, `Execute` runs the next unit,
`Check`, `Write`, `ReadBack` and `Release` are the save. Hashes stand for what they
hash.

## 3. Runs

| Run | Instance | Distinct states | What it shows |
|---|---|---|---|
| `lock_safety` | 2 processes, 3 attempts, two crashes, failures or refusals, foreign guards, legacy records, leases that end under live owners | 595,368 | Exclusion, ticket order, markers neither vanish under a live owner nor stay behind a finished call; no circle of attempts waits for itself; `GenerationLock` implements `AttemptMutex` |
| `lock_liveness` | 2 processes, 3 attempts, one crash or failure, fair | 170,183 | Every acquire of a live process ends |
| `run_safety` | 2 runners, 2 activators, 2 authorities, 2 candidates, 3 runs, 2 attempts | 1,251,597 | The lease holder's memory agrees with the disk, no mixture of closures of several attempts is refused, no run is superseded under way, a claim ahead of the pointer can be rolled forward; every step of a call leaves it less to do; `GoalRun` implements `GoalCampaign` |
| `run_recovery` | 2 runners, 1 activator, 2 authorities, 2 contents, two troubles, a patient operator | 126,252 | Immutable files are not contradicted; every authority keeps to its rounds (`AuthorityRound`); every call ends; after any two edits, failures, crashes, losses or calls of the other runner, activating and calling again closes the campaign |
| `mutation_quiet` | one partitioned authority, 2 owned paths, 2 contents, 2 commits of others, 2 attempts, `QuietSpec` | 501,272 | One commit per attempt; proofs hold what evidence observed; recoveries reproduce closures; `GoalRunMutation` implements `AuthorityRound` |
| `mutation_recovery` | one partitioned authority, 3 owned paths, 3 interruptions, an idempotent adapter, a caller who calls again | 9,832 | The authority closes: within the attempt, unless its baseline, evidence or closure was left torn, and then after an operator has remediated it |
| `mutation_evidence` | as `mutation_quiet` | stops at the counterexample | *Violated*: evidence that still holds can always be recovered (section 5) |
| `store_safety` | 2 processes, 1 record, 2 events, one of which indexes, three crashes or errors | 307,853 | A free record is settled, torn files can be recovered; `ControlStore` implements `ControlLog` |
| `store_shared` | 2 processes, 2 records that share the index, 1 event, one crash or error, callers who call again | 238,880 | The index is complete; what a dead owner left is cleared unless it died in one of three states |
| `store_twins` | 2 processes, 1 record, 2 events, one crash or error, calls for the same event allowed | stops at the counterexample | *Violated*: a free record is settled (section 5) |
| `finalization` | 2 processes, 2 judgements, 1 review, two errors, crashes, lost leases or refusals, inside appends too, a caller who calls again | 785,218 | One accepted result, backed by what is on disk; every event once in the log, one decision, after the request, which says no more than the artifacts bear out; the candidate is finalized unless wedged in one of five ways (section 5) |
| `checkpoint` | 4 process ids, 2 at once, 2 units, 2 versions, 2 inputs, three errors, deaths or calls for other jobs, a caller who calls again | 534,523 | A writer keeps its lock; a save drops only what does not fit; calling again completes the job |

Deadlock is not checked in the lock, run and mutation runs: tokens are used up, calls are bounded, and nobody has
to start another. It is checked in the store, finalization and checkpoint runs,
where a call can always be made.

### Bounds, and why they are enough

- `MaxLost` (lock) counts crashes and failed calls. It holds back `Crash`, `Fail`
  and the refusals in `Begin` and `Enter`; in a behaviour without legacy records
  none of these is a step fairness speaks of. Two losses give a dead contender's
  markers and a failed call's cleanup side by side. The number of markers per
  process is one call's, so three attempts give two contenders and an overtaken
  one; the theorems cover the rest.
- `MaxRun` and `MaxAttempt` hold back `PublishClaim` and `Admit` only: a call is
  not admitted when it could draw an attempt id above the bound (`Drawing` counts
  the calls that still may). A call under way is never stopped by a bound. Two
  attempts are enough for a remediation and for a second run; three runs for a
  claim ahead of a pointer that itself superseded one. `run_safety` has one content
  of the owned paths: drift and edits, which need two, are in `run_recovery`, and
  the theorems hold for any contents.
- `MaxTrouble` (recovery) counts the misfortunes of a behaviour. Two make every
  pair: a crash during the recovery of a crash, an edit of a remediated authority,
  a pointer lost under a blocked attempt.
- `MaxForeign` (mutation) counts the commits of others, the first of the history
  included, and `MaxAttempt` the attempts. Two attempts are needed for a commit of an
  earlier attempt to be relied on, one foreign commit to move HEAD under a baseline.
  Two owned paths make a proper subset of them, two contents a change and its
  undoing. `MaxTrouble` (mutation recovery) is three: interrupted at the first call,
  at its recovery, and at the recovery of that.
- `MaxTrouble` (store) counts crashes and failing file operations. Three interrupt
  an append, the recovery of it and the recovery of that; with two events the marker
  may name an earlier or a later transaction than the one recovered. The shared run
  has one, as the two records' steps interleave at the index. A record grows to as
  many events as there are, since an event is appended once.
- `MaxTrouble` (finalization) counts errors, crashes, refusals of the judges and
  leases that end under a live call; those of dead owners end freely. Two make the
  takeover of a claim whose owner lives and an error of either call after it, and two
  deaths in appends: of a finalizer, and of the one that recovers it. Two
  judgements let two calls disagree. The user confirms only once the closeout page is on
  disk, whose text names the request, and while nothing in a state names a decision the
  next one is to accept, as the two decisions are alike; in the same way the first answer
  of the final judge is always the same one of the two.
- `MaxTrouble` and `MaxBusy` (checkpoint): three misfortunes leave an abandoned lock,
  an abandoned recovery file beside it and a third in the takeover of both. Two
  calls at once suffice to interleave a takeover with an open or another takeover;
  two units make a proper prefix. A process id is used again only when no file
  mentions it, so four ids are enough for two files, and two calls. The theorems cover any number
  of processes, units and versions.
- Symmetry is used only in runs without liveness properties, over runners,
  activators, candidates, contents, owned paths and processes, none of which the
  specifications or the properties name.

### Fairness

Lock: weak fairness of each attempt's next step, and of the passing of leases. An
acquire is a synchronous loop, so a live process goes on; time passes. Nothing
forces a deadline, a failure or a crash. *Release* is among the fair steps: a
holder that keeps the lock for ever does block the others, in the code as well.

Recovery: `PatientSpec` adds an operator who calls again while the campaign is not
closed, activates again while the active run is not current, and names the first
authority to remediate from when the attempt is blocked. That last part is
necessary: an attempt whose evidence was torn or no longer fits the owned paths
blocks again on every plain call, as immutable names are bound to the attempt id.
It is fair as a whole (`PatientRun`, `PatientActivation`), not per action. The steps
of each other runner's call are fair too (`OthersStep`): a call is a synchronous
program, so a live process goes on, and a call waits for a lock only until its
deadline (`TimesOut`). Nobody is forced to make a call, except the operator.

Mutation recovery: weak fairness of `PatientStep`, the next step of the call or of
the caller who calls again. The adapter is one that the code's own test calls
idempotent: it changes what is not yet as it should be, leaves the rest alone, and
declares what it changed itself. That is an assumption about the adapter, not about
the scheduler: of an adapter that always declares something else nothing follows.
It is fair as a whole, and the adapter cannot write for ever because it only writes
what it changes. Strong fairness of `RemediateTorn` is an operator who remediates
an attempt one of whose files was left torn, between calls, however often calls
are made meanwhile; he leaves every other attempt to the calls.

Store: `CalledSpec` has weak fairness of each call's next step, and strong fairness
of some call for each record: calls go on being made, though a process may be busy
with another record each time one would be possible.

Finalization: weak fairness of each call's next step and of the end of a dead owner's
lease, and strong fairness of some call. The heartbeat is among the steps: a live
call that runs refreshes its lease.

Checkpoint: weak fairness of each process's next step, strong fairness of passing
time, which stops during an acquire, and weak fairness of *one* caller who calls for
the main job again when no other call is under way. Two persistent callers may refuse
each other with busy errors for ever; the code has no queue, so nothing is claimed of
them.

## 4. Proofs

TLAPS proves the following for any number of processes, attempts, authorities,
candidates, runs, contents, records, events, answers, units and versions, without the bounds
above.

Assumptions, all on constants and evaluated by TLC on each instance:
`TokenAssumption` (tokens are ordered as numbers), `ProcAssumption` and
`ActivatorAssumption`, `RunnerAssumption` (the holder of a free lock is nobody),
`AuthorityAssumption` (authorities are positive numbers and there is one: a run of
a single goal has one, and the partition manifest's schema wants at least one),
`FiniteAssumption` (they are a list, so finitely many),
`DepsAssumption` (a dependency comes before what depends on it),
`PartitionedAssumption` and `ContentAssumption` (a Boolean; there is some content),
`StoreAssumption` (events, processes and `Nobody` differ; what indexes is an event),
`FinalizationAssumption` (no owner, no file, a torn file and a fixed content differ from
one another, from processes and from answers),
`FileLockAssumption` and `CheckpointAssumption` (no file and no state are not a file
and a state; there is a job).

**Conditional theorems.** Nine theorems have a condition on the behaviour besides, which
*nothing in the code enforces*. Their names end in it and it is in their statements:

| Theorem | Condition | Without it |
|---|---|---|
| `StoreExclusiveIfSerial` | `[]Serial`: no two calls recover one record at once | two overlapping recoveries work on the record together |
| `StoreFreeIsSettledIfApart`, `StoreTornIsRecoverableIfApart`, `StoreIndexCompleteIfApart`, `StorePromiseIfApart` | `[](Serial /\ NoTwins)`: nor are two calls made for the same event of the same record at once | a recovery takes a twin's directory for its own: files of a free record disagree, a torn record loses its way back, committed entries of the index and committed events go away |
| `LockKeptIfOneSweeper`, `ExclusionIfOneSweeper`, `TypeCorrectIfOneSweeper`, `SuffixOnlyIfOneSweeper` | `[]OneSweeper`: no two calls remove the same abandoned recovery file at once | a live writer's lock is deleted, two processes save at once and one may drop what the other has done |

They are results about the behaviours in which these accidents do not happen, and say
which accidents those are; they are no promise to a caller. `GoalFinalization`,
whose finalizers are each other's twins, does not rest on them. For `FreeIsSettled` the
failure is the expected violation `store_twins`; for the others of the store, and for
`WriterKeepsLock` and `OnlySuffixDropped`, TLC finds a violation as soon as the condition is
taken out of the MC module's specification. All other theorems are about `Spec` or
`QuietSpec` alone.

**GenerationLock_proofs.** Mutual exclusion is not inductive. The invariant is
`LockInv == TypeOK /\ MarkersKept /\ FirstInLine`. `MarkersKept`: a live attempt that
has announced itself or has a ticket has the marker in the directory, because only a
dead owner's marker is reaped. `FirstInLine`: a live attempt
that was admitted comes before every live attempt that has chosen a ticket, and is
in the listing of every one that is about to choose. This
is where the order of announcing, listing and withdrawing is used. From it follow
`Exclusion`, `Order`, `TicketKept`, and with two more step arguments `ReapOnlyDead`
and `QueueBehind`. `Refinement` (the lock implements `AttemptMutex`) needs
`OneAtATime`: processes do not nest attempts. `NothingLeft` needs `MarkersCovered`:
a marker in the directory belongs to an attempt that still has it to remove.
`NoDeadlock` is the safety half of `CallsEnd`: while anybody waits, some live attempt
has a step to take that is not a wait, or waits for nothing but markers of the dead, which
are reaped when their lease has ended. The attempt that moves is the foremost of those
that wait (`Foremost`). That there is one would be an induction over tickets and tokens;
the proof gets by with the library's theorem that a well-founded relation has minimal
elements (`LeastNumber`, twice: the least ticket, then the least token with it).

**GoalRun_proofs.** The invariant is `Inv == ActivationTypeOK /\ ActivatorsChoose /\
RunInv`. `RunInv` says of each runner what it may rely on where it is (`RunnerInv`:
from preparation to release it is alone and its copy is the pointer on disk; at
`advance` the closure it is to name is published), and of the pointer that it passes
its own verification (`AttemptInv`). Each action has a lemma; the pointer-writing
ones go through `PointerWritten` and the change summaries `Starts`, `Reopens`,
`Advances`, `Turns`, which say what a step may do to the pointer and are used again
by the action properties. The crux of `CommitsAccepted` is `RemediatedValid`: the
invalidation set is closed under dependents, so whatever closures remain rest on
closures that remain. On top of `Inv`:

- `PinInv` relates the attempt, the claims, the pointer and the control lock; it gives `RunPinned`, with it that a claim that ran ahead can be rolled forward, and
  `FollowsClaims`.
- `ClosuresKept` gives `OnlyRemediationReopens`, and `CampaignStep` the
  `Refinement` of `GoalCampaign`.
- `ArtifactInv` says that a runner about to publish is the only one and that
  the name is free or the content the same; it gives `ArtifactsWrittenOnce`.
- `IdsDrawn` says that no artifact, no pointer and no memory names an attempt id that has
  not been drawn. With `ArtifactInv` it gives `RoundsRefined`: seen from one authority,
  each step of any runner is a step of `AuthorityRound` or none. The round of an
  authority is the attempt it is closed in, or else the current one, so a remediation
  takes some authorities to a new round and leaves others where they are. One lemma per kind of step
  says which (`RoundRenewed`, `RoundLoop`, `RoundMutates`, ...), and at most one
  runner works on an authority (`HolderAlone`).
- `CallsAreBounded` is the safety half of `CallsEnd`: every step of a call lowers its
  `Effort`, at most fourteen and five for each authority, whatever the others do. The only way
  back, from `Advance` to the head of the loop, closes an authority that was open
  (`OpenCount`, from the library's theorems on cardinality). That such a step can always
  be taken is left to the run. `OneComesNext` says that the executor always has exactly one
  way to go on: of the open authorities one is first.

**GoalRunMutation_proofs.** `CommitsOnce` holds under `Spec`, that is, with edits and
commits of others at any moment. Its invariant `CommitInv` is about the baseline: a
commit of the attempt lies above the baseline's head (`CommitAfterBaseline`), so a
call that finds HEAD where the baseline left it, as it must before it goes on to
`commit`, knows that the attempt has not committed. `ClosureIsProven` and
`RecoveryReproduces` hold under `QuietSpec`. Their invariant is `PublishedInv /\
CallInv`: a closure names the *newest* commit of the authority with the evidence's
owned paths, and goes on naming it since no call commits once there is evidence.

`KeepsToRound` holds under `Spec`: with edits and commits of others at any moment,
the mutation of one authority keeps to `AuthorityRound`: it publishes what it observed,
a closure only over evidence that it published or found to hold, and it forgets what it
observed when it is interrupted. `GoalRun` takes the mutation for one step; that both
implement the same rounds, with the same mapping of evidence, closure and place, is what
justifies it.

**ControlStore_proofs, -Records_, -Promise_.** Layers, each on the one before.

- `StoreTyped` and `StoreShaped` hold under `Spec`, whatever overlaps. `Shape` says
  what a call's memory has to do with where it is: the transaction is for its own
  record, a recovered one names an event, a lock file that is being filled is its own.
- `StoreExclusiveIfSerial` has the condition `[]Serial`. Its invariant `Locks` says that a call past
  `fill` finds its own transaction in the lock file, that a recovering one finds the dead
  owner's, and that a filled index lock belongs to the transaction in some record's
  lock. `Serial` is needed because a recovery does not lock anything.
- `StoreFreeIsSettledIfApart` and `StoreTornIsRecoverableIfApart` have the condition
  `[](Serial /\ NoTwins)`, and the invariant `Known == TypeOK /\ Shape /\ Locks /\ Serial /\ NoTwins /\ Records`.
  `Records` has three parts: of a record, that its files are settled or torn *between*
  two known contents with a complete directory for the way back; of its directories,
  that each is either the pending transaction's or that of a committed one; of each
  call, how many files have their new or previous content (`Advanced`, `Restored`).
  `NoTwins` is needed where a directory is taken for the transaction's own by its id.
- `StoreIndexCompleteIfApart`, with the same condition, adds `Indices`: the index is complete, or the transaction in the
  index lock is half-way, and every directory has the index as it was before it.
- `StorePromiseIfApart`, with the same condition, adds `OutcomeInv`, how a call ends and since when, and shows of each
  action which step of `ControlLog` it is.

**GoalFinalization_proofs.** The safety of the finalization is proved without a word
about the claim: any process may have it, lose it or take it over at any step. What
carries the proof is that artifacts are written once (`Kept`) and that each call has
compared what it goes on with (`CallInv`). `Published` says which artifacts are on disk,
with the call's own answer in them, wherever the call is; so the accepted result it
writes is backed. `HasRead` says that the record a call is about to extend may be
extended by its event (`MayFollow`): the event is missing, a decision has a request
before it and no other decision, and a request comes after both statuses. The append
compares that record with the log. A log may be any of several sequences later: the
committed one, the record file, which is the next one, the one the marker names, to which
a recovery goes forward, and what a call has read before the lock, to which a recovery goes
back when it undoes a twin. So `Sound` (every event once, decisions after the request,
the request after the statuses) is proved of all of them: `Inv == Core /\ PreInv /\
Settled`, where `PreInv` is about the last kind and `Settled` says that the record file is
the log when no owner, live or dead, has the store's lock. That is why twins cost liveness
and committed events, and never an event twice or two decisions in the log.
What was read of the record before an append was undone is lost, hence the flag `undone` in the last part of `RecordIsBacked`. Its other parts hold
whatever was undone, and need an invariant of their own, `BackInv`: every event in the
log *and in the record file* rests on its artifact, and a call on its way to append one
(`Bringing`) has that artifact behind it. The record file counts because any process may read it, and
may go on from it, before it is committed.

**SemanticCheckpoint_proofs.** The invariant of the lock is `Owned`. What a process has
decided to remove is abandoned and stays so (`SeenAbandoned`: acquires take less than
five minutes, so no file grows old under a comparison, and no process id that is
mentioned is used again); a recovery file belongs to the one process that recovers
(`RecoveryOwned`), so between comparison and removal of the lock nobody else removes it
(`EvictSure`); a lock just created is its creator's (`LockOwned`). From it follow
`LockKeptIfOneSweeper` and `ExclusionIfOneSweeper`. `Sound` adds what runs hold in memory: since only one
process is saving, what it compared is still there when it writes, which gives
`SuffixOnlyIfOneSweeper`; and `TypeCorrectIfOneSweeper`, where the last conjunct of `TypeOK` needs that what a run
expects is its own job's.

**Model-checked only.** Liveness: `CallsEnd` of the lock and of the executor,
`CampaignCloses`, `AuthorityCloses`, `StaleEnds`, `Finalizes` and `Completes`; the prover
does not reason about fairness. Every other property of a passing
run is also proved, those of the store and the checkpoint under the conditions above. The type invariants of `GenerationLock`, `GoalRun` and `GoalRunMutation`
are proved and not among the properties of a run.

## 5. What the checks do not say

- *Evidence that is refused although it holds* (`mutation_evidence`). Attempt 1
  commits one of two owned paths. Somebody changes the other one, the authority is
  remediated, and in attempt 2 the adapter only puts it back. There is nothing to
  commit, so the mutation relies on the commit of attempt 1
  (`publishOwnedPathCommit`), while the evidence says that the other path changed.
  If the process dies before the closure is published, the next call finds the owned
  paths as the evidence says and the same commit, compares the commit's changed
  paths with the evidence's (line 692 of the mutation executor) and throws
  `goal_execution_commit_proof_invalid`. The repository's test of that crash
  (`tests/acceptance/main-agent-goal-run-execution-action.test.ts:458`) is named
  "recovers published evidence after a crash before closure without rerunning
  execution". The attempt ends blocked and has to be remediated once more.
- Remediation is not a way out of every interrupted mutation. When an attempt is
  given up after its adapter ran and before its commit, the next baseline contains
  the work already; an idempotent adapter has nothing to declare, nothing is seen to
  change, and no commit holds the paths, so a partitioned authority fails in this
  attempt and in the next. For the same reason an authority with nothing to do and
  no earlier commit cannot close. A torn baseline, evidence or closure costs the attempt,
  as `writeImmutableBytes` never replaces what it finds and every later call of the attempt
  refuses it. The model has these behaviours; `AuthorityCloses` is stated from a clean
  workspace in which there is something to do, with an operator who remediates an attempt
  that has a torn file and no other. What was committed before it was torn is found again
  (`resolveReachableAuthorityCommit`), and what the adapter had done before a torn baseline
  is nothing, as it runs after the baseline.
- An adapter that goes on after an interruption has to declare all that changed since
  the baseline or nothing. One that declares only what it did this time is refused
  in that call and succeeds in the next one, in which it has nothing to do.
- The owned paths are observed before they are committed. An edit in between makes
  the evidence and the commit disagree; `ProofHoldsEvidence` is therefore claimed
  for `QuietSpec` only.
- `CampaignCloses` takes a mutation that nothing interferes with to succeed, which
  the points above qualify for authorities of a partition.
- Drift is looked for once per call. An edit of a closed authority's paths during
  a call goes unnoticed by that call, which may close the campaign; the next call
  sees it. The model has this behaviour; no document promises otherwise.
- While a claim is ahead of the pointer, activating the former candidate again is
  answered as *reused* although no call is admitted before the claimant activates
  again. Liveness is stated for the claimant.
- *Twin calls* (`store_twins`). The transaction id of an append is computed from the
  event and the record as it was before the lock, so two calls for the same event
  that read the same record share one. When the first has committed, another event
  has been committed after it, and the second dies after it created the lock, the
  recovery takes the first one's directory for the dead call's: the marker names a
  later transaction, so both committed events are undone. The test
  `tests/acceptance/requirement-record-control-store-transaction.test.ts:428` says of
  recovery that it "repairs projections from the current commit marker before the next
  commit". The other runs of the store exclude
  twins (`NoTwins`), and its theorems named `...IfApart` assume that there are none.
- *Overlapping recoveries of one record* are excluded too (`Serial`), from everything about
  the store but `StoreTyped` and `StoreShaped`. Nothing in the code excludes them: the slower of two
  recoveries may restore a previous content after the faster one has freed the lock and
  another event was committed.
- *Wedged records.* Three states of a lock are never left by any call (`Stuck`): a lock
  file created and never filled; a transaction directory whose manifest is gone; and a
  committed transaction whose index lock was released before its owner died, as the
  index lock is released first. `StaleEnds` says that there is no fourth.
- An error while an error is being handled is not modelled in the store, nor are
  failures of a `finally` block beyond the first.
- `Release` of a generation lock succeeds in the model. In the code it may throw after it
  has stopped the lease; the ticket then stays, and keeps the others out, until the owner's process
  has died.
- `Before` of the store finds the lock free and reads the record in one step. In the code a
  call may lock and write in between, so that the record read is one that is not
  committed yet: the comparison under the lock refuses it unless it is committed
  meanwhile, and then it is the record that a later reading would have found.
- *The finalizer reads uncommitted requests.* It looks for a status in the record file
  without the store's lock. A status it found there may be undone, and the request is
  then recorded without it; that the request comes after the statuses (`RecordIsBacked`) is
  stated for behaviours in which no append was undone.
  After a failed comparison the finalizer's third append may succeed
  and still be reported as `cas_failed`; after the user's decision every further call of
  the finalizer ends with a request conflict. The model has all of this.
- *Wedged candidates.* `Finalizes` is stated unless one of five things happens and lasts.
  `Contradicted`: an artifact is torn, or a judge's answer was published without its
  result, which a later, different answer contradicts for ever. `Dangling`: the
  record file shows a request that a dead process did not commit; the finalizer takes it
  for recorded, so nobody has to recover the lock. `Wedged`: nobody can recover the store's
  lock, because its file was created and not filled (line 241 of the control store), or the
  transaction directory has no manifest, not yet written (line 2444) or removed in
  the recovery of an undone append. `Unrepeatable`: the recovery of a dead twin undid an event
  whose successor keeps its directory and its receipt (lines 925-942), and the append of
  that successor is refused as a collision from then on. The third way of a record to
  be wedged, an index lock released before its owner died (line 2671), does not concern
  this caller, as its events have no artifact index. The promise nearest to `Finalizes` is
  the test `tests/acceptance/main-agent-goal-execution-final-judge-integration.test.ts:954`.
- *Committed events that go away.* The same recovery undoes everything committed
  after the twin's transaction: a request, and the user's decision on it. No document
  promises otherwise, and the finalization's properties are about the log as it is:
  `RecordedOnce` and `RecordIsBacked` hold of it all the while.
- Of the store, `GoalFinalization` leaves out: two recoveries of one dead owner at once, an
  error while an error is being handled, and the steps within a reading under the lock,
  which is one step and whose interruption leaves what `LeavesStore` and `Orphans` say.
- *Two sweepers of a recovery file* are excluded from the run of the file lock, and
  its theorems named `...IfOneSweeper` assume that there are none (`OneSweeper`,
  `scripts/requirements-contract-file-lock.ts:95`). Without that TLC finds a live writer's lock deleted: an owner dies,
  then the one that recovers its lock; five minutes later two calls both compare the
  abandoned recovery file with what they saw; the slower one removes the fresh recovery
  file of the faster one, both recover the lock, and the slower one removes the lock that
  the faster one has just created. The state file is then protected by its hash alone,
  and that comparison is not atomic with the rename.
- The file lock is also taken on trust in these points: an acquire takes less than five
  minutes, in particular no process is suspended that long between creating and
  filling a file; a file that cannot be read is malformed, not unreadable for a moment;
  a process id is not given to a new process while a file mentions it.
- Checkpoints: callers give their units in the order of their names, a hash stands for
  its content, and the run has one output per unit version. Output files are left out.
- File systems are taken to be sequentially consistent: creations, renames and
  listings happen one after the other. Loss of directory entries in a power
  failure is not modelled.
- Two processes are taken never to draw the same owner token, lease id or attempt id,
  which are random or hashes.

## 6. Plan

1. Compose `GoalRunMutation` with `GoalRun`: the mutation of each authority in place
   of the atomic `Mutate`. That both keep to the rounds of `AuthorityRound` is proved;
   what is missing is one specification in which they run together. Aggregate-only
   authorities.
2. `GoalFinalization` over `ControlStore` and `AttemptMutex` as instances, and over a
   finished `GoalCampaign`; its four omitted model statuses and the older confirmation
   by receipt.
3. The prompt transaction lock
   (`scripts/requirements-contract-prompt-transaction-lock.ts`), with the race of two
   contenders for a stale lock (line 121), and the transaction it guards; the durable
   build store as a second user of `RequirementsFileLock`.
4. The publication of a candidate's package before its activation.
5. A proof that `GoalRun` with generation locks in place of `lease` and `control`
   implements `GoalRun`.
