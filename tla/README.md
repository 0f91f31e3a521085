# Verification of SayHi

SayHi keeps the work of AI agents on a repository in files under `.sayhi/`:
every Task has an append-only history of Workflow Events, a Projection of it,
and the records its Gates refer to. There is no server. Every command is a
process of its own, several of them run at once, and what they share is the
file system: the Task's records, the locks and leases under
`.sayhi/.runtime/`, and the user's own checkout.

This directory holds TLA+ models of that machinery, the TLC configurations
that check them on small instances, and theorems that TLAPS proves for every
instance. `PROJECT.json` is the index: which definition models which lines of
the source, which run checks what, which hazards of the code are covered.

## 1. The system

Everything of substance is in `packages/core/src`; `packages/cli/src` holds the
file system Core runs on (`managed-project-filesystem.ts`) and one command per
Core call; `packages/omp-plugin/src` is registration metadata.

How they interact. A call of the store takes locks in one order everywhere:
`writer.lock`, then the Task lock. A Phase dispatch takes its Reader Lease
before the Task lock. A *bound* Writer, one whose caller holds a Reader Lease,
removes its own marker, takes `writer.lock`, waits for all other markers to go,
takes the Task lock, runs, and claims its marker again before it unlocks. Under
the Task lock a call loads the history, asks the Workflow engine whether the
request is acceptable, and writes one file after the other. Agents, Git, the
trackers and the user's editor are outside; none of them takes these locks,
except that an Agent reads under the lease its dispatch was given.

The finish of a Build runs under both locks and drives Git, which knows
neither. An Initiative is a Task whose graph names child Builds: its calls hold
the Writer lock and read the children's directories without their locks; the
scheduler, in the process of the caller, runs what readiness tells it to. The
Quick commands of the CLI are sequences of Core calls with nothing held between
them, beside an audit store that has no lock at all. The tracker protocols are
library calls: nothing in `packages/cli` makes them.

## 2. Modules

| Module | Role |
|---|---|
| `ReadWriteBarrier` | abstract: Readers and Writers that exclude each other |
| `SharedCheckout` | the lease and lock protocol, one action per file operation |
| `SharedCheckoutProofs`, `MCSharedCheckout` | its theorems; its instances |
| `ApprovedDelivery` | abstract: delivery of work the user agreed to and reviewers passed |
| `Workflow` | what the scans of the Event history answer, one action per Event |
| `WorkflowProofs`, `MCWorkflow` | its theorems; its instances |
| `TaskLedger` | abstract: a ledger of requests, each taken once at the version it names |
| `DurableTask` | the files of one durable Build and the calls that change them |
| `DurableTaskProofs`, `MCDurableTask` | its theorems; its instances |
| `ManagedProject` | the managed files and the calls that install, update and uninstall them |
| `ManagedProjectProofs`, `MCManagedProject` | its theorems; its instances |
| `TaskFinish` | the constrained commit of a Build: its record, Git, the Evidence, the archive |
| `TaskFinishProofs`, `MCTaskFinish` | its theorems; its instance |
| `QuickRecord`; `QuickRecordProofs`, `MCQuickRecord` | the files of a Quick and of its audit, and the invocations that make them; its theorems; its instances |
| `InitiativeGraph`, `MCInitiativeGraph` | the graph of an Initiative, its children and its repairs; its instances |
| `InitiativeScheduler`, `MCInitiativeScheduler` | the scheduler's calls and their barrier, job by job; its instances |
| `InitiativeProofs` | the theorems of both |
| `TrackerSync`; `TrackerSyncProofs`, `MCTrackerSync` | a Task shown on a tracker, by either of two protocols; its theorems; its instances |

### SharedCheckout

State: `lock` is the owner written in `writer.lock`; `marker[d]` the lease
token in `readers/<d>`; `temp` the calls whose temporary file is in the
directory the Writer lists. `pc`, `job`, `lease`, `expired` are the program
counter, purpose, lease and deadline of each call. `held` are the leases whose
Agent may be reading; `stopped` those whose Agent died; `lost` those that a
failed bound Writer returned although their marker could not be claimed again.

A call is one invocation of Core. `StartDispatch`, `StartBound`, `StartResult`,
`StartWrite` and `ResumeLease` are the entry points; `AwaitWriter`,
`ClaimOpen`, `ClaimLink`, `ClaimClean`, `ClaimAbort`, `Recheck` are
`acquireSharedCheckoutReaderLease`; `ReleaseRead`, `ReleaseRemove` the release,
which reads the token and removes the file in two steps; `LockTry`, `Drain`,
`FinishWrite`, `Unlock`, `Abandon` are `withWriterMutationLock`. `Crash` may
follow any step and leaves the files; `DeadlinePasses` is the clock.

### Workflow

The code keeps Events and answers every question by scanning back through
them. Each variable is the answer of one scan (named in the module next to the
variable), and each action changes the answers the way its Event does. So
`EnterPosition` resets exactly what a scan that stops at that transition no
longer finds. `consent` and `waiting` are auxiliary: the material the user
approved last, and the reviewers at work under a dispatch id of their own.

`Replay` checks on Event ids, Baseline adoptions, tracker Events and Quick
results are not in the module.

### DurableTask

State: `history` (with `torn` for half a line at its end), `projection`,
`manifest`, `baseline` are files; `source` and `tree` are the user's own files;
`lock` is the Task lock. A request is remembered in `request` under its
idempotency key. Each call waits, takes the lock and loads (`Locked`), decides,
and then has a list of writes `todo` which `DoStep` carries out one at a time;
`Fault` is a write that fails before, half-way, or after its effect; `Crash` a
process that dies there; `RemoveStaleLock` the user who removes its lock.

The calls are baseline adoption, the three changes of the Implement Context,
the Plan approval, a dispatch that finds its Context stale, `task advance` to
block and to resume, `task recover` and the Writer. The history starts where a
Build has just been approved.

An entry of the history carries what replay and the scans of `task-lifecycle.ts`
look at: type, idempotency key, sequence and the identity it records.

### ManagedProject

State: `file` are the managed files, `records` the ownership manifest,
`installed` the release in the project manifest, `journal` the recorded plan of
an operation. A file is told apart by its block (one of a release's template,
one the user changed, or none that can be found) and by whether there is text
of the user's around it; that is all `replaceManagedBlocks`,
`removeManagedBlocks` and the comparison of hashes look at. `Class` gives the
Ownership Class of each file.

`PlanMutation`, `PlanRecords` and one `PlanFile` for each file are the reads of
a plan; `Discard` is a plan that is only shown. `Apply` is the work under the
Writer lock up to the journal, with the journal check and the comparison of the
files, `WriteJournal` the journal. Then each file has a `Look` and, where one is
due, a `WriteFile`; the manifests and the journal follow, a write each.
`Recover` enters at the first `Look` with the plan of the journal. `Initialize`,
`InitLook`, `InitWrite`, `InitRecords`, `InitManifest`, `InitCheck` are
`initializeManagedProject`, which takes no lock. `Fault` is a write that fails
or a process that dies before it: writes are renames of a complete temporary
file, so there is no half of one. `Edit` is the user, at any moment. A locked
call that dies lets others in at once; that its lock file stays until it is
removed by hand is `SharedCheckout`'s subject.

Auxiliary variables name the exceptions that the code has. `unseen`: an edit
fell between the look and the write of a call, which will overwrite it.
`hurried`: a plan's reads were not all of one state, because another call wrote
in between, or an initialisation found no store while a journal was pending.
`crossed`: such a call wrote, or an initialisation wrote while an operation was
at work, from its comparison of the files on. The properties hold outside of
these, and section *Findings* says what happens within them.

Left out: creation of directories, the content of the conflict variants,
validation of records and of the journal, a change of marker IDs, and releases
whose templates the installed one does not know.

### TaskFinish

State: `commits`, `head`, `index` and `work` are the repository, a file being
told apart by one of a few contents; `lifecycle`, `base`, `location` the Task's
Projection, its adopted Baseline and its directory; `finish` and `evidence` the
two records. `pc` is how far the running command is. `calls` is a clock: it
stands for the capture times and the Event ids the code draws, which differ
between calls. `completedBy` and `since` are auxiliary.

`Prepare` and `Resume` enter `finishDurableTaskCommit` without and with a
record; `StartCommit`, `GitAdd`, `GitCommit`, `RecordCommit` are the way to a
first commit, one write or Git process each; `RecoverCommit` the way that finds
one; `WriteEvidence`, `Complete`, `Archive`, `MoveDirectory` what follows.
`Stop` ends a command anywhere: a check refuses, a write or Git fails, or the
process dies. `Advance`, `Adopt` and `StartArchive` are other commands on the
Task, between two finish commands (they take the same locks). `Edit`, `Stage`
and `CommitStaged` are the user at any moment; `Reset` only between commands,
because the Git layer answers a commit with the HEAD it reads afterwards, and
the module reads HEAD where that answer is used.

Constant here: the Knowledge, tracker and Learnings parts of the finish record.

### QuickRecord

State: the Quick's directory in its three places (`runtime`, `active`,
`archive`), each a history, a Baseline and a result; the audit in its two; the
Task lock; checkout and HEAD. Each *run* is an invocation of the CLI with a
`request`: one that writes goes through `Create` or `Read`, `Enter`, `Adopt`,
`WriteBaseline`, `Write`, `CaptureAfter`, `Review`, `Finish`, `Complete`,
`WriteResult`, `Promote`; one that writes nothing through `CaptureBefore`,
`Compare`, `LookActive`, `LookArchive`, `Link`, `Report`; an archiving one looks
for the record and otherwise for the audit. `seen` and `found` are what a run
read before and goes by. The Task lock is taken for each Core call, so runs
interleave between calls; the audit's file operations interleave one by one.
`Stop` ends a run anywhere; the lock it leaves is removed by hand.

A request has one id, as the command line derives the ids of its Events from
it; the same id for a second Quick is what `created` counts.

### InitiativeGraph

State: `since`, `edges`, `claims`, `repair`, `version` are the graph the
Initiative's history accepted last (`since` is the version that brought a node
in, which the id of a Repair Task's first Event is made of); `file` and
`journal` are `graph.json` and the repair journal; `child` and `stored` the
directory of each Task and the one in the archive. `pc`, `goal`, `next`,
`seen`, `made`, `hand` are the one call that holds the Writer lock.

`Inspect`, `Look`, `Tell` are readiness, a child read at a time in any order;
`Revise` is a revision by the user; `Prepare`, `StagePrepared`, `AppendEvent`,
`WriteGraph`, `StageRevised`, `FindTask`, `LoadTask`, `CreateTask`, `MakeTask`,
`StageCompleted` are `createDurableInitiativeRepairs`, a write each;
`RecoverAtOnce` is the recovery in its catch block and `Recover` the command.
`Stop` ends a call anywhere. Beside it the children's own commands start Tasks
and move and archive them. `Readiness` is a recursive function over the acyclic
graph; `CreationOf` is the first Event a Repair Task would get.

Left out: what a node's Build does inside, edge types other than the three, the
order in which Resource Claims rank a frontier.

### InitiativeScheduler

State: the four fields of the barrier and its `waiters`, as in the class;
`jobs` is the microtask queue. `waitUntil` is an `async` function, so a caller
whose condition holds goes on in a later job (`Goes`), and one that is woken
checks in one job (`Check`) and goes on in another: the module queues these
jobs in the order the language prescribes. `place` and `turn` are where a call
is, `outcome` and `persisted` what came of its executions. `orderedReadyExecutions`
takes no Task twice, and an outcome is known to its own call only (`Apart`). `Start` and `Abort` are the caller;
executions and persisting end in any order with any outcome. What comes between
a wait and the counters it guards is where the finding comes from.

### TrackerSync

State: `remote` is the issue with its version, `had` what it was at each
version (auxiliary); `known` is what is remembered of it (the latest tracker
Event of the Task, or the mapping); `pending` the mapping's pending mutation;
`conflict` what was reported last, `decided` the versions a user decided about,
`asked` the contents asked for (auxiliary). `mine` is the request a call waits
for, `late` those nobody waits for any more.

`protocol` chooses between `github-tracker.ts` (`Push`, `Pull`, `Find`,
`Status`) and `tracker-projection.ts` (`Project`, `Lookup`, `Mark`); `Resolve`
and `CheckSeen` are the resolution of conflicts in both. `Send`, `Answered`,
`Unheard` and `Arrive` are a request and its answer: the request is carried out
and answered, or carried out and not heard, or given up (`Stop`) and carried
out later. The tracker is external: it writes an issue only over the version a
request names, and answers a creation for a Task that has an issue with it,
which is what the adapters' contract asks. `Others` edit, close or delete the
issue. An Event of the Task is refused when the Task has moved on
(`StillThere`), a mapping is not.

Folded together: closing and archiving an issue is part of its content
(`Ended`); a retry under an idempotency key is a new request. A conflict of the
GitHub protocol about a Task without a reference, reported after the second
look, names a version and can then not be resolved; a text that the user kept
is overwritten by the next push that changes the Task's projection, since it is
remembered. Both are as in the code.

## 3. What is checked

| Run | Instance | Shows |
|---|---|---|
| `SharedCheckout_leases` | 3 calls, 3 leases, two of them of one dispatch id | exclusion, no orphaned or stolen marker, implements `ReadWriteBarrier` |
| `SharedCheckout_live` | 2 calls, 1 lease both may use at once | every call returns |
| `Workflow_build` | 2 Plans, 2 Contexts, 2 fingerprints, 2 repairs, all routes | the safety properties of the Workflow, implements `ApprovedDelivery` |
| `DurableTask_calls` | 2 calls, 2 keys, histories of up to 4 Events when a request is new | implements `TaskLedger`; Projection and recovery |
| `DurableTask_blocked` | 1 call, 2 keys, 2 checkouts, torn lines, stale dispatches | no Writer on a half-written Task; a broken history is never built upon |
| `ManagedProject_lifecycle` | 2 calls, 3 of them made; a file of each class, 2 releases, 1 edit, 1 fault | the user's work survives; conflicts are the user's; a journal can be carried out; what is left at rest fits together |
| `TaskFinish_commit` | a file of the Task and one of the user's, 3 contents, 3 commands, 2 moves meanwhile, 3 commits | the Evidence tells the truth; the user's work stays; only an active Task commits, for the Baseline it has |
| `QuickRecord_store` | 3 invocations of 2 requests (one writes), a file in the scope and one outside, 1 move of the user | records in the Project Store are whole; an audit never disappears |
| `InitiativeGraph_repairs` | 3 Tasks, 2 planned, three possible edges of two types, graph versions up to 3, statuses moving to completed and, of the first, to stuck | repairs follow the planned work; frontiers are exact; no node is ready before what blocks it; recovery completes; nodes and first Events stay |
| `InitiativeScheduler_barrier` | a call with a read wave and two Writers, one with a wave, one of `integrate` | Writers follow stored work; results are true; whoever waits does so for somebody; every call returns |
| `InitiativeScheduler_overlap` | the same | the finding |
| `TrackerSync_projection` | 2 contents of the Task (the second of an ended one), 4 versions of the tracker, 1 late request, both protocols; 3.1 M states | what is remembered is true; other people's text survives; an issue is adopted only for a reason |

Why the bounds are enough. The barrier's protocol compares tokens and looks for
one lock: two Readers of one dispatch, one of another, and a Writer are the
roles there are, and three calls put any three of them between each other's
steps. In `Workflow`, two Plans and two Contexts are needed to tell "the Plan
approved" from "a Plan approved"; two fingerprints to tell this work from
earlier work; `MaxRepairAttempts = 2` lets a count be right once and wrong the
second time. `MaxGraphVersion` bounds graph revisions. In `DurableTask`,
`MaxVersion` bounds only *new* requests: repetitions, reseals and recoveries go
on beyond it, so a request may be overtaken by two others and repeated at any
time. Two calls are enough for whatever the Task lock must keep apart.

In `ManagedProject`, three files suffice for one of each class, and put two that
are worked on (`ignore` and `agents`) one after the other, so that an operation
may be cut short, or a file edited, with one of them done. `MaxCalls = 3` admits
an update that fails, its recovery and another plan; with two calls any two
overlap. The same properties held with two edits, and with one call, five calls
made, two edits and two faults, and where the releases have one template; those
instances are too large to be repeated each time.

In `TaskFinish`, three commands are a finish that stops, its repetition and one
more; two moves let the user undo or hide what was done in one (a commit and a
reset, an edit and a staging); three contents tell what was there, what the
Task wrote and what came later. In `QuickRecord`, three runs put a third
between any two that race, with all requests in any of them. In
`InitiativeGraph`, three versions are a first graph, a revision or a repair,
and another on top of it; three nodes are the least with a blocker of a
blocker, and `informs` is an edge that must not block. That only the first node
may get stuck halves the states and loses no shape of a block: the first node
has every other behind it. All of it held with every node free to (1.7 M states). In
`InitiativeScheduler`, the three calls are the ways there are to use the
barrier; a wave and two Writers in one call meet at each of its conditions. In
`TrackerSync`, four versions let an issue be written, edited by somebody else,
decided about and written over, and be edited once more behind a late request.

Symmetry is used in safety runs, over sets whose members are only compared
(calls, keys, Plans, Contexts, fingerprints, checkouts, runs), and not in the
runs with a liveness property. Deadlock is not checked where the system stops:
in `SharedCheckout` every process may have crashed with every lease used; in
`ManagedProject`, `QuickRecord` and `InitiativeScheduler` every call may have
been made; in `TaskFinish`, `InitiativeGraph` and `TrackerSync` the bounds on
commands, versions and moves end.

Fairness. `SharedCheckout!FairSpec` assumes that a live process takes its next
step and that its clock passes its deadline. Nobody has to start a call, to
give a lease back or to crash. The code justifies both: the loops sleep 10 ms
and test `Date.now()`, and nothing in them blocks. Fairness of a single
operation is not assumed: a Writer may lose the lock to others until its
deadline passes. `InitiativeScheduler!FairSchedulerSpec` assumes that the event loop
runs the jobs it has, in order, and that an execution and a write, once
started, end somehow (the caller owns them; the scheduler itself has no
timeout). Nobody has to start a call or to abort one.

The type invariants of `TaskFinish`, `QuickRecord`, `InitiativeGraph`,
`InitiativeScheduler` and `TrackerSync` are proved and not among the runs, whose
properties are those that could be wrong. The inductive invariant of the
barrier's proofs and its part `OneWriter`, and `DispatchBindsApprovedPlan` and
`StoppedTasksStandStill` of the Workflow, are proved for every instance and are
not repeated in the runs either.

### Finding

`initiative-scheduler.ts:187` (run `InitiativeScheduler_overlap`). A caller
whose condition holds takes its place at the barrier in a later job. Two calls
that are made, or woken, together both find it free: a Writer executes while a
read wave, or another Writer, does. `docs/spec/workflow.md:298`: "Reader and
Writer activity MUST NOT overlap."

### Stated and known not to hold

The modules state further what a document, a message or a test says of the
code and TLC refuted on the modules as they are. They are not among the runs;
each is listed under the hazards at its line.

| Definition | Line | What the code does |
|---|---|---|
| `SharedCheckout!ReturnedReadersExcludeWriters` | `task-lifecycle.ts:1538` | a failed bound Writer returns its Reader Lease also when the marker could not be claimed again; its Agent reads on while the next Writer runs |
| `Workflow!ReviewersAtWorkCanReport` | `workflow.ts:3101` | only the latest dispatch of a Phase may report, so of two concurrent reviewers the one dispatched first cannot (`docs/spec/workflow.md:157` allows both) |
| `DurableTask!SequencesIncreaseByOne` | `task-lifecycle.ts:4368` | a Build blocked by its Context, advanced after the Context was restored, is resumed and advanced from the state loaded before: two Events get one sequence and the history no longer replays |
| `DurableTask!AdoptedBaselineIsOnFile` | `task-lifecycle.ts:6293` | an adoption that failed after its Event was appended is answered with success when repeated, without `baseline.json` |
| `ManagedProject!FreshPlanCanApply` | `managed-project-mutation.ts:700` | a file edited while a plan is carried out leaves a journal with which no fresh plan is applied; recovery gives the same answer until the file is put back by hand |
| `TaskFinish!CommittedFinishIsRecoverable` | `task-lifecycle.ts:6094` | a finish record is read only if every dirty file of its Baseline was adopted exactly: a finish that stopped after its commit is not recovered when the commit took a file that was not adopted (the test at `managed-project-bin.contract.test.ts:1988` has it recovered where all were) |
| `QuickRecord!ReportedAuditStands` | `quick-audit-store.ts:109` | an archiving call that read an audit before another replaced it moves what it read: a reported audit may be lost |
| `InitiativeGraph!RepairsAreRecognised` | `workflow.ts:2826` | a user revision may change the claims of a Repair node whose Task exists, which recovery then refuses for ever |

Also met, and listed under the hazards: a plan made while another call writes
may see a conflict nobody caused, and if it is applied it puts back the older
ownership records; an initialisation that fails between its two manifests is
refused when it is retried, as the diagnostic asks; an initialisation beside a
pending uninstall is undone by the recovery of the uninstall; one that writes a
file between the comparison and the journal of an operation leaves a journal
that no recovery finishes; and one that found no store while the journal of an
uninstall was pending may write its records after that journal is gone, over
files it looked at before the uninstall took them away.

## 4. What is proved

All theorems are for arbitrary finite or infinite sets of calls, leases, keys,
Plans, paths and so on, under the `ASSUME`s of the modules, which TLC evaluates
in the runs.

`SharedCheckoutProofs` assumes `SharedLeaseCalls = FALSE`: no two calls use one
lease at the same time. The code does not enforce it (hazard at
`task-lifecycle.ts:1454`); the `SharedCheckout_live` run drops it for liveness.
The invariant `IInv` says where every marker, temporary file and the lock can
be: a call's place, job and lease agree; a lease is in one hand only; who is
past `LockTry` owns the lock; a marker is in place exactly for a claimed or
kept lease; while a Writer runs no lease is kept and no dispatch is past its
re-check. Exclusion is not inductive alone, because at the moment a Reader has
claimed and not looked, and a Writer has locked and not listed, neither has
seen the other. From it: `ReadersAndWritersExclude`, `AtMostOneWriter`,
`MarkersAccountedFor`, `HeldMarkersStay`, `TypeCorrect`, and
`ImplementsBarrier`, step by step.

`WorkflowProofs`: `HistoryInv` (roles fit the Phase, only Builds execute, a
recorded Plan is not a rejected one, ...) and, on top of it, `Consented`: the
approved Plan, the latest dispatch and the current implementation all are of
the material approved last. From them the six safety properties, and
`ImplementsDelivery`.

`DurableTaskProofs`: who is past the Task lock holds it; a version waiting in
`todo` to be shown is in the history, or will be once the Events waiting before
it are written (`WritesAreBehind`); a call that looks at a resumed Build again
is at most one Event behind the history (`ResumeIsDurable`, which is where the
repeated sequence comes from, and why the Projection is nevertheless never
ahead). From them `TypeCorrect`, `WritersAreSealed` and `ProjectionNeverAhead`.

That is not enough to say what a repeated request or a recovery finds. A second
invariant, `SInv`, says what the writes still waiting in `todo` are made of:
after half a line, or a repeated sequence number, nothing is waiting that would
touch the history or the files bound to it (`NothingIsLeft`, `WritesAreSound`);
a key the store names after a version is new at that version (`KeysAreOld`);
and the Event of a client's request is the first of its writes, at the version
the request named, while a call that will answer "granted" has that Event in
`todo` or finds the request settled (`Ledgered`). From it
`BrokenHistoriesAreLeft`, `RecoveriesShowHistory` and `StoreIsALedger`, the
refinement of `TaskLedger`: the append of a client's Event maps to `Accept`, a
request that comes in to `Ask`, an answer of success to `Answer`, and everything
else, a crash and the recovery after it included, to a stutter.

`RecoveriesShowHistory` and `StoreIsALedger` assume `MayBlock = FALSE`: no
dispatch finds its Context stale. With `MayBlock = TRUE` both are false of the
code. A recovery that resumes a blocked Build, and then finds the Context is the
approved one after all, goes on with the state it had loaded before the resume:
it shows the version before its own Event, and a request repeated after that
writes the second Event with the same sequence number
(`SequencesIncreaseByOne`, section 3). What holds there all the
same is `BrokenHistoriesAreLeft`, which has no such hypothesis. The module
states two assumptions more than TLC needs: `"EARLIER"`, which stands for the
requests made before the model starts, is no client's key, and `None` is no
request.

`ManagedProjectProofs`: a plan, in a call's hands or in the journal, replaces
only content without work of the user's, or keeps the text around the block
(`SafePlan`); one call at a time is past `Apply` (`Exclusive`); and a call that
is about to write finds the file as it saw it, or without work of the user's,
unless it was edited since (`AsSeen`). The last conjunct is needed because an
initialisation may write a file between the look and the write of an operation
and the other way round, and because the journal may be recovered long after
its plan was made. From them `TypeCorrect` and `WorkSurvives`. The sequence of
files, the classes, the blocks of each release and the bounds are arbitrary.

What operations leave behind needs a second invariant, `OpInv`, on top of it.
Whatever happens, a plan fits the records it was made under (`Fit`: an update
brings the template of the target, only an uninstall removes a file, and a
file that is worked on has a record), is `Complete` once it can be applied, and
is the one in the journal from the first look on (`InTurn`). As long as no
write crossed another call's work (`~crossed`): what an operation or an
initialisation has passed is done, or was touched by the user (`Carrying`,
`Looked`); a plan whose reads nobody disturbed has conflicts only where the
user was (`Good`); every file is as the journal expects or as it leaves it
(`Recoverable`, which holds across any number of recoveries cut short); and
with no journal the project is `Coherent`, also while an initialisation is half
done. `ConflictsComeFromUsers`, `RecoveriesCanFinish` and `RestsAreCoherent`
follow. The heart of it is `FinishedIsCoherent`: an operation that has gone
through all files and manifests leaves one release, or nothing, or conflicts of
the user's. Looking for `OpInv` showed that the properties had been false
outside the bounds of the run: `hurried` and `crossed` did not cover an
initialisation that looked while an uninstall was pending and wrote after it,
nor one that writes between an operation's comparison and its journal (one
file, four calls, one edit and one fault are enough for TLC to show either).
Both are now counted, and are listed in section 3. The proofs use one
assumption more, `MissingIsNoRecord`: the absent file is not a record.

`TaskFinishProofs`: `EvidenceIsTrue` is not inductive, because the Evidence is
written from the finish record and the Event from the Evidence, in other calls.
`IInv` adds that every Baseline, the Task's and the record's, is of a commit
that was made (`BaselinesAreOld`); that a finish record takes files of the
Scope and, once it names a commit, that commit is the Task's, on the record's
Baseline, of exactly these files (`FinishIsSound`); that Evidence and
completion agree with the record (`RecordsAgree`); and what is certain at each
step of the running command, whatever the user does between two of them
(`StepsAreSound`). From it `TypeCorrect`, `EvidenceStaysTrue`,
`FinishSparesTheUser` and `CommitsAreTheTasks`. The commit itself is recorded
from HEAD read after it, and the user may have committed in between: that the
record still names the Task's commit follows from the comparison of HEAD's
parent with the Baseline's, which the proof uses.

`QuickRecordProofs`: a Quick is made by steps of its own under a lock that is
given back between them, and any other invocation may have done the same steps
meanwhile. `IInv` says that who is past the Task lock holds it and finds there
what it left (`Stands`); and, as long as one Quick was created, that its record
is in one place, that what any invocation has seen is an earlier state of it,
and that a Baseline is adopted once, is the one on file, and is the one the
result is about (`RecordsAreSound`, `Sound`). The last is why an adoption by an
invocation with an old look is refused: its history would be as long as the
record's and have no adoption. From it `TypeCorrect`, `StoredStayWhole` and
`AuditsRemain`.

`InitiativeProofs`, of the graph: that a completed repair operation means its Tasks are
there (`RepairsAreDone`) has to hold long after the call ended, while the graph
is revised and commands run on the children. `IInv` says what a call knows: the
graph about to be accepted keeps every node, and its new Repair nodes carry the
version it will get (`NextKeepsNodes`), so that they are newer than any
operation completed before (`CompletedIsOld`); a Repair node a call has seen to
has its Task, but for the one it is at, and a directory it is about to fill is
still empty, although it may fill it without the Task's lock (`MadeAreThere`).
Each step either leaves the graph or accepts `next`, and leaves the children or
is one of three actions; `RepairsAreDone` and `NodesAndEventsStay` follow, and
`GraphTypeCorrect` with it.

What readiness and integration say rests on `Readiness`, a recursive function
over the graph, and the prover has no induction over data. It needs none here:
`Acyclic` says that every set of nodes has one that no edge enters from within
the set. Two functions that fit the definition on parts of the graph agree,
since the nodes where they do not would have a first one (`PartsAgree`); and
there is one for all nodes, since those that no part reaches would have a first
one as well (`RecursionEnds`), so that `Readiness` fits its own definition
(`ReadinessOf`). `WorkInv`, on top of `IInv`, then says that every graph
accepted, and the one about to be, is acyclic and joins nodes only, and that
the latter has new Repair nodes only when all nodes so far are completed
(`GraphIsValid`, `NextIsValid`); and that what a call has read of a child is
still so where it matters, because a Build never leaves completed
(`SeenIsTrue`). `GraphsStayValid`,
`RepairsFollowWork`, `FrontiersAreExact` and `FrontiersDoNotWait` follow.

`InitiativeProofs`, of the scheduler: `SInv` says for each call of `run`, by
where it is, which of its executions have an outcome and which outcomes are
persisted (`Wave` of the reads, `Turn` of the Writer whose turn it is): all
before its turn succeeded and are persisted, none after it has started
(`Progress`). It rests on a fact about the job queue, that a call decides once,
and only when it has ended what it was at (`DecidesOnce`): otherwise the same
outcome would start two Writers. From it `SchedulesProgress`, `WritersFollow`
and `ResultsStayTrue`.

That nobody is left at the barrier is another matter. `BarrierInv` says that
each call is queued or among the waiters once at most, and where it says
(`Once`), that the three counters count the calls that are reading, have a wave
to persist or wait to write (`CountersCount`), and that the owner is at work
(`OwnerIsAtWork`): `BarrierIsSound`. On top of it `WaitInv` says that a call
which waits is queued, or among the waiters with a condition that is false: a
counter goes down, and the owner lets go, only in a step that wakes everybody,
but for a call that takes the barrier in the same step, and then all conditions
are false (`NoWakeUpIsLost`). So when no job is left, a waiter's false condition
names a call that is reading or at work, or one that waits itself and whose own
condition is then looked at, in the order Writer, wave to persist, new wave
(`BarrierKeepsGoing`): no set of calls waits for one another. That is the half
of `EveryCallReturns` that is safety, for any calls; the other half, that
executions and writes end, is the fairness assumed.

None of the scheduler's theorems needs that Readers and Writers exclude each
other, which the code does not ensure (section 3): calls do not share
executions (`Apart`), so that what one does to the checkout beside another is
all the overlap can harm. The module's names that `InitiativeGraph` has too are
other ones (`SchedulerSpec`, `place`, `persisted`), because one module of
proofs extends both.

`TrackerSyncProofs`: a late request fires after what is remembered of the issue
has changed, so what is true when it is sent is not enough. `IInv` says that
the tracker gives each version once and that its text and the remembered one
are among them (`VersionsAreOnce`); that no request names a version to come
(`RequestsAreOld`), so that one which still finds the version it names finds
the text it was made for; and that a request which could overwrite somebody
else's text, and a record of such a text, go back to a user's decision
(`RequestsAreDecided`, `RecordIsDecided`). From it `RecordsStayTrue`,
`ForeignTextIsSpared` and `AdoptionStaysEarned`; with what a call has before it
when it marks or checks (`TypeInv`), `TrackerTypeCorrect`.

Model-checked only: the two properties called `EveryCallReturns`, because
liveness is out of the prover's reach. All other properties of the passing
runs are theorems.

## 5. Plan

In this order; each module is written to be proved about (no `RECURSIVE`).

1. `ManagedProject`: an abstract specification (the project moves from one
   installed release to another, and an operation is all or nothing up to
   recovery) with the module shown to implement it; then the three-way skill
   upgrade.
2. `KnowledgePromotion`: approval, promotion across several files, recovery.
3. `Workflow`: Event ids and the replay checks (hazard at `workflow.ts:1635`),
   the durable scan for the current dispatch (`task-lifecycle.ts:3596`), and
   the binding that `execution.ts` seals for it.
4. `markdown-tracker.ts` as a tracker of `TrackerSync`: it reads a file and
   writes it without a version check.

## 6. Not modelled

Parsing, canonical serialisation, hashing and validation of records; the layout
of messages; command-line parsing. They are pure functions of text without
state of their own; where a property depends on one (a hash that no longer
matches its source) the model has the comparison and not the text. File
permissions, symbolic links and path checks are left out as well. The other
commands of the CLI make one Core call each and print its answer; the OMP
plug-in registers them. Knowledge, skills and `execution.ts` are planned, see
above.
