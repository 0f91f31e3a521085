------------------------------ MODULE TaskFinish ------------------------------
(* The constrained commit that finishes a Build: finishDurableTaskCommit in   *)
(* packages/core/src/task-lifecycle.ts writes a Finish record, has Git make   *)
(* one commit, writes the record again, the Evidence and the last two Events, *)
(* and moves the Task's directory to the archive. The process may die, or a   *)
(* write or Git may fail, between any two of these, and the call is made      *)
(* again. The Task's commands exclude each other by the locks SharedCheckout  *)
(* and DurableTask are about; the user's editor and Git know no locks.        *)
EXTENDS Naturals, Sequences

CONSTANTS
  Path,      \* files of the repository outside .sayhi
  Scope,     \* the files the Task may write (isWritableTaskPath)
  Content,   \* contents of a file
  Original,  \* the content of every file in the first commit
  MaxCalls,  \* bound: commands that finish or archive the Task
  MaxMoves,  \* bound: what the user and other commands do meanwhile
  MaxCommits,\* bound: commits
  None       \* no record, no Evidence, no commit, not dirty

VARIABLES
  commits,         \* every commit ever made, in this order
  head,            \* HEAD
  index, work,     \* per file: the staged content, the content in the checkout
  lifecycle,       \* of the Task, a Build in Finish
  base,            \* baseline.json, as its adoption Event has it
  finish,          \* finish.json
  evidence,        \* evidence/commit.json
  completedBy,     \* the call whose Event completed the Task, 0 for another
  location,        \* of the Task's directory
  pc,              \* how far the running finish or archive command is
  fresh,           \* did the running call write the Finish record first?
  calls,           \* commands so far: a clock, and ids for their Events
  moves            \* moves of the user and of other commands so far

repository == <<commits, head, index, work>>
task == <<lifecycle, base, completedBy, location>>
records == <<finish, evidence>>
vars == <<repository, task, records, pc, fresh, calls, moves>>

Trees == [Path -> Content]
Identity == Content \X Content \X Content
Commit == [parent : Nat, by : {"task", "user"}, paths : SUBSET Path, tree : Trees]
Baseline == [head : Nat, dirty : [Path -> Identity \cup {None}],
             adopted : SUBSET Path]
FinishRecord == [state : {"prepared", "committed"}, base : Baseline, at : Nat,
                 paths : SUBSET Path, commit : Nat \cup {None}, event : Nat,
                 since : Nat]
EvidenceRecord == [commit : Nat, parent : Nat, paths : SUBSET Path, event : Nat]

ASSUME TaskFinishConstants ==
  /\ Scope \subseteq Path /\ Original \in Content
  /\ MaxCalls \in Nat /\ MaxMoves \in Nat /\ MaxCommits \in Nat
  /\ None \notin Nat \cup Identity \cup FinishRecord \cup EvidenceRecord

Steps == {"idle", "resolve", "add", "commit", "check", "evidence", "complete",
          "archive", "move"}

TypeOK ==
  /\ commits \in Seq(Commit) /\ head \in 1..Len(commits)
  /\ index \in Trees /\ work \in Trees
  /\ lifecycle \in {"active", "blocked", "cancelled", "completed", "archived"}
  /\ base \in Baseline
  /\ finish \in FinishRecord \cup {None}
  /\ evidence \in EvidenceRecord \cup {None}
  /\ completedBy \in Nat
  /\ location \in {"tasks", "archive"}
  /\ pc \in Steps /\ fresh \in BOOLEAN
  /\ calls \in Nat /\ moves \in Nat
  /\ pc \notin {"idle", "move"} => finish # None
  /\ finish # None => (finish.state = "committed" <=> finish.commit # None)

-------------------------------------------------------------------------------
(* Baselines.                                                                 *)

Tree == commits[head].tree

(* captureBaseline: a dirty path goes by the digests of what is staged and of *)
(* what is not.                                                               *)
DirtyNow ==
  [p \in Path |-> IF index[p] = Tree[p] /\ work[p] = index[p] THEN None
                  ELSE <<Tree[p], index[p], work[p]>>]
Capture(adopted) == [head |-> head, dirty |-> DirtyNow, adopted |-> adopted]

(* hasExactAdoption.                                                          *)
ExactAdoption(b) == b.adopted = {p \in Path : b.dirty[p] # None}

(* changedBaselinePaths.                                                      *)
Changed(b, c) == {p \in Path : b.dirty[p] # c.dirty[p]}

(* hasExpectedPostCommitBaseline of the Baseline captured now.                *)
AfterCommit(before, commit, paths) ==
  /\ head = commit
  /\ DirtyNow = [p \in Path |-> IF p \in paths THEN None ELSE before.dirty[p]]

(* planDurableTaskCommit: the files the commit would take, and whether the    *)
(* plan is ready.                                                             *)
(* Mutant: every changed file is the Task's.                                  *)
PlannedPathsUnscoped == Changed(base, Capture(base.adopted))
PlannedPaths == Changed(base, Capture(base.adopted)) \cap Scope
PlanReady ==
  /\ lifecycle = "active"
  /\ head = base.head
  /\ \A p \in Scope : index[p] = Tree[p]
  /\ PlannedPaths # {}

-------------------------------------------------------------------------------
(* The first commit holds the Original contents; a Baseline with some dirty   *)
(* files was adopted, and the Writer has then written files of the Scope.     *)
Init ==
  /\ commits = <<[parent |-> 0, by |-> "user", paths |-> Path,
                  tree |-> [p \in Path |-> Original]]>>
  /\ head = 1
  /\ index = [p \in Path |-> Original]
  /\ \E before \in Trees, written \in Trees :
       /\ base = [head |-> 1,
                  dirty |-> [p \in Path |->
                    IF before[p] = Original THEN None
                    ELSE <<Original, Original, before[p]>>],
                  adopted |-> {p \in Path : before[p] # Original}]
       /\ work = [p \in Path |-> IF p \in Scope THEN written[p] ELSE before[p]]
  /\ lifecycle = "active" /\ completedBy = 0
  /\ finish = None /\ evidence = None
  /\ location = "tasks"
  /\ pc = "idle" /\ fresh = FALSE
  /\ calls = 0 /\ moves = 0

-------------------------------------------------------------------------------
(* finishDurableTaskCommit.                                                   *)

Begin ==
  /\ pc = "idle" /\ location = "tasks" /\ calls < MaxCalls
  /\ calls' = calls + 1

(* No Finish record: the Task must be active, its plan ready; the prepared    *)
(* record is written.                                                         *)
Prepare ==
  /\ Begin
  /\ finish = None
  /\ PlanReady
  /\ finish' = [state |-> "prepared", base |-> Capture(base.adopted),
                at |-> calls, paths |-> PlannedPaths, commit |-> None,
                event |-> calls', since |-> moves]
  /\ pc' = "resolve" /\ fresh' = TRUE
  /\ UNCHANGED <<repository, task, evidence, moves>>

(* loadDurableTaskFinishRecord: a record counts as damaged when its Baseline  *)
(* has dirty paths that were not adopted.                                     *)
Readable == ExactAdoption(finish.base)

Resume ==
  /\ Begin
  /\ finish # None
  /\ Readable
  /\ pc' = "resolve" /\ fresh' = FALSE
  /\ UNCHANGED <<repository, task, records, moves>>

(* verifyPreparedDurableTaskFinishRecord: the plan made now is the recorded   *)
(* one, the time of its Baseline included.                                    *)
PlanIsTheRecorded ==
  /\ PlanReady
  /\ Capture(base.adopted) = finish.base /\ calls = finish.at
  /\ PlannedPaths = finish.paths

Unfinished == finish.state = "prepared" /\ head = finish.base.head

(* resolveDurableTaskFinishCommit with HEAD where the record expects it.      *)
(* Mutant: a prepared record found on file is carried out unchecked.          *)
StartCommitUnverified ==
  /\ pc = "resolve"
  /\ Unfinished
  /\ pc' = "add"
  /\ UNCHANGED <<repository, task, records, fresh, calls, moves>>
StartCommit ==
  /\ pc = "resolve"
  /\ Unfinished
  /\ fresh \/ PlanIsTheRecorded
  /\ pc' = "add"
  /\ UNCHANGED <<repository, task, records, fresh, calls, moves>>

(* commit of NodeManagedProjectFileSystem: the repository must be as planned, *)
(* then "git add" and "git commit --only" run, and HEAD is read again.        *)
GitAdd ==
  /\ pc = "add"
  /\ Capture(finish.base.adopted) = finish.base
  /\ \A p \in finish.paths : index[p] = Tree[p]
  /\ index' = [p \in Path |-> IF p \in finish.paths THEN work[p] ELSE index[p]]
  /\ pc' = "commit"
  /\ UNCHANGED <<commits, head, work, task, records, fresh, calls, moves>>

(* A commit of the given contents of some files over those of HEAD.           *)
MakeCommit(by, tree) ==
  /\ tree # Tree
  /\ Len(commits) < MaxCommits
  /\ commits' = Append(commits, [parent |-> head, by |-> by, tree |-> tree,
                                 paths |-> {p \in Path : tree[p] # Tree[p]}])
  /\ head' = Len(commits) + 1

GitCommit ==
  /\ pc = "commit"
  /\ MakeCommit("task",
       [p \in Path |-> IF p \in finish.paths THEN work[p] ELSE Tree[p]])
  /\ index' = [p \in Path |-> IF p \in finish.paths THEN work[p] ELSE index[p]]
  /\ pc' = "check"
  /\ UNCHANGED <<work, task, records, fresh, calls, moves>>

Committed(c) == [finish EXCEPT !.state = "committed", !.commit = c]

(* isExactDurableTaskFinishCommit, of HEAD as "commit" reports it; then the   *)
(* committed record is written.                                               *)
RecordCommit ==
  /\ pc = "check"
  /\ commits[head].parent = finish.base.head
  /\ commits[head].paths = finish.paths
  /\ AfterCommit(finish.base, head, finish.paths)
  /\ finish' = Committed(head)
  /\ pc' = "evidence"
  /\ UNCHANGED <<repository, task, evidence, fresh, calls, moves>>

(* recoverDurableTaskFinishCommit: HEAD is a commit with the Task's message,  *)
(* on top of its Baseline, of the recorded files, and nothing else changed    *)
(* since the Baseline.                                                        *)
(* Mutant: whoever made it.                                                   *)
AnyCommitIsRecoverable(c) ==
  /\ head = c
  /\ commits[head].parent = base.head
  /\ commits[head].paths = finish.paths
  /\ AfterCommit(base, c, finish.paths)
Recoverable(c) ==
  /\ head = c
  /\ commits[head].parent = base.head
  /\ commits[head].by = "task"
  /\ commits[head].paths = finish.paths
  /\ AfterCommit(base, c, finish.paths)

RecoverCommit ==
  /\ pc = "resolve"
  /\ ~Unfinished
  /\ LET c == IF finish.commit = None THEN head ELSE finish.commit
     IN  /\ Recoverable(c)
         /\ finish' = IF finish.state = "prepared" THEN Committed(c) ELSE finish
  /\ pc' = "evidence"
  /\ UNCHANGED <<repository, task, evidence, fresh, calls, moves>>

(* writeDurableTaskCommitEvidence: what is on file already must be the same.  *)
CommitEvidence ==
  [commit |-> finish.commit, paths |-> finish.paths, event |-> finish.event,
   parent |-> commits[finish.commit].parent]
WriteEvidence ==
  /\ pc = "evidence"
  /\ evidence \in {None, CommitEvidence}
  /\ evidence' = CommitEvidence
  /\ pc' = "complete"
  /\ UNCHANGED <<repository, task, finish, fresh, calls, moves>>

(* advanceDurableTaskLocked with the Event of the record, unless the Task was *)
(* completed before.                                                          *)
Complete ==
  /\ pc = "complete"
  /\ \/ /\ lifecycle = "active"
        /\ lifecycle' = "completed" /\ completedBy' = finish.event
     \/ lifecycle = "completed" /\ UNCHANGED <<lifecycle, completedBy>>
  /\ pc' = "archive"
  /\ UNCHANGED <<repository, base, location, records, fresh, calls, moves>>

(* archiveDurableTaskLocked: the Event, then the directory.                   *)
Archive ==
  /\ pc = "archive"
  /\ lifecycle = "completed"
  /\ lifecycle' = "archived"
  /\ pc' = "move"
  /\ UNCHANGED <<repository, base, completedBy, location, records, fresh, calls, moves>>
MoveDirectory ==
  /\ pc = "move"
  /\ location' = "archive"
  /\ pc' = "idle"
  /\ UNCHANGED <<repository, lifecycle, base, completedBy, records, fresh, calls, moves>>

(* A check refuses, a write or Git fails, or the process dies.                *)
Stop ==
  /\ pc # "idle"
  /\ pc' = "idle"
  /\ UNCHANGED <<repository, task, records, fresh, calls, moves>>

Finishing ==
  \/ Prepare \/ Resume \/ StartCommit \/ GitAdd \/ GitCommit \/ RecordCommit
  \/ RecoverCommit \/ WriteEvidence \/ Complete \/ Archive \/ MoveDirectory
  \/ Stop

-------------------------------------------------------------------------------
(* Other commands on the Task, between two finish commands.                   *)

(* archiveDurableTask by itself: a Task whose archived Event is on file but   *)
(* whose directory did not move is only moved.                                *)
StartArchive ==
  /\ Begin
  /\ lifecycle \in {"completed", "archived"}
  /\ lifecycle' = "archived"
  /\ pc' = "move"
  /\ UNCHANGED <<repository, base, completedBy, location, records, fresh, moves>>

Move ==
  /\ moves < MaxMoves
  /\ moves' = moves + 1
  /\ UNCHANGED <<records, pc, fresh, calls>>

(* advanceDurableTask: block, resume, cancel, or complete without a commit.   *)
Advance(to) ==
  /\ Move
  /\ pc = "idle" /\ location = "tasks"
  /\ <<lifecycle, to>> \in {<<"active", "blocked">>, <<"blocked", "active">>,
                            <<"active", "cancelled">>, <<"active", "completed">>}
  /\ lifecycle' = to
  /\ completedBy' = IF to = "completed" THEN 0 ELSE completedBy
  /\ UNCHANGED <<repository, base, location>>

(* adoptDurableTaskBaseline of the Baseline captured now; every dirty path    *)
(* has to be named. Adoption is allowed in any lifecycle.                     *)
Adopt ==
  /\ Move
  /\ pc = "idle" /\ location = "tasks"
  /\ base' = Capture({p \in Path : DirtyNow[p] # None})
  /\ UNCHANGED <<repository, lifecycle, completedBy, location>>

(* The user, at any time: edits a file, stages one, or commits what is        *)
(* staged; between two finish commands HEAD may be reset, softly or hard.     *)
Edit(p, c) ==
  /\ Move
  /\ work' = [work EXCEPT ![p] = c]
  /\ UNCHANGED <<commits, head, index, task>>
Stage(p) ==
  /\ Move
  /\ index' = [index EXCEPT ![p] = work[p]]
  /\ UNCHANGED <<commits, head, work, task>>
CommitStaged ==
  /\ Move
  /\ MakeCommit("user", index)
  /\ UNCHANGED <<index, work, task>>
Reset(c, hard) ==
  /\ Move
  /\ pc = "idle"
  /\ head' = c
  /\ IF hard THEN index' = commits[c].tree /\ work' = commits[c].tree
     ELSE UNCHANGED <<index, work>>
  /\ UNCHANGED <<commits, task>>

Meanwhile ==
  \/ StartArchive
  \/ \E to \in {"active", "blocked", "cancelled", "completed"} : Advance(to)
  \/ Adopt
  \/ \E p \in Path, c \in Content : Edit(p, c)
  \/ \E p \in Path : Stage(p)
  \/ CommitStaged
  \/ \E c \in 1..Len(commits), hard \in BOOLEAN : Reset(c, hard)

Next == Finishing \/ Meanwhile
Spec == Init /\ [][Next]_vars
-------------------------------------------------------------------------------
(* What the Evidence says of the Task's commit is so: the Task made it, of    *)
(* these files of its Scope, on this parent; the Finish record names it too;  *)
(* and a Task that a finish command completed has this Evidence of it, from   *)
(* before its last two Events. Whatever was interrupted, and whatever the     *)
(* user committed or reset in between.                                        *)
EvidenceIsTrue ==
  /\ evidence # None =>
       /\ finish # None /\ finish.commit = evidence.commit
       /\ evidence.commit \in 1..Len(commits)
       /\ LET c == commits[evidence.commit]
          IN  /\ c.by = "task"
              /\ c.parent = evidence.parent /\ c.paths = evidence.paths
              /\ c.paths \subseteq Scope
  /\ completedBy # 0 => evidence # None /\ evidence.event = completedBy
  /\ location = "archive" => lifecycle = "archived"

(* A step of a finish command leaves the user's work alone: the checkout      *)
(* whole, and what is staged and committed of files outside the Scope.        *)
UserWorkStays ==
  [][Finishing => /\ work' = work
                  /\ \A p \in Path \ Scope :
                       index'[p] = index[p] /\ Tree'[p] = Tree[p]]_vars

(* The Task's commit is only made while the Task is active, for the Baseline  *)
(* it has: a call that was interrupted before its commit does not make it     *)
(* when it is repeated for a Task that was cancelled, blocked or given        *)
(* another Baseline meanwhile.                                                *)
OnlyActiveTasksCommit ==
  [][GitCommit => lifecycle = "active" /\ base.head = finish.base.head]_vars

(* Violated. "Core recovers a committed Task after commit Evidence            *)
(* persistence fails" (managed-project-bin.contract.test.ts:1988): a finish   *)
(* command that stopped once the commit is on record, with nothing but finish *)
(* commands since the record was first written, can be repeated.              *)
CommittedFinishIsRecoverable ==
  finish # None /\ finish.state = "committed" /\ finish.since = moves
    /\ lifecycle \in {"active", "completed"} =>
      Readable /\ Recoverable(finish.commit)
===============================================================================
