--------------------------- MODULE TaskFinishProofs ---------------------------
(* Proofs about TaskFinish, for any files, contents and bounds.               *)
EXTENDS TaskFinish, TLAPS

(* What a recorded commit is: one the Task made, of these files.              *)
TaskCommit(c, paths) ==
  c \in 1..Len(commits) /\ commits[c].by = "task" /\ commits[c].paths = paths

(* Baselines are of commits that exist, so that a commit made later is not    *)
(* the one a Baseline was taken at.                                           *)
BaselinesAreOld ==
  /\ base.head \in 1..Len(commits)
  /\ finish # None => finish.base.head \in 1..Len(commits)

FinishIsSound ==
  finish # None =>
    /\ finish.paths \subseteq Scope
    /\ finish.state = "committed" => TaskCommit(finish.commit, finish.paths)

RecordsAgree ==
  /\ evidence # None => /\ finish # None /\ finish.state = "committed"
                        /\ evidence = CommitEvidence
  /\ completedBy # 0 => evidence # None /\ finish.event = completedBy
  /\ location = "archive" => lifecycle = "archived"

(* What a finish command knows at its steps: up to its commit, that the Task  *)
(* is active on the Baseline the record was made with; after it, that HEAD is *)
(* the Task's commit or a later one; and then that each write was made.       *)
StepsAreSound ==
  /\ pc \in {"add", "commit"} \/ (pc = "resolve" /\ fresh) =>
       lifecycle = "active" /\ base.head = finish.base.head
  /\ pc \in {"add", "commit", "check"} => finish.state = "prepared"
  /\ pc = "check" =>
       /\ head > finish.base.head
       /\ commits[head].by = "task" \/ commits[head].parent > finish.base.head
  /\ pc \in {"evidence", "complete", "archive"} => finish.state = "committed"
  /\ pc \in {"complete", "archive"} => evidence # None
  /\ pc = "move" => lifecycle = "archived"

IInv == TypeOK /\ BaselinesAreOld /\ FinishIsSound /\ RecordsAgree /\ StepsAreSound

-------------------------------------------------------------------------------
(* Typing of what a Baseline is captured from.                                *)
LEMMA CaptureTyped ==
  ASSUME TypeOK, NEW adopted \in SUBSET Path
  PROVE  /\ Tree \in Trees
         /\ Capture(adopted) \in Baseline
         /\ Capture(adopted).head = head
<1>1. commits[head] \in Commit
  BY DEF TypeOK
<1>2. Tree \in Trees
  BY <1>1 DEF Tree, Commit
<1>3. DirtyNow \in [Path -> Identity \cup {None}]
  BY <1>2 DEF DirtyNow, Identity, TypeOK, Trees
<1>4. head \in Nat
  BY DEF TypeOK
<1> QED
  BY <1>2, <1>3, <1>4 DEF Capture, Baseline

(* A commit is added at the end; the earlier ones stay.                       *)
LEMMA CommitsGrow ==
  ASSUME TypeOK, NEW by \in {"task", "user"}, NEW tree \in Trees,
         MakeCommit(by, tree)
  PROVE  /\ commits' \in Seq(Commit)
         /\ Len(commits') = Len(commits) + 1
         /\ \A c \in 1..Len(commits) : commits'[c] = commits[c]
         /\ head' = Len(commits) + 1 /\ head' \in 1..Len(commits')
         /\ commits'[head'] = [parent |-> head, by |-> by, tree |-> tree,
              paths |-> {p \in Path : tree[p] # Tree[p]}]
<1> DEFINE new == [parent |-> head, by |-> by, tree |-> tree,
                   paths |-> {p \in Path : tree[p] # Tree[p]}]
<1>1. new \in Commit
  BY DEF TypeOK, Commit
<1>2. commits \in Seq(Commit) /\ commits' = Append(commits, new)
  BY DEF MakeCommit, TypeOK
<1> HIDE DEF new
<1>3. /\ commits' \in Seq(Commit)
      /\ Len(commits') = Len(commits) + 1
      /\ \A c \in 1..Len(commits) : commits'[c] = commits[c]
      /\ commits'[Len(commits) + 1] = new
  BY <1>1, <1>2
<1>4. head' = Len(commits) + 1 /\ Len(commits) \in Nat
  BY DEF MakeCommit, TypeOK
<1> QED
  BY <1>3, <1>4 DEF new

(* A record keeps what it records when only commits are added.                *)
LEMMA RecordsSurvive ==
  ASSUME IInv, commits' \in Seq(Commit), Len(commits') \in Nat,
         Len(commits') >= Len(commits),
         \A c \in 1..Len(commits) : commits'[c] = commits[c],
         UNCHANGED <<base, finish, evidence, completedBy>>,
         location' = "archive" => lifecycle' = "archived"
  PROVE  BaselinesAreOld' /\ FinishIsSound' /\ RecordsAgree'
<1>1. Len(commits) \in Nat /\ \A c \in 1..Len(commits) : c \in 1..Len(commits')
  BY DEF IInv, TypeOK
<1>2. BaselinesAreOld'
  BY <1>1 DEF IInv, BaselinesAreOld
<1>3. FinishIsSound'
  BY <1>1 DEF IInv, FinishIsSound, TaskCommit
<1>4. evidence # None => CommitEvidence' = CommitEvidence
  BY <1>1 DEF IInv, RecordsAgree, FinishIsSound, TaskCommit, CommitEvidence
<1>5. RecordsAgree'
  BY <1>4 DEF IInv, RecordsAgree
<1> QED
  BY <1>2, <1>3, <1>5

-------------------------------------------------------------------------------
LEMMA InitHolds == Init => IInv
<1> SUFFICES ASSUME Init PROVE IInv
  OBVIOUS
<1> USE TaskFinishConstants
<1> DEFINE first == [parent |-> 0, by |-> "user", paths |-> Path,
                     tree |-> [p \in Path |-> Original]]
<1>1. first \in Commit
  BY DEF Commit, Trees
<1>2. commits = <<first>>
  BY DEF Init
<1> HIDE DEF first
<1>3. commits \in Seq(Commit) /\ Len(commits) = 1 /\ head \in 1..Len(commits)
  BY <1>1, <1>2 DEF Init
<1>4. base \in Baseline /\ base.head = 1 /\ work \in Trees
  <2>1. PICK before \in Trees, written \in Trees :
       /\ base = [head |-> 1,
                  dirty |-> [p \in Path |->
                    IF before[p] = Original THEN None
                    ELSE <<Original, Original, before[p]>>],
                  adopted |-> {p \in Path : before[p] # Original}]
       /\ work = [p \in Path |-> IF p \in Scope THEN written[p] ELSE before[p]]
    BY DEF Init
  <2>2. \A p \in Path : before[p] \in Content /\ written[p] \in Content
    BY DEF Trees
  <2>3. base \in Baseline /\ base.head = 1
    BY <2>1, <2>2 DEF Baseline, Identity
  <2>4. work \in Trees
    BY <2>1, <2>2 DEF Trees
  <2> QED
    BY <2>3, <2>4
<1>5. TypeOK
  BY <1>3, <1>4 DEF Init, TypeOK, Trees, Steps
<1> QED
  BY <1>3, <1>4, <1>5 DEF Init, IInv, BaselinesAreOld, FinishIsSound,
     RecordsAgree, StepsAreSound

-------------------------------------------------------------------------------
(* One lemma per step of a finish command.                                    *)
LEMMA PrepareStep == IInv /\ Prepare => IInv'
<1> SUFFICES ASSUME IInv, Prepare PROVE IInv'
  OBVIOUS
<1> DEFINE b == Capture(base.adopted)
<1>1. base.adopted \in SUBSET Path
  BY DEF IInv, TypeOK, Baseline
<1>2. b \in Baseline /\ b.head = head
  BY <1>1, CaptureTyped DEF IInv
<1>3. PlannedPaths \subseteq Scope /\ PlannedPaths \subseteq Path
  BY TaskFinishConstants DEF PlannedPaths
<1>4. calls' = calls + 1 /\ calls' \in Nat
  BY DEF Prepare, Begin, IInv, TypeOK
<1>5. finish' = [state |-> "prepared", base |-> b, at |-> calls,
                 paths |-> PlannedPaths, commit |-> None,
                 event |-> calls', since |-> moves]
  BY DEF Prepare
<1> HIDE DEF b
<1>6. finish' \in FinishRecord /\ finish' # None
  <2>1. finish' \in FinishRecord
    BY <1>2, <1>3, <1>4, <1>5 DEF FinishRecord, IInv, TypeOK
  <2> QED
    BY <2>1, TaskFinishConstants
<1>7. TypeOK'
  BY <1>4, <1>5, <1>6 DEF Prepare, IInv, TypeOK, Steps, repository, task, Trees
<1>8. BaselinesAreOld'
  BY <1>2, <1>5 DEF Prepare, IInv, TypeOK, BaselinesAreOld, repository, task
<1>9. FinishIsSound'
  BY <1>3, <1>5 DEF FinishIsSound
<1>10. RecordsAgree'
  BY DEF Prepare, IInv, RecordsAgree, task
<1>11. StepsAreSound'
  BY <1>2, <1>5 DEF Prepare, PlanReady, StepsAreSound, task
<1> QED
  BY <1>7, <1>8, <1>9, <1>10, <1>11 DEF IInv

LEMMA ResumeStep == IInv /\ Resume => IInv'
<1> SUFFICES ASSUME IInv, Resume PROVE IInv'
  OBVIOUS
<1>0. calls' = calls + 1 /\ calls' \in Nat /\ finish # None
  BY DEF Resume, Begin, IInv, TypeOK
<1>1. TypeOK'
  BY <1>0 DEF Resume, IInv, TypeOK, Steps, repository, task, records
<1>2. BaselinesAreOld' /\ FinishIsSound' /\ RecordsAgree'
  BY DEF Resume, IInv, BaselinesAreOld, FinishIsSound, RecordsAgree,
     TaskCommit, CommitEvidence, repository, task, records
<1>3. StepsAreSound'
  BY DEF Resume, StepsAreSound
<1> QED
  BY <1>1, <1>2, <1>3 DEF IInv

LEMMA StartCommitStep == IInv /\ StartCommit => IInv'
<1> SUFFICES ASSUME IInv, StartCommit PROVE IInv'
  OBVIOUS
<1>1. TypeOK'
  BY DEF StartCommit, IInv, TypeOK, Steps, repository, task, records
<1>2. BaselinesAreOld' /\ FinishIsSound' /\ RecordsAgree'
  BY DEF StartCommit, IInv, BaselinesAreOld, FinishIsSound, RecordsAgree,
     TaskCommit, CommitEvidence, repository, task, records
<1>3. PlanIsTheRecorded => lifecycle = "active" /\ base.head = finish.base.head
  BY DEF PlanIsTheRecorded, PlanReady, Capture
<1>4. StepsAreSound'
  BY <1>3 DEF StartCommit, Unfinished, IInv, StepsAreSound, task, records
<1> QED
  BY <1>1, <1>2, <1>4 DEF IInv

LEMMA GitAddStep == IInv /\ GitAdd => IInv'
<1> SUFFICES ASSUME IInv, GitAdd PROVE IInv'
  OBVIOUS
<1>1. index' \in Trees
  BY DEF GitAdd, IInv, TypeOK, Trees
<1>2. TypeOK'
  BY <1>1 DEF GitAdd, IInv, TypeOK, Steps, task, records
<1>3. BaselinesAreOld' /\ FinishIsSound' /\ RecordsAgree'
  BY DEF GitAdd, IInv, BaselinesAreOld, FinishIsSound, RecordsAgree,
     TaskCommit, CommitEvidence, task, records
<1>4. StepsAreSound'
  BY DEF GitAdd, IInv, StepsAreSound, task, records
<1> QED
  BY <1>2, <1>3, <1>4 DEF IInv

LEMMA GitCommitStep == IInv /\ GitCommit => IInv'
<1> SUFFICES ASSUME IInv, GitCommit PROVE IInv'
  OBVIOUS
<1> DEFINE tree == [p \in Path |-> IF p \in finish.paths THEN work[p] ELSE Tree[p]]
<1>1. Tree \in Trees
  BY CaptureTyped DEF IInv
<1>2. tree \in Trees /\ index' \in Trees
  BY <1>1 DEF GitCommit, IInv, TypeOK, Trees
<1>3. MakeCommit("task", tree)
  BY DEF GitCommit
<1> HIDE DEF tree
<1>0. "task" \in {"task", "user"} /\ TypeOK
  BY DEF IInv
<1>4. /\ commits' \in Seq(Commit)
      /\ Len(commits') = Len(commits) + 1
      /\ \A c \in 1..Len(commits) : commits'[c] = commits[c]
      /\ head' = Len(commits) + 1 /\ head' \in 1..Len(commits')
      /\ commits'[head'] = [parent |-> head, by |-> "task", tree |-> tree,
           paths |-> {p \in Path : tree[p] # Tree[p]}]
  BY <1>0, <1>2, <1>3, CommitsGrow
<1>5. Len(commits) \in Nat
  BY DEF IInv, TypeOK
<1>6. TypeOK'
  BY <1>2, <1>4 DEF GitCommit, IInv, TypeOK, Steps, task, records
<1>7. BaselinesAreOld' /\ FinishIsSound' /\ RecordsAgree'
  BY <1>4, <1>5, RecordsSurvive DEF GitCommit, task, records, IInv, RecordsAgree
<1>8. finish # None
  BY DEF GitCommit, IInv, TypeOK
<1>9. StepsAreSound'
  BY <1>4, <1>5, <1>8 DEF GitCommit, IInv, StepsAreSound, BaselinesAreOld, records
<1> QED
  BY <1>6, <1>7, <1>9 DEF IInv

(* A record that names its commit is still a record.                          *)
LEMMA CommittedTyped ==
  ASSUME TypeOK, finish # None, NEW c \in Nat
  PROVE  /\ Committed(c) \in FinishRecord /\ Committed(c) # None
         /\ Committed(c).state = "committed" /\ Committed(c).commit = c
         /\ Committed(c).base = finish.base /\ Committed(c).paths = finish.paths
         /\ Committed(c).event = finish.event
<1>1. finish \in FinishRecord
  BY DEF TypeOK
<1> QED
  BY <1>1, TaskFinishConstants DEF Committed, FinishRecord

LEMMA RecordCommitStep == IInv /\ RecordCommit => IInv'
<1> SUFFICES ASSUME IInv, RecordCommit PROVE IInv'
  OBVIOUS
<1>1. finish # None /\ head \in Nat /\ finish' = Committed(head)
  BY DEF RecordCommit, IInv, TypeOK
<1>2. /\ finish' \in FinishRecord /\ finish' # None
      /\ finish'.state = "committed" /\ finish'.commit = head
      /\ finish'.base = finish.base /\ finish'.paths = finish.paths
      /\ finish'.event = finish.event
  BY <1>1, CommittedTyped DEF IInv
<1>3. finish.base.head \in Nat
  BY <1>1 DEF IInv, TypeOK, BaselinesAreOld
<1>4. TaskCommit(head, finish.paths)
  BY <1>3 DEF RecordCommit, IInv, StepsAreSound, TypeOK, TaskCommit
<1>5. TypeOK'
  BY <1>1, <1>2, TaskFinishConstants
     DEF RecordCommit, IInv, TypeOK, Steps, repository, task
<1>6. BaselinesAreOld' /\ FinishIsSound'
  BY <1>1, <1>2, <1>4 DEF RecordCommit, IInv, BaselinesAreOld, FinishIsSound,
     TaskCommit, repository, task
<1>7. evidence = None
  BY DEF RecordCommit, IInv, RecordsAgree, StepsAreSound
<1>8. RecordsAgree'
  BY <1>2, <1>7 DEF RecordCommit, IInv, RecordsAgree, task
<1>9. StepsAreSound'
  BY <1>2 DEF RecordCommit, StepsAreSound
<1> QED
  BY <1>5, <1>6, <1>8, <1>9 DEF IInv

LEMMA RecoverCommitStep == IInv /\ RecoverCommit => IInv'
<1> SUFFICES ASSUME IInv, RecoverCommit PROVE IInv'
  OBVIOUS
<1> DEFINE c == IF finish.commit = None THEN head ELSE finish.commit
<1>1. finish # None /\ head \in 1..Len(commits)
  BY DEF RecoverCommit, IInv, TypeOK
<1>2. c = head /\ TaskCommit(head, finish.paths)
  BY <1>1 DEF RecoverCommit, Recoverable, TaskCommit
<1>3. finish' = IF finish.state = "prepared" THEN Committed(c) ELSE finish
  BY DEF RecoverCommit
<1> HIDE DEF c
<1>4. /\ finish' \in FinishRecord /\ finish' # None
      /\ finish'.state = "committed"
      /\ finish'.base = finish.base /\ finish'.paths = finish.paths
      /\ finish'.event = finish.event
  <2>1. CASE finish.state = "prepared"
    BY <1>1, <1>2, <1>3, <2>1, CommittedTyped DEF IInv, TypeOK
  <2>2. CASE finish.state # "prepared"
    BY <1>1, <1>3, <2>2 DEF IInv, TypeOK, FinishRecord
  <2> QED
    BY <2>1, <2>2
<1>5. TaskCommit(finish'.commit, finish'.paths) /\ finish'.commit # None
  <2>1. CASE finish.state = "prepared"
    BY <1>1, <1>2, <1>3, <2>1, CommittedTyped, TaskFinishConstants DEF IInv, TypeOK
  <2>2. CASE finish.state # "prepared"
    BY <1>1, <1>3, <1>4, <2>2 DEF IInv, TypeOK, FinishIsSound
  <2> QED
    BY <2>1, <2>2
<1>6. TypeOK'
  BY <1>4, <1>5 DEF RecoverCommit, IInv, TypeOK, Steps, repository, task
<1>7. BaselinesAreOld' /\ FinishIsSound'
  BY <1>1, <1>4, <1>5 DEF RecoverCommit, IInv, BaselinesAreOld, FinishIsSound,
     TaskCommit, repository, task
<1>8. evidence # None => finish' = finish
  BY <1>1, <1>3 DEF IInv, RecordsAgree
<1>9. RecordsAgree'
  BY <1>4, <1>8 DEF RecoverCommit, IInv, RecordsAgree, CommitEvidence, task, repository
<1>10. StepsAreSound'
  BY <1>4 DEF RecoverCommit, StepsAreSound
<1> QED
  BY <1>6, <1>7, <1>9, <1>10 DEF IInv

LEMMA WriteEvidenceStep == IInv /\ WriteEvidence => IInv'
<1> SUFFICES ASSUME IInv, WriteEvidence PROVE IInv'
  OBVIOUS
<1>1. finish # None /\ finish.state = "committed"
  BY DEF WriteEvidence, IInv, TypeOK, StepsAreSound
<1>2. finish \in FinishRecord /\ finish.commit \in 1..Len(commits)
  BY <1>1 DEF IInv, TypeOK, FinishIsSound, TaskCommit
<1>3. commits[finish.commit] \in Commit
  BY <1>2 DEF IInv, TypeOK
<1>4. finish.commit \in Nat /\ CommitEvidence \in EvidenceRecord
  BY <1>2, <1>3 DEF CommitEvidence, EvidenceRecord, FinishRecord, Commit
<1>5. evidence' = CommitEvidence /\ evidence' # None /\ CommitEvidence' = CommitEvidence
  BY <1>4, TaskFinishConstants DEF WriteEvidence, CommitEvidence, repository
<1>6. TypeOK'
  BY <1>4, <1>5 DEF WriteEvidence, IInv, TypeOK, Steps, repository, task
<1>7. BaselinesAreOld' /\ FinishIsSound'
  BY DEF WriteEvidence, IInv, BaselinesAreOld, FinishIsSound, TaskCommit,
     repository, task
<1>8. RecordsAgree'
  BY <1>1, <1>5 DEF WriteEvidence, IInv, RecordsAgree, task
<1>9. StepsAreSound'
  BY <1>1, <1>5 DEF WriteEvidence, StepsAreSound
<1> QED
  BY <1>6, <1>7, <1>8, <1>9 DEF IInv

LEMMA CompleteStep == IInv /\ Complete => IInv'
<1> SUFFICES ASSUME IInv, Complete PROVE IInv'
  OBVIOUS
<1>1. finish # None /\ finish \in FinishRecord /\ evidence # None
  BY DEF Complete, IInv, TypeOK, StepsAreSound
<1>2. completedBy' \in Nat /\ lifecycle' = "completed"
  BY <1>1 DEF Complete, IInv, TypeOK, FinishRecord
<1>3. TypeOK'
  BY <1>2 DEF Complete, IInv, TypeOK, Steps, repository, records
<1>4. BaselinesAreOld' /\ FinishIsSound'
  BY DEF Complete, IInv, BaselinesAreOld, FinishIsSound, TaskCommit,
     repository, records
<1>5. completedBy' # 0 => finish.event = completedBy'
  BY DEF Complete, IInv, RecordsAgree
<1>6. CommitEvidence' = CommitEvidence
  BY DEF Complete, CommitEvidence, repository, records
<1>7. location # "archive"
  BY DEF Complete, IInv, RecordsAgree
<1>8. RecordsAgree'
  BY <1>1, <1>5, <1>6, <1>7 DEF Complete, IInv, RecordsAgree, records
<1>9. StepsAreSound'
  BY <1>1 DEF Complete, IInv, StepsAreSound, records
<1> QED
  BY <1>3, <1>4, <1>8, <1>9 DEF IInv

(* A step that changes neither the commits nor a record.                      *)
LEMMA Untouched ==
  ASSUME IInv, UNCHANGED <<commits, base, records, completedBy>>,
         location' = "archive" => lifecycle' = "archived"
  PROVE  BaselinesAreOld' /\ FinishIsSound' /\ RecordsAgree'
<1>1. /\ commits' \in Seq(Commit) /\ Len(commits') \in Nat
      /\ Len(commits') >= Len(commits)
      /\ \A c \in 1..Len(commits) : commits'[c] = commits[c]
  BY DEF IInv, TypeOK
<1>2. UNCHANGED <<base, finish, evidence, completedBy>>
  BY DEF records
<1> QED
  BY <1>1, <1>2, RecordsSurvive

LEMMA ArchiveStep == IInv /\ Archive => IInv'
<1> SUFFICES ASSUME IInv, Archive PROVE IInv'
  OBVIOUS
<1>1. TypeOK'
  BY DEF Archive, IInv, TypeOK, Steps, repository, records
<1>2. BaselinesAreOld' /\ FinishIsSound' /\ RecordsAgree'
  BY Untouched DEF Archive, repository
<1>3. StepsAreSound'
  BY DEF Archive, StepsAreSound
<1> QED
  BY <1>1, <1>2, <1>3 DEF IInv

LEMMA MoveDirectoryStep == IInv /\ MoveDirectory => IInv'
<1> SUFFICES ASSUME IInv, MoveDirectory PROVE IInv'
  OBVIOUS
<1>1. TypeOK'
  BY DEF MoveDirectory, IInv, TypeOK, Steps, repository, records
<1>2. lifecycle' = "archived"
  BY DEF MoveDirectory, IInv, StepsAreSound
<1>3. BaselinesAreOld' /\ FinishIsSound' /\ RecordsAgree'
  BY <1>2, Untouched DEF MoveDirectory, repository
<1>4. StepsAreSound'
  BY DEF MoveDirectory, StepsAreSound
<1> QED
  BY <1>1, <1>3, <1>4 DEF IInv

LEMMA StopStep == IInv /\ Stop => IInv'
<1> SUFFICES ASSUME IInv, Stop PROVE IInv'
  OBVIOUS
<1>1. TypeOK'
  BY DEF Stop, IInv, TypeOK, Steps, repository, task, records
<1>2. location' = "archive" => lifecycle' = "archived"
  BY DEF Stop, IInv, RecordsAgree, task
<1>3. BaselinesAreOld' /\ FinishIsSound' /\ RecordsAgree'
  BY <1>2, Untouched DEF Stop, repository, task
<1>4. StepsAreSound'
  BY DEF Stop, StepsAreSound
<1> QED
  BY <1>1, <1>3, <1>4 DEF IInv

-------------------------------------------------------------------------------
(* And one per step of the others.                                            *)
LEMMA StartArchiveStep == IInv /\ StartArchive => IInv'
<1> SUFFICES ASSUME IInv, StartArchive PROVE IInv'
  OBVIOUS
<1>1. calls' \in Nat
  BY DEF StartArchive, Begin, IInv, TypeOK
<1>2. TypeOK'
  BY <1>1 DEF StartArchive, IInv, TypeOK, Steps, repository, records
<1>3. BaselinesAreOld' /\ FinishIsSound' /\ RecordsAgree'
  BY Untouched DEF StartArchive, repository
<1>4. StepsAreSound'
  BY DEF StartArchive, StepsAreSound
<1> QED
  BY <1>2, <1>3, <1>4 DEF IInv

(* What Move leaves alone, and the bound it counts.                           *)
LEMMA MoveCounts ==
  ASSUME IInv, Move
  PROVE  moves' \in Nat /\ UNCHANGED <<finish, evidence, pc, fresh, calls>>
  BY DEF Move, IInv, TypeOK, records

LEMMA AdvanceStep == \A to : IInv /\ Advance(to) => IInv'
<1> SUFFICES ASSUME NEW to, IInv, Advance(to) PROVE IInv'
  OBVIOUS
<1>1. moves' \in Nat /\ UNCHANGED <<finish, evidence, pc, fresh, calls>>
  BY MoveCounts DEF Advance
<1>2. TypeOK'
  BY <1>1 DEF Advance, IInv, TypeOK, Steps, repository
<1>3. BaselinesAreOld' /\ FinishIsSound'
  BY <1>1 DEF Advance, IInv, BaselinesAreOld, FinishIsSound, TaskCommit, repository
<1>4. RecordsAgree'
  BY <1>1 DEF Advance, IInv, RecordsAgree, CommitEvidence, repository
<1>5. StepsAreSound'
  BY <1>1 DEF Advance, StepsAreSound
<1> QED
  BY <1>2, <1>3, <1>4, <1>5 DEF IInv

LEMMA AdoptStep == IInv /\ Adopt => IInv'
<1> SUFFICES ASSUME IInv, Adopt PROVE IInv'
  OBVIOUS
<1>1. moves' \in Nat /\ UNCHANGED <<finish, evidence, pc, fresh, calls>>
  BY MoveCounts DEF Adopt
<1>2. base' \in Baseline /\ base'.head = head
  <2>1. {p \in Path : DirtyNow[p] # None} \in SUBSET Path
    OBVIOUS
  <2> QED
    BY <2>1, CaptureTyped DEF Adopt, IInv
<1>3. TypeOK'
  BY <1>1, <1>2 DEF Adopt, IInv, TypeOK, Steps, repository
<1>4. BaselinesAreOld' /\ FinishIsSound'
  BY <1>1, <1>2 DEF Adopt, IInv, TypeOK, BaselinesAreOld, FinishIsSound,
     TaskCommit, repository
<1>5. RecordsAgree'
  BY <1>1 DEF Adopt, IInv, RecordsAgree, CommitEvidence, repository
<1>6. StepsAreSound'
  BY <1>1 DEF Adopt, StepsAreSound
<1> QED
  BY <1>3, <1>4, <1>5, <1>6 DEF IInv

(* The user's changes of the checkout and the index.                          *)
LEMMA UserStep ==
  ASSUME IInv, Move, UNCHANGED <<commits, task>>, head' \in 1..Len(commits),
         index' \in Trees, work' \in Trees, pc = "idle" \/ UNCHANGED head
  PROVE  IInv'
<1>1. moves' \in Nat /\ UNCHANGED <<finish, evidence, pc, fresh, calls>>
  BY MoveCounts
<1>2. TypeOK'
  BY <1>1 DEF IInv, TypeOK, Steps, task
<1>3. location' = "archive" => lifecycle' = "archived"
  BY DEF IInv, RecordsAgree, task
<1>4. BaselinesAreOld' /\ FinishIsSound' /\ RecordsAgree'
  BY <1>1, <1>3, Untouched DEF task, records
<1>5. StepsAreSound'
  BY <1>1 DEF IInv, StepsAreSound, task
<1> QED
  BY <1>2, <1>4, <1>5 DEF IInv

LEMMA EditStep == \A p \in Path, c \in Content : IInv /\ Edit(p, c) => IInv'
<1> SUFFICES ASSUME NEW p \in Path, NEW c \in Content, IInv, Edit(p, c) PROVE IInv'
  OBVIOUS
<1>1. work' \in Trees /\ index' \in Trees /\ head' \in 1..Len(commits)
  BY DEF Edit, IInv, TypeOK, Trees
<1> QED
  BY <1>1, UserStep DEF Edit

LEMMA StageStep == \A p \in Path : IInv /\ Stage(p) => IInv'
<1> SUFFICES ASSUME NEW p \in Path, IInv, Stage(p) PROVE IInv'
  OBVIOUS
<1>1. work' \in Trees /\ index' \in Trees /\ head' \in 1..Len(commits)
  BY DEF Stage, IInv, TypeOK, Trees
<1> QED
  BY <1>1, UserStep DEF Stage

LEMMA ResetStep ==
  \A c \in 1..Len(commits), hard \in BOOLEAN : IInv /\ Reset(c, hard) => IInv'
<1> SUFFICES ASSUME NEW c \in 1..Len(commits), NEW hard \in BOOLEAN, IInv,
                    Reset(c, hard)
             PROVE IInv'
  OBVIOUS
<1>1. commits[c] \in Commit
  BY DEF IInv, TypeOK
<1>2. commits[c].tree \in Trees
  BY <1>1 DEF Commit
<1>3. work' \in Trees /\ index' \in Trees /\ head' \in 1..Len(commits)
  BY <1>2 DEF Reset, IInv, TypeOK
<1> QED
  BY <1>3, UserStep DEF Reset

LEMMA CommitStagedStep == IInv /\ CommitStaged => IInv'
<1> SUFFICES ASSUME IInv, CommitStaged PROVE IInv'
  OBVIOUS
<1>0. /\ "user" \in {"task", "user"} /\ TypeOK /\ index \in Trees
      /\ MakeCommit("user", index) /\ Move
  BY DEF IInv, TypeOK, CommitStaged
<1>1. moves' \in Nat /\ UNCHANGED <<finish, evidence, pc, fresh, calls>>
  BY <1>0, MoveCounts
<1>2. /\ commits' \in Seq(Commit)
      /\ Len(commits') = Len(commits) + 1
      /\ \A c \in 1..Len(commits) : commits'[c] = commits[c]
      /\ head' = Len(commits) + 1 /\ head' \in 1..Len(commits')
      /\ commits'[head'] = [parent |-> head, by |-> "user", tree |-> index,
           paths |-> {p \in Path : index[p] # Tree[p]}]
  BY <1>0, CommitsGrow
<1>3. Len(commits) \in Nat /\ head \in 1..Len(commits)
  BY DEF IInv, TypeOK
<1>4. TypeOK'
  BY <1>1, <1>2 DEF CommitStaged, IInv, TypeOK, Steps, task
<1>5. location' = "archive" => lifecycle' = "archived"
  BY DEF CommitStaged, IInv, RecordsAgree, task
<1>6. BaselinesAreOld' /\ FinishIsSound' /\ RecordsAgree'
  BY <1>1, <1>2, <1>3, <1>5, RecordsSurvive DEF CommitStaged, task
<1>7. pc' = "check" => /\ head' > finish'.base.head
                      /\ commits'[head'].parent > finish'.base.head
  <2>1. SUFFICES ASSUME pc = "check"
                 PROVE  head' > finish.base.head /\ head > finish.base.head
    BY <1>1, <1>2
  <2>2. head > finish.base.head
    BY <2>1 DEF IInv, StepsAreSound
  <2>3. finish.base.head \in 1..Len(commits)
    BY <2>1 DEF IInv, TypeOK, BaselinesAreOld
  <2> QED
    BY <1>2, <1>3, <2>2, <2>3
<1>8. StepsAreSound'
  BY <1>1, <1>7 DEF CommitStaged, IInv, StepsAreSound, task
<1> QED
  BY <1>4, <1>6, <1>8 DEF IInv

-------------------------------------------------------------------------------
(* Every state of a behaviour satisfies the inductive invariant.              *)
THEOREM Inductive == Spec => []IInv
<1>1. IInv /\ [Next]_vars => IInv'
  <2> SUFFICES ASSUME IInv, [Next]_vars PROVE IInv'
    OBVIOUS
  <2>1. CASE Finishing
    BY <2>1, PrepareStep, ResumeStep, StartCommitStep, GitAddStep, GitCommitStep,
       RecordCommitStep, RecoverCommitStep, WriteEvidenceStep, CompleteStep,
       ArchiveStep, MoveDirectoryStep, StopStep DEF Finishing
  <2>2. CASE Meanwhile
    BY <2>2, StartArchiveStep, AdvanceStep, AdoptStep, EditStep, StageStep,
       CommitStagedStep, ResetStep DEF Meanwhile
  <2>3. CASE UNCHANGED vars
    <3>1. TypeOK'
      BY <2>3 DEF IInv, TypeOK, vars, repository, task, records, Steps
    <3>2. BaselinesAreOld' /\ FinishIsSound' /\ RecordsAgree'
      BY <2>3 DEF IInv, BaselinesAreOld, FinishIsSound, RecordsAgree,
         TaskCommit, CommitEvidence, vars, repository, task, records
    <3>3. StepsAreSound'
      BY <2>3 DEF IInv, StepsAreSound, vars, repository, task, records
    <3> QED
      BY <3>1, <3>2, <3>3 DEF IInv
  <2> QED
    BY <2>1, <2>2, <2>3 DEF Next
<1> QED
  BY <1>1, InitHolds, PTL DEF Spec

(* The records, the repository and the steps of a finish command keep their   *)
(* types: a committed record names its commit.                                *)
THEOREM TypeCorrect == Spec => []TypeOK
<1>1. IInv => TypeOK
  BY DEF IInv
<1> QED
  BY <1>1, Inductive, PTL

(* What evidence/commit.json says stays true, and a Task completed by a       *)
(* finish command has it.                                                     *)
THEOREM EvidenceStaysTrue == Spec => []EvidenceIsTrue
<1>1. IInv => EvidenceIsTrue
  <2> SUFFICES ASSUME IInv PROVE EvidenceIsTrue
    OBVIOUS
  <2>1. ASSUME evidence # None
        PROVE  /\ finish # None /\ finish.commit = evidence.commit
               /\ TaskCommit(finish.commit, finish.paths)
               /\ finish.paths \subseteq Scope
               /\ evidence = CommitEvidence
    BY <2>1 DEF IInv, RecordsAgree, FinishIsSound, CommitEvidence
  <2>2. completedBy # 0 => evidence # None /\ evidence.event = completedBy
    BY <2>1 DEF IInv, RecordsAgree, CommitEvidence
  <2> QED
    BY <2>1, <2>2 DEF EvidenceIsTrue, IInv, RecordsAgree, TaskCommit, CommitEvidence
<1> QED
  BY <1>1, Inductive, PTL

(* A finish command never touches the checkout, nor the user's staged and     *)
(* committed files.                                                           *)
THEOREM FinishSparesTheUser == Spec => UserWorkStays
<1>1. IInv /\ [Next]_vars =>
        [Finishing => /\ work' = work
                      /\ \A p \in Path \ Scope :
                           index'[p] = index[p] /\ Tree'[p] = Tree[p]]_vars
  <2> SUFFICES ASSUME IInv, Finishing
               PROVE  /\ work' = work
                      /\ \A p \in Path \ Scope :
                           index'[p] = index[p] /\ Tree'[p] = Tree[p]
    OBVIOUS
  <2>1. pc # "idle" /\ pc # "move" => finish # None /\ finish.paths \subseteq Scope
    BY DEF IInv, TypeOK, FinishIsSound
  <2>2. CASE GitAdd
    <3>1. work' = work /\ \A p \in Path \ Scope : index'[p] = index[p]
      BY <2>1, <2>2 DEF GitAdd
    <3>2. Tree' = Tree
      BY <2>2 DEF GitAdd, Tree
    <3> QED
      BY <3>1, <3>2
  <2>3. CASE GitCommit
    <3> DEFINE tree == [p \in Path |-> IF p \in finish.paths THEN work[p] ELSE Tree[p]]
    <3>1. work' = work /\ \A p \in Path \ Scope : index'[p] = index[p]
      BY <2>1, <2>3 DEF GitCommit
    <3>2. tree \in Trees /\ MakeCommit("task", tree)
      BY <2>3, CaptureTyped DEF GitCommit, IInv, TypeOK, Trees
    <3>3. \A p \in Path \ Scope : tree[p] = Tree[p]
      BY <2>1, <2>3 DEF GitCommit
    <3> HIDE DEF tree
    <3>4. "task" \in {"task", "user"} /\ TypeOK
      BY DEF IInv
    <3>5. commits'[head'] = [parent |-> head, by |-> "task", tree |-> tree,
             paths |-> {p \in Path : tree[p] # Tree[p]}]
      BY <3>2, <3>4, CommitsGrow
    <3>6. Tree' = tree
      BY <3>5 DEF Tree
    <3> QED
      BY <3>1, <3>3, <3>6
  <2>4. CASE ~GitAdd /\ ~GitCommit
    <3>1. UNCHANGED repository
      BY <2>4 DEF Finishing, Prepare, Resume, StartCommit, RecordCommit,
         RecoverCommit, WriteEvidence, Complete, Archive, MoveDirectory, Stop
    <3> QED
      BY <3>1 DEF repository, Tree
  <2> QED
    BY <2>2, <2>3, <2>4
<1> QED
  BY <1>1, Inductive, PTL DEF Spec, UserWorkStays

(* The commit is only made for an active Task on the Baseline of its record.  *)
THEOREM CommitsAreTheTasks == Spec => OnlyActiveTasksCommit
<1>1. IInv /\ [Next]_vars =>
        [GitCommit => lifecycle = "active" /\ base.head = finish.base.head]_vars
  BY DEF IInv, StepsAreSound, GitCommit
<1> QED
  BY <1>1, Inductive, PTL DEF Spec, OnlyActiveTasksCommit
===============================================================================
