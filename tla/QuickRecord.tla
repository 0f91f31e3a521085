----------------------------- MODULE QuickRecord -----------------------------
(* The Quick route of the sayhi command line, for one Task id: the files a    *)
(* Quick leaves and the invocations that make, move and read them. A Quick    *)
(* that writes lives in .sayhi/.runtime/quicks until it is completed, then in *)
(* the Project Store, then in its archive (completeChangedQuick and           *)
(* archiveQuick of run-cli.ts over the Task calls of task-lifecycle.ts); one  *)
(* that writes nothing leaves an audit outside the repository                 *)
(* (completeNoChangeQuick, archiveNoChangeQuick and NodeQuickAuditStore).     *)
(* Calls on the Task exclude each other by its lock; the audit has no lock.   *)
EXTENDS Naturals, Sequences

CONSTANTS
  Run,      \* invocations of the command line, each made once
  Request,  \* the requests that complete a Quick: its Start Event names it
  Change,   \* the requests among them that have writes
  Written,  \* what a request writes: [Change -> Content]
  Path,     \* files of the repository outside .sayhi
  Scope,    \* the file of the Quick's scope that its requests write
  Content, Original, \* contents of a file; the one in the first commit
  MaxMoves, \* bound: what the user does meanwhile
  Nobody, None

VARIABLES
  runtime, active, archive, \* the Quick's directory in its three places
  lock,                     \* who holds the Task lock
  auditActive, auditArchive,\* the audit's file in its two places
  work, committed,          \* the checkout, and HEAD
  pc, request,              \* of each invocation
  seen, found,              \* the record, and the audit, it goes by
  after,                    \* the Baseline it captured
  told,                     \* the audit it reported
  created,                  \* how often a Quick of this id was created
  moves                     \* what the user did so far

store == <<runtime, active, archive, lock>>
audits == <<auditActive, auditArchive>>
checkout == <<work, committed>>
counts == <<created, moves>>
vars == <<store, audits, checkout, pc, request, seen, found, after, told, counts>>

Trees == [Path -> Content]
Baseline == [committed : Trees, work : Trees]
Phases == <<"triage", "implement", "review", "finish", "completed", "archived">>
Event == [by : Request \cup Run, what : {Phases[i] : i \in 1..6} \cup {"adopted"},
          base : Baseline \cup {None}]
Result == [workflow : Seq(Event), before : Baseline, after : Baseline]
Record == [history : Seq(Event), baseline : Baseline \cup {None},
           result : Result \cup {None}]
Audit == [of : Run, archivedBy : Run \cup {Nobody}]

ASSUME QuickConstants ==
  /\ Change \subseteq Request /\ Written \in [Change -> Content]
  /\ Scope \in Path /\ Original \in Content /\ MaxMoves \in Nat
  /\ Run \cap Request = {} /\ Nobody \notin Run
  /\ None \notin Record \cup Audit \cup Baseline \cup Result

Steps == {"idle", "create", "read", "implement", "adopt", "baseline", "write",
          "capture", "review", "finish", "complete", "result", "promote",
          "look", "event", "move", "before", "compare", "lookActive",
          "lookArchive", "link", "auditArchive", "auditActive", "requireActive",
          "requireArchive", "replace", "auditMove", "report", "done"}

TypeOK ==
  /\ {runtime, active, archive} \subseteq Record \cup {None}
  /\ lock \in Run \cup {Nobody}
  /\ {auditActive, auditArchive} \subseteq Audit \cup {None}
  /\ work \in Trees /\ committed \in Trees
  /\ pc \in [Run -> Steps]
  /\ request \in [Run -> Request]
  /\ seen \in [Run -> Record \cup {None}]
  /\ found \in [Run -> Audit \cup {None}]
  /\ after \in [Run -> Baseline \cup {None}]
  /\ told \in [Run -> Audit \cup {None}]
  /\ created \in Nat /\ moves \in Nat
  /\ \A r \in Run : lock = r => pc[r] \in {"baseline", "capture", "result", "move"}

-------------------------------------------------------------------------------
(* Histories.                                                                 *)

Has(history, what) == \E i \in 1..Len(history) : history[i].what = what
HasOf(history, by, what) ==
  \E i \in 1..Len(history) : history[i].by = by /\ history[i].what = what

(* Route "quick": triage, implement, review, finish, completed, archived.     *)
Following == [triage |-> "implement", implement |-> "review",
              review |-> "finish", finish |-> "completed",
              completed |-> "archived"]
At(history, phase) == Has(history, phase) /\ ~Has(history, Following[phase])

Adoptions(history) == {i \in 1..Len(history) : history[i].what = "adopted"}
Adopted(history) ==
  history[CHOOSE i \in Adoptions(history) : \A j \in Adoptions(history) : j <= i].base

IsPrefixOf(s, t) == Len(s) <= Len(t) /\ \A i \in 1..Len(s) : s[i] = t[i]

(* loadDurableQuickResult, replayQuickResultWorkflow.                         *)
ReadableResult(record) ==
  /\ record # None /\ record.result # None
  /\ At(record.result.workflow, "completed")
  /\ IsPrefixOf(record.result.workflow, record.history)

(* Baselines.                                                                 *)
Capture == [committed |-> committed, work |-> work]
Identity(b, p) == IF b.work[p] = b.committed[p] THEN None
                  ELSE <<b.committed[p], b.work[p]>>
Clean(b) == b.work = b.committed
Changed(b, c) == {p \in Path : Identity(b, p) # Identity(c, p)}

-------------------------------------------------------------------------------
Init ==
  /\ runtime = None /\ active = None /\ archive = None /\ lock = Nobody
  /\ auditActive = None /\ auditArchive = None
  /\ committed = [p \in Path |-> Original]
  /\ work = committed
  /\ pc = [r \in Run |-> "idle"]
  /\ request \in [Run -> Request]
  /\ seen = [r \in Run |-> None]
  /\ after = [r \in Run |-> None]
  /\ told = [r \in Run |-> None]
  /\ found = [r \in Run |-> None]
  /\ created = 0 /\ moves = 0

Goto(r, step) == pc' = [pc EXCEPT ![r] = step]
See(r, what) == seen' = [seen EXCEPT ![r] = what]
Remember(r, b) == after' = [after EXCEPT ![r] = b]

(* A call that takes the Task lock for one step.                              *)
AtOnce(r) == lock = Nobody /\ lock' = Nobody

(* An invocation ends: its answer is given, a check refuses, a write fails or *)
(* the process dies; the lock of a dead one is removed by hand.               *)
Stop(r) ==
  /\ pc[r] \notin {"idle", "done"}
  /\ Goto(r, "done")
  /\ lock' = IF lock = r THEN Nobody ELSE lock
  /\ UNCHANGED <<runtime, active, archive, audits, checkout, request, seen, found, after, told, counts>>

(* quick complete, quick archive.                                             *)
Begin(r, step) ==
  /\ pc[r] = "idle"
  /\ \/ step = "create" /\ request[r] \in Change
     \/ step = "before" /\ request[r] \notin Change
     \/ step = "look"
  /\ Goto(r, step)
  /\ UNCHANGED <<store, audits, checkout, request, seen, found, after, told, counts>>

-------------------------------------------------------------------------------
(* completeChangedQuick.                                                      *)

NewRecord(q) == [history |-> <<[by |-> q, what |-> "triage", base |-> None]>>,
                 baseline |-> None, result |-> None]
Create(r) ==
  /\ pc[r] = "create" /\ AtOnce(r)
  /\ IF runtime = None
     THEN /\ runtime' = NewRecord(request[r]) /\ See(r, runtime')
          /\ created' = created + 1
          /\ Goto(r, "implement")
     ELSE UNCHANGED <<runtime, seen, created>> /\ Goto(r, "read")
  /\ UNCHANGED <<active, archive, audits, checkout, request, found, after, told, moves>>

(* A Quick that exists is resumed when the request is the one it was created  *)
(* with and its Writer may not have run.                                      *)
Resumable(record, q) ==
  /\ record # None
  /\ record.history[1].by = q
  /\ At(record.history, "triage") \/ At(record.history, "implement")
Read(r) ==
  /\ pc[r] = "read"
  /\ Resumable(runtime, request[r])
  /\ See(r, runtime)
  /\ Goto(r, "implement")
  /\ UNCHANGED <<store, audits, checkout, request, found, after, told, counts>>

(* advanceDurableTask: a transition of this request that was accepted before  *)
(* is answered with the Task as it is now.                                    *)
Transition(r, history, from) ==
  IF HasOf(history, request[r], Following[from]) THEN history
  ELSE Append(history, [by |-> request[r], what |-> Following[from], base |-> None])
Accepts(r, from) ==
  /\ runtime # None
  /\ \/ HasOf(runtime.history, request[r], Following[from])
     \/ Len(seen[r].history) = Len(runtime.history) /\ At(runtime.history, from)
Advance(r, from, next) ==
  /\ AtOnce(r)
  /\ Accepts(r, from)
  /\ runtime' = [runtime EXCEPT !.history = Transition(r, runtime.history, from)]
  /\ See(r, runtime')
  /\ Goto(r, next)
  /\ UNCHANGED <<active, archive, audits, checkout, request, found, after, told, counts>>

Enter(r) ==
  /\ pc[r] = "implement"
  /\ \/ Advance(r, "triage", "adopt")
     \/ /\ At(seen[r].history, "implement")
        /\ Goto(r, "adopt")
        /\ UNCHANGED <<store, audits, checkout, request, seen, found, after, told, counts>>
Review(r) == pc[r] = "review" /\ Advance(r, "implement", "finish")
Finish(r) == pc[r] = "finish" /\ Advance(r, "review", "complete")

(* adoptDurableTaskBaseline of a checkout without changes: the Event, then    *)
(* the file; a Baseline adopted before is only answered.                      *)
Adopt(r) ==
  /\ pc[r] = "adopt"
  /\ \/ /\ Adoptions(seen[r].history) # {}
        /\ Goto(r, "write")
        /\ UNCHANGED <<store, seen>>
     \/ /\ Adoptions(seen[r].history) = {}
        /\ lock = Nobody /\ runtime # None /\ Clean(Capture)
        /\ IF Adoptions(runtime.history) # {} /\ Adopted(runtime.history) = Capture
           THEN See(r, runtime) /\ Goto(r, "write") /\ UNCHANGED store
           ELSE /\ Len(seen[r].history) = Len(runtime.history)
                /\ runtime' = [runtime EXCEPT !.history = Append(@,
                     [by |-> r, what |-> "adopted", base |-> Capture])]
                /\ lock' = r /\ See(r, runtime') /\ Goto(r, "baseline")
                /\ UNCHANGED <<active, archive>>
  /\ UNCHANGED <<audits, checkout, request, found, after, told, counts>>
WriteBaseline(r) ==
  /\ pc[r] = "baseline"
  /\ runtime' = [runtime EXCEPT !.baseline = Adopted(runtime.history)]
  /\ lock' = Nobody /\ See(r, runtime') /\ Goto(r, "write")
  /\ UNCHANGED <<active, archive, audits, checkout, request, found, after, told, counts>>

(* withDurableTaskWriter: the checkout must be as it was adopted; then the    *)
(* writes, and the final Baseline.                                            *)
Write(r) ==
  /\ pc[r] = "write"
  /\ lock = Nobody /\ lock' = r
  /\ runtime # None /\ Len(runtime.history) = Len(seen[r].history)
  /\ Adoptions(runtime.history) # {}
  /\ runtime.baseline = Adopted(runtime.history)
  /\ Capture = runtime.baseline
  /\ work' = [work EXCEPT ![Scope] = Written[request[r]]]
  /\ Goto(r, "capture")
  /\ UNCHANGED <<runtime, active, archive, audits, committed, request, seen, found, after, told, counts>>
CaptureAfter(r) ==
  /\ pc[r] = "capture"
  /\ Remember(r, Capture)
  /\ lock' = Nobody /\ Goto(r, "review")
  /\ UNCHANGED <<runtime, active, archive, audits, checkout, request, seen, found, told, counts>>

(* completeDurableQuickResult: the files of the scope changed since the       *)
(* adopted Baseline and nothing changed since the Writer; the Event, then     *)
(* quick.json, then the lock is given back.                                   *)
(* Mutant: it may have changed outside the scope too.                         *)
ResultHoldsAnyPath(r) ==
  /\ runtime # None /\ runtime.baseline # None /\ Clean(runtime.baseline)
  /\ Changed(runtime.baseline, after[r]) # {}
  /\ Capture = after[r]
ResultHolds(r) ==
  /\ runtime # None /\ runtime.baseline # None /\ Clean(runtime.baseline)
  /\ Changed(runtime.baseline, after[r]) = {Scope}
  /\ Capture = after[r]
Complete(r) ==
  /\ pc[r] = "complete"
  /\ lock = Nobody /\ lock' = r
  /\ ResultHolds(r) /\ Accepts(r, "finish")
  /\ runtime' = [runtime EXCEPT !.history = Transition(r, runtime.history, "finish")]
  /\ Goto(r, "result")
  /\ UNCHANGED <<active, archive, audits, checkout, request, seen, found, after, told, counts>>
WriteResult(r) ==
  /\ pc[r] = "result"
  /\ runtime' = [runtime EXCEPT !.result =
       [workflow |-> runtime.history, before |-> runtime.baseline, after |-> after[r]]]
  /\ lock' = Nobody /\ See(r, runtime') /\ Goto(r, "promote")
  /\ UNCHANGED <<active, archive, audits, checkout, request, found, after, told, counts>>

(* promoteQuickRuntimeTask: a rename, which fails over a record that exists.  *)
Promote(r) ==
  /\ pc[r] = "promote" /\ AtOnce(r)
  /\ runtime # None /\ active = None
  /\ active' = runtime /\ runtime' = None
  /\ Goto(r, "done")
  /\ UNCHANGED <<archive, audits, checkout, request, seen, found, after, told, counts>>

Completing(r) ==
  \/ Create(r) \/ Read(r) \/ Enter(r) \/ Adopt(r) \/ WriteBaseline(r) \/ Write(r)
  \/ CaptureAfter(r) \/ Review(r) \/ Finish(r) \/ Complete(r) \/ WriteResult(r)
  \/ Promote(r)

-------------------------------------------------------------------------------
(* archiveQuick: the Project Store's record if there is one (readChangedQuick *)
(* looks there and then in its archive), the audit otherwise.                 *)
Look(r) ==
  /\ pc[r] = "look" /\ lock = Nobody
  /\ \/ /\ ReadableResult(active)
        /\ See(r, active) /\ Goto(r, "event")
     \/ /\ \A record \in {active, archive} \ {None} : record.result = None
        /\ Goto(r, "auditArchive") /\ UNCHANGED seen
  /\ UNCHANGED <<store, audits, checkout, request, found, after, told, counts>>

(* archiveDurableTask: the Event, unless it is there, then the directory.     *)
ArchiveEvent(r) ==
  /\ pc[r] = "event"
  /\ lock = Nobody /\ lock' = r
  /\ archive = None /\ active # None
  /\ \/ Has(active.history, "archived") /\ active' = active
     \/ /\ At(active.history, "completed")
        /\ Len(seen[r].history) = Len(active.history)
        /\ active' = [active EXCEPT !.history = Append(@,
                        [by |-> r, what |-> "archived", base |-> None])]
  /\ Goto(r, "move")
  /\ UNCHANGED <<runtime, archive, audits, checkout, request, seen, found, after, told, counts>>
ArchiveMove(r) ==
  /\ pc[r] = "move"
  /\ archive' = active /\ active' = None
  /\ lock' = Nobody /\ Goto(r, "done")
  /\ UNCHANGED <<runtime, audits, checkout, request, seen, found, after, told, counts>>

Archiving(r) == Look(r) \/ ArchiveEvent(r) \/ ArchiveMove(r)

-------------------------------------------------------------------------------
(* completeNoChangeQuick: the Baseline before and after, the two places of    *)
(* the audit one after the other, and a link that fails when the file exists. *)
CaptureBefore(r) ==
  /\ pc[r] = "before"
  /\ Remember(r, Capture) /\ Goto(r, "compare")
  /\ UNCHANGED <<store, audits, checkout, request, seen, found, told, counts>>
Compare(r) ==
  /\ pc[r] = "compare"
  /\ after[r] = Capture
  /\ Goto(r, "lookActive")
  /\ UNCHANGED <<store, audits, checkout, request, seen, found, after, told, counts>>
LookActive(r) ==
  /\ pc[r] = "lookActive"
  /\ auditActive = None
  /\ Goto(r, "lookArchive")
  /\ UNCHANGED <<store, audits, checkout, request, seen, found, after, told, counts>>
LookArchive(r) ==
  /\ pc[r] = "lookArchive"
  /\ auditArchive = None
  /\ Goto(r, "link")
  /\ UNCHANGED <<store, audits, checkout, request, seen, found, after, told, counts>>
Link(r) ==
  /\ pc[r] = "link"
  /\ auditActive = None
  /\ auditActive' = [of |-> r, archivedBy |-> Nobody]
  /\ Goto(r, "report")
  /\ UNCHANGED <<store, auditArchive, checkout, request, seen, found, after, told, counts>>

(* archiveNoChangeQuick: recoverQuickAudit reads the archive first; an audit  *)
(* with its archived Event is only moved.                                     *)
ReadArchive(r) ==
  /\ pc[r] = "auditArchive"
  /\ auditArchive = None
  /\ Goto(r, "auditActive")
  /\ UNCHANGED <<store, audits, checkout, request, seen, found, after, told, counts>>
ReadActive(r) ==
  /\ pc[r] = "auditActive"
  /\ auditActive # None
  /\ found' = [found EXCEPT ![r] = auditActive] /\ Goto(r, "requireActive")
  /\ UNCHANGED <<store, audits, checkout, request, seen, after, told, counts>>

(* requireActiveAudit, replaceJson, moveActiveAudit: renames, which replace   *)
(* what is there.                                                             *)
RequireActive(r) ==
  /\ pc[r] = "requireActive"
  /\ auditActive # None
  /\ Goto(r, "requireArchive")
  /\ UNCHANGED <<store, audits, checkout, request, seen, found, after, told, counts>>
RequireArchive(r) ==
  /\ pc[r] = "requireArchive"
  /\ auditArchive = None
  /\ Goto(r, IF found[r].archivedBy = Nobody THEN "replace" ELSE "auditMove")
  /\ UNCHANGED <<store, audits, checkout, request, seen, found, after, told, counts>>
Replace(r) ==
  /\ pc[r] = "replace"
  /\ auditActive' = [found[r] EXCEPT !.archivedBy = r]
  /\ Goto(r, "auditMove")
  /\ UNCHANGED <<store, auditArchive, checkout, request, seen, found, after, told, counts>>
(* Mutant: the active audit is removed before the archive is written.         *)
AuditMoveRemoves(r) ==
  /\ pc[r] = "auditMove"
  /\ auditActive # None
  /\ auditActive' = None
  /\ Goto(r, "report")
  /\ UNCHANGED <<store, auditArchive, checkout, request, seen, found, after, told, counts>>
AuditMove(r) ==
  /\ pc[r] = "auditMove"
  /\ auditActive # None
  /\ auditArchive' = auditActive /\ auditActive' = None
  /\ Goto(r, "report")
  /\ UNCHANGED <<store, checkout, request, seen, found, after, told, counts>>

(* The audit is read again and reported.                                      *)
Report(r) ==
  /\ pc[r] = "report"
  /\ \/ auditArchive # None /\ told' = [told EXCEPT ![r] = auditArchive]
     \/ auditArchive = None /\ auditActive # None /\ told' = [told EXCEPT ![r] = auditActive]
  /\ Goto(r, "done")
  /\ UNCHANGED <<store, audits, checkout, request, seen, found, after, counts>>

Auditing(r) ==
  \/ CaptureBefore(r) \/ Compare(r) \/ LookActive(r) \/ LookArchive(r) \/ Link(r)
  \/ ReadArchive(r) \/ ReadActive(r) \/ RequireActive(r) \/ RequireArchive(r)
  \/ Replace(r) \/ AuditMove(r) \/ Report(r)

-------------------------------------------------------------------------------
(* The user edits a file or commits them all.                                 *)
Edit(p, c) ==
  /\ moves < MaxMoves /\ moves' = moves + 1
  /\ work' = [work EXCEPT ![p] = c]
  /\ UNCHANGED <<store, audits, committed, pc, request, seen, found, after, told, created>>
CommitAll ==
  /\ moves < MaxMoves /\ moves' = moves + 1
  /\ committed' = work
  /\ UNCHANGED <<store, audits, work, pc, request, seen, found, after, told, created>>

Next ==
  \/ \E r \in Run :
       \/ \E step \in {"create", "before", "look"} : Begin(r, step)
       \/ Completing(r) \/ Archiving(r) \/ Auditing(r) \/ Stop(r)
  \/ \E p \in Path, c \in Content : Edit(p, c)
  \/ CommitAll
Spec == Init /\ [][Next]_vars
-------------------------------------------------------------------------------
(* "a Quick creates a durable Project Store record only when project changes  *)
(* are produced" (docs/spec/product.md:154): the Project Store has one record *)
(* of a Quick, whole: completed by the transitions its result shows, about    *)
(* the Baseline its history adopted, of a change of the scope alone. Through  *)
(* invocations beside each other and repeated, and ends at any point. Where   *)
(* the id was used for a second Quick this does not hold.                     *)
StoredQuicksAreWhole ==
  created <= 1 =>
    /\ active = None \/ archive = None
    /\ \A record \in {active, archive} \ {None} :
         /\ ReadableResult(record)
         /\ record.result.before = Adopted(record.history)
         /\ Changed(record.result.before, record.result.after) = {Scope}
         /\ record = archive => Has(record.history, "archived")

(* "retaining a compact external runtime audit" (docs/spec/workflow.md:239):  *)
(* once a Quick without changes has an audit there is one from then on, one   *)
(* of its two places at least, whoever archives it and stops half-way.        *)
AuditRemains ==
  [][(auditActive # None \/ auditArchive # None)
       => (auditActive' # None \/ auditArchive' # None)]_vars

(* Violated. "report the durable result" (docs/spec/cli.md:222): the audit    *)
(* that was reported is on file from then on, until it is archived.           *)
ReportedAuditStands ==
  \A r \in Run : told[r] # None =>
    \/ told[r] \in {auditActive, auditArchive}
    \/ /\ told[r].archivedBy = Nobody
       /\ \E a \in {auditActive, auditArchive} \ {None} : a.of = told[r].of
===============================================================================
