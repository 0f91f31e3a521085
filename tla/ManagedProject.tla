---------------------------- MODULE ManagedProject ----------------------------
(* The generated files of a Managed Project and the calls that install,       *)
(* update and uninstall them (packages/core/src/managed-project.ts and        *)
(* managed-project-mutation.ts). A plan is made from several reads, without a *)
(* lock. Applying it takes the Writer lock, records the plan in a journal and *)
(* carries it out file by file, each time looking at the file and then        *)
(* writing it; a call that is cut short leaves the journal, and a recovery    *)
(* carries the plan out again from the start. The user edits the files at any *)
(* time, also between a look and the write that follows it.                   *)
EXTENDS Naturals, Sequences

CONSTANTS
  Call,      \* invocations of Core
  Paths,     \* the managed files, in the order they are worked on
  Class,     \* Ownership Class of each: "engine", "user" or "customizable"
  Target,    \* the release the calls belong to; older ones are 1 .. Target - 1
  Block,     \* Block[f][v]: the block that the template of release v has in f
  Changed,   \* a block the user has changed
  NoBlock,   \* no block, or markers that no longer delimit one
  Missing,   \* no such file
  None,
  MaxCalls, MaxEdits, MaxFaults \* bounds

Files == {Paths[i] : i \in 1 .. Len(Paths)}
Release == 1 .. Target
Templates == UNION {{Block[f][v] : v \in Release} : f \in Files}
(* A file, as far as the code tells files apart: its block, and whether there *)
(* is text of the user's around it.                                           *)
Text == [block : Templates \cup {Changed, NoBlock}, own : BOOLEAN]

ASSUME ManagedProjectConstants ==
  /\ Paths \in Seq(Files) /\ Len(Paths) > 0
  /\ Class \in [Files -> {"engine", "user", "customizable"}]
  /\ Target \in Nat \ {0}
  /\ \A f \in Files : DOMAIN Block[f] = Release
  /\ Changed \notin Templates \cup {NoBlock, None} /\ NoBlock \notin Templates
  /\ Missing \notin Release \cup Text
  /\ MaxCalls \in Nat /\ MaxEdits \in Nat /\ MaxFaults \in Nat

VARIABLES
  file,      \* the managed files
  records,   \* .sayhi/managed-files.json, or Missing
  installed, \* .sayhi/manifest.json: the release installed, or Missing
  journal,   \* .sayhi/.runtime/managed-operation.json, or Missing
  pc, at,    \* where each call is, and the number of the file it is at
  plan,      \* the plan it makes or carries out
  outcome,   \* what it last returned
  calls, edits, faults, \* bounds: how many there were
  touched,   \* auxiliary: files the user has edited
  later,     \* auxiliary: files edited since the snapshot of the journal's plan
  unseen,    \* auxiliary: files edited since each call looked at them
  hurried,   \* auxiliary: calls that read while another was at work or pending
  crossed    \* auxiliary: did one of them write, or initialise beside another?

store == <<file, records, installed, journal>>
progress == <<pc, at, plan, outcome>>
user == <<touched, later, unseen>>
bounds == <<calls, edits, faults>>
vars == <<file, records, installed, journal, pc, at, plan, outcome, calls,
          edits, faults, touched, later, unseen, hurried, crossed>>

(* What a file is installed as: the block of a release, and nothing else.     *)
Template(f, v) == [block |-> Block[f][v], own |-> FALSE]
(* base: the template the file was installed from, if the class has one;      *)
(* pending: an incoming template that was in conflict.                        *)
Record == [base : Templates \cup {None}, pending : Templates \cup {None}]
Ownership == UNION {[S -> Record] : S \in SUBSET Files}
Action == [result : {"retain", "update", "remove", "conflict"},
           expected : Text \cup {Missing}, content : Text \cup {Missing}]
Plan == [op : {"update", "uninstall"}, installed : Release,
         records : Ownership, actions : [Files -> Action]]

ASSUME MissingIsNoRecord == Missing \notin Plan \cup Ownership

Planning == {"planRecords", "planFiles"}
Mutating == {"journal", "look", "write", "writeRecords", "writeManifest",
             "removeManifest", "removeRecords", "removeJournal"}
Installing == {"initLook", "initWrite", "initRecords", "initManifest", "initCheck"}
Places == {"idle", "planned"} \cup Planning \cup Mutating \cup Installing

TypeOK ==
  /\ file \in [Files -> Text \cup {Missing}]
  /\ records = Missing \/ /\ DOMAIN records \in SUBSET Files
                          /\ \A f \in DOMAIN records : records[f] \in Record
  /\ installed \in Release \cup {Missing}
  /\ pc \in [Call -> Places]
  /\ at \in [Call -> 1 .. Len(Paths)]
  /\ outcome \in [Call -> {"none", "applied", "conflict", "stale", "refused", "failed"}]
  /\ calls \in Nat /\ edits \in Nat /\ faults \in Nat
  /\ touched \subseteq Files /\ later \subseteq Files
  /\ unseen \subseteq Call /\ hurried \subseteq Call /\ crossed \in BOOLEAN

-------------------------------------------------------------------------------
(* What a plan does to one file. A block is exchanged or taken out if it is   *)
(* still the installed one; an Engine-owned file is the block and no more.    *)
Intact(f, base, x) == x.block = base /\ (Class[f] = "engine" => ~x.own)

Retain == [result |-> "retain", expected |-> Missing, content |-> Missing]
Change(x, y) == [result |-> "update", expected |-> x, content |-> y]
Remove(x) == [result |-> "remove", expected |-> x, content |-> Missing]
Conflict(x) == [result |-> "conflict", expected |-> x, content |-> x]

UpdateAction(f, base, x) ==
  IF Intact(f, base, x) THEN Change(x, [x EXCEPT !.block = Block[f][Target]])
                        ELSE Conflict(x)
UninstallAction(f, base, x) ==
  IF ~Intact(f, base, x) THEN Conflict(x)
  ELSE IF x.own THEN Change(x, [x EXCEPT !.block = NoBlock]) ELSE Remove(x)
ActionOn(op, f, base, x) ==
  IF op = "update" THEN UpdateAction(f, base, x) ELSE UninstallAction(f, base, x)

HasConflicts(p) == \E f \in Files : p.actions[f].result = "conflict"
InstalledRecord(f, v) ==
  [base |-> IF Class[f] = "user" THEN None ELSE Block[f][v], pending |-> None]
(* Mutant: an update leaves the base the file had.                            *)
NewRecordKeepsBase(p, f) ==
  IF p.op = "update" /\ p.actions[f].result = "conflict"
  THEN [p.records[f] EXCEPT !.pending = Block[f][Target]] ELSE p.records[f]
(* The ownership records once plan p has been carried out.                    *)
NewRecord(p, f) ==
  CASE p.actions[f].result = "update" -> InstalledRecord(f, Target)
    [] p.actions[f].result = "conflict" /\ p.op = "update" ->
         [p.records[f] EXCEPT !.pending = Block[f][Target]]
    [] OTHER -> p.records[f]
Surviving(p) ==
  {f \in DOMAIN p.records :
     p.op = "update" \/ p.actions[f].result \in {"retain", "conflict"}}
NewRecords(p) == [f \in Surviving(p) |-> NewRecord(p, f)]

(* What doctor says.                                                          *)
Generated == {f \in Files : Class[f] # "customizable"}
InitialRecords == [f \in Generated |-> InstalledRecord(f, Target)]
Sound(f) ==
  /\ file[f] # Missing
  /\ Class[f] = "engine" => file[f] = [block |-> records[f].base, own |-> FALSE]
  /\ Class[f] = "customizable" => file[f].block # NoBlock
NoStore == installed = Missing /\ records = Missing
Healthy ==
  /\ installed = Target /\ records # Missing
  /\ Generated \subseteq DOMAIN records
  /\ \A f \in DOMAIN records : Sound(f)

-------------------------------------------------------------------------------
Current(c) == Paths[at[c]]
ActionNow(c) == plan[c].actions[Current(c)]
WriterLockFree == \A c \in Call : pc[c] \notin Mutating
(* Is there anything that may write between this call's reads?                *)
Disturbed(c) == journal # Missing \/ \E d \in Call \ {c} : pc[d] \in Installing
Readers == {c \in Call : pc[c] \in Planning \cup Installing}

GoTo(c, place) == pc' = [pc EXCEPT ![c] = place]
(* Mutant: the file past the last one.                                        *)
ProceedPastTheLast(c, loop, after) ==
  IF at[c] <= Len(Paths)
  THEN GoTo(c, loop) /\ at' = [at EXCEPT ![c] = @ + 1]
  ELSE GoTo(c, after) /\ at' = [at EXCEPT ![c] = 1]
(* To the next file, or after the last one to the given place.                *)
Proceed(c, loop, after) ==
  IF at[c] < Len(Paths)
  THEN GoTo(c, loop) /\ at' = [at EXCEPT ![c] = @ + 1]
  ELSE GoTo(c, after) /\ at' = [at EXCEPT ![c] = 1]
Return(c, answer) ==
  /\ GoTo(c, "idle") /\ at' = [at EXCEPT ![c] = 1]
  /\ plan' = [plan EXCEPT ![c] = Missing]
  /\ outcome' = [outcome EXCEPT ![c] = answer]
  /\ unseen' = unseen \ {c} /\ hurried' = hurried \ {c}
Start(c) ==
  /\ pc[c] = "idle" /\ calls < MaxCalls
  /\ calls' = calls + 1
  /\ UNCHANGED <<edits, faults>>
Read(c) == hurried' = IF Disturbed(c) THEN hurried \cup {c} ELSE hurried

Init ==
  /\ \/ /\ installed = Missing /\ records = Missing
        /\ file = [f \in Files |-> Missing]
     \/ /\ installed \in Release
        /\ records = [f \in Files |-> InstalledRecord(f, installed)]
        /\ file \in [Files -> Text]
        /\ \A f \in Files : /\ file[f].block = Block[f][installed]
                            /\ file[f].own => Class[f] = "customizable"
  /\ journal = Missing
  /\ pc = [c \in Call |-> "idle"] /\ at = [c \in Call |-> 1]
  /\ plan = [c \in Call |-> Missing] /\ outcome = [c \in Call |-> "none"]
  /\ calls = 0 /\ edits = 0 /\ faults = 0
  /\ touched = {} /\ later = {} /\ unseen = {} /\ hurried = {} /\ crossed = FALSE

-------------------------------------------------------------------------------
(* planManagedProjectUpdate, planManagedProjectUninstall: the project         *)
(* manifest is read first, ...                                                *)
PlanMutation(c, op) ==
  /\ Start(c)
  /\ IF installed = Missing THEN Return(c, "refused")
     ELSE /\ GoTo(c, "planRecords") /\ Read(c)
          /\ plan' = [plan EXCEPT ![c] =
                        [op |-> op, installed |-> installed, records |-> <<>>,
                         actions |-> [f \in Files |-> Retain]]]
          /\ UNCHANGED <<at, outcome, unseen>>
  /\ UNCHANGED <<store, touched, later, crossed>>

(* ... then the ownership records, ...                                        *)
PlanRecords(c) ==
  /\ pc[c] = "planRecords"
  /\ IF records = Missing THEN Return(c, "refused")
     ELSE /\ GoTo(c, "planFiles") /\ Read(c)
          /\ plan' = [plan EXCEPT ![c].records = records]
          /\ UNCHANGED <<at, outcome, unseen>>
  /\ UNCHANGED <<store, bounds, touched, later, crossed>>

(* ... and then one file after the other. An update needs a record of every   *)
(* file it brings; a generated file that is missing ends the planning.        *)
Plannable(c) ==
  LET f == Current(c) IN
  IF f \in DOMAIN plan[c].records
  THEN Class[f] = "user" \/ file[f] # Missing
  ELSE plan[c].op = "uninstall"
PlanFile(c) ==
  LET f == Current(c) IN
  /\ pc[c] = "planFiles"
  /\ IF ~Plannable(c) THEN Return(c, "refused")
     ELSE /\ Proceed(c, "planFiles", "planned") /\ Read(c)
          /\ plan' = IF f \notin DOMAIN plan[c].records \/ Class[f] = "user" THEN plan
                     ELSE [plan EXCEPT ![c].actions[f] =
                             ActionOn(plan[c].op, f, plan[c].records[f].base, file[f])]
          /\ UNCHANGED <<outcome, unseen>>
  /\ UNCHANGED <<store, bounds, touched, later, crossed>>

(* A plan that was only asked for to be shown.                                *)
Discard(c) ==
  /\ pc[c] = "planned"
  /\ Return(c, "none")
  /\ UNCHANGED <<store, bounds, touched, later, crossed>>

-------------------------------------------------------------------------------
(* applyManagedProjectPlan, under the Writer lock: not while a journal is     *)
(* there, and not if a file is no longer what the plan was made for. (An edit *)
(* between the looks at two files is one before both or after both.)          *)
SnapshotOfFirst(p) == \* mutant: only the first file is compared
  \A f \in {Paths[1]} :
    p.actions[f].result # "retain" => file[f] = p.actions[f].expected
Snapshot(p) ==
  \A f \in Files : p.actions[f].result # "retain" => file[f] = p.actions[f].expected
Apply(c) ==
  /\ pc[c] = "planned" /\ WriterLockFree
  /\ IF journal = Missing /\ Snapshot(plan[c])
     THEN GoTo(c, "journal") /\ later' = {}
          /\ UNCHANGED <<at, plan, outcome, unseen, hurried>>
     ELSE /\ Return(c, IF journal = Missing THEN "stale" ELSE "refused")
          /\ UNCHANGED later
  /\ UNCHANGED <<store, bounds, touched, crossed>>

WriteJournal(c) ==
  /\ pc[c] = "journal"
  /\ journal' = plan[c]
  /\ GoTo(c, "look")
  /\ hurried' = hurried \cup Readers
  /\ crossed' = (crossed \/ c \in hurried)
  /\ UNCHANGED <<file, records, installed, at, plan, outcome, bounds, user>>

(* recoverManagedProjectOperation: the plan of the journal, from the start.   *)
Recover(c) ==
  /\ Start(c) /\ WriterLockFree
  /\ IF journal = Missing THEN Return(c, "refused")
     ELSE /\ GoTo(c, "look")
          /\ plan' = [plan EXCEPT ![c] = journal]
          /\ UNCHANGED <<at, outcome, unseen, hurried>>
  /\ UNCHANGED <<store, touched, later, crossed>>

(* A clean uninstall removes the manifests, everything else rewrites them.    *)
Manifests(p) ==
  IF p.op = "uninstall" /\ ~HasConflicts(p) THEN "removeManifest" ELSE "writeRecords"

(* Mutant: what is not done yet is done, whatever the file has become.        *)
LookTrusting(c) ==
  LET f == Current(c)
      a == ActionNow(c) IN
  /\ pc[c] = "look"
  /\ IF a.result = "retain" \/ file[f] = a.content
     THEN Proceed(c, "look", Manifests(plan[c])) ELSE GoTo(c, "write") /\ UNCHANGED at
  /\ UNCHANGED <<store, bounds, touched, later, crossed, plan, outcome, unseen, hurried>>
(* observeManagedProjectAction: the file is as it was when the plan was made, *)
(* or as the plan leaves it, or the call ends and the journal stays.          *)
Look(c) ==
  LET f == Current(c)
      a == ActionNow(c) IN
  /\ pc[c] = "look"
  /\ \/ /\ a.result # "retain" /\ file[f] = a.expected
        /\ GoTo(c, "write") /\ UNCHANGED <<at, plan, outcome, unseen, hurried>>
     \/ /\ a.result = "retain" \/ (file[f] = a.content /\ file[f] # a.expected)
        /\ Proceed(c, "look", Manifests(plan[c]))
        /\ UNCHANGED <<plan, outcome, unseen, hurried>>
     \/ /\ a.result # "retain" /\ file[f] \notin {a.content, a.expected}
        /\ Return(c, "stale")
  /\ UNCHANGED <<store, bounds, touched, later, crossed>>

(* The write that follows: the new content, the removal, or for a conflict    *)
(* the variants, which are files of their own.                                *)
WriteFile(c) ==
  LET f == Current(c)
      a == ActionNow(c) IN
  /\ pc[c] = "write"
  /\ file' = IF a.result = "conflict" THEN file ELSE [file EXCEPT ![f] = a.content]
  /\ Proceed(c, "look", Manifests(plan[c]))
  /\ unseen' = unseen \ {c}
  /\ UNCHANGED <<records, installed, journal, plan, outcome, bounds, touched, later,
                 hurried, crossed>>

WriteRecords(c) ==
  /\ pc[c] = "writeRecords"
  /\ records' = NewRecords(plan[c])
  /\ GoTo(c, "writeManifest")
  /\ UNCHANGED <<file, installed, journal, at, plan, outcome, bounds, user, hurried, crossed>>

(* A conflict keeps the release that was installed when the plan was made.    *)
WriteManifestOfPlan(c) == \* mutant: the release is never raised
  /\ pc[c] = "writeManifest"
  /\ installed' = plan[c].installed
  /\ GoTo(c, "removeJournal")
  /\ UNCHANGED <<file, records, journal, at, plan, outcome, bounds, user, hurried, crossed>>
WriteManifest(c) ==
  /\ pc[c] = "writeManifest"
  /\ installed' = IF HasConflicts(plan[c]) THEN plan[c].installed ELSE Target
  /\ GoTo(c, "removeJournal")
  /\ UNCHANGED <<file, records, journal, at, plan, outcome, bounds, user, hurried, crossed>>

RemoveManifest(c) ==
  /\ pc[c] = "removeManifest"
  /\ installed' = Missing
  /\ GoTo(c, "removeRecords")
  /\ UNCHANGED <<file, records, journal, at, plan, outcome, bounds, user, hurried, crossed>>

RemoveRecords(c) ==
  /\ pc[c] = "removeRecords"
  /\ records' = Missing
  /\ GoTo(c, "removeJournal")
  /\ UNCHANGED <<file, installed, journal, at, plan, outcome, bounds, user, hurried, crossed>>

RemoveJournal(c) ==
  /\ pc[c] = "removeJournal"
  /\ journal' = Missing
  /\ Return(c, IF HasConflicts(plan[c]) THEN "conflict" ELSE "applied")
  /\ later' = {}
  /\ UNCHANGED <<file, records, installed, bounds, touched, crossed>>

-------------------------------------------------------------------------------
(* initializeManagedProject, which takes no lock: only where doctor finds no  *)
(* Project Store at all.                                                      *)
Initialize(c) ==
  /\ Start(c)
  /\ IF NoStore
     THEN /\ GoTo(c, "initLook")
          /\ hurried' = IF journal # Missing THEN hurried \cup {c} ELSE hurried
          /\ UNCHANGED <<at, plan, outcome, unseen>>
     ELSE Return(c, IF Healthy THEN "applied" ELSE "refused")
  /\ UNCHANGED <<store, touched, later, crossed>>

(* A generated file is written where there is none. One that is there must be *)
(* what would be written, unless it is the user's.                            *)
InitLook(c) ==
  LET f == Current(c)
      fits == Class[f] # "engine" \/ file[f] = Template(f, Target) IN
  /\ pc[c] = "initLook"
  /\ \/ /\ f \in Generated /\ file[f] = Missing
        /\ GoTo(c, "initWrite") /\ UNCHANGED <<at, plan, outcome, unseen, hurried>>
     \/ /\ f \in Generated => file[f] # Missing /\ fits
        /\ Proceed(c, "initLook", "initRecords")
        /\ UNCHANGED <<plan, outcome, unseen, hurried>>
     \/ /\ f \in Generated /\ file[f] # Missing /\ ~fits
        /\ Return(c, "refused")
  /\ UNCHANGED <<store, bounds, touched, later, crossed>>

(* A write of an initialisation: a plan may just be reading what it changes,  *)
(* and an operation may be under way, one that has compared its files and has *)
(* yet to write its journal included.                                         *)
InitWrites(c) ==
  /\ hurried' = hurried \cup {d \in Call : pc[d] \in Planning}
  /\ crossed' = (crossed \/ c \in hurried \/ ~WriterLockFree)

InitWrite(c) ==
  /\ pc[c] = "initWrite"
  /\ file' = [file EXCEPT ![Current(c)] = Template(Current(c), Target)]
  /\ Proceed(c, "initLook", "initRecords")
  /\ InitWrites(c) /\ unseen' = unseen \ {c}
  /\ UNCHANGED <<records, installed, journal, plan, outcome, bounds, touched, later>>

(* The ownership manifest is written as the files are; one that is there must *)
(* be the one that would be written.                                          *)
InitRecords(c) ==
  /\ pc[c] = "initRecords"
  /\ IF records = Missing
     THEN /\ records' = InitialRecords
          /\ GoTo(c, "initManifest") /\ InitWrites(c)
          /\ UNCHANGED <<at, plan, outcome, unseen>>
     ELSE /\ IF records = InitialRecords
             THEN GoTo(c, "initManifest") /\ UNCHANGED <<at, plan, outcome, unseen, hurried>>
             ELSE Return(c, "refused")
          /\ UNCHANGED <<records, crossed>>
  /\ UNCHANGED <<file, installed, journal, bounds, touched, later>>

(* So is the project manifest; it names the time of its own initialisation,   *)
(* so one that is there is never the same.                                    *)
InitManifest(c) ==
  /\ pc[c] = "initManifest"
  /\ IF installed = Missing
     THEN /\ installed' = Target
          /\ GoTo(c, "initCheck") /\ InitWrites(c)
          /\ UNCHANGED <<at, plan, outcome, unseen>>
     ELSE Return(c, "refused") /\ UNCHANGED <<installed, crossed>>
  /\ UNCHANGED <<file, records, journal, bounds, touched, later>>

InitCheck(c) ==
  /\ pc[c] = "initCheck"
  /\ Return(c, IF Healthy THEN "applied" ELSE "refused")
  /\ UNCHANGED <<store, bounds, touched, later, crossed>>

-------------------------------------------------------------------------------
(* A write that fails, or a process that dies, before any of its steps: the   *)
(* call ends where it is. (What becomes of its lock file is SharedCheckout's  *)
(* subject.)                                                                  *)
Fault(c) ==
  /\ pc[c] \in Mutating \cup Installing
  /\ faults < MaxFaults /\ faults' = faults + 1
  /\ Return(c, "failed")
  /\ UNCHANGED <<store, calls, edits, touched, later, crossed>>

(* The user edits, deletes or restores a managed file.                        *)
Texts(f) ==
  {x \in Text : /\ x.block \in {Block[f][v] : v \in Release} \cup {Changed, NoBlock}
                /\ x.own => Class[f] = "customizable"}
Edit(f, x) ==
  /\ edits < MaxEdits /\ edits' = edits + 1
  /\ x # file[f]
  /\ file' = [file EXCEPT ![f] = x]
  /\ touched' = touched \cup {f}
  /\ later' = IF journal # Missing \/ \E c \in Call : pc[c] = "journal"
              THEN later \cup {f} ELSE later
  /\ unseen' = unseen \cup
       {c \in Call : pc[c] \in {"write", "initWrite"} /\ Current(c) = f}
  /\ UNCHANGED <<records, installed, journal, progress, calls, faults, hurried, crossed>>

Carry(c) ==
  \/ Apply(c) \/ WriteJournal(c) \/ Look(c) \/ WriteFile(c)
  \/ WriteRecords(c) \/ WriteManifest(c)
  \/ RemoveManifest(c) \/ RemoveRecords(c) \/ RemoveJournal(c)
Install(c) ==
  Initialize(c) \/ InitLook(c) \/ InitWrite(c) \/ InitRecords(c)
    \/ InitManifest(c) \/ InitCheck(c)
Next ==
  \/ \E c \in Call :
       \/ \E op \in {"update", "uninstall"} : PlanMutation(c, op)
       \/ PlanRecords(c) \/ PlanFile(c) \/ Discard(c)
       \/ Recover(c) \/ Carry(c) \/ Install(c) \/ Fault(c)
  \/ \E f \in Files : \E x \in Texts(f) \cup {Missing} : Edit(f, x)
Spec == Init /\ [][Next]_vars

-------------------------------------------------------------------------------
(* User text, a block the user changed, and every User-owned file survive     *)
(* whatever updates, uninstalls, recoveries and initialisations do, with the  *)
(* exception the code has: an edit that falls between a call's look at the    *)
(* file and its write.                                                        *)
Unlooked(f) == \E c \in unseen : Current(c) = f
UserWorkSurvives ==
  [][\A f \in Files :
       (edits' = edits /\ file[f] # Missing /\ ~Unlooked(f)) =>
         /\ Class[f] = "user" => file'[f] = file[f]
         /\ file[f].own => file'[f] # Missing /\ file'[f].own
         /\ file[f].block = Changed => file'[f] = file[f]]_vars

(* A plan calls a file locally modified only if the user has ever edited it,  *)
(* except where it was planned while another call was writing (the plan reads *)
(* manifest, records and files one by one, without a lock).                   *)
ConflictsAreTheUsers ==
  \A c \in Call \ hurried :
    pc[c] \in {"planned", "journal"} /\ ~crossed =>
      \A f \in Files \ touched : plan[c].actions[f].result # "conflict"

(* A recovery can always finish: each file is as the journal expects it or as *)
(* it leaves it, unless the user edited it since the plan was last compared   *)
(* with the files.                                                            *)
JournalCanBeFinished ==
  journal # Missing /\ ~crossed =>
    \A f \in Files \ later :
      LET a == journal.actions[f] IN
      a.result = "retain" \/ file[f] \in {a.expected, a.content}

(* With no operation at work or pending, an untouched file has the template   *)
(* its record names; the project manifest does not outlive the ownership      *)
(* records; and if nothing was touched the project is as one release          *)
(* installs it, or not installed, or an initialisation was cut short.         *)
AtRest == journal = Missing /\ \A c \in Call : pc[c] \notin Mutating \cup Installing
AsInstalled ==
  /\ installed # Missing /\ records # Missing /\ Generated \subseteq DOMAIN records
  /\ \A f \in DOMAIN records :
       records[f] = InstalledRecord(f, installed) /\ Sound(f)
CutShort == installed = Missing /\ records = InitialRecords
RestIsCoherent ==
  AtRest /\ ~crossed =>
    /\ installed # Missing => records # Missing
    /\ records # Missing =>
         \A f \in DOMAIN records \ touched :
           Class[f] # "user" => file[f] # Missing /\ file[f].block = records[f].base
    /\ touched = {} => NoStore \/ AsInstalled \/ CutShort

(* Violated. "Create a fresh managed-file plan before applying changes" is    *)
(* what a call answers that finds a file changed; none can be applied while   *)
(* the journal of the operation is there.                                     *)
FreshPlanCanApply == \A c \in Call : outcome[c] = "stale" => journal = Missing
===============================================================================
