------------------------- MODULE ManagedProjectProofs -------------------------
(* Theorems of ManagedProject, for any number of calls, files, releases,      *)
(* edits and faults: type correctness, that the user's work survives, that    *)
(* conflicts are the user's, that a journal can be finished and that the      *)
(* project is coherent between the operations.                                *)
(* The first invariant, IInv: a plan, finished or not, in hand or in the      *)
(* journal, only replaces content that holds no work of the user's, or keeps  *)
(* the text around the block (SafePlan); one call mutates at a time           *)
(* (Exclusive); and a call about to write a file that the user has not edited *)
(* since finds it as it saw it, or as another program wrote it (AsSeen).      *)
(* The second, OpInv, rests on it: every plan fits the records it was made    *)
(* under (Fit, Complete), the journal is the plan in hand (InTurn), and as    *)
(* long as no write crossed another call's work, what a call has passed is    *)
(* done (Carrying, Looked), plans that were made in quiet are good (Good),    *)
(* what is pending can be finished (Recoverable), and with nothing pending    *)
(* the project is as a release installs it (Coherent).                        *)
EXTENDS ManagedProject, TLAPS

IsRecords(r) == DOMAIN r \subseteq Files /\ \A f \in DOMAIN r : r[f] \in Record

(* Content that may be overwritten without loss.                              *)
Spare(f, x) ==
  \/ x = Missing \/ x = Template(f, Target)
  \/ Class[f] = "engine" /\ x \in Text /\ ~x.own /\ x.block # Changed
SafeAction(f, a) ==
  a.result # "retain" =>
    /\ Class[f] # "user" /\ a.expected \in Text
    /\ a.result # "conflict" =>
         /\ a.expected.block # Changed
         /\ a.expected.own => a.content \in Text /\ a.content.own
         /\ Class[f] = "engine" => Spare(f, a.content)
SafePlan(p) ==
  /\ p = [op |-> p.op, installed |-> p.installed, records |-> p.records,
          actions |-> p.actions]
  /\ p.installed \in Release
  /\ IsRecords(p.records)
  /\ p.actions \in [Files -> Action]
  /\ \A f \in Files : SafeAction(f, p.actions[f])

PlansAreSafe ==
  /\ plan = [c \in Call |-> plan[c]]
  /\ \A c \in Call : pc[c] \in Planning \cup {"planned"} \cup Mutating => SafePlan(plan[c])
  /\ journal # Missing => SafePlan(journal)
Exclusive == \A c, d \in Call : pc[c] \in Mutating /\ pc[d] \in Mutating => c = d
AsSeen ==
  \A c \in Call \ unseen :
    /\ pc[c] = "write" =>
         file[Current(c)] = ActionNow(c).expected \/ Spare(Current(c), file[Current(c)])
    /\ pc[c] = "initWrite" => Spare(Current(c), file[Current(c)])
ActionInHand ==
  \A c \in Call : /\ pc[c] = "write" => ActionNow(c).result # "retain"
                  /\ pc[c] = "initWrite" => Current(c) \in Generated
IInv == TypeOK /\ PlansAreSafe /\ Exclusive /\ ActionInHand /\ AsSeen

-------------------------------------------------------------------------------
(* The constants.                                                             *)
LEMMA ConstantFacts ==
  /\ Len(Paths) \in Nat \ {0}
  /\ \A i \in 1 .. Len(Paths) : Paths[i] \in Files
  /\ Target \in Release
  /\ \A f \in Files : \A v \in Release : Block[f][v] \in Templates
  /\ \A f \in Files : Template(f, Target) \in Text
  /\ \A b \in Templates \cup {None} : b # Changed
<1>1. Len(Paths) \in Nat \ {0} /\ Target \in Release
  BY ManagedProjectConstants DEF Release
<1>2. \A i \in 1 .. Len(Paths) : Paths[i] \in Files
  BY DEF Files
<1>3. ASSUME NEW f \in Files, NEW v \in Release PROVE Block[f][v] \in Templates
  BY <1>3 DEF Templates
<1>4. \A f \in Files : Template(f, Target) \in Text
  BY <1>1, <1>3 DEF Template, Text
<1> QED BY <1>1, <1>2, <1>3, <1>4, ManagedProjectConstants

(* The file a call is at.                                                     *)
LEMMA CurrentIsFile == ASSUME TypeOK, NEW c \in Call PROVE Current(c) \in Files
  BY ConstantFacts DEF TypeOK, Current

(* What the three ways to move on do to the types.                            *)
LEMMA GoToTyped ==
  ASSUME TypeOK, NEW c \in Call, NEW p \in Places, GoTo(c, p)
  PROVE  pc' \in [Call -> Places]
  BY DEF TypeOK, GoTo

LEMMA ProceedTyped ==
  ASSUME TypeOK, NEW c \in Call, NEW p \in Places, NEW q \in Places, Proceed(c, p, q)
  PROVE  pc' \in [Call -> Places] /\ at' \in [Call -> 1 .. Len(Paths)]
<1>1. pc' \in [Call -> Places] BY DEF TypeOK, Proceed, GoTo
<1>2. Len(Paths) \in Nat \ {0} BY ConstantFacts
<1>3. CASE at[c] < Len(Paths)
  <2>1. at[c] + 1 \in 1 .. Len(Paths) BY <1>2, <1>3 DEF TypeOK
  <2> QED BY <1>1, <1>3, <2>1 DEF TypeOK, Proceed
<1>4. CASE ~(at[c] < Len(Paths))
  <2>1. 1 \in 1 .. Len(Paths) BY <1>2
  <2>2. at' = [at EXCEPT ![c] = 1] BY <1>4 DEF Proceed
  <2> QED BY <1>1, <2>1, <2>2 DEF TypeOK
<1> QED BY <1>3, <1>4

LEMMA ReturnTyped ==
  ASSUME TypeOK, NEW c \in Call,
         NEW o \in {"none", "applied", "conflict", "stale", "refused", "failed"},
         Return(c, o)
  PROVE  /\ pc' \in [Call -> Places] /\ at' \in [Call -> 1 .. Len(Paths)]
         /\ outcome' \in [Call -> {"none", "applied", "conflict", "stale", "refused", "failed"}]
         /\ unseen' \subseteq Call /\ hurried' \subseteq Call
<1>1. 1 \in 1 .. Len(Paths) BY ConstantFacts
<1>2. "idle" \in Places BY DEF Places
<1> QED BY <1>1, <1>2 DEF TypeOK, Return, GoTo

(* A plan's action on a file never overwrites work of the user's.             *)
LEMMA ActionOnSafe ==
  ASSUME NEW op \in {"update", "uninstall"}, NEW f \in Files, Class[f] # "user",
         NEW base \in Templates \cup {None}, NEW x \in Text
  PROVE  ActionOn(op, f, base, x) \in Action /\ SafeAction(f, ActionOn(op, f, base, x))
<1>1. /\ Block[f][Target] \in Templates /\ base # Changed
      /\ NoBlock # Changed
  BY ConstantFacts, ManagedProjectConstants
<1>2. /\ x.block \in Templates \cup {Changed, NoBlock} /\ x.own \in BOOLEAN
      /\ [x EXCEPT !.block = Block[f][Target]] \in Text
      /\ [x EXCEPT !.block = Block[f][Target]].own = x.own
      /\ [x EXCEPT !.block = Block[f][Target]].block = Block[f][Target]
      /\ [x EXCEPT !.block = NoBlock] \in Text
      /\ [x EXCEPT !.block = NoBlock].own = x.own
      /\ [x EXCEPT !.block = NoBlock].block = NoBlock
  BY <1>1 DEF Text
<1>3. Block[f][Target] # Changed BY <1>1, ConstantFacts
<1>4. CASE ~Intact(f, base, x)
  <2>1. ActionOn(op, f, base, x) = Conflict(x)
    BY <1>4 DEF ActionOn, UpdateAction, UninstallAction
  <2> QED BY <2>1 DEF Conflict, Action, SafeAction
<1>5. CASE Intact(f, base, x) /\ op = "update"
  <2> DEFINE y == [x EXCEPT !.block = Block[f][Target]]
  <2>1. ActionOn(op, f, base, x) = Change(x, y)
    BY <1>5 DEF ActionOn, UpdateAction
  <2>2. x.block # Changed /\ (Class[f] = "engine" => ~x.own)
    BY <1>1, <1>5 DEF Intact
  <2>3. y \in Text /\ y.own = x.own /\ y.block # Changed BY <1>2, <1>3
  <2> HIDE DEF y
  <2> QED BY <2>1, <2>2, <2>3 DEF Change, Action, SafeAction, Spare
<1>6. CASE Intact(f, base, x) /\ op # "update" /\ x.own
  <2> DEFINE y == [x EXCEPT !.block = NoBlock]
  <2>1. ActionOn(op, f, base, x) = Change(x, y)
    BY <1>6 DEF ActionOn, UninstallAction
  <2>2. x.block # Changed /\ (Class[f] = "engine" => ~x.own)
    BY <1>1, <1>6 DEF Intact
  <2>3. y \in Text /\ y.own = x.own /\ y.block # Changed BY <1>1, <1>2
  <2> HIDE DEF y
  <2> QED BY <2>1, <2>2, <2>3 DEF Change, Action, SafeAction, Spare
<1>7. CASE Intact(f, base, x) /\ op # "update" /\ ~x.own
  <2>1. ActionOn(op, f, base, x) = Remove(x)
    BY <1>7 DEF ActionOn, UninstallAction
  <2>2. x.block # Changed
    BY <1>1, <1>7 DEF Intact
  <2> QED BY <1>7, <2>1, <2>2 DEF Remove, Action, SafeAction, Spare
<1> QED BY <1>4, <1>5, <1>6, <1>7

(* The ownership records a plan leaves are ownership records.                 *)
LEMMA NewRecordsTyped ==
  ASSUME NEW p, SafePlan(p) PROVE IsRecords(NewRecords(p))
<1>1. ASSUME NEW f \in Files PROVE InstalledRecord(f, Target) \in Record
  BY ConstantFacts DEF InstalledRecord, Record
<1>2. ASSUME NEW f \in DOMAIN p.records PROVE NewRecord(p, f) \in Record
  <2>1. f \in Files /\ p.records[f] \in Record /\ Block[f][Target] \in Templates
    BY ConstantFacts DEF SafePlan, IsRecords
  <2>2. [p.records[f] EXCEPT !.pending = Block[f][Target]] \in Record
    BY <2>1 DEF Record
  <2> QED BY <1>1, <2>1, <2>2 DEF NewRecord
<1>3. Surviving(p) \subseteq DOMAIN p.records BY DEF Surviving
<1> QED BY <1>2, <1>3 DEF NewRecords, IsRecords, SafePlan

LEMMA InitialRecordsTyped == IsRecords(InitialRecords)
<1>1. ASSUME NEW f \in Files PROVE InstalledRecord(f, Target) \in Record
  BY ConstantFacts DEF InstalledRecord, Record
<1>2. Generated \subseteq Files BY DEF Generated
<1> QED BY <1>1, <1>2 DEF IsRecords, InitialRecords

-------------------------------------------------------------------------------
(* Every step of every call keeps the types.                                  *)
LEMMA PlaceFacts ==
  /\ Planning \subseteq Places /\ Mutating \subseteq Places /\ Installing \subseteq Places
  /\ {"idle", "planned"} \subseteq Places
  /\ \A p : Manifests(p) \in Places
  BY DEF Places, Planning, Mutating, Installing, Manifests

LEMMA TypePreserved == ASSUME IInv, [Next]_vars PROVE TypeOK'
<1> USE DEF IInv
<1> USE PlaceFacts DEF Planning, Mutating, Installing, Start, bounds
<1>1. ASSUME NEW c \in Call, NEW op \in {"update", "uninstall"}, PlanMutation(c, op)
      PROVE TypeOK'
  <2>1. CASE Return(c, "refused")
    BY <1>1, <2>1, ReturnTyped DEF TypeOK, PlanMutation, store
  <2>2. CASE ~Return(c, "refused")
    BY <1>1, <2>2, GoToTyped DEF TypeOK, PlanMutation, store, Read
  <2> QED BY <2>1, <2>2
<1>2. ASSUME NEW c \in Call, PlanRecords(c) PROVE TypeOK'
  <2>1. CASE Return(c, "refused")
    BY <1>2, <2>1, ReturnTyped DEF TypeOK, PlanRecords, store
  <2>2. CASE ~Return(c, "refused")
    BY <1>2, <2>2, GoToTyped DEF TypeOK, PlanRecords, store, Read
  <2> QED BY <2>1, <2>2
<1>3. ASSUME NEW c \in Call, PlanFile(c) PROVE TypeOK'
  <2>1. CASE Return(c, "refused")
    BY <1>3, <2>1, ReturnTyped DEF TypeOK, PlanFile, store
  <2>2. CASE Proceed(c, "planFiles", "planned") /\ Read(c) /\ UNCHANGED <<outcome, unseen>>
    BY <1>3, <2>2, ProceedTyped DEF TypeOK, PlanFile, store, Read
  <2> QED BY <1>3, <2>1, <2>2 DEF PlanFile
<1>4. ASSUME NEW c \in Call, Discard(c) PROVE TypeOK'
  BY <1>4, ReturnTyped DEF TypeOK, Discard, store
<1>5. ASSUME NEW c \in Call, Apply(c) PROVE TypeOK'
  <2>1. CASE Return(c, "stale") /\ UNCHANGED later
    BY <1>5, <2>1, ReturnTyped DEF TypeOK, Apply, store
  <2>2. CASE Return(c, "refused") /\ UNCHANGED later
    BY <1>5, <2>2, ReturnTyped DEF TypeOK, Apply, store
  <2>3. CASE GoTo(c, "journal") /\ later' = {} /\ UNCHANGED <<at, outcome, unseen, hurried>>
    BY <1>5, <2>3, GoToTyped DEF TypeOK, Apply, store
  <2> QED BY <1>5, <2>1, <2>2, <2>3 DEF Apply
<1>6. ASSUME NEW c \in Call, WriteJournal(c) PROVE TypeOK'
  BY <1>6, GoToTyped DEF TypeOK, WriteJournal, user, Readers
<1>7. ASSUME NEW c \in Call, Recover(c) PROVE TypeOK'
  <2>1. CASE Return(c, "refused")
    BY <1>7, <2>1, ReturnTyped DEF TypeOK, Recover, store
  <2>2. CASE ~Return(c, "refused")
    BY <1>7, <2>2, GoToTyped DEF TypeOK, Recover, store
  <2> QED BY <2>1, <2>2
<1>8. ASSUME NEW c \in Call, Look(c) PROVE TypeOK'
  <2>1. CASE Return(c, "stale")
    BY <1>8, <2>1, ReturnTyped DEF TypeOK, Look, store
  <2>2. CASE GoTo(c, "write") /\ UNCHANGED <<at, outcome, unseen, hurried>>
    BY <1>8, <2>2, GoToTyped DEF TypeOK, Look, store
  <2>3. CASE Proceed(c, "look", Manifests(plan[c])) /\ UNCHANGED <<outcome, unseen, hurried>>
    BY <1>8, <2>3, ProceedTyped DEF TypeOK, Look, store
  <2> QED BY <1>8, <2>1, <2>2, <2>3 DEF Look
<1>9. ASSUME NEW c \in Call, WriteFile(c) PROVE TypeOK'
  <2>1. Current(c) \in Files BY CurrentIsFile
  <2>2. ActionNow(c).content \in Text \cup {Missing}
    BY <1>9, <2>1 DEF WriteFile, PlansAreSafe, SafePlan, ActionNow, Action
  <2>3. file' \in [Files -> Text \cup {Missing}]
    BY <1>9, <2>1, <2>2 DEF WriteFile, TypeOK
  <2>4. pc' \in [Call -> Places] /\ at' \in [Call -> 1 .. Len(Paths)]
    BY <1>9, ProceedTyped DEF WriteFile
  <2> QED BY <1>9, <2>3, <2>4 DEF TypeOK, WriteFile
<1>10. ASSUME NEW c \in Call, WriteRecords(c) PROVE TypeOK'
  <2>1. IsRecords(records')
    BY <1>10, NewRecordsTyped DEF WriteRecords, PlansAreSafe
  <2> QED BY <1>10, <2>1, GoToTyped DEF TypeOK, WriteRecords, user, IsRecords
<1>11. ASSUME NEW c \in Call, WriteManifest(c) PROVE TypeOK'
  <2>1. plan[c].installed \in Release
    BY <1>11 DEF WriteManifest, PlansAreSafe, SafePlan
  <2> QED BY <1>11, <2>1, ConstantFacts, GoToTyped DEF TypeOK, WriteManifest, user
<1>12. ASSUME NEW c \in Call, RemoveManifest(c) PROVE TypeOK'
  BY <1>12, GoToTyped DEF TypeOK, RemoveManifest, user
<1>13. ASSUME NEW c \in Call, RemoveRecords(c) PROVE TypeOK'
  BY <1>13, GoToTyped DEF TypeOK, RemoveRecords, user
<1>14. ASSUME NEW c \in Call, RemoveJournal(c) PROVE TypeOK'
  <2>1. CASE Return(c, "conflict")
    BY <1>14, <2>1, ReturnTyped DEF TypeOK, RemoveJournal
  <2>2. CASE Return(c, "applied")
    BY <1>14, <2>2, ReturnTyped DEF TypeOK, RemoveJournal
  <2> QED BY <1>14, <2>1, <2>2 DEF RemoveJournal
<1>15. ASSUME NEW c \in Call, Initialize(c) PROVE TypeOK'
  <2>1. CASE Return(c, "applied")
    BY <1>15, <2>1, ReturnTyped DEF TypeOK, Initialize, store
  <2>2. CASE Return(c, "refused")
    BY <1>15, <2>2, ReturnTyped DEF TypeOK, Initialize, store
  <2>3. CASE GoTo(c, "initLook") /\ hurried' \subseteq Call /\ UNCHANGED <<at, outcome, unseen>>
    BY <1>15, <2>3, GoToTyped DEF TypeOK, Initialize, store
  <2> QED BY <1>15, <2>1, <2>2, <2>3 DEF Initialize, TypeOK
<1>16. ASSUME NEW c \in Call, InitLook(c) PROVE TypeOK'
  <2>1. CASE Return(c, "refused")
    BY <1>16, <2>1, ReturnTyped DEF TypeOK, InitLook, store
  <2>2. CASE GoTo(c, "initWrite") /\ UNCHANGED <<at, outcome, unseen, hurried>>
    BY <1>16, <2>2, GoToTyped DEF TypeOK, InitLook, store
  <2>3. CASE Proceed(c, "initLook", "initRecords") /\ UNCHANGED <<outcome, unseen, hurried>>
    BY <1>16, <2>3, ProceedTyped DEF TypeOK, InitLook, store
  <2> QED BY <1>16, <2>1, <2>2, <2>3 DEF InitLook
<1>17. ASSUME NEW c \in Call, InitWrite(c) PROVE TypeOK'
  <2>1. Current(c) \in Files BY CurrentIsFile
  <2>2. file' \in [Files -> Text \cup {Missing}]
    BY <1>17, <2>1, ConstantFacts DEF InitWrite, TypeOK
  <2>3. pc' \in [Call -> Places] /\ at' \in [Call -> 1 .. Len(Paths)]
    BY <1>17, ProceedTyped DEF InitWrite
  <2> QED BY <1>17, <2>2, <2>3 DEF TypeOK, InitWrite, InitWrites
<1>18. ASSUME NEW c \in Call, InitRecords(c) PROVE TypeOK'
  <2>1. CASE /\ records = Missing /\ records' = InitialRecords
             /\ GoTo(c, "initManifest") /\ InitWrites(c) /\ UNCHANGED <<at, plan, outcome, unseen>>
    BY <1>18, <2>1, InitialRecordsTyped, GoToTyped DEF TypeOK, InitRecords, IsRecords, InitWrites
  <2>2. CASE Return(c, "refused") /\ UNCHANGED <<records, crossed>>
    BY <1>18, <2>2, ReturnTyped DEF TypeOK, InitRecords
  <2>3. CASE GoTo(c, "initManifest") /\ UNCHANGED <<at, plan, outcome, unseen, hurried, records, crossed>>
    BY <1>18, <2>3, GoToTyped DEF TypeOK, InitRecords
  <2> QED BY <1>18, <2>1, <2>2, <2>3 DEF InitRecords
<1>19. ASSUME NEW c \in Call, InitManifest(c) PROVE TypeOK'
  <2>1. CASE Return(c, "refused") /\ UNCHANGED <<installed, crossed>>
    BY <1>19, <2>1, ReturnTyped DEF TypeOK, InitManifest
  <2>2. CASE /\ installed' = Target /\ GoTo(c, "initCheck") /\ InitWrites(c)
             /\ UNCHANGED <<at, plan, outcome, unseen>>
    BY <1>19, <2>2, ConstantFacts, GoToTyped DEF TypeOK, InitManifest, InitWrites
  <2> QED BY <1>19, <2>1, <2>2 DEF InitManifest
<1>20. ASSUME NEW c \in Call, InitCheck(c) PROVE TypeOK'
  <2>1. CASE Return(c, "refused")
    BY <1>20, <2>1, ReturnTyped DEF TypeOK, InitCheck, store
  <2>2. CASE Return(c, "applied")
    BY <1>20, <2>2, ReturnTyped DEF TypeOK, InitCheck, store
  <2> QED BY <1>20, <2>1, <2>2 DEF InitCheck
<1>21. ASSUME NEW c \in Call, Fault(c) PROVE TypeOK'
  BY <1>21, ReturnTyped DEF TypeOK, Fault, store
<1>22. ASSUME NEW f \in Files, NEW x \in Texts(f) \cup {Missing}, Edit(f, x) PROVE TypeOK'
  <2>1. x \in Text \cup {Missing}
    BY <1>22 DEF Texts
  <2>2. file' \in [Files -> Text \cup {Missing}]
    BY <1>22, <2>1 DEF Edit, TypeOK
  <2>3. later' \subseteq Files /\ touched' \subseteq Files /\ unseen' \subseteq Call
    BY <1>22 DEF Edit, TypeOK
  <2> QED BY <1>22, <2>2, <2>3 DEF TypeOK, Edit, progress
<1>23. CASE UNCHANGED vars
  BY <1>23 DEF TypeOK, vars
<1> QED BY <1>1, <1>2, <1>3, <1>4, <1>5, <1>6, <1>7, <1>8, <1>9, <1>10, <1>11, <1>12,
           <1>13, <1>14, <1>15, <1>16, <1>17, <1>18, <1>19, <1>20, <1>21, <1>22, <1>23
        DEF Next, Carry, Install

-------------------------------------------------------------------------------
(* What a step of call c may do to the state of the calls.                    *)
Alone(c) ==
  \A d \in Call \ {c} :
    pc'[d] = pc[d] /\ at'[d] = at[d] /\ plan'[d] = plan[d] /\ (d \in unseen' <=> d \in unseen)
Shape(c) ==
  /\ Alone(c)
  /\ pc'[c] \in Mutating => pc[c] \in Mutating \/ WriterLockFree
  /\ pc'[c] = "write" =>
       /\ at'[c] = at[c] /\ plan'[c] = plan[c] /\ file' = file
       /\ ActionNow(c).result # "retain" /\ file[Current(c)] = ActionNow(c).expected
  /\ pc'[c] = "initWrite" =>
       at'[c] = at[c] /\ file' = file /\ Current(c) \in Generated /\ file[Current(c)] = Missing
CallStep(c) ==
  \/ \E op \in {"update", "uninstall"} : PlanMutation(c, op)
  \/ PlanRecords(c) \/ PlanFile(c) \/ Discard(c)
  \/ Recover(c) \/ Carry(c) \/ Install(c) \/ Fault(c)

LEMMA ReturnShape ==
  ASSUME TypeOK, PlansAreSafe, NEW c \in Call, NEW o, Return(c, o)
  PROVE  Shape(c) /\ pc'[c] = "idle" /\ plan' = [plan EXCEPT ![c] = Missing]
  BY DEF TypeOK, PlansAreSafe, Return, GoTo, Shape, Alone, Mutating

LEMMA GoToShape ==
  ASSUME TypeOK, PlansAreSafe, NEW c \in Call, NEW p, GoTo(c, p), p \notin {"write", "initWrite"},
         at' = at, unseen' = unseen,
         \A d \in Call \ {c} : plan'[d] = plan[d],
         p \in Mutating => pc[c] \in Mutating \/ WriterLockFree
  PROVE  Shape(c)
  BY DEF TypeOK, GoTo, Shape, Alone

LEMMA ProceedShape ==
  ASSUME TypeOK, PlansAreSafe, NEW c \in Call, NEW p, NEW q, Proceed(c, p, q),
         p \notin {"write", "initWrite"}, q \notin {"write", "initWrite"},
         \A d \in Call \ {c} : plan'[d] = plan[d] /\ (d \in unseen' <=> d \in unseen),
         p \in Mutating \/ q \in Mutating => pc[c] \in Mutating
  PROVE  Shape(c)
  BY DEF TypeOK, Proceed, GoTo, Shape, Alone

LEMMA StepShape ==
  ASSUME TypeOK, PlansAreSafe, NEW c \in Call, CallStep(c) PROVE Shape(c)
<1> USE DEF Planning, Mutating, Installing
<1>1. ASSUME NEW op \in {"update", "uninstall"}, PlanMutation(c, op) PROVE Shape(c)
  BY <1>1, ReturnShape, GoToShape DEF PlanMutation, PlansAreSafe
<1>2. ASSUME PlanRecords(c) PROVE Shape(c)
  BY <1>2, ReturnShape, GoToShape DEF PlanRecords, PlansAreSafe
<1>3. ASSUME PlanFile(c) PROVE Shape(c)
  BY <1>3, ReturnShape, ProceedShape DEF PlanFile, PlansAreSafe
<1>4. ASSUME Discard(c) PROVE Shape(c)
  BY <1>4, ReturnShape DEF Discard
<1>5. ASSUME Apply(c) PROVE Shape(c)
  BY <1>5, ReturnShape, GoToShape DEF Apply
<1>6. ASSUME WriteJournal(c) PROVE Shape(c)
  BY <1>6, GoToShape DEF WriteJournal, user
<1>7. ASSUME Recover(c) PROVE Shape(c)
  BY <1>7, ReturnShape, GoToShape DEF Recover, PlansAreSafe
<1>8. ASSUME Look(c) PROVE Shape(c)
  <2>1. CASE Return(c, "stale")
    BY <2>1, ReturnShape
  <2>2. CASE /\ ActionNow(c).result # "retain" /\ file[Current(c)] = ActionNow(c).expected
             /\ GoTo(c, "write") /\ UNCHANGED <<at, plan, outcome, unseen, hurried>>
    BY <1>8, <2>2 DEF Look, store, TypeOK, GoTo, Shape, Alone
  <2>3. CASE Proceed(c, "look", Manifests(plan[c])) /\ UNCHANGED <<plan, unseen>>
    <3>1. Manifests(plan[c]) \in Mutating \ {"write", "initWrite"} BY DEF Manifests
    <3> QED BY <1>8, <2>3, <3>1, ProceedShape DEF Look
  <2> QED BY <1>8, <2>1, <2>2, <2>3 DEF Look
<1>9. ASSUME WriteFile(c) PROVE Shape(c)
  <2>1. Manifests(plan[c]) \in Mutating \ {"write", "initWrite"} BY DEF Manifests
  <2> QED BY <1>9, <2>1, ProceedShape DEF WriteFile
<1>10. ASSUME WriteRecords(c) \/ WriteManifest(c) \/ RemoveManifest(c) \/ RemoveRecords(c)
       PROVE Shape(c)
  BY <1>10, GoToShape DEF WriteRecords, WriteManifest, RemoveManifest, RemoveRecords, user
<1>11. ASSUME RemoveJournal(c) PROVE Shape(c)
  BY <1>11, ReturnShape DEF RemoveJournal
<1>12. ASSUME Initialize(c) PROVE Shape(c)
  BY <1>12, ReturnShape, GoToShape DEF Initialize
<1>13. ASSUME InitLook(c) PROVE Shape(c)
  <2>1. CASE Return(c, "refused")
    BY <2>1, ReturnShape
  <2>2. CASE /\ Current(c) \in Generated /\ file[Current(c)] = Missing
             /\ GoTo(c, "initWrite") /\ UNCHANGED <<at, plan, outcome, unseen, hurried>>
    BY <1>13, <2>2 DEF InitLook, store, TypeOK, GoTo, Shape, Alone
  <2>3. CASE Proceed(c, "initLook", "initRecords") /\ UNCHANGED <<plan, unseen>>
    BY <1>13, <2>3, ProceedShape DEF InitLook
  <2> QED BY <1>13, <2>1, <2>2, <2>3 DEF InitLook
<1>14. ASSUME InitWrite(c) PROVE Shape(c)
  BY <1>14, ProceedShape DEF InitWrite
<1>15. ASSUME InitRecords(c) PROVE Shape(c)
  BY <1>15, ReturnShape, GoToShape DEF InitRecords
<1>16. ASSUME InitManifest(c) PROVE Shape(c)
  BY <1>16, ReturnShape, GoToShape DEF InitManifest
<1>17. ASSUME InitCheck(c) PROVE Shape(c)
  BY <1>17, ReturnShape DEF InitCheck
<1>18. ASSUME Fault(c) PROVE Shape(c)
  BY <1>18, ReturnShape DEF Fault
<1> QED BY <1>1, <1>2, <1>3, <1>4, <1>5, <1>6, <1>7, <1>8, <1>9, <1>10, <1>11, <1>12,
           <1>13, <1>14, <1>15, <1>16, <1>17, <1>18 DEF CallStep, Carry, Install

-------------------------------------------------------------------------------
(* A plan in hand stays safe: made file by file, put into the journal, taken  *)
(* out of it again by a recovery.                                             *)
Planful == Planning \cup {"planned"} \cup Mutating

LEMMA PlanKept ==
  ASSUME TypeOK, PlansAreSafe, NEW c \in Call, plan' = plan, journal' = journal,
         NEW p, pc' = [pc EXCEPT ![c] = p], p \in Planful => pc[c] \in Planful
  PROVE  PlansAreSafe'
  BY DEF TypeOK, PlansAreSafe, Planful, SafePlan, IsRecords

LEMMA PlanDropped ==
  ASSUME TypeOK, PlansAreSafe, NEW c \in Call, NEW o, Return(c, o),
         journal' \in {journal, Missing}
  PROVE  PlansAreSafe'
  BY DEF TypeOK, PlansAreSafe, Return, GoTo, SafePlan, IsRecords, Planning, Mutating

LEMMA PlanSet ==
  ASSUME TypeOK, PlansAreSafe, NEW c \in Call, NEW q, SafePlan(q),
         plan' = [plan EXCEPT ![c] = q], journal' = journal,
         NEW p, pc' = [pc EXCEPT ![c] = p]
  PROVE  PlansAreSafe'
  BY DEF TypeOK, PlansAreSafe, SafePlan, IsRecords

LEMMA PlansPreserved ==
  ASSUME TypeOK, PlansAreSafe, NEW c \in Call, CallStep(c) PROVE PlansAreSafe'
<1> USE DEF Planning, Mutating, Installing, Planful
<1>1. ASSUME NEW op \in {"update", "uninstall"}, PlanMutation(c, op) PROVE PlansAreSafe'
  <2>1. CASE installed = Missing
    BY <1>1, <2>1, PlanDropped DEF PlanMutation, store
  <2>2. CASE installed # Missing
    <3> DEFINE q == [op |-> op, installed |-> installed, records |-> <<>>,
                     actions |-> [f \in Files |-> Retain]]
    <3>1. IsRecords(<<>>) BY DEF IsRecords
    <3>2. Retain \in Action /\ \A f \in Files : SafeAction(f, Retain)
      BY DEF Retain, Action, SafeAction
    <3>3. SafePlan(q)
      BY <2>2, <3>1, <3>2 DEF SafePlan, TypeOK
    <3>4. plan' = [plan EXCEPT ![c] = q] /\ journal' = journal
          /\ pc' = [pc EXCEPT ![c] = "planRecords"]
      BY <1>1, <2>2 DEF PlanMutation, GoTo, store
    <3> HIDE DEF q
    <3> QED BY <3>3, <3>4, PlanSet
  <2> QED BY <2>1, <2>2
<1>2. ASSUME PlanRecords(c) PROVE PlansAreSafe'
  <2>1. CASE records = Missing
    BY <1>2, <2>1, PlanDropped DEF PlanRecords, store
  <2>2. CASE records # Missing
    <3> DEFINE q == [plan[c] EXCEPT !.records = records]
    <3>1. IsRecords(records) BY <2>2 DEF IsRecords, TypeOK
    <3>2. SafePlan(plan[c]) BY <1>2 DEF PlanRecords, PlansAreSafe
    <3>3. q = [op |-> plan[c].op, installed |-> plan[c].installed, records |-> records,
               actions |-> plan[c].actions]
      BY <3>2 DEF SafePlan
    <3>4. SafePlan(q) BY <3>1, <3>2, <3>3 DEF SafePlan
    <3>5. plan' = [plan EXCEPT ![c] = q] /\ journal' = journal
          /\ pc' = [pc EXCEPT ![c] = "planFiles"]
      BY <1>2, <2>2 DEF PlanRecords, GoTo, store
    <3> HIDE DEF q
    <3> QED BY <3>4, <3>5, PlanSet
  <2> QED BY <2>1, <2>2
<1>3. ASSUME PlanFile(c) PROVE PlansAreSafe'
  <2> DEFINE f == Current(c)
  <2>1. SafePlan(plan[c]) /\ f \in Files
    BY <1>3, CurrentIsFile DEF PlanFile, PlansAreSafe
  <2>2. CASE ~Plannable(c)
    BY <1>3, <2>2, PlanDropped DEF PlanFile, store
  <2>3. CASE Plannable(c) /\ (f \notin DOMAIN plan[c].records \/ Class[f] = "user")
    <3>1. /\ plan' = plan /\ journal' = journal
          /\ \/ pc' = [pc EXCEPT ![c] = "planFiles"]
             \/ pc' = [pc EXCEPT ![c] = "planned"]
      BY <1>3, <2>3 DEF PlanFile, Proceed, GoTo, store
    <3>2. pc[c] = "planFiles" BY <1>3 DEF PlanFile
    <3> QED BY <3>1, <3>2, PlanKept
  <2>4. CASE Plannable(c) /\ ~(f \notin DOMAIN plan[c].records \/ Class[f] = "user")
    <3> DEFINE a == ActionOn(plan[c].op, f, plan[c].records[f].base, file[f])
    <3> DEFINE q == [plan[c] EXCEPT !.actions[f] = a]
    <3>1. plan[c].records[f].base \in Templates \cup {None}
      BY <2>1, <2>4 DEF SafePlan, IsRecords, Record
    <3>2. file[f] \in Text BY <2>1, <2>4 DEF Plannable, TypeOK
    <3>3. a \in Action /\ SafeAction(f, a)
      BY <2>1, <2>4, <3>1, <3>2, ActionOnSafe DEF ActionOn
    <3> HIDE DEF a
    <3>4. q = [op |-> plan[c].op, installed |-> plan[c].installed,
               records |-> plan[c].records, actions |-> [plan[c].actions EXCEPT ![f] = a]]
      BY <2>1 DEF SafePlan
    <3>5. [plan[c].actions EXCEPT ![f] = a] \in [Files -> Action]
      BY <2>1, <3>3 DEF SafePlan
    <3>6. \A g \in Files : SafeAction(g, [plan[c].actions EXCEPT ![f] = a][g])
      BY <2>1, <3>3 DEF SafePlan
    <3>7. SafePlan(q)
      BY <2>1, <3>4, <3>5, <3>6 DEF SafePlan
    <3>8. /\ plan' = [plan EXCEPT ![c] = q] /\ journal' = journal
          /\ \/ pc' = [pc EXCEPT ![c] = "planFiles"]
             \/ pc' = [pc EXCEPT ![c] = "planned"]
      BY <1>3, <2>4 DEF PlanFile, Proceed, GoTo, store, a
    <3> HIDE DEF q, f
    <3> QED BY <3>7, <3>8, PlanSet
  <2> QED BY <2>2, <2>3, <2>4
<1>4. ASSUME Discard(c) PROVE PlansAreSafe'
  BY <1>4, PlanDropped DEF Discard, store
<1>5. ASSUME Apply(c) PROVE PlansAreSafe'
  <2>1. CASE Return(c, "stale") \/ Return(c, "refused")
    BY <1>5, <2>1, PlanDropped DEF Apply, store
  <2>2. CASE GoTo(c, "journal") /\ UNCHANGED plan
    BY <1>5, <2>2, PlanKept DEF Apply, store, GoTo
  <2> QED BY <1>5, <2>1, <2>2 DEF Apply
<1>6. ASSUME WriteJournal(c) PROVE PlansAreSafe'
  <2>1. SafePlan(plan[c]) BY <1>6 DEF WriteJournal, PlansAreSafe
  <2>2. SafePlan(journal)' BY <1>6, <2>1 DEF WriteJournal, SafePlan, IsRecords
  <2>3. pc' = [pc EXCEPT ![c] = "look"] /\ plan' = plan
    BY <1>6 DEF WriteJournal, GoTo
  <2>4. \A d \in Call : pc'[d] \in Planful => SafePlan(plan[d])
    BY <2>1, <2>3 DEF PlansAreSafe, TypeOK
  <2>5. \A d \in Call : pc'[d] \in Planful => SafePlan(plan[d])'
    BY <2>3, <2>4 DEF SafePlan, IsRecords
  <2> QED BY <2>2, <2>3, <2>5 DEF PlansAreSafe
<1>7. ASSUME Recover(c) PROVE PlansAreSafe'
  <2>1. CASE journal = Missing
    BY <1>7, <2>1, PlanDropped DEF Recover, store
  <2>2. CASE journal # Missing
    <3>1. SafePlan(journal) BY <2>2 DEF PlansAreSafe
    <3>2. plan' = [plan EXCEPT ![c] = journal] /\ journal' = journal
          /\ pc' = [pc EXCEPT ![c] = "look"]
      BY <1>7, <2>2 DEF Recover, GoTo, store
    <3> QED BY <3>1, <3>2, PlanSet
  <2> QED BY <2>1, <2>2
<1>8. ASSUME Look(c) PROVE PlansAreSafe'
  <2>1. CASE Return(c, "stale")
    BY <1>8, <2>1, PlanDropped DEF Look, store
  <2>2. CASE GoTo(c, "write") /\ UNCHANGED plan
    BY <1>8, <2>2, PlanKept DEF Look, store, GoTo
  <2>3. CASE Proceed(c, "look", Manifests(plan[c])) /\ UNCHANGED plan
    BY <1>8, <2>3, PlanKept DEF Look, store, GoTo, Proceed
  <2> QED BY <1>8, <2>1, <2>2, <2>3 DEF Look
<1>9. ASSUME WriteFile(c) PROVE PlansAreSafe'
  BY <1>9, PlanKept DEF WriteFile, Proceed, GoTo
<1>10. ASSUME WriteRecords(c) \/ WriteManifest(c) \/ RemoveManifest(c) \/ RemoveRecords(c)
       PROVE PlansAreSafe'
  BY <1>10, PlanKept DEF WriteRecords, WriteManifest, RemoveManifest, RemoveRecords, GoTo
<1>11. ASSUME RemoveJournal(c) PROVE PlansAreSafe'
  BY <1>11, PlanDropped DEF RemoveJournal
<1>12. ASSUME Initialize(c) PROVE PlansAreSafe'
  BY <1>12, PlanDropped, PlanKept DEF Initialize, store, GoTo
<1>13. ASSUME InitLook(c) PROVE PlansAreSafe'
  BY <1>13, PlanDropped, PlanKept DEF InitLook, store, GoTo, Proceed
<1>14. ASSUME InitWrite(c) PROVE PlansAreSafe'
  BY <1>14, PlanKept DEF InitWrite, GoTo, Proceed
<1>15. ASSUME InitRecords(c) PROVE PlansAreSafe'
  BY <1>15, PlanDropped, PlanKept DEF InitRecords, GoTo
<1>16. ASSUME InitManifest(c) PROVE PlansAreSafe'
  BY <1>16, PlanDropped, PlanKept DEF InitManifest, GoTo
<1>17. ASSUME InitCheck(c) PROVE PlansAreSafe'
  BY <1>17, PlanDropped DEF InitCheck, store
<1>18. ASSUME Fault(c) PROVE PlansAreSafe'
  BY <1>18, PlanDropped DEF Fault, store
<1> QED BY <1>1, <1>2, <1>3, <1>4, <1>5, <1>6, <1>7, <1>8, <1>9, <1>10, <1>11, <1>12,
           <1>13, <1>14, <1>15, <1>16, <1>17, <1>18 DEF CallStep, Carry, Install

-------------------------------------------------------------------------------
(* Only two actions of a call write managed files.                            *)
LEMMA OnlyWritersWrite ==
  ASSUME NEW c \in Call, CallStep(c), file' # file
  PROVE  WriteFile(c) \/ InitWrite(c)
<1>1. \A op : PlanMutation(c, op) => file' = file BY DEF PlanMutation, store
<1>2. PlanRecords(c) \/ PlanFile(c) \/ Discard(c) \/ Recover(c) \/ Fault(c) => file' = file
  BY DEF PlanRecords, PlanFile, Discard, Recover, Fault, store
<1>3. Apply(c) \/ WriteJournal(c) \/ Look(c) \/ WriteRecords(c) \/ WriteManifest(c)
        \/ RemoveManifest(c) \/ RemoveRecords(c) \/ RemoveJournal(c) => file' = file
  BY DEF Apply, WriteJournal, Look, WriteRecords, WriteManifest, RemoveManifest,
         RemoveRecords, RemoveJournal, store
<1>4. Initialize(c) \/ InitLook(c) \/ InitRecords(c) \/ InitManifest(c) \/ InitCheck(c)
        => file' = file
  BY DEF Initialize, InitLook, InitRecords, InitManifest, InitCheck, store
<1> QED BY <1>1, <1>2, <1>3, <1>4 DEF CallStep, Carry, Install

(* What WriteFile puts in the place of a file, and InitWrite.                 *)
LEMMA WrittenFile ==
  ASSUME IInv, NEW c \in Call, WriteFile(c)
  PROVE  /\ Current(c) \in Files /\ Class[Current(c)] # "user"
         /\ SafeAction(Current(c), ActionNow(c)) /\ ActionNow(c).result # "retain"
         /\ ActionNow(c).result = "conflict" => file' = file
         /\ ActionNow(c).result # "conflict" =>
              file' = [file EXCEPT ![Current(c)] = ActionNow(c).content]
<1>1. Current(c) \in Files BY CurrentIsFile DEF IInv
<1>2. pc[c] = "write" BY DEF WriteFile
<1>3. SafePlan(plan[c]) BY <1>2 DEF IInv, PlansAreSafe, Mutating
<1>4. SafeAction(Current(c), ActionNow(c)) BY <1>1, <1>3 DEF SafePlan, ActionNow
<1>5. ActionNow(c).result # "retain" BY <1>2 DEF IInv, ActionInHand
<1> QED BY <1>1, <1>4, <1>5 DEF WriteFile, SafeAction

LEMMA CallPreserves ==
  ASSUME IInv, NEW c \in Call, CallStep(c)
  PROVE  Exclusive' /\ ActionInHand' /\ AsSeen'
<1>1. Shape(c) BY StepShape DEF IInv
<1>2. Exclusive'
  BY <1>1 DEF IInv, Exclusive, Shape, Alone, WriterLockFree
<1>3. \A d \in Call \ {c} : Current(d)' = Current(d) /\ ActionNow(d)' = ActionNow(d)
  BY <1>1 DEF Shape, Alone, Current, ActionNow
<1>4. ActionInHand'
  BY <1>1, <1>3 DEF IInv, ActionInHand, Shape, Alone, Current, ActionNow
<1>5. ASSUME NEW d \in Call, d \notin unseen', d = c
      PROVE  /\ pc'[d] = "write" => file'[Current(d)'] = ActionNow(d)'.expected
             /\ pc'[d] = "initWrite" => file'[Current(d)'] = Missing
  BY <1>1, <1>5 DEF Shape, Current, ActionNow
<1>6. ASSUME NEW d \in Call, d \notin unseen', d # c,
             pc'[d] \in {"write", "initWrite"}
      PROVE  \/ file'[Current(d)] = file[Current(d)]
             \/ pc[d] = "initWrite" /\ Spare(Current(d), file'[Current(d)])
             \/ pc[d] = "write" /\ Spare(Current(d), file'[Current(d)])
  <2>1. pc[d] = pc'[d] /\ Current(d) \in Files
    BY <1>1, <1>6, CurrentIsFile DEF Shape, Alone, IInv
  <2>2. CASE WriteFile(c)
    <3>1. pc[d] = "initWrite"
      BY <1>6, <2>1, <2>2 DEF WriteFile, IInv, Exclusive, Mutating
    <3>2. Current(d) \in Generated BY <3>1 DEF IInv, ActionInHand
    <3>3. CASE Current(c) = Current(d) /\ ActionNow(c).result # "conflict"
      <4>1. Class[Current(d)] = "engine"
        BY <2>1, <2>2, <3>2, <3>3, WrittenFile, ManagedProjectConstants DEF Generated
      <4>2. Spare(Current(d), ActionNow(c).content)
        BY <2>2, <3>3, <4>1, WrittenFile DEF SafeAction
      <4>3. file'[Current(d)] = ActionNow(c).content
        BY <2>1, <2>2, <3>3, WrittenFile DEF IInv, TypeOK
      <4> QED BY <3>1, <4>2, <4>3
    <3>4. CASE ~(Current(c) = Current(d) /\ ActionNow(c).result # "conflict")
      BY <2>1, <2>2, <3>4, WrittenFile DEF IInv, TypeOK
    <3> QED BY <3>3, <3>4
  <2>3. CASE InitWrite(c)
    <3>1. file' = [file EXCEPT ![Current(c)] = Template(Current(c), Target)]
      BY <2>3 DEF InitWrite
    <3>2. CASE Current(c) = Current(d)
      <4>1. file'[Current(d)] = Template(Current(d), Target)
        BY <2>1, <3>1, <3>2 DEF IInv, TypeOK
      <4> QED BY <1>6, <2>1, <4>1 DEF Spare
    <3>3. CASE Current(c) # Current(d)
      BY <2>1, <3>1, <3>3 DEF IInv, TypeOK
    <3> QED BY <3>2, <3>3
  <2>4. CASE file' = file
    BY <2>4
  <2> QED BY <2>2, <2>3, <2>4, OnlyWritersWrite
<1>7. ASSUME NEW d \in Call \ unseen', pc'[d] = "write"
      PROVE  \/ file'[Current(d)'] = ActionNow(d)'.expected
             \/ Spare(Current(d)', file'[Current(d)'])
  BY <1>1, <1>3, <1>5, <1>6, <1>7 DEF IInv, AsSeen, Shape, Alone
<1>8. ASSUME NEW d \in Call \ unseen', pc'[d] = "initWrite"
      PROVE  Spare(Current(d)', file'[Current(d)'])
  BY <1>1, <1>3, <1>5, <1>6, <1>8 DEF IInv, AsSeen, Shape, Alone, Spare
<1>9. AsSeen'
  <2>1. \A f, x : Spare(f, x)' <=> Spare(f, x) BY DEF Spare
  <2> QED BY <1>7, <1>8 DEF AsSeen, Spare
<1> QED BY <1>2, <1>4, <1>9

LEMMA EditPreserves ==
  ASSUME IInv, NEW f \in Files, NEW x \in Texts(f) \cup {Missing}, Edit(f, x)
  PROVE  PlansAreSafe' /\ Exclusive' /\ ActionInHand' /\ AsSeen'
<1>1. /\ pc' = pc /\ at' = at /\ plan' = plan /\ journal' = journal
      /\ file' = [file EXCEPT ![f] = x]
  BY DEF Edit, progress
<1>2. PlansAreSafe' BY <1>1 DEF IInv, PlansAreSafe, SafePlan, IsRecords
<1>3. Exclusive' BY <1>1 DEF IInv, Exclusive
<1>4. \A d \in Call : Current(d)' = Current(d) /\ ActionNow(d)' = ActionNow(d)
  BY <1>1 DEF Current, ActionNow
<1>5. ActionInHand' BY <1>1, <1>4 DEF IInv, ActionInHand
<1>6. ASSUME NEW d \in Call \ unseen', pc[d] \in {"write", "initWrite"}
      PROVE  d \notin unseen /\ file'[Current(d)] = file[Current(d)]
  BY <1>1, <1>6, CurrentIsFile DEF IInv, TypeOK, Edit
<1>7. AsSeen'
  BY <1>1, <1>4, <1>6 DEF IInv, AsSeen, Spare
<1> QED BY <1>2, <1>3, <1>5, <1>7

-------------------------------------------------------------------------------
LEMMA InitInv == Init => IInv
<1> SUFFICES ASSUME Init PROVE IInv OBVIOUS
<1>1. \A f \in Files : \A v \in Release : InstalledRecord(f, v) \in Record
  BY ConstantFacts DEF InstalledRecord, Record
<1>2. TypeOK
  <2>1. file \in [Files -> Text \cup {Missing}] BY DEF Init
  <2>2. records = Missing \/ (/\ DOMAIN records \in SUBSET Files
                              /\ \A f \in DOMAIN records : records[f] \in Record)
    BY <1>1 DEF Init
  <2>3. pc \in [Call -> Places] /\ at \in [Call -> 1 .. Len(Paths)]
    BY ConstantFacts, PlaceFacts DEF Init
  <2> QED BY <2>1, <2>2, <2>3 DEF Init, TypeOK
<1>3. PlansAreSafe BY DEF Init, PlansAreSafe, Planning, Mutating
<1>4. Exclusive /\ ActionInHand /\ AsSeen
  BY DEF Init, Exclusive, ActionInHand, AsSeen, Mutating
<1> QED BY <1>2, <1>3, <1>4 DEF IInv

LEMMA NextInv == IInv /\ [Next]_vars => IInv'
<1> SUFFICES ASSUME IInv, [Next]_vars PROVE IInv' OBVIOUS
<1>1. TypeOK' BY TypePreserved
<1>2. ASSUME NEW c \in Call, CallStep(c) PROVE IInv'
  BY <1>1, <1>2, PlansPreserved, CallPreserves DEF IInv
<1>3. ASSUME NEW f \in Files, NEW x \in Texts(f) \cup {Missing}, Edit(f, x) PROVE IInv'
  BY <1>1, <1>3, EditPreserves DEF IInv
<1>4. CASE UNCHANGED vars
  <2>1. PlansAreSafe' BY <1>4 DEF IInv, PlansAreSafe, SafePlan, IsRecords, vars
  <2>2. \A d \in Call : Current(d)' = Current(d) /\ ActionNow(d)' = ActionNow(d)
    BY <1>4 DEF Current, ActionNow, vars
  <2>3. Exclusive' /\ ActionInHand' /\ AsSeen'
    BY <1>4, <2>2 DEF IInv, Exclusive, ActionInHand, AsSeen, Spare, vars
  <2> QED BY <1>1, <2>1, <2>3 DEF IInv
<1> QED BY <1>2, <1>3, <1>4 DEF Next, CallStep

THEOREM InvariantHolds == Spec => []IInv
  BY InitInv, NextInv, PTL DEF Spec

(* Files, manifests and calls hold what the code can put there.               *)
THEOREM TypeCorrect == Spec => []TypeOK
<1>1. IInv => TypeOK BY DEF IInv
<1> QED BY <1>1, InvariantHolds, PTL

(* What one step does to the user's work.                                     *)
Survives(f) ==
  (edits' = edits /\ file[f] # Missing /\ ~Unlooked(f)) =>
    /\ Class[f] = "user" => file'[f] = file[f]
    /\ file[f].own => file'[f] # Missing /\ file'[f].own
    /\ file[f].block = Changed => file'[f] = file[f]

LEMMA SpareHasNoWork ==
  ASSUME NEW f \in Files, NEW x, Spare(f, x), x # Missing
  PROVE  /\ ~x.own /\ x.block # Changed
         /\ Class[f] = "user" => x = Template(f, Target)
  BY ConstantFacts DEF Spare, Template

LEMMA StepSurvives == ASSUME IInv, [Next]_vars, NEW f \in Files PROVE Survives(f)
<1>1. CASE file' = file
  BY <1>1 DEF Survives, IInv, TypeOK, Text
<1>2. ASSUME NEW c \in Call, WriteFile(c) PROVE Survives(f)
  <2>1. CASE Current(c) # f \/ ActionNow(c).result = "conflict"
    <3>1. file'[f] = file[f] BY <1>2, <2>1, WrittenFile DEF IInv, TypeOK
    <3> QED BY <3>1 DEF Survives
  <2>2. CASE Current(c) = f /\ ActionNow(c).result # "conflict"
    <3>1. CASE c \in unseen
      BY <2>2, <3>1 DEF Survives, Unlooked
    <3>2. CASE c \notin unseen
      <4>1. file[f] = ActionNow(c).expected \/ Spare(f, file[f])
        BY <1>2, <2>2, <3>2 DEF IInv, AsSeen, WriteFile
      <4>2. SafeAction(f, ActionNow(c)) /\ Class[f] # "user" /\ ActionNow(c).result # "retain"
            /\ file'[f] = ActionNow(c).content
        BY <1>2, <2>2, WrittenFile DEF IInv, TypeOK
      <4>3. CASE file[f] = ActionNow(c).expected
        <5>1. file[f].block # Changed
          BY <2>2, <4>2, <4>3 DEF SafeAction
        <5>2. file[f].own => file'[f] \in Text /\ file'[f].own
          BY <2>2, <4>2, <4>3 DEF SafeAction
        <5>3. Missing \notin Text BY ManagedProjectConstants
        <5> QED BY <4>2, <5>1, <5>2, <5>3 DEF Survives
      <4>4. CASE Spare(f, file[f])
        BY <4>2, <4>4, SpareHasNoWork DEF Survives
      <4> QED BY <4>1, <4>3, <4>4
    <3> QED BY <3>1, <3>2
  <2> QED BY <2>1, <2>2
<1>3. ASSUME NEW c \in Call, InitWrite(c) PROVE Survives(f)
  <2>1. file' = [file EXCEPT ![Current(c)] = Template(Current(c), Target)]
    BY <1>3 DEF InitWrite
  <2>2. CASE Current(c) # f
    <3>1. file'[f] = file[f] BY <2>1, <2>2 DEF IInv, TypeOK
    <3> QED BY <3>1 DEF Survives
  <2>3. CASE Current(c) = f /\ c \in unseen
    BY <2>3 DEF Survives, Unlooked
  <2>4. CASE Current(c) = f /\ c \notin unseen
    <3>1. Spare(f, file[f]) BY <1>3, <2>4 DEF IInv, AsSeen, InitWrite
    <3>2. file'[f] = Template(f, Target) BY <2>1, <2>4 DEF IInv, TypeOK
    <3> QED BY <3>1, <3>2, SpareHasNoWork DEF Survives
  <2> QED BY <2>2, <2>3, <2>4
<1>4. ASSUME NEW g \in Files, NEW x \in Texts(g) \cup {Missing}, Edit(g, x)
      PROVE Survives(f)
  BY <1>4 DEF Survives, Edit, IInv, TypeOK
<1>5. CASE UNCHANGED vars
  BY <1>1, <1>5 DEF vars
<1> QED BY <1>1, <1>2, <1>3, <1>4, <1>5, OnlyWritersWrite DEF Next, CallStep

(* The user's own text, a block the user changed and a User-owned file        *)
(* survive every update, uninstall, recovery and initialisation, except for   *)
(* an edit between a call's look at a file and its write.                     *)
THEOREM WorkSurvives == Spec => UserWorkSurvives
<1>1. IInv /\ [Next]_vars => [\A f \in Files : Survives(f)]_vars
  BY StepSurvives
<1>2. [\A f \in Files : Survives(f)]_vars =>
        [\A f \in Files :
           (edits' = edits /\ file[f] # Missing /\ ~Unlooked(f)) =>
             /\ Class[f] = "user" => file'[f] = file[f]
             /\ file[f].own => file'[f] # Missing /\ file'[f].own
             /\ file[f].block = Changed => file'[f] = file[f]]_vars
  BY DEF Survives
<1> QED BY <1>1, <1>2, InvariantHolds, PTL DEF Spec, UserWorkSurvives

-------------------------------------------------------------------------------
(* What a plan says of a file, read with the records it was made under.       *)
UserRecords(r) ==
  /\ r = [f \in DOMAIN r |-> r[f]]
  /\ \A f \in DOMAIN r : Class[f] = "user" => r[f] = InstalledRecord(f, Target)
FitAction(p, f) ==
  LET a == p.actions[f] IN
  /\ a.result # "retain" => f \in DOMAIN p.records
  /\ a.result = "update" =>
       a.content \in Text /\ (p.op = "update" => a.content.block = Block[f][Target])
  /\ a.result = "remove" => p.op = "uninstall"
  /\ a.result \in {"update", "remove"} /\ Class[f] = "engine" =>
       a.content \in {Missing, Template(f, Target)}
  /\ a.content \in Text /\ a.content.own => Class[f] = "customizable"
Fit(p) ==
  /\ p.op \in {"update", "uninstall"} /\ UserRecords(p.records)
  /\ \A f \in Files : FitAction(p, f)
Planned(p, f) ==
  /\ f \in DOMAIN p.records /\ Class[f] # "user" => p.actions[f].result # "retain"
  /\ p.op = "update" => f \in DOMAIN p.records
Complete(p) == \A f \in Files : Planned(p, f)

(* What holds of a call wherever it is, ...                                   *)
Moving == {"planFiles", "look", "write", "initLook", "initWrite"}
InTurn(c) ==
  /\ pc[c] = "planRecords" => \A f \in Files : plan[c].actions[f].result = "retain"
  /\ pc[c] \in Planning \cup {"planned"} \cup Mutating => Fit(plan[c])
  /\ pc[c] = "planFiles" => \A i \in 1 .. at[c] - 1 : Planned(plan[c], Paths[i])
  /\ pc[c] \in {"planned"} \cup Mutating => Complete(plan[c])
  /\ pc[c] \notin Moving => at[c] = 1
  /\ pc[c] = "journal" => journal = Missing
  /\ pc[c] \in Mutating \ {"journal"} => journal # Missing /\ plan[c] = journal
  /\ pc[c] \in Planning \cup Installing /\ c \notin hurried => journal = Missing
  /\ pc[c] = "planFiles" /\ c \notin hurried => records # Missing /\ plan[c].records = records
  /\ pc[c] = "initWrite" /\ Current(c) \notin touched =>
       file[Current(c)] \in {Missing, Template(Current(c), Target)}
  /\ pc[c] = "initManifest" /\ c \notin hurried => records = InitialRecords

(* ... of one that carries out a plan: what it has done so far, ...           *)
Done(p, f) == p.actions[f].result = "retain" \/ file[f] = p.actions[f].content
Clean(p) == p.op = "uninstall" /\ ~HasConflicts(p)
Finished(p) ==
  IF Clean(p) THEN NoStore
  ELSE /\ records = NewRecords(p)
       /\ installed = IF HasConflicts(p) THEN p.installed ELSE Target
Closing == {"writeRecords", "writeManifest", "removeManifest", "removeRecords", "removeJournal"}
Carrying(c) ==
  /\ pc[c] \in {"look", "write"} =>
       \A i \in 1 .. at[c] - 1 : Paths[i] \in touched \/ Done(plan[c], Paths[i])
  /\ pc[c] \in Closing => \A f \in Files \ touched : Done(plan[c], f)
  /\ pc[c] \in {"writeRecords", "writeManifest"} => ~Clean(plan[c])
  /\ pc[c] \in {"removeManifest", "removeRecords"} => Clean(plan[c])
  /\ pc[c] = "writeManifest" => records = NewRecords(plan[c])
  /\ pc[c] = "removeRecords" => installed = Missing
  /\ pc[c] = "removeJournal" => Finished(plan[c])

(* ... of a plan that was made while nobody wrote, ...                        *)
UserFilesThere(r) ==
  touched = {} => \A f \in DOMAIN r : Class[f] = "user" => file[f] # Missing
Good(p) ==
  /\ \A f \in Files \ touched : p.actions[f].result # "conflict"
  /\ UserFilesThere(p.records)
AsCompared(c) ==
  \A f \in Files \ later :
    plan[c].actions[f].result # "retain" => file[f] = plan[c].actions[f].expected

(* ... and of an initialisation that looked at the files.                     *)
InPlace(f) == file[f] # Missing /\ (Class[f] = "engine" => file[f] = Template(f, Target))
Looked(c) ==
  /\ pc[c] \in {"initLook", "initWrite"} =>
       \A i \in 1 .. at[c] - 1 : Paths[i] \in Generated \ touched => InPlace(Paths[i])
  /\ pc[c] \in {"initRecords", "initManifest"} =>
       \A f \in Generated \ touched : InPlace(f)
Uncrossed(c) ==
  /\ Carrying(c)
  /\ pc[c] \in {"planFiles", "planned", "journal"} /\ c \notin hurried => Good(plan[c])
  /\ pc[c] = "journal" => AsCompared(c)
  /\ c \notin hurried => Looked(c)

(* The store: what is pending can be finished, and is there nothing pending,  *)
(* it is as a release installs it.                                            *)
Owned == \A f \in Files : file[f] \in Text /\ file[f].own => Class[f] = "customizable"
Recoverable ==
  \A f \in Files \ later :
    \/ journal.actions[f].result = "retain"
    \/ file[f] \in {journal.actions[f].expected, journal.actions[f].content}
BasesFit ==
  \A f \in DOMAIN records \ touched :
    Class[f] # "user" => file[f] # Missing /\ file[f].block = records[f].base
Coherent ==
  /\ installed # Missing => records # Missing
  /\ records # Missing => BasesFit /\ UserFilesThere(records)
  /\ touched = {} => NoStore \/ AsInstalled \/ CutShort
StoreFits ==
  /\ Owned
  /\ records # Missing => UserRecords(records)
  /\ journal # Missing => Fit(journal) /\ Complete(journal)
StoreIsSound ==
  /\ journal # Missing => Good(journal) /\ Recoverable
  /\ journal = Missing => Coherent
OpInv ==
  /\ StoreFits /\ \A c \in Call : InTurn(c)
  /\ ~crossed => StoreIsSound /\ \A c \in Call : Uncrossed(c)

-------------------------------------------------------------------------------
(* A call that does not move keeps what holds of it, if the others leave      *)
(* alone what it relies on.                                                   *)
LEMMA InTurnStays ==
  ASSUME NEW d \in Call, InTurn(d),
         pc'[d] = pc[d], at'[d] = at[d], plan'[d] = plan[d],
         touched \subseteq touched', d \in hurried => d \in hurried',
         pc[d] = "journal" => journal' = journal,
         pc[d] \in Mutating \ {"journal"} => journal' = journal,
         pc[d] \in Planning \cup Installing /\ d \notin hurried' => journal' = journal,
         pc[d] = "planFiles" /\ d \notin hurried' => records' = records,
         pc[d] = "initManifest" /\ d \notin hurried' => records' = records,
         pc[d] = "initWrite" /\ Current(d) \notin touched' =>
           file'[Current(d)] \in {file[Current(d)], Missing, Template(Current(d), Target)}
  PROVE  InTurn(d)'
<1>1. Current(d)' = Current(d) BY DEF Current
<1>2. pc'[d] = "planFiles" => \A i \in 1 .. at'[d] - 1 : Planned(plan'[d], Paths[i])
  BY DEF InTurn
<1>3. /\ pc'[d] = "planRecords" => \A f \in Files : plan'[d].actions[f].result = "retain"
      /\ pc'[d] \in Planning \cup {"planned"} \cup Mutating => Fit(plan'[d])
  BY DEF InTurn
<1>4. pc'[d] \in {"planned"} \cup Mutating => Complete(plan'[d])
  BY DEF InTurn
<1>5. pc'[d] \notin Moving => at'[d] = 1
  BY DEF InTurn
<1>6. /\ pc'[d] = "journal" => journal' = Missing
      /\ pc'[d] \in Mutating \ {"journal"} => journal' # Missing /\ plan'[d] = journal'
      /\ pc'[d] \in Planning \cup Installing /\ d \notin hurried' => journal' = Missing
  BY DEF InTurn
<1>7. /\ pc'[d] = "planFiles" /\ d \notin hurried' =>
           records' # Missing /\ plan'[d].records = records'
      /\ pc'[d] = "initManifest" /\ d \notin hurried' => records' = InitialRecords
  BY DEF InTurn
<1>8. pc'[d] = "initWrite" /\ Current(d)' \notin touched' =>
        file'[Current(d)'] \in {Missing, Template(Current(d)', Target)}
  BY <1>1 DEF InTurn
<1> QED BY <1>2, <1>3, <1>4, <1>5, <1>6, <1>7, <1>8 DEF InTurn

LEMMA UncrossedStays ==
  ASSUME NEW d \in Call, Uncrossed(d), TypeOK,
         pc'[d] = pc[d], at'[d] = at[d], plan'[d] = plan[d],
         pc[d] \in Planful => SafePlan(plan[d]),
         touched \subseteq touched', d \in hurried => d \in hurried',
         pc[d] \in Mutating =>
           /\ \A f \in Files \ touched' : file'[f] = file[f]
           /\ records' = records /\ installed' = installed,
         pc[d] = "journal" => \A f \in Files \ later' : f \notin later /\ file'[f] = file[f],
         pc[d] \in {"planFiles", "planned", "journal"} /\ touched' = {} =>
           \A f \in Files : Class[f] = "user" /\ file[f] # Missing => file'[f] # Missing,
         pc[d] \in Installing /\ d \notin hurried' =>
           \A f \in Generated \ touched' : InPlace(f) => InPlace(f)'
  PROVE  Uncrossed(d)'
<1> USE DEF Mutating
<1>1. Carrying(d)'
  <2>1. pc'[d] \in {"look", "write"} =>
          \A i \in 1 .. at'[d] - 1 : Paths[i] \in touched' \/ Done(plan[d], Paths[i])'
    <3> SUFFICES ASSUME pc[d] \in {"look", "write"}, NEW i \in 1 .. at[d] - 1,
                        Paths[i] \notin touched'
                 PROVE  Done(plan[d], Paths[i])'
      OBVIOUS
    <3>1. Paths[i] \in Files BY ConstantFacts DEF TypeOK
    <3>2. Done(plan[d], Paths[i]) BY DEF Uncrossed, Carrying
    <3>3. file'[Paths[i]] = file[Paths[i]] BY <3>1
    <3> QED BY <3>2, <3>3 DEF Done
  <2>2. pc'[d] \in Closing => \A f \in Files \ touched' : Done(plan[d], f)'
    <3> SUFFICES ASSUME pc[d] \in Closing, NEW f \in Files \ touched'
                 PROVE  Done(plan[d], f)'
      OBVIOUS
    <3>1. Done(plan[d], f) BY DEF Uncrossed, Carrying
    <3>2. file'[f] = file[f] BY DEF Closing
    <3> QED BY <3>1, <3>2 DEF Done
  <2>3. /\ pc'[d] \in {"writeRecords", "writeManifest"} => ~Clean(plan'[d])
        /\ pc'[d] \in {"removeManifest", "removeRecords"} => Clean(plan'[d])
        /\ pc'[d] = "writeManifest" => records' = NewRecords(plan'[d])
        /\ pc'[d] = "removeRecords" => installed' = Missing
    BY DEF Uncrossed, Carrying
  <2>4. pc'[d] = "removeJournal" => Finished(plan[d])'
    BY DEF Uncrossed, Carrying, Finished, NoStore
  <2> QED BY <2>1, <2>2, <2>3, <2>4 DEF Carrying
<1>2. pc'[d] \in {"planFiles", "planned", "journal"} /\ d \notin hurried' => Good(plan[d])'
  <2> SUFFICES ASSUME pc[d] \in {"planFiles", "planned", "journal"}, d \notin hurried'
               PROVE  Good(plan[d])'
    OBVIOUS
  <2>1. Good(plan[d]) BY DEF Uncrossed
  <2>2. SafePlan(plan[d]) BY DEF Planful, Planning
  <2>3. DOMAIN plan[d].records \subseteq Files BY <2>2 DEF SafePlan, IsRecords
  <2>4. \A f \in Files \ touched' : plan[d].actions[f].result # "conflict" BY <2>1 DEF Good
  <2>5. touched' = {} => \A f \in DOMAIN plan[d].records : Class[f] = "user" => file'[f] # Missing
    BY <2>1, <2>3 DEF Good, UserFilesThere
  <2> QED BY <2>4, <2>5 DEF Good, UserFilesThere
<1>3. pc'[d] = "journal" => AsCompared(d)'
  BY DEF Uncrossed, AsCompared
<1>4. d \notin hurried' => Looked(d)'
  <2> SUFFICES ASSUME d \notin hurried' PROVE Looked(d)'
    OBVIOUS
  <2>1. Looked(d) BY DEF Uncrossed
  <2>2. ASSUME pc[d] \in {"initLook", "initWrite"}, NEW i \in 1 .. at[d] - 1,
               Paths[i] \in Generated \ touched'
        PROVE  InPlace(Paths[i])'
    <3>1. InPlace(Paths[i]) BY <2>1, <2>2 DEF Looked
    <3> QED BY <2>2, <3>1 DEF Installing
  <2>3. ASSUME pc[d] \in {"initRecords", "initManifest"}, NEW f \in Generated \ touched'
        PROVE  InPlace(f)'
    <3>1. InPlace(f) BY <2>1, <2>3 DEF Looked
    <3> QED BY <2>3, <3>1 DEF Installing
  <2> QED BY <2>2, <2>3 DEF Looked
<1> QED BY <1>1, <1>2, <1>3, <1>4 DEF Uncrossed

(* The store where a step leaves it alone.                                    *)
LEMMA StoreFitsStays ==
  ASSUME StoreFits, UNCHANGED store PROVE StoreFits'
  BY DEF StoreFits, store, Owned

LEMMA StoreStaysSound ==
  ASSUME StoreIsSound, UNCHANGED store, touched' = touched,
         journal # Missing => later' = later
  PROVE  StoreIsSound'
<1>1. journal # Missing => Good(journal)' /\ Recoverable'
  BY DEF StoreIsSound, Good, UserFilesThere, Recoverable, store
<1>2. journal = Missing => Coherent'
  BY DEF StoreIsSound, Coherent, store, BasesFit, UserFilesThere, AsInstalled, Sound,
         NoStore, CutShort
<1> QED BY <1>1, <1>2 DEF StoreIsSound, store

LEMMA ReturnSound ==
  ASSUME TypeOK, PlansAreSafe, NEW c \in Call, NEW o, Return(c, o)
  PROVE  InTurn(c)' /\ Uncrossed(c)'
<1>1. pc'[c] = "idle" /\ at'[c] = 1 BY DEF TypeOK, Return, GoTo
<1>2. InTurn(c)' BY <1>1 DEF InTurn, Moving, Planning, Mutating, Installing
<1>3. Uncrossed(c)' BY <1>1 DEF Uncrossed, Carrying, Closing, Looked
<1> QED BY <1>2, <1>3

(* A step of a call that leaves the store alone.                              *)
LEMMA StoreLeft ==
  ASSUME IInv, OpInv, NEW c \in Call, Alone(c), UNCHANGED <<store, touched, crossed>>,
         hurried \ {c} = hurried' \ {c},
         later' = later \/ (WriterLockFree /\ journal = Missing),
         InTurn(c)', ~crossed => Uncrossed(c)'
  PROVE  OpInv'
<1>1. StoreFits' BY StoreFitsStays DEF OpInv
<1>2. ~crossed' => StoreIsSound'
  BY StoreStaysSound DEF OpInv
<1>3. ASSUME NEW d \in Call, d # c PROVE InTurn(d)'
  <2>1. pc'[d] = pc[d] /\ at'[d] = at[d] /\ plan'[d] = plan[d] /\ (d \in hurried => d \in hurried')
    BY <1>3 DEF Alone
  <2> QED BY <2>1, InTurnStays DEF OpInv, store
<1>4. ASSUME NEW d \in Call, d # c, ~crossed' PROVE Uncrossed(d)'
  <2>1. pc'[d] = pc[d] /\ at'[d] = at[d] /\ plan'[d] = plan[d] /\ (d \in hurried => d \in hurried')
    BY <1>4 DEF Alone
  <2>2. pc[d] = "journal" => later' = later BY DEF WriterLockFree, Mutating
  <2>3. \A f : InPlace(f) => InPlace(f)' BY DEF InPlace, store
  <2>4. pc[d] \in Planful => SafePlan(plan[d]) BY DEF IInv, PlansAreSafe, Planful
  <2> QED BY <1>4, <2>1, <2>2, <2>3, <2>4, UncrossedStays DEF OpInv, store, IInv
<1> QED BY <1>1, <1>2, <1>3, <1>4 DEF OpInv

-------------------------------------------------------------------------------
(* What a plan made now says of a file fits it, and is no conflict if the     *)
(* user never touched the file and nobody wrote while it was made.            *)
LEMMA ActionOnFits ==
  ASSUME NEW op \in {"update", "uninstall"}, NEW f \in Files,
         NEW base \in Templates \cup {None}, NEW x \in Text,
         x.own => Class[f] = "customizable"
  PROVE  LET a == ActionOn(op, f, base, x) IN
         /\ a.result # "retain"
         /\ a.result = "update" =>
              a.content \in Text /\ (op = "update" => a.content.block = Block[f][Target])
         /\ a.result = "remove" => op = "uninstall"
         /\ a.result \in {"update", "remove"} /\ Class[f] = "engine" =>
              a.content \in {Missing, Template(f, Target)}
         /\ a.content \in Text /\ a.content.own => Class[f] = "customizable"
         /\ x.block = base => a.result # "conflict"
<1> DEFINE a == ActionOn(op, f, base, x)
<1>1. /\ Block[f][Target] \in Templates /\ NoBlock # Changed /\ Missing \notin Text
  BY ConstantFacts, ManagedProjectConstants
<1>2. /\ x = [block |-> x.block, own |-> x.own] /\ x.own \in BOOLEAN
      /\ [x EXCEPT !.block = Block[f][Target]] = [block |-> Block[f][Target], own |-> x.own]
      /\ [x EXCEPT !.block = NoBlock] = [block |-> NoBlock, own |-> x.own]
  BY DEF Text
<1>3. \A o \in BOOLEAN : /\ [block |-> Block[f][Target], own |-> o] \in Text
                         /\ [block |-> NoBlock, own |-> o] \in Text
  BY <1>1 DEF Text
<1>4. CASE ~Intact(f, base, x)
  <2>1. a = Conflict(x)
    BY <1>4 DEF ActionOn, UpdateAction, UninstallAction
  <2>2. x.block # base
    BY <1>4, ManagedProjectConstants DEF Intact
  <2> HIDE DEF a
  <2> QED BY <2>1, <2>2 DEF Conflict, a
<1>5. CASE Intact(f, base, x) /\ op = "update"
  <2>1. a = Change(x, [block |-> Block[f][Target], own |-> x.own])
    BY <1>2, <1>5 DEF ActionOn, UpdateAction
  <2>2. Class[f] = "engine" => ~x.own BY <1>5 DEF Intact
  <2>3. Class[f] = "engine" => [block |-> Block[f][Target], own |-> x.own] = Template(f, Target)
    BY <1>2, <2>2 DEF Template
  <2> HIDE DEF a
  <2> QED BY <1>2, <1>3, <2>1, <2>3 DEF Change, a
<1>6. CASE Intact(f, base, x) /\ op # "update" /\ x.own
  <2>1. a = Change(x, [block |-> NoBlock, own |-> x.own])
    BY <1>2, <1>6 DEF ActionOn, UninstallAction
  <2>2. Class[f] # "engine" BY <1>6 DEF Intact
  <2>3. a.result = "update" /\ a.content = [block |-> NoBlock, own |-> x.own]
    BY <2>1 DEF Change
  <2>4. a.content.own = x.own BY <2>3
  <2> HIDE DEF a
  <2> QED BY <1>3, <1>6, <1>2, <2>2, <2>3, <2>4 DEF a
<1>7. CASE Intact(f, base, x) /\ op # "update" /\ ~x.own
  <2>1. a = Remove(x)
    BY <1>7 DEF ActionOn, UninstallAction
  <2> HIDE DEF a
  <2> QED BY <1>1, <1>7, <2>1 DEF Remove, a
<1> QED BY <1>4, <1>5, <1>6, <1>7

LEMMA PlanMutationSound ==
  ASSUME IInv, OpInv, NEW c \in Call, NEW op \in {"update", "uninstall"}, PlanMutation(c, op)
  PROVE  OpInv'
<1> USE DEF Planning, Mutating, Installing, Moving, Closing
<1>1. Alone(c) /\ UNCHANGED <<store, touched, later, crossed>> /\ hurried \ {c} = hurried' \ {c}
  BY StepShape DEF PlanMutation, CallStep, Shape, IInv, Return, Read
<1>2. CASE installed = Missing
  <2>1. Return(c, "refused") BY <1>2 DEF PlanMutation
  <2> QED BY <1>1, <2>1, ReturnSound, StoreLeft DEF IInv
<1>3. CASE installed # Missing
  <2> DEFINE q == [op |-> op, installed |-> installed, records |-> <<>>,
                   actions |-> [f \in Files |-> Retain]]
  <2>1. /\ pc' = [pc EXCEPT ![c] = "planRecords"] /\ at' = at /\ plan' = [plan EXCEPT ![c] = q]
        /\ Read(c) /\ pc[c] = "idle" /\ journal' = journal
    BY <1>3 DEF PlanMutation, GoTo, Start, store
  <2>2. pc'[c] = "planRecords" /\ at'[c] = 1 /\ plan'[c] = q
    BY <2>1 DEF IInv, TypeOK, PlansAreSafe, OpInv, InTurn
  <2>3. Fit(q)
    BY ManagedProjectConstants DEF Fit, FitAction, UserRecords, Retain
  <2>4. c \notin hurried' => journal' = Missing
    BY <2>1 DEF Read, Disturbed, store, IInv, TypeOK
  <2> HIDE DEF q
  <2>5. Fit(plan[c])' BY <2>2, <2>3 DEF Fit, FitAction, UserRecords
  <2>6. InTurn(c)'
    <3>1. \A f \in Files : q.actions[f].result = "retain" BY DEF q, Retain
    <3> QED BY <2>2, <2>4, <2>5, <3>1 DEF InTurn
  <2>7. Uncrossed(c)' BY <2>2 DEF Uncrossed, Carrying, Looked
  <2> QED BY <1>1, <2>6, <2>7, StoreLeft
<1> QED BY <1>2, <1>3

LEMMA PlanRecordsSound ==
  ASSUME IInv, OpInv, NEW c \in Call, PlanRecords(c) PROVE OpInv'
<1> USE DEF Planning, Mutating, Installing, Moving, Closing
<1>1. Alone(c) /\ UNCHANGED <<store, touched, later, crossed>> /\ hurried \ {c} = hurried' \ {c}
  BY StepShape DEF PlanRecords, CallStep, Shape, IInv, Return, Read
<1>2. CASE records = Missing
  <2>1. Return(c, "refused") BY <1>2 DEF PlanRecords
  <2> QED BY <1>1, <2>1, ReturnSound, StoreLeft DEF IInv
<1>3. CASE records # Missing
  <2> DEFINE q == [plan[c] EXCEPT !.records = records]
  <2>1. /\ pc' = [pc EXCEPT ![c] = "planFiles"] /\ at' = at /\ plan' = [plan EXCEPT ![c] = q]
        /\ Read(c) /\ pc[c] = "planRecords"
        /\ journal' = journal /\ records' = records
    BY <1>3 DEF PlanRecords, GoTo, store
  <2>2. pc'[c] = "planFiles" /\ at'[c] = 1 /\ plan'[c] = q
    BY <2>1 DEF IInv, TypeOK, PlansAreSafe, OpInv, InTurn
  <2>3. Fit(plan[c]) /\ SafePlan(plan[c])
    BY <2>1 DEF OpInv, InTurn, IInv, PlansAreSafe
  <2>4. q.op = plan[c].op /\ q.records = records /\ q.actions = plan[c].actions
    BY <2>3 DEF SafePlan
  <2>5. c \notin hurried' => journal' = Missing
    BY <2>1 DEF Read, Disturbed
  <2> HIDE DEF q
  <2>6. \A f \in Files : q.actions[f].result = "retain"
    BY <2>1, <2>4 DEF OpInv, InTurn
  <2>7. Fit(q)
    BY <1>3, <2>3, <2>4, <2>6 DEF Fit, FitAction, OpInv, StoreFits
  <2>8. Fit(plan[c])' BY <2>2, <2>7 DEF Fit, FitAction, UserRecords
  <2>9. InTurn(c)' BY <1>3, <2>1, <2>2, <2>4, <2>5, <2>8 DEF InTurn
  <2>10. c \notin hurried' /\ ~crossed => Good(plan[c])'
    <3> SUFFICES ASSUME c \notin hurried', ~crossed PROVE Good(plan[c])'
      OBVIOUS
    <3>1. UserFilesThere(records)
      BY <1>3, <2>1, <2>5 DEF OpInv, StoreIsSound, Coherent
    <3>2. touched' = touched /\ file' = file BY <1>1 DEF store
    <3> QED BY <2>2, <2>4, <2>6, <3>1, <3>2 DEF Good, UserFilesThere
  <2>11. ~crossed => Uncrossed(c)' BY <2>2, <2>10 DEF Uncrossed, Carrying, Looked
  <2> QED BY <1>1, <2>9, <2>11, StoreLeft
<1> QED BY <1>2, <1>3

-------------------------------------------------------------------------------
(* The files before the one a call is at, that one, and after the last one    *)
(* all of them.                                                               *)
LEMMA Passed ==
  ASSUME TypeOK, NEW c \in Call, NEW S,
         \A i \in 1 .. at[c] - 1 : Paths[i] \in S, Current(c) \in S
  PROVE  /\ \A i \in 1 .. at[c] : Paths[i] \in S
         /\ ~(at[c] < Len(Paths)) => Files \subseteq S
<1>1. at[c] \in 1 .. Len(Paths) /\ Len(Paths) \in Nat \ {0} BY ConstantFacts DEF TypeOK
<1>2. ASSUME NEW i \in 1 .. at[c] PROVE Paths[i] \in S
  <2>1. i = at[c] \/ i \in 1 .. at[c] - 1 BY <1>1
  <2> QED BY <2>1 DEF Current
<1>3. ASSUME ~(at[c] < Len(Paths)), NEW f \in Files PROVE f \in S
  <2>1. PICK i \in 1 .. Len(Paths) : f = Paths[i] BY DEF Files
  <2>2. i \in 1 .. at[c] BY <1>1, <1>3
  <2> QED BY <1>2, <2>1, <2>2
<1> QED BY <1>2, <1>3

LEMMA ProceedTo ==
  ASSUME TypeOK, NEW c \in Call, NEW p, NEW q, Proceed(c, p, q), p # q
  PROVE  \/ pc'[c] = p /\ at[c] < Len(Paths) /\ at'[c] = at[c] + 1 /\ at'[c] - 1 = at[c]
         \/ pc'[c] = q /\ ~(at[c] < Len(Paths)) /\ at'[c] = 1
<1>1. at[c] \in Nat BY ConstantFacts DEF TypeOK
<1> QED BY <1>1 DEF TypeOK, Proceed, GoTo

LEMMA PlanFileSound ==
  ASSUME IInv, OpInv, NEW c \in Call, PlanFile(c) PROVE OpInv'
<1> USE DEF Planning, Mutating, Installing, Moving, Closing
<1> DEFINE f == Current(c)
<1>1. Alone(c) /\ UNCHANGED <<store, touched, later, crossed>> /\ hurried \ {c} = hurried' \ {c}
  BY StepShape DEF PlanFile, CallStep, Shape, IInv, Return, Read
<1>2. CASE ~Plannable(c)
  <2>1. Return(c, "refused") BY <1>2 DEF PlanFile
  <2> QED BY <1>1, <2>1, ReturnSound, StoreLeft DEF IInv
<1>3. CASE Plannable(c)
  <2> DEFINE a == ActionOn(plan[c].op, f, plan[c].records[f].base, file[f])
             q == [plan[c] EXCEPT !.actions[f] = a]
             skip == f \notin DOMAIN plan[c].records \/ Class[f] = "user"
  <2>1. /\ pc[c] = "planFiles" /\ Proceed(c, "planFiles", "planned") /\ Read(c)
        /\ journal' = journal /\ records' = records /\ file' = file /\ touched' = touched
        /\ plan' = IF skip THEN plan ELSE [plan EXCEPT ![c] = q]
    BY <1>3 DEF PlanFile, store
  <2>2. Fit(plan[c]) /\ SafePlan(plan[c]) /\ f \in Files
    BY <2>1, CurrentIsFile DEF OpInv, InTurn, IInv, PlansAreSafe
  <2>3. /\ plan'[c].op = plan[c].op /\ plan'[c].records = plan[c].records
        /\ \A g \in Files \ {f} : plan'[c].actions[g] = plan[c].actions[g]
        /\ skip => plan'[c].actions[f] = plan[c].actions[f]
        /\ ~skip => plan'[c].actions[f] = a
    <3>1. CASE skip BY <2>1, <3>1
    <3>2. CASE ~skip
      <4>1. plan'[c] = q BY <2>1, <3>2 DEF IInv, PlansAreSafe
      <4>2. q = [op |-> plan[c].op, installed |-> plan[c].installed,
                 records |-> plan[c].records, actions |-> [plan[c].actions EXCEPT ![f] = a]]
        BY <2>2 DEF SafePlan
      <4>3. plan[c].actions \in [Files -> Action] BY <2>2 DEF SafePlan
      <4> HIDE DEF q, a, f
      <4> QED BY <2>2, <3>2, <4>1, <4>2, <4>3
    <3> QED BY <3>1, <3>2
  <2>4. ~skip =>
          /\ plan[c].op \in {"update", "uninstall"}
          /\ plan[c].records[f].base \in Templates \cup {None} /\ file[f] \in Text
          /\ file[f].own => Class[f] = "customizable"
    BY <1>3, <2>2 DEF Fit, SafePlan, IsRecords, Record, Plannable, IInv, TypeOK,
                      OpInv, StoreFits, Owned
  <2>5. ~skip =>
         /\ a.result # "retain"
         /\ a.result = "update" =>
              a.content \in Text /\ (plan[c].op = "update" => a.content.block = Block[f][Target])
         /\ a.result = "remove" => plan[c].op = "uninstall"
         /\ a.result \in {"update", "remove"} /\ Class[f] = "engine" =>
              a.content \in {Missing, Template(f, Target)}
         /\ a.content \in Text /\ a.content.own => Class[f] = "customizable"
         /\ file[f].block = plan[c].records[f].base => a.result # "conflict"
    <3> SUFFICES ASSUME ~skip PROVE
         /\ a.result # "retain"
         /\ a.result = "update" =>
              a.content \in Text /\ (plan[c].op = "update" => a.content.block = Block[f][Target])
         /\ a.result = "remove" => plan[c].op = "uninstall"
         /\ a.result \in {"update", "remove"} /\ Class[f] = "engine" =>
              a.content \in {Missing, Template(f, Target)}
         /\ a.content \in Text /\ a.content.own => Class[f] = "customizable"
         /\ file[f].block = plan[c].records[f].base => a.result # "conflict"
      OBVIOUS
    <3> HIDE DEF f
    <3> QED BY <2>2, <2>4, ActionOnFits
  <2> HIDE DEF a
  <2>6. \A g \in Files : FitAction(plan'[c], g)
    <3> SUFFICES ASSUME NEW g \in Files PROVE FitAction(plan'[c], g)
      OBVIOUS
    <3>1. FitAction(plan[c], g) BY <2>2 DEF Fit
    <3>2. CASE g = f /\ ~skip
      <4> HIDE DEF f
      <4> QED BY <2>3, <2>5, <3>2 DEF FitAction
    <3>3. CASE ~(g = f /\ ~skip)
      <4>1. plan'[c].actions[g] = plan[c].actions[g] BY <2>3, <3>3
      <4> QED BY <2>3, <3>1, <4>1 DEF FitAction
    <3> QED BY <3>2, <3>3
  <2>7. Fit(plan[c])'
    <3>1. Fit(plan'[c]) BY <2>2, <2>3, <2>6 DEF Fit
    <3> QED BY <3>1 DEF Fit, FitAction, UserRecords
  <2>8. \A g \in Files : Planned(plan[c], g) \/ g = f => Planned(plan'[c], g)
    <3> SUFFICES ASSUME NEW g \in Files, Planned(plan[c], g) \/ g = f
                 PROVE  Planned(plan'[c], g)
      OBVIOUS
    <3>1. CASE g = f /\ ~skip
      BY <2>3, <2>5, <3>1 DEF Planned
    <3>2. CASE g = f /\ skip
      BY <1>3, <2>3, <3>2 DEF Planned, Plannable
    <3>3. CASE g # f
      <4>1. plan'[c].actions[g] = plan[c].actions[g] BY <2>3, <3>3
      <4> QED BY <2>3, <3>3, <4>1 DEF Planned
    <3> QED BY <3>1, <3>2, <3>3
  <2>9. /\ \A i \in 1 .. at[c] : Planned(plan'[c], Paths[i])
        /\ ~(at[c] < Len(Paths)) => Complete(plan'[c])
    <3> DEFINE S == {g \in Files : Planned(plan'[c], g)}
    <3>1. f \in S BY <2>2, <2>8
    <3>2. \A i \in 1 .. at[c] - 1 : Paths[i] \in S
      <4> SUFFICES ASSUME NEW i \in 1 .. at[c] - 1 PROVE Paths[i] \in S
        OBVIOUS
      <4>1. Planned(plan[c], Paths[i]) BY <2>1 DEF OpInv, InTurn
      <4>2. Paths[i] \in Files
        <5>1. i \in 1 .. Len(Paths) BY ConstantFacts DEF IInv, TypeOK
        <5> QED BY <5>1, ConstantFacts
      <4> QED BY <2>8, <4>1, <4>2
    <3>3. /\ \A i \in 1 .. at[c] : Paths[i] \in S
          /\ ~(at[c] < Len(Paths)) => Files \subseteq S
      <4> HIDE DEF S
      <4> QED BY <3>1, <3>2, Passed DEF IInv
    <3> QED BY <3>3 DEF Complete
  <2>10. \/ pc'[c] = "planFiles" /\ at[c] < Len(Paths) /\ at'[c] - 1 = at[c]
         \/ pc'[c] = "planned" /\ ~(at[c] < Len(Paths)) /\ at'[c] = 1
    BY <2>1, ProceedTo DEF IInv
  <2>11. c \notin hurried' => c \notin hurried /\ journal = Missing /\ journal' = Missing
    BY <2>1 DEF Read, Disturbed
  <2>12. InTurn(c)'
    <3>1. pc'[c] = "planFiles" => \A i \in 1 .. at'[c] - 1 : Planned(plan'[c], Paths[i])
      BY <2>9, <2>10
    <3>2. pc'[c] = "planned" => Complete(plan'[c]) BY <2>9, <2>10
    <3>3. pc'[c] = "planFiles" /\ c \notin hurried' =>
            records' # Missing /\ plan'[c].records = records'
      BY <2>1, <2>3, <2>11 DEF OpInv, InTurn
    <3> QED BY <2>7, <2>10, <2>11, <3>1, <3>2, <3>3 DEF InTurn
  <2>13. c \notin hurried' /\ ~crossed => Good(plan[c])'
    <3> SUFFICES ASSUME c \notin hurried', ~crossed PROVE Good(plan[c])'
      OBVIOUS
    <3>1. Good(plan[c]) BY <2>1, <2>11 DEF OpInv, Uncrossed
    <3>2. ~skip /\ f \notin touched => a.result # "conflict"
      <4> SUFFICES ASSUME ~skip, f \notin touched PROVE a.result # "conflict"
        OBVIOUS
      <4>1. records # Missing /\ plan[c].records = records
        BY <2>1, <2>11 DEF OpInv, InTurn
      <4>2. BasesFit BY <2>11, <4>1 DEF OpInv, StoreIsSound, Coherent
      <4>3. file[f].block = records[f].base BY <4>1, <4>2 DEF BasesFit
      <4> QED BY <2>5, <4>1, <4>3
    <3>3. \A g \in Files \ touched : plan'[c].actions[g].result # "conflict"
      <4> SUFFICES ASSUME NEW g \in Files \ touched
                   PROVE  plan'[c].actions[g].result # "conflict"
        OBVIOUS
      <4>1. CASE g = f /\ ~skip BY <2>3, <3>2, <4>1
      <4>2. CASE ~(g = f /\ ~skip)
        <5>1. plan'[c].actions[g] = plan[c].actions[g] BY <2>3, <4>2
        <5> QED BY <3>1, <5>1 DEF Good
      <4> QED BY <4>1, <4>2
    <3> QED BY <2>1, <2>3, <3>1, <3>3 DEF Good, UserFilesThere
  <2>14. ~crossed => Uncrossed(c)'
    BY <2>10, <2>13 DEF Uncrossed, Carrying, Looked
  <2> QED BY <1>1, <2>12, <2>14, StoreLeft
<1> QED BY <1>2, <1>3

(* Steps that end a call and change nothing.                                  *)
LEMMA EndSound ==
  ASSUME IInv, OpInv, NEW c \in Call, Discard(c) \/ InitCheck(c) \/ Fault(c) PROVE OpInv'
<1>1. /\ Alone(c) /\ UNCHANGED <<store, touched, later, crossed>>
      /\ \E o : Return(c, o)
  BY StepShape DEF Discard, InitCheck, Fault, CallStep, Install, Shape, IInv
<1>2. InTurn(c)' /\ Uncrossed(c)' BY <1>1, ReturnSound DEF IInv
<1>3. hurried \ {c} = hurried' \ {c} BY <1>1 DEF Return
<1> QED BY <1>1, <1>2, <1>3, StoreLeft

LEMMA ApplySound ==
  ASSUME IInv, OpInv, NEW c \in Call, Apply(c) PROVE OpInv'
<1> USE DEF Planning, Mutating, Installing, Moving, Closing
<1>1. Alone(c) /\ UNCHANGED <<store, touched, crossed>> /\ hurried \ {c} = hurried' \ {c}
  BY StepShape DEF Apply, CallStep, Carry, Shape, IInv, Return
<1>2. CASE ~(journal = Missing /\ Snapshot(plan[c]))
  <2>1. later' = later /\ \E o : Return(c, o) BY <1>2 DEF Apply
  <2>2. InTurn(c)' /\ Uncrossed(c)' BY <2>1, ReturnSound DEF IInv
  <2> QED BY <1>1, <2>1, <2>2, StoreLeft
<1>3. CASE journal = Missing /\ Snapshot(plan[c])
  <2>1. /\ pc[c] = "planned" /\ pc' = [pc EXCEPT ![c] = "journal"] /\ later' = {}
        /\ UNCHANGED <<at, plan, hurried, file, journal, touched>> /\ WriterLockFree
    BY <1>3 DEF Apply, GoTo, store
  <2>2. pc'[c] = "journal" BY <2>1 DEF IInv, TypeOK
  <2>3. Fit(plan[c])' /\ Complete(plan[c])'
    BY <2>1 DEF OpInv, InTurn
  <2>4. InTurn(c)' BY <1>3, <2>1, <2>2, <2>3 DEF OpInv, InTurn
  <2>5. AsCompared(c)' BY <1>3, <2>1 DEF AsCompared, Snapshot
  <2>6. c \notin hurried' /\ ~crossed => Good(plan[c])'
    BY <2>1 DEF OpInv, Uncrossed, Good, UserFilesThere
  <2>7. ~crossed => Uncrossed(c)' BY <2>2, <2>5, <2>6 DEF Uncrossed, Carrying, Looked
  <2> QED BY <1>1, <1>3, <2>1, <2>4, <2>7, StoreLeft
<1> QED BY <1>2, <1>3

LEMMA RecoverSound ==
  ASSUME IInv, OpInv, NEW c \in Call, Recover(c) PROVE OpInv'
<1> USE DEF Planning, Mutating, Installing, Moving, Closing
<1>1. Alone(c) /\ UNCHANGED <<store, touched, later, crossed>> /\ hurried \ {c} = hurried' \ {c}
  BY StepShape DEF Recover, CallStep, Shape, IInv, Return
<1>2. CASE journal = Missing
  <2>1. Return(c, "refused") BY <1>2 DEF Recover
  <2> QED BY <1>1, <2>1, ReturnSound, StoreLeft DEF IInv
<1>3. CASE journal # Missing
  <2>1. /\ pc[c] = "idle" /\ pc' = [pc EXCEPT ![c] = "look"] /\ journal' = journal
        /\ plan' = [plan EXCEPT ![c] = journal] /\ at' = at
    BY <1>3 DEF Recover, GoTo, store, Start
  <2>2. pc'[c] = "look" /\ plan'[c] = journal /\ at'[c] = 1
    BY <2>1 DEF IInv, TypeOK, PlansAreSafe, OpInv, InTurn
  <2>3. Fit(journal) /\ Complete(journal) BY <1>3 DEF OpInv, StoreFits
  <2>4. Fit(plan'[c]) /\ Complete(plan'[c]) BY <2>2, <2>3
  <2>5. InTurn(c)' BY <1>3, <2>1, <2>2, <2>4 DEF InTurn
  <2>6. Uncrossed(c)' BY <2>2 DEF Uncrossed, Carrying, Looked
  <2> QED BY <1>1, <2>5, <2>6, StoreLeft
<1> QED BY <1>2, <1>3

(* Past a file that is as the plan leaves it.                                 *)
LEMMA CarriesOn ==
  ASSUME IInv, NEW c \in Call, InTurn(c), pc[c] \in {"look", "write"},
         Proceed(c, "look", Manifests(plan[c])), plan'[c] = plan[c], journal' = journal
  PROVE  InTurn(c)'
<1> USE DEF Planning, Mutating, Installing, Moving, Closing
<1>1. \/ pc'[c] = "look"
      \/ pc'[c] \in {"removeManifest", "writeRecords"} /\ at'[c] = 1
  BY ProceedTo DEF IInv, Manifests
<1>2. Fit(plan'[c]) /\ Complete(plan'[c]) BY DEF InTurn
<1> QED BY <1>1, <1>2 DEF InTurn

LEMMA CarriesMore ==
  ASSUME IInv, NEW c \in Call, Carrying(c), pc[c] \in {"look", "write"},
         Proceed(c, "look", Manifests(plan[c])), plan'[c] = plan[c], touched' = touched,
         NEW f, f = Current(c), f \in touched \/ Done(plan[c], f)',
         \A g \in Files \ touched : Done(plan[c], g) => Done(plan[c], g)'
  PROVE  Carrying(c)'
<1> USE DEF Planning, Mutating, Installing, Moving, Closing
<1> DEFINE S == {g \in Files : g \in touched \/ Done(plan[c], g)'}
<1>1. f \in S BY CurrentIsFile DEF IInv
<1>2. \A i \in 1 .. at[c] - 1 : Paths[i] \in S
  <2> SUFFICES ASSUME NEW i \in 1 .. at[c] - 1 PROVE Paths[i] \in S
    OBVIOUS
  <2>1. i \in 1 .. Len(Paths) BY ConstantFacts DEF IInv, TypeOK
  <2>2. Paths[i] \in Files BY <2>1, ConstantFacts
  <2>3. Paths[i] \in touched \/ Done(plan[c], Paths[i]) BY DEF Carrying
  <2> QED BY <2>2, <2>3
<1>3. /\ \A i \in 1 .. at[c] : Paths[i] \in S
      /\ ~(at[c] < Len(Paths)) => Files \subseteq S
  <2> HIDE DEF S
  <2> QED BY <1>1, <1>2, Passed DEF IInv
<1>4. \/ pc'[c] = "look" /\ at'[c] - 1 = at[c]
      \/ pc'[c] = Manifests(plan[c]) /\ ~(at[c] < Len(Paths))
  BY ProceedTo DEF IInv, Manifests
<1>5. ASSUME pc'[c] \in {"look", "write"}, NEW i \in 1 .. at'[c] - 1
      PROVE  Paths[i] \in touched' \/ Done(plan[c], Paths[i])'
  <2>1. at'[c] - 1 = at[c] BY <1>4, <1>5 DEF Manifests
  <2> QED BY <1>3, <2>1
<1>6. ASSUME pc'[c] \in Closing, NEW g \in Files \ touched' PROVE Done(plan[c], g)'
  BY <1>3, <1>4, <1>6
<1>7. /\ pc'[c] \in {"writeRecords", "writeManifest"} => ~Clean(plan'[c])
      /\ pc'[c] \in {"removeManifest", "removeRecords"} => Clean(plan'[c])
      /\ pc'[c] \notin {"writeManifest", "removeRecords", "removeJournal"}
  BY <1>4 DEF Manifests, Clean
<1> QED BY <1>5, <1>6, <1>7 DEF Carrying

LEMMA LookSound ==
  ASSUME IInv, OpInv, NEW c \in Call, Look(c) PROVE OpInv'
<1> USE DEF Planning, Mutating, Installing, Moving, Closing
<1>1. Alone(c) /\ UNCHANGED <<store, touched, later, crossed>> /\ hurried \ {c} = hurried' \ {c}
  BY StepShape DEF Look, CallStep, Carry, Shape, IInv, Return
<1>2. CASE Return(c, "stale")
  BY <1>1, <1>2, ReturnSound, StoreLeft DEF IInv
<1>3. CASE GoTo(c, "write") /\ UNCHANGED <<at, plan, outcome, unseen, hurried>>
  <2>1. pc[c] = "look" /\ pc'[c] = "write" /\ file' = file /\ touched' = touched /\ journal' = journal
    BY <1>1, <1>3 DEF Look, GoTo, IInv, TypeOK, store
  <2>2. Fit(plan'[c]) /\ Complete(plan'[c]) BY <1>3, <2>1 DEF OpInv, InTurn
  <2>3. InTurn(c)' BY <1>3, <2>1, <2>2 DEF OpInv, InTurn
  <2>4. ~crossed => Carrying(c)'
    BY <1>3, <2>1 DEF OpInv, Uncrossed, Carrying, Done
  <2>5. ~crossed => Uncrossed(c)' BY <2>1, <2>4 DEF Uncrossed, Looked
  <2> QED BY <1>1, <2>3, <2>5, StoreLeft
<1>4. CASE /\ ActionNow(c).result = "retain" \/ file[Current(c)] = ActionNow(c).content
           /\ Proceed(c, "look", Manifests(plan[c])) /\ UNCHANGED <<plan, outcome, unseen, hurried>>
  <2>1. pc[c] = "look" /\ UNCHANGED <<file, journal, touched>>
    BY <1>1, <1>4 DEF Look, store
  <2>2. InTurn(c)' BY <1>4, <2>1, CarriesOn DEF OpInv
  <2>3. ~crossed => Carrying(c)'
    <3> DEFINE f == Current(c)
    <3>1. Done(plan[c], f) BY <1>4 DEF Done, ActionNow
    <3>2. \A g : Done(plan[c], g) => Done(plan[c], g)' BY <1>4, <2>1 DEF Done
    <3>3. Done(plan[c], f)
      BY <3>1
    <3> HIDE DEF f
    <3>4. f = Current(c) BY DEF f
    <3>5. \A h : h = f => Done(plan[c], h)' BY <3>2, <3>3
    <3> QED BY <1>4, <2>1, <3>2, <3>4, <3>5, CarriesMore DEF OpInv, Uncrossed
  <2>4. \/ pc'[c] = "look" \/ pc'[c] \in {"removeManifest", "writeRecords"}
    BY <1>4, ProceedTo DEF IInv, Manifests
  <2>5. ~crossed => Uncrossed(c)' BY <2>3, <2>4 DEF Uncrossed, Looked
  <2> QED BY <1>1, <2>2, <2>5, StoreLeft
<1> QED BY <1>2, <1>3, <1>4 DEF Look

LEMMA InitializeSound ==
  ASSUME IInv, OpInv, NEW c \in Call, Initialize(c) PROVE OpInv'
<1> USE DEF Planning, Mutating, Installing, Moving, Closing
<1>1. Alone(c) /\ UNCHANGED <<store, touched, later, crossed>> /\ hurried \ {c} = hurried' \ {c}
  BY StepShape DEF Initialize, CallStep, Install, Shape, IInv, Return
<1>2. CASE ~NoStore
  <2>1. \E o : Return(c, o) BY <1>2 DEF Initialize
  <2> QED BY <1>1, <2>1, ReturnSound, StoreLeft DEF IInv
<1>3. CASE NoStore
  <2>1. /\ pc[c] = "idle" /\ pc' = [pc EXCEPT ![c] = "initLook"] /\ journal' = journal
        /\ hurried' = (IF journal # Missing THEN hurried \cup {c} ELSE hurried) /\ at' = at
    BY <1>3 DEF Initialize, GoTo, store, Start
  <2>2. pc'[c] = "initLook" /\ at'[c] = 1
    BY <2>1 DEF IInv, TypeOK, OpInv, InTurn
  <2>3. c \notin hurried' => journal' = Missing BY <2>1
  <2>4. InTurn(c)' BY <2>2, <2>3 DEF InTurn
  <2>5. Uncrossed(c)' BY <2>2 DEF Uncrossed, Carrying, Looked
  <2> QED BY <1>1, <2>4, <2>5, StoreLeft
<1> QED BY <1>2, <1>3

(* Past a file that is in place.                                              *)
LEMMA LooksOn ==
  ASSUME IInv, NEW c \in Call, InTurn(c), Looked(c), pc[c] \in {"initLook", "initWrite"},
         Proceed(c, "initLook", "initRecords"), touched' = touched,
         NEW f, f = Current(c), f \in Generated \ touched => InPlace(f)',
         \A g \in Generated \ touched : InPlace(g) => InPlace(g)'
  PROVE  Looked(c)'
<1> DEFINE S == {g \in Files : g \in Generated \ touched => InPlace(g)'}
<1>1. f \in S BY CurrentIsFile DEF IInv
<1>2. \A i \in 1 .. at[c] - 1 : Paths[i] \in S
  <2> SUFFICES ASSUME NEW i \in 1 .. at[c] - 1 PROVE Paths[i] \in S
    OBVIOUS
  <2>1. i \in 1 .. Len(Paths) BY ConstantFacts DEF IInv, TypeOK
  <2>2. Paths[i] \in Files BY <2>1, ConstantFacts
  <2>3. Paths[i] \in Generated \ touched => InPlace(Paths[i]) BY DEF Looked
  <2> QED BY <2>2, <2>3
<1>3. /\ \A i \in 1 .. at[c] : Paths[i] \in S
      /\ ~(at[c] < Len(Paths)) => Files \subseteq S
  <2> HIDE DEF S
  <2> QED BY <1>1, <1>2, Passed DEF IInv
<1>4. \/ pc'[c] = "initLook" /\ at'[c] - 1 = at[c]
      \/ pc'[c] = "initRecords" /\ ~(at[c] < Len(Paths))
  BY ProceedTo DEF IInv
<1>5. ASSUME pc'[c] \in {"initLook", "initWrite"}, NEW i \in 1 .. at'[c] - 1,
             Paths[i] \in Generated \ touched'
      PROVE  InPlace(Paths[i])'
  <2>1. at'[c] - 1 = at[c] BY <1>4, <1>5
  <2> QED BY <1>3, <1>5, <2>1
<1>6. ASSUME pc'[c] \in {"initRecords", "initManifest"}, NEW g \in Generated \ touched'
      PROVE  InPlace(g)'
  <2>1. g \in Files BY <1>6 DEF Generated
  <2> QED BY <1>3, <1>4, <1>6, <2>1
<1> QED BY <1>5, <1>6 DEF Looked

LEMMA InitLookSound ==
  ASSUME IInv, OpInv, NEW c \in Call, InitLook(c) PROVE OpInv'
<1> USE DEF Planning, Mutating, Installing, Moving, Closing
<1>1. Alone(c) /\ UNCHANGED <<store, touched, later, crossed>> /\ hurried \ {c} = hurried' \ {c}
  BY StepShape DEF InitLook, CallStep, Install, Shape, IInv, Return
<1>2. CASE Return(c, "refused")
  BY <1>1, <1>2, ReturnSound, StoreLeft DEF IInv
<1>3. CASE /\ Current(c) \in Generated /\ file[Current(c)] = Missing
           /\ GoTo(c, "initWrite") /\ UNCHANGED <<at, plan, outcome, unseen, hurried>>
  <2>1. /\ pc[c] = "initLook" /\ pc'[c] = "initWrite" /\ UNCHANGED <<file, journal, touched>>
        /\ Current(c)' = Current(c)
    BY <1>1, <1>3 DEF InitLook, GoTo, IInv, TypeOK, store, Current
  <2>2. InTurn(c)' BY <1>3, <2>1 DEF OpInv, InTurn
  <2>3. ~crossed /\ c \notin hurried' => Looked(c)'
    BY <1>3, <2>1 DEF OpInv, Uncrossed, Looked, InPlace
  <2>4. ~crossed => Uncrossed(c)' BY <2>1, <2>3 DEF Uncrossed, Carrying
  <2> QED BY <1>1, <2>2, <2>4, StoreLeft
<1>4. CASE /\ Current(c) \in Generated => InPlace(Current(c))
           /\ Proceed(c, "initLook", "initRecords") /\ UNCHANGED <<plan, outcome, unseen, hurried>>
  <2>1. pc[c] = "initLook" /\ UNCHANGED <<file, journal, touched>>
    BY <1>1, <1>4 DEF InitLook, store
  <2>2. pc'[c] = "initLook" \/ (pc'[c] = "initRecords" /\ at'[c] = 1)
    BY <1>4, ProceedTo DEF IInv
  <2>3. InTurn(c)' BY <1>4, <2>1, <2>2 DEF OpInv, InTurn
  <2>4. ~crossed /\ c \notin hurried' => Looked(c)'
    <3> DEFINE f == Current(c)
    <3>1. \A g : InPlace(g) => InPlace(g)' BY <2>1 DEF InPlace
    <3>2. f \in Generated => InPlace(f) BY <1>4
    <3> HIDE DEF f
    <3>3. f = Current(c) BY DEF f
    <3>4. \A h : h = f /\ h \in Generated \ touched => InPlace(h)' BY <3>1, <3>2
    <3> QED BY <1>4, <2>1, <3>1, <3>3, <3>4, LooksOn DEF OpInv, Uncrossed
  <2>5. ~crossed => Uncrossed(c)' BY <2>2, <2>4 DEF Uncrossed, Carrying
  <2> QED BY <1>1, <2>3, <2>5, StoreLeft
<1> QED BY <1>2, <1>3, <1>4 DEF InitLook, InPlace, Generated

-------------------------------------------------------------------------------
(* The other calls while one carries out a plan: who reads is hurried.        *)
LEMMA OthersWhileCarrying ==
  ASSUME IInv, OpInv, NEW c \in Call, pc[c] \in Mutating, Alone(c), touched' = touched,
         \A d \in Call \ {c} : d \in hurried => d \in hurried',
         \A d \in Call \ {c} : pc[d] \in Planning \cup Installing => d \in hurried',
         \A f \in Files : Class[f] = "user" => file'[f] = file[f],
         \A f \in Files : Class[f] = "engine" =>
           file'[f] \in {file[f], Missing, Template(f, Target)}
  PROVE  \A d \in Call \ {c} : InTurn(d)' /\ (~crossed => Uncrossed(d)')
<1> SUFFICES ASSUME NEW d \in Call, d # c PROVE InTurn(d)' /\ (~crossed => Uncrossed(d)')
  OBVIOUS
<1>1. /\ pc'[d] = pc[d] /\ at'[d] = at[d] /\ plan'[d] = plan[d] /\ (d \in hurried => d \in hurried')
      /\ pc[d] \in Planning \cup Installing => d \in hurried'
  BY DEF Alone
<1>2. pc[d] \notin Mutating BY DEF IInv, Exclusive
<1>3. pc[d] = "initWrite" =>
        file'[Current(d)] \in {file[Current(d)], Missing, Template(Current(d), Target)}
  <2> SUFFICES ASSUME pc[d] = "initWrite"
               PROVE  file'[Current(d)] \in {file[Current(d)], Missing, Template(Current(d), Target)}
    OBVIOUS
  <2>1. Current(d) \in Generated BY DEF IInv, ActionInHand
  <2>2. Current(d) \in Files /\ Class[Current(d)] \in {"engine", "user"}
    BY <2>1, ManagedProjectConstants DEF Generated
  <2> QED BY <2>2
<1>4. InTurn(d)'
  <2>1. InTurn(d) BY DEF OpInv
  <2>2. pc[d] # "journal" BY <1>2 DEF Mutating
  <2> QED BY <1>1, <1>2, <1>3, <2>1, <2>2, InTurnStays DEF Planning, Installing
<1>5. ASSUME ~crossed PROVE Uncrossed(d)'
  <2>1. Uncrossed(d) BY <1>5 DEF OpInv
  <2>2. pc[d] \in Planful => SafePlan(plan[d]) BY DEF IInv, PlansAreSafe, Planful
  <2>3. pc[d] # "journal" BY <1>2 DEF Mutating
  <2> QED BY <1>1, <1>2, <2>1, <2>2, <2>3, UncrossedStays DEF IInv
<1> QED BY <1>4, <1>5

(* A call past the journal has it in hand.                                    *)
LEMMA InHand ==
  ASSUME IInv, OpInv, NEW c \in Call, pc[c] \in Mutating
  PROVE  /\ SafePlan(plan[c]) /\ Fit(plan[c]) /\ Complete(plan[c]) /\ plan[c] # Missing
         /\ pc[c] # "journal" => journal # Missing /\ plan[c] = journal
         /\ pc[c] # "journal" =>
              \A d \in Call \ {c} : pc[d] \in Planning \cup Installing => d \in hurried
<1>1. SafePlan(plan[c]) /\ Fit(plan[c]) /\ Complete(plan[c])
  BY DEF IInv, PlansAreSafe, OpInv, InTurn
<1>2. plan[c] \in Plan
  <2>1. plan[c].records \in Ownership
    <3> DEFINE S == DOMAIN plan[c].records
    <3>1. S \in SUBSET Files /\ plan[c].records = [f \in S |-> plan[c].records[f]]
      BY <1>1 DEF SafePlan, IsRecords, Fit, UserRecords
    <3>2. \A f \in S : plan[c].records[f] \in Record BY <1>1 DEF SafePlan, IsRecords
    <3>3. plan[c].records \in [S -> Record] BY <3>1, <3>2
    <3> QED BY <3>1, <3>3 DEF Ownership
  <2>2. plan[c].op \in {"update", "uninstall"} /\ plan[c].installed \in Release
        /\ plan[c].actions \in [Files -> Action]
        /\ plan[c] = [op |-> plan[c].op, installed |-> plan[c].installed,
                      records |-> plan[c].records, actions |-> plan[c].actions]
    BY <1>1 DEF SafePlan, Fit
  <2> QED BY <2>1, <2>2 DEF Plan
<1>3. pc[c] # "journal" => journal # Missing /\ plan[c] = journal BY DEF OpInv, InTurn
<1> QED BY <1>1, <1>2, <1>3, MissingIsNoRecord DEF OpInv, InTurn

LEMMA WriteJournalSound ==
  ASSUME IInv, OpInv, NEW c \in Call, WriteJournal(c) PROVE OpInv'
<1> USE DEF Planning, Mutating, Installing, Moving, Closing
<1>1. /\ Alone(c) /\ UNCHANGED <<file, records, installed, at, plan, touched, later>>
      /\ pc[c] = "journal" /\ pc' = [pc EXCEPT ![c] = "look"] /\ journal' = plan[c]
      /\ hurried' = hurried \cup Readers /\ crossed' = (crossed \/ c \in hurried)
  BY StepShape DEF WriteJournal, CallStep, Carry, Shape, IInv, GoTo, user
<1>2. /\ SafePlan(plan[c]) /\ Fit(plan[c]) /\ Complete(plan[c]) /\ plan[c] # Missing
  BY <1>1, InHand
<1>3. pc'[c] = "look" /\ at'[c] = 1 /\ plan'[c] = plan[c]
  BY <1>1 DEF IInv, TypeOK, OpInv, InTurn
<1>4. \A d \in Call \ {c} : InTurn(d)' /\ (~crossed => Uncrossed(d)')
  <2>1. \A d \in Call \ {c} : pc[d] \in Planning \cup Installing => d \in hurried'
    BY <1>1 DEF Readers
  <2> QED BY <1>1, <2>1, OthersWhileCarrying
<1>5. InTurn(c)'
  <2>1. Fit(plan'[c]) /\ Complete(plan'[c]) BY <1>2, <1>3
  <2> QED BY <1>1, <1>2, <1>3, <2>1 DEF InTurn
<1>6. Uncrossed(c)' BY <1>3 DEF Uncrossed, Carrying, Looked
<1>7. StoreFits'
  <2>1. Fit(journal') /\ Complete(journal') BY <1>1, <1>2
  <2>2. Owned' /\ (records' # Missing => UserRecords(records'))
    BY <1>1 DEF OpInv, StoreFits, Owned
  <2> QED BY <2>1, <2>2 DEF StoreFits
<1>8. ASSUME ~crossed' PROVE StoreIsSound'
  <2>1. c \notin hurried /\ ~crossed BY <1>1, <1>8
  <2>2. Good(plan[c]) /\ AsCompared(c) BY <1>1, <2>1 DEF OpInv, Uncrossed
  <2>3. Good(journal)'
    BY <1>1, <2>2 DEF Good, UserFilesThere
  <2>4. Recoverable' BY <1>1, <2>2 DEF Recoverable, AsCompared
  <2> QED BY <1>1, <1>2, <2>3, <2>4 DEF StoreIsSound
<1> QED BY <1>1, <1>4, <1>5, <1>6, <1>7, <1>8 DEF OpInv

LEMMA WriteFileSound ==
  ASSUME IInv, OpInv, NEW c \in Call, WriteFile(c) PROVE OpInv'
<1> USE DEF Planning, Mutating, Installing, Moving, Closing
<1>0. PICK f : f = Current(c)
  OBVIOUS
<1> DEFINE a == journal.actions[f]
<1>1. /\ Alone(c) /\ UNCHANGED <<records, installed, journal, plan, touched, later, hurried, crossed>>
      /\ pc[c] = "write" /\ Proceed(c, "look", Manifests(plan[c]))
  BY StepShape DEF WriteFile, CallStep, Carry, Shape, IInv
<1>2. /\ Fit(journal) /\ Complete(journal) /\ journal # Missing /\ plan[c] = journal
      /\ SafePlan(journal)
      /\ \A d \in Call \ {c} : pc[d] \in Planning \cup Installing => d \in hurried
  BY <1>1, InHand
<1>3. /\ f \in Files /\ Class[f] # "user" /\ SafeAction(f, a) /\ a.result # "retain"
      /\ a.result = "conflict" => file' = file
      /\ a.result # "conflict" => file' = [file EXCEPT ![f] = a.content]
  BY <1>0, <1>2, WrittenFile DEF ActionNow
<1>4. FitAction(journal, f) BY <1>2, <1>3 DEF Fit
<1>5. /\ \A g \in Files \ {f} : file'[g] = file[g]
      /\ a.result # "conflict" => file'[f] = a.content
  BY <1>3 DEF IInv, TypeOK
<1>6. a.result \in {"update", "remove", "conflict"}
  <2>1. a \in Action BY <1>2, <1>3 DEF SafePlan
  <2> QED BY <1>3, <2>1 DEF Action
<1>7. \A d \in Call \ {c} : InTurn(d)' /\ (~crossed => Uncrossed(d)')
  <2>1. \A g \in Files : Class[g] = "user" => file'[g] = file[g] BY <1>3, <1>5
  <2>2. \A g \in Files : Class[g] = "engine" =>
          file'[g] \in {file[g], Missing, Template(g, Target)}
    BY <1>3, <1>4, <1>5, <1>6 DEF FitAction
  <2> HIDE DEF a
  <2> QED BY <1>1, <1>2, <2>1, <2>2, OthersWhileCarrying
<1>8. InTurn(c)' BY <1>1, CarriesOn DEF OpInv
<1>9. ASSUME ~crossed PROVE Uncrossed(c)'
  <2>1. Carrying(c) /\ Good(journal) BY <1>2, <1>9 DEF OpInv, Uncrossed, StoreIsSound
  <2>2. f \notin touched => a.result # "conflict" BY <1>3, <2>1 DEF Good
  <2>3. f \in touched \/ Done(plan[c], f)' BY <1>1, <1>2, <1>5, <2>2 DEF Done
  <2>4. \A g \in Files \ touched : Done(plan[c], g) => Done(plan[c], g)'
    <3> SUFFICES ASSUME NEW g \in Files \ touched, Done(plan[c], g) PROVE Done(plan[c], g)'
      OBVIOUS
    <3>1. CASE g = f BY <2>3, <3>1
    <3>2. CASE g # f BY <1>1, <1>5, <3>2 DEF Done
    <3> QED BY <3>1, <3>2
  <2>6. Carrying(c)'
    BY <1>1, <2>1, <2>3, <2>4, <1>0, CarriesMore
  <2>7. pc'[c] \in {"look", "removeManifest", "writeRecords"}
    BY <1>1, ProceedTo DEF IInv, Manifests
  <2> QED BY <2>6, <2>7 DEF Uncrossed, Looked
<1>10. StoreFits'
  <2>1. Owned'
    <3> SUFFICES ASSUME NEW g \in Files, file'[g] \in Text, file'[g].own
                 PROVE  Class[g] = "customizable"
      BY DEF Owned
    <3>1. CASE g = f /\ a.result # "conflict"
      BY <1>4, <1>5, <3>1 DEF FitAction
    <3>2. CASE ~(g = f /\ a.result # "conflict")
      <4>1. file'[g] = file[g] BY <1>3, <1>5, <3>2
      <4> QED BY <4>1 DEF OpInv, StoreFits, Owned
    <3> QED BY <3>1, <3>2
  <2>2. (records' # Missing => UserRecords(records')) /\ Fit(journal') /\ Complete(journal')
    BY <1>1, <1>2 DEF OpInv, StoreFits
  <2> QED BY <2>1, <2>2 DEF StoreFits
<1>11. ASSUME ~crossed PROVE StoreIsSound'
  <2>1. Good(journal) /\ Recoverable BY <1>2, <1>11 DEF OpInv, StoreIsSound
  <2>2. Good(journal)'
    <3>1. DOMAIN journal.records \subseteq Files BY <1>2 DEF SafePlan, IsRecords
    <3>2. \A g \in DOMAIN journal.records : Class[g] = "user" => file'[g] = file[g]
      BY <1>3, <1>5, <3>1
    <3> QED BY <1>1, <2>1, <3>2 DEF Good, UserFilesThere
  <2>3. Recoverable'
    <3> SUFFICES ASSUME NEW g \in Files \ later, journal.actions[g].result # "retain"
                 PROVE  file'[g] \in {journal.actions[g].expected, journal.actions[g].content}
      BY <1>1 DEF Recoverable
    <3>1. CASE g = f /\ a.result # "conflict" BY <1>5, <3>1
    <3>2. CASE ~(g = f /\ a.result # "conflict")
      <4>1. file'[g] = file[g] BY <1>3, <1>5, <3>2
      <4> QED BY <2>1, <4>1 DEF Recoverable
    <3> QED BY <3>1, <3>2
  <2> QED BY <1>1, <1>2, <2>2, <2>3 DEF StoreIsSound
<1> QED BY <1>1, <1>7, <1>8, <1>9, <1>10, <1>11 DEF OpInv

-------------------------------------------------------------------------------
LEMMA NewRecordsFit ==
  ASSUME NEW p, SafePlan(p), Fit(p) PROVE UserRecords(NewRecords(p))
<1>1. NewRecords(p) = [f \in DOMAIN NewRecords(p) |-> NewRecords(p)[f]]
      /\ DOMAIN NewRecords(p) = Surviving(p)
  BY DEF NewRecords
<1>2. ASSUME NEW f \in Surviving(p), Class[f] = "user"
      PROVE  NewRecords(p)[f] = InstalledRecord(f, Target)
  <2>1. f \in DOMAIN p.records /\ f \in Files
    BY <1>2 DEF Surviving, SafePlan, IsRecords
  <2>2. p.actions[f].result = "retain" BY <1>2, <2>1 DEF SafePlan, SafeAction
  <2>3. NewRecords(p)[f] = p.records[f] BY <1>2, <2>2 DEF NewRecords, NewRecord
  <2> QED BY <1>2, <2>1, <2>3 DEF Fit, UserRecords
<1> QED BY <1>1, <1>2 DEF UserRecords

(* Between the files and the end of an operation.                             *)
LEMMA ClosesOn ==
  ASSUME IInv, OpInv, NEW c \in Call, pc[c] \in Closing, Alone(c),
         UNCHANGED <<file, journal, at, plan, touched, later, hurried, crossed>>,
         NEW q \in Closing, pc' = [pc EXCEPT ![c] = q],
         records' # Missing => UserRecords(records'),
         ~crossed =>
           /\ q \in {"writeRecords", "writeManifest"} => ~Clean(plan[c])
           /\ q \in {"removeManifest", "removeRecords"} => Clean(plan[c])
           /\ q = "writeManifest" => records' = NewRecords(plan[c])
           /\ q = "removeRecords" => installed' = Missing
           /\ q = "removeJournal" => Finished(plan[c])'
  PROVE  OpInv'
<1> USE DEF Planning, Mutating, Installing, Moving, Closing
<1>1. /\ Fit(journal) /\ Complete(journal) /\ journal # Missing /\ plan[c] = journal
      /\ \A d \in Call \ {c} : pc[d] \in Planning \cup Installing => d \in hurried
  BY InHand
<1>2. pc'[c] = q /\ plan'[c] = plan[c] /\ at'[c] = 1 BY DEF IInv, TypeOK, OpInv, InTurn
<1>3. \A d \in Call \ {c} : InTurn(d)' /\ (~crossed => Uncrossed(d)')
  BY <1>1, OthersWhileCarrying
<1>4. InTurn(c)'
  <2>1. Fit(plan'[c]) /\ Complete(plan'[c]) BY <1>1, <1>2
  <2> QED BY <1>1, <1>2, <2>1 DEF InTurn
<1>5. ASSUME ~crossed PROVE Uncrossed(c)'
  <2>1. \A f \in Files \ touched : Done(plan[c], f) BY <1>5 DEF OpInv, Uncrossed, Carrying
  <2>2. \A f \in Files \ touched' : Done(plan[c], f)' BY <2>1 DEF Done
  <2>3. /\ q \in {"writeRecords", "writeManifest"} => ~Clean(plan'[c])
        /\ q \in {"removeManifest", "removeRecords"} => Clean(plan'[c])
        /\ q = "writeManifest" => records' = NewRecords(plan'[c])
    BY <1>2, <1>5
  <2>4. Carrying(c)' BY <1>2, <1>5, <2>2, <2>3 DEF Carrying
  <2> QED BY <1>2, <2>4 DEF Uncrossed, Looked
<1>6. StoreFits'
  <2>1. Fit(journal') /\ Complete(journal') /\ Owned'
    BY <1>1 DEF OpInv, StoreFits, Owned
  <2> QED BY <2>1 DEF StoreFits
<1>7. ASSUME ~crossed PROVE StoreIsSound'
  <2>1. Good(journal) /\ Recoverable BY <1>1, <1>7 DEF OpInv, StoreIsSound
  <2>2. Good(journal)' /\ Recoverable' BY <2>1 DEF Good, UserFilesThere, Recoverable
  <2> QED BY <1>1, <2>2 DEF StoreIsSound
<1> QED BY <1>3, <1>4, <1>5, <1>6, <1>7 DEF OpInv

LEMMA ManifestsSound ==
  ASSUME IInv, OpInv, NEW c \in Call,
         WriteRecords(c) \/ WriteManifest(c) \/ RemoveManifest(c) \/ RemoveRecords(c)
  PROVE  OpInv'
<1> USE DEF Mutating, Closing, GoTo, user
<1>1. Alone(c) BY StepShape DEF CallStep, Carry, Shape, IInv
<1>2. ~crossed => Carrying(c) BY DEF OpInv, Uncrossed
<1>3. CASE WriteRecords(c)
  <2>1. SafePlan(plan[c]) /\ Fit(plan[c]) BY <1>3, InHand DEF WriteRecords
  <2>2. UserRecords(NewRecords(plan[c])) BY <2>1, NewRecordsFit
  <2>3. pc[c] = "writeRecords" /\ pc' = [pc EXCEPT ![c] = "writeManifest"]
        /\ records' = NewRecords(plan[c])
        /\ UNCHANGED <<file, journal, at, plan, touched, later, hurried, crossed>>
    BY <1>3 DEF WriteRecords
  <2>4. ~crossed => ~Clean(plan[c]) BY <1>2, <2>3 DEF Carrying
  <2>5. UserRecords(records') BY <2>2, <2>3
  <2> QED BY <1>1, <2>3, <2>4, <2>5, ClosesOn
<1>4. CASE WriteManifest(c)
  <2>1. pc[c] = "writeManifest" /\ pc' = [pc EXCEPT ![c] = "removeJournal"]
        /\ records' = records
        /\ installed' = (IF HasConflicts(plan[c]) THEN plan[c].installed ELSE Target)
        /\ UNCHANGED <<file, journal, at, plan, touched, later, hurried, crossed>>
    BY <1>4 DEF WriteManifest
  <2>2. ~crossed => Finished(plan[c])'
    <3> SUFFICES ASSUME ~crossed PROVE Finished(plan[c])'
      OBVIOUS
    <3>1. ~Clean(plan[c]) /\ records = NewRecords(plan[c]) BY <1>2, <2>1 DEF Carrying
    <3> QED BY <2>1, <3>1 DEF Finished
  <2>3. records' # Missing => UserRecords(records') BY <2>1 DEF OpInv, StoreFits
  <2> QED BY <1>1, <2>1, <2>2, <2>3, ClosesOn
<1>5. CASE RemoveManifest(c)
  <2>1. pc[c] = "removeManifest" /\ pc' = [pc EXCEPT ![c] = "removeRecords"]
        /\ records' = records /\ installed' = Missing
        /\ UNCHANGED <<file, journal, at, plan, touched, later, hurried, crossed>>
    BY <1>5 DEF RemoveManifest
  <2>2. ~crossed => Clean(plan[c]) BY <1>2, <2>1 DEF Carrying
  <2>3. records' # Missing => UserRecords(records') BY <2>1 DEF OpInv, StoreFits
  <2> QED BY <1>1, <2>1, <2>2, <2>3, ClosesOn
<1>6. CASE RemoveRecords(c)
  <2>1. pc[c] = "removeRecords" /\ pc' = [pc EXCEPT ![c] = "removeJournal"]
        /\ records' = Missing /\ installed' = installed
        /\ UNCHANGED <<file, journal, at, plan, touched, later, hurried, crossed>>
    BY <1>6 DEF RemoveRecords
  <2>2. ~crossed => Finished(plan[c])'
    <3> SUFFICES ASSUME ~crossed PROVE Finished(plan[c])'
      OBVIOUS
    <3>1. Clean(plan[c]) /\ installed = Missing BY <1>2, <2>1 DEF Carrying
    <3> QED BY <2>1, <3>1 DEF Finished, NoStore
  <2> QED BY <1>1, <2>1, <2>2, ClosesOn
<1> QED BY <1>3, <1>4, <1>5, <1>6

(* An operation that was carried out leaves the project coherent.             *)
LEMMA FinishedIsCoherent ==
  ASSUME TypeOK, NEW p, SafePlan(p), Fit(p), Complete(p), Good(p), Finished(p),
         \A f \in Files \ touched : Done(p, f)
  PROVE  Coherent
<1>1. CASE Clean(p)
  BY <1>1 DEF Finished, NoStore, Coherent
<1>2. CASE ~Clean(p)
  <2>1. /\ records = NewRecords(p) /\ DOMAIN records = Surviving(p)
        /\ installed = (IF HasConflicts(p) THEN p.installed ELSE Target)
    BY <1>2 DEF Finished, NewRecords
  <2>2. Surviving(p) \subseteq DOMAIN p.records /\ Surviving(p) \subseteq Files
    BY DEF Surviving, SafePlan, IsRecords
  <2>3. UserFilesThere(records)
    BY <2>1, <2>2 DEF Good, UserFilesThere
  <2>4. ASSUME NEW f \in Surviving(p) \ touched, Class[f] # "user"
        PROVE  /\ p.op = "update" /\ p.actions[f].result = "update"
               /\ file[f] = p.actions[f].content /\ file[f] \in Text
               /\ file[f].block = Block[f][Target]
               /\ records[f] = InstalledRecord(f, Target)
               /\ Class[f] = "engine" => file[f] = Template(f, Target)
    <3>1. f \in Files /\ f \in DOMAIN p.records BY <2>2, <2>4
    <3>2. p.actions[f].result # "retain" BY <2>4, <3>1 DEF Complete, Planned
    <3>3. p.actions[f].result # "conflict" BY <2>4, <3>1 DEF Good
    <3>4. p.op = "update" BY <2>4, <3>2, <3>3 DEF Surviving
    <3>5. FitAction(p, f) /\ p.actions[f] \in Action BY <3>1 DEF Fit, SafePlan
    <3>6. file[f] = p.actions[f].content BY <2>4, <3>1, <3>2 DEF Done
    <3>7. p.actions[f].result \in {"update", "remove"} BY <3>2, <3>3, <3>5 DEF Action
    <3>8. p.actions[f].result = "update" BY <3>4, <3>5, <3>7 DEF FitAction
    <3>9. file[f] \in Text /\ file[f].block = Block[f][Target]
      BY <3>4, <3>5, <3>6, <3>8 DEF FitAction
    <3>10. records[f] = InstalledRecord(f, Target)
      BY <2>1, <2>4, <3>8 DEF NewRecords, NewRecord
    <3>11. Class[f] = "engine" => file[f] = Template(f, Target)
      BY <3>5, <3>6, <3>8, <3>9, ManagedProjectConstants DEF FitAction
    <3> QED BY <3>4, <3>6, <3>8, <3>9, <3>10, <3>11
  <2>5. BasesFit
    <3> SUFFICES ASSUME NEW f \in Surviving(p) \ touched, Class[f] # "user"
                 PROVE  file[f] # Missing /\ file[f].block = records[f].base
      BY <2>1 DEF BasesFit
    <3>0. records[f] = InstalledRecord(f, Target) BY <2>4
    <3>1. records[f].base = Block[f][Target] BY <3>0 DEF InstalledRecord
    <3>2. file[f] \in Text /\ file[f].block = Block[f][Target] BY <2>4
    <3> QED BY <3>1, <3>2, ManagedProjectConstants
  <2>6. records # Missing /\ installed # Missing
    <3>1. IsRecords(records) BY <2>1, NewRecordsTyped
    <3>2. records \in [DOMAIN records -> Record]
      <4>1. records = [f \in DOMAIN records |-> records[f]] BY <2>1 DEF NewRecords
      <4> QED BY <3>1, <4>1 DEF IsRecords
    <3>3. records \in Ownership BY <3>1, <3>2 DEF IsRecords, Ownership
    <3>4. Missing \notin Release /\ Target \in Release
      BY ConstantFacts, ManagedProjectConstants
    <3> QED BY <2>1, <3>3, <3>4, MissingIsNoRecord DEF SafePlan
  <2>7. ASSUME touched = {} PROVE AsInstalled
    <3>1. ~HasConflicts(p) BY <2>7 DEF Good, HasConflicts
    <3>2. p.op = "update" BY <1>2, <3>1 DEF Clean, Fit
    <3>3. DOMAIN records = Files /\ installed = Target
      BY <2>1, <2>2, <3>1, <3>2 DEF Surviving, Complete, Planned
    <3>4. UserRecords(records) BY <2>1, NewRecordsFit
    <3>5. ASSUME NEW f \in Files
          PROVE  records[f] = InstalledRecord(f, Target) /\ Sound(f)
      <4>1. CASE Class[f] = "user"
        <5>1. records[f] = InstalledRecord(f, Target) BY <3>3, <3>4, <4>1 DEF UserRecords
        <5>2. file[f] # Missing BY <2>3, <2>7, <3>3, <4>1 DEF UserFilesThere
        <5> QED BY <4>1, <5>1, <5>2 DEF Sound
      <4>2. CASE Class[f] # "user"
        <5>1. /\ records[f] = InstalledRecord(f, Target)
              /\ file[f] \in Text /\ file[f].block = Block[f][Target]
              /\ Class[f] = "engine" => file[f] = Template(f, Target)
          BY <2>1, <2>4, <2>7, <3>3, <4>2
        <5>2. records[f].base = Block[f][Target] BY <4>2, <5>1 DEF InstalledRecord
        <5>3. Block[f][Target] # NoBlock BY ConstantFacts, ManagedProjectConstants
        <5>4. Missing \notin Text BY ManagedProjectConstants
        <5> QED BY <5>1, <5>2, <5>3, <5>4 DEF Sound, Template
      <4> QED BY <4>1, <4>2
    <3>6. Generated \subseteq Files BY DEF Generated
    <3> QED BY <2>6, <3>3, <3>5, <3>6 DEF AsInstalled
  <2> QED BY <2>3, <2>5, <2>6, <2>7 DEF Coherent
<1> QED BY <1>1, <1>2

LEMMA RemoveJournalSound ==
  ASSUME IInv, OpInv, NEW c \in Call, RemoveJournal(c) PROVE OpInv'
<1> USE DEF Planning, Mutating, Installing, Moving, Closing
<1>1. /\ Alone(c) /\ UNCHANGED <<file, records, installed, touched, crossed>>
      /\ pc[c] = "removeJournal" /\ journal' = Missing /\ hurried' = hurried \ {c}
      /\ \E o : Return(c, o)
  BY StepShape DEF RemoveJournal, CallStep, Carry, Shape, IInv, Return
<1>2. /\ SafePlan(plan[c]) /\ Fit(plan[c]) /\ Complete(plan[c]) /\ journal # Missing
      /\ plan[c] = journal
      /\ \A d \in Call \ {c} : pc[d] \in Planning \cup Installing => d \in hurried
  BY <1>1, InHand
<1>3. \A d \in Call \ {c} : InTurn(d)' /\ (~crossed => Uncrossed(d)')
  BY <1>1, <1>2, OthersWhileCarrying
<1>4. InTurn(c)' /\ Uncrossed(c)' BY <1>1, ReturnSound DEF IInv
<1>5. StoreFits' BY <1>1 DEF OpInv, StoreFits, Owned
<1>6. ASSUME ~crossed PROVE StoreIsSound'
  <2>1. Finished(plan[c]) /\ Good(plan[c]) /\ \A f \in Files \ touched : Done(plan[c], f)
    BY <1>1, <1>2, <1>6 DEF OpInv, Uncrossed, Carrying, StoreIsSound
  <2>2. Coherent BY <1>2, <2>1, FinishedIsCoherent DEF IInv
  <2>3. Coherent'
    BY <1>1, <2>2 DEF Coherent, BasesFit, UserFilesThere, AsInstalled, Sound, NoStore, CutShort
  <2> QED BY <1>1, <2>3 DEF StoreIsSound
<1> QED BY <1>1, <1>3, <1>4, <1>5, <1>6 DEF OpInv

-------------------------------------------------------------------------------
LEMMA InitialRecordsFit ==
  InitialRecords # Missing /\ UserRecords(InitialRecords) /\ DOMAIN InitialRecords = Generated
<1>1. IsRecords(InitialRecords) BY InitialRecordsTyped
<1>2. InitialRecords = [f \in Generated |-> InitialRecords[f]] /\ DOMAIN InitialRecords = Generated
  BY DEF InitialRecords
<1>3. InitialRecords \in [Generated -> Record] BY <1>1, <1>2 DEF IsRecords
<1>4. InitialRecords \in Ownership BY <1>3 DEF Ownership, Generated
<1>5. UserRecords(InitialRecords) BY DEF UserRecords, InitialRecords
<1> QED BY <1>2, <1>4, <1>5, MissingIsNoRecord

(* The other calls while an initialisation writes.                            *)
LEMMA OthersWhileInstalling ==
  ASSUME IInv, OpInv, NEW c \in Call, pc[c] \in Installing, Alone(c), touched' = touched,
         later' = later, journal' = journal,
         InitWrites(c),
         \A f \in Files : file'[f] # file[f] => f \in Generated /\ file'[f] = Template(f, Target),
         records' = records \/ records = Missing
  PROVE  \A d \in Call \ {c} : InTurn(d)' /\ (~crossed' => Uncrossed(d)')
<1> USE DEF Planning, Mutating, Installing
<1> SUFFICES ASSUME NEW d \in Call, d # c PROVE InTurn(d)' /\ (~crossed' => Uncrossed(d)')
  OBVIOUS
<1>1. /\ pc'[d] = pc[d] /\ at'[d] = at[d] /\ plan'[d] = plan[d] /\ (d \in hurried => d \in hurried')
  BY DEF Alone, InitWrites
<1>2. \/ records' = records
      \/ /\ pc[d] \in Planning => d \in hurried'
         /\ ~(pc[d] = "initManifest" /\ d \notin hurried')
  BY InitialRecordsFit DEF OpInv, InTurn, InitWrites
<1>3. pc[d] = "initWrite" =>
        file'[Current(d)] \in {file[Current(d)], Missing, Template(Current(d), Target)}
  BY CurrentIsFile DEF IInv
<1>4. InTurn(d)'
  <2>1. InTurn(d) BY DEF OpInv
  <2> QED BY <1>1, <1>2, <1>3, <2>1, InTurnStays
<1>5. ASSUME ~crossed' PROVE Uncrossed(d)'
  <2>1. ~crossed BY <1>5 DEF InitWrites
  <2>2. Uncrossed(d) BY <2>1 DEF OpInv
  <2>3. pc[d] \notin Mutating BY <1>5 DEF InitWrites, WriterLockFree
  <2>4. pc[d] \in Planful => SafePlan(plan[d]) BY DEF IInv, PlansAreSafe, Planful
  <2>5. \A f \in Files : Class[f] = "user" /\ file[f] # Missing => file'[f] # Missing
    BY ConstantFacts, ManagedProjectConstants
  <2>6. \A f \in Generated : InPlace(f) => InPlace(f)'
    BY ConstantFacts, ManagedProjectConstants DEF InPlace, Generated
  <2> QED BY <1>1, <2>2, <2>3, <2>4, <2>5, <2>6, UncrossedStays DEF IInv
<1> QED BY <1>4, <1>5

-------------------------------------------------------------------------------
LEMMA InitWriteSound ==
  ASSUME IInv, OpInv, NEW c \in Call, InitWrite(c) PROVE OpInv'
<1> USE DEF Planning, Mutating, Installing, Moving, Closing
<1>0. PICK f : f = Current(c) OBVIOUS
<1>1. /\ Alone(c) /\ UNCHANGED <<records, installed, journal, plan, touched, later>>
      /\ pc[c] = "initWrite" /\ Proceed(c, "initLook", "initRecords") /\ InitWrites(c)
      /\ file' = [file EXCEPT ![f] = Template(f, Target)]
  BY <1>0, StepShape DEF InitWrite, CallStep, Install, Shape, IInv
<1>2. f \in Files /\ f \in Generated /\ Template(f, Target) \in Text /\ Missing \notin Text
  BY <1>0, <1>1, CurrentIsFile, ConstantFacts, ManagedProjectConstants DEF IInv, ActionInHand
<1>3. file'[f] = Template(f, Target) /\ \A g \in Files \ {f} : file'[g] = file[g]
  BY <1>1, <1>2 DEF IInv, TypeOK
<1>4. \A d \in Call \ {c} : InTurn(d)' /\ (~crossed' => Uncrossed(d)')
  <2>1. \A g \in Files : file'[g] # file[g] => g \in Generated /\ file'[g] = Template(g, Target)
    BY <1>2, <1>3
  <2> QED BY <1>1, <2>1, OthersWhileInstalling
<1>5. pc'[c] = "initLook" \/ (pc'[c] = "initRecords" /\ at'[c] = 1)
  BY <1>1, ProceedTo DEF IInv
<1>6. c \notin hurried' => c \notin hurried BY <1>1 DEF InitWrites
<1>7. InTurn(c)'
  BY <1>1, <1>5, <1>6 DEF OpInv, InTurn
<1>8. \A g \in Files : InPlace(g) \/ g = f => InPlace(g)'
  BY <1>2, <1>3 DEF InPlace
<1>9. ASSUME ~crossed' PROVE Uncrossed(c)'
  <2>1. ~crossed /\ c \notin hurried BY <1>1, <1>9 DEF InitWrites
  <2>2. Looked(c) BY <2>1 DEF OpInv, Uncrossed
  <2>3. \A g \in Generated \ touched : InPlace(g) => InPlace(g)' BY <1>8 DEF Generated
  <2>4. f \in Generated \ touched => InPlace(f)' BY <1>2, <1>8
  <2>5. Looked(c)'
    BY <1>0, <1>1, <2>2, <2>3, <2>4, LooksOn DEF OpInv
  <2> QED BY <1>5, <2>5 DEF Uncrossed, Carrying
<1>10. StoreFits'
  <2>1. Owned'
    <3> SUFFICES ASSUME NEW g \in Files, file'[g] \in Text, file'[g].own
                 PROVE  Class[g] = "customizable"
      BY DEF Owned
    <3>1. g # f BY <1>3 DEF Template
    <3> QED BY <1>3, <3>1 DEF OpInv, StoreFits, Owned
  <2> QED BY <1>1, <2>1 DEF OpInv, StoreFits
<1>11. ASSUME ~crossed' PROVE StoreIsSound'
  <2>1. ~crossed /\ c \notin hurried BY <1>1, <1>11 DEF InitWrites
  <2>2. journal = Missing /\ Coherent BY <1>1, <2>1 DEF OpInv, InTurn, StoreIsSound
  <2>3. f \notin touched => file[f] \in {Missing, Template(f, Target)}
    BY <1>0, <1>1 DEF OpInv, InTurn
  <2>4. records # Missing => BasesFit' /\ UserFilesThere(records)'
    <3> SUFFICES ASSUME records # Missing PROVE BasesFit' /\ UserFilesThere(records)'
      OBVIOUS
    <3>1. BasesFit /\ UserFilesThere(records) BY <2>2 DEF Coherent
    <3>2. DOMAIN records \subseteq Files BY DEF IInv, TypeOK
    <3>3. ASSUME NEW g \in DOMAIN records \ touched, Class[g] # "user"
          PROVE  file'[g] # Missing /\ file'[g].block = records[g].base
      <4>1. file[g] # Missing /\ file[g].block = records[g].base BY <3>1, <3>3 DEF BasesFit
      <4>2. file'[g] = file[g] BY <1>3, <2>3, <3>2, <4>1
      <4> QED BY <4>1, <4>2
    <3>4. BasesFit' BY <1>1, <3>3 DEF BasesFit
    <3>5. UserFilesThere(records)'
      BY <1>1, <1>2, <1>3, <3>1, <3>2 DEF UserFilesThere
    <3> QED BY <3>4, <3>5
  <2>5. touched = {} /\ AsInstalled => AsInstalled'
    <3> SUFFICES ASSUME touched = {}, AsInstalled PROVE AsInstalled'
      OBVIOUS
    <3>1. DOMAIN records \subseteq Files BY DEF IInv, TypeOK, AsInstalled
    <3>2. ASSUME NEW g \in DOMAIN records PROVE Sound(g)'
      <4>1. Sound(g) BY <3>2 DEF AsInstalled
      <4>2. CASE g # f
        <5>1. file'[g] = file[g] BY <1>3, <3>1, <4>2
        <5> QED BY <1>1, <4>1, <5>1 DEF Sound
      <4>3. CASE g = f
        <5>1. file'[g] = file[g] BY <1>3, <2>3, <4>1, <4>3 DEF Sound
        <5> QED BY <1>1, <4>1, <5>1 DEF Sound
      <4> QED BY <4>2, <4>3
    <3>3. \A g \in DOMAIN records' : records'[g] = InstalledRecord(g, installed')
      BY <1>1 DEF AsInstalled
    <3> QED BY <1>1, <3>2, <3>3 DEF AsInstalled
  <2>6. Coherent'
    BY <1>1, <2>2, <2>4, <2>5 DEF Coherent, NoStore, CutShort
  <2> QED BY <1>1, <2>2, <2>6 DEF StoreIsSound
<1> QED BY <1>4, <1>7, <1>9, <1>10, <1>11 DEF OpInv

LEMMA InitRecordsSound ==
  ASSUME IInv, OpInv, NEW c \in Call, InitRecords(c) PROVE OpInv'
<1> USE DEF Planning, Mutating, Installing, Moving, Closing
<1>1. /\ Alone(c) /\ UNCHANGED <<file, installed, journal, touched, later>> /\ pc[c] = "initRecords"
  BY StepShape DEF InitRecords, CallStep, Install, Shape, IInv, bounds
<1>2. CASE /\ records = Missing /\ records' = InitialRecords
           /\ GoTo(c, "initManifest") /\ InitWrites(c) /\ UNCHANGED <<at, plan, outcome, unseen>>
  <2>1. \A d \in Call \ {c} : InTurn(d)' /\ (~crossed' => Uncrossed(d)')
    BY <1>1, <1>2, OthersWhileInstalling
  <2>3. pc'[c] = "initManifest" /\ at'[c] = 1
    BY <1>1, <1>2 DEF IInv, TypeOK, GoTo, OpInv, InTurn
  <2>4. c \notin hurried' => c \notin hurried BY <1>2 DEF InitWrites
  <2>5. InTurn(c)' BY <1>1, <1>2, <2>3, <2>4 DEF OpInv, InTurn
  <2>6. ASSUME ~crossed' PROVE \A f \in Generated \ touched : InPlace(f)
    BY <1>1, <1>2, <2>6 DEF InitWrites, OpInv, Uncrossed, Looked
  <2>7. ~crossed' => Uncrossed(c)'
    BY <1>1, <2>3, <2>6 DEF Uncrossed, Carrying, Looked, InPlace
  <2>8. StoreFits'
    BY <1>1, <1>2, InitialRecordsFit DEF OpInv, StoreFits, Owned
  <2>9. ASSUME ~crossed' PROVE StoreIsSound'
    <3>1. ~crossed /\ c \notin hurried BY <1>2, <2>9 DEF InitWrites
    <3>2. journal = Missing /\ Coherent BY <1>1, <3>1 DEF OpInv, InTurn, StoreIsSound
    <3>3. installed = Missing BY <1>2, <3>2 DEF Coherent
    <3>4. BasesFit'
      <4> SUFFICES ASSUME NEW f \in Generated \ touched, Class[f] # "user"
                   PROVE  file[f] # Missing /\ file[f].block = InitialRecords[f].base
        BY <1>1, <1>2, InitialRecordsFit DEF BasesFit
      <4>1. Class[f] = "engine" /\ f \in Files
        BY ManagedProjectConstants DEF Generated
      <4>2. file[f] # Missing /\ file[f] = Template(f, Target) BY <2>6, <2>9, <4>1 DEF InPlace
      <4>3. InitialRecords[f] = InstalledRecord(f, Target) BY DEF InitialRecords
      <4> QED BY <4>1, <4>2, <4>3 DEF Template, InstalledRecord
    <3>5. UserFilesThere(records)'
      BY <1>1, <1>2, <2>6, <2>9, InitialRecordsFit DEF UserFilesThere, InPlace
    <3>6. CutShort' BY <1>1, <1>2, <3>3 DEF CutShort
    <3>7. Coherent' BY <1>1, <3>3, <3>4, <3>5, <3>6 DEF Coherent
    <3> QED BY <1>1, <3>2, <3>7 DEF StoreIsSound
  <2> QED BY <2>1, <2>5, <2>7, <2>8, <2>9 DEF OpInv
<1>3. CASE /\ records = InitialRecords /\ GoTo(c, "initManifest")
           /\ UNCHANGED <<at, plan, outcome, unseen, hurried, records, crossed>>
  <2>1. pc'[c] = "initManifest" /\ at'[c] = 1
    BY <1>1, <1>3 DEF IInv, TypeOK, GoTo, OpInv, InTurn
  <2>2. InTurn(c)' BY <1>1, <1>3, <2>1 DEF OpInv, InTurn
  <2>3. ~crossed => Uncrossed(c)'
    BY <1>1, <1>3, <2>1 DEF OpInv, Uncrossed, Carrying, Looked, InPlace
  <2> QED BY <1>1, <1>3, <2>2, <2>3, StoreLeft DEF store
<1>4. CASE Return(c, "refused") /\ UNCHANGED <<records, crossed>>
  <2>1. InTurn(c)' /\ Uncrossed(c)' BY <1>4, ReturnSound DEF IInv
  <2> QED BY <1>1, <1>4, <2>1, StoreLeft DEF Return, store
<1> QED BY <1>2, <1>3, <1>4 DEF InitRecords

LEMMA InitManifestSound ==
  ASSUME IInv, OpInv, NEW c \in Call, InitManifest(c) PROVE OpInv'
<1> USE DEF Planning, Mutating, Installing, Moving, Closing
<1>1. /\ Alone(c) /\ UNCHANGED <<file, records, journal, touched, later>> /\ pc[c] = "initManifest"
  BY StepShape DEF InitManifest, CallStep, Install, Shape, IInv, bounds
<1>2. CASE /\ installed = Missing /\ installed' = Target
           /\ GoTo(c, "initCheck") /\ InitWrites(c) /\ UNCHANGED <<at, plan, outcome, unseen>>
  <2>1. \A d \in Call \ {c} : InTurn(d)' /\ (~crossed' => Uncrossed(d)')
    BY <1>1, <1>2, OthersWhileInstalling
  <2>2. pc'[c] = "initCheck" /\ at'[c] = 1
    BY <1>1, <1>2 DEF IInv, TypeOK, GoTo, OpInv, InTurn
  <2>3. c \notin hurried' => c \notin hurried BY <1>2 DEF InitWrites
  <2>4. InTurn(c)' BY <1>1, <2>2, <2>3 DEF OpInv, InTurn
  <2>5. Uncrossed(c)' BY <2>2 DEF Uncrossed, Carrying, Looked
  <2>6. StoreFits' BY <1>1 DEF OpInv, StoreFits, Owned
  <2>7. ASSUME ~crossed' PROVE StoreIsSound'
    <3>1. ~crossed /\ c \notin hurried BY <1>2, <2>7 DEF InitWrites
    <3>2. /\ journal = Missing /\ Coherent /\ records = InitialRecords
          /\ \A f \in Generated \ touched : InPlace(f)
      BY <1>1, <3>1 DEF OpInv, InTurn, StoreIsSound, Uncrossed, Looked
    <3>3. BasesFit' /\ UserFilesThere(records)'
      BY <1>1, <3>2, InitialRecordsFit DEF Coherent, BasesFit, UserFilesThere
    <3>4. ASSUME touched = {} PROVE AsInstalled'
      <4>1. ASSUME NEW f \in Generated
            PROVE  InitialRecords[f] = InstalledRecord(f, Target) /\ Sound(f)'
        <5>1. InitialRecords[f] = InstalledRecord(f, Target) BY <4>1 DEF InitialRecords
        <5>2. f \in Files /\ Class[f] \in {"engine", "user"}
          BY <4>1, ManagedProjectConstants DEF Generated
        <5>3. file[f] # Missing /\ (Class[f] = "engine" => file[f] = Template(f, Target))
          BY <3>2, <3>4, <4>1 DEF InPlace
        <5>4. Class[f] = "engine" => records[f].base = Block[f][Target]
          BY <3>2, <5>1 DEF InstalledRecord
        <5> QED BY <1>1, <5>1, <5>2, <5>3, <5>4 DEF Sound, Template
      <4>2. installed' # Missing
        BY <1>2, ConstantFacts, ManagedProjectConstants
      <4> QED BY <1>1, <1>2, <3>2, <4>1, <4>2, InitialRecordsFit DEF AsInstalled
    <3>5. Coherent'
      BY <1>1, <3>2, <3>3, <3>4, InitialRecordsFit DEF Coherent
    <3> QED BY <1>1, <3>2, <3>5 DEF StoreIsSound
  <2> QED BY <2>1, <2>4, <2>5, <2>6, <2>7 DEF OpInv
<1>3. CASE Return(c, "refused") /\ UNCHANGED <<installed, crossed>>
  <2>1. InTurn(c)' /\ Uncrossed(c)' BY <1>3, ReturnSound DEF IInv
  <2> QED BY <1>1, <1>3, <2>1, StoreLeft DEF Return, store
<1> QED BY <1>2, <1>3 DEF InitManifest

(* An edit by the user, of any file at any time.                              *)
LEMMA EditSound ==
  ASSUME IInv, OpInv, NEW f \in Files, NEW x \in Texts(f) \cup {Missing}, Edit(f, x)
  PROVE  OpInv'
<1> USE DEF Planning, Mutating, Installing, Moving, Closing
<1>1. /\ UNCHANGED <<records, installed, journal, pc, at, plan, hurried, crossed>>
      /\ file' = [file EXCEPT ![f] = x] /\ touched' = touched \cup {f}
      /\ later' = IF journal # Missing \/ \E c \in Call : pc[c] = "journal"
                  THEN later \cup {f} ELSE later
  BY DEF Edit, progress
<1>2. file'[f] = x /\ \A g \in Files \ {f} : file'[g] = file[g]
  BY <1>1 DEF IInv, TypeOK
<1>3. ASSUME NEW d \in Call PROVE InTurn(d)'
  <2>1. InTurn(d) BY DEF OpInv
  <2>2. pc[d] = "initWrite" /\ Current(d) \notin touched' =>
          file'[Current(d)] \in {file[Current(d)], Missing, Template(Current(d), Target)}
    BY <1>1, <1>2, CurrentIsFile DEF IInv
  <2> QED BY <1>1, <2>1, <2>2, InTurnStays
<1>4. ASSUME NEW d \in Call, ~crossed PROVE Uncrossed(d)'
  <2>1. Uncrossed(d) BY <1>4 DEF OpInv
  <2>2. \A g \in Files \ touched' : file'[g] = file[g] BY <1>1, <1>2
  <2>3. pc[d] = "journal" => \A g \in Files \ later' : g \notin later /\ file'[g] = file[g]
    BY <1>1, <1>2
  <2>4. \A g \in Generated \ touched' : InPlace(g) => InPlace(g)'
    BY <2>2 DEF InPlace, Generated
  <2>5. pc[d] \in Planful => SafePlan(plan[d]) BY DEF IInv, PlansAreSafe, Planful
  <2>6. touched' # {} BY <1>1
  <2> QED BY <1>1, <2>1, <2>2, <2>3, <2>4, <2>5, <2>6, UncrossedStays DEF IInv
<1>5. StoreFits'
  <2>1. Owned'
    <3> SUFFICES ASSUME NEW g \in Files, file'[g] \in Text, file'[g].own
                 PROVE  Class[g] = "customizable"
      BY DEF Owned
    <3>1. CASE g = f
      <4>1. x \in Texts(f) BY <1>2, <3>1, ManagedProjectConstants
      <4> QED BY <1>2, <3>1, <4>1 DEF Texts
    <3>2. CASE g # f BY <1>2, <3>2 DEF OpInv, StoreFits, Owned
    <3> QED BY <3>1, <3>2
  <2> QED BY <1>1, <2>1 DEF OpInv, StoreFits
<1>6. ASSUME ~crossed PROVE StoreIsSound'
  <2>1. CASE journal # Missing
    <3>1. Good(journal) /\ Recoverable BY <1>6, <2>1 DEF OpInv, StoreIsSound
    <3>2. Good(journal)' BY <1>1, <3>1 DEF Good, UserFilesThere
    <3>3. Recoverable' BY <1>1, <1>2, <2>1, <3>1 DEF Recoverable
    <3> QED BY <1>1, <2>1, <3>2, <3>3 DEF StoreIsSound
  <2>2. CASE journal = Missing
    <3>1. Coherent BY <1>6, <2>2 DEF OpInv, StoreIsSound
    <3>2. touched' # {} BY <1>1
    <3>3. records # Missing => BasesFit'
      <4> SUFFICES ASSUME records # Missing, NEW g \in DOMAIN records \ touched',
                          Class[g] # "user"
                   PROVE  file'[g] # Missing /\ file'[g].block = records[g].base
        BY <1>1 DEF BasesFit
      <4>1. g \in Files /\ g # f /\ g \notin touched BY <1>1 DEF IInv, TypeOK
      <4> QED BY <1>2, <3>1, <4>1 DEF Coherent, BasesFit
    <3>4. Coherent' BY <1>1, <3>1, <3>2, <3>3 DEF Coherent, UserFilesThere
    <3> QED BY <1>1, <2>2, <3>4 DEF StoreIsSound
  <2> QED BY <2>1, <2>2
<1> QED BY <1>1, <1>3, <1>4, <1>5, <1>6 DEF OpInv

-------------------------------------------------------------------------------
LEMMA InitSound == Init => OpInv
<1> SUFFICES ASSUME Init PROVE OpInv OBVIOUS
<1> USE DEF Planning, Mutating, Installing, Moving, Closing
<1>1. /\ \A c \in Call : pc[c] = "idle" /\ at[c] = 1
      /\ journal = Missing /\ touched = {}
  BY DEF Init
<1>2. \A c \in Call : InTurn(c) BY <1>1 DEF InTurn
<1>3. \A c \in Call : Uncrossed(c) BY <1>1 DEF Uncrossed, Carrying, Looked
<1>4. CASE installed = Missing /\ records = Missing /\ file = [f \in Files |-> Missing]
  <2>1. Owned BY <1>4, ManagedProjectConstants DEF Owned
  <2>2. Coherent BY <1>4 DEF Coherent, NoStore
  <2> QED BY <1>1, <1>2, <1>3, <1>4, <2>1, <2>2 DEF OpInv, StoreFits, StoreIsSound
<1>5. CASE /\ installed \in Release
           /\ records = [f \in Files |-> InstalledRecord(f, installed)]
           /\ file \in [Files -> Text]
           /\ \A f \in Files : /\ file[f].block = Block[f][installed]
                               /\ file[f].own => Class[f] = "customizable"
  <2>1. \A f \in Files : records[f] = InstalledRecord(f, installed) BY <1>5
  <2>2. DOMAIN records = Files /\ records = [f \in DOMAIN records |-> records[f]] BY <1>5
  <2>3. Owned BY <1>5 DEF Owned
  <2>4. \A f \in Files : file[f] # Missing /\ file[f] \in Text
    BY <1>5, ManagedProjectConstants
  <2>5. UserRecords(records) BY <2>1, <2>2 DEF UserRecords, InstalledRecord
  <2>6. BasesFit
    <3> SUFFICES ASSUME NEW f \in Files, Class[f] # "user"
                 PROVE  file[f] # Missing /\ file[f].block = records[f].base
      BY <2>2 DEF BasesFit
    <3> QED BY <1>5, <2>1, <2>4 DEF InstalledRecord
  <2>7. UserFilesThere(records) BY <2>2, <2>4 DEF UserFilesThere
  <2>8. records # Missing
    <3>1. records \in [Files -> Record]
      <4>1. \A f \in Files : InstalledRecord(f, installed) \in Record
        BY <1>5, ConstantFacts DEF InstalledRecord, Record
      <4> QED BY <1>5, <4>1
    <3>2. records \in Ownership BY <3>1 DEF Ownership
    <3> QED BY <3>2, MissingIsNoRecord
  <2>9. ASSUME NEW f \in Files PROVE Sound(f)
    <3>1. file[f] \in Text /\ file[f].block = Block[f][installed] /\ Block[f][installed] \in Templates
          /\ (file[f].own => Class[f] = "customizable")
      BY <1>5, ConstantFacts
    <3>2. ASSUME Class[f] = "engine"
          PROVE  file[f] = [block |-> records[f].base, own |-> FALSE]
      <4>1. file[f] = [block |-> file[f].block, own |-> file[f].own] /\ file[f].own \in BOOLEAN
        BY <3>1 DEF Text
      <4>2. file[f].own = FALSE BY <3>1, <3>2, <4>1
      <4>3. InstalledRecord(f, installed).base = Block[f][installed] BY <3>2 DEF InstalledRecord
      <4> QED BY <2>1, <3>1, <4>1, <4>2, <4>3
    <3>3. file[f].block # NoBlock BY <3>1, ManagedProjectConstants
    <3> QED BY <2>4, <3>2, <3>3 DEF Sound
  <2>10. AsInstalled
    BY <1>5, <2>1, <2>2, <2>8, <2>9, ManagedProjectConstants DEF AsInstalled, Generated
  <2>11. Coherent BY <2>6, <2>7, <2>8, <2>10 DEF Coherent
  <2> QED BY <1>1, <1>2, <1>3, <2>3, <2>5, <2>11 DEF OpInv, StoreFits, StoreIsSound
<1> QED BY <1>4, <1>5 DEF Init

LEMMA StutterSound == ASSUME IInv, OpInv, UNCHANGED vars PROVE OpInv'
<1>1. ASSUME NEW d \in Call PROVE InTurn(d)'
  BY <1>1, InTurnStays DEF OpInv, vars
<1>2. ASSUME NEW d \in Call, ~crossed PROVE Uncrossed(d)'
  <2>1. pc[d] \in Planful => SafePlan(plan[d]) BY DEF IInv, PlansAreSafe, Planful
  <2>2. \A g \in Generated \ touched' : InPlace(g) => InPlace(g)' BY DEF InPlace, vars
  <2> QED BY <1>2, <2>1, <2>2, UncrossedStays DEF OpInv, IInv, vars
<1>3. StoreFits' /\ (~crossed => StoreIsSound')
  BY StoreFitsStays, StoreStaysSound DEF OpInv, vars, store
<1> QED BY <1>1, <1>2, <1>3 DEF OpInv, vars

LEMMA NextSound == IInv /\ OpInv /\ [Next]_vars => OpInv'
<1> SUFFICES ASSUME IInv, OpInv, [Next]_vars PROVE OpInv' OBVIOUS
<1>1. ASSUME NEW c \in Call, CallStep(c) PROVE OpInv'
  <2>1. CASE \E op \in {"update", "uninstall"} : PlanMutation(c, op)
    BY <2>1, PlanMutationSound
  <2>2. CASE PlanRecords(c) BY <2>2, PlanRecordsSound
  <2>3. CASE PlanFile(c) BY <2>3, PlanFileSound
  <2>4. CASE Discard(c) \/ Fault(c) BY <2>4, EndSound
  <2>5. CASE Recover(c) BY <2>5, RecoverSound
  <2>6. CASE Carry(c)
    BY <2>6, ApplySound, WriteJournalSound, LookSound, WriteFileSound, ManifestsSound,
       RemoveJournalSound
    DEF Carry
  <2>7. CASE Install(c)
    BY <2>7, InitializeSound, InitLookSound, InitWriteSound, InitRecordsSound,
       InitManifestSound, EndSound
    DEF Install
  <2> QED BY <1>1, <2>1, <2>2, <2>3, <2>4, <2>5, <2>6, <2>7 DEF CallStep
<1>2. ASSUME NEW f \in Files, NEW x \in Texts(f) \cup {Missing}, Edit(f, x) PROVE OpInv'
  BY <1>2, EditSound
<1>3. CASE UNCHANGED vars BY <1>3, StutterSound
<1> QED BY <1>1, <1>2, <1>3 DEF Next, CallStep

(* Operations and initialisations keep to their plans and to the files they   *)
(* looked at, wherever they are cut short and taken up again.                 *)
THEOREM OperationsStaySound == Spec => []OpInv
<1>1. Init => OpInv BY InitSound
<1>2. IInv /\ OpInv /\ [Next]_vars => OpInv' BY NextSound
<1> QED BY <1>1, <1>2, InvariantHolds, PTL DEF Spec

(* An update or uninstall planned while no other call was at work finds       *)
(* nothing locally modified that the user has not edited.                     *)
THEOREM ConflictsComeFromUsers == Spec => []ConflictsAreTheUsers
<1>1. OpInv => ConflictsAreTheUsers
  BY DEF OpInv, Uncrossed, Good, ConflictsAreTheUsers
<1> QED BY <1>1, OperationsStaySound, PTL

(* Whatever call was cut short, a recovery finds each file as the journal     *)
(* expects it or leaves it, unless the user edited it since.                  *)
THEOREM RecoveriesCanFinish == Spec => []JournalCanBeFinished
<1>1. OpInv => JournalCanBeFinished
  BY DEF OpInv, StoreIsSound, Recoverable, JournalCanBeFinished
<1> QED BY <1>1, OperationsStaySound, PTL

(* Between the operations, the files, the ownership records and the project   *)
(* manifest agree.                                                            *)
THEOREM RestsAreCoherent == Spec => []RestIsCoherent
<1>1. OpInv => RestIsCoherent
  BY DEF OpInv, StoreIsSound, Coherent, BasesFit, AtRest, RestIsCoherent
<1> QED BY <1>1, OperationsStaySound, PTL
===============================================================================
