--------------------------- MODULE InitiativeProofs ----------------------------
(* Theorems of InitiativeGraph, for every set of Tasks, every edge a graph    *)
(* may have and any number of revisions and repairs: that repairs are done    *)
(* and nodes kept, from IInv, and that the frontier is exact and integration  *)
(* follows the work, from WorkInv on top of it. Then those of                 *)
(* InitiativeScheduler, for any calls at its barrier: that Writers follow     *)
(* persisted work and results are true, from SInv; that counters and queue    *)
(* hold what they should, from BarrierInv; and that the barrier keeps going,  *)
(* from WaitInv.                                                              *)
EXTENDS InitiativeGraph, InitiativeScheduler, SequenceTheorems, FiniteSetTheorems, TLAPS

(* The Task of a Repair node is there.                                        *)
HasTask(t) ==
  \E dir \in {child[t], stored[t]} :
    dir # None /\ dir.kind = "repair" /\ dir.version = since[t]

GraphIsTyped == since \in [Task -> Nat] /\ claims \in [Task -> Claims]
DirectoriesAreTasks ==
  /\ child \in [Task -> Child \cup {None}]
  /\ stored \in [Task -> Child \cup {None}]

(* The graph about to be accepted keeps the nodes; its new Repair nodes come  *)
(* in with it.                                                                *)
NextKeepsNodes ==
  pc \in {"prepare", "append"} =>
    /\ \A t \in Nodes : next.since[t] = since[t]
    /\ next.since \in [Task -> Nat] /\ next.claims \in [Task -> Claims]
    /\ next.repair \subseteq Task
    /\ \A t \in next.repair : t \in repair \/ next.since[t] = version + 1
RepairsAreNodes == version \in Nat /\ repair \subseteq Nodes

(* A Repair node that a call has seen to has its Task, but for the one it is  *)
(* at; a directory it is about to fill is empty.                              *)
HandSteps == {"load", "create", "events", "resume"}
MadeAreThere ==
  /\ made \subseteq Nodes
  /\ pc \in HandSteps => hand \in repair
  /\ pc \in {"events", "resume"} => child[hand] = Empty
  /\ \A t \in made : HasTask(t) \/ (pc \in HandSteps /\ t = hand)

CompletedIsOld ==
  journal # None /\ journal.state = "completed" =>
    /\ journal.of \in Nat /\ journal.of <= version
    /\ \A t \in repair : since[t] <= journal.of => HasTask(t)

IInv ==
  /\ GraphIsTyped /\ DirectoriesAreTasks /\ NextKeepsNodes /\ RepairsAreNodes
  /\ MadeAreThere /\ CompletedIsOld

-------------------------------------------------------------------------------
(* The steps, by what they disturb.                                           *)

GraphStays == UNCHANGED graph
TasksStay == UNCHANGED tasks

LEMMA GraphStep ==
  ASSUME [Next]_vars PROVE GraphStays \/ AppendEvent
<1> USE DEF GraphStays
<1>1. CASE Stop \/ Inspect \/ Tell \/ WriteGraph \/ RecoverAtOnce \/ Recover \/ UNCHANGED vars
  BY <1>1 DEF Stop, Inspect, Tell, WriteGraph, RecoverAtOnce, Recover, vars
<1>2. ASSUME NEW t \in Task, Look(t) PROVE GraphStays
  BY <1>2 DEF Look
<1>3. CASE Revising
  BY <1>3 DEF Revising, Revise
<1>4. ASSUME NEW repairs, NEW blockers, NEW c, Prepare(repairs, blockers, c)
      PROVE  GraphStays
  BY <1>4 DEF Prepare
<1>5. CASE Repairing
  BY <1>5 DEF Repairing, StagePrepared, StageRevised, FindTask, LoadTask, CreateTask,
    MakeTask, StageCompleted, Stage
<1>6. CASE Children
  BY <1>6 DEF Children, StartTask, Advance, ArchiveTask
<1> QED BY <1>1, <1>2, <1>3, <1>4, <1>5, <1>6 DEF Next

LEMMA TasksStep ==
  ASSUME [Next]_vars PROVE TasksStay \/ Children \/ CreateTask \/ MakeTask
<1> USE DEF TasksStay
<1>1. CASE Stop \/ Inspect \/ Tell \/ AppendEvent \/ WriteGraph \/ RecoverAtOnce \/ Recover
           \/ UNCHANGED vars
  BY <1>1 DEF Stop, Inspect, Tell, AppendEvent, WriteGraph, RecoverAtOnce, Recover, vars
<1>2. ASSUME NEW t \in Task, Look(t) PROVE TasksStay
  BY <1>2 DEF Look
<1>3. CASE Revising
  BY <1>3 DEF Revising, Revise
<1>4. ASSUME NEW repairs, NEW blockers, NEW c, Prepare(repairs, blockers, c)
      PROVE  TasksStay
  BY <1>4 DEF Prepare
<1>5. CASE StagePrepared \/ StageRevised \/ LoadTask \/ StageCompleted
  BY <1>5 DEF StagePrepared, StageRevised, LoadTask, StageCompleted, Stage
<1>6. ASSUME NEW t \in Task, FindTask(t) PROVE TasksStay
  BY <1>6 DEF FindTask
<1> QED BY <1>1, <1>2, <1>3, <1>4, <1>5, <1>6 DEF Next, Repairing

(* Nodes and their versions are kept; a Repair node is an old one or new.     *)
LEMMA NodesStay ==
  ASSUME IInv, [Next]_vars
  PROVE  /\ GraphIsTyped'
         /\ \A t \in Nodes : t \in Nodes' /\ since'[t] = since[t]
         /\ version' \in Nat /\ version <= version'
         /\ \A t \in repair' : t \in repair \/ (t \in Task /\ since'[t] = version + 1)
<1>1. CASE GraphStays
  BY <1>1 DEF GraphStays, graph, Nodes, IInv, RepairsAreNodes, GraphIsTyped
<1>2. CASE AppendEvent
  <2>1. pc = "append" /\ since' = next.since /\ repair' = next.repair
        /\ version' = version + 1 /\ claims' = next.claims
    BY <1>2 DEF AppendEvent
  <2> QED BY <2>1 DEF IInv, GraphIsTyped, NextKeepsNodes, RepairsAreNodes, Nodes
<1> QED BY <1>1, <1>2, GraphStep

(* Directories keep their first Event; the archive keeps its directories.     *)
LEMMA DirectoriesStay ==
  ASSUME IInv, [Next]_vars
  PROVE  /\ DirectoriesAreTasks'
         /\ \A t \in Task : Loads(child[t]) =>
              \E dir \in {child'[t], stored'[t]} : dir # None /\ MadeAs(dir, child[t])
         /\ \A t \in Task : stored[t] # None => stored'[t] = stored[t]
<1> USE GraphConstants DEF IInv, DirectoriesAreTasks, Loads
<1>1. CASE TasksStay
  BY <1>1 DEF TasksStay, tasks, MadeAs
<1>2. ASSUME NEW t \in Task, StartTask(t)
      PROVE  /\ child' = [child EXCEPT ![t] = [Empty EXCEPT !.kind = "other"]]
             /\ [Empty EXCEPT !.kind = "other"] \in Child
             /\ child[t] = None /\ stored' = stored
  BY <1>2 DEF StartTask, Empty, Child, Status
<1>3. ASSUME NEW t \in Task, NEW to \in Status, Advance(t, to)
      PROVE  /\ DirectoriesAreTasks' /\ stored' = stored
             /\ \A u \in Task : Loads(child[u]) =>
                  child'[u] # None /\ MadeAs(child'[u], child[u])
  <2>1. child[t] \in Child
    BY <1>3 DEF Advance
  <2>2. [child[t] EXCEPT !.status = to] \in Child
        /\ MadeAs([child[t] EXCEPT !.status = to], child[t])
    BY <2>1 DEF Child, MadeAs
  <2>3. child' = [child EXCEPT ![t] = [child[t] EXCEPT !.status = to]]
    BY <1>3 DEF Advance
  <2>4. stored' = stored
    BY <1>3 DEF Advance
  <2>5. child'[t] \in Child /\ MadeAs(child'[t], child[t])
        /\ \A u \in Task : u # t => child'[u] = child[u]
    BY <2>2, <2>3
  <2>6. DirectoriesAreTasks'
    BY <2>2, <2>3, <2>4
  <2> QED BY <2>4, <2>5, <2>6 DEF MadeAs
<1>4. ASSUME NEW t \in Task, ArchiveTask(t)
      PROVE  /\ DirectoriesAreTasks'
             /\ \A u \in Task : u # t => child'[u] = child[u] /\ stored'[u] = stored[u]
             /\ stored[t] = None /\ stored'[t] # None /\ MadeAs(stored'[t], child[t])
  <2>1. child[t] \in Child /\ stored[t] = None
    BY <1>4 DEF ArchiveTask
  <2>2. [child[t] EXCEPT !.status = "archived"] \in Child
        /\ MadeAs([child[t] EXCEPT !.status = "archived"], child[t])
    BY <2>1 DEF Child, MadeAs, Status
  <2>3. stored' = [stored EXCEPT ![t] = [child[t] EXCEPT !.status = "archived"]]
        /\ child' = [child EXCEPT ![t] = None]
    BY <1>4 DEF ArchiveTask
  <2> QED BY <2>1, <2>2, <2>3
<1>5. CASE Children
  BY <1>2, <1>3, <1>4, <1>5 DEF Children, MadeAs
<1>6. CASE CreateTask
  <2>1. hand \in Task
    BY <1>6 DEF CreateTask, MadeAreThere, RepairsAreNodes, Nodes, HandSteps
  <2>2. Empty \in Child
    BY DEF Empty, Child, Status
  <2> QED BY <1>6, <2>1, <2>2 DEF CreateTask, MadeAs
<1>7. CASE MakeTask
  <2>1. hand \in Task /\ child[hand] = Empty /\ stored' = stored
        /\ child' = [child EXCEPT ![hand] = CreationOf(hand)]
    BY <1>7 DEF MakeTask, MadeAreThere, RepairsAreNodes, Nodes, HandSteps
  <2>2. CreationOf(hand) \in Child
    BY <2>1 DEF CreationOf, Child, Status, GraphIsTyped
  <2> QED BY <2>1, <2>2 DEF MadeAs, Empty
<1> QED BY <1>1, <1>5, <1>6, <1>7, TasksStep

-------------------------------------------------------------------------------
(* The invariant.                                                             *)

LEMMA TasksAreKept ==
  ASSUME IInv, [Next]_vars, NEW t \in Nodes, HasTask(t) PROVE HasTask(t)'
<1>1. t \in Task /\ since'[t] = since[t]
  BY NodesStay DEF Nodes
<1>2. CASE child[t] # None /\ child[t].kind = "repair" /\ child[t].version = since[t]
  <2>1. PICK dir \in {child'[t], stored'[t]} : dir # None /\ MadeAs(dir, child[t])
    BY <1>1, <1>2, DirectoriesStay DEF Loads
  <2> QED BY <1>1, <1>2, <2>1 DEF HasTask, MadeAs
<1>3. CASE stored[t] # None /\ stored[t].kind = "repair" /\ stored[t].version = since[t]
  BY <1>1, <1>3, DirectoriesStay DEF HasTask
<1> QED BY <1>2, <1>3 DEF HasTask

(* A graph that a call is about to accept.                                    *)
LEMMA RevisedKeepsNodes ==
  ASSUME IInv, Revising PROVE NextKeepsNodes'
<1>1. PICK n \in SUBSET Task, es \in SUBSET Edge, r \in SUBSET repair,
           c \in [repair -> Claims] :
        Revise([since |-> [t \in Task |-> IF t \notin n THEN 0
                                         ELSE IF t \in Nodes THEN since[t]
                                         ELSE version + 1],
                edges |-> es, repair |-> r,
                claims |-> [t \in Task |-> IF t \in repair THEN c[t] ELSE claims[t]]])
  BY DEF Revising
<1> DEFINE s == [t \in Task |-> IF t \notin n THEN 0
                               ELSE IF t \in Nodes THEN since[t] ELSE version + 1]
           k == [t \in Task |-> IF t \in repair THEN c[t] ELSE claims[t]]
           g == [since |-> s, edges |-> es, repair |-> r, claims |-> k]
<1>2. s \in [Task -> Nat] /\ k \in [Task -> Claims] /\ r \subseteq Task
  BY DEF IInv, GraphIsTyped, RepairsAreNodes, Nodes
<1>3. Revise(g)
  BY <1>1
<1>4. g.since = s /\ g.claims = k /\ g.repair = r
  OBVIOUS
<1> HIDE DEF s, k, g
<1>5. next' = g /\ UNCHANGED graph /\ \A t \in Nodes : s[t] = since[t]
  BY <1>3, <1>4 DEF Revise
<1> QED BY <1>2, <1>4, <1>5 DEF NextKeepsNodes, graph, Nodes

LEMMA RepairKeepsNodes ==
  ASSUME IInv, NEW repairs \in SUBSET Task, NEW blockers \in SUBSET Task,
         NEW c \in Claims, Prepare(repairs, blockers, c)
  PROVE  NextKeepsNodes'
<1>1. next' = WithRepairs(repairs, blockers, c) /\ UNCHANGED graph
      /\ repairs \cap Nodes = {}
  BY DEF Prepare
<1>2. next'.since = [t \in Task |-> IF t \in repairs THEN version + 1 ELSE since[t]]
      /\ next'.claims = [t \in Task |-> IF t \in repairs THEN c ELSE claims[t]]
      /\ next'.repair = repair \cup repairs
  BY <1>1 DEF WithRepairs
<1> QED BY <1>1, <1>2
        DEF IInv, GraphIsTyped, RepairsAreNodes, NextKeepsNodes, graph, Nodes

LEMMA NextStep ==
  ASSUME IInv, [Next]_vars PROVE NextKeepsNodes'
<1>1. CASE pc' \notin {"prepare", "append"}
  BY <1>1 DEF NextKeepsNodes
<1>2. CASE UNCHANGED <<graph, next>> /\ pc \in {"prepare", "append"}
  BY <1>2 DEF IInv, NextKeepsNodes, graph, Nodes
<1>3. CASE Stop \/ Inspect \/ Tell \/ WriteGraph \/ RecoverAtOnce \/ Recover \/ AppendEvent
           \/ UNCHANGED vars
  BY <1>1, <1>2, <1>3 DEF Stop, Inspect, Tell, WriteGraph, RecoverAtOnce, Recover,
     AppendEvent, End, Begin, Goto, vars, call
<1>4. ASSUME NEW t \in Task, Look(t) PROVE NextKeepsNodes'
  BY <1>1, <1>4 DEF Look
<1>5. ASSUME Repairing PROVE NextKeepsNodes'
  BY <1>1, <1>2, <1>5 DEF Repairing, StagePrepared, StageRevised, FindTask, LoadTask,
     CreateTask, MakeTask, StageCompleted, Stage, End, Goto, Return
<1>6. CASE Children
  BY <1>1, <1>2, <1>6 DEF Children, StartTask, Advance, ArchiveTask, call
<1> QED
  BY <1>3, <1>4, <1>5, <1>6, RevisedKeepsNodes, RepairKeepsNodes DEF Next

LEMMA RepairsStep ==
  ASSUME IInv, [Next]_vars PROVE RepairsAreNodes'
<1>1. ASSUME NEW t \in repair' PROVE t \in Nodes'
  BY NodesStay DEF IInv, RepairsAreNodes, Nodes
<1> QED BY <1>1, NodesStay DEF RepairsAreNodes

(* What a call has seen to.                                                   *)
LEMMA MadeStep ==
  ASSUME IInv, [Next]_vars PROVE MadeAreThere'
<1>1. \A t \in Nodes : t \in Nodes' /\ (HasTask(t) => HasTask(t)')
  BY NodesStay, TasksAreKept
<1>2. CASE made' = {} /\ pc' \notin HandSteps
  BY <1>2 DEF MadeAreThere, HandSteps
<1>3. CASE made' = made /\ pc \notin HandSteps /\ pc' \notin HandSteps
  BY <1>1, <1>3 DEF IInv, MadeAreThere, HandSteps
<1>4. CASE Stop \/ Inspect \/ Tell \/ WriteGraph \/ RecoverAtOnce \/ Recover \/ AppendEvent
  BY <1>2, <1>3, <1>4 DEF Stop, Inspect, Tell, WriteGraph, RecoverAtOnce, Recover,
     AppendEvent, End, Begin, Goto, HandSteps
<1>5. CASE UNCHANGED vars
  BY <1>5 DEF vars, call, tasks, graph, IInv, MadeAreThere, HandSteps, HasTask, Nodes
<1>6. ASSUME NEW t \in Task, Look(t) PROVE MadeAreThere'
  BY <1>3, <1>6 DEF Look, HandSteps
<1>7. CASE Revising
  BY <1>2, <1>7 DEF Revising, Revise, Begin, Goto, HandSteps
<1>8. ASSUME NEW repairs, NEW blockers, NEW c, Prepare(repairs, blockers, c)
      PROVE  MadeAreThere'
  BY <1>3, <1>8 DEF Prepare, Looked, Goto, HandSteps
<1>9. CASE StagePrepared \/ StageRevised \/ StageCompleted
  BY <1>2, <1>3, <1>9 DEF StagePrepared, StageRevised, StageCompleted, End, Goto, HandSteps
<1>10. ASSUME NEW t \in Task, FindTask(t) PROVE MadeAreThere'
  <2>1. pc = "ensure" /\ t \in repair /\ made' = made \cup {t} /\ UNCHANGED <<graph, tasks>>
    BY <1>10 DEF FindTask
  <2>2. t \in Nodes
    BY <2>1 DEF IInv, RepairsAreNodes
  <2>3. CASE hand' = t /\ pc' \in {"load", "create"}
    BY <1>1, <2>1, <2>2, <2>3 DEF IInv, MadeAreThere, HandSteps, graph
  <2>4. CASE pc' = pc /\ stored[t] # None /\ MadeAs(stored[t], CreationOf(t))
    <3>1. HasTask(t)
      BY <2>4 DEF HasTask, MadeAs, CreationOf
    <3> QED BY <1>1, <2>1, <2>2, <2>4, <3>1 DEF IInv, MadeAreThere, HandSteps
  <2> QED BY <1>10, <2>3, <2>4 DEF FindTask, Goto
<1>11. CASE LoadTask
  <2>1. pc = "load" /\ made' = made /\ UNCHANGED <<graph, tasks>> /\ hand \in Task
    BY <1>11 DEF LoadTask, IInv, MadeAreThere, RepairsAreNodes, HandSteps, Nodes
  <2>2. CASE pc' = "create" /\ hand' = hand
    BY <1>1, <2>1, <2>2 DEF IInv, MadeAreThere, HandSteps, graph
  <2>3. CASE Loads(child[hand]) /\ MadeAs(child[hand], CreationOf(hand)) /\ Return
    <3>1. HasTask(hand)
      BY <2>3 DEF HasTask, MadeAs, CreationOf, Loads
    <3>2. \A t \in made : HasTask(t)'
      BY <1>1, <2>1, <3>1 DEF IInv, MadeAreThere
    <3> QED BY <1>1, <2>1, <2>3, <3>2 DEF IInv, MadeAreThere, HandSteps, Return, Goto
  <2> QED BY <1>11, <2>2, <2>3 DEF LoadTask, Goto
<1>12. CASE CreateTask
  <2>1. pc = "create" /\ made' = made /\ UNCHANGED <<graph, stored>> /\ hand \in Task
    BY <1>12 DEF CreateTask, IInv, MadeAreThere, RepairsAreNodes, HandSteps, Nodes
  <2>2. CASE child'[hand] = Empty /\ pc' \in {"events", "resume"} /\ hand' = hand
    BY <1>1, <2>1, <2>2 DEF IInv, MadeAreThere, HandSteps, graph
  <2>3. CASE child[hand] = CreationOf(hand) /\ Return /\ child' = child
    <3>1. CreationOf(hand) \in Child
      BY <2>1 DEF CreationOf, Child, Status, IInv, GraphIsTyped
    <3>2. HasTask(hand)
      BY <2>3, <3>1, GraphConstants DEF HasTask, CreationOf
    <3> QED BY <1>1, <2>1, <2>3, <3>2 DEF IInv, MadeAreThere, HandSteps, Return, Goto
  <2> QED
    BY <1>12, <2>1, <2>2, <2>3 DEF CreateTask, Goto, IInv, DirectoriesAreTasks
<1>13. CASE MakeTask
  <2>1. /\ pc \in {"events", "resume"} /\ made' = made /\ UNCHANGED graph /\ hand \in Task
        /\ child'[hand] = CreationOf(hand) /\ Return
    BY <1>13 DEF MakeTask, IInv, MadeAreThere, RepairsAreNodes, HandSteps, Nodes,
       DirectoriesAreTasks
  <2>2. CreationOf(hand) \in Child
    BY <2>1 DEF CreationOf, Child, Status, IInv, GraphIsTyped
  <2>3. ASSUME NEW t \in made PROVE HasTask(t)'
    <3>1. CASE t = hand
      BY <2>1, <2>2, <3>1, GraphConstants DEF HasTask, CreationOf, graph
    <3>2. CASE t # hand
      BY <1>1, <2>1, <3>2 DEF IInv, MadeAreThere
    <3> QED BY <3>1, <3>2
  <2> QED BY <1>1, <2>1, <2>3 DEF IInv, MadeAreThere, HandSteps, Return, Goto
<1>14. CASE Children
  <2>1. UNCHANGED <<graph, pc, made, hand>>
    BY <1>14 DEF Children, StartTask, Advance, ArchiveTask, call
  <2>2. ASSUME pc \in {"events", "resume"} PROVE child'[hand] = Empty
    <3>1. hand \in Task /\ child[hand] = Empty /\ ~Loads(child[hand]) /\ Empty # None
      BY <2>2, GraphConstants DEF IInv, MadeAreThere, RepairsAreNodes, HandSteps, Nodes,
         Loads, Empty, Child, Status
    <3> QED
      BY <1>14, <3>1 DEF Children, StartTask, Advance, ArchiveTask, IInv,
         DirectoriesAreTasks
  <2> QED BY <1>1, <2>1, <2>2 DEF IInv, MadeAreThere, HandSteps, graph
<1> QED
  BY <1>4, <1>5, <1>6, <1>7, <1>8, <1>9, <1>10, <1>11, <1>12, <1>13, <1>14
     DEF Next, Repairing

(* A Repair node that comes in is newer than any operation completed.         *)
LEMMA CompletedStep ==
  ASSUME IInv, [Next]_vars PROVE CompletedIsOld'
<1>1. /\ version' \in Nat /\ version <= version' /\ version \in Nat
      /\ \A t \in repair : t \in Nodes /\ since'[t] = since[t]
      /\ \A t \in repair' : t \in repair \/ since'[t] = version + 1
  BY NodesStay DEF IInv, RepairsAreNodes
<1>2. CASE journal' = journal
  <2>1. SUFFICES ASSUME journal # None, journal.state = "completed"
                 PROVE  /\ journal.of \in Nat /\ journal.of <= version'
                        /\ \A t \in repair' : since'[t] <= journal.of => HasTask(t)'
    BY <1>2 DEF CompletedIsOld
  <2>2. /\ journal.of \in Nat /\ journal.of <= version
        /\ \A t \in repair : since[t] <= journal.of => HasTask(t)
    BY <2>1 DEF IInv, CompletedIsOld
  <2>3. ASSUME NEW t \in repair', since'[t] <= journal.of PROVE HasTask(t)'
    <3>1. t \in repair
      BY <1>1, <2>2, <2>3
    <3> QED BY <1>1, <2>2, <2>3, <3>1, TasksAreKept
  <2> QED BY <1>1, <2>2, <2>3
<1>3. CASE StageCompleted
  <2>1. /\ journal'.of = version /\ UNCHANGED <<graph, tasks>>
        /\ \A t \in repair : HasTask(t)
    BY <1>3 DEF StageCompleted, Stage, IInv, MadeAreThere, HandSteps
  <2> QED BY <1>1, <2>1, TasksAreKept DEF CompletedIsOld, graph
<1>4. CASE StagePrepared \/ StageRevised
  BY <1>4 DEF StagePrepared, StageRevised, Stage, CompletedIsOld
<1>5. CASE Stop \/ Inspect \/ Tell \/ WriteGraph \/ RecoverAtOnce \/ Recover \/ AppendEvent
           \/ LoadTask \/ CreateTask \/ MakeTask \/ Children \/ UNCHANGED vars
  BY <1>2, <1>5 DEF Stop, Inspect, Tell, WriteGraph, RecoverAtOnce, Recover, AppendEvent,
     LoadTask, CreateTask, MakeTask, Children, StartTask, Advance, ArchiveTask, files, vars
<1>6. ASSUME NEW t \in Task, Look(t) \/ FindTask(t) PROVE journal' = journal
  BY <1>6 DEF Look, FindTask, files
<1>7. CASE Revising
  BY <1>2, <1>7 DEF Revising, Revise, files
<1>8. ASSUME NEW repairs, NEW blockers, NEW c, Prepare(repairs, blockers, c)
      PROVE  journal' = journal
  BY <1>8 DEF Prepare, files
<1> QED BY <1>2, <1>3, <1>4, <1>5, <1>6, <1>7, <1>8 DEF Next, Repairing

LEMMA GraphStart ==
  ASSUME Init PROVE IInv
<1>1. since \in [Task -> Nat] /\ claims \in [Task -> Claims]
  BY GraphConstants DEF Init
<1> QED
  BY <1>1 DEF Init, IInv, GraphIsTyped, DirectoriesAreTasks, NextKeepsNodes,
     RepairsAreNodes, MadeAreThere, CompletedIsOld, HandSteps

(* What the calls know of graph, journal and children stays true, whatever    *)
(* is revised, repaired or done to the children meanwhile.                    *)
THEOREM Inductive == Spec => []IInv
<1>1. Init => IInv
  BY GraphStart
<1>2. IInv /\ [Next]_vars => IInv'
  BY NodesStay, DirectoriesStay, NextStep, RepairsStep, MadeStep, CompletedStep DEF IInv
<1> QED BY <1>1, <1>2, PTL DEF Spec

(* The repair operation is completed only when the Tasks are there, and they  *)
(* stay, for any graph, any revisions and any recoveries                      *)
(* (createDurableInitiativeRepairs, recoverInitiativeRepairTasks).            *)
THEOREM RepairsAreDone == Spec => []CompletedMeansDone
<1>1. IInv => CompletedMeansDone
  BY DEF IInv, CompletedIsOld, CompletedMeansDone, HasTask
<1> QED BY <1>1, Inductive, PTL

(* An accepted node stays with the version it came in with, and no call gives *)
(* a Task another first Event.                                                *)
THEOREM NodesAndEventsStay == Spec => NodesAndEventsAreKept
<1>1. IInv /\ [Next]_vars =>
        [/\ \A t \in Nodes : since'[t] = since[t]
         /\ \A t \in Task : Loads(child[t]) =>
              \E dir \in {child'[t], stored'[t]} : dir # None /\ MadeAs(dir, child[t])
         /\ \A t \in Task : stored[t] # None => stored'[t] = stored[t]]_vars
  BY NodesStay, DirectoriesStay
<1> QED BY <1>1, Inductive, PTL DEF Spec, NodesAndEventsAreKept

-------------------------------------------------------------------------------
(* Types.                                                                    *)

(* What a graph, a journal and a call are; the graph about to be accepted is  *)
(* there.                                                                     *)
NextIsThere == pc \in {"prepare", "append"} => next # None
TypeInv == TypeOK /\ NextIsThere

LEMMA GraphFields ==
  ASSUME NEW g
  PROVE  /\ g \in Graph => /\ g.since \in [Task -> Nat] /\ g.edges \subseteq Edge
                           /\ g.claims \in [Task -> Claims] /\ g.repair \subseteq Task
         /\ Accepted \in Graph <=>
              /\ since \in [Task -> Nat] /\ edges \subseteq Edge
              /\ claims \in [Task -> Claims] /\ repair \subseteq Task
BY DEF Graph, Accepted

LEMMA TypeOfGraphs ==
  ASSUME IInv, TypeInv, AppendEvent PROVE TypeInv'
<1>1. next \in Graph /\ GraphConstants BY GraphConstants DEF TypeInv, TypeOK, NextIsThere, AppendEvent
<1>2. Accepted' \in Graph BY <1>1, GraphFields DEF AppendEvent, Graph, Accepted
<1>3. version' = version + 1 /\ version' \in Nat \ {0} /\ file \in 0..version'
  BY DEF TypeInv, TypeOK, AppendEvent
<1>4. journal # None =>
       \/ journal \in [of : 1..(version' + 1), state : {"prepared"}]
       \/ journal \in [of : 1..version', state : {"graph-revised", "completed"}]
  BY <1>3 DEF TypeInv, TypeOK
<1> QED BY <1>2, <1>3, <1>4 DEF TypeInv, TypeOK, AppendEvent, Accepted, NextIsThere, files, tasks, Goto, Steps

(* The graph stays, and where a call is, what it has seen and seen to.        *)
LEMMA TypeStays ==
  ASSUME TypeInv, DirectoriesAreTasks', GraphStays, UNCHANGED file,
         journal' = journal \/ journal' \in [of : {version + 1}, state : {"prepared"}]
           \/ journal' \in [of : {version}, state : {"graph-revised", "completed"}],
         pc' \in Steps, goal' \in {"inspect", "revise", "integrate", "recover"},
         next' \in Graph \cup {None}, pc' \in {"prepare", "append"} => next' # None,
         seen' \in [Task -> {None, "waiting", "ready", "blocked", "completed"}],
         made' \subseteq Task, hand' \in Task \cup {None}
  PROVE  TypeInv'
<1>1. /\ [since |-> since, edges |-> edges, claims |-> claims, repair |-> repair]' \in Graph
      /\ version' = version /\ version \in Nat \ {0} /\ file' \in 0..version
  BY DEF GraphStays, graph, TypeInv, TypeOK
<1>2. journal' # None =>
       \/ journal' \in [of : 1..(version + 1), state : {"prepared"}]
       \/ journal' \in [of : 1..version, state : {"graph-revised", "completed"}]
  BY <1>1 DEF TypeInv, TypeOK
<1> QED BY <1>1, <1>2 DEF TypeInv, TypeOK, NextIsThere, DirectoriesAreTasks


LEMMA TypeOfStep ==
  ASSUME IInv, TypeInv, [Next]_vars PROVE TypeInv'
<1> USE DEF GraphStays, graph, tasks, Goto, Steps
<1>1. DirectoriesAreTasks' BY DirectoriesStay
<1>2. /\ version \in Nat \ {0} /\ file \in 0..version /\ pc \in Steps
      /\ goal \in {"inspect", "revise", "integrate", "recover"}
      /\ next \in Graph \cup {None} /\ (pc \in {"prepare", "append"} => next # None)
      /\ seen \in [Task -> {None, "waiting", "ready", "blocked", "completed"}]
      /\ made \subseteq Task /\ hand \in Task \cup {None}
  BY DEF TypeInv, TypeOK, NextIsThere
<1>3. [t \in Task |-> None] \in [Task -> {None, "waiting", "ready", "blocked", "completed"}]
  OBVIOUS
<1>4. Accepted \in Graph BY DEF TypeInv, TypeOK, Accepted
<1>5. CASE Stop \/ Inspect \/ Tell \/ RecoverAtOnce \/ Recover
  BY <1>1, <1>2, <1>3, <1>5, TypeStays
    DEF Stop, Inspect, Tell, RecoverAtOnce, Recover, End, Begin, files
<1>6. ASSUME NEW t \in Task, Look(t) PROVE TypeInv'
  <2>1. seen' \in [Task -> {None, "waiting", "ready", "blocked", "completed"}]
    <3> DEFINE dir == IF Loads(child[t]) THEN child[t] ELSE stored[t]
    <3>1. dir \in Child \cup {None} BY DEF IInv, DirectoriesAreTasks
    <3>2. Loads(dir) => dir.status \in Status BY <3>1 DEF Loads, Child
    <3> HIDE DEF dir
    <3>3. Own(dir) \in {"waiting", "ready", "blocked", "completed"} BY <3>2 DEF Own, Status
    <3>4. seen' = [seen EXCEPT ![t] = Own(dir)] BY <1>6 DEF Look, dir
    <3> QED BY <1>2, <3>3, <3>4
  <2> QED BY <1>1, <1>2, <1>6, <2>1, TypeStays DEF Look, files
<1>7. CASE Revising
  <2>1. PICK n \in SUBSET Task, es \in SUBSET Edge, r \in SUBSET repair, c \in [repair -> Claims] :
          Revise([since |-> [t \in Task |-> IF t \notin n THEN 0
                                            ELSE IF t \in Nodes THEN since[t] ELSE version + 1],
                  edges |-> es, repair |-> r,
                  claims |-> [t \in Task |-> IF t \in repair THEN c[t] ELSE claims[t]]])
    BY <1>7 DEF Revising
  <2> DEFINE s == [t \in Task |-> IF t \notin n THEN 0
                                  ELSE IF t \in Nodes THEN since[t] ELSE version + 1]
             k == [t \in Task |-> IF t \in repair THEN c[t] ELSE claims[t]]
  <2>2. s \in [Task -> Nat] /\ k \in [Task -> Claims] /\ r \subseteq Task
    BY <1>2, <1>4, GraphFields
  <2> HIDE DEF s, k
  <2>3. Revise([since |-> s, edges |-> es, repair |-> r, claims |-> k]) BY <2>1 DEF s, k
  <2>4. [since |-> s, edges |-> es, repair |-> r, claims |-> k] \in Graph BY <2>2 DEF Graph
  <2>5. next' \in Graph /\ next' # None BY <2>3, <2>4, GraphConstants DEF Revise
  <2> QED BY <1>1, <1>2, <1>3, <2>3, <2>5, TypeStays DEF Revise, Begin, files
<1>8. ASSUME NEW repairs \in SUBSET Task, NEW blockers \in SUBSET Task, NEW c \in Claims,
             Prepare(repairs, blockers, c)
      PROVE  TypeInv'
  <2>1. next' = WithRepairs(repairs, blockers, c) /\ next'.edges \subseteq Edge
    BY <1>8 DEF Prepare
  <2>2. WithRepairs(repairs, blockers, c).edges \subseteq Edge BY <2>1
  <2>3. WithRepairs(repairs, blockers, c) \in Graph
    <3> DEFINE s == [t \in Task |-> IF t \in repairs THEN version + 1 ELSE since[t]]
               e == edges \cup {[from |-> b, to |-> t, type |-> "blocks"] :
                                  b \in blockers, t \in repairs}
               k == [t \in Task |-> IF t \in repairs THEN c ELSE claims[t]]
    <3>1. /\ s \in [Task -> Nat] /\ k \in [Task -> Claims] /\ repair \cup repairs \subseteq Task
      BY <1>2, <1>4, GraphFields
    <3> HIDE DEF s, e, k
    <3>2. WithRepairs(repairs, blockers, c)
            = [since |-> s, edges |-> e, claims |-> k, repair |-> repair \cup repairs]
      BY DEF WithRepairs, s, e, k
    <3>3. e \subseteq Edge BY <2>2, <3>2
    <3> QED BY <3>1, <3>2, <3>3 DEF Graph
  <2>4. next' \in Graph /\ next' # None BY <2>1, <2>3, GraphConstants
  <2> QED BY <1>1, <1>2, <1>3, <1>8, <2>4, TypeStays DEF Prepare, files
<1>9. CASE AppendEvent BY <1>9, TypeOfGraphs
<1>10. CASE WriteGraph
  <2>1. /\ UNCHANGED <<graph, journal, tasks>> /\ file' = version
        /\ End \/ (Goto("revised") /\ UNCHANGED <<goal, next, seen, made, hand>>)
    BY <1>10 DEF WriteGraph
  <2> QED BY <1>1, <1>2, <1>3, <2>1 DEF End, TypeInv, TypeOK, NextIsThere, DirectoriesAreTasks
<1>11. CASE StagePrepared \/ StageRevised \/ StageCompleted
  BY <1>1, <1>2, <1>3, <1>11, TypeStays DEF StagePrepared, StageRevised, StageCompleted, Stage, End
<1>12. ASSUME NEW t \in Task, FindTask(t) PROVE TypeInv'
  BY <1>1, <1>2, <1>12, TypeStays DEF FindTask, files
<1>13. CASE LoadTask \/ CreateTask \/ MakeTask
  BY <1>1, <1>2, <1>13, TypeStays DEF LoadTask, CreateTask, MakeTask, Return, files
<1>14. CASE Children \/ UNCHANGED vars
  <2>1. UNCHANGED <<graph, files, call>>
    BY <1>14 DEF Children, StartTask, Advance, ArchiveTask, vars
  <2> QED BY <1>1, <1>2, <2>1, TypeStays DEF files, call
<1> QED BY <1>5, <1>6, <1>7, <1>8, <1>9, <1>10, <1>11, <1>12, <1>13, <1>14 DEF Next, Repairing

(* The graph, the journal, the directories and the call under way have their  *)
(* types.                                                                     *)
THEOREM GraphTypeCorrect == Spec => []TypeOK
<1>1. Init => TypeInv
  <2> SUFFICES ASSUME Init PROVE TypeInv
    OBVIOUS
  <2>1. /\ since \in [Task -> Nat] /\ edges \subseteq Edge
        /\ claims \in [Task -> Claims] /\ repair \subseteq Task
    BY GraphConstants DEF Init
  <2>2. Accepted \in Graph BY <2>1, GraphFields
  <2> QED BY <2>2 DEF Init, TypeInv, TypeOK, NextIsThere, Accepted, Steps
<1>2. TypeInv => TypeOK BY DEF TypeInv
<1> QED BY <1>1, <1>2, TypeOfStep, Inductive, PTL DEF Spec

-------------------------------------------------------------------------------
(* What the recursive Readiness computes. No induction is needed: Acyclic     *)
(* gives every set of nodes a first one, from which two answers to the        *)
(* recursion agree, and an answer for some nodes extends to one more.         *)

(* One step of the recursion of Readiness.                                    *)
ReadyStep(read, g, t) ==
  LET own == read[t]
  IN  IF own \in {"completed", "blocked"} THEN own
      ELSE IF \E e \in Incoming(t) : e.type = "blocks" /\ g[e.from] = "blocked"
           THEN "blocked"
      ELSE IF own = "ready"
              /\ \A e \in Incoming(t) : e.type = "blocks" /\ g[e.from] = "completed"
           THEN "ready" ELSE "waiting"

EdgesJoinNodes == \A e \in edges : e.from \in Nodes /\ e.to \in Nodes

(* The recursion, done for a part of the nodes that is closed under           *)
(* predecessors.                                                              *)
Partly(read, s, g) ==
  /\ s \subseteq Nodes
  /\ \A t \in s : \A e \in Incoming(t) : e.from \in s
  /\ \A t \in s : g[t] = ReadyStep(read, g, t)

LEMMA Bottom ==
  ASSUME Acyclic(Nodes, edges), NEW s \in SUBSET Nodes, s # {}
  PROVE  \E t \in s : \A e \in Incoming(t) : e.from \notin s
  BY DEF Acyclic, Incoming

LEMMA StepOfPredecessors ==
  ASSUME NEW read, NEW g, NEW h, NEW t, \A e \in Incoming(t) : g[e.from] = h[e.from]
  PROVE  ReadyStep(read, g, t) = ReadyStep(read, h, t)
  BY DEF ReadyStep

(* Where two answers meet they agree.                                         *)
LEMMA PartsAgree ==
  ASSUME Acyclic(Nodes, edges), NEW read, NEW s, NEW g, NEW r, NEW h,
         Partly(read, s, g), Partly(read, r, h), NEW t \in s \cap r
  PROVE  g[t] = h[t]
<1> DEFINE D == {u \in s \cap r : g[u] # h[u]}
<1> SUFFICES ASSUME D # {} PROVE FALSE OBVIOUS
<1>1. D \in SUBSET Nodes BY DEF Partly
<1>2. PICK u \in D : \A e \in Incoming(u) : e.from \notin D BY <1>1, Bottom
<1>3. \A e \in Incoming(u) : e.from \in s \cap r BY <1>2 DEF Partly
<1>4. \A e \in Incoming(u) : g[e.from] = h[e.from] BY <1>2, <1>3
<1>5. g[u] = ReadyStep(read, g, u) /\ h[u] = ReadyStep(read, h, u) BY <1>2 DEF Partly
<1>6. g[u] = h[u] BY <1>4, <1>5, StepOfPredecessors
<1> QED BY <1>2, <1>6

(* In a graph without cycles the recursion has an answer.                     *)
LEMMA RecursionEnds ==
  ASSUME Acyclic(Nodes, edges), EdgesJoinNodes, NEW read
  PROVE  \E g : g = [t \in Nodes |-> ReadyStep(read, g, t)]
<1> DEFINE Good(t, v) == \E s, g : Partly(read, s, g) /\ t \in s /\ g[t] = v
           U == {t \in Nodes : \E v : Good(t, v)}
           F == [t \in Nodes |-> CHOOSE v : Good(t, v)]
<1>1. ASSUME NEW s, NEW g, Partly(read, s, g), NEW t \in s PROVE F[t] = g[t]
  <2>1. Good(t, g[t]) BY <1>1
  <2>2. Good(t, F[t])
    <3>1. t \in Nodes BY <1>1 DEF Partly
    <3> QED BY <2>1, <3>1
  <2>3. PICK r, h : Partly(read, r, h) /\ t \in r /\ h[t] = F[t] BY <2>2
  <2> HIDE DEF F
  <2> QED BY <1>1, <2>3, PartsAgree
<1> HIDE DEF F
<1>2. ASSUME NEW t \in U
      PROVE  /\ \A e \in Incoming(t) : e.from \in U
             /\ F[t] = ReadyStep(read, F, t)
  <2>1. PICK s, g : Partly(read, s, g) /\ t \in s BY <1>2
  <2>2. \A u \in s : u \in U BY <2>1 DEF Partly
  <2>3. \A e \in Incoming(t) : e.from \in s BY <2>1 DEF Partly
  <2>4. \A e \in Incoming(t) : F[e.from] = g[e.from] BY <1>1, <2>1, <2>3
  <2>5. g[t] = ReadyStep(read, g, t) BY <2>1 DEF Partly
  <2>6. ReadyStep(read, F, t) = ReadyStep(read, g, t) BY <2>4, StepOfPredecessors
  <2> QED BY <1>1, <2>1, <2>2, <2>3, <2>5, <2>6
<1>3. U = Nodes
  <2> DEFINE R == Nodes \ U
  <2> SUFFICES ASSUME R # {} PROVE FALSE OBVIOUS
  <2>1. PICK t \in R : \A e \in Incoming(t) : e.from \notin R BY Bottom
  <2>2. \A e \in Incoming(t) : e.from \in U /\ e.from # t
    BY <2>1 DEF EdgesJoinNodes, Incoming
  <2> DEFINE s == U \cup {t}
             h == [u \in s |-> IF u = t THEN ReadyStep(read, F, t) ELSE F[u]]
  <2>3. s \subseteq Nodes /\ \A u \in s : \A e \in Incoming(u) : e.from \in s
    BY <1>2, <2>1, <2>2
  <2>4. t \in s /\ h[t] = ReadyStep(read, F, t) OBVIOUS
  <2>5. \A u \in U : u \in s /\ u # t /\ h[u] = F[u] BY <2>1
  <2> HIDE DEF h, s
  <2>6. ASSUME NEW u \in s PROVE h[u] = ReadyStep(read, h, u)
    <3>1. u \in U \cup {t} BY DEF s
    <3>2. \A e \in Incoming(u) : e.from \in U BY <1>2, <2>2, <3>1
    <3>3. \A e \in Incoming(u) : h[e.from] = F[e.from] BY <2>5, <3>2
    <3>4. ReadyStep(read, h, u) = ReadyStep(read, F, u) BY <3>3, StepOfPredecessors
    <3>5. h[u] = ReadyStep(read, F, u) BY <1>2, <2>4, <2>5, <3>1
    <3> QED BY <3>4, <3>5
  <2>7. Partly(read, s, h) BY <2>3, <2>6 DEF Partly
  <2>8. t \in U BY <2>1, <2>4, <2>7
  <2> QED BY <2>1, <2>8
<1>4. \A t \in Nodes : F[t] = ReadyStep(read, F, t) BY <1>2, <1>3
<1>5. F = [t \in Nodes |-> F[t]] BY DEF F
<1>6. F = [t \in Nodes |-> ReadyStep(read, F, t)] BY <1>4, <1>5
<1> QED BY <1>6

(* So the function Readiness chooses is one that fits its own definition.     *)
LEMMA ReadinessOf ==
  ASSUME Acyclic(Nodes, edges), EdgesJoinNodes, NEW read, NEW t \in Nodes
  PROVE  Readiness(read)[t] = ReadyStep(read, Readiness(read), t)
<1> DEFINE f == CHOOSE g : g = [u \in Nodes |-> ReadyStep(read, g, u)]
<1>1. f = Readiness(read) BY DEF Readiness, ReadyStep
<1>2. f = [u \in Nodes |-> ReadyStep(read, f, u)] BY RecursionEnds
<1> HIDE DEF f
<1>3. f[t] = ReadyStep(read, f, t) BY <1>2
<1> QED BY <1>1, <1>3

-------------------------------------------------------------------------------
(* What the values say of each other.                                         *)
LEMMA Values ==
  ASSUME Acyclic(Nodes, edges), EdgesJoinNodes, NEW t \in Nodes
  PROVE  LET f == Readiness(seen) IN
         /\ f[t] = "completed" <=> seen[t] = "completed"
         /\ f[t] = "blocked" <=>
              \/ seen[t] = "blocked"
              \/ /\ seen[t] # "completed"
                 /\ \E e \in Incoming(t) : e.type = "blocks" /\ f[e.from] = "blocked"
         /\ f[t] = "ready" <=>
              /\ seen[t] = "ready" /\ f[t] # "blocked"
              /\ \A e \in Incoming(t) : e.type = "blocks" /\ f[e.from] = "completed"
<1> DEFINE f == Readiness(seen)
<1>1. f[t] = ReadyStep(seen, f, t) BY ReadinessOf
<1> HIDE DEF f
<1>2. /\ f[t] = "completed" <=> seen[t] = "completed"
      /\ f[t] = "blocked" <=>
           \/ seen[t] = "blocked"
           \/ /\ seen[t] # "completed"
              /\ \E e \in Incoming(t) : e.type = "blocks" /\ f[e.from] = "blocked"
      /\ f[t] = "ready" <=>
           /\ seen[t] = "ready" /\ f[t] # "blocked"
           /\ \A e \in Incoming(t) : e.type = "blocks" /\ f[e.from] = "completed"
  BY <1>1 DEF ReadyStep
<1> QED BY <1>2 DEF f

(* A set that no block leads out of.                                          *)
BlocksReach(s) ==
  \A u \in Nodes :
    (\/ seen[u] = "blocked"
     \/ /\ seen[u] # "completed"
        /\ \E e \in edges : e.to = u /\ e.type = "blocks" /\ e.from \in s) => u \in s

LEMMA BlockedIsReached ==
  ASSUME Acyclic(Nodes, edges), EdgesJoinNodes, NEW t \in Nodes
  PROVE  Readiness(seen)[t] = "blocked" <=> t \in Reached
<1> DEFINE f == Readiness(seen)
           B == {u \in Nodes : f[u] = "blocked"}
<1> HIDE DEF f
<1>1. ASSUME NEW u \in Nodes
      PROVE  f[u] = "blocked" <=>
               \/ seen[u] = "blocked"
               \/ /\ seen[u] # "completed"
                  /\ \E e \in Incoming(u) : e.type = "blocks" /\ f[e.from] = "blocked"
  BY Values DEF f
<1>2. Reached = {u \in Nodes : \A s \in SUBSET Nodes : BlocksReach(s) => u \in s}
  BY DEF Reached, BlocksReach
<1>3. ASSUME t \in Reached PROVE t \in B
  <2>1. BlocksReach(B)
    <3> SUFFICES ASSUME NEW u \in Nodes,
                        \/ seen[u] = "blocked"
                        \/ /\ seen[u] # "completed"
                           /\ \E e \in edges : e.to = u /\ e.type = "blocks" /\ e.from \in B
                 PROVE  f[u] = "blocked"
      BY DEF BlocksReach
    <3>1. CASE seen[u] = "blocked" BY <1>1, <3>1
    <3>2. CASE seen[u] # "completed" /\ \E e \in edges : e.to = u /\ e.type = "blocks" /\ e.from \in B
      <4>1. PICK e \in edges : e.to = u /\ e.type = "blocks" /\ e.from \in B BY <3>2
      <4>2. e \in Incoming(u) BY <4>1 DEF Incoming
      <4> QED BY <1>1, <3>2, <4>1, <4>2
    <3> QED BY <3>1, <3>2
  <2>2. B \in SUBSET Nodes OBVIOUS
  <2> QED BY <1>2, <1>3, <2>1, <2>2
<1>4. ASSUME NEW s \in SUBSET Nodes, BlocksReach(s) PROVE B \subseteq s
  <2> DEFINE D == B \ s
  <2> SUFFICES ASSUME D # {} PROVE FALSE OBVIOUS
  <2>1. PICK u \in D : \A e \in Incoming(u) : e.from \notin D BY Bottom
  <2>2. u \in Nodes /\ f[u] = "blocked" /\ u \notin s BY <2>1
  <2>3. seen[u] # "blocked" BY <1>4, <2>2 DEF BlocksReach
  <2>4. PICK e \in Incoming(u) : seen[u] # "completed" /\ e.type = "blocks" /\ f[e.from] = "blocked"
    BY <1>1, <2>2, <2>3
  <2>5. e \in edges /\ e.to = u /\ e.from \in B BY <2>4 DEF Incoming, EdgesJoinNodes
  <2>6. e.from \in s BY <2>1, <2>4, <2>5
  <2> QED BY <1>4, <2>2, <2>4, <2>5, <2>6 DEF BlocksReach
<1> QED BY <1>2, <1>3, <1>4 DEF f

LEMMA FrontierOf ==
  ASSUME Acyclic(Nodes, edges), EdgesJoinNodes
  PROVE  Frontier = {t \in Nodes \ Reached :
                       /\ seen[t] = "ready"
                       /\ \A e \in Incoming(t) :
                            e.type = "blocks" /\ seen[e.from] = "completed"}
<1> DEFINE f == Readiness(seen)
<1> HIDE DEF f
<1>1. Frontier = {t \in Nodes : f[t] = "ready"} BY DEF Frontier, f
<1>2. ASSUME NEW t \in Nodes
      PROVE  f[t] = "ready" <=>
               /\ t \notin Reached /\ seen[t] = "ready"
               /\ \A e \in Incoming(t) : e.type = "blocks" /\ seen[e.from] = "completed"
  <2>1. \A e \in Incoming(t) : f[e.from] = "completed" <=> seen[e.from] = "completed"
    BY Values DEF f, Incoming, EdgesJoinNodes
  <2>2. f[t] = "ready" <=>
          /\ seen[t] = "ready" /\ f[t] # "blocked"
          /\ \A e \in Incoming(t) : e.type = "blocks" /\ f[e.from] = "completed"
    BY Values DEF f
  <2>3. f[t] = "blocked" <=> t \in Reached BY BlockedIsReached DEF f
  <2> QED BY <2>1, <2>2, <2>3
<1> QED BY <1>1, <1>2

-------------------------------------------------------------------------------
(* The invariant of the work: the accepted graph, and the one about to be,    *)
(* are valid; a revision brings no new Repair node, and a repair is prepared  *)
(* only over finished nodes; and what a call has seen completed is finished,  *)
(* however long ago it looked.                                                *)

GraphIsValid ==
  /\ EdgesJoinNodes /\ Acyclic(Nodes, edges)
  /\ \A t \in Nodes : since[t] <= version
NextIsValid ==
  pc \in {"prepare", "append"} =>
    /\ Valid(next)
    /\ \A t \in Task \ Nodes : next.since[t] \in {0, version + 1}
    /\ next.repair \subseteq repair \/ \A b \in Nodes : Finished(b)
SeenIsTrue ==
  pc = "look" =>
    /\ seen = [t \in Task |-> seen[t]]
    /\ \A t \in Nodes : seen[t] # None /\ seen[t] = "completed" => Finished(t)
ActiveChildren == \A t \in Task : Loads(child[t]) => child[t].status # "archived"
WorkInv ==
  /\ GraphIsValid /\ NextIsValid /\ SeenIsTrue /\ ActiveChildren
  /\ IntegrationFollowsWork

(* Nothing that is finished is opened again.                                  *)
LEMMA FinishedStays ==
  ASSUME IInv, ActiveChildren, [Next]_vars
  PROVE  ActiveChildren' /\ \A t \in Task : Finished(t) => Finished(t)'
<1>1. CASE TasksStay
  BY <1>1 DEF TasksStay, tasks, ActiveChildren, Finished
<1>2. ASSUME NEW t \in Task, StartTask(t)
      PROVE  ActiveChildren' /\ \A u \in Task : Finished(u) => Finished(u)'
  <2>1. /\ child[t] = None /\ stored' = stored
        /\ child'[t] = [Empty EXCEPT !.kind = "other"]
        /\ \A u \in Task \ {t} : child'[u] = child[u]
    BY <1>2 DEF StartTask, IInv, DirectoriesAreTasks, files
  <2>2. child'[t].status = "triage" BY <2>1 DEF Empty
  <2> QED BY <2>1, <2>2 DEF ActiveChildren, Finished, Loads
<1>3. ASSUME NEW t \in Task, ArchiveTask(t)
      PROVE  ActiveChildren' /\ \A u \in Task : Finished(u) => Finished(u)'
  <2>1. /\ child'[t] = None /\ stored'[t] = [child[t] EXCEPT !.status = "archived"]
        /\ Loads(child[t])
        /\ \A u \in Task \ {t} : child'[u] = child[u] /\ stored'[u] = stored[u]
    BY <1>3 DEF ArchiveTask, IInv, DirectoriesAreTasks, files
  <2>2. stored'[t] # None
    <3>1. child[t] \in Child BY <2>1 DEF IInv, DirectoriesAreTasks, Loads
    <3>2. stored'[t] \in Child BY <2>1, <3>1 DEF Child, Status
    <3> QED BY <3>2, GraphConstants
  <2> QED BY <2>1, <2>2 DEF ActiveChildren, Finished, Loads
<1>4. ASSUME NEW t \in Task, NEW to \in Status, Advance(t, to)
      PROVE  ActiveChildren' /\ \A u \in Task : Finished(u) => Finished(u)'
  <2>1. /\ child'[t] = [child[t] EXCEPT !.status = to] /\ Loads(child[t]) /\ stored' = stored
        /\ <<t, child[t].status, to>> \in Moves
        /\ \A u \in Task \ {t} : child'[u] = child[u]
    BY <1>4 DEF Advance, IInv, DirectoriesAreTasks, files
  <2>2. child[t].status # "completed" /\ to # "archived"
    BY <2>1, GraphConstants
  <2>3. child[t] \in Child BY <2>1 DEF IInv, DirectoriesAreTasks, Loads
  <2>4. child'[t].status = to BY <2>1, <2>3 DEF Child
  <2> QED BY <2>1, <2>2, <2>4 DEF ActiveChildren, Finished
<1>5. CASE CreateTask \/ MakeTask
  <2>1. CASE child' = child BY <1>5, <2>1 DEF CreateTask, MakeTask, ActiveChildren, Finished
  <2>2. CASE child' # child
    <3>1. /\ hand \in Task /\ stored' = stored
          /\ child[hand] \in {None, Empty}
          /\ child'[hand] \in {Empty, CreationOf(hand)}
          /\ \A u \in Task \ {hand} : child'[u] = child[u]
      <4>1. hand \in Task /\ (pc \in {"events", "resume"} => child[hand] = Empty)
        BY <1>5 DEF CreateTask, MakeTask, IInv, MadeAreThere, RepairsAreNodes, Nodes, HandSteps
      <4> QED BY <1>5, <2>2, <4>1 DEF CreateTask, MakeTask, IInv, DirectoriesAreTasks
    <3>2. child'[hand].status = "triage" /\ ~Loads(child[hand])
      BY <3>1 DEF Empty, CreationOf, Loads
    <3> QED BY <3>1, <3>2 DEF ActiveChildren, Finished
  <2> QED BY <2>1, <2>2
<1> QED BY <1>1, <1>2, <1>3, <1>4, <1>5, TasksStep DEF Children

LEMMA ValidGraphStep ==
  ASSUME IInv, WorkInv, [Next]_vars PROVE GraphIsValid'
<1>1. CASE GraphStays
  BY <1>1 DEF GraphStays, graph, WorkInv, GraphIsValid, EdgesJoinNodes, Acyclic, Nodes
<1>2. CASE AppendEvent
  <2>1. pc = "append" /\ since' = next.since /\ edges' = next.edges /\ version' = version + 1
    BY <1>2 DEF AppendEvent
  <2>2. Valid(next) /\ \A t \in Task \ Nodes : next.since[t] \in {0, version + 1}
    BY <2>1 DEF WorkInv, NextIsValid
  <2>3. Nodes' = {t \in Task : next.since[t] # 0} BY <2>1 DEF Nodes
  <2>4. EdgesJoinNodes' /\ Acyclic(Nodes', edges')
    BY <2>1, <2>2, <2>3 DEF Valid, EdgesJoinNodes
  <2>5. ASSUME NEW t \in Nodes' PROVE since'[t] <= version'
    <3>1. CASE t \in Nodes
      BY <2>1, <3>1 DEF IInv, NextKeepsNodes, RepairsAreNodes, WorkInv, GraphIsValid,
         GraphIsTyped, Nodes
    <3>2. CASE t \notin Nodes
      BY <2>1, <2>2, <2>3, <3>2 DEF IInv, RepairsAreNodes
    <3> QED BY <3>1, <3>2
  <2> QED BY <2>4, <2>5 DEF GraphIsValid, Acyclic
<1> QED BY <1>1, <1>2, GraphStep

(* What a look says and what is done of a node agree, so Repair nodes are     *)
(* prepared only over finished work.                                          *)
LEMMA LookedIsFinished ==
  ASSUME WorkInv, Looked, NEW t \in Nodes, Readiness(seen)[t] = "completed"
  PROVE  Finished(t)
  BY Values DEF WorkInv, GraphIsValid, SeenIsTrue, Looked

LEMMA NextValidStep ==
  ASSUME IInv, WorkInv, [Next]_vars PROVE NextIsValid'
<1>1. CASE pc' \notin {"prepare", "append"}
  BY <1>1 DEF NextIsValid
<1>2. CASE UNCHANGED <<graph, next>> /\ pc \in {"prepare", "append"}
  <2>1. \A t \in Task : Finished(t) => Finished(t)' BY FinishedStays DEF WorkInv
  <2>2. Nodes' = Nodes /\ Nodes \subseteq Task /\ Valid(next)' = Valid(next)
    BY <1>2 DEF Nodes, graph, Valid, Acyclic
  <2> QED BY <1>2, <2>1, <2>2 DEF WorkInv, NextIsValid, graph
<1>3. CASE Stop \/ Inspect \/ Tell \/ WriteGraph \/ RecoverAtOnce \/ Recover \/ AppendEvent
           \/ UNCHANGED vars
  BY <1>1, <1>2, <1>3 DEF Stop, Inspect, Tell, WriteGraph, RecoverAtOnce, Recover,
     AppendEvent, End, Begin, Goto, vars, call
<1>4. ASSUME NEW t \in Task, Look(t) PROVE NextIsValid'
  BY <1>1, <1>4 DEF Look
<1>5. ASSUME Repairing PROVE NextIsValid'
  BY <1>1, <1>2, <1>5 DEF Repairing, StagePrepared, StageRevised, FindTask, LoadTask,
     CreateTask, MakeTask, StageCompleted, Stage, End, Goto, Return
<1>6. CASE Children
  BY <1>1, <1>2, <1>6 DEF Children, StartTask, Advance, ArchiveTask, call
<1>7. ASSUME NEW g, Revise(g) PROVE NextIsValid'
  <2>1. next' = g /\ Nodes' = Nodes /\ version' = version /\ repair' = repair
    BY <1>7 DEF Revise, graph, Nodes
  <2>2. Valid(g) /\ \A t \in Task \ Nodes : g.since[t] \in {0, version + 1}
    BY <1>7 DEF Revise
  <2>3. Valid(next)' BY <2>1, <2>2 DEF Valid, Acyclic
  <2> QED BY <1>7, <2>1, <2>2, <2>3 DEF Revise, NextIsValid
<1>8. ASSUME NEW repairs \in SUBSET Task, NEW blockers \in SUBSET Task, NEW c \in Claims,
             Prepare(repairs, blockers, c)
      PROVE  NextIsValid'
  <2>1. /\ Looked /\ Pending(seen) = {} /\ next' = WithRepairs(repairs, blockers, c)
        /\ Valid(next') /\ UNCHANGED <<graph, tasks>>
    BY <1>8 DEF Prepare
  <2>2. \A t \in Nodes : Readiness(seen)[t] = "completed" BY <2>1 DEF Pending
  <2>3. \A t \in Nodes : Finished(t) BY <2>1, <2>2, LookedIsFinished
  <2>4. Nodes' = Nodes /\ \A t \in Nodes : Finished(t)'
    BY <2>1, <2>3 DEF graph, tasks, Nodes, Finished
  <2>5. Valid(next)' BY <2>1 DEF Valid, Acyclic
  <2>6. \A t \in Task \ Nodes : next'.since[t] \in {0, version + 1}
    BY <2>1 DEF WithRepairs, Nodes
  <2> QED BY <2>1, <2>4, <2>5, <2>6 DEF NextIsValid, graph
<1>9. Revising => NextIsValid' BY <1>7 DEF Revising
<1> QED
  BY <1>3, <1>4, <1>5, <1>6, <1>8, <1>9 DEF Next

LEMMA SeenStep ==
  ASSUME IInv, WorkInv, [Next]_vars PROVE SeenIsTrue'
<1>1. CASE pc' # "look" BY <1>1 DEF SeenIsTrue
<1>2. CASE Inspect
  BY <1>2 DEF Inspect, Begin, SeenIsTrue, Nodes
<1>3. ASSUME NEW t \in Task, Look(t) PROVE SeenIsTrue'
  <2>1. /\ pc = "look" /\ t \in Nodes /\ UNCHANGED <<graph, tasks>>
        /\ seen' = [seen EXCEPT ![t] = Own(IF Loads(child[t]) THEN child[t] ELSE stored[t])]
    BY <1>3 DEF Look
  <2>2. seen = [u \in Task |-> seen[u]]
        /\ \A u \in Nodes : seen[u] # None /\ seen[u] = "completed" => Finished(u)
    BY <2>1 DEF WorkInv, SeenIsTrue
  <2>3. Own(IF Loads(child[t]) THEN child[t] ELSE stored[t]) = "completed" => Finished(t)
    <3>1. CASE Loads(child[t])
      <4>1. child[t] \in Child /\ child[t].status # "archived"
        BY <3>1 DEF IInv, DirectoriesAreTasks, Loads, WorkInv, ActiveChildren
      <4>2. child[t].status \in {"triage", "working", "stuck", "completed"}
        BY <4>1 DEF Child, Status
      <4> QED BY <3>1, <4>2 DEF Own, Finished
    <3>2. CASE ~Loads(child[t]) BY <3>2 DEF Own, Finished, Loads
    <3> QED BY <3>1, <3>2
  <2>4. seen' = [u \in Task |-> seen'[u]] /\ Nodes' = Nodes /\ Nodes \subseteq Task
    BY <2>1, <2>2 DEF Nodes, graph
  <2>5. ASSUME NEW u \in Nodes, seen'[u] # None, seen'[u] = "completed" PROVE Finished(u)'
    <3>1. Finished(u) BY <2>1, <2>2, <2>3, <2>4, <2>5
    <3> QED BY <2>1, <3>1 DEF Finished, tasks
  <2> QED BY <2>4, <2>5 DEF SeenIsTrue
<1>4. CASE UNCHANGED <<graph, call>>
  BY <1>4, FinishedStays DEF WorkInv, SeenIsTrue, graph, call, Nodes
<1>5. CASE Stop \/ Tell \/ WriteGraph \/ RecoverAtOnce \/ Recover \/ AppendEvent
           \/ UNCHANGED vars
  BY <1>1, <1>4, <1>5 DEF Stop, Tell, WriteGraph, RecoverAtOnce, Recover,
     AppendEvent, End, Begin, Goto, vars
<1>6. ASSUME Repairing PROVE SeenIsTrue'
  BY <1>1, <1>6 DEF Repairing, StagePrepared, StageRevised, FindTask, LoadTask,
     CreateTask, MakeTask, StageCompleted, Stage, End, Goto, Return
<1>7. CASE Children
  BY <1>4, <1>7 DEF Children, StartTask, Advance, ArchiveTask
<1>8. CASE Revising
  BY <1>1, <1>8 DEF Revising, Revise, Begin, Goto
<1>9. ASSUME NEW repairs, NEW blockers, NEW c, Prepare(repairs, blockers, c)
      PROVE  SeenIsTrue'
  BY <1>1, <1>9 DEF Prepare, Goto
<1> QED BY <1>2, <1>3, <1>5, <1>6, <1>7, <1>8, <1>9 DEF Next

LEMMA IntegrationStep ==
  ASSUME IInv, WorkInv, [Next]_vars PROVE IntegrationFollowsWork'
<1>1. \A t \in Task : Finished(t) => Finished(t)' BY FinishedStays DEF WorkInv
<1>2. CASE GraphStays
  BY <1>1, <1>2 DEF GraphStays, graph, WorkInv, IntegrationFollowsWork, Nodes
<1>3. CASE AppendEvent
  <2>1. pc = "append" /\ since' = next.since /\ repair' = next.repair
    BY <1>3 DEF AppendEvent
  <2>2. NextKeepsNodes /\ NextIsValid /\ RepairsAreNodes /\ GraphIsTyped
    BY DEF IInv, WorkInv
  <2> SUFFICES ASSUME NEW t \in repair', NEW b \in Nodes', since'[b] < since'[t]
               PROVE  Finished(b)
    BY <1>1 DEF IntegrationFollowsWork, Nodes
  <2>3. b \in Task /\ t \in Task /\ since'[b] \in Nat \ {0} /\ since'[t] \in Nat
    BY <2>1, <2>2 DEF NextKeepsNodes, Nodes
  <2>4. since'[t] <= version + 1 /\ (t \in repair => since'[t] <= version)
    <3>1. CASE t \in repair
      BY <2>1, <2>2, <3>1 DEF NextKeepsNodes, RepairsAreNodes, WorkInv, GraphIsValid, GraphIsTyped, Nodes
    <3>2. CASE t \notin repair BY <2>1, <2>2, <3>2 DEF NextKeepsNodes, RepairsAreNodes
    <3> QED BY <2>2, <3>1, <3>2 DEF RepairsAreNodes
  <2>5. b \in Nodes /\ since'[b] = since[b]
    BY <2>1, <2>2, <2>3, <2>4 DEF NextKeepsNodes, NextIsValid, RepairsAreNodes
  <2>6. CASE t \in repair
    <3>1. since'[t] = since[t] BY <2>1, <2>2, <2>6 DEF NextKeepsNodes, RepairsAreNodes
    <3> QED BY <2>5, <2>6, <3>1 DEF WorkInv, IntegrationFollowsWork
  <2>7. CASE t \notin repair
    BY <2>1, <2>2, <2>5, <2>7 DEF NextIsValid
  <2> QED BY <2>6, <2>7
<1> QED BY <1>2, <1>3, GraphStep

LEMMA WorkStart ==
  ASSUME Init PROVE WorkInv
<1>1. Nodes = Planned BY GraphConstants DEF Init, Nodes
<1>2. GraphIsValid
  BY <1>1, GraphConstants DEF Init, GraphIsValid, EdgesJoinNodes
<1> QED
  BY <1>2 DEF Init, WorkInv, NextIsValid, SeenIsTrue, ActiveChildren, Loads,
     IntegrationFollowsWork

(* Graphs stay acyclic, what is seen of the children stays true, and Repair   *)
(* nodes stand on finished work.                                              *)
THEOREM GraphsStayValid == Spec => []WorkInv
<1>1. Init => WorkInv BY WorkStart
<1>2. IInv /\ WorkInv /\ [Next]_vars => WorkInv'
  BY ValidGraphStep, NextValidStep, SeenStep, IntegrationStep, FinishedStays DEF WorkInv
<1> QED BY <1>1, <1>2, Inductive, PTL DEF Spec

(* A Repair node comes in only over finished nodes, which stay finished, for  *)
(* any graph, any revisions and any commands on the children meanwhile        *)
(* (pendingInitiativeIntegrationTaskIds).                                     *)
THEOREM RepairsFollowWork == Spec => []IntegrationFollowsWork
<1>1. WorkInv => IntegrationFollowsWork BY DEF WorkInv
<1> QED BY <1>1, GraphsStayValid, PTL

(* The recursion finds exactly the nodes a block leads to, and exactly those  *)
(* that are ready with every predecessor completed, in every graph            *)
(* (deriveInitiativeReadiness).                                               *)
THEOREM FrontiersAreExact == Spec => []FrontierIsExact
<1>1. WorkInv => FrontierIsExact
  BY BlockedIsReached, FrontierOf DEF WorkInv, GraphIsValid, FrontierIsExact
<1> QED BY <1>1, GraphsStayValid, PTL

(* A node told as ready has no predecessor that is still at work, although    *)
(* the children were read one by one.                                         *)
THEOREM FrontiersDoNotWait == Spec => []NodesWaitForTheirBlockers
<1>1. ASSUME WorkInv, Looked, NEW t \in Frontier, NEW e \in Incoming(t)
      PROVE  e.type = "blocks" /\ Finished(e.from)
  <2>1. t \in Nodes /\ Readiness(seen)[t] = "ready" BY <1>1 DEF Frontier
  <2>2. e.type = "blocks" /\ Readiness(seen)[e.from] = "completed"
    BY <1>1, <2>1, Values DEF WorkInv, GraphIsValid
  <2>3. e.from \in Nodes BY <1>1 DEF WorkInv, GraphIsValid, EdgesJoinNodes, Incoming
  <2> QED BY <1>1, <2>2, <2>3, LookedIsFinished
<1>2. WorkInv => NodesWaitForTheirBlockers BY <1>1 DEF NodesWaitForTheirBlockers
<1> QED BY <1>2, GraphsStayValid, PTL

-------------------------------------------------------------------------------
(* The scheduler. Its queue, ...                                              *)
Job == [call : Call, does : {"check", "go", "decide"}]
Runs == Call \ Integrations

(* ... in which a call decides once, when it is its turn to, and what the     *)
(* variables are.                                                             *)
DecidesOnce(q, at) ==
  \A i \in 1 .. Len(q) : q[i].does = "decide" =>
    /\ at[q[i].call] = "decide"
    /\ \A j \in 1 .. Len(q) : q[j].does = "decide" /\ q[j].call = q[i].call => j = i
ScheduleIsTyped ==
  /\ jobs \in Seq(Job) /\ waiters \in Seq(Call)
  /\ place = [c \in Call |-> place[c]] /\ result = [c \in Call |-> result[c]]
  /\ turn \in [Call -> Nat] /\ \A c \in Call : turn[c] <= Len(Writers[c])
  /\ outcome \in [Node -> {Nothing, "succeeded", "failed", "cancelled"}]
  /\ persisted \in [Node -> {Nothing, "yes", "no"}]
  /\ \A c \in Integrations : place[c] # "storing"

(* What a call of run has done, wherever it is.                               *)
Fresh(n) == outcome[n] = Nothing /\ persisted[n] = Nothing
Done(n) == outcome[n] = "succeeded" /\ persisted[n] = "yes"
Ended(n) == outcome[n] # Nothing /\ persisted[n] # Nothing
Earlier(c) == Readers[c] \cup {Writers[c][i] : i \in 1 .. (turn[c] - 1)}
Later(c) == {Writers[c][i] : i \in (turn[c] + 1) .. Len(Writers[c])}
Wave(c) ==
  /\ place[c] \in {"new", "waitWave"} => \A n \in Readers[c] : Fresh(n)
  /\ place[c] = "reading" => \A n \in Readers[c] : persisted[n] = Nothing
  /\ place[c] = "waitPersist" => \A n \in Readers[c] : outcome[n] # Nothing /\ persisted[n] = Nothing
  /\ place[c] = "persisting" => \A n \in Readers[c] : outcome[n] # Nothing
  /\ place[c] = "decide" /\ turn[c] = 0 => \A n \in Readers[c] : Ended(n)
  /\ place[c] \in {"new", "waitWave", "reading", "waitPersist", "persisting"} => turn[c] = 0
Turn(c) ==
  /\ place[c] \in {"waitWriter", "writing", "storing"} => turn[c] # 0
  /\ place[c] \in {"waitWriter", "writing"} => Fresh(Mine(c))
  /\ place[c] = "storing" => outcome[Mine(c)] # Nothing /\ persisted[Mine(c)] = Nothing
  /\ place[c] = "decide" /\ turn[c] # 0 => Ended(Mine(c)) \/ (Fresh(Mine(c)) /\ c \in aborted)
True(c) ==
  /\ \A n \in Work(c) : outcome[n] # Nothing => persisted[n] # Nothing
  /\ result[c] = "completed" => \A n \in Work(c) : Done(n)
  /\ result[c] = "failed" => \E n \in Work(c) : outcome[n] = "failed" \/ persisted[n] = "no"
  /\ result[c] = "cancelled" => c \in aborted \/ \E n \in Work(c) : outcome[n] = "cancelled"
Progress(c) ==
  /\ Wave(c) /\ Turn(c)
  /\ \A n \in Later(c) : Fresh(n)
  /\ turn[c] # 0 => \A n \in Earlier(c) : Done(n)
  /\ place[c] = "done" => True(c)
SInv == ScheduleIsTyped /\ DecidesOnce(jobs, place) /\ \A c \in Runs : Progress(c)

(* The queue of jobs.                                                         *)
LEMMA QueueTail ==
  ASSUME NEW q \in Seq(Job), q # <<>>, NEW at, DecidesOnce(q, at)
  PROVE  /\ Tail(q) \in Seq(Job) /\ DecidesOnce(Tail(q), at)
         /\ Head(q) \in Job
         /\ Head(q).does = "decide" =>
              /\ at[Head(q).call] = "decide"
              /\ \A i \in 1 .. Len(Tail(q)) :
                   Tail(q)[i].does = "decide" => Tail(q)[i].call # Head(q).call
<1>1. /\ Tail(q) \in Seq(Job) /\ Len(Tail(q)) = Len(q) - 1 /\ Len(q) \in Nat \ {0}
      /\ \A i \in 1 .. Len(Tail(q)) : Tail(q)[i] = q[i + 1] /\ i + 1 \in 1 .. Len(q) /\ i + 1 # 1
      /\ Head(q) = q[1] /\ 1 \in 1 .. Len(q)
  OBVIOUS
<1>2. DecidesOnce(Tail(q), at)
  <2> SUFFICES ASSUME NEW i \in 1 .. Len(Tail(q)), Tail(q)[i].does = "decide"
               PROVE  /\ at[Tail(q)[i].call] = "decide"
                      /\ \A j \in 1 .. Len(Tail(q)) :
                           Tail(q)[j].does = "decide" /\ Tail(q)[j].call = Tail(q)[i].call => j = i
    BY DEF DecidesOnce
  <2>1. q[i + 1].does = "decide" BY <1>1
  <2>2. at[q[i + 1].call] = "decide" /\ \A j \in 1 .. Len(Tail(q)) :
          q[j + 1].does = "decide" /\ q[j + 1].call = q[i + 1].call => j + 1 = i + 1
    BY <1>1, <2>1 DEF DecidesOnce
  <2> QED BY <1>1, <2>2
<1>3. \A i \in 1 .. Len(Tail(q)) :
        q[1].does = "decide" /\ Tail(q)[i].does = "decide" => Tail(q)[i].call # q[1].call
  BY <1>1 DEF DecidesOnce
<1>4. Head(q) \in Job BY <1>1
<1> QED BY <1>1, <1>2, <1>3, <1>4 DEF DecidesOnce

LEMMA QueueAppend ==
  ASSUME NEW q \in Seq(Job), NEW w \in Seq(Job), NEW at, DecidesOnce(q, at),
         \A i \in 1 .. Len(w) : w[i].does # "decide"
  PROVE  q \o w \in Seq(Job) /\ DecidesOnce(q \o w, at)
         /\ \A i \in 1 .. Len(q \o w) : (q \o w)[i].does = "decide" =>
              \E j \in 1 .. Len(q) : q[j] = (q \o w)[i]
<1>1. /\ q \o w \in Seq(Job) /\ Len(q \o w) = Len(q) + Len(w)
      /\ \A i \in 1 .. Len(q \o w) :
           (q \o w)[i] = IF i <= Len(q) THEN q[i] ELSE w[i - Len(q)]
  OBVIOUS
<1>2. \A i \in 1 .. Len(q \o w) : (q \o w)[i].does = "decide" =>
        i \in 1 .. Len(q) /\ (q \o w)[i] = q[i]
  <2> TAKE i \in 1 .. Len(q \o w)
  <2>1. CASE i <= Len(q) BY <1>1, <2>1
  <2>2. CASE ~(i <= Len(q))
    <3>1. i - Len(q) \in 1 .. Len(w) BY <1>1, <2>2
    <3> QED BY <1>1, <2>2, <3>1
  <2> QED BY <2>1, <2>2
<1> QED BY <1>1, <1>2 DEF DecidesOnce

(* A call moves that nobody waits for to decide, ...                          *)
LEMMA QueueMove ==
  ASSUME NEW q \in Seq(Job), NEW c \in Call, NEW at, NEW to, DecidesOnce(q, at),
         at = [d \in Call |-> at[d]],
         \A i \in 1 .. Len(q) : q[i].does = "decide" => q[i].call # c
  PROVE  DecidesOnce(q, [at EXCEPT ![c] = to])
<1>1. \A i \in 1 .. Len(q) : q[i] \in Job BY ElementOfSeq
<1>2. \A i \in 1 .. Len(q) : q[i].does = "decide" =>
        [at EXCEPT ![c] = to][q[i].call] = at[q[i].call]
  BY <1>1 DEF Job
<1> QED BY <1>2 DEF DecidesOnce

(* ... and to where it decides.                                               *)
LEMMA QueueDecide ==
  ASSUME NEW q \in Seq(Job), NEW c \in Call, NEW at, DecidesOnce(q, at),
         at = [d \in Call |-> at[d]],
         \A i \in 1 .. Len(q) : q[i].does = "decide" => q[i].call # c
  PROVE  /\ q \o <<[call |-> c, does |-> "decide"]>> \in Seq(Job)
         /\ DecidesOnce(q \o <<[call |-> c, does |-> "decide"]>>, [at EXCEPT ![c] = "decide"])
<1> DEFINE x == [call |-> c, does |-> "decide"]
           p == [at EXCEPT ![c] = "decide"]
           r == q \o <<x>>
<1>0. x \in Job /\ x.does = "decide" /\ x.call = c BY DEF Job
<1>1. p[c] = "decide" /\ DecidesOnce(q, p) BY QueueMove
<1> HIDE DEF x, p
<1>2. /\ r \in Seq(Job) /\ Len(r) = Len(q) + 1
      /\ \A i \in 1 .. Len(r) : (i \in 1 .. Len(q) /\ r[i] = q[i]) \/ (i = Len(q) + 1 /\ r[i] = x)
  BY <1>0
<1> HIDE DEF r
<1>3. DecidesOnce(r, p)
  <2> SUFFICES ASSUME NEW i \in 1 .. Len(r), r[i].does = "decide"
               PROVE  /\ p[r[i].call] = "decide"
                      /\ \A j \in 1 .. Len(r) : r[j].does = "decide" /\ r[j].call = r[i].call => j = i
    BY DEF DecidesOnce
  <2>1. CASE i \in 1 .. Len(q) /\ r[i] = q[i]
    BY <1>0, <1>1, <1>2, <2>1 DEF DecidesOnce
  <2>2. CASE i = Len(q) + 1 /\ r[i] = x
    <3>1. \A j \in 1 .. Len(r) : r[j].does = "decide" /\ r[j].call = c => j = i
      BY <1>2, <2>2
    <3> QED BY <1>0, <1>1, <2>2, <3>1
  <2> QED BY <1>2, <2>1, <2>2
<1> QED BY <1>2, <1>3 DEF r, p, x

NoDecision(q, c) == \A i \in 1 .. Len(q) : q[i].does = "decide" => q[i].call # c
Orderly(q, at) == q \in Seq(Job) /\ DecidesOnce(q, at)

(* The executions of a call, by its turn.                                     *)
LEMMA WorkParts ==
  ASSUME ScheduleIsTyped, NEW c \in Call
  PROVE  /\ Readers[c] \subseteq Work(c) /\ Earlier(c) \subseteq Work(c)
         /\ Later(c) \subseteq Work(c) /\ Work(c) \subseteq Node
         /\ Readers[c] \cap Later(c) = {} /\ Readers[c] \subseteq Earlier(c)
         /\ turn[c] = 0 => Work(c) = Readers[c] \cup Later(c)
         /\ turn[c] # 0 => /\ Work(c) = Earlier(c) \cup {Mine(c)} \cup Later(c)
                           /\ Mine(c) \notin Earlier(c) \cup Later(c)
                           /\ Mine(c) \in Work(c)
<1>1. /\ turn[c] \in Nat /\ turn[c] <= Len(Writers[c])
      /\ Readers[c] \subseteq Node /\ Writers[c] \in Seq(Node)
  BY SchedulerConstants DEF ScheduleIsTyped
<1>2. /\ DOMAIN Writers[c] = 1 .. Len(Writers[c]) /\ Len(Writers[c]) \in Nat
      /\ \A i \in 1 .. Len(Writers[c]) : Writers[c][i] \in Node
  BY <1>1, ElementOfSeq, LenProperties
<1>3. \A i, j \in 1 .. Len(Writers[c]) :
        Writers[c][i] \notin Readers[c] /\ (Writers[c][i] = Writers[c][j] => i = j)
  BY SchedulerConstants, <1>1, <1>2 DEF Apart
<1>4. \A i \in 1 .. (turn[c] - 1) : i \in 1 .. Len(Writers[c]) /\ i # turn[c]
  BY <1>1, <1>2
<1>5. \A i \in (turn[c] + 1) .. Len(Writers[c]) :
        i \in 1 .. Len(Writers[c]) /\ i # turn[c] /\ i \notin 1 .. (turn[c] - 1)
  BY <1>1, <1>2
<1>6. turn[c] # 0 => turn[c] \in 1 .. Len(Writers[c]) BY <1>1, <1>2
<1>7. \A i \in 1 .. Len(Writers[c]) :
        \/ i \in 1 .. (turn[c] - 1) \/ i = turn[c] \/ i \in (turn[c] + 1) .. Len(Writers[c])
  BY <1>1, <1>2
<1>8. \A i \in 1 .. Len(Writers[c]) : turn[c] = 0 => i \in (turn[c] + 1) .. Len(Writers[c])
  BY <1>1, <1>2
<1>9. Work(c) = Readers[c] \cup {Writers[c][i] : i \in 1 .. Len(Writers[c])}
  BY <1>2 DEF Work
<1>10. Earlier(c) \subseteq Work(c) /\ Later(c) \subseteq Work(c)
  BY <1>4, <1>5, <1>9 DEF Earlier, Later
<1>11. Work(c) \subseteq Node /\ Readers[c] \subseteq Work(c) /\ Readers[c] \subseteq Earlier(c)
  BY <1>1, <1>2, <1>9 DEF Earlier
<1>12. Readers[c] \cap Later(c) = {} BY <1>3, <1>5 DEF Later
<1>13. turn[c] = 0 => Work(c) = Readers[c] \cup Later(c)
  BY <1>5, <1>8, <1>9 DEF Later
<1>14. ASSUME turn[c] # 0
       PROVE  /\ Work(c) = Earlier(c) \cup {Mine(c)} \cup Later(c)
              /\ Mine(c) \notin Earlier(c) \cup Later(c)
              /\ Mine(c) \in Work(c)
  <2>1. Mine(c) \in Work(c) BY <1>6, <1>9, <1>14 DEF Mine
  <2>2. Mine(c) \notin Earlier(c) BY <1>3, <1>4, <1>6, <1>14 DEF Mine, Earlier
  <2>3. Mine(c) \notin Later(c) BY <1>3, <1>5, <1>6, <1>14 DEF Mine, Later
  <2>4. Work(c) \subseteq Earlier(c) \cup {Mine(c)} \cup Later(c)
    BY <1>7, <1>9 DEF Mine, Earlier, Later
  <2> QED BY <1>10, <2>1, <2>2, <2>3, <2>4
<1> QED BY <1>10, <1>11, <1>12, <1>13, <1>14

(* A call that does not move, and whose executions stay as they are.          *)
LEMMA ProgressStays ==
  ASSUME ScheduleIsTyped, NEW d \in Call, Progress(d),
         place'[d] = place[d], turn'[d] = turn[d], result'[d] = result[d],
         \A n \in Work(d) : outcome'[n] = outcome[n] /\ persisted'[n] = persisted[n],
         aborted \subseteq aborted'
  PROVE  Progress(d)'
<1>1. /\ Readers[d] \subseteq Work(d) /\ Earlier(d) \subseteq Work(d)
      /\ Later(d) \subseteq Work(d) /\ (turn[d] # 0 => Mine(d) \in Work(d))
  BY WorkParts
<1>2. Mine(d)' = Mine(d) /\ Earlier(d)' = Earlier(d) /\ Later(d)' = Later(d) /\ Work(d)' = Work(d)
  BY DEF Mine, Earlier, Later, Work
<1>3. Wave(d)' BY <1>1, <1>2 DEF Progress, Wave, Fresh, Ended
<1>4. Turn(d)' BY <1>1, <1>2 DEF Progress, Turn, Fresh, Ended
<1>5. \A n \in Later(d)' : Fresh(n)' BY <1>1, <1>2 DEF Progress, Fresh
<1>6. turn'[d] # 0 => \A n \in Earlier(d)' : Done(n)' BY <1>1, <1>2 DEF Progress, Done
<1>7. place'[d] = "done" => True(d)' BY <1>2 DEF Progress, True, Done
<1> QED BY <1>3, <1>4, <1>5, <1>6, <1>7 DEF Progress

(* The other calls while one of them steps.                                   *)
LEMMA OthersProgress ==
  ASSUME SInv, NEW c \in Call,
         \A d \in Call \ {c} : place'[d] = place[d] /\ turn'[d] = turn[d] /\ result'[d] = result[d],
         \A n \in Node : outcome'[n] # outcome[n] \/ persisted'[n] # persisted[n] =>
                           c \in Runs /\ n \in Work(c),
         aborted \subseteq aborted'
  PROVE  \A d \in Runs \ {c} : Progress(d)'
<1> TAKE d \in Runs \ {c}
<1>1. d \in Call /\ Progress(d) /\ ScheduleIsTyped /\ Work(d) \subseteq Node
  BY WorkParts DEF SInv, Runs
<1>2. c \in Runs => Work(c) \cap Work(d) = {}
  BY SchedulerConstants, <1>1 DEF ScheduleIsTyped, Apart, Runs
<1>3. \A n \in Work(d) : outcome'[n] = outcome[n] /\ persisted'[n] = persisted[n]
  BY <1>1, <1>2
<1> QED BY <1>1, <1>3, ProgressStays

LEMMA NotDeciding ==
  ASSUME SInv, NEW c \in Call, place[c] # "decide"
  PROVE  /\ Orderly(jobs, place) /\ NoDecision(jobs, c)
         /\ jobs # <<>> => Orderly(Tail(jobs), place) /\ NoDecision(Tail(jobs), c)
<1>1. jobs \in Seq(Job) /\ DecidesOnce(jobs, place) BY DEF SInv, ScheduleIsTyped
<1>2. jobs # <<>> => Tail(jobs) \in Seq(Job) /\ DecidesOnce(Tail(jobs), place)
  BY <1>1, QueueTail
<1> QED BY <1>1, <1>2 DEF Orderly, NoDecision, DecidesOnce

(* The jobs of the calls that are woken: one for each waiter, in their order.  *)
LEMMA JobsOfWaiters ==
  ASSUME waiters \in Seq(Call)
  PROVE  /\ Woken \in Seq(Job) /\ Len(Woken) = Len(waiters)
         /\ \A i \in 1 .. Len(Woken) : Woken[i].call = waiters[i] /\ Woken[i].does = "check"
<1>1. DOMAIN waiters = 1 .. Len(waiters) /\ Len(waiters) \in Nat
      /\ \A i \in 1 .. Len(waiters) : waiters[i] \in Call
  BY ElementOfSeq
<1> DEFINE w == Woken
<1>2. \A i \in 1 .. Len(waiters) : [call |-> waiters[i], does |-> "check"] \in Job
  BY <1>1 DEF Job
<1>3. w = [i \in 1 .. Len(waiters) |-> [call |-> waiters[i], does |-> "check"]]
  BY <1>1 DEF Woken
<1>4. w \in [1 .. Len(waiters) -> Job] BY <1>2, <1>3
<1>5. w \in Seq(Job) /\ Len(w) = Len(waiters) BY <1>1, <1>4, SeqDef, LenProperties
<1> QED BY <1>3, <1>5

(* Those who are woken, and the queue behind them.                            *)
LEMMA WokenJobs ==
  ASSUME SInv, NEW c \in Call, NEW rest, Orderly(rest, place), NoDecision(rest, c)
  PROVE  Orderly(rest \o Woken, place) /\ NoDecision(rest \o Woken, c)
<1>1. Woken \in Seq(Job) /\ \A i \in 1 .. Len(Woken) : Woken[i].does # "decide"
  BY JobsOfWaiters DEF SInv, ScheduleIsTyped
<1> QED BY <1>1, QueueAppend DEF Orderly, NoDecision

LEMMA Released ==
  ASSUME SInv, NEW c \in Call, NEW rest, Orderly(rest, place), NoDecision(rest, c),
         Release(c, rest)
  PROVE  Orderly(jobs', place') /\ waiters' \in Seq(Call) /\ place' = [place EXCEPT ![c] = "decide"]
<1> DEFINE q == rest \o Woken
<1>1. q \in Seq(Job) /\ DecidesOnce(q, place)
      /\ \A i \in 1 .. Len(q) : q[i].does = "decide" => q[i].call # c
  BY WokenJobs DEF Orderly, NoDecision
<1>2. jobs' = q \o <<[call |-> c, does |-> "decide"]>>
      /\ place' = [place EXCEPT ![c] = "decide"] /\ waiters' = <<>>
  BY DEF Release, Queue
<1>3. place = [d \in Call |-> place[d]] BY DEF SInv, ScheduleIsTyped
<1> HIDE DEF q
<1>4. jobs' \in Seq(Job) /\ DecidesOnce(jobs', [place EXCEPT ![c] = "decide"])
  BY <1>1, <1>2, <1>3, QueueDecide
<1>5. waiters' \in Seq(Call) BY <1>2
<1> QED BY <1>2, <1>4, <1>5 DEF Orderly

LEMMA Waited ==
  ASSUME SInv, NEW c \in Call, NEW rest, Orderly(rest, place), NoDecision(rest, c), NEW to,
         place' = [place EXCEPT ![c] = to], NEW w \in Seq(Call), WaitFrom(c, rest, w)
  PROVE  Orderly(jobs', place') /\ waiters' \in Seq(Call)
<1>1. place = [d \in Call |-> place[d]] BY DEF SInv, ScheduleIsTyped
<1>2. rest \in Seq(Job) /\ DecidesOnce(rest, place') BY <1>1, QueueMove DEF Orderly, NoDecision
<1> DEFINE g == Queue(c, "go")
<1>3. g \in Seq(Job) /\ \A i \in 1 .. Len(g) : g[i].does # "decide"
  <2>1. [call |-> c, does |-> "go"] \in Job BY DEF Job
  <2> QED BY <2>1 DEF Queue
<1> HIDE DEF g
<1>4. rest \o g \in Seq(Job) /\ DecidesOnce(rest \o g, place') BY <1>2, <1>3, QueueAppend
<1>5. \/ jobs' = rest \o g /\ waiters' = w
      \/ jobs' = rest /\ waiters' = Append(w, c)
  BY DEF WaitFrom, g
<1>6. Append(w, c) \in Seq(Call) OBVIOUS
<1>7. CASE jobs' = rest \o g /\ waiters' = w BY <1>4, <1>7 DEF Orderly
<1>8. CASE jobs' = rest /\ waiters' = Append(w, c) BY <1>2, <1>6, <1>8 DEF Orderly
<1> QED BY <1>5, <1>7, <1>8

(* A step of one call.                                                        *)
LEMMA StepSound ==
  ASSUME SInv, NEW c \in Call, ScheduleIsTyped', Orderly(jobs', place'),
         \A d \in Call \ {c} : place'[d] = place[d] /\ turn'[d] = turn[d] /\ result'[d] = result[d],
         \A n \in Node : outcome'[n] # outcome[n] \/ persisted'[n] # persisted[n] =>
                           c \in Runs /\ n \in Work(c),
         aborted \subseteq aborted',
         c \in Runs => Progress(c)'
  PROVE  SInv'
<1>1. \A d \in Runs \ {c} : Progress(d)' BY OthersProgress
<1> QED BY <1>1 DEF SInv, Orderly

LEMMA Returned ==
  ASSUME SInv, NEW c \in Call, NEW rest, Orderly(rest, place), NoDecision(rest, c),
         NEW status, Settle(c, rest, status), UNCHANGED <<effects, aborted>>,
         c \in Runs =>
           /\ \A n \in Work(c) : outcome[n] # Nothing => persisted[n] # Nothing
           /\ status = "completed" => \A n \in Work(c) : Done(n)
           /\ status = "failed" => \E n \in Work(c) : outcome[n] = "failed" \/ persisted[n] = "no"
           /\ status = "cancelled" => c \in aborted \/ \E n \in Work(c) : outcome[n] = "cancelled"
  PROVE  SInv'
<1>1. /\ place' = [place EXCEPT ![c] = "done"] /\ jobs' = rest
      /\ result' = [result EXCEPT ![c] = status]
      /\ UNCHANGED <<waiters, turn, outcome, persisted, aborted>>
  BY DEF Settle, barrier, effects
<1>2. /\ Orderly(jobs', place')
  BY <1>1, QueueMove DEF Orderly, NoDecision, SInv, ScheduleIsTyped
<1>3. /\ place'[c] = "done" /\ result'[c] = status
      /\ \A d \in Call \ {c} : place'[d] = place[d] /\ turn'[d] = turn[d] /\ result'[d] = result[d]
  BY <1>1 DEF SInv, ScheduleIsTyped
<1>4. ScheduleIsTyped'
  BY SchedulerConstants, <1>1, <1>2, <1>3 DEF SInv, ScheduleIsTyped, Orderly
<1>5. ASSUME c \in Runs PROVE Progress(c)'
  <2>1. Progress(c) BY <1>5 DEF SInv
  <2>2. Earlier(c)' = Earlier(c) /\ Later(c)' = Later(c) /\ Work(c)' = Work(c)
    BY <1>1 DEF Earlier, Later, Work
  <2>3. True(c)' BY <1>1, <1>3, <1>5, <2>2 DEF True, Done
  <2>4. Wave(c)' /\ Turn(c)' BY <1>3 DEF Wave, Turn
  <2> QED BY <1>1, <2>1, <2>2, <2>3, <2>4 DEF Progress, Fresh, Done
<1> QED BY <1>1, <1>2, <1>3, <1>4, <1>5, StepSound

(* On to the next Writer, or to the end.                                      *)
LEMMA NextWriterSound ==
  ASSUME SInv, NEW c \in Call, NEW rest, Orderly(rest, place), NoDecision(rest, c),
         NextWriter(c, rest), UNCHANGED <<effects, aborted>>,
         c \in Runs => IF turn[c] = 0 THEN \A n \in Readers[c] : Done(n) ELSE Done(Mine(c))
  PROVE  SInv'
<1>0. turn[c] \in Nat /\ turn[c] <= Len(Writers[c]) /\ Len(Writers[c]) \in Nat
      /\ ScheduleIsTyped /\ (c \in Runs => Progress(c))
  BY SchedulerConstants, LenProperties DEF SInv, ScheduleIsTyped
<1>1. CASE turn[c] < Len(Writers[c])
  <2>1. /\ StartWriter(c, rest) /\ result' = result /\ place' = [place EXCEPT ![c] = "waitWriter"]
        /\ turn' = [turn EXCEPT ![c] = @ + 1] /\ WaitFrom(c, rest, waiters)
        /\ UNCHANGED <<outcome, persisted, aborted>>
    BY <1>1 DEF NextWriter, StartWriter, effects
  <2>2. Orderly(jobs', place') /\ waiters' \in Seq(Call)
    BY <2>1, Waited DEF SInv, ScheduleIsTyped
  <2>3. /\ place'[c] = "waitWriter" /\ turn'[c] = turn[c] + 1
        /\ \A d \in Call \ {c} : place'[d] = place[d] /\ turn'[d] = turn[d] /\ result'[d] = result[d]
    BY <2>1 DEF SInv, ScheduleIsTyped
  <2>4. ScheduleIsTyped'
    <3>1. turn' \in [Call -> Nat] /\ \A d \in Call : turn'[d] <= Len(Writers[d])
      BY <1>0, <1>1, <2>1, <2>3 DEF ScheduleIsTyped
    <3>2. place' = [d \in Call |-> place'[d]] /\ \A d \in Integrations : place'[d] # "storing"
      BY SchedulerConstants, <1>0, <2>1, <2>3 DEF ScheduleIsTyped
    <3> QED BY SchedulerConstants, <1>0, <2>1, <2>2, <3>1, <3>2 DEF ScheduleIsTyped, Orderly
  <2>5. ASSUME c \in Runs PROVE Progress(c)'
    <3>1. Mine(c)' = Writers[c][turn[c] + 1] BY <2>3 DEF Mine
    <3>2. Mine(c)' \in Later(c)
      <4>1. turn[c] + 1 \in (turn[c] + 1) .. Len(Writers[c]) BY <1>0, <1>1
      <4> QED BY <3>1, <4>1 DEF Later
    <3>3. Later(c)' \subseteq Later(c)
      <4>1. \A i \in (turn'[c] + 1) .. Len(Writers[c]) : i \in (turn[c] + 1) .. Len(Writers[c])
        BY <1>0, <2>3
      <4> QED BY <4>1 DEF Later
    <3>4. ASSUME NEW n \in Earlier(c)' PROVE Done(n)
      <4>1. CASE turn[c] = 0
        <5>1. \A i \in 1 .. (turn'[c] - 1) : FALSE BY <2>3, <4>1
        <5>2. n \in Readers[c] BY <5>1 DEF Earlier
        <5> QED BY <2>5, <4>1, <5>2
      <4>2. CASE turn[c] # 0
        <5>1. \A i \in 1 .. (turn'[c] - 1) : i \in 1 .. (turn[c] - 1) \/ i = turn[c]
          BY <1>0, <2>3
        <5>2. n \in Earlier(c) \/ n = Mine(c) BY <5>1 DEF Earlier, Mine
        <5> QED BY <1>0, <2>5, <4>2, <5>2 DEF Progress
      <4> QED BY <4>1, <4>2
    <3>5. \A n \in Later(c) : Fresh(n) BY <1>0, <2>5 DEF Progress
    <3>6. turn'[c] # 0 BY <1>0, <2>3
    <3>7. Turn(c)' BY <2>1, <2>3, <3>2, <3>5, <3>6 DEF Turn, Fresh
    <3>8. Wave(c)' BY <2>3 DEF Wave
    <3>9. \A n \in Later(c)' : Fresh(n)' BY <2>1, <3>3, <3>5 DEF Fresh
    <3>10. \A n \in Earlier(c)' : Done(n)' BY <2>1, <3>4 DEF Done
    <3> QED BY <2>3, <3>7, <3>8, <3>9, <3>10 DEF Progress
  <2> QED BY <2>1, <2>2, <2>3, <2>4, <2>5, StepSound
<1>2. CASE ~(turn[c] < Len(Writers[c]))
  <2>1. Settle(c, rest, "completed") BY <1>2 DEF NextWriter
  <2>2. ASSUME c \in Runs PROVE \A n \in Work(c) : Done(n)
    <3>1. \A i \in (turn[c] + 1) .. Len(Writers[c]) : FALSE BY <1>0, <1>2
    <3>2. Later(c) = {} BY <3>1 DEF Later
    <3> QED BY <1>0, <2>2, <3>2, WorkParts DEF Progress
  <2>3. ASSUME c \in Runs, NEW n \in Work(c), Done(n) PROVE persisted[n] # Nothing
    BY SchedulerConstants, <1>0, <2>3 DEF Done
  <2> QED BY <2>1, <2>2, <2>3, Returned
<1> QED BY <1>1, <1>2

LEMMA StartSound == ASSUME SInv, NEW c \in Call, Start(c) PROVE SInv'
<1>1. /\ place[c] = "new" /\ UNCHANGED <<effects, aborted>> /\ Orderly(jobs, place) /\ NoDecision(jobs, c)
      /\ ScheduleIsTyped
  BY NotDeciding DEF Start, SInv, ScheduleIsTyped
<1>2. ASSUME c \in Runs
      PROVE  turn[c] = 0 /\ Progress(c) /\ \A n \in Work(c) : Fresh(n)
  <2>1. Progress(c) BY <1>2 DEF SInv
  <2>2. turn[c] = 0 /\ \A n \in Readers[c] : Fresh(n) BY <1>1, <2>1 DEF Progress, Wave
  <2> QED BY <1>1, <2>1, <2>2, WorkParts DEF Progress
<1>3. CASE c \in aborted
  <2>1. Settle(c, jobs, "cancelled") BY <1>3 DEF Start
  <2> QED BY <1>1, <1>2, <1>3, <2>1, Returned DEF Fresh
<1>4. CASE c \notin aborted /\ Readers[c] # {}
  <2>1. /\ place' = [place EXCEPT ![c] = "waitWave"] /\ WaitFrom(c, jobs, waiters)
        /\ UNCHANGED <<turn, outcome, persisted, aborted, result>>
    BY <1>1, <1>4 DEF Start, StartWave, effects
  <2>2. Orderly(jobs', place') /\ waiters' \in Seq(Call)
    BY <1>1, <2>1, Waited DEF ScheduleIsTyped
  <2>3. place'[c] = "waitWave" /\ \A d \in Call \ {c} : place'[d] = place[d]
    BY <1>1, <2>1 DEF ScheduleIsTyped
  <2>4. place' = [d \in Call |-> place'[d]] /\ \A d \in Integrations : place'[d] # "storing"
    BY SchedulerConstants, <1>1, <2>1, <2>3 DEF ScheduleIsTyped
  <2>5. ScheduleIsTyped' BY SchedulerConstants, <1>1, <2>1, <2>2, <2>4 DEF ScheduleIsTyped, Orderly
  <2>6. ASSUME c \in Runs PROVE Progress(c)'
    <3>1. turn[c] = 0 /\ Progress(c) BY <1>2, <2>6
    <3>2. \A n \in Readers[c] : Fresh(n) BY <1>1, <3>1 DEF Progress, Wave
    <3>3. Wave(c)' BY <2>1, <2>3, <3>1, <3>2 DEF Wave, Fresh
    <3>4. Turn(c)' BY <2>3 DEF Turn
    <3>5. Later(c)' = Later(c) /\ turn'[c] = 0 BY <2>1, <3>1 DEF Later
    <3>6. \A n \in Later(c)' : Fresh(n)' BY <2>1, <3>1, <3>5 DEF Progress, Fresh
    <3> QED BY <2>3, <3>3, <3>4, <3>5, <3>6 DEF Progress
  <2> QED BY <2>1, <2>2, <2>3, <2>5, <2>6, StepSound
<1>5. CASE c \notin aborted /\ Readers[c] = {}
  <2>1. NextWriter(c, jobs) BY <1>5 DEF Start
  <2> QED BY <1>1, <1>2, <1>5, <2>1, NextWriterSound
<1> QED BY <1>3, <1>4, <1>5

LEMMA DecideSound == ASSUME SInv, NEW c \in Call, Decide(c) PROVE SInv'
<1>1. /\ jobs # <<>> /\ Head(jobs) = [call |-> c, does |-> "decide"]
      /\ UNCHANGED <<effects, aborted>>
      /\ ScheduleIsTyped /\ jobs \in Seq(Job) /\ DecidesOnce(jobs, place)
  BY DEF Decide, SInv, ScheduleIsTyped
<1>2. place[c] = "decide" /\ Orderly(Tail(jobs), place) /\ NoDecision(Tail(jobs), c)
  BY <1>1, QueueTail DEF Orderly, NoDecision
<1>3. CASE c \in Integrations
  <2>1. c \notin Runs /\ \E st : Settle(c, Tail(jobs), st) BY <1>3 DEF Decide, Runs
  <2> QED BY <1>1, <1>2, <2>1, Returned
<1>4. CASE c \in Runs
  <2>0. c \notin Integrations /\ Progress(c) BY <1>4 DEF Runs, SInv
  <2>1. /\ Past(c) \subseteq Work(c)
        /\ \A n \in Past(c) : Ended(n) \/ (Fresh(n) /\ c \in aborted)
        /\ turn[c] = 0 => \A n \in Past(c) : Ended(n)
    <3>1. CASE turn[c] = 0
      BY <1>1, <1>2, <2>0, <3>1, WorkParts DEF Past, Progress, Wave
    <3>2. CASE turn[c] # 0
      BY <1>1, <1>2, <2>0, <3>2, WorkParts DEF Past, Progress, Turn
    <3> QED BY <3>1, <3>2
  <2>2. ASSUME NEW n \in Work(c) PROVE outcome[n] # Nothing => persisted[n] # Nothing
    <3>1. n \in Past(c) \/ n \in Later(c) \/ (turn[c] # 0 /\ n \in Earlier(c))
      BY <1>1, WorkParts DEF Past
    <3>2. n \in Past(c) => (outcome[n] # Nothing => persisted[n] # Nothing)
      BY <2>1 DEF Ended, Fresh
    <3>3. n \in Later(c) => outcome[n] = Nothing BY <2>0 DEF Progress, Fresh
    <3>4. turn[c] # 0 /\ n \in Earlier(c) => persisted[n] = "yes" BY <2>0 DEF Progress, Done
    <3> QED BY SchedulerConstants, <1>1, <3>1, <3>2, <3>3, <3>4
  <2>3. CASE \E n \in Past(c) : persisted[n] = "no"
    <3>1. Settle(c, Tail(jobs), "failed") BY <2>0, <2>3 DEF Decide
    <3> QED BY <1>1, <1>2, <2>1, <2>2, <2>3, <3>1, Returned
  <2>4. CASE /\ ~\E n \in Past(c) : persisted[n] = "no"
             /\ \E n \in Past(c) : outcome[n] \in {Nothing, "cancelled"}
    <3>1. Settle(c, Tail(jobs), "cancelled") BY <2>0, <2>4 DEF Decide
    <3>2. c \in aborted \/ \E n \in Work(c) : outcome[n] = "cancelled"
      BY <2>1, <2>4 DEF Ended
    <3> QED BY <1>1, <1>2, <2>2, <3>1, <3>2, Returned
  <2>5. CASE /\ ~\E n \in Past(c) : persisted[n] = "no"
             /\ ~\E n \in Past(c) : outcome[n] \in {Nothing, "cancelled"}
             /\ turn[c] = 0 /\ c \in aborted
    <3>1. Settle(c, Tail(jobs), "cancelled") BY <2>0, <2>5 DEF Decide
    <3> QED BY <1>1, <1>2, <2>2, <2>5, <3>1, Returned
  <2>6. CASE /\ ~\E n \in Past(c) : persisted[n] = "no"
             /\ ~\E n \in Past(c) : outcome[n] \in {Nothing, "cancelled"}
             /\ ~(turn[c] = 0 /\ c \in aborted) /\ \E n \in Past(c) : outcome[n] = "failed"
    <3>1. Settle(c, Tail(jobs), "failed") BY <2>0, <2>6 DEF Decide
    <3> QED BY <1>1, <1>2, <2>1, <2>2, <2>6, <3>1, Returned
  <2>7. CASE /\ ~\E n \in Past(c) : persisted[n] = "no"
             /\ ~\E n \in Past(c) : outcome[n] \in {Nothing, "cancelled"}
             /\ ~(turn[c] = 0 /\ c \in aborted) /\ ~\E n \in Past(c) : outcome[n] = "failed"
    <3>1. NextWriter(c, Tail(jobs)) BY <2>0, <2>7 DEF Decide
    <3>2. ASSUME NEW n \in Past(c) PROVE Done(n)
      <4>1. outcome[n] # Nothing /\ outcome[n] # "cancelled" /\ outcome[n] # "failed"
            /\ persisted[n] # "no" /\ persisted[n] # Nothing
        BY <2>1, <2>7 DEF Ended, Fresh
      <4>2. n \in Node BY <1>1, <2>1, WorkParts
      <4> QED BY <1>1, <4>1, <4>2 DEF ScheduleIsTyped, Done
    <3>3. IF turn[c] = 0 THEN \A n \in Readers[c] : Done(n) ELSE Done(Mine(c))
      BY <3>2 DEF Past
    <3> QED BY <1>1, <1>2, <3>1, <3>3, NextWriterSound
  <2> QED BY <2>3, <2>4, <2>5, <2>6, <2>7
<1> QED BY <1>3, <1>4 DEF Runs

(* A step that no call takes: of the queue, or of a signal.                   *)
LEMMA QueueStep ==
  ASSUME SInv, Orderly(jobs', place), waiters' \in Seq(Call), aborted \subseteq aborted',
         UNCHANGED <<place, turn, outcome, persisted, result>>
  PROVE  SInv'
<1>1. ScheduleIsTyped' BY DEF SInv, ScheduleIsTyped, Orderly
<1>2. \A d \in Runs : Progress(d)' BY ProgressStays DEF SInv, Runs
<1> QED BY <1>1, <1>2 DEF SInv, Orderly

(* A step of one call that stays at its turn.                                 *)
LEMMA MoveSound ==
  ASSUME SInv, NEW c \in Call, NEW to, to # "done", to = "storing" => c \notin Integrations,
         place' = [place EXCEPT ![c] = to], turn' = turn, aborted' = aborted,
         NEW status, result' = [result EXCEPT ![c] = status], c \in Runs => status = result[c],
         Orderly(jobs', place'), waiters' \in Seq(Call),
         outcome' \in [Node -> {Nothing, "succeeded", "failed", "cancelled"}],
         persisted' \in [Node -> {Nothing, "yes", "no"}],
         \A n \in Node : outcome'[n] # outcome[n] \/ persisted'[n] # persisted[n] =>
           /\ c \in Runs /\ n \in Work(c) /\ n \notin Later(c)
           /\ turn[c] # 0 => n \notin Earlier(c),
         c \in Runs => Wave(c)' /\ Turn(c)'
  PROVE  SInv'
<1>1. /\ place'[c] = to /\ (c \in Runs => result'[c] = result[c])
      /\ \A d \in Call \ {c} : place'[d] = place[d] /\ turn'[d] = turn[d] /\ result'[d] = result[d]
  BY DEF SInv, ScheduleIsTyped
<1>2. ScheduleIsTyped'
  <2>1. place' = [d \in Call |-> place'[d]] /\ result' = [d \in Call |-> result'[d]]
    BY DEF SInv, ScheduleIsTyped
  <2>2. \A d \in Integrations : place'[d] # "storing"
    BY <1>1, SchedulerConstants DEF SInv, ScheduleIsTyped
  <2> QED BY <2>1, <2>2 DEF SInv, ScheduleIsTyped, Orderly
<1>3. ASSUME c \in Runs PROVE Progress(c)'
  <2>1. Progress(c) /\ ScheduleIsTyped BY <1>3 DEF SInv
  <2>2. Later(c)' = Later(c) /\ Earlier(c)' = Earlier(c) BY DEF Later, Earlier
  <2>3. Later(c) \subseteq Node /\ Earlier(c) \subseteq Node BY <2>1, WorkParts
  <2>4. \A n \in Later(c)' : Fresh(n)' BY <2>1, <2>2, <2>3 DEF Progress, Fresh
  <2>5. turn'[c] # 0 => \A n \in Earlier(c)' : Done(n)'
    BY <2>1, <2>2, <2>3 DEF Progress, Done
  <2> QED BY <1>1, <1>3, <2>4, <2>5 DEF Progress
<1> QED BY <1>1, <1>2, <1>3, StepSound

LEMMA CheckSound == ASSUME SInv, Check PROVE SInv'
<1>1. /\ jobs # <<>> /\ jobs \in Seq(Job) /\ DecidesOnce(jobs, place) /\ waiters \in Seq(Call)
      /\ UNCHANGED <<place, turn, outcome, persisted, result, aborted>>
  BY DEF Check, SInv, ScheduleIsTyped, effects
<1> DEFINE d == Head(jobs).call
<1>2. Orderly(Tail(jobs), place) /\ d \in Call BY <1>1, QueueTail DEF Orderly, Job
<1>3. \/ jobs' = Tail(jobs) \o Queue(d, "go") /\ waiters' = waiters
      \/ jobs' = Tail(jobs) /\ waiters' = Append(waiters, d)
  BY DEF Check
<1> HIDE DEF d
<1>4. Orderly(Tail(jobs) \o Queue(d, "go"), place)
  <2>1. [call |-> d, does |-> "go"] \in Job BY <1>2 DEF Job
  <2>2. Queue(d, "go") \in Seq(Job) /\ \A i \in 1 .. Len(Queue(d, "go")) :
          Queue(d, "go")[i].does # "decide"
    BY <2>1 DEF Queue
  <2> QED BY <1>2, <2>2, QueueAppend DEF Orderly
<1>5. Append(waiters, d) \in Seq(Call) BY <1>1, <1>2
<1>6. Orderly(jobs', place) /\ waiters' \in Seq(Call) BY <1>1, <1>2, <1>3, <1>4, <1>5
<1> QED BY <1>1, <1>6, QueueStep

(* Calls that go on.                                                          *)
LEMMA Gone ==
  ASSUME SInv, NEW c \in Call, NEW at, Goes(c, at), at # "decide"
  PROVE  /\ place[c] = at /\ Orderly(Tail(jobs), place) /\ NoDecision(Tail(jobs), c)
         /\ \A to : Orderly(Tail(jobs), [place EXCEPT ![c] = to])
<1>1. place[c] = at /\ Orderly(Tail(jobs), place) /\ NoDecision(Tail(jobs), c)
  BY NotDeciding DEF Goes
<1> QED BY <1>1, QueueMove DEF Orderly, NoDecision, SInv, ScheduleIsTyped

LEMMA EnterWaveSound == ASSUME SInv, NEW c \in Call, EnterWave(c) PROVE SInv'
<1>1. /\ place[c] = "waitWave" /\ place' = [place EXCEPT ![c] = "reading"] /\ jobs' = Tail(jobs)
      /\ Orderly(jobs', place') /\ ScheduleIsTyped
      /\ UNCHANGED <<waiters, turn, persisted, aborted, result>>
      /\ outcome' = [n \in Node |-> IF n \in Readers[c] /\ c \in aborted THEN "cancelled"
                                    ELSE outcome[n]]
  BY Gone DEF EnterWave, SInv
<1>2. result' = [result EXCEPT ![c] = result[c]] /\ place'[c] = "reading"
  BY <1>1 DEF ScheduleIsTyped
<1>3. waiters' \in Seq(Call) /\ persisted' \in [Node -> {Nothing, "yes", "no"}]
      /\ outcome' \in [Node -> {Nothing, "succeeded", "failed", "cancelled"}]
  BY <1>1 DEF ScheduleIsTyped
<1>4. ASSUME c \in Runs
      PROVE  Wave(c)' /\ Turn(c)' /\ turn[c] = 0
  <2>1. turn[c] = 0 /\ \A n \in Readers[c] : Fresh(n)
    BY <1>1, <1>4 DEF SInv, Progress, Wave
  <2>2. Wave(c)' BY <1>1, <1>2, <2>1 DEF Wave, Fresh
  <2>3. Turn(c)' BY <1>2 DEF Turn
  <2> QED BY <2>1, <2>2, <2>3
<1>5. ASSUME NEW n \in Node, outcome'[n] # outcome[n] \/ persisted'[n] # persisted[n]
      PROVE  /\ c \in Runs /\ n \in Work(c) /\ n \notin Later(c)
             /\ turn[c] # 0 => n \notin Earlier(c)
  <2>1. n \in Readers[c] BY <1>1, <1>5
  <2>2. c \in Runs BY <2>1, SchedulerConstants DEF Runs
  <2> QED BY <1>1, <1>4, <2>1, <2>2, WorkParts
<1> QED BY <1>1, <1>2, <1>3, <1>4, <1>5, MoveSound

LEMMA ReadSound ==
  ASSUME SInv, NEW c \in Call, NEW n \in Node, NEW o \in Outcomes, Read(c, n, o) PROVE SInv'
<1>1. /\ place[c] = "reading" /\ n \in Readers[c] /\ outcome[n] = Nothing
      /\ outcome' = [outcome EXCEPT ![n] = o] /\ ScheduleIsTyped
      /\ UNCHANGED <<waiters, jobs, place, turn, persisted, aborted, result>>
  BY DEF Read, barrier, SInv
<1>2. c \in Runs BY <1>1, SchedulerConstants DEF Runs
<1>3. /\ result' = [result EXCEPT ![c] = result[c]] /\ place' = [place EXCEPT ![c] = "reading"]
      /\ Orderly(jobs', place')
  BY <1>1 DEF ScheduleIsTyped, SInv, Orderly
<1>4. waiters' \in Seq(Call) /\ persisted' \in [Node -> {Nothing, "yes", "no"}]
      /\ outcome' \in [Node -> {Nothing, "succeeded", "failed", "cancelled"}]
  BY <1>1 DEF ScheduleIsTyped, Outcomes
<1>5. turn[c] = 0 /\ \A m \in Readers[c] : persisted[m] = Nothing
  BY <1>1, <1>2 DEF SInv, Progress, Wave
<1>6. Wave(c)' /\ Turn(c)' BY <1>1, <1>5 DEF Wave, Turn
<1>7. \A m \in Node : outcome'[m] # outcome[m] \/ persisted'[m] # persisted[m] =>
        /\ c \in Runs /\ m \in Work(c) /\ m \notin Later(c)
        /\ turn[c] # 0 => m \notin Earlier(c)
  BY <1>1, <1>2, <1>5, WorkParts DEF ScheduleIsTyped
<1> QED BY <1>1, <1>3, <1>4, <1>6, <1>7, MoveSound

LEMMA EndWaveSound == ASSUME SInv, NEW c \in Call, EndWave(c) PROVE SInv'
<1>1. /\ place[c] = "reading" /\ place' = [place EXCEPT ![c] = "waitPersist"]
      /\ \A n \in Readers[c] : outcome[n] # Nothing
      /\ WaitFrom(c, jobs \o Woken, <<>>) /\ ScheduleIsTyped
      /\ UNCHANGED <<turn, outcome, persisted, aborted, result>>
  BY DEF EndWave, effects, SInv
<1>2. Orderly(jobs \o Woken, place) /\ NoDecision(jobs \o Woken, c)
  BY <1>1, NotDeciding, WokenJobs
<1>3. Orderly(jobs', place') /\ waiters' \in Seq(Call)
  <2>1. <<>> \in Seq(Call) OBVIOUS
  <2> HIDE DEF Woken
  <2> QED BY <1>1, <1>2, <2>1, Waited
<1>4. result' = [result EXCEPT ![c] = result[c]] /\ place'[c] = "waitPersist"
  BY <1>1 DEF ScheduleIsTyped
<1>5. ASSUME c \in Runs PROVE Wave(c)' /\ Turn(c)'
  <2>1. turn[c] = 0 /\ \A n \in Readers[c] : persisted[n] = Nothing
    BY <1>1, <1>5 DEF SInv, Progress, Wave
  <2> QED BY <1>1, <1>4, <2>1 DEF Wave, Turn
<1> QED BY <1>1, <1>3, <1>4, <1>5, MoveSound DEF ScheduleIsTyped

LEMMA EnterPersistSound == ASSUME SInv, NEW c \in Call, EnterPersist(c) PROVE SInv'
<1>1. /\ place[c] = "waitPersist" /\ place' = [place EXCEPT ![c] = "persisting"]
      /\ jobs' = Tail(jobs) /\ Orderly(jobs', place') /\ ScheduleIsTyped
      /\ UNCHANGED <<waiters, turn, outcome, persisted, aborted, result>>
  BY Gone DEF EnterPersist, effects, SInv
<1>2. result' = [result EXCEPT ![c] = result[c]] /\ place'[c] = "persisting"
  BY <1>1 DEF ScheduleIsTyped
<1>3. ASSUME c \in Runs PROVE Wave(c)' /\ Turn(c)'
  <2>1. turn[c] = 0 /\ \A n \in Readers[c] : outcome[n] # Nothing
    BY <1>1, <1>3 DEF SInv, Progress, Wave
  <2> QED BY <1>1, <1>2, <2>1 DEF Wave, Turn
<1> QED BY <1>1, <1>2, <1>3, MoveSound DEF ScheduleIsTyped

LEMMA PersistSound ==
  ASSUME SInv, NEW c \in Call, NEW n \in Node, NEW ok \in {"yes", "no"}, Persist(c, n, ok)
  PROVE  SInv'
<1>1. /\ place[c] = "persisting" /\ n \in Readers[c]
      /\ persisted' = [persisted EXCEPT ![n] = ok] /\ ScheduleIsTyped
      /\ UNCHANGED <<waiters, jobs, place, turn, outcome, aborted, result>>
  BY DEF Persist, barrier, SInv
<1>2. c \in Runs BY <1>1, SchedulerConstants DEF Runs
<1>3. /\ result' = [result EXCEPT ![c] = result[c]] /\ place' = [place EXCEPT ![c] = "persisting"]
      /\ Orderly(jobs', place')
  BY <1>1 DEF ScheduleIsTyped, SInv, Orderly
<1>4. waiters' \in Seq(Call) /\ persisted' \in [Node -> {Nothing, "yes", "no"}]
      /\ outcome' \in [Node -> {Nothing, "succeeded", "failed", "cancelled"}]
  BY <1>1 DEF ScheduleIsTyped
<1>5. turn[c] = 0 /\ \A m \in Readers[c] : outcome[m] # Nothing
  BY <1>1, <1>2 DEF SInv, Progress, Wave
<1>6. Wave(c)' /\ Turn(c)' BY <1>1, <1>5 DEF Wave, Turn
<1>7. \A m \in Node : outcome'[m] # outcome[m] \/ persisted'[m] # persisted[m] =>
        /\ c \in Runs /\ m \in Work(c) /\ m \notin Later(c)
        /\ turn[c] # 0 => m \notin Earlier(c)
  BY <1>1, <1>2, <1>5, WorkParts DEF ScheduleIsTyped
<1> QED BY <1>1, <1>3, <1>4, <1>6, <1>7, MoveSound

LEMMA EndPersistSound == ASSUME SInv, NEW c \in Call, EndPersist(c) PROVE SInv'
<1>1. /\ place[c] = "persisting" /\ \A n \in Readers[c] : persisted[n] # Nothing
      /\ Release(c, jobs) /\ ScheduleIsTyped
      /\ UNCHANGED <<turn, outcome, persisted, aborted, result>>
  BY DEF EndPersist, effects, SInv
<1>2. Orderly(jobs', place') /\ waiters' \in Seq(Call) /\ place' = [place EXCEPT ![c] = "decide"]
  BY <1>1, NotDeciding, Released
<1>3. result' = [result EXCEPT ![c] = result[c]] /\ place'[c] = "decide"
  BY <1>1, <1>2 DEF ScheduleIsTyped
<1>4. ASSUME c \in Runs PROVE Wave(c)' /\ Turn(c)'
  <2>1. turn[c] = 0 /\ \A n \in Readers[c] : outcome[n] # Nothing
    BY <1>1, <1>4 DEF SInv, Progress, Wave
  <2> QED BY <1>1, <1>3, <2>1 DEF Wave, Turn, Ended
<1> QED BY <1>1, <1>2, <1>3, <1>4, MoveSound DEF ScheduleIsTyped

LEMMA EnterWriterSound == ASSUME SInv, NEW c \in Call, EnterWriter(c) PROVE SInv'
<1>1. /\ place[c] = "waitWriter" /\ Orderly(Tail(jobs), place) /\ NoDecision(Tail(jobs), c)
      /\ \A to : Orderly(Tail(jobs), [place EXCEPT ![c] = to])
      /\ ScheduleIsTyped
      /\ UNCHANGED <<turn, outcome, persisted, aborted, result>>
  BY Gone DEF EnterWriter, effects, SInv
<1>2. /\ result' = [result EXCEPT ![c] = result[c]]
      /\ outcome' \in [Node -> {Nothing, "succeeded", "failed", "cancelled"}]
      /\ persisted' \in [Node -> {Nothing, "yes", "no"}]
      /\ turn' = turn /\ outcome' = outcome /\ persisted' = persisted /\ aborted' = aborted
  BY <1>1 DEF ScheduleIsTyped
<1>3. c \in Runs => turn[c] # 0 /\ Fresh(Mine(c)) BY <1>1 DEF SInv, Progress, Turn
<1>4. Mine(c)' = Mine(c) BY <1>1 DEF Mine
<1>5. CASE c \in aborted
  <2>1. Release(c, Tail(jobs)) BY <1>5 DEF EnterWriter
  <2>2. /\ Orderly(jobs', place') /\ waiters' \in Seq(Call)
        /\ place' = [place EXCEPT ![c] = "decide"]
    BY <1>1, <2>1, Released
  <2>3. place'[c] = "decide" BY <1>1, <2>2 DEF ScheduleIsTyped
  <2>4. ASSUME c \in Runs PROVE Wave(c)' /\ Turn(c)'
    BY <2>4, <1>1, <1>3, <1>4, <1>5, <2>3 DEF Wave, Turn, Fresh
  <2> QED BY <1>2, <2>2, <2>4, MoveSound
<1>6. CASE c \notin aborted
  <2>1. /\ place' = [place EXCEPT ![c] = "writing"] /\ jobs' = Tail(jobs) /\ waiters' = waiters
    BY <1>6 DEF EnterWriter
  <2>2. place'[c] = "writing" BY <1>1, <2>1 DEF ScheduleIsTyped
  <2>3. ASSUME c \in Runs PROVE Wave(c)' /\ Turn(c)'
    BY <1>1, <1>3, <1>4, <2>2, <2>3 DEF Wave, Turn, Fresh
  <2>4. Orderly(jobs', place') /\ waiters' \in Seq(Call) BY <1>1, <2>1 DEF ScheduleIsTyped
  <2> QED BY <1>2, <2>1, <2>3, <2>4, MoveSound
<1> QED BY <1>5, <1>6

LEMMA WriteSound ==
  ASSUME SInv, NEW c \in Call, NEW o \in Outcomes, Write(c, o) PROVE SInv'
<1>1. /\ place[c] = "writing" /\ c \notin Integrations /\ c \in Runs
      /\ outcome' = [outcome EXCEPT ![Mine(c)] = o] /\ place' = [place EXCEPT ![c] = "storing"]
      /\ ScheduleIsTyped /\ UNCHANGED <<waiters, jobs, turn, persisted, aborted, result>>
  BY DEF Write, barrier, SInv, Runs
<1>2. /\ turn[c] # 0 /\ Fresh(Mine(c)) /\ Mine(c) \in Work(c) /\ Mine(c) \in Node
      /\ Mine(c) \notin Earlier(c) \cup Later(c)
  BY <1>1, WorkParts DEF SInv, Progress, Turn
<1>3. /\ result' = [result EXCEPT ![c] = result[c]] /\ place'[c] = "storing"
      /\ Mine(c)' = Mine(c) /\ waiters' \in Seq(Call)
  BY <1>1 DEF ScheduleIsTyped, Mine
<1>4. Orderly(jobs', place')
  BY <1>1, NotDeciding, QueueMove DEF Orderly, NoDecision, ScheduleIsTyped
<1>5. o # Nothing /\ o \in {Nothing, "succeeded", "failed", "cancelled"}
  BY SchedulerConstants DEF Outcomes
<1>6. /\ outcome' \in [Node -> {Nothing, "succeeded", "failed", "cancelled"}]
      /\ outcome'[Mine(c)] = o /\ \A n \in Node \ {Mine(c)} : outcome'[n] = outcome[n]
      /\ persisted' \in [Node -> {Nothing, "yes", "no"}]
  BY <1>1, <1>2, <1>5 DEF ScheduleIsTyped
<1>7. Wave(c)' /\ Turn(c)' BY <1>1, <1>2, <1>3, <1>5, <1>6 DEF Wave, Turn, Fresh
<1>8. \A n \in Node : outcome'[n] # outcome[n] \/ persisted'[n] # persisted[n] =>
        /\ c \in Runs /\ n \in Work(c) /\ n \notin Later(c)
        /\ turn[c] # 0 => n \notin Earlier(c)
  BY <1>1, <1>2, <1>6
<1> QED BY <1>1, <1>3, <1>4, <1>6, <1>7, <1>8, MoveSound

LEMMA StoreSound ==
  ASSUME SInv, NEW c \in Call, NEW ok \in {"yes", "no"}, Store(c, ok) PROVE SInv'
<1>1. /\ place[c] = "storing" /\ persisted' = [persisted EXCEPT ![Mine(c)] = ok]
      /\ Release(c, jobs) /\ ScheduleIsTyped /\ UNCHANGED <<turn, outcome, aborted, result>>
  BY DEF Store, SInv
<1>2. Orderly(jobs', place') /\ waiters' \in Seq(Call) /\ place' = [place EXCEPT ![c] = "decide"]
  BY <1>1, NotDeciding, Released
<1>3. c \in Runs BY <1>1 DEF ScheduleIsTyped, Runs
<1>4. /\ turn[c] # 0 /\ outcome[Mine(c)] # Nothing /\ Mine(c) \in Work(c) /\ Mine(c) \in Node
      /\ Mine(c) \notin Earlier(c) \cup Later(c)
  BY <1>1, <1>3, WorkParts DEF SInv, Progress, Turn
<1>5. /\ result' = [result EXCEPT ![c] = result[c]] /\ place'[c] = "decide" /\ Mine(c)' = Mine(c)
  BY <1>1, <1>2 DEF ScheduleIsTyped, Mine
<1>6. /\ persisted' \in [Node -> {Nothing, "yes", "no"}] /\ ok # Nothing
      /\ persisted'[Mine(c)] = ok /\ \A n \in Node \ {Mine(c)} : persisted'[n] = persisted[n]
      /\ outcome' \in [Node -> {Nothing, "succeeded", "failed", "cancelled"}]
  BY <1>1, <1>4, SchedulerConstants DEF ScheduleIsTyped
<1>7. Wave(c)' /\ Turn(c)' BY <1>1, <1>4, <1>5, <1>6 DEF Wave, Turn, Ended
<1>8. \A n \in Node : outcome'[n] # outcome[n] \/ persisted'[n] # persisted[n] =>
        /\ c \in Runs /\ n \in Work(c) /\ n \notin Later(c)
        /\ turn[c] # 0 => n \notin Earlier(c)
  BY <1>1, <1>3, <1>4, <1>6
<1> QED BY <1>1, <1>2, <1>5, <1>6, <1>7, <1>8, MoveSound

LEMMA IntegrateSound ==
  ASSUME SInv, NEW c \in Call, NEW status, Integrate(c, status) PROVE SInv'
<1>1. /\ place[c] = "writing" /\ c \notin Runs /\ result' = [result EXCEPT ![c] = status]
      /\ Release(c, jobs) /\ ScheduleIsTyped
      /\ UNCHANGED <<turn, outcome, persisted, aborted>>
  BY DEF Integrate, effects, SInv, Runs
<1>2. Orderly(jobs', place') /\ waiters' \in Seq(Call) /\ place' = [place EXCEPT ![c] = "decide"]
  BY <1>1, NotDeciding, Released
<1> QED BY <1>1, <1>2, MoveSound DEF ScheduleIsTyped

LEMMA AbortSound == ASSUME SInv, NEW c \in Call, Abort(c) PROVE SInv'
BY QueueStep DEF Abort, barrier, effects, SInv, ScheduleIsTyped, Orderly

LEMMA SchedulerStart == SchedulerInit => SInv
<1> SUFFICES ASSUME SchedulerInit PROVE SInv
  OBVIOUS
<1>1. \A c \in Call : Len(Writers[c]) \in Nat BY SchedulerConstants, LenProperties
<1>2. ScheduleIsTyped BY <1>1, SchedulerConstants DEF SchedulerInit, ScheduleIsTyped
<1>3. DecidesOnce(jobs, place) BY DEF SchedulerInit, DecidesOnce
<1>4. ASSUME NEW c \in Runs PROVE Progress(c)
  <2>1. c \in Call /\ place[c] = "new" /\ turn[c] = 0
        /\ \A n \in Node : outcome[n] = Nothing /\ persisted[n] = Nothing
    BY DEF SchedulerInit, Runs
  <2>2. Readers[c] \subseteq Node /\ Later(c) \subseteq Node BY <1>2, <2>1, WorkParts
  <2> QED BY <2>1, <2>2 DEF Progress, Wave, Turn, Fresh
<1> QED BY <1>2, <1>3, <1>4 DEF SInv

(* The invariant of the scheduler: a call of run has executed and persisted   *)
(* what comes before where it is, and nothing that comes after.               *)
THEOREM SchedulesProgress == SchedulerSpec => []SInv
<1>1. ASSUME SInv, [SchedulerNext]_schedulerVars PROVE SInv'
  <2>1. CASE Check BY <1>1, <2>1, CheckSound
  <2>2. ASSUME NEW c \in Call, Start(c) \/ Abort(c) PROVE SInv'
    BY <1>1, <2>2, StartSound, AbortSound
  <2>3. ASSUME NEW c \in Call, EnterWave(c) \/ EnterPersist(c) \/ EnterWriter(c) \/ Decide(c)
        PROVE  SInv'
    BY <1>1, <2>3, EnterWaveSound, EnterPersistSound, EnterWriterSound, DecideSound
  <2>4. ASSUME NEW c \in Call, Operations(c) PROVE SInv'
    <3>1. ASSUME NEW n \in Node, NEW o \in Outcomes, Read(c, n, o) PROVE SInv'
      BY <1>1, <3>1, ReadSound
    <3>2. CASE EndWave(c) BY <1>1, <3>2, EndWaveSound
    <3>3. ASSUME NEW n \in Node, NEW ok \in {"yes", "no"}, Persist(c, n, ok) PROVE SInv'
      BY <1>1, <3>3, PersistSound
    <3>4. CASE EndPersist(c) BY <1>1, <3>4, EndPersistSound
    <3>5. ASSUME NEW o \in Outcomes, Write(c, o) PROVE SInv' BY <1>1, <3>5, WriteSound
    <3>6. ASSUME NEW ok \in {"yes", "no"}, Store(c, ok) PROVE SInv' BY <1>1, <3>6, StoreSound
    <3>7. ASSUME NEW status, Integrate(c, status) PROVE SInv' BY <1>1, <3>7, IntegrateSound
    <3> QED BY <2>4, <3>1, <3>2, <3>3, <3>4, <3>5, <3>6, <3>7 DEF Operations
  <2>5. CASE UNCHANGED schedulerVars
    <3>1. UNCHANGED <<jobs, waiters, place, turn, outcome, persisted, result, aborted>>
      BY <2>5 DEF schedulerVars, barrier, effects
    <3> QED BY <1>1, <3>1, QueueStep DEF SInv, ScheduleIsTyped, Orderly
  <2> QED BY <1>1, <2>1, <2>2, <2>3, <2>4, <2>5 DEF SchedulerNext, Jobs
<1> QED BY <1>1, SchedulerStart, PTL DEF SchedulerSpec

(* Whoever may still start does so on persisted successes only, for any calls *)
(* at the barrier, any executions and any outcomes of them.                   *)
THEOREM WritersFollow == SchedulerSpec => []WritersFollowStoredWork
<1>1. SInv => WritersFollowStoredWork
  <2> SUFFICES ASSUME SInv, NEW c \in Call \ Integrations, NEW i \in 1 .. turn[c],
                      outcome[Writers[c][i]] # Nothing,
                      NEW n \in Readers[c] \cup {Writers[c][j] : j \in 1 .. (i - 1)}
               PROVE  outcome[n] = "succeeded" /\ persisted[n] = "yes"
    BY DEF WritersFollowStoredWork
  <2>1. turn[c] \in Nat /\ turn[c] # 0 BY DEF SInv, ScheduleIsTyped
  <2>2. \A j \in 1 .. (i - 1) : j \in 1 .. (turn[c] - 1) BY <2>1
  <2>3. n \in Earlier(c) BY <2>2 DEF Earlier
  <2> QED BY <2>1, <2>3 DEF SInv, Runs, Progress, Done
<1> QED BY <1>1, SchedulesProgress, PTL

(* What run returns is true of its executions, and nothing that ended is left *)
(* without an attempt to persist it.                                          *)
THEOREM ResultsStayTrue == SchedulerSpec => []ResultsAreTrue
<1>1. SInv => ResultsAreTrue BY DEF SInv, Runs, Progress, True, Done, ResultsAreTrue
<1> QED BY <1>1, SchedulesProgress, PTL

-------------------------------------------------------------------------------
(* The barrier: who is at it.                                                  *)
(* A call is once at most in the queue or among the waiters, and where it     *)
(* says.                                                                      *)
Once(q, w, at) ==
  /\ \A i, j \in 1 .. Len(q) : q[i].call = q[j].call => i = j
  /\ \A i, j \in 1 .. Len(w) : w[i] = w[j] => i = j
  /\ \A i \in 1 .. Len(q), j \in 1 .. Len(w) : q[i].call # w[j]
  /\ \A i \in 1 .. Len(q) : IF q[i].does = "decide" THEN at[q[i].call] = "decide"
                            ELSE at[q[i].call] \in Waits
  /\ \A j \in 1 .. Len(w) : at[w[j]] \in Waits
Absent(q, w, c) ==
  (\A i \in 1 .. Len(q) : q[i].call # c) /\ (\A j \in 1 .. Len(w) : w[j] # c)

CallsAt(where) == {c \in Call : place[c] = where}
Counts(n, where) == IsFiniteSet(CallsAt(where)) /\ n = Cardinality(CallsAt(where))
CountersCount ==
  /\ Counts(activeReadWaves, "reading")
  /\ Counts(pendingReadWaveWrites, "waitPersist")
  /\ Counts(waitingWriters, "waitWriter")
OwnerIsAtWork == activeWriterOwner \in {Nothing} \cup {c \in Call : place[c] \in AtWork}
Places == Waits \cup AtWork \cup {"new", "reading", "decide", "done"}
CallsAreTyped ==
  /\ place \in [Call -> Places] /\ aborted \subseteq Signalled
  /\ result \in [Call -> {Nothing, "completed", "failed", "cancelled", "waiting",
                          "repair-required"}]
BarrierInv ==
  Once(jobs, waiters, place) /\ CountersCount /\ OwnerIsAtWork /\ CallsAreTyped

LEMMA OnceTail ==
  ASSUME NEW q \in Seq(Job), q # <<>>, NEW w \in Seq(Call), NEW at, Once(q, w, at)
  PROVE  Once(Tail(q), w, at) /\ Absent(Tail(q), w, Head(q).call)
<1>1. /\ Len(Tail(q)) = Len(q) - 1 /\ Len(q) \in Nat \ {0} /\ Len(w) \in Nat
      /\ \A i \in 1 .. Len(Tail(q)) : Tail(q)[i] = q[i + 1] /\ i + 1 \in 1 .. Len(q) /\ i + 1 # 1
      /\ Head(q) = q[1] /\ 1 \in 1 .. Len(q)
  OBVIOUS
<1> DEFINE t == Tail(q)
<1> HIDE DEF t
<1>2. \A i \in 1 .. Len(t) : t[i] = q[i + 1] /\ i + 1 \in 1 .. Len(q) /\ i + 1 # 1
  BY <1>1 DEF t
<1>3. \A i, j \in 1 .. Len(t) : t[i].call = t[j].call => i = j
  <2> TAKE i, j \in 1 .. Len(t)
  <2> HAVE t[i].call = t[j].call
  <2>1. q[i + 1].call = q[j + 1].call /\ i + 1 \in 1 .. Len(q) /\ j + 1 \in 1 .. Len(q)
    BY <1>2
  <2>2. i + 1 = j + 1 BY <2>1 DEF Once
  <2> QED BY <2>2
<1>4. Once(t, w, at)
  <2>1. \A i \in 1 .. Len(t), j \in 1 .. Len(w) : t[i].call # w[j]
    <3> TAKE i \in 1 .. Len(t), j \in 1 .. Len(w)
    <3>1. i + 1 \in 1 .. Len(q) /\ t[i] = q[i + 1] BY <1>2
    <3> QED BY <3>1 DEF Once
  <2>2. \A i \in 1 .. Len(t) : IF t[i].does = "decide" THEN at[t[i].call] = "decide"
                               ELSE at[t[i].call] \in Waits
    <3> TAKE i \in 1 .. Len(t)
    <3>1. i + 1 \in 1 .. Len(q) /\ t[i] = q[i + 1] BY <1>2
    <3> QED BY <3>1 DEF Once
  <2> QED BY <1>3, <2>1, <2>2 DEF Once
<1>5. Absent(t, w, Head(q).call) BY <1>1, <1>2 DEF Once, Absent
<1> QED BY <1>4, <1>5 DEF t

LEMMA OnceMove ==
  ASSUME NEW q \in Seq(Job), NEW w \in Seq(Call), NEW c \in Call, NEW at, NEW to,
         at = [d \in Call |-> at[d]], Once(q, w, at), Absent(q, w, c)
  PROVE  Once(q, w, [at EXCEPT ![c] = to])
<1>1. \A i \in 1 .. Len(q) : q[i].call \in Call /\ q[i].call # c
  <2>1. \A i \in 1 .. Len(q) : q[i] \in Job BY ElementOfSeq
  <2> QED BY <2>1 DEF Job, Absent
<1>2. \A j \in 1 .. Len(w) : w[j] \in Call /\ w[j] # c BY ElementOfSeq DEF Absent
<1>3. \A d \in Call : d # c => [at EXCEPT ![c] = to][d] = at[d] OBVIOUS
<1> QED BY <1>1, <1>2, <1>3 DEF Once

LEMMA OnceJob ==
  ASSUME NEW q \in Seq(Job), NEW w \in Seq(Call), NEW at, NEW x \in Job,
         Once(q, w, at), Absent(q, w, x.call),
         IF x.does = "decide" THEN at[x.call] = "decide" ELSE at[x.call] \in Waits
  PROVE  Once(q \o <<x>>, w, at)
<1> DEFINE r == q \o <<x>>
<1>1. /\ r \in Seq(Job) /\ Len(r) = Len(q) + 1 /\ Len(q) \in Nat
      /\ \A i \in 1 .. Len(r) : (i \in 1 .. Len(q) /\ r[i] = q[i]) \/ (i = Len(q) + 1 /\ r[i] = x)
  OBVIOUS
<1> HIDE DEF r
<1>2. \A i, j \in 1 .. Len(r) : r[i].call = r[j].call => i = j BY <1>1 DEF Once, Absent
<1>3. \A i \in 1 .. Len(r), j \in 1 .. Len(w) : r[i].call # w[j] BY <1>1 DEF Once, Absent
<1>4. \A i \in 1 .. Len(r) : IF r[i].does = "decide" THEN at[r[i].call] = "decide"
                             ELSE at[r[i].call] \in Waits
  BY <1>1 DEF Once
<1> QED BY <1>2, <1>3, <1>4 DEF Once, r

LEMMA OnceWaiter ==
  ASSUME NEW q \in Seq(Job), NEW w \in Seq(Call), NEW at, NEW c \in Call,
         Once(q, w, at), Absent(q, w, c), at[c] \in Waits
  PROVE  Once(q, Append(w, c), at)
<1> DEFINE r == Append(w, c)
<1>1. /\ Len(r) = Len(w) + 1 /\ Len(w) \in Nat
      /\ \A i \in 1 .. Len(r) : (i \in 1 .. Len(w) /\ r[i] = w[i]) \/ (i = Len(w) + 1 /\ r[i] = c)
  OBVIOUS
<1> HIDE DEF r
<1>2. \A i, j \in 1 .. Len(r) : r[i] = r[j] => i = j BY <1>1 DEF Once, Absent
<1>3. \A i \in 1 .. Len(q), j \in 1 .. Len(r) : q[i].call # r[j] BY <1>1 DEF Once, Absent
<1>4. \A j \in 1 .. Len(r) : at[r[j]] \in Waits BY <1>1 DEF Once
<1> QED BY <1>2, <1>3, <1>4 DEF Once, r

(* All waiters are woken.                                                     *)
LEMMA OnceWoken ==
  ASSUME waiters \in Seq(Call), NEW q \in Seq(Job), NEW at, Once(q, waiters, at)
  PROVE  /\ q \o Woken \in Seq(Job) /\ Once(q \o Woken, <<>>, at)
         /\ \A c : Absent(q, waiters, c) => Absent(q \o Woken, <<>>, c)
<1>1. DOMAIN waiters = 1 .. Len(waiters) /\ Len(waiters) \in Nat /\ Len(q) \in Nat
      /\ \A i \in 1 .. Len(waiters) : waiters[i] \in Call
  BY ElementOfSeq
<1> DEFINE w == Woken
<1>2. /\ w \in Seq(Job) /\ Len(w) = Len(waiters)
      /\ \A i \in 1 .. Len(w) : w[i].call = waiters[i] /\ w[i].does = "check"
  BY JobsOfWaiters
<1> HIDE DEF w
<1> DEFINE r == q \o w
<1>3. /\ r \in Seq(Job) /\ Len(r) = Len(q) + Len(w)
      /\ \A i \in 1 .. Len(r) : r[i] = IF i <= Len(q) THEN q[i] ELSE w[i - Len(q)]
  BY <1>2
<1> HIDE DEF r
<1>4. ASSUME NEW i \in 1 .. Len(r)
      PROVE  \/ i \in 1 .. Len(q) /\ r[i] = q[i]
             \/ /\ i - Len(q) \in 1 .. Len(waiters)
                /\ r[i].call = waiters[i - Len(q)] /\ r[i].does = "check"
  <2>1. CASE i <= Len(q) BY <1>1, <1>3, <2>1
  <2>2. CASE ~(i <= Len(q))
    <3>1. i - Len(q) \in 1 .. Len(w) /\ r[i] = w[i - Len(q)] BY <1>1, <1>2, <1>3, <2>2
    <3> QED BY <1>2, <3>1
  <2> QED BY <2>1, <2>2
<1>5. ASSUME NEW i \in 1 .. Len(r), NEW j \in 1 .. Len(r), r[i].call = r[j].call PROVE i = j
  <2>1. CASE i \in 1 .. Len(q) /\ r[i] = q[i] BY <1>4, <1>5, <2>1 DEF Once
  <2>2. CASE /\ i - Len(q) \in 1 .. Len(waiters) /\ r[i].call = waiters[i - Len(q)]
             /\ r[i].does = "check"
    <3>1. ~(j \in 1 .. Len(q) /\ r[j] = q[j]) BY <1>5, <2>2 DEF Once
    <3>2. j - Len(q) \in 1 .. Len(waiters) /\ r[j].call = waiters[j - Len(q)] BY <1>4, <3>1
    <3>3. i - Len(q) = j - Len(q) BY <1>5, <2>2, <3>2 DEF Once
    <3> QED BY <1>1, <1>3, <3>3
  <2> QED BY <1>4, <2>1, <2>2
<1>6. \A i \in 1 .. Len(r) : IF r[i].does = "decide" THEN at[r[i].call] = "decide"
                             ELSE at[r[i].call] \in Waits
  BY <1>4 DEF Once
<1>7. \A j \in 1 .. Len(<<>>) : FALSE OBVIOUS
<1>8. Once(r, <<>>, at) BY <1>5, <1>6, <1>7 DEF Once
<1>9. \A c : Absent(q, waiters, c) => Absent(r, <<>>, c) BY <1>4, <1>7 DEF Absent
<1> QED BY <1>3, <1>8, <1>9 DEF r, w

(* Where a call is that nobody has to call back.                              *)
LEMMA Unlisted ==
  ASSUME NEW q \in Seq(Job), NEW w \in Seq(Call), NEW at, Once(q, w, at), NEW c,
         at[c] \notin Waits \cup {"decide"}
  PROVE  Absent(q, w, c)
BY DEF Once, Absent

-------------------------------------------------------------------------------
(* The counters.                                                              *)
LEMMA CountMoves ==
  ASSUME NEW c \in Call, NEW to, place = [d \in Call |-> place[d]],
         place' = [place EXCEPT ![c] = to], to # place[c],
         NEW where, NEW n, NEW m, Counts(n, where),
         m = IF to = where THEN n + 1 ELSE IF place[c] = where THEN n - 1 ELSE n
  PROVE  IsFiniteSet(CallsAt(where)') /\ m = Cardinality(CallsAt(where)')
<1>1. place'[c] = to /\ \A d \in Call \ {c} : place'[d] = place[d] OBVIOUS
<1>2. IsFiniteSet(CallsAt(where)) /\ n = Cardinality(CallsAt(where)) BY DEF Counts
<1>3. CASE to = where
  <2>1. CallsAt(where)' = CallsAt(where) \cup {c} /\ c \notin CallsAt(where)
    BY <1>1, <1>3 DEF CallsAt
  <2> QED BY <1>2, <1>3, <2>1, FS_AddElement DEF Counts
<1>4. CASE to # where /\ place[c] = where
  <2>1. CallsAt(where)' = CallsAt(where) \ {c} /\ c \in CallsAt(where)
    BY <1>1, <1>4 DEF CallsAt
  <2> QED BY <1>2, <1>4, <2>1, FS_RemoveElement DEF Counts
<1>5. CASE to # where /\ place[c] # where
  <2>1. CallsAt(where)' = CallsAt(where) BY <1>1, <1>5 DEF CallsAt
  <2> QED BY <1>2, <1>5, <2>1 DEF Counts
<1> QED BY <1>3, <1>4, <1>5

LEMMA ReleasedLine ==
  ASSUME SInv, NEW c \in Call, NEW rest \in Seq(Job), Once(rest, waiters, place),
         Absent(rest, waiters, c), Release(c, rest)
  PROVE  Once(jobs', waiters', place')
<1>1. waiters \in Seq(Call) /\ place = [d \in Call |-> place[d]]
  BY DEF SInv, ScheduleIsTyped
<1> DEFINE q == rest \o Woken
           x == [call |-> c, does |-> "decide"]
<1>2. q \in Seq(Job) /\ Once(q, <<>>, place) /\ Absent(q, <<>>, c) BY <1>1, OnceWoken
<1>3. place' = [place EXCEPT ![c] = "decide"] /\ waiters' = <<>> /\ jobs' = q \o <<x>>
  BY DEF Release, Queue
<1> HIDE DEF q
<1>4. <<>> \in Seq(Call) OBVIOUS
<1>5. Once(q, <<>>, place') BY <1>1, <1>2, <1>3, <1>4, OnceMove
<1>6. x \in Job /\ x.call = c /\ x.does = "decide" /\ place'[c] = "decide" BY <1>1, <1>3 DEF Job
<1> HIDE DEF x
<1>7. Once(q \o <<x>>, <<>>, place') BY <1>2, <1>4, <1>5, <1>6, OnceJob
<1> QED BY <1>3, <1>7

LEMMA WaitingLine ==
  ASSUME SInv, NEW c \in Call, NEW rest \in Seq(Job), NEW w \in Seq(Call),
         Once(rest, w, place), Absent(rest, w, c), NEW to \in Waits,
         place' = [place EXCEPT ![c] = to], WaitFrom(c, rest, w)
  PROVE  Once(jobs', waiters', place')
<1>1. place = [d \in Call |-> place[d]] BY DEF SInv, ScheduleIsTyped
<1> DEFINE x == [call |-> c, does |-> "go"]
<1>2. Once(rest, w, place') /\ place'[c] \in Waits BY <1>1, OnceMove
<1>3. x \in Job /\ x.call = c /\ x.does # "decide" BY DEF Job
<1>4. \/ jobs' = rest \o <<x>> /\ waiters' = w
      \/ jobs' = rest /\ waiters' = Append(w, c)
  BY DEF WaitFrom, Queue
<1> HIDE DEF x
<1>5. CASE jobs' = rest \o <<x>> /\ waiters' = w BY <1>2, <1>3, <1>5, OnceJob
<1>6. CASE jobs' = rest /\ waiters' = Append(w, c) BY <1>2, <1>6, OnceWaiter
<1> QED BY <1>4, <1>5, <1>6

(* A call moves: the counters of the places it leaves and comes to, the owner *)
(* if it is the Writer.                                                       *)
LEMMA BarrierMove ==
  ASSUME BarrierInv, NEW c \in Call, NEW to \in Places, to # place[c],
         place' = [place EXCEPT ![c] = to],
         activeReadWaves' = (IF to = "reading" THEN activeReadWaves + 1
                             ELSE IF place[c] = "reading" THEN activeReadWaves - 1
                             ELSE activeReadWaves),
         pendingReadWaveWrites' = (IF to = "waitPersist" THEN pendingReadWaveWrites + 1
                                   ELSE IF place[c] = "waitPersist"
                                   THEN pendingReadWaveWrites - 1 ELSE pendingReadWaveWrites),
         waitingWriters' = (IF to = "waitWriter" THEN waitingWriters + 1
                            ELSE IF place[c] = "waitWriter" THEN waitingWriters - 1
                            ELSE waitingWriters),
         \/ activeWriterOwner' = Nothing
         \/ activeWriterOwner' = c /\ to \in AtWork
         \/ activeWriterOwner' = activeWriterOwner /\ (place[c] \in AtWork => to \in AtWork),
         aborted' = aborted, result' \in [Call -> {Nothing, "completed", "failed", "cancelled",
                                                   "waiting", "repair-required"}],
         Once(jobs', waiters', place')
  PROVE  BarrierInv'
<1>1. /\ place \in [Call -> Places] /\ place = [d \in Call |-> place[d]]
      /\ Counts(activeReadWaves, "reading") /\ Counts(pendingReadWaveWrites, "waitPersist")
      /\ Counts(waitingWriters, "waitWriter") /\ OwnerIsAtWork /\ aborted \subseteq Signalled
  BY DEF BarrierInv, CountersCount, CallsAreTyped
<1>2. IsFiniteSet(CallsAt("reading")') /\ activeReadWaves' = Cardinality(CallsAt("reading")')
  BY <1>1, CountMoves
<1>3. /\ IsFiniteSet(CallsAt("waitPersist")')
      /\ pendingReadWaveWrites' = Cardinality(CallsAt("waitPersist")')
  BY <1>1, CountMoves
<1>4. /\ IsFiniteSet(CallsAt("waitWriter")')
      /\ waitingWriters' = Cardinality(CallsAt("waitWriter")')
  BY <1>1, CountMoves
<1>5. CountersCount' BY <1>2, <1>3, <1>4 DEF CountersCount, Counts
<1>6. OwnerIsAtWork' BY <1>1 DEF OwnerIsAtWork
<1>7. CallsAreTyped' BY <1>1 DEF CallsAreTyped
<1> QED BY <1>5, <1>6, <1>7 DEF BarrierInv

LEMMA SettledLine ==
  ASSUME SInv, BarrierInv, NEW c \in Call, place[c] \in {"new", "decide"},
         NEW rest \in Seq(Job), Once(rest, waiters, place), Absent(rest, waiters, c),
         NEW status \in {"completed", "failed", "cancelled", "waiting", "repair-required"},
         Settle(c, rest, status), aborted' = aborted
  PROVE  BarrierInv'
<1>1. waiters \in Seq(Call) /\ place = [d \in Call |-> place[d]]
  BY DEF SInv, ScheduleIsTyped
<1>2. /\ place' = [place EXCEPT ![c] = "done"] /\ jobs' = rest /\ waiters' = waiters
      /\ result' = [result EXCEPT ![c] = status]
      /\ UNCHANGED <<activeReadWaves, pendingReadWaveWrites, waitingWriters, activeWriterOwner>>
  BY DEF Settle, barrier, counters
<1>3. Once(jobs', waiters', place') BY <1>1, <1>2, OnceMove
<1>4. result' \in [Call -> {Nothing, "completed", "failed", "cancelled", "waiting",
                            "repair-required"}]
  BY <1>2 DEF BarrierInv, CallsAreTyped
<1>5. "done" \in Places /\ "done" # place[c] /\ place[c] \notin AtWork BY DEF Places, AtWork
<1> QED BY <1>2, <1>3, <1>4, <1>5, BarrierMove

LEMMA NextLine ==
  ASSUME SInv, BarrierInv, NEW c \in Call, place[c] \in {"new", "decide"},
         NEW rest \in Seq(Job), Once(rest, waiters, place), Absent(rest, waiters, c),
         NextWriter(c, rest), aborted' = aborted
  PROVE  BarrierInv'
<1>1. CASE turn[c] < Len(Writers[c])
  <2>1. /\ place' = [place EXCEPT ![c] = "waitWriter"] /\ WaitFrom(c, rest, waiters)
        /\ waitingWriters' = waitingWriters + 1 /\ result' = result
        /\ UNCHANGED <<activeReadWaves, activeWriterOwner, pendingReadWaveWrites>>
    BY <1>1 DEF NextWriter, StartWriter
  <2>2. "waitWriter" \in Waits /\ "waitWriter" \in Places BY DEF Waits, Places
  <2>3. Once(jobs', waiters', place')
    BY <2>1, <2>2, WaitingLine DEF SInv, ScheduleIsTyped
  <2>4. result' \in [Call -> {Nothing, "completed", "failed", "cancelled", "waiting",
                              "repair-required"}]
    BY <2>1 DEF BarrierInv, CallsAreTyped
  <2>5. "waitWriter" # place[c] /\ place[c] \notin AtWork BY DEF AtWork
  <2> QED BY <2>1, <2>2, <2>3, <2>4, <2>5, BarrierMove
<1>2. CASE ~(turn[c] < Len(Writers[c])) BY <1>2, SettledLine DEF NextWriter
<1> QED BY <1>1, <1>2

LEMMA StartLine == ASSUME SInv, BarrierInv, NEW c \in Call, Start(c) PROVE BarrierInv'
<1>1. /\ place[c] = "new" /\ aborted' = aborted /\ jobs \in Seq(Job) /\ waiters \in Seq(Call)
      /\ Once(jobs, waiters, place)
  BY DEF Start, SInv, ScheduleIsTyped, BarrierInv
<1>2. Absent(jobs, waiters, c) BY <1>1, Unlisted DEF Waits
<1>3. CASE c \in aborted
  <2>1. Settle(c, jobs, "cancelled") BY <1>3 DEF Start
  <2> QED BY <1>1, <1>2, <2>1, SettledLine
<1>4. CASE c \notin aborted /\ Readers[c] # {}
  <2>1. /\ place' = [place EXCEPT ![c] = "waitWave"] /\ WaitFrom(c, jobs, waiters)
        /\ UNCHANGED <<activeReadWaves, pendingReadWaveWrites, waitingWriters,
                       activeWriterOwner, result>>
    BY <1>4 DEF Start, StartWave, counters
  <2>2. "waitWave" \in Waits /\ "waitWave" \in Places BY DEF Waits, Places
  <2>3. Once(jobs', waiters', place') BY <1>1, <1>2, <2>1, <2>2, WaitingLine
  <2>4. result' \in [Call -> {Nothing, "completed", "failed", "cancelled", "waiting",
                              "repair-required"}]
    BY <2>1 DEF BarrierInv, CallsAreTyped
  <2>5. "waitWave" # place[c] /\ place[c] \notin AtWork BY <1>1 DEF AtWork
  <2> QED BY <1>1, <2>1, <2>2, <2>3, <2>4, <2>5, BarrierMove
<1>5. CASE c \notin aborted /\ Readers[c] = {}
  <2>1. NextWriter(c, jobs) BY <1>5 DEF Start
  <2> QED BY <1>1, <1>2, <2>1, NextLine
<1> QED BY <1>3, <1>4, <1>5

(* The first in the queue is nowhere else.                                    *)
LEMMA HeadLine ==
  ASSUME SInv, BarrierInv, jobs # <<>>
  PROVE  /\ Tail(jobs) \in Seq(Job) /\ waiters \in Seq(Call)
         /\ Once(Tail(jobs), waiters, place) /\ Absent(Tail(jobs), waiters, Head(jobs).call)
         /\ Head(jobs).call \in Call
         /\ IF Head(jobs).does = "decide" THEN place[Head(jobs).call] = "decide"
            ELSE place[Head(jobs).call] \in Waits
<1>1. jobs \in Seq(Job) /\ waiters \in Seq(Call) /\ Once(jobs, waiters, place)
  BY DEF SInv, ScheduleIsTyped, BarrierInv
<1>2. Tail(jobs) \in Seq(Job) /\ Head(jobs) \in Job /\ 1 \in 1 .. Len(jobs) /\ Head(jobs) = jobs[1]
  BY <1>1
<1> QED BY <1>1, <1>2, OnceTail DEF Once, Job

LEMMA DecideLine == ASSUME SInv, BarrierInv, NEW c \in Call, Decide(c) PROVE BarrierInv'
<1>1. /\ jobs # <<>> /\ Head(jobs).call = c /\ Head(jobs).does = "decide" /\ aborted' = aborted
  BY DEF Decide
<1>2. /\ Tail(jobs) \in Seq(Job) /\ Once(Tail(jobs), waiters, place)
      /\ Absent(Tail(jobs), waiters, c) /\ place[c] = "decide"
  BY <1>1, HeadLine
<1>3. \/ NextWriter(c, Tail(jobs))
      \/ \E st \in {"completed", "failed", "cancelled", "waiting", "repair-required"} :
           Settle(c, Tail(jobs), st)
  <2>1. (IF result[c] = Nothing THEN "cancelled" ELSE result[c]) \in
          {"completed", "failed", "cancelled", "waiting", "repair-required"}
    BY DEF BarrierInv, CallsAreTyped
  <2> QED BY <2>1 DEF Decide
<1> QED BY <1>1, <1>2, <1>3, NextLine, SettledLine

LEMMA StayLine ==
  ASSUME BarrierInv, Once(jobs', waiters', place), aborted' \subseteq Signalled,
         UNCHANGED <<place, counters, activeWriterOwner, result>>
  PROVE  BarrierInv'
<1>1. UNCHANGED <<activeReadWaves, pendingReadWaveWrites, waitingWriters>> BY DEF counters
<1>2. CountersCount' BY <1>1 DEF BarrierInv, CountersCount, Counts, CallsAt
<1>3. OwnerIsAtWork' /\ CallsAreTyped' BY DEF BarrierInv, OwnerIsAtWork, CallsAreTyped
<1> QED BY <1>2, <1>3 DEF BarrierInv

LEMMA CheckLine == ASSUME SInv, BarrierInv, Check PROVE BarrierInv'
<1> DEFINE d == Head(jobs).call
           x == [call |-> d, does |-> "go"]
<1>1. /\ jobs # <<>> /\ Head(jobs).does = "check"
      /\ UNCHANGED <<place, counters, activeWriterOwner, result, aborted>>
      /\ \/ jobs' = Tail(jobs) \o <<x>> /\ waiters' = waiters
         \/ jobs' = Tail(jobs) /\ waiters' = Append(waiters, d)
  BY DEF Check, Queue
<1>2. /\ Tail(jobs) \in Seq(Job) /\ waiters \in Seq(Call) /\ d \in Call
      /\ Once(Tail(jobs), waiters, place) /\ Absent(Tail(jobs), waiters, d) /\ place[d] \in Waits
  BY <1>1, HeadLine
<1>3. x \in Job /\ x.call = d /\ x.does # "decide" BY <1>2 DEF Job
<1> HIDE DEF d, x
<1>4. Once(Tail(jobs) \o <<x>>, waiters, place) BY <1>2, <1>3, OnceJob
<1>5. Once(Tail(jobs), Append(waiters, d), place) BY <1>2, OnceWaiter
<1>6. Once(jobs', waiters', place) BY <1>1, <1>4, <1>5
<1>7. aborted' \subseteq Signalled BY <1>1 DEF BarrierInv, CallsAreTyped
<1> QED BY <1>1, <1>6, <1>7, StayLine

LEMMA GoLine ==
  ASSUME SInv, BarrierInv, NEW c \in Call, NEW at \in Waits, Goes(c, at)
  PROVE  /\ place[c] = at /\ Tail(jobs) \in Seq(Job) /\ waiters \in Seq(Call)
         /\ Once(Tail(jobs), waiters, place) /\ Absent(Tail(jobs), waiters, c)
         /\ \A to : Once(Tail(jobs), waiters, [place EXCEPT ![c] = to])
<1>1. jobs # <<>> /\ Head(jobs).call = c /\ place[c] = at BY DEF Goes
<1>2. /\ Tail(jobs) \in Seq(Job) /\ waiters \in Seq(Call)
      /\ Once(Tail(jobs), waiters, place) /\ Absent(Tail(jobs), waiters, c)
  BY <1>1, HeadLine
<1>3. \A to : Once(Tail(jobs), waiters, [place EXCEPT ![c] = to])
  BY <1>2, OnceMove DEF SInv, ScheduleIsTyped
<1> QED BY <1>1, <1>2, <1>3

LEMMA EnterWaveLine == ASSUME SInv, BarrierInv, NEW c \in Call, EnterWave(c) PROVE BarrierInv'
<1>1. /\ Goes(c, "waitWave") /\ jobs' = Tail(jobs) /\ waiters' = waiters
      /\ activeReadWaves' = activeReadWaves + 1 /\ place' = [place EXCEPT ![c] = "reading"]
      /\ UNCHANGED <<activeWriterOwner, pendingReadWaveWrites, waitingWriters, aborted, result>>
  BY DEF EnterWave
<1>2. place[c] = "waitWave" /\ Once(jobs', waiters', place') BY <1>1, GoLine DEF Waits
<1>3. "reading" \in Places /\ "reading" # place[c] /\ place[c] \notin AtWork
  BY <1>2 DEF Places, AtWork
<1>4. result' \in [Call -> {Nothing, "completed", "failed", "cancelled", "waiting",
                            "repair-required"}]
  BY <1>1 DEF BarrierInv, CallsAreTyped
<1> QED BY <1>1, <1>2, <1>3, <1>4, BarrierMove

LEMMA EndWaveLine == ASSUME SInv, BarrierInv, NEW c \in Call, EndWave(c) PROVE BarrierInv'
<1>1. /\ place[c] = "reading" /\ place' = [place EXCEPT ![c] = "waitPersist"]
      /\ pendingReadWaveWrites' = pendingReadWaveWrites + 1
      /\ activeReadWaves' = activeReadWaves - 1 /\ WaitFrom(c, jobs \o Woken, <<>>)
      /\ UNCHANGED <<activeWriterOwner, waitingWriters, aborted, result>>
  BY DEF EndWave
<1>2. jobs \in Seq(Job) /\ waiters \in Seq(Call) /\ Once(jobs, waiters, place)
  BY DEF SInv, ScheduleIsTyped, BarrierInv
<1>3. Absent(jobs, waiters, c) BY <1>1, <1>2, Unlisted DEF Waits
<1> DEFINE q == jobs \o Woken
<1>4. q \in Seq(Job) /\ Once(q, <<>>, place) /\ Absent(q, <<>>, c) BY <1>2, <1>3, OnceWoken
<1>5. WaitFrom(c, q, <<>>) BY <1>1
<1> HIDE DEF q
<1>6. "waitPersist" \in Waits /\ <<>> \in Seq(Call) BY DEF Waits
<1>7. Once(jobs', waiters', place') BY <1>1, <1>4, <1>5, <1>6, WaitingLine
<1>8. "waitPersist" \in Places /\ "waitPersist" # place[c] /\ place[c] \notin AtWork
  BY <1>1 DEF Places, AtWork, Waits
<1>9. result' \in [Call -> {Nothing, "completed", "failed", "cancelled", "waiting",
                            "repair-required"}]
  BY <1>1 DEF BarrierInv, CallsAreTyped
<1> QED BY <1>1, <1>7, <1>8, <1>9, BarrierMove

LEMMA EnterPersistLine ==
  ASSUME SInv, BarrierInv, NEW c \in Call, EnterPersist(c) PROVE BarrierInv'
<1>1. /\ Goes(c, "waitPersist") /\ jobs' = Tail(jobs) /\ waiters' = waiters
      /\ pendingReadWaveWrites' = pendingReadWaveWrites - 1 /\ activeWriterOwner' = c
      /\ place' = [place EXCEPT ![c] = "persisting"]
      /\ UNCHANGED <<activeReadWaves, waitingWriters, aborted, result>>
  BY DEF EnterPersist
<1>2. place[c] = "waitPersist" /\ Once(jobs', waiters', place') BY <1>1, GoLine DEF Waits
<1>3. "persisting" \in Places /\ "persisting" # place[c] /\ "persisting" \in AtWork
  BY <1>2 DEF Places, AtWork
<1>4. result' \in [Call -> {Nothing, "completed", "failed", "cancelled", "waiting",
                            "repair-required"}]
  BY <1>1 DEF BarrierInv, CallsAreTyped
<1> QED BY <1>1, <1>2, <1>3, <1>4, BarrierMove

(* The ways to end a turn.                                                    *)
LEMMA TurnOver ==
  ASSUME SInv, BarrierInv, NEW c \in Call, place[c] \in AtWork, Release(c, jobs),
         aborted' = aborted, UNCHANGED <<activeReadWaves, pendingReadWaveWrites, waitingWriters>>,
         result' \in [Call -> {Nothing, "completed", "failed", "cancelled", "waiting",
                               "repair-required"}]
  PROVE  BarrierInv'
<1>1. jobs \in Seq(Job) /\ Once(jobs, waiters, place)
  BY DEF SInv, ScheduleIsTyped, BarrierInv
<1>2. Absent(jobs, waiters, c)
  <2>1. place[c] \notin Waits \cup {"decide"} BY DEF Waits, AtWork
  <2> QED BY <1>1, <2>1, Unlisted DEF SInv, ScheduleIsTyped
<1>3. Once(jobs', waiters', place') BY <1>1, <1>2, ReleasedLine
<1>4. place' = [place EXCEPT ![c] = "decide"] /\ activeWriterOwner' = Nothing BY DEF Release
<1>5. /\ "decide" \in Places /\ "decide" # place[c]
      /\ place[c] \notin {"reading", "waitPersist", "waitWriter"}
  BY DEF Places, AtWork
<1> QED BY <1>3, <1>4, <1>5, BarrierMove

LEMMA EnterWriterLine ==
  ASSUME SInv, BarrierInv, NEW c \in Call, EnterWriter(c) PROVE BarrierInv'
<1>1. /\ Goes(c, "waitWriter") /\ waitingWriters' = waitingWriters - 1
      /\ UNCHANGED <<activeReadWaves, pendingReadWaveWrites, aborted, result>>
  BY DEF EnterWriter
<1>2. /\ place[c] = "waitWriter" /\ Tail(jobs) \in Seq(Job)
      /\ Once(Tail(jobs), waiters, place) /\ Absent(Tail(jobs), waiters, c)
      /\ \A to : Once(Tail(jobs), waiters, [place EXCEPT ![c] = to])
  BY <1>1, GoLine DEF Waits
<1>3. result' \in [Call -> {Nothing, "completed", "failed", "cancelled", "waiting",
                            "repair-required"}]
  BY <1>1 DEF BarrierInv, CallsAreTyped
<1>4. CASE c \in aborted
  <2>1. Release(c, Tail(jobs)) BY <1>4 DEF EnterWriter
  <2>2. Once(jobs', waiters', place') BY <1>2, <2>1, ReleasedLine
  <2>3. place' = [place EXCEPT ![c] = "decide"] /\ activeWriterOwner' = Nothing
    BY <2>1 DEF Release
  <2>4. "decide" \in Places /\ "decide" # place[c] BY <1>2 DEF Places
  <2> QED BY <1>1, <1>2, <1>3, <2>2, <2>3, <2>4, BarrierMove
<1>5. CASE c \notin aborted
  <2>1. /\ activeWriterOwner' = c /\ place' = [place EXCEPT ![c] = "writing"]
        /\ jobs' = Tail(jobs) /\ waiters' = waiters
    BY <1>5 DEF EnterWriter
  <2>2. "writing" \in Places /\ "writing" # place[c] /\ "writing" \in AtWork
    BY <1>2 DEF Places, AtWork
  <2> QED BY <1>1, <1>2, <1>3, <2>1, <2>2, BarrierMove
<1> QED BY <1>4, <1>5

LEMMA WriteLine == ASSUME SInv, BarrierInv, NEW c \in Call, NEW o, Write(c, o) PROVE BarrierInv'
<1>1. /\ place[c] = "writing" /\ place' = [place EXCEPT ![c] = "storing"]
      /\ UNCHANGED <<activeReadWaves, pendingReadWaveWrites, waitingWriters, activeWriterOwner,
                     waiters, jobs, aborted, result>>
  BY DEF Write, barrier, counters
<1>2. /\ jobs \in Seq(Job) /\ waiters \in Seq(Call) /\ Once(jobs, waiters, place)
      /\ place = [d \in Call |-> place[d]]
  BY DEF SInv, ScheduleIsTyped, BarrierInv
<1>3. Absent(jobs, waiters, c) BY <1>1, <1>2, Unlisted DEF Waits
<1>4. Once(jobs', waiters', place') BY <1>1, <1>2, <1>3, OnceMove
<1>5. "storing" \in Places /\ "storing" # place[c] /\ "storing" \in AtWork
  BY <1>1 DEF Places, AtWork
<1>6. result' \in [Call -> {Nothing, "completed", "failed", "cancelled", "waiting",
                            "repair-required"}]
  BY <1>1 DEF BarrierInv, CallsAreTyped
<1> QED BY <1>1, <1>4, <1>5, <1>6, BarrierMove

LEMMA BarrierStarts == SchedulerInit => BarrierInv
<1> SUFFICES ASSUME SchedulerInit PROVE BarrierInv
  OBVIOUS
<1>1. Once(jobs, waiters, place) BY DEF SchedulerInit, Once
<1>2. CallsAt("reading") = {} /\ CallsAt("waitPersist") = {} /\ CallsAt("waitWriter") = {}
  BY DEF SchedulerInit, CallsAt
<1>3. CountersCount BY <1>2, FS_EmptySet DEF SchedulerInit, CountersCount, Counts
<1>4. OwnerIsAtWork /\ CallsAreTyped
  BY DEF SchedulerInit, OwnerIsAtWork, CallsAreTyped, Places
<1> QED BY <1>1, <1>3, <1>4 DEF BarrierInv

(* The barrier keeps its books: its counters count the calls that are where   *)
(* they say, a call waits once, and the owner is a call that has not given    *)
(* its turn back (InitiativeReadWriteBarrier).                                *)
THEOREM BarrierIsSound == SchedulerSpec => []BarrierInv
<1>1. ASSUME SInv, BarrierInv, [SchedulerNext]_schedulerVars PROVE BarrierInv'
  <2>0. Once(jobs, waiters, place) /\ aborted \subseteq Signalled
    BY <1>1 DEF BarrierInv, CallsAreTyped
  <2>1. CASE Check BY <1>1, <2>1, CheckLine
  <2>2. ASSUME NEW c \in Call, Start(c) PROVE BarrierInv' BY <1>1, <2>2, StartLine
  <2>3. ASSUME NEW c \in Call, Abort(c) PROVE BarrierInv'
    <3>1. Once(jobs', waiters', place) /\ aborted' \subseteq Signalled
          /\ UNCHANGED <<place, counters, activeWriterOwner, result>>
      BY <2>0, <2>3 DEF Abort, barrier
    <3> QED BY <1>1, <3>1, StayLine
  <2>4. ASSUME NEW c \in Call, EnterWave(c) \/ EnterPersist(c) \/ EnterWriter(c) \/ Decide(c)
        PROVE  BarrierInv'
    BY <1>1, <2>4, EnterWaveLine, EnterPersistLine, EnterWriterLine, DecideLine
  <2>5. ASSUME NEW c \in Call, Operations(c) PROVE BarrierInv'
    <3>1. ASSUME NEW n \in Node, NEW o \in Outcomes, Read(c, n, o) PROVE BarrierInv'
      <4>1. Once(jobs', waiters', place) /\ aborted' \subseteq Signalled
            /\ UNCHANGED <<place, counters, activeWriterOwner, result>>
        BY <2>0, <3>1 DEF Read, barrier
      <4> QED BY <1>1, <4>1, StayLine
    <3>2. CASE EndWave(c) BY <1>1, <3>2, EndWaveLine
    <3>3. ASSUME NEW n \in Node, NEW ok \in {"yes", "no"}, Persist(c, n, ok) PROVE BarrierInv'
      <4>1. Once(jobs', waiters', place) /\ aborted' \subseteq Signalled
            /\ UNCHANGED <<place, counters, activeWriterOwner, result>>
        BY <2>0, <3>3 DEF Persist, barrier
      <4> QED BY <1>1, <4>1, StayLine
    <3>4. CASE EndPersist(c)
      BY <1>1, <3>4, TurnOver DEF EndPersist, counters, AtWork, BarrierInv, CallsAreTyped
    <3>5. ASSUME NEW o \in Outcomes, Write(c, o) PROVE BarrierInv' BY <1>1, <3>5, WriteLine
    <3>6. ASSUME NEW ok \in {"yes", "no"}, Store(c, ok) PROVE BarrierInv'
      BY <1>1, <3>6, TurnOver DEF Store, counters, AtWork, BarrierInv, CallsAreTyped
    <3>7. ASSUME NEW status \in {"completed", "failed", "waiting", "repair-required"},
                 Integrate(c, status)
          PROVE  BarrierInv'
      <4>1. result' \in [Call -> {Nothing, "completed", "failed", "cancelled", "waiting",
                                  "repair-required"}]
        BY <1>1, <3>7 DEF Integrate, BarrierInv, CallsAreTyped
      <4> QED BY <1>1, <3>7, <4>1, TurnOver DEF Integrate, counters, AtWork
    <3> QED BY <2>5, <3>1, <3>2, <3>3, <3>4, <3>5, <3>6, <3>7 DEF Operations
  <2>6. CASE UNCHANGED schedulerVars
    <3>1. Once(jobs', waiters', place) /\ aborted' \subseteq Signalled
          /\ UNCHANGED <<place, counters, activeWriterOwner, result>>
      BY <2>0, <2>6 DEF schedulerVars, barrier
    <3> QED BY <1>1, <3>1, StayLine
  <2> QED BY <1>1, <2>1, <2>2, <2>3, <2>4, <2>5, <2>6 DEF SchedulerNext, Jobs
<1> QED BY <1>1, BarrierStarts, SchedulesProgress, PTL DEF SchedulerSpec

(* Every variable of the scheduler keeps its type, the counters with it.      *)
THEOREM SchedulerTypeCorrect == SchedulerSpec => []SchedulerTypeOK
<1>1. ASSUME SInv, BarrierInv PROVE SchedulerTypeOK
  <2>1. /\ activeReadWaves = Cardinality({c \in Call : place[c] = "reading"})
        /\ pendingReadWaveWrites = Cardinality({c \in Call : place[c] = "waitPersist"})
        /\ waitingWriters = Cardinality({c \in Call : place[c] = "waitWriter"})
    BY <1>1 DEF BarrierInv, CountersCount, Counts, CallsAt
  <2>2. waiters \in Seq(Call) /\ \A i \in DOMAIN waiters : place[waiters[i]] \in Waits
    <3>1. waiters \in Seq(Call) /\ DOMAIN waiters = 1 .. Len(waiters)
      BY <1>1 DEF SInv, ScheduleIsTyped
    <3> QED BY <1>1, <3>1 DEF BarrierInv, Once
  <2>3. /\ activeWriterOwner \in {Nothing} \cup {c \in Call : place[c] \in AtWork}
        /\ place \in [Call -> Waits \cup AtWork \cup {"new", "reading", "decide", "done"}]
        /\ aborted \subseteq Signalled
        /\ result \in [Call -> {Nothing, "completed", "failed", "cancelled", "waiting",
                                "repair-required"}]
    BY <1>1 DEF BarrierInv, OwnerIsAtWork, CallsAreTyped, Places
  <2>4. /\ jobs \in Seq([call : Call, does : {"check", "go", "decide"}])
        /\ turn \in [Call -> Nat] /\ \A c \in Call : turn[c] <= Len(Writers[c])
        /\ outcome \in [Node -> {Nothing, "succeeded", "failed", "cancelled"}]
        /\ persisted \in [Node -> {Nothing, "yes", "no"}]
    BY <1>1 DEF SInv, ScheduleIsTyped, Job
  <2> QED BY <2>1, <2>2, <2>3, <2>4 DEF SchedulerTypeOK
<1> QED BY <1>1, BarrierIsSound, SchedulesProgress, PTL

-------------------------------------------------------------------------------
(* Who waits, and for what.                                                    *)
(* A call that waits is in the queue or among the waiters, and those have     *)
(* something to wait for.                                                     *)
Queued(q, c) == \E i \in 1 .. Len(q) : q[i].call = c
Waiting(w, c) == \E j \in 1 .. Len(w) : w[j] = c
WaitInv ==
  /\ \A c \in Call : place[c] \in Waits => Queued(jobs, c) \/ Waiting(waiters, c)
  /\ \A c \in Call : Waiting(waiters, c) => ~Condition(c)

LEMMA QueuedTail ==
  ASSUME NEW q \in Seq(Job), q # <<>>, NEW c, Queued(q, c), c # Head(q).call
  PROVE  Queued(Tail(q), c)
<1>1. PICK i \in 1 .. Len(q) : q[i].call = c BY DEF Queued
<1>2. Head(q) = q[1] /\ Len(Tail(q)) = Len(q) - 1 /\ Len(q) \in Nat
      /\ \A j \in 1 .. Len(Tail(q)) : Tail(q)[j] = q[j + 1]
  OBVIOUS
<1>3. i # 1 BY <1>1, <1>2
<1>4. i - 1 \in 1 .. Len(Tail(q)) /\ Tail(q)[i - 1] = q[i] BY <1>2, <1>3
<1> QED BY <1>1, <1>4 DEF Queued

LEMMA QueuedBehind ==
  ASSUME NEW q \in Seq(Job), NEW w \in Seq(Job), NEW c, Queued(q, c) \/ Queued(w, c)
  PROVE  Queued(q \o w, c)
<1>1. /\ Len(q \o w) = Len(q) + Len(w) /\ Len(q) \in Nat /\ Len(w) \in Nat
      /\ \A i \in 1 .. Len(q \o w) : (q \o w)[i] = IF i <= Len(q) THEN q[i] ELSE w[i - Len(q)]
  OBVIOUS
<1>2. ASSUME NEW i \in 1 .. Len(q), q[i].call = c PROVE Queued(q \o w, c)
  <2>1. i \in 1 .. Len(q \o w) /\ (q \o w)[i] = q[i] BY <1>1
  <2> QED BY <1>2, <2>1 DEF Queued
<1>3. ASSUME NEW i \in 1 .. Len(w), w[i].call = c PROVE Queued(q \o w, c)
  <2>1. i + Len(q) \in 1 .. Len(q \o w) /\ (q \o w)[i + Len(q)] = w[i] BY <1>1
  <2> QED BY <1>3, <2>1 DEF Queued
<1> QED BY <1>2, <1>3 DEF Queued

LEMMA QueuedLast ==
  ASSUME NEW q \in Seq(Job), NEW x \in Job
  PROVE  /\ Queued(q \o <<x>>, x.call)
         /\ \A c : Queued(q, c) => Queued(q \o <<x>>, c)
<1>1. <<x>> \in Seq(Job) /\ Queued(<<x>>, x.call)
  <2>1. 1 \in 1 .. Len(<<x>>) /\ <<x>>[1] = x OBVIOUS
  <2> QED BY <2>1 DEF Queued
<1> QED BY <1>1, QueuedBehind

LEMMA WaitingLast ==
  ASSUME NEW w \in Seq(Call), NEW c \in Call, NEW d
  PROVE  Waiting(Append(w, c), d) <=> Waiting(w, d) \/ d = c
<1>1. /\ Len(Append(w, c)) = Len(w) + 1 /\ Len(w) \in Nat
      /\ \A j \in 1 .. Len(w) : Append(w, c)[j] = w[j]
      /\ Append(w, c)[Len(w) + 1] = c
  OBVIOUS
<1>2. \A j \in 1 .. (Len(w) + 1) : j \in 1 .. Len(w) \/ j = Len(w) + 1 BY <1>1
<1>3. Len(w) + 1 \in 1 .. (Len(w) + 1) /\ \A j \in 1 .. Len(w) : j \in 1 .. (Len(w) + 1) BY <1>1
<1> HIDE DEF Waiting
<1>4. Waiting(Append(w, c), d) => Waiting(w, d) \/ d = c BY <1>1, <1>2 DEF Waiting
<1>5. Waiting(w, d) => Waiting(Append(w, c), d) BY <1>1, <1>3 DEF Waiting
<1>6. d = c => Waiting(Append(w, c), d) BY <1>1, <1>3 DEF Waiting
<1> QED BY <1>4, <1>5, <1>6

LEMMA WaitingWoken ==
  ASSUME waiters \in Seq(Call), NEW q \in Seq(Job), NEW c,
         Queued(q, c) \/ Waiting(waiters, c)
  PROVE  q \o Woken \in Seq(Job) /\ Queued(q \o Woken, c)
<1>1. DOMAIN waiters = 1 .. Len(waiters) /\ Len(waiters) \in Nat
      /\ \A i \in 1 .. Len(waiters) : waiters[i] \in Call
  BY ElementOfSeq
<1> DEFINE w == Woken
<1>2. w \in Seq(Job) /\ Len(w) = Len(waiters) /\ \A i \in 1 .. Len(w) : w[i].call = waiters[i]
  BY JobsOfWaiters
<1> HIDE DEF w
<1>3. Waiting(waiters, c) => Queued(w, c) BY <1>2 DEF Waiting, Queued
<1>4. q \o w \in Seq(Job) /\ Queued(q \o w, c) BY <1>2, <1>3, QueuedBehind
<1> QED BY <1>4 DEF w

(* What a step leaves of the conditions.                                      *)
LEMMA ConditionStays ==
  ASSUME NEW d \in Call, ~Condition(d), place'[d] = place[d],
         activeWriterOwner' = Nothing => activeWriterOwner = Nothing,
         activeReadWaves' = 0 => activeReadWaves = 0,
         pendingReadWaveWrites' = 0 => pendingReadWaveWrites = 0,
         waitingWriters' = 0 => waitingWriters = 0
  PROVE  ~Condition(d)'
BY DEF Condition

LEMMA OwnedIsBusy ==
  ASSUME activeWriterOwner' # Nothing, NEW d PROVE ~Condition(d)'
BY DEF Condition

LEMMA CountersAreNat ==
  ASSUME BarrierInv
  PROVE  activeReadWaves \in Nat /\ pendingReadWaveWrites \in Nat /\ waitingWriters \in Nat
BY FS_CardinalityType DEF BarrierInv, CountersCount, Counts

(* A call moves and the others go on waiting, or are queued.                  *)
LEMMA WaitMove ==
  ASSUME SInv, WaitInv, NEW c \in Call, NEW to, place' = [place EXCEPT ![c] = to],
         \A d \in Call \ {c} : Queued(jobs, d) \/ Waiting(waiters, d) =>
                                 Queued(jobs', d) \/ Waiting(waiters', d),
         to \in Waits => Queued(jobs', c) \/ Waiting(waiters', c),
         \A d \in Call : Waiting(waiters', d) => ~Condition(d)'
  PROVE  WaitInv'
<1>1. \A d \in Call \ {c} : place'[d] = place[d] BY DEF SInv, ScheduleIsTyped
<1>2. place'[c] = to BY DEF SInv, ScheduleIsTyped
<1>3. ASSUME NEW d \in Call, place'[d] \in Waits
      PROVE  Queued(jobs', d) \/ Waiting(waiters', d)
  <2>1. CASE d = c BY <1>2, <1>3, <2>1
  <2>2. CASE d # c BY <1>1, <1>3, <2>2 DEF WaitInv
  <2> QED BY <2>1, <2>2
<1> QED BY <1>3 DEF WaitInv

LEMMA ReleasedWait ==
  ASSUME SInv, WaitInv, NEW c \in Call, NEW rest \in Seq(Job), Release(c, rest),
         \A d \in Call \ {c} : Queued(jobs, d) => Queued(rest, d)
  PROVE  WaitInv'
<1>1. waiters \in Seq(Call) BY DEF SInv, ScheduleIsTyped
<1> DEFINE q == rest \o Woken
           x == [call |-> c, does |-> "decide"]
<1>2. \A d \in Call \ {c} : Queued(jobs, d) \/ Waiting(waiters, d) =>
        q \in Seq(Job) /\ Queued(q, d)
  BY <1>1, WaitingWoken
<1>3. place' = [place EXCEPT ![c] = "decide"] /\ waiters' = <<>> /\ jobs' = q \o <<x>>
  BY DEF Release, Queue
<1>4. x \in Job BY DEF Job
<1> HIDE DEF q, x
<1>5. \A d \in Call \ {c} : Queued(jobs, d) \/ Waiting(waiters, d) => Queued(jobs', d)
  BY <1>2, <1>3, <1>4, QueuedLast
<1>6. \A d : ~Waiting(waiters', d)
  <2>1. \A j \in 1 .. Len(<<>>) : FALSE OBVIOUS
  <2> QED BY <1>3, <2>1 DEF Waiting
<1>7. "decide" \notin Waits BY DEF Waits
<1> QED BY <1>3, <1>5, <1>6, <1>7, WaitMove

LEMMA WaitingWait ==
  ASSUME SInv, WaitInv, NEW c \in Call, NEW rest \in Seq(Job), NEW w \in Seq(Call),
         NEW to \in Waits, place' = [place EXCEPT ![c] = to], WaitFrom(c, rest, w),
         \A d \in Call \ {c} : Queued(jobs, d) \/ Waiting(waiters, d) =>
                                 Queued(rest, d) \/ Waiting(w, d),
         ~Waiting(w, c),
         \A d \in Call \ {c} : Waiting(w, d) => ~Condition(d)'
  PROVE  WaitInv'
<1> DEFINE x == [call |-> c, does |-> "go"]
<1>1. x \in Job /\ x.call = c BY DEF Job
<1>2. \/ jobs' = rest \o <<x>> /\ waiters' = w
      \/ jobs' = rest /\ waiters' = Append(w, c) /\ ~Condition(c)'
  BY DEF WaitFrom, Queue
<1> HIDE DEF x
<1>3. CASE jobs' = rest \o <<x>> /\ waiters' = w
  <2>1. \A d \in Call \ {c} : Queued(rest, d) => Queued(jobs', d)
    BY <1>1, <1>3, QueuedLast
  <2>2. Queued(jobs', c) BY <1>1, <1>3, QueuedLast
  <2> QED BY <1>3, <2>1, <2>2, WaitMove
<1>4. CASE jobs' = rest /\ waiters' = Append(w, c) /\ ~Condition(c)'
  <2>1. \A d : Waiting(waiters', d) <=> Waiting(w, d) \/ d = c BY <1>4, WaitingLast
  <2> QED BY <1>4, <2>1, WaitMove
<1> QED BY <1>2, <1>3, <1>4

LEMMA AbsentWaits ==
  ASSUME NEW q, NEW w, NEW c, Absent(q, w, c) PROVE ~Waiting(w, c)
BY DEF Absent, Waiting

LEMMA SettledWait ==
  ASSUME SInv, WaitInv, NEW c \in Call, NEW rest, NEW status, Settle(c, rest, status),
         ~Waiting(waiters, c), \A d \in Call \ {c} : Queued(jobs, d) => Queued(rest, d)
  PROVE  WaitInv'
<1>1. /\ place' = [place EXCEPT ![c] = "done"] /\ jobs' = rest /\ waiters' = waiters
      /\ UNCHANGED <<activeReadWaves, pendingReadWaveWrites, waitingWriters, activeWriterOwner>>
  BY DEF Settle, barrier, counters
<1>2. \A d \in Call \ {c} : place'[d] = place[d] BY <1>1 DEF SInv, ScheduleIsTyped
<1>3. ASSUME NEW d \in Call, Waiting(waiters', d) PROVE ~Condition(d)'
  <2>1. d # c /\ ~Condition(d) BY <1>1, <1>3 DEF WaitInv
  <2> QED BY <1>1, <1>2, <2>1, ConditionStays
<1>4. "done" \notin Waits BY DEF Waits
<1> QED BY <1>1, <1>3, <1>4, WaitMove

LEMMA NextWait ==
  ASSUME SInv, BarrierInv, WaitInv, NEW c \in Call, NEW rest \in Seq(Job), NextWriter(c, rest),
         ~Waiting(waiters, c), \A d \in Call \ {c} : Queued(jobs, d) => Queued(rest, d)
  PROVE  WaitInv'
<1>1. CASE turn[c] < Len(Writers[c])
  <2>1. /\ place' = [place EXCEPT ![c] = "waitWriter"] /\ WaitFrom(c, rest, waiters)
        /\ waitingWriters' = waitingWriters + 1
        /\ UNCHANGED <<activeReadWaves, activeWriterOwner, pendingReadWaveWrites>>
    BY <1>1 DEF NextWriter, StartWriter
  <2>2. "waitWriter" \in Waits /\ waiters \in Seq(Call) BY DEF Waits, SInv, ScheduleIsTyped
  <2>3. \A d \in Call \ {c} : place'[d] = place[d] BY <2>1 DEF SInv, ScheduleIsTyped
  <2>4. waitingWriters' # 0 BY <2>1, CountersAreNat
  <2>5. \A d \in Call \ {c} : Waiting(waiters, d) => ~Condition(d)'
    BY <2>1, <2>3, <2>4, ConditionStays DEF WaitInv
  <2> QED BY <2>1, <2>2, <2>5, WaitingWait
<1>2. CASE ~(turn[c] < Len(Writers[c])) BY <1>2, SettledWait DEF NextWriter
<1> QED BY <1>1, <1>2

LEMMA StartWait == ASSUME SInv, BarrierInv, WaitInv, NEW c \in Call, Start(c) PROVE WaitInv'
<1>1. /\ place[c] = "new" /\ jobs \in Seq(Job) /\ waiters \in Seq(Call)
      /\ Once(jobs, waiters, place) /\ place = [d \in Call |-> place[d]]
  BY DEF Start, SInv, ScheduleIsTyped, BarrierInv
<1>2. ~Waiting(waiters, c) BY <1>1, Unlisted, AbsentWaits DEF Waits
<1>3. CASE c \in aborted
  <2>1. Settle(c, jobs, "cancelled") BY <1>3 DEF Start
  <2> QED BY <1>2, <2>1, SettledWait
<1>4. CASE c \notin aborted /\ Readers[c] # {}
  <2>1. /\ place' = [place EXCEPT ![c] = "waitWave"] /\ WaitFrom(c, jobs, waiters)
        /\ UNCHANGED <<activeReadWaves, pendingReadWaveWrites, waitingWriters,
                       activeWriterOwner>>
    BY <1>4 DEF Start, StartWave, counters
  <2>2. "waitWave" \in Waits /\ \A d \in Call \ {c} : place'[d] = place[d]
    BY <1>1, <2>1 DEF Waits
  <2>3. \A d \in Call \ {c} : Waiting(waiters, d) => ~Condition(d)'
    BY <2>1, <2>2, ConditionStays DEF WaitInv
  <2> QED BY <1>1, <1>2, <2>1, <2>2, <2>3, WaitingWait
<1>5. CASE c \notin aborted /\ Readers[c] = {}
  <2>1. NextWriter(c, jobs) BY <1>5 DEF Start
  <2> QED BY <1>1, <1>2, <2>1, NextWait
<1> QED BY <1>3, <1>4, <1>5

(* The first in the queue waits no more, the others stay where they are.      *)
LEMMA HeadWait ==
  ASSUME SInv, BarrierInv, jobs # <<>>
  PROVE  /\ Head(jobs).call \in Call /\ ~Waiting(waiters, Head(jobs).call)
         /\ \A d \in Call \ {Head(jobs).call} : Queued(jobs, d) => Queued(Tail(jobs), d)
BY HeadLine, AbsentWaits, QueuedTail DEF SInv, ScheduleIsTyped

LEMMA DecideWait == ASSUME SInv, BarrierInv, WaitInv, NEW c \in Call, Decide(c) PROVE WaitInv'
<1>1. jobs # <<>> /\ Head(jobs).call = c BY DEF Decide
<1>2. /\ Tail(jobs) \in Seq(Job) /\ ~Waiting(waiters, c)
      /\ \A d \in Call \ {c} : Queued(jobs, d) => Queued(Tail(jobs), d)
  BY <1>1, HeadWait, HeadLine
<1>3. NextWriter(c, Tail(jobs)) \/ \E st : Settle(c, Tail(jobs), st) BY DEF Decide
<1> QED BY <1>2, <1>3, NextWait, SettledWait

LEMMA CheckWait == ASSUME SInv, BarrierInv, WaitInv, Check PROVE WaitInv'
<1> DEFINE c == Head(jobs).call
           x == [call |-> c, does |-> "go"]
<1>1. /\ jobs # <<>>
      /\ UNCHANGED <<place, activeReadWaves, pendingReadWaveWrites, waitingWriters,
                     activeWriterOwner>>
      /\ \/ jobs' = Tail(jobs) \o <<x>> /\ waiters' = waiters
         \/ jobs' = Tail(jobs) /\ waiters' = Append(waiters, c) /\ ~Condition(c)
  BY DEF Check, Queue, counters
<1>2. /\ Tail(jobs) \in Seq(Job) /\ waiters \in Seq(Call) /\ c \in Call /\ ~Waiting(waiters, c)
      /\ \A d \in Call \ {c} : Queued(jobs, d) => Queued(Tail(jobs), d)
  BY <1>1, HeadLine, HeadWait
<1>3. x \in Job /\ x.call = c BY <1>2 DEF Job
<1> HIDE DEF c, x
<1>4. \A d \in Call : Waiting(waiters', d) => ~Condition(d)
  <2>1. \A d \in Call : Waiting(waiters, d) => ~Condition(d) BY DEF WaitInv
  <2>2. CASE waiters' = waiters BY <2>1, <2>2
  <2>3. CASE waiters' = Append(waiters, c) /\ ~Condition(c)
    <3>1. \A d : Waiting(waiters', d) <=> Waiting(waiters, d) \/ d = c
      BY <1>2, <2>3, WaitingLast
    <3> QED BY <2>1, <2>3, <3>1
  <2> QED BY <1>1, <2>2, <2>3
<1>5. \A d \in Call : Queued(jobs, d) \/ Waiting(waiters, d) =>
                        Queued(jobs', d) \/ Waiting(waiters', d)
  <2>1. CASE jobs' = Tail(jobs) \o <<x>> /\ waiters' = waiters
    BY <1>2, <1>3, <2>1, QueuedLast
  <2>2. CASE jobs' = Tail(jobs) /\ waiters' = Append(waiters, c) BY <1>2, <2>2, WaitingLast
  <2> QED BY <1>1, <2>1, <2>2
<1>6. \A d \in Call : ~Condition(d) => ~Condition(d)' BY <1>1, ConditionStays
<1> QED BY <1>1, <1>4, <1>5, <1>6 DEF WaitInv

LEMMA StayWait ==
  ASSUME WaitInv, UNCHANGED <<jobs, barrier, place>> PROVE WaitInv'
BY DEF WaitInv, barrier, counters, Condition

LEMMA EnterWaveWait ==
  ASSUME SInv, BarrierInv, WaitInv, NEW c \in Call, EnterWave(c) PROVE WaitInv'
<1>1. /\ jobs # <<>> /\ Head(jobs).call = c /\ jobs' = Tail(jobs) /\ waiters' = waiters
      /\ activeReadWaves' = activeReadWaves + 1 /\ place' = [place EXCEPT ![c] = "reading"]
      /\ UNCHANGED <<activeWriterOwner, pendingReadWaveWrites, waitingWriters>>
  BY DEF EnterWave, Goes
<1>2. /\ ~Waiting(waiters, c) /\ \A d \in Call \ {c} : Queued(jobs, d) => Queued(Tail(jobs), d)
  BY <1>1, HeadWait
<1>3. activeReadWaves' # 0 BY <1>1, CountersAreNat
<1>4. \A d \in Call \ {c} : place'[d] = place[d] BY <1>1 DEF SInv, ScheduleIsTyped
<1>5. ASSUME NEW d \in Call, Waiting(waiters', d) PROVE ~Condition(d)'
  <2>1. d # c /\ ~Condition(d) BY <1>1, <1>2, <1>5 DEF WaitInv
  <2> QED BY <1>1, <1>3, <1>4, <2>1, ConditionStays
<1>6. "reading" \notin Waits BY DEF Waits
<1> QED BY <1>1, <1>2, <1>5, <1>6, WaitMove

LEMMA EndWaveWait ==
  ASSUME SInv, BarrierInv, WaitInv, NEW c \in Call, EndWave(c) PROVE WaitInv'
<1>1. /\ place' = [place EXCEPT ![c] = "waitPersist"] /\ WaitFrom(c, jobs \o Woken, <<>>)
  BY DEF EndWave
<1>2. jobs \in Seq(Job) /\ waiters \in Seq(Call) BY DEF SInv, ScheduleIsTyped
<1> DEFINE q == jobs \o Woken
<1>3. q \in Seq(Job)
      /\ \A d \in Call : Queued(jobs, d) \/ Waiting(waiters, d) => Queued(q, d)
  <2>1. Once(jobs, waiters, place) BY DEF BarrierInv
  <2> QED BY <1>2, <2>1, WaitingWoken, OnceWoken
<1>4. WaitFrom(c, q, <<>>) BY <1>1
<1> HIDE DEF q
<1>5. <<>> \in Seq(Call) /\ \A d : ~Waiting(<<>>, d)
  <2>1. \A j \in 1 .. Len(<<>>) : FALSE OBVIOUS
  <2> QED BY <2>1 DEF Waiting
<1>6. "waitPersist" \in Waits BY DEF Waits
<1> QED BY <1>1, <1>3, <1>4, <1>5, <1>6, WaitingWait

(* A call that takes the barrier: all conditions are false.                   *)
LEMMA TakenWait ==
  ASSUME SInv, BarrierInv, WaitInv, NEW c \in Call, jobs # <<>>, Head(jobs).call = c,
         NEW to, to \notin Waits, place' = [place EXCEPT ![c] = to],
         jobs' = Tail(jobs), waiters' = waiters, activeWriterOwner' = c
  PROVE  WaitInv'
<1>1. \A d \in Call \ {c} : Queued(jobs, d) => Queued(Tail(jobs), d) BY HeadWait
<1>2. activeWriterOwner' # Nothing BY SchedulerConstants
<1> QED BY <1>1, <1>2, OwnedIsBusy, WaitMove

LEMMA EnterPersistWait ==
  ASSUME SInv, BarrierInv, WaitInv, NEW c \in Call, EnterPersist(c) PROVE WaitInv'
<1>1. /\ jobs # <<>> /\ Head(jobs).call = c /\ jobs' = Tail(jobs) /\ waiters' = waiters
      /\ activeWriterOwner' = c /\ place' = [place EXCEPT ![c] = "persisting"]
  BY DEF EnterPersist, Goes
<1>2. "persisting" \notin Waits BY DEF Waits
<1> QED BY <1>1, <1>2, TakenWait

LEMMA EnterWriterWait ==
  ASSUME SInv, BarrierInv, WaitInv, NEW c \in Call, EnterWriter(c) PROVE WaitInv'
<1>1. jobs # <<>> /\ Head(jobs).call = c BY DEF EnterWriter, Goes
<1>2. CASE c \in aborted
  <2>1. Release(c, Tail(jobs)) BY <1>2 DEF EnterWriter
  <2> QED BY <1>1, <2>1, HeadWait, HeadLine, ReleasedWait
<1>3. CASE c \notin aborted BY <1>1, <1>3, TakenWait DEF EnterWriter, Waits
<1> QED BY <1>2, <1>3

LEMMA WriteWait ==
  ASSUME SInv, BarrierInv, WaitInv, NEW c \in Call, NEW o, Write(c, o) PROVE WaitInv'
<1>1. /\ place[c] = "writing" /\ place' = [place EXCEPT ![c] = "storing"]
      /\ UNCHANGED <<activeReadWaves, pendingReadWaveWrites, waitingWriters, activeWriterOwner,
                     waiters, jobs>>
  BY DEF Write, barrier, counters
<1>2. ~Waiting(waiters, c)
  BY <1>1, Unlisted, AbsentWaits DEF Waits, SInv, ScheduleIsTyped, BarrierInv
<1>3. \A d \in Call \ {c} : place'[d] = place[d] BY <1>1 DEF SInv, ScheduleIsTyped
<1>4. ASSUME NEW d \in Call, Waiting(waiters', d) PROVE ~Condition(d)'
  <2>1. d # c /\ ~Condition(d) BY <1>1, <1>2, <1>4 DEF WaitInv
  <2> QED BY <1>1, <1>3, <2>1, ConditionStays
<1>5. "storing" \notin Waits BY DEF Waits
<1> QED BY <1>1, <1>4, <1>5, WaitMove

(* Whoever waits is queued or has something to wait for: no wake-up is lost   *)
(* (waitUntil and #notify).                                                   *)
THEOREM NoWakeUpIsLost == SchedulerSpec => []WaitInv
<1>1. SchedulerInit => WaitInv
  <2> SUFFICES ASSUME SchedulerInit PROVE WaitInv
    OBVIOUS
  <2>1. \A j \in 1 .. Len(<<>>) : FALSE OBVIOUS
  <2>2. \A d : ~Waiting(waiters, d) BY <2>1 DEF SchedulerInit, Waiting
  <2> QED BY <2>2 DEF SchedulerInit, WaitInv, Waits
<1>2. ASSUME SInv, BarrierInv, WaitInv, [SchedulerNext]_schedulerVars PROVE WaitInv'
  <2>0. jobs \in Seq(Job) BY <1>2 DEF SInv, ScheduleIsTyped
  <2>1. CASE Check BY <1>2, <2>1, CheckWait
  <2>2. ASSUME NEW c \in Call, Start(c) PROVE WaitInv' BY <1>2, <2>2, StartWait
  <2>3. ASSUME NEW c \in Call, Abort(c) PROVE WaitInv' BY <1>2, <2>3, StayWait DEF Abort
  <2>4. ASSUME NEW c \in Call, EnterWave(c) \/ EnterPersist(c) \/ EnterWriter(c) \/ Decide(c)
        PROVE  WaitInv'
    <3>1. CASE EnterPersist(c) BY <1>2, <3>1, EnterPersistWait
    <3> QED BY <1>2, <2>4, <3>1, EnterWaveWait, EnterWriterWait, DecideWait
  <2>5. ASSUME NEW c \in Call, Operations(c) PROVE WaitInv'
    <3>1. ASSUME NEW n \in Node, NEW o \in Outcomes, Read(c, n, o) PROVE WaitInv'
      BY <1>2, <3>1, StayWait DEF Read
    <3>2. CASE EndWave(c) BY <1>2, <3>2, EndWaveWait
    <3>3. ASSUME NEW n \in Node, NEW ok \in {"yes", "no"}, Persist(c, n, ok) PROVE WaitInv'
      BY <1>2, <3>3, StayWait DEF Persist
    <3>4. CASE EndPersist(c) BY <1>2, <2>0, <3>4, ReleasedWait DEF EndPersist
    <3>5. ASSUME NEW o \in Outcomes, Write(c, o) PROVE WaitInv' BY <1>2, <3>5, WriteWait
    <3>6. ASSUME NEW ok \in {"yes", "no"}, Store(c, ok) PROVE WaitInv'
      BY <1>2, <2>0, <3>6, ReleasedWait DEF Store
    <3>7. ASSUME NEW status, Integrate(c, status) PROVE WaitInv'
      BY <1>2, <2>0, <3>7, ReleasedWait DEF Integrate
    <3> QED BY <2>5, <3>1, <3>2, <3>3, <3>4, <3>5, <3>6, <3>7 DEF Operations
  <2>6. CASE UNCHANGED schedulerVars BY <1>2, <2>6, StayWait DEF schedulerVars
  <2> QED BY <1>2, <2>1, <2>2, <2>3, <2>4, <2>5, <2>6 DEF SchedulerNext, Jobs
<1> QED BY <1>1, <1>2, SchedulesProgress, BarrierIsSound, PTL DEF SchedulerSpec

(* The barrier does not come to a stand: when no job is left, whoever waits   *)
(* does so for a call that is reading or at work, and that will wake it.      *)
THEOREM BarrierKeepsGoing == SchedulerSpec => []WaitsHaveACause
<1>1. ASSUME SInv, BarrierInv, WaitInv PROVE WaitsHaveACause
  <2> SUFFICES ASSUME jobs = <<>>, NEW c \in Call, place[c] \in Waits,
                      \A d \in Call : place[d] \notin {"reading"} \cup AtWork
               PROVE  FALSE
    BY DEF WaitsHaveACause
  <2>1. \A i \in 1 .. Len(<<>>) : FALSE OBVIOUS
  <2>2. \A d \in Call : place[d] \in Waits => ~Condition(d)
    BY <1>1, <2>1 DEF WaitInv, Queued
  <2>3. activeWriterOwner = Nothing BY <1>1 DEF BarrierInv, OwnerIsAtWork
  <2>4. activeReadWaves = 0
    <3>1. CallsAt("reading") = {} BY DEF CallsAt
    <3> QED BY <1>1, <3>1, FS_EmptySet DEF BarrierInv, CountersCount, Counts
  <2>5. \A d \in Call : place[d] # "waitPersist" BY <2>2, <2>3, <2>4 DEF Condition, Waits
  <2>6. pendingReadWaveWrites = 0
    <3>1. CallsAt("waitPersist") = {} BY <2>5 DEF CallsAt
    <3> QED BY <1>1, <3>1, FS_EmptySet DEF BarrierInv, CountersCount, Counts
  <2>7. \A d \in Call : place[d] # "waitWriter" BY <2>2, <2>3, <2>4, <2>6 DEF Condition, Waits
  <2>8. waitingWriters = 0
    <3>1. CallsAt("waitWriter") = {} BY <2>7 DEF CallsAt
    <3> QED BY <1>1, <3>1, FS_EmptySet DEF BarrierInv, CountersCount, Counts
  <2> QED BY <2>2, <2>3, <2>4, <2>5, <2>6, <2>7, <2>8 DEF Condition, Waits
<1> QED BY <1>1, NoWakeUpIsLost, SchedulesProgress, BarrierIsSound, PTL
===============================================================================
