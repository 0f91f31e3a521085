--------------------------- MODULE InitiativeGraph ---------------------------
(* The Dependency Graph of an Initiative in Integrate and the child Builds it *)
(* is about: what is ready (initiative-readiness.ts), revisions by the user,  *)
(* Repair nodes and their Tasks (initiative-integration.ts and the Initiative *)
(* calls of task-lifecycle.ts), and recovery. The Initiative's calls hold the *)
(* Writer lock, so one at a time is under way; any of its writes may fail,    *)
(* and the process may die. The children are Tasks of their own: commands on  *)
(* them take their own lock only and run beside all of this.                  *)
EXTENDS Naturals, FiniteSets

CONSTANTS
  Task,      \* ids of child Builds
  Planned,   \* the nodes of the first graph
  Edge,      \* the edges a graph may have: [from, to, type]
  Claims,    \* Resource Claims a Repair node may declare
  Declared,  \* those of every other node
  Moves,     \* bound: the changes of status commands make
  MaxVersion,\* bound: graph versions
  None

VARIABLES
  since,     \* the graph version in which a node came in, 0 before
  edges, claims, \* of the accepted graph
  repair,    \* its Repair nodes
  version,   \* its version: what the Event history has last
  file,      \* the version in graph.json
  journal,   \* initiative-repair-operation.json: the graph version and a state
  child,     \* the directory of each Task
  stored,    \* its directory in the archive
  pc, goal,  \* how far the call under way is, and which call it is
  next,      \* the graph it is about to accept
  seen,      \* what the children it has read are on their own
  made,      \* the Repair Tasks it has seen to
  hand       \* the one it is at

graph == <<since, edges, claims, repair, version>>
files == <<file, journal>>
tasks == <<child, stored>>
call == <<pc, goal, next, seen, made, hand>>
vars == <<graph, files, tasks, call>>

Types == {"blocks", "informs", "supersedes"}
Status == {"triage", "working", "stuck", "completed", "archived"}
(* A Task's directory: whether its history is there, and starts as that of a  *)
(* Repair node (with the graph version and the claims it was made for) or     *)
(* as that of another Task; and how far it has come. Its Projection follows   *)
(* the history in the same step (DurableTask has the steps between).          *)
Child == [kind : {"none", "other", "repair"}, version : Nat, claims : Claims,
          status : Status]
Empty == [kind |-> "none", version |-> 0, claims |-> Declared, status |-> "triage"]
Graph == [since : [Task -> Nat], edges : SUBSET Edge, claims : [Task -> Claims],
          repair : SUBSET Task]

ASSUME GraphConstants ==
  /\ Planned \subseteq Task /\ Planned # {}
  /\ \A e \in Edge : e.from \in Task /\ e.to \in Task /\ e.from # e.to
                     /\ e.type \in Types
  /\ Declared \in Claims /\ MaxVersion \in Nat
  /\ Moves \subseteq Task \X (Status \ {"completed", "archived"})
                       \X (Status \ {"triage", "archived"})
  /\ None \notin Child \cup Graph \cup Task

Steps == {"idle", "look", "prepare", "append", "graph", "regraph", "revised",
          "ensure", "load", "create", "events", "resume"}

TypeOK ==
  /\ [since |-> since, edges |-> edges, claims |-> claims, repair |-> repair] \in Graph
  /\ version \in Nat \ {0} /\ file \in 0..version
  /\ journal # None =>
       \/ journal \in [of : 1..(version + 1), state : {"prepared"}]
       \/ journal \in [of : 1..version, state : {"graph-revised", "completed"}]
  /\ child \in [Task -> Child \cup {None}]
  /\ stored \in [Task -> Child \cup {None}]
  /\ pc \in Steps
  /\ goal \in {"inspect", "revise", "integrate", "recover"}
  /\ next \in Graph \cup {None}
  /\ seen \in [Task -> {None, "waiting", "ready", "blocked", "completed"}]
  /\ made \subseteq Task /\ hand \in Task \cup {None}

-------------------------------------------------------------------------------
(* Graphs and readiness.                                                      *)

Nodes == {t \in Task : since[t] # 0}
Accepted == [since |-> since, edges |-> edges, claims |-> claims, repair |-> repair]

(* findCycleTaskId finds none: every set of nodes has one that no edge from   *)
(* the set enters.                                                            *)
Acyclic(nodes, arcs) ==
  \A s \in SUBSET nodes \ {{}} :
    \E t \in s : \A e \in arcs : e.to = t => e.from \notin s

(* validateDependencyGraph.                                                   *)
Valid(g) ==
  LET nodes == {t \in Task : g.since[t] # 0}
  IN  /\ \A e \in g.edges : {e.from, e.to} \subseteq nodes
      /\ \A t \in g.repair : \E e \in g.edges : e.type = "blocks" /\ e.to = t
      /\ Acyclic(nodes, g.edges)

(* loadTask, and readinessForTask of what it loads.                           *)
Loads(dir) == dir # None /\ dir.kind # "none"
Own(task) ==
  IF ~Loads(task) THEN "waiting"
  ELSE CASE task.status \in {"completed", "archived"} -> "completed"
         [] task.status = "stuck" -> "blocked"
         [] task.status = "working" -> "waiting"
         [] task.status = "triage" -> "ready"

Incoming(t) == {e \in edges : e.to = t /\ e.type # "supersedes"}

(* deriveInitiativeReadiness.                                                 *)
(* Mutant: whatever kind of edge, its predecessor has to be completed.        *)
ReadinessByCompletion(read) ==
  LET f[t \in Nodes] ==
        LET own == read[t]
        IN  IF own \in {"completed", "blocked"} THEN own
            ELSE IF \E e \in Incoming(t) : f[e.from] = "blocked" THEN "blocked"
            ELSE IF own = "ready" /\ \A e \in Incoming(t) : f[e.from] = "completed"
                 THEN "ready" ELSE "waiting"
  IN  f
(* Mutant: a block is not handed on.                                          *)
ReadinessByNeighbour(read) ==
  LET f[t \in Nodes] ==
        LET own == read[t]
        IN  IF own \in {"completed", "blocked"} THEN own
            ELSE IF \E e \in Incoming(t) : e.type = "blocks" /\ read[e.from] = "blocked"
                 THEN "blocked"
            ELSE IF own = "ready"
                    /\ \A e \in Incoming(t) : e.type = "blocks" /\ f[e.from] = "completed"
                 THEN "ready" ELSE "waiting"
  IN  f
Readiness(read) ==
  LET f[t \in Nodes] ==
        LET own == read[t]
        IN  IF own \in {"completed", "blocked"} THEN own
            ELSE IF \E e \in Incoming(t) : e.type = "blocks" /\ f[e.from] = "blocked"
                 THEN "blocked"
            ELSE IF own = "ready"
                    /\ \A e \in Incoming(t) : e.type = "blocks" /\ f[e.from] = "completed"
                 THEN "ready" ELSE "waiting"
  IN  f

(* pendingInitiativeIntegrationTaskIds.                                       *)
(* Mutant: a node that was started does not hold integration up.              *)
PendingUnlessStarted(read) ==
  {t \in Nodes : Readiness(read)[t] # "completed" /\ read[t] = "waiting"}
Pending(read) == {t \in Nodes : Readiness(read)[t] # "completed"}

-------------------------------------------------------------------------------
Init ==
  /\ since = [t \in Task |-> IF t \in Planned THEN 1 ELSE 0]
  /\ edges \in SUBSET {e \in Edge : {e.from, e.to} \subseteq Planned}
  /\ Acyclic(Planned, edges)
  /\ claims = [t \in Task |-> Declared]
  /\ repair = {} /\ version = 1 /\ file = 1 /\ journal = None
  /\ child = [t \in Task |-> None] /\ stored = [t \in Task |-> None]
  /\ pc = "idle" /\ goal = "inspect" /\ next = None
  /\ seen = [t \in Task |-> None] /\ made = {} /\ hand = None

Goto(step) == pc' = step
Begin(which, step) ==
  /\ pc = "idle"
  /\ goal' = which /\ Goto(step)
  /\ seen' = [t \in Task |-> None] /\ made' = {} /\ hand' = None

(* What the call knows is of no use any more when it ends.                    *)
End ==
  /\ Goto("idle")
  /\ goal' = "inspect" /\ next' = None
  /\ seen' = [t \in Task |-> None] /\ made' = {} /\ hand' = None

(* A check refuses, a write fails or the process dies.                        *)
Stop ==
  /\ pc # "idle"
  /\ End
  /\ UNCHANGED <<graph, files, tasks>>

-------------------------------------------------------------------------------
(* inspectDurableInitiativeReadiness, and the first part of                   *)
(* createDurableInitiativeRepairs. graph.json must be the accepted graph; the *)
(* children are read one by one, in any order, in their two places.           *)
Inspect ==
  /\ Begin("inspect", "look")
  /\ file = version
  /\ UNCHANGED <<graph, files, tasks, next>>

Look(t) ==
  /\ pc = "look"
  /\ t \in Nodes /\ seen[t] = None
  /\ seen' = [seen EXCEPT ![t] = Own(IF Loads(child[t]) THEN child[t] ELSE stored[t])]
  /\ UNCHANGED <<graph, files, tasks, pc, goal, next, made, hand>>

(* What a scheduler is told to run.                                           *)
Looked == pc = "look" /\ \A t \in Nodes : seen[t] # None
Frontier == {t \in Nodes : Readiness(seen)[t] = "ready"}
Tell ==
  /\ Looked
  /\ End
  /\ UNCHANGED <<graph, files, tasks>>

-------------------------------------------------------------------------------
(* reviseDurableInitiativeGraph, by the user: nodes stay, a Repair mark may   *)
(* go but not come, and graph.json is the accepted graph or missing.          *)
(* Mutant: a Repair node may be taken out.                                    *)
ReviseAway(g) ==
  /\ Begin("revise", "append")
  /\ version < MaxVersion
  /\ file \in {0, version}
  /\ g # Accepted /\ Valid(g)
  /\ g.repair \subseteq repair
  /\ next' = g
  /\ UNCHANGED <<graph, files, tasks>>
Revise(g) ==
  /\ Begin("revise", "append")
  /\ version < MaxVersion
  /\ file \in {0, version}
  /\ g # Accepted /\ Valid(g)
  /\ \A t \in Nodes : g.since[t] = since[t]
  /\ \A t \in Task \ Nodes : g.since[t] \in {0, version + 1}
  /\ g.repair \subseteq repair
  /\ next' = g
  /\ UNCHANGED <<graph, files, tasks>>

(* prepareInitiativeRepairGraph: new nodes with blockers in the graph, when   *)
(* every node is completed.                                                   *)
WithRepairs(repairs, blockers, c) ==
  [since |-> [t \in Task |-> IF t \in repairs THEN version + 1 ELSE since[t]],
   edges |-> edges \cup {[from |-> b, to |-> t, type |-> "blocks"] :
                           b \in blockers, t \in repairs},
   claims |-> [t \in Task |-> IF t \in repairs THEN c ELSE claims[t]],
   repair |-> repair \cup repairs]
Prepare(repairs, blockers, c) ==
  /\ Looked
  /\ version < MaxVersion
  /\ Pending(seen) = {}
  /\ repairs # {} /\ repairs \cap Nodes = {}
  /\ blockers # {} /\ blockers \subseteq Nodes
  /\ next' = WithRepairs(repairs, blockers, c)
  /\ next'.edges \subseteq Edge /\ Valid(next')
  /\ goal' = "integrate" /\ Goto("prepare")
  /\ seen' = [t \in Task |-> None]
  /\ UNCHANGED <<graph, files, tasks, made, hand>>

(* The journal: written, never read. Recovery goes by the accepted graph.     *)
Stage(of, state) ==
  /\ journal' = [of |-> of, state |-> state]
  /\ UNCHANGED <<graph, file, tasks>>
StagePrepared ==
  /\ pc = "prepare"
  /\ Goto("append")
  /\ Stage(version + 1, "prepared")
  /\ UNCHANGED <<goal, next, seen, made, hand>>
StageRevised ==
  /\ pc = "revised"
  /\ Goto("ensure")
  /\ Stage(version, "graph-revised")
  /\ UNCHANGED <<goal, next, seen, made, hand>>

(* persistInitiativeGraphEvent: the Event, then graph.json and task.json.     *)
AppendEvent ==
  /\ pc = "append"
  /\ since' = next.since /\ edges' = next.edges /\ claims' = next.claims
  /\ repair' = next.repair /\ version' = version + 1
  /\ Goto("graph") /\ next' = None
  /\ UNCHANGED <<files, tasks, goal, seen, made, hand>>
WriteGraph ==
  /\ pc \in {"graph", "regraph"}
  /\ file' = version
  /\ IF goal = "revise" \/ (goal = "recover" /\ repair = {}) THEN End
     ELSE Goto("revised") /\ UNCHANGED <<goal, next, seen, made, hand>>
  /\ UNCHANGED <<graph, journal, tasks>>

(* A write after the Event fails: recoverDurableTaskLocked without the Repair *)
(* Tasks is tried at once.                                                    *)
RecoverAtOnce ==
  /\ pc = "graph"
  /\ Goto("regraph")
  /\ UNCHANGED <<graph, files, tasks, goal, next, seen, made, hand>>

(* recoverDurableTask: task.json and graph.json as the history has them.      *)
Recover ==
  /\ Begin("recover", "regraph")
  /\ UNCHANGED <<graph, files, tasks, next>>

-------------------------------------------------------------------------------
(* recoverInitiativeRepairTasks, one Repair node after the other.             *)

(* startInitiativeRepairTask: the Event of the revision that brought the node *)
(* in, with the claims the node has now.                                      *)
CreationOf(t) == [kind |-> "repair", version |-> since[t], claims |-> claims[t],
                  status |-> "triage"]
MadeAs(dir, task) ==
  dir.kind = task.kind /\ dir.version = task.version /\ dir.claims = task.claims

(* The Task's directory is looked for, then the one in the archive, which is  *)
(* only compared.                                                             *)
FindTask(t) ==
  /\ pc = "ensure" /\ t \in repair \ made
  /\ made' = made \cup {t}
  /\ \/ child[t] # None /\ hand' = t /\ Goto("load")
     \/ /\ child[t] = None /\ stored[t] # None
        /\ MadeAs(stored[t], CreationOf(t))
        /\ UNCHANGED <<hand, pc>>
     \/ child[t] = None /\ stored[t] = None /\ hand' = t /\ Goto("create")
  /\ UNCHANGED <<graph, files, tasks, goal, next, seen>>

Return == Goto("ensure") /\ hand' = None

(* A Task that loads must be the node's; its Projection is written again.     *)
LoadTask ==
  /\ pc = "load"
  /\ \/ ~Loads(child[hand]) /\ Goto("create") /\ UNCHANGED hand
     \/ Loads(child[hand]) /\ MadeAs(child[hand], CreationOf(hand)) /\ Return
  /\ UNCHANGED <<graph, files, tasks, goal, next, seen, made>>

(* createDurableTaskLocked under the Task's lock: the directory, the history  *)
(* and the Projection; a directory that is there already must be empty, or a  *)
(* Task just like it, and is filled without the lock                          *)
(* (resumeInterruptedInitiativeRepairTask).                                   *)
CreateTask ==
  /\ pc = "create"
  /\ \/ /\ child[hand] = None
        /\ child' = [child EXCEPT ![hand] = Empty] /\ Goto("events")
        /\ UNCHANGED hand
     \/ child[hand] = Empty /\ Goto("resume") /\ UNCHANGED <<child, hand>>
     \/ child[hand] = CreationOf(hand) /\ Return /\ UNCHANGED child
  /\ UNCHANGED <<graph, files, stored, goal, next, seen, made>>
MakeTask ==
  /\ pc \in {"events", "resume"}
  /\ child' = [child EXCEPT ![hand] = CreationOf(hand)]
  /\ Return
  /\ UNCHANGED <<graph, files, stored, goal, next, seen, made>>

(* Mutant: the operation is completed while Repair Tasks are left.            *)
StageCompletedEarly ==
  /\ pc = "ensure"
  /\ End
  /\ Stage(version, "completed")
StageCompleted ==
  /\ pc = "ensure" /\ repair \subseteq made
  /\ End
  /\ Stage(version, "completed")

Repairing ==
  \/ StagePrepared \/ StageRevised \/ \E t \in Task : FindTask(t)
  \/ LoadTask \/ CreateTask \/ MakeTask
  \/ StageCompleted

-------------------------------------------------------------------------------
(* Commands on the children: a Task is started, advanced, blocked, resumed,   *)
(* completed, archived.                                                       *)
Locked(t) == hand = t /\ pc = "events"

StartTask(t) ==
  /\ child[t] = None
  /\ child' = [child EXCEPT ![t] = [Empty EXCEPT !.kind = "other"]]
  /\ UNCHANGED <<graph, files, stored, call>>
Advance(t, to) ==
  /\ Loads(child[t]) /\ ~Locked(t)
  /\ <<t, child[t].status, to>> \in Moves
  /\ child' = [child EXCEPT ![t].status = to]
  /\ UNCHANGED <<graph, files, stored, call>>
ArchiveTask(t) ==
  /\ Loads(child[t]) /\ child[t].status = "completed"
  /\ stored[t] = None
  /\ stored' = [stored EXCEPT ![t] = [child[t] EXCEPT !.status = "archived"]]
  /\ child' = [child EXCEPT ![t] = None]
  /\ UNCHANGED <<graph, files, call>>

Children ==
  \E t \in Task :
    StartTask(t) \/ ArchiveTask(t) \/ \E to \in Status : Advance(t, to)

Revising ==
  pc = "idle" /\ \E n \in SUBSET Task, es \in SUBSET Edge, r \in SUBSET repair,
     c \in [repair -> Claims] :
    Revise([since |-> [t \in Task |-> IF t \notin n THEN 0
                                      ELSE IF t \in Nodes THEN since[t] ELSE version + 1],
            edges |-> es, repair |-> r,
            claims |-> [t \in Task |-> IF t \in repair THEN c[t] ELSE claims[t]]])

Next ==
  \/ Stop
  \/ Inspect \/ Tell \/ \E t \in Task : Look(t)
  \/ Revising
  \/ Looked /\ \E repairs, blockers \in SUBSET Task, c \in Claims : Prepare(repairs, blockers, c)
  \/ AppendEvent \/ WriteGraph \/ RecoverAtOnce \/ Recover
  \/ Repairing \/ Children

Spec == Init /\ [][Next]_vars

-------------------------------------------------------------------------------
(* Properties.                                                                *)

Finished(t) == stored[t] # None \/ (Loads(child[t]) /\ child[t].status = "completed")

(* Integration follows the work: a Repair node comes in only when every node  *)
(* accepted before it is completed, and none of those is open again. The      *)
(* children are read one by one while commands run on them                    *)
(* (initiative-integration.ts, pendingInitiativeIntegrationTaskIds).          *)
IntegrationFollowsWork ==
  \A t \in repair, b \in Nodes : since[b] < since[t] => Finished(b)

(* The frontier is exact: a node is blocked when, and only when, a chain of   *)
(* blocks edges through nodes not completed leads to it from one that is      *)
(* itself blocked, and it is ready when, and only when, it is ready itself    *)
(* and every edge to it that does not supersede is a blocks edge from a       *)
(* completed node (deriveInitiativeReadiness, by recursion).                  *)
Reached ==
  {t \in Nodes : \A s \in SUBSET Nodes :
     (\A u \in Nodes :
        (\/ seen[u] = "blocked"
         \/ /\ seen[u] # "completed"
            /\ \E e \in edges : e.to = u /\ e.type = "blocks" /\ e.from \in s) => u \in s)
     => t \in s}
FrontierIsExact ==
  Looked =>
    /\ \A t \in Nodes : Readiness(seen)[t] = "blocked" <=> t \in Reached
    /\ Frontier = {t \in Nodes \ Reached :
                     /\ seen[t] = "ready"
                     /\ \A e \in Incoming(t) :
                          e.type = "blocks" /\ seen[e.from] = "completed"}

(* A node that is found ready has no predecessor left to wait for, although   *)
(* the children are read one by one while commands run on them.               *)
NodesWaitForTheirBlockers ==
  Looked => \A t \in Frontier : \A e \in Incoming(t) :
              e.type = "blocks" /\ Finished(e.from)

(* The repair operation is completed when the Tasks are there: each Repair    *)
(* node of the graph version it names has its own Task, active or archived    *)
(* (createDurableInitiativeRepairs and recoverInitiativeRepairTasks).         *)
CompletedMeansDone ==
  journal # None /\ journal.state = "completed" =>
    \A t \in repair : since[t] <= journal.of =>
      \E dir \in {child[t], stored[t]} :
        dir # None /\ dir.kind = "repair" /\ dir.version = since[t]

(* "nodes and Events are kept": an accepted node stays with the version it    *)
(* came in with, and no call gives a Task another first Event.                *)
NodesAndEventsAreKept ==
  [][/\ \A t \in Nodes : since'[t] = since[t]
     /\ \A t \in Task : Loads(child[t]) =>
          \E dir \in {child'[t], stored'[t]} : dir # None /\ MadeAs(dir, child[t])
     /\ \A t \in Task : stored[t] # None => stored'[t] = stored[t]]_vars

(* Violated. Recovery accepts the Tasks it made: the Task of a Repair node    *)
(* starts with the Event recovery would create it with.                       *)
RepairsAreRecognised ==
  \A t \in repair : child[t] # None /\ child[t].kind = "repair" =>
                       MadeAs(child[t], CreationOf(t))
===============================================================================
