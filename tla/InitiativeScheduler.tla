------------------------ MODULE InitiativeScheduler ---------------------------
(* InitiativeExecutionScheduler and its InitiativeReadWriteBarrier            *)
(* (initiative-scheduler.ts): calls of run and integrate in one process share *)
(* the barrier. JavaScript runs one job at a time: a call that finds its      *)
(* condition true goes on in a job of its own, behind those already queued,   *)
(* and so does one that is woken, first to check and then to go on.           *)
(* Names that InitiativeGraph has too are other ones here, so that one module *)
(* of proofs can extend both.                                                 *)
EXTENDS Naturals, Sequences, FiniteSets

CONSTANTS
  Call,         \* calls of run and integrate
  Integrations, \* those of integrate
  Signalled,    \* those with an AbortSignal
  Node,         \* executions of Tasks
  Readers,      \* the read-only executions of a call of run
  Writers,      \* its other executions, in the order of the frontier
  Nothing

(* The executions of a call. orderedReadyExecutions takes no Task twice, and  *)
(* what comes of an execution is known to its own call only.                  *)
Work(c) == Readers[c] \cup {Writers[c][i] : i \in DOMAIN Writers[c]}
Apart ==
  /\ \A c \in Call : \A i, j \in DOMAIN Writers[c] :
       /\ Writers[c][i] \notin Readers[c]
       /\ Writers[c][i] = Writers[c][j] => i = j
  /\ \A c, d \in Call \ Integrations : c # d => Work(c) \cap Work(d) = {}
ASSUME SchedulerConstants ==
  /\ Integrations \subseteq Call /\ Signalled \subseteq Call
  /\ Readers \in [Call -> SUBSET Node]
  /\ Writers \in [Call -> Seq(Node)]
  /\ \A c \in Integrations : Readers[c] = {} /\ Len(Writers[c]) = 1
  /\ Apart
  /\ Nothing \notin Call \cup {"succeeded", "failed", "cancelled", "yes", "no"}

VARIABLES
  activeReadWaves, activeWriterOwner, pendingReadWaveWrites, waitingWriters,
  waiters,  \* calls that wait, in the order they came
  jobs,     \* the job queue: [call, does]
  place,    \* where a call is
  turn,     \* which of its Writers it is at
  outcome,  \* what the execution of a node came to
  persisted, \* whether that was
  aborted,  \* calls whose signal is aborted
  result    \* what a call returned

counters == <<activeReadWaves, pendingReadWaveWrites, waitingWriters>>
barrier == <<counters, activeWriterOwner, waiters>>
effects == <<outcome, persisted>>
schedulerVars == <<barrier, jobs, place, turn, effects, aborted, result>>

Waits == {"waitWave", "waitPersist", "waitWriter"}
AtWork == {"persisting", "writing", "storing"}  \* as the Writer

SchedulerTypeOK ==
  /\ activeReadWaves = Cardinality({c \in Call : place[c] = "reading"})
  /\ pendingReadWaveWrites = Cardinality({c \in Call : place[c] = "waitPersist"})
  /\ waitingWriters = Cardinality({c \in Call : place[c] = "waitWriter"})
  /\ activeWriterOwner \in {Nothing} \cup {c \in Call : place[c] \in AtWork}
  /\ waiters \in Seq(Call) /\ \A i \in DOMAIN waiters : place[waiters[i]] \in Waits
  /\ jobs \in Seq([call : Call, does : {"check", "go", "decide"}])
  /\ place \in [Call -> Waits \cup AtWork \cup {"new", "reading", "decide", "done"}]
  /\ turn \in [Call -> Nat] /\ \A c \in Call : turn[c] <= Len(Writers[c])
  /\ outcome \in [Node -> {Nothing, "succeeded", "failed", "cancelled"}]
  /\ persisted \in [Node -> {Nothing, "yes", "no"}]
  /\ aborted \subseteq Signalled
  /\ result \in [Call -> {Nothing, "completed", "failed", "cancelled", "waiting",
                          "repair-required"}]

SchedulerInit ==
  /\ activeReadWaves = 0 /\ activeWriterOwner = Nothing
  /\ pendingReadWaveWrites = 0 /\ waitingWriters = 0
  /\ waiters = <<>> /\ jobs = <<>>
  /\ place = [c \in Call |-> "new"] /\ turn = [c \in Call |-> 0]
  /\ outcome = [n \in Node |-> Nothing] /\ persisted = [n \in Node |-> Nothing]
  /\ aborted = {} /\ result = [c \in Call |-> Nothing]

-------------------------------------------------------------------------------
(* The barrier.                                                               *)

Condition(c) ==
  /\ activeWriterOwner = Nothing
  /\ place[c] \in {"waitPersist", "waitWriter"} => activeReadWaves = 0
  /\ place[c] \in {"waitWave", "waitWriter"} => pendingReadWaveWrites = 0
  /\ place[c] = "waitWave" => waitingWriters = 0

Queue(c, does) == <<[call |-> c, does |-> does]>>
Woken == [i \in DOMAIN waiters |-> [call |-> waiters[i], does |-> "check"]]

(* waitUntil, from the counters as they are after the step: the condition is  *)
(* checked at once. q is the queue so far, w who waits already.               *)
WaitFrom(c, q, w) ==
  IF Condition(c)' THEN jobs' = q \o Queue(c, "go") /\ waiters' = w
  ELSE jobs' = q /\ waiters' = Append(w, c)

(* The end of a Writer's turn; rest is the queue. Mutant: nobody is told.     *)
ReleaseUntold(c, rest) ==
  /\ activeWriterOwner' = Nothing
  /\ waiters' = waiters /\ jobs' = rest \o Queue(c, "decide")
  /\ place' = [place EXCEPT ![c] = "decide"]
Release(c, rest) ==
  /\ activeWriterOwner' = Nothing
  /\ waiters' = <<>> /\ jobs' = rest \o Woken \o Queue(c, "decide")
  /\ place' = [place EXCEPT ![c] = "decide"]

(* runReadWave and runWriter, up to their first wait. rest is the queue.      *)
StartWave(c, rest) ==
  /\ place' = [place EXCEPT ![c] = "waitWave"]
  /\ UNCHANGED <<counters, activeWriterOwner, turn>>
  /\ WaitFrom(c, rest, waiters)
StartWriter(c, rest) ==
  /\ place' = [place EXCEPT ![c] = "waitWriter"]
  /\ turn' = [turn EXCEPT ![c] = @ + 1]
  /\ waitingWriters' = waitingWriters + 1
  /\ UNCHANGED <<activeReadWaves, activeWriterOwner, pendingReadWaveWrites>>
  /\ WaitFrom(c, rest, waiters)

Settle(c, rest, status) ==
  /\ place' = [place EXCEPT ![c] = "done"] /\ jobs' = rest
  /\ result' = [result EXCEPT ![c] = status]
  /\ UNCHANGED <<barrier, turn>>

-------------------------------------------------------------------------------
(* run and integrate.                                                         *)

NextWriter(c, rest) ==
  IF turn[c] < Len(Writers[c]) THEN StartWriter(c, rest) /\ UNCHANGED result
  ELSE Settle(c, rest, "completed")

Start(c) ==
  /\ place[c] = "new"
  /\ IF c \in aborted THEN Settle(c, jobs, "cancelled")
     ELSE IF Readers[c] # {} THEN StartWave(c, jobs) /\ UNCHANGED result
     ELSE NextWriter(c, jobs)
  /\ UNCHANGED <<effects, aborted>>

Abort(c) ==
  /\ place[c] # "done" /\ c \in Signalled \ aborted
  /\ aborted' = aborted \cup {c}
  /\ UNCHANGED <<barrier, jobs, place, turn, effects, result>>

(* A waiter checks again.                                                     *)
Check ==
  /\ jobs # <<>> /\ Head(jobs).does = "check"
  /\ LET c == Head(jobs).call
     IN  IF Condition(c) THEN jobs' = Tail(jobs) \o Queue(c, "go") /\ UNCHANGED waiters
         ELSE jobs' = Tail(jobs) /\ waiters' = Append(waiters, c)
  /\ UNCHANGED <<counters, activeWriterOwner, place, turn, effects, aborted, result>>

Goes(c, where) ==
  jobs # <<>> /\ Head(jobs) = [call |-> c, does |-> "go"] /\ place[c] = where

(* The read wave starts: all its executions, unless the call is aborted.      *)
EnterWave(c) ==
  /\ Goes(c, "waitWave") /\ jobs' = Tail(jobs) /\ UNCHANGED waiters
  /\ activeReadWaves' = activeReadWaves + 1
  /\ place' = [place EXCEPT ![c] = "reading"]
  /\ outcome' = [n \in Node |-> IF n \in Readers[c] /\ c \in aborted THEN "cancelled"
                                ELSE outcome[n]]
  /\ UNCHANGED <<activeWriterOwner, pendingReadWaveWrites, waitingWriters, turn,
                 persisted, aborted, result>>

(* The execution of a reader comes to an end; with the last one the wave does *)
(* and its outcomes wait to be persisted.                                     *)
Read(c, n, o) ==
  /\ place[c] = "reading" /\ n \in Readers[c] /\ outcome[n] = Nothing
  /\ outcome' = [outcome EXCEPT ![n] = o]
  /\ UNCHANGED <<barrier, jobs, place, turn, persisted, aborted, result>>
EndWave(c) ==
  /\ place[c] = "reading" /\ \A n \in Readers[c] : outcome[n] # Nothing
  /\ pendingReadWaveWrites' = pendingReadWaveWrites + 1
  /\ activeReadWaves' = activeReadWaves - 1
  /\ place' = [place EXCEPT ![c] = "waitPersist"]
  /\ UNCHANGED <<activeWriterOwner, waitingWriters, turn, effects, aborted, result>>
  /\ WaitFrom(c, jobs \o Woken, <<>>)

EnterPersist(c) ==
  /\ Goes(c, "waitPersist") /\ jobs' = Tail(jobs) /\ UNCHANGED waiters
  /\ pendingReadWaveWrites' = pendingReadWaveWrites - 1
  /\ activeWriterOwner' = c
  /\ place' = [place EXCEPT ![c] = "persisting"]
  /\ UNCHANGED <<activeReadWaves, waitingWriters, turn, effects, aborted, result>>

(* persistReadWave: every outcome is tried.                                   *)
Persist(c, n, ok) ==
  /\ place[c] = "persisting" /\ n \in Readers[c] /\ persisted[n] = Nothing
  /\ persisted' = [persisted EXCEPT ![n] = ok]
  /\ UNCHANGED <<barrier, jobs, place, turn, outcome, aborted, result>>
EndPersist(c) ==
  /\ place[c] = "persisting" /\ \A n \in Readers[c] : persisted[n] # Nothing
  /\ Release(c, jobs)
  /\ UNCHANGED <<counters, turn, effects, aborted, result>>

(* A Writer has its turn, and gives it up at once when the call is aborted.   *)
Mine(c) == Writers[c][turn[c]]
EnterWriter(c) ==
  /\ Goes(c, "waitWriter")
  /\ waitingWriters' = waitingWriters - 1
  /\ IF c \in aborted THEN Release(c, Tail(jobs))
     ELSE /\ activeWriterOwner' = c
          /\ place' = [place EXCEPT ![c] = "writing"]
          /\ jobs' = Tail(jobs) /\ UNCHANGED waiters
  /\ UNCHANGED <<activeReadWaves, pendingReadWaveWrites, turn, effects, aborted, result>>

(* It runs, and what came of it is persisted, under the same turn.            *)
Write(c, o) ==
  /\ place[c] = "writing" /\ c \notin Integrations
  /\ outcome' = [outcome EXCEPT ![Mine(c)] = o]
  /\ place' = [place EXCEPT ![c] = "storing"]
  /\ UNCHANGED <<barrier, jobs, turn, persisted, aborted, result>>
Store(c, ok) ==
  /\ place[c] = "storing"
  /\ persisted' = [persisted EXCEPT ![Mine(c)] = ok]
  /\ Release(c, jobs)
  /\ UNCHANGED <<counters, turn, outcome, aborted, result>>

(* integrate, under its turn: what it finds and runs is InitiativeGraph's.    *)
Integrate(c, status) ==
  /\ place[c] = "writing" /\ c \in Integrations
  /\ result' = [result EXCEPT ![c] = status]
  /\ Release(c, jobs)
  /\ UNCHANGED <<counters, turn, effects, aborted>>

(* What run makes of its wave, or of the Writer whose turn is over.           *)
(* Mutant: the Writers are not looked at.                                     *)
PastReads(c) == Readers[c]
Past(c) == IF turn[c] = 0 THEN Readers[c] ELSE {Mine(c)}
(* Mutant: the outcome of a Writer that could not be persisted is passed over.*)
DecideByOutcome(c) ==
  /\ jobs # <<>> /\ Head(jobs) = [call |-> c, does |-> "decide"]
  /\ IF c \in Integrations THEN
       Settle(c, Tail(jobs), IF result[c] = Nothing THEN "cancelled" ELSE result[c])
     ELSE IF turn[c] = 0 /\ \E n \in Past(c) : persisted[n] = "no"
       THEN Settle(c, Tail(jobs), "failed")
     ELSE IF \E n \in Past(c) : outcome[n] \in {Nothing, "cancelled"}
       THEN Settle(c, Tail(jobs), "cancelled")
     ELSE IF turn[c] = 0 /\ c \in aborted THEN Settle(c, Tail(jobs), "cancelled")
     ELSE IF \E n \in Past(c) : outcome[n] = "failed"
       THEN Settle(c, Tail(jobs), "failed")
     ELSE NextWriter(c, Tail(jobs))
  /\ UNCHANGED <<effects, aborted>>
Decide(c) ==
  /\ jobs # <<>> /\ Head(jobs) = [call |-> c, does |-> "decide"]
  /\ IF c \in Integrations THEN
       Settle(c, Tail(jobs), IF result[c] = Nothing THEN "cancelled" ELSE result[c])
     ELSE IF \E n \in Past(c) : persisted[n] = "no" THEN Settle(c, Tail(jobs), "failed")
     ELSE IF \E n \in Past(c) : outcome[n] \in {Nothing, "cancelled"}
       THEN Settle(c, Tail(jobs), "cancelled")
     ELSE IF turn[c] = 0 /\ c \in aborted THEN Settle(c, Tail(jobs), "cancelled")
     ELSE IF \E n \in Past(c) : outcome[n] = "failed"
       THEN Settle(c, Tail(jobs), "failed")
     ELSE NextWriter(c, Tail(jobs))
  /\ UNCHANGED <<effects, aborted>>

-------------------------------------------------------------------------------
Outcomes == {"succeeded", "failed", "cancelled"}

Jobs == Check \/ \E c \in Call :
          EnterWave(c) \/ EnterPersist(c) \/ EnterWriter(c) \/ Decide(c)
Operations(c) ==
  \/ \E n \in Node, o \in Outcomes : Read(c, n, o)
  \/ EndWave(c)
  \/ \E n \in Node, ok \in {"yes", "no"} : Persist(c, n, ok)
  \/ EndPersist(c)
  \/ \E o \in Outcomes : Write(c, o)
  \/ \E ok \in {"yes", "no"} : Store(c, ok)
  \/ \E status \in {"completed", "failed", "waiting", "repair-required"} :
       Integrate(c, status)

SchedulerNext ==
  \/ \E c \in Call : Start(c) \/ Abort(c) \/ Operations(c)
  \/ Jobs

SchedulerSpec == SchedulerInit /\ [][SchedulerNext]_schedulerVars

(* The event loop runs its jobs, and executions and writes come to an end.    *)
FairSchedulerSpec ==
  /\ SchedulerSpec /\ WF_schedulerVars(Jobs)
  /\ \A c \in Call : WF_schedulerVars(Operations(c))

-------------------------------------------------------------------------------
(* Properties.                                                                *)

(* Whoever may still start does so on persisted successes only: an execution  *)
(* has an outcome only when the reads of its call and the Writers before it  *)
(* succeeded and were persisted.                                              *)
WritersFollowStoredWork ==
  \A c \in Call \ Integrations : \A i \in 1..turn[c] :
    outcome[Writers[c][i]] # Nothing =>
      \A n \in Readers[c] \cup {Writers[c][j] : j \in 1..(i - 1)} :
        outcome[n] = "succeeded" /\ persisted[n] = "yes"

(* What run returns is true: completed only when every execution succeeded    *)
(* and is persisted, failed only for a failure, cancelled only for a          *)
(* cancellation; and nothing that ended is left without an attempt to persist.*)
ResultsAreTrue ==
  \A c \in Call \ Integrations :
    place[c] = "done" =>
      /\ \A n \in Work(c) : outcome[n] # Nothing => persisted[n] # Nothing
      /\ result[c] = "completed" =>
           \A n \in Work(c) : outcome[n] = "succeeded" /\ persisted[n] = "yes"
      /\ result[c] = "failed" =>
           \E n \in Work(c) : outcome[n] = "failed" \/ persisted[n] = "no"
      /\ result[c] = "cancelled" =>
           c \in aborted \/ \E n \in Work(c) : outcome[n] = "cancelled"

(* The barrier does not come to a stand: when no job is left, whoever still   *)
(* waits does so for a call that is reading or at work.                       *)
WaitsHaveACause ==
  jobs = <<>> /\ (\E c \in Call : place[c] \in Waits) =>
    \E d \in Call : place[d] \in {"reading"} \cup AtWork

(* Every call returns: no call waits for ever at the barrier.                 *)
EveryCallReturns ==
  \A c \in Call : (place[c] \notin {"new", "done"}) ~> (place[c] = "done")

(* Violated. "Reader and Writer activity MUST NOT overlap."                   *)
(* (docs/spec/workflow.md:298): one Writer at work at most, and none while a  *)
(* read wave is.                                                              *)
WritersAreAlone ==
  \A c, d \in Call :
    c # d /\ place[c] \in AtWork => place[d] \notin AtWork \cup {"reading"}
===============================================================================
