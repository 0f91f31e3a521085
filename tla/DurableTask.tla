----------------------------- MODULE DurableTask ------------------------------
(* The files of one durable Build and the calls that change them              *)
(* (packages/core/src/task-lifecycle.ts). A call takes the Task lock, loads   *)
(* the Event history, decides, and then writes one file after the other: the  *)
(* history first, the files that show it next. Any of these writes may fail,  *)
(* and the process may die between two of them, with the lock in place.       *)
(* The history starts where a Build has just been approved; what happens in   *)
(* Plan between a freeze and the approval is the Workflow module's subject.   *)
EXTENDS Naturals, SequencesExt, FiniteSetsExt

CONSTANTS
  Call,        \* invocations of Core
  Key,         \* idempotency keys of client requests
  Content,     \* what the sources of the Context may contain
  Original,    \* their content when the Build was approved
  Tree,        \* what the checkout outside the Task's records may be
  MaxVersion,  \* bound: requests are new up to this version of the Task
  MayBlock,    \* may a resumed dispatch find its Context stale?
  MayTear,     \* may an append leave half a line?
  Nobody, None

ASSUME DurableTaskConstants ==
  /\ Original \in Content
  /\ MaxVersion \in Nat
  /\ MayBlock \in BOOLEAN /\ MayTear \in BOOLEAN
  /\ Nobody \notin Call /\ None \notin Key \cup Tree
  /\ "EARLIER" \notin Key

VARIABLES
  history,    \* events.jsonl
  torn,       \* does events.jsonl hold an incomplete line?
  projection, \* task.json: the version it shows
  manifest,   \* context/implement.jsonl
  baseline,   \* baseline.json, or None
  source,     \* the sources the Context Manifest points at
  tree,       \* the checkout the Baseline is compared with
  lock,       \* the call whose process made the Task lock file, or Nobody
  request,    \* what each key was first used for, or None
  pc, job,    \* where each call is, and the request it carries out
  loaded,     \* the version it loaded
  todo,       \* the writes it has still to make
  fate,       \* what follows them
  granted     \* client requests that were reported to have succeeded

records == <<history, torn, projection, manifest, baseline>>
outside == <<source, tree>>
calls == <<pc, job, loaded, todo, fate>>
vars == <<history, torn, projection, manifest, baseline, source, tree, lock,
          request, pc, job, loaded, todo, fate, granted>>

(* A Context Manifest: the content its entries were hashed at, whether an     *)
(* entry was added since, and the key of the freeze that accepted it.         *)
Manifest == [content : Content, added : BOOLEAN, by : Key \cup {None}]

KeyedOps == {"adopt", "add", "refresh", "freeze", "approve", "redispatch",
             "hold", "unhold"}
Request == [op : KeyedOps, key : Key, expected : Nat, tree : Tree]
ASSUME NoneIsNoRequest ==
  None \notin Request \cup [version : Nat, what : Tree \cup {None}]
Job == Request \cup [op : {"write"}, expected : Nat] \cup [op : {"recover"}]
EventTypes == {"adopted", "added", "refreshed", "frozen", "approved",
               "replanned", "blocked", "held", "resumed"}
(* The key of a client's Event, of the replan a refresh adds to it, or of an  *)
(* Event of the store's own, which it names after the version.                *)
EventKey == Key \X {0, 1}
            \cup {"EARLIER", "CONTEXT-RESUME", "CONTEXT-DRIFT"} \X Nat
Event == [type : EventTypes, key : EventKey, seq : Nat,
          id : Manifest \cup Tree \cup {None}]
Write == [file : {"events"}, value : Event]
         \cup [file : {"projection"}, value : Nat]
         \cup [file : {"manifest"}, value : Manifest]
         \cup [file : {"baseline"}, value : Tree]

Happened(type, key, seq, id) == [type |-> type, key |-> key, seq |-> seq, id |-> id]
Client(r) == <<r.key, 0>>
ReplanOf(r) == <<r.key, 1>>

Places == {"idle", "waiting", "step", "writing", "unlock", "dead"}
TypeOK ==
  /\ history \in Seq(Event) /\ torn \in BOOLEAN
  /\ projection \in Nat
  /\ manifest \in Manifest
  /\ baseline \in Tree \cup {None}
  /\ source \in Content /\ tree \in Tree
  /\ lock \in Call \cup {Nobody}
  /\ request \in [Key -> Request \cup {None}]
  /\ pc \in [Call -> Places]
  /\ job \in [Call -> Job \cup {None}]
  /\ loaded \in [Call -> Nat]
  /\ todo \in [Call -> Seq(Write)]
  /\ fate \in [Call -> {"granted", "failed", "reseal"}]
  /\ granted \subseteq Key

-------------------------------------------------------------------------------
(* What an Event history says.                                                *)

LastOf(h, types) ==
  LET OfType(e) == e.type \in types IN SelectLastInSeq(h, OfType)
KeysOf(h) == {e.key : e \in ToSet(h)}
Accepted(h, key, id) == \E e \in ToSet(h) : e.key = key /\ e.id = id

(* replayWorkflowEvents: sequences without a gap and keys without a repeat.   *)
Replayable(h) ==
  /\ \A i \in DOMAIN h : h[i].seq = i
  /\ \A i, j \in DOMAIN h : h[i].key = h[j].key => i = j

InImplement(h) == h[LastOf(h, {"approved", "replanned"})].type = "approved"
Stop(h) == LET i == LastOf(h, {"blocked", "held", "resumed"}) IN
           IF i = 0 THEN "resumed" ELSE h[i].type
Stopped(h) == Stop(h) # "resumed"
ContextStale(h) == InImplement(h) /\ Stop(h) = "blocked"
Implementing(h) == InImplement(h) /\ ~Stopped(h)
Planning(h) == ~InImplement(h) /\ ~Stopped(h)

(* hasFrozenImplementContext                                                  *)
FrozenAs(h, m) ==
  LET i == LastOf(h, {"added", "refreshed", "frozen"}) IN
  h[i].type = "frozen" /\ h[i].id = m
Adopted(h) == LET i == LastOf(h, {"adopted"}) IN IF i = 0 THEN None ELSE h[i].id
ApprovedContext(h) == h[LastOf(h, {"approved"})].id

(* The Context is what it was frozen as, on disk and in the history.          *)
Fresh == manifest.content = source
Sealed(h) == Fresh /\ FrozenAs(h, manifest)

Approval == [content |-> Original, added |-> FALSE, by |-> None]
Init ==
  /\ history = <<Happened("frozen", <<"EARLIER", 1>>, 1, Approval),
                 Happened("approved", <<"EARLIER", 2>>, 2, Approval)>>
  /\ torn = FALSE
  /\ projection = 2
  /\ manifest = Approval
  /\ baseline = None
  /\ source = Original /\ tree \in Tree
  /\ lock = Nobody
  /\ request = [k \in Key |-> None]
  /\ pc = [c \in Call |-> "idle"]
  /\ job = [c \in Call |-> None]
  /\ loaded = [c \in Call |-> 0]
  /\ todo = [c \in Call |-> <<>>]
  /\ fate = [c \in Call |-> "failed"]
  /\ granted = {}

-------------------------------------------------------------------------------
(* Calls.                                                                     *)

(* A client makes a request, or repeats one under the key it had: because it  *)
(* got no answer, because it was told of a failure, or late, by accident.     *)
Submit(c, r) ==
  /\ pc[c] = "idle"
  /\ request[r.key] = None
  /\ r.expected = Len(history) /\ r.tree = tree
  /\ Len(history) < MaxVersion
  /\ request' = [request EXCEPT ![r.key] = r]
  /\ pc' = [pc EXCEPT ![c] = "waiting"]
  /\ job' = [job EXCEPT ![c] = r]
  /\ UNCHANGED <<records, outside, lock, loaded, todo, fate, granted>>

Retry(c, k) ==
  /\ pc[c] = "idle"
  /\ request[k] # None
  /\ pc' = [pc EXCEPT ![c] = "waiting"]
  /\ job' = [job EXCEPT ![c] = request[k]]
  /\ UNCHANGED <<records, outside, lock, request, loaded, todo, fate, granted>>

(* withDurableTaskWriter and recoverDurableTask carry no key.                 *)
AskWithoutKey(c, r) ==
  /\ pc[c] = "idle"
  /\ pc' = [pc EXCEPT ![c] = "waiting"]
  /\ job' = [job EXCEPT ![c] = r]
  /\ UNCHANGED <<records, outside, lock, request, loaded, todo, fate, granted>>

(* A call that changes nothing: refused, out of patience waiting for the      *)
(* lock, unable to read a file, or told that there is nothing to do.          *)
GiveUp(c) ==
  /\ pc[c] = "waiting"
  /\ pc' = [pc EXCEPT ![c] = "idle"]
  /\ job' = [job EXCEPT ![c] = None]
  /\ UNCHANGED <<records, outside, lock, request, loaded, todo, fate, granted>>

(* Mutants: the lock keeps nobody out; half a line is passed over.            *)
LockedByMany(c, op) ==
  /\ pc[c] = "waiting" /\ job[c] # None /\ job[c].op = op
  /\ lock' = c
  /\ ~torn /\ Replayable(history)
  /\ loaded' = [loaded EXCEPT ![c] = Len(history)]
LockedOverTornLine(c, op) ==
  /\ pc[c] = "waiting" /\ job[c] # None /\ job[c].op = op
  /\ lock = Nobody
  /\ lock' = c
  /\ Replayable(history)
  /\ loaded' = [loaded EXCEPT ![c] = Len(history)]

(* runWithTaskLock and loadTask.                                              *)
Locked(c, op) ==
  /\ pc[c] = "waiting" /\ job[c] # None /\ job[c].op = op
  /\ lock = Nobody
  /\ lock' = c
  /\ ~torn /\ Replayable(history)
  /\ loaded' = [loaded EXCEPT ![c] = Len(history)]

(* The call goes on to write, in this order, and to its fate after that.      *)
Perform(c, writes, end) ==
  /\ pc' = [pc EXCEPT ![c] = IF writes = <<>> THEN "unlock" ELSE "step"]
  /\ todo' = [todo EXCEPT ![c] = writes]
  /\ fate' = [fate EXCEPT ![c] = end]
  /\ UNCHANGED <<records, outside, request, job, granted>>

AppendEvent(e) == [file |-> "events", value |-> e]
Show(v) == [file |-> "projection", value |-> v]
Store(m) == [file |-> "manifest", value |-> m]
Keep(t) == [file |-> "baseline", value |-> t]

(* A request is new at the version it names; accepted before, it is answered  *)
(* with the Event it has.                                                     *)
New(r) == Client(r) \notin KeysOf(history) /\ r.expected = Len(history)
NextVersion == Len(history) + 1
OwnEvent(r, type, id) == Happened(type, Client(r), NextVersion, id)

(* Mutant: baseline.json gets the request instead of the Baseline in it.      *)
AdoptKeepsRequest(c) ==
  LET r == job[c] IN
  /\ Locked(c, "adopt")
  /\ tree = r.tree
  /\ Adopted(history) # r.tree /\ New(r)
  /\ Perform(c, <<AppendEvent(OwnEvent(r, "adopted", r.tree)), Keep(r),
                  Show(NextVersion)>>, "granted")

(* adoptDurableTaskBaselineLocked                                             *)
Adopt(c) ==
  LET r == job[c] IN
  /\ Locked(c, "adopt")
  /\ tree = r.tree
  /\ \/ Adopted(history) = r.tree /\ Perform(c, <<>>, "granted")
     \/ /\ Adopted(history) # r.tree /\ Client(r) \in KeysOf(history)
        /\ Perform(c, <<Keep(r.tree), Show(Len(history))>>, "granted")
     \/ /\ Adopted(history) # r.tree /\ New(r)
        /\ Perform(c, <<AppendEvent(OwnEvent(r, "adopted", r.tree)),
                        Keep(r.tree), Show(NextVersion)>>, "granted")

(* persistContextManifestChange: a repeated change writes the Manifest again, *)
(* and no Projection.                                                         *)
PersistContext(c, r, type, m) ==
  \/ /\ Accepted(history, Client(r), m)
     /\ Perform(c, <<Store(m)>>, "granted")
  \/ /\ New(r)
     /\ Perform(c, <<AppendEvent(OwnEvent(r, type, m)), Store(m), Show(NextVersion)>>,
                "granted")

AddContextEntry(c) ==
  LET r == job[c] IN
  /\ Locked(c, "add")
  /\ ~manifest.added
  /\ PersistContext(c, r, "added", [manifest EXCEPT !.added = TRUE])

FreezeContext(c) ==
  LET r == job[c] IN
  /\ Locked(c, "freeze")
  /\ Fresh
  /\ PersistContext(c, r, "frozen", [manifest EXCEPT !.by = r.key])

(* refreshDurableContextManifestLocked: in Implement a refresh that finds     *)
(* other content than was frozen also takes the Build back to Plan.           *)
RefreshContext(c) ==
  LET r == job[c]
      m == [manifest EXCEPT !.content = source]
      replan == Implementing(history) /\ ~FrozenAs(history, m)
      replanned(seq) == Happened("replanned", ReplanOf(r), seq, None)
  IN
  /\ Locked(c, "refresh")
  /\ \/ /\ ~replan \/ ReplanOf(r) \in KeysOf(history)
        /\ PersistContext(c, r, "refreshed", m)
     \/ /\ replan /\ Accepted(history, Client(r), m)
        /\ ReplanOf(r) \notin KeysOf(history)
        /\ Perform(c, <<AppendEvent(replanned(NextVersion)), Store(m), Show(NextVersion)>>,
                   "granted")
     \/ /\ replan /\ New(r)
        /\ Perform(c, <<AppendEvent(OwnEvent(r, "refreshed", m)),
                        AppendEvent(replanned(NextVersion + 1)),
                        Store(m), Show(NextVersion + 1)>>, "granted")

(* Mutant: the Projection is written before the Event.                        *)
ApproveShowsFirst(c) ==
  LET r == job[c] IN
  /\ Locked(c, "approve")
  /\ \/ Client(r) \in KeysOf(history) /\ Perform(c, <<>>, "granted")
     \/ /\ New(r) /\ Planning(history) /\ Sealed(history)
        /\ Perform(c, <<Show(NextVersion),
                        AppendEvent(OwnEvent(r, "approved", manifest))>>, "granted")

(* decideDurableBuildPlanLocked, for a Plan recorded under the frozen Context *)
Approve(c) ==
  LET r == job[c] IN
  /\ Locked(c, "approve")
  /\ \/ Client(r) \in KeysOf(history) /\ Perform(c, <<>>, "granted")
     \/ /\ New(r) /\ Planning(history) /\ Sealed(history)
        /\ Perform(c, <<AppendEvent(OwnEvent(r, "approved", manifest)), Show(NextVersion)>>,
                   "granted")

(* resumeDurablePhaseExecution of a dispatch that was bound to the approved   *)
(* Context and finds another one: the Task is blocked for a review.           *)
Redispatch(c) ==
  LET r == job[c] IN
  /\ Locked(c, "redispatch")
  /\ MayBlock
  /\ Implementing(history)
  /\ ~(Fresh /\ manifest = ApprovedContext(history))
  /\ Client(r) \notin KeysOf(history)
  /\ Perform(c, <<AppendEvent(OwnEvent(r, "blocked", None)), Show(NextVersion)>>, "granted")

(* resealBuildImplementationAfterContextDrift, in two halves: a Build blocked *)
(* by its Context is resumed first, and its Context then looked at again.     *)
ResumeStale(c, v) ==
  Perform(c, <<AppendEvent(Happened("resumed", <<"CONTEXT-RESUME", v>>, v + 1, None)),
               Show(v + 1)>>, "reseal")
ReplanDrifted(c, v, end) ==
  Perform(c, <<AppendEvent(Happened("replanned", <<"CONTEXT-DRIFT", v>>, v + 1, None)),
               Show(v + 1)>>, end)

(* advanceDurableTaskLocked, to block the Task and to resume it.              *)
Advance(c, op) ==
  LET r == job[c] IN
  /\ Locked(c, op)
  /\ \/ /\ r.expected # Len(history) /\ Client(r) \in KeysOf(history)
        /\ Perform(c, <<>>, "granted")
     \/ /\ r.expected = Len(history) /\ ContextStale(history)
        /\ ResumeStale(c, Len(history))
     \/ /\ r.expected = Len(history) /\ Implementing(history) /\ ~Sealed(history)
        /\ ReplanDrifted(c, Len(history), "failed")
     \/ /\ New(r) /\ ~ContextStale(history)
        /\ Implementing(history) => Sealed(history)
        /\ Stopped(history) = (op = "unhold")
        /\ Perform(c, <<AppendEvent(OwnEvent(r, IF op = "hold" THEN "held"
                                                             ELSE "resumed", None)),
                        Show(NextVersion)>>, "granted")

(* Mutant: recovery trusts a Projection that is there.                        *)
RecoverTrustsProjection(c) ==
  /\ Locked(c, "recover")
  /\ \/ ContextStale(history) /\ ResumeStale(c, Len(history))
     \/ ~ContextStale(history) /\ Perform(c, <<>>, "granted")

(* recoverDurableTaskLocked                                                   *)
Recover(c) ==
  /\ Locked(c, "recover")
  /\ \/ ContextStale(history) /\ ResumeStale(c, Len(history))
     \/ ~ContextStale(history) /\ Perform(c, <<Show(Len(history))>>, "granted")

(* After the first half: the caller goes on with the state it had loaded      *)
(* before it, or with a failure if the Build went back to Plan. Recovery      *)
(* loads the history again after a failure, and only then.                    *)
Resealed(c) ==
  LET v == loaded[c] IN
  /\ pc[c] = "step" /\ todo[c] = <<>>
  /\ \/ /\ ~Sealed(history)
        /\ ReplanDrifted(c, v + 1, IF job[c].op = "recover" THEN "granted" ELSE "failed")
     \/ /\ Sealed(history) /\ job[c].op = "recover"
        /\ Perform(c, <<Show(v)>>, "granted")
     \/ /\ Sealed(history) /\ job[c].op = "unhold"
        /\ Perform(c, <<AppendEvent(Happened("resumed", Client(job[c]), v + 1, None)),
                        Show(v + 1)>>, "granted")
     \/ /\ Sealed(history) /\ job[c].op = "hold"
        /\ Perform(c, <<>>, "failed")
  /\ UNCHANGED <<lock, loaded>>

(* Mutant: the Writer trusts a Baseline that is the checkout's.               *)
StartWriterAnyBaseline(c) ==
  /\ Locked(c, "write")
  /\ job[c].expected = Len(history)
  /\ Implementing(history) /\ Sealed(history)
  /\ baseline # None /\ tree = baseline
  /\ pc' = [pc EXCEPT ![c] = "writing"]
  /\ UNCHANGED <<records, outside, request, job, todo, fate, granted>>

(* withDurableTaskWriterLocked                                                *)
StartWriter(c) ==
  /\ Locked(c, "write")
  /\ job[c].expected = Len(history)
  /\ Implementing(history)
  /\ \/ /\ ~Sealed(history)
        /\ ReplanDrifted(c, Len(history), "failed")
     \/ /\ Sealed(history)
        /\ baseline # None /\ Adopted(history) = baseline /\ tree = baseline
        /\ pc' = [pc EXCEPT ![c] = "writing"]
        /\ UNCHANGED <<records, outside, request, job, todo, fate, granted>>

EndWriter(c) ==
  /\ pc[c] = "writing"
  /\ tree' \in Tree
  /\ pc' = [pc EXCEPT ![c] = "unlock"]
  /\ fate' = [fate EXCEPT ![c] = "granted"]
  /\ UNCHANGED <<records, source, lock, request, job, loaded, todo, granted>>

-------------------------------------------------------------------------------
(* Writing, and what may go wrong.                                            *)

Written(w) ==
  /\ history' = IF w.file = "events" THEN Append(history, w.value) ELSE history
  /\ projection' = IF w.file = "projection" THEN w.value ELSE projection
  /\ manifest' = IF w.file = "manifest" THEN w.value ELSE manifest
  /\ baseline' = IF w.file = "baseline" THEN w.value ELSE baseline
  /\ UNCHANGED torn
Torn(w) ==
  /\ MayTear /\ w.file = "events"
  /\ torn' = TRUE
  /\ UNCHANGED <<history, projection, manifest, baseline>>

DoStep(c) ==
  /\ pc[c] = "step" /\ todo[c] # <<>>
  /\ Written(Head(todo[c]))
  /\ todo' = [todo EXCEPT ![c] = Tail(@)]
  /\ pc' = [pc EXCEPT ![c] =
              IF Len(todo[c]) = 1 /\ fate[c] # "reseal" THEN "unlock" ELSE "step"]
  /\ UNCHANGED <<outside, lock, request, job, loaded, fate, granted>>

(* A write fails, before it did anything, half-way through a line, or with    *)
(* the line in the file. The call fails, unless it is a recovery that finds   *)
(* more in the history than it had loaded.                                    *)
Fault(c) ==
  /\ pc[c] = "step" /\ todo[c] # <<>>
  /\ \/ UNCHANGED records
     \/ Torn(Head(todo[c]))
     \/ Head(todo[c]).file = "events" /\ Written(Head(todo[c]))
  /\ IF job[c].op = "recover" /\ ~torn' /\ Len(history') > loaded[c]
     THEN /\ todo' = [todo EXCEPT ![c] = <<Show(Len(history'))>>]
          /\ fate' = [fate EXCEPT ![c] = "granted"]
          /\ UNCHANGED pc
     ELSE /\ todo' = [todo EXCEPT ![c] = <<>>]
          /\ fate' = [fate EXCEPT ![c] = "failed"]
          /\ pc' = [pc EXCEPT ![c] = "unlock"]
  /\ UNCHANGED <<outside, lock, request, job, loaded, granted>>

Forget(c) ==
  /\ job' = [job EXCEPT ![c] = None]
  /\ loaded' = [loaded EXCEPT ![c] = 0]
  /\ fate' = [fate EXCEPT ![c] = "failed"]

Unlock(c) ==
  /\ pc[c] = "unlock"
  /\ lock' = Nobody
  /\ granted' = IF fate[c] = "granted" /\ job[c].op \in KeyedOps
                THEN granted \cup {job[c].key} ELSE granted
  /\ pc' = [pc EXCEPT ![c] = "idle"]
  /\ Forget(c)
  /\ todo' = todo
  /\ UNCHANGED <<records, outside, request>>

(* The process dies, its lock file stays until somebody removes it by hand.   *)
Crash(c) ==
  /\ pc[c] \in {"step", "writing", "unlock"}
  /\ \/ UNCHANGED records
     \/ todo[c] # <<>> /\ Torn(Head(todo[c]))
  /\ pc' = [pc EXCEPT ![c] = "dead"]
  /\ UNCHANGED <<outside, lock, request, job, loaded, todo, fate, granted>>

RemoveStaleLock(c) ==
  /\ pc[c] = "dead"
  /\ lock' = Nobody
  /\ pc' = [pc EXCEPT ![c] = "idle"]
  /\ Forget(c)
  /\ todo' = [todo EXCEPT ![c] = <<>>]
  /\ UNCHANGED <<records, outside, request, granted>>

(* Nothing under the Task lock keeps the user's own files still.              *)
SourceChanges(x) == source' = x /\ source # x /\ UNCHANGED
  <<records, tree, lock, request, calls, granted>>
TreeChanges(t) == tree' = t /\ tree # t /\ UNCHANGED
  <<records, source, lock, request, calls, granted>>

CallStep(c) ==
  \/ Adopt(c) \/ AddContextEntry(c) \/ FreezeContext(c) \/ RefreshContext(c)
  \/ Approve(c) \/ Redispatch(c) \/ Advance(c, "hold") \/ Advance(c, "unhold")
  \/ Recover(c) \/ Resealed(c) \/ StartWriter(c) \/ EndWriter(c)
  \/ DoStep(c) \/ Unlock(c)

Next ==
  \/ \E c \in Call :
       \/ CallStep(c) \/ GiveUp(c) \/ Fault(c) \/ Crash(c) \/ RemoveStaleLock(c)
       \/ \E op \in KeyedOps, k \in Key :
            Submit(c, [op |-> op, key |-> k, expected |-> Len(history), tree |-> tree])
       \/ \E k \in Key : Retry(c, k)
       \/ AskWithoutKey(c, [op |-> "write", expected |-> Len(history)])
       \/ AskWithoutKey(c, [op |-> "recover"])
  \/ \E x \in Content : SourceChanges(x)
  \/ \E t \in Tree : TreeChanges(t)

Spec == Init /\ [][Next]_vars

-------------------------------------------------------------------------------
(* Properties.                                                                *)

(* A Writer runs only for a Build in Implement, on a replayable history, with *)
(* the Context and the Baseline on disk that the history accepted last: no    *)
(* interrupted or repeated call leaves them looking right when they are not.  *)
WriterIsSealed ==
  \A c \in Call : pc[c] = "writing" =>
    /\ ~torn /\ Replayable(history)
    /\ Implementing(history)
    /\ FrozenAs(history, manifest)
    /\ Adopted(history) = baseline

(* task.json never shows a version the history does not have: whatever        *)
(* fails, the Event is durable before the Projection moves.                   *)
ProjectionFollowsHistory == projection <= Len(history)

(* A recovery that succeeds leaves the Projection of the whole history.       *)
RecoveryShowsHistory ==
  \A c \in Call :
    pc[c] = "unlock" /\ fate[c] = "granted" /\ job[c].op = "recover" =>
      projection = Len(history)

(* A history that cannot be replayed, for half a line in it or for a sequence *)
(* that repeats, is not written on, nor are the files that bind to it: what   *)
(* a repair has to restore is never buried under newer Events.                *)
BrokenHistoryStandsStill ==
  [][torn \/ ~Replayable(history) =>
       UNCHANGED <<history, torn, manifest, baseline>>]_vars

(* The ledger of the Task: each key at most once, at the version its request  *)
(* named, never taken back, and no success reported before.                   *)
Entry(e) == [who |-> IF e.key \in Key \X {0} THEN e.key[1] ELSE None,
             what |-> IF e.type = "adopted" THEN e.id ELSE None]
Asked(r) == [version |-> r.expected,
             what |-> IF r.op = "adopt" THEN r.tree ELSE None]
Ledger == INSTANCE TaskLedger WITH
  What <- Tree,
  log <- [i \in DOMAIN history |-> Entry(history[i])],
  asked <- [k \in Key |-> IF request[k] = None THEN None ELSE Asked(request[k])],
  answered <- granted
LedgerSpec == Ledger!Spec

-------------------------------------------------------------------------------
(* What the documents say and the code does not do.                           *)

(* "Sequences start at 1 and increase by one."                                *)
SequencesIncreaseByOne == \A i \in DOMAIN history : history[i].seq = i

(* "baseline.json records the accepted initial state": after an adoption has  *)
(* succeeded, the file holds the Baseline the Task has adopted.               *)
AdoptedBaselineIsOnFile ==
  \A c \in Call :
    pc[c] = "unlock" /\ fate[c] = "granted" /\ job[c].op = "adopt" =>
      baseline = Adopted(history)
================================================================================
