-------------------------- MODULE DurableTaskProofs ---------------------------
(* For every set of calls, keys, contents and checkouts, with any write       *)
(* failing and any process dying at any point: a Writer runs only for a       *)
(* sealed Build, the Projection never runs ahead of the history, and a broken *)
(* history is left as it is. Where no dispatch finds its Context stale, a     *)
(* recovery shows the whole history and the store is the ledger of TaskLedger.*)
EXTENDS DurableTask, WellFoundedInduction, TLAPS

-------------------------------------------------------------------------------
(* The inductive invariant.                                                   *)

(* Who is past the Task lock holds it, dead or alive, for a request it has.   *)
Inside(c) == pc[c] \in {"step", "writing", "unlock", "dead"}
LockKeepsOut == \A c \in Call : Inside(c) => lock = c /\ job[c] # None

(* A version waiting to be shown is in a history of n Events, or will be once *)
(* the Events that wait to be written before it are.                          *)
Behind(q, n) ==
  \A i \in DOMAIN q : q[i].file = "projection" =>
    \E k \in 0..(i - 1) :
      /\ \A j \in 1..k : q[j].file = "events"
      /\ q[i].value <= n + k
WritesAreBehind == \A c \in Call : Behind(todo[c], Len(history))

(* A call that is to look at a resumed Build again finds the resume in the    *)
(* history by then: the version it plans from is no more than one behind.     *)
ResumeIsDurable ==
  \A c \in Call : pc[c] = "step" /\ (fate[c] = "reseal" \/ todo[c] = <<>>) =>
    \/ loaded[c] + 1 <= Len(history)
    \/ /\ todo[c] # <<>> /\ Head(todo[c]).file = "events"
       /\ loaded[c] <= Len(history)

IInv ==
  /\ TypeOK
  /\ LockKeepsOut
  /\ WritesAreBehind
  /\ ResumeIsDurable
  /\ WriterIsSealed
  /\ ProjectionFollowsHistory

-------------------------------------------------------------------------------
(* Types of what a call writes.                                               *)

LEMMA JobIsRequest ==
  ASSUME TypeOK, NEW c \in Call, job[c] # None, job[c].op \in KeyedOps
  PROVE  job[c] \in Request
  BY DEF TypeOK, Job, Request, KeyedOps

LEMMA EventTyped ==
  ASSUME NEW type \in EventTypes, NEW key \in EventKey, NEW seq \in Nat,
         NEW id \in Manifest \cup Tree \cup {None}
  PROVE  Happened(type, key, seq, id) \in Event
  BY DEF Happened, Event

LEMMA ClientKeys ==
  ASSUME NEW r \in Request
  PROVE  Client(r) \in EventKey /\ ReplanOf(r) \in EventKey
  BY DEF Client, ReplanOf, Request, EventKey

LEMMA StoreKeys ==
  ASSUME NEW n \in Nat
  PROVE  /\ <<"CONTEXT-RESUME", n>> \in EventKey
         /\ <<"CONTEXT-DRIFT", n>> \in EventKey
  BY DEF EventKey

LEMMA StoreEvents ==
  ASSUME NEW n \in Nat
  PROVE  /\ Happened("resumed", <<"CONTEXT-RESUME", n>>, n + 1, None) \in Event
         /\ Happened("replanned", <<"CONTEXT-DRIFT", n>>, n + 1, None) \in Event
<1>1. n + 1 \in Nat /\ {"resumed", "replanned"} \subseteq EventTypes
  BY DEF EventTypes
<1> QED BY <1>1, StoreKeys, EventTyped

LEMMA WritesTyped ==
  /\ \A e \in Event : AppendEvent(e) \in Write
  /\ \A n \in Nat : Show(n) \in Write
  /\ \A m \in Manifest : Store(m) \in Write
  /\ \A t \in Tree : Keep(t) \in Write
  BY DEF AppendEvent, Show, Store, Keep, Write

-------------------------------------------------------------------------------
(* The sequences of writes that the calls make. Each shows a version last.    *)

LEMMA ShownLast ==
  ASSUME NEW q \in Seq(Write), NEW n \in Nat, NEW k \in Nat, k < Len(q),
         \A j \in 1..k : q[j].file = "events",
         \A i \in 1..Len(q) : q[i].file = "projection" =>
           i = Len(q) /\ q[i].value <= n + k
  PROVE  Behind(q, n)
<1> SUFFICES ASSUME NEW i \in DOMAIN q, q[i].file = "projection"
             PROVE  \E m \in 0..(i - 1) :
                      /\ \A j \in 1..m : q[j].file = "events"
                      /\ q[i].value <= n + m
  BY DEF Behind
<1>1. i = Len(q) /\ q[i].value <= n + k
  OBVIOUS
<1>2. k \in 0..(i - 1)
  BY <1>1
<1> QED BY <1>1, <1>2

LEMMA NoWrites == <<>> \in Seq(Write) /\ \A n \in Nat : Behind(<<>>, n)
  BY DEF Behind

LEMMA ShowOnly ==
  ASSUME NEW n \in Nat, NEW v \in Nat, v <= n
  PROVE  <<Show(v)>> \in Seq(Write) /\ Behind(<<Show(v)>>, n)
<1> DEFINE q == <<Show(v)>>
<1>1. q \in Seq(Write) /\ 0 < Len(q)
  BY WritesTyped
<1>2. \A i \in 1..Len(q) : i = Len(q) /\ q[i].value <= n + 0
  BY DEF Show
<1>3. Behind(q, n)
  <2> HIDE DEF q
  <2> QED BY <1>1, <1>2, ShownLast
<1> QED BY <1>1, <1>3

(* A write to a file that is neither the history nor the Projection.          *)
LEMMA StoreOnly ==
  ASSUME NEW n \in Nat, NEW w \in Write, w.file \notin {"events", "projection"}
  PROVE  <<w>> \in Seq(Write) /\ Behind(<<w>>, n)
  BY DEF Behind

LEMMA StoreAndShow ==
  ASSUME NEW n \in Nat, NEW w \in Write, w.file \notin {"events", "projection"},
         NEW v \in Nat, v <= n
  PROVE  <<w, Show(v)>> \in Seq(Write) /\ Behind(<<w, Show(v)>>, n)
<1> DEFINE q == <<w, Show(v)>>
<1>1. q \in Seq(Write) /\ 0 < Len(q)
  BY WritesTyped
<1>2. \A i \in 1..Len(q) : q[i].file = "projection" =>
        i = Len(q) /\ q[i].value <= n + 0
  BY DEF Show
<1>3. Behind(q, n)
  <2> HIDE DEF q
  <2> QED BY <1>1, <1>2, ShownLast
<1> QED BY <1>1, <1>3

LEMMA AppendAndShow ==
  ASSUME NEW n \in Nat, NEW e \in Event, NEW v \in Nat, v <= n + 1
  PROVE  /\ <<AppendEvent(e), Show(v)>> \in Seq(Write)
         /\ Behind(<<AppendEvent(e), Show(v)>>, n)
<1> DEFINE q == <<AppendEvent(e), Show(v)>>
<1>1. q \in Seq(Write) /\ 1 < Len(q)
  BY WritesTyped
<1>2. /\ \A j \in 1..1 : q[j].file = "events"
      /\ \A i \in 1..Len(q) : q[i].file = "projection" =>
           i = Len(q) /\ q[i].value <= n + 1
  BY DEF Show, AppendEvent
<1>3. Behind(q, n)
  <2> HIDE DEF q
  <2> QED BY <1>1, <1>2, ShownLast
<1> QED BY <1>1, <1>3

LEMMA AppendStoreAndShow ==
  ASSUME NEW n \in Nat, NEW e \in Event, NEW w \in Write,
         w.file \notin {"events", "projection"}, NEW v \in Nat, v <= n + 1
  PROVE  /\ <<AppendEvent(e), w, Show(v)>> \in Seq(Write)
         /\ Behind(<<AppendEvent(e), w, Show(v)>>, n)
<1> DEFINE q == <<AppendEvent(e), w, Show(v)>>
<1>1. q \in Seq(Write) /\ 1 < Len(q)
  BY WritesTyped
<1>2. /\ \A j \in 1..1 : q[j].file = "events"
      /\ \A i \in 1..Len(q) : q[i].file = "projection" =>
           i = Len(q) /\ q[i].value <= n + 1
  BY DEF Show, AppendEvent
<1>3. Behind(q, n)
  <2> HIDE DEF q
  <2> QED BY <1>1, <1>2, ShownLast
<1> QED BY <1>1, <1>3

LEMMA AppendTwiceStoreAndShow ==
  ASSUME NEW n \in Nat, NEW e \in Event, NEW f \in Event, NEW w \in Write,
         w.file \notin {"events", "projection"}, NEW v \in Nat, v <= n + 2
  PROVE  /\ <<AppendEvent(e), AppendEvent(f), w, Show(v)>> \in Seq(Write)
         /\ Behind(<<AppendEvent(e), AppendEvent(f), w, Show(v)>>, n)
<1> DEFINE q == <<AppendEvent(e), AppendEvent(f), w, Show(v)>>
<1>1. q \in Seq(Write) /\ 2 < Len(q)
  BY WritesTyped
<1>2. /\ \A j \in 1..2 : q[j].file = "events"
      /\ \A i \in 1..Len(q) : q[i].file = "projection" =>
           i = Len(q) /\ q[i].value <= n + 2
  BY DEF Show, AppendEvent
<1>3. Behind(q, n)
  <2> HIDE DEF q
  <2> QED BY <1>1, <1>2, ShownLast
<1> QED BY <1>1, <1>3

-------------------------------------------------------------------------------
(* What every step that only plans writes preserves.                          *)

LEMMA PerformKeeps ==
  ASSUME IInv, NEW c \in Call,
         lock \in {Nobody, c}, lock' = c, job[c] # None,
         loaded' \in [Call -> Nat],
         NEW writes \in Seq(Write), Behind(writes, Len(history)),
         NEW end \in {"granted", "failed", "reseal"},
         end = "reseal" => /\ writes # <<>> /\ Head(writes).file = "events"
                           /\ loaded'[c] <= Len(history),
         \A q \in Call \ {c} : loaded'[q] = loaded[q],
         Perform(c, writes, end)
  PROVE  IInv'
<1> USE DurableTaskConstants
<1>1. TypeOK'
  BY DEF IInv, TypeOK, Perform, Places, records, outside
<1>2. \A q \in Call \ {c} : ~Inside(q) /\ pc'[q] = pc[q]
  BY DEF IInv, LockKeepsOut, TypeOK, Perform
<1>3. LockKeepsOut'
  BY <1>2 DEF LockKeepsOut, Inside, Perform
<1>4. WritesAreBehind'
  <2>1. history' = history
    BY DEF Perform, records
  <2>2. \A q \in Call : todo'[q] = IF q = c THEN writes ELSE todo[q]
    BY DEF IInv, TypeOK, Perform
  <2>3. \A q \in Call : Behind(todo'[q], Len(history))
    BY <2>2 DEF IInv, WritesAreBehind
  <2> QED BY <2>1, <2>3 DEF WritesAreBehind, Behind
<1>5. WriterIsSealed'
  <2>1. pc'[c] # "writing"
    BY DEF IInv, TypeOK, Perform
  <2> QED BY <1>2, <2>1 DEF WriterIsSealed, Inside
<1>6. ProjectionFollowsHistory'
  BY DEF IInv, ProjectionFollowsHistory, Perform, records
<1>7. ResumeIsDurable'
  <2>1. pc'[c] = "step" /\ (fate'[c] = "reseal" \/ todo'[c] = <<>>)
          => end = "reseal"
    BY DEF IInv, TypeOK, Perform
  <2>2. todo'[c] = writes /\ history' = history
    BY DEF IInv, TypeOK, Perform, records
  <2>3. \A q \in Call \ {c} : pc'[q] # "step"
    BY <1>2 DEF Inside
  <2> QED BY <2>1, <2>2, <2>3 DEF ResumeIsDurable
<1> QED BY <1>1, <1>3, <1>4, <1>5, <1>6, <1>7 DEF IInv

LEMMA LockedPerforms ==
  ASSUME IInv, NEW c \in Call, NEW op, Locked(c, op),
         NEW writes \in Seq(Write), Behind(writes, Len(history)),
         NEW end \in {"granted", "failed", "reseal"},
         end = "reseal" => writes # <<>> /\ Head(writes).file = "events",
         Perform(c, writes, end)
  PROVE  IInv'
<1>1. /\ lock = Nobody /\ lock' = c /\ job[c] # None
      /\ loaded' \in [Call -> Nat]
      /\ loaded'[c] <= Len(history)
      /\ \A q \in Call \ {c} : loaded'[q] = loaded[q]
  BY DEF Locked, IInv, TypeOK
<1> QED BY <1>1, PerformKeeps

-------------------------------------------------------------------------------
(* The calls that take the Task lock.                                         *)

LEMMA JobsOfLocked ==
  ASSUME IInv, NEW c \in Call, NEW op \in KeyedOps, Locked(c, op)
  PROVE  /\ job[c] \in Request
         /\ job[c].tree \in Tree /\ job[c].key \in Key
         /\ Client(job[c]) \in EventKey /\ ReplanOf(job[c]) \in EventKey
         /\ Len(history) \in Nat /\ NextVersion \in Nat
         /\ NextVersion = Len(history) + 1
<1>1. job[c] \in Request
  BY JobIsRequest DEF IInv, Locked
<1>2. Len(history) \in Nat
  BY DEF IInv, TypeOK
<1> QED BY <1>1, <1>2, ClientKeys DEF Request, NextVersion

LEMMA AdoptKeeps ==
  ASSUME IInv, NEW c \in Call, Adopt(c)
  PROVE  IInv'
<1> DEFINE r == job[c]
<1>1. Locked(c, "adopt") /\ "adopt" \in KeyedOps
  BY DEF Adopt, KeyedOps
<1>2. /\ r.tree \in Tree /\ Client(r) \in EventKey
      /\ Len(history) \in Nat /\ NextVersion \in Nat
      /\ NextVersion = Len(history) + 1
  BY <1>1, JobsOfLocked
<1>3. Keep(r.tree) \in Write /\ Keep(r.tree).file \notin {"events", "projection"}
  BY <1>2, WritesTyped DEF Keep
<1>4. OwnEvent(r, "adopted", r.tree) \in Event
  BY <1>2, EventTyped DEF OwnEvent, EventTypes
<1> HIDE DEF r
<1>5. CASE Perform(c, <<>>, "granted")
  BY <1>1, <1>2, <1>5, NoWrites, LockedPerforms
<1>6. CASE Perform(c, <<Keep(r.tree), Show(Len(history))>>, "granted")
  <2>1. /\ <<Keep(r.tree), Show(Len(history))>> \in Seq(Write)
        /\ Behind(<<Keep(r.tree), Show(Len(history))>>, Len(history))
    BY <1>2, <1>3, StoreAndShow
  <2> QED BY <1>1, <1>6, <2>1, LockedPerforms
<1>7. CASE Perform(c, <<AppendEvent(OwnEvent(r, "adopted", r.tree)),
                        Keep(r.tree), Show(NextVersion)>>, "granted")
  <2> DEFINE q == <<AppendEvent(OwnEvent(r, "adopted", r.tree)),
                    Keep(r.tree), Show(NextVersion)>>
  <2>1. q \in Seq(Write) /\ Behind(q, Len(history))
    BY <1>2, <1>3, <1>4, AppendStoreAndShow
  <2> QED BY <1>1, <1>7, <2>1, LockedPerforms
<1> QED BY <1>5, <1>6, <1>7 DEF Adopt, r

LEMMA PersistContextKeeps ==
  ASSUME IInv, NEW c \in Call, NEW op \in KeyedOps, Locked(c, op),
         NEW type \in {"added", "refreshed", "frozen"}, NEW m \in Manifest,
         PersistContext(c, job[c], type, m)
  PROVE  IInv'
<1> DEFINE e == OwnEvent(job[c], type, m)
           q == <<AppendEvent(e), Store(m), Show(NextVersion)>>
<1>1. /\ Client(job[c]) \in EventKey
      /\ Len(history) \in Nat /\ NextVersion \in Nat
      /\ NextVersion = Len(history) + 1
  BY JobsOfLocked
<1>2. Store(m) \in Write /\ Store(m).file \notin {"events", "projection"}
  BY WritesTyped DEF Store
<1>3. e \in Event
  BY <1>1, EventTyped DEF OwnEvent, EventTypes
<1>4. CASE Perform(c, <<Store(m)>>, "granted")
  <2>1. <<Store(m)>> \in Seq(Write) /\ Behind(<<Store(m)>>, Len(history))
    BY <1>1, <1>2, StoreOnly
  <2> QED BY <1>4, <2>1, LockedPerforms
<1>5. CASE Perform(c, q, "granted")
  <2>1. q \in Seq(Write) /\ Behind(q, Len(history))
    <3> HIDE DEF e
    <3> QED BY <1>1, <1>2, <1>3, AppendStoreAndShow
  <2> HIDE DEF q
  <2> QED BY <1>5, <2>1, LockedPerforms
<1> QED BY <1>4, <1>5 DEF PersistContext

LEMMA ContextKeeps ==
  ASSUME IInv, NEW c \in Call, AddContextEntry(c) \/ FreezeContext(c)
  PROVE  IInv'
<1>0. {"add", "freeze"} \subseteq KeyedOps
  BY DEF KeyedOps
<1>1. CASE AddContextEntry(c)
  <2>1. [manifest EXCEPT !.added = TRUE] \in Manifest
    BY DEF IInv, TypeOK, Manifest
  <2>2. Locked(c, "add")
    BY <1>1 DEF AddContextEntry
  <2> QED BY <1>0, <1>1, <2>1, <2>2, PersistContextKeeps DEF AddContextEntry
<1>2. CASE FreezeContext(c)
  <2>1. Locked(c, "freeze")
    BY <1>2 DEF FreezeContext
  <2>2. job[c].key \in Key
    BY <1>0, <2>1, JobsOfLocked
  <2>3. [manifest EXCEPT !.by = job[c].key] \in Manifest
    BY <2>2 DEF IInv, TypeOK, Manifest
  <2> QED BY <1>0, <1>2, <2>1, <2>3, PersistContextKeeps DEF FreezeContext
<1> QED BY <1>1, <1>2

LEMMA RefreshKeeps ==
  ASSUME IInv, NEW c \in Call, RefreshContext(c)
  PROVE  IInv'
<1> DEFINE r == job[c]
           m == [manifest EXCEPT !.content = source]
           replanned(seq) == Happened("replanned", ReplanOf(r), seq, None)
           e == OwnEvent(r, "refreshed", m)
           q1 == <<AppendEvent(replanned(NextVersion)), Store(m), Show(NextVersion)>>
           q2 == <<AppendEvent(e), AppendEvent(replanned(NextVersion + 1)),
                   Store(m), Show(NextVersion + 1)>>
<1>1. Locked(c, "refresh") /\ "refresh" \in KeyedOps
  BY DEF RefreshContext, KeyedOps
<1>2. /\ Client(r) \in EventKey /\ ReplanOf(r) \in EventKey
      /\ Len(history) \in Nat /\ NextVersion \in Nat
      /\ NextVersion = Len(history) + 1
  BY <1>1, JobsOfLocked
<1>3. m \in Manifest
  BY DEF IInv, TypeOK, Manifest
<1>4. Store(m) \in Write /\ Store(m).file \notin {"events", "projection"}
  <2> HIDE DEF m
  <2> QED BY <1>3, WritesTyped DEF Store
<1>5. /\ e \in Event
      /\ replanned(NextVersion) \in Event /\ replanned(NextVersion + 1) \in Event
  <2> HIDE DEF m
  <2> QED BY <1>2, <1>3, EventTyped DEF OwnEvent, EventTypes
<1>6. CASE PersistContext(c, r, "refreshed", m)
  BY <1>1, <1>3, <1>6, PersistContextKeeps
<1>7. CASE Perform(c, q1, "granted")
  <2>1. q1 \in Seq(Write) /\ Behind(q1, Len(history))
    <3> HIDE DEF m, replanned
    <3> QED BY <1>2, <1>4, <1>5, AppendStoreAndShow
  <2> HIDE DEF q1
  <2> QED BY <1>1, <1>7, <2>1, LockedPerforms
<1>8. CASE Perform(c, q2, "granted")
  <2>1. q2 \in Seq(Write) /\ Behind(q2, Len(history))
    <3> HIDE DEF m, replanned, e
    <3>1. NextVersion + 1 \in Nat /\ NextVersion + 1 <= Len(history) + 2
      BY <1>2
    <3> QED BY <1>2, <1>4, <1>5, <3>1, AppendTwiceStoreAndShow
  <2> HIDE DEF q2
  <2> QED BY <1>1, <1>8, <2>1, LockedPerforms
<1> QED BY <1>6, <1>7, <1>8 DEF RefreshContext

LEMMA AppendPerforms ==
  ASSUME IInv, NEW c \in Call, NEW op, Locked(c, op),
         NEW e \in Event, NEW end \in {"granted", "failed", "reseal"},
         Perform(c, <<AppendEvent(e), Show(NextVersion)>>, end)
  PROVE  IInv'
<1> DEFINE q == <<AppendEvent(e), Show(NextVersion)>>
<1>1. /\ Len(history) \in Nat /\ NextVersion \in Nat
      /\ NextVersion <= Len(history) + 1
  BY DEF IInv, TypeOK, NextVersion
<1>2. q \in Seq(Write) /\ Behind(q, Len(history))
  BY <1>1, AppendAndShow
<1>3. q # <<>> /\ Head(q).file = "events"
  BY DEF AppendEvent
<1> HIDE DEF q
<1> QED BY <1>2, <1>3, LockedPerforms DEF q

LEMMA ApproveKeeps ==
  ASSUME IInv, NEW c \in Call, Approve(c)
  PROVE  IInv'
<1>1. Locked(c, "approve") /\ "approve" \in KeyedOps
  BY DEF Approve, KeyedOps
<1>2. CASE Perform(c, <<>>, "granted")
  BY <1>1, <1>2, JobsOfLocked, NoWrites, LockedPerforms
<1>3. OwnEvent(job[c], "approved", manifest) \in Event
  BY <1>1, JobsOfLocked, EventTyped DEF OwnEvent, EventTypes, IInv, TypeOK
<1> QED BY <1>1, <1>2, <1>3, AppendPerforms DEF Approve

LEMMA RedispatchKeeps ==
  ASSUME IInv, NEW c \in Call, Redispatch(c)
  PROVE  IInv'
<1>1. Locked(c, "redispatch") /\ "redispatch" \in KeyedOps
  BY DEF Redispatch, KeyedOps
<1>2. OwnEvent(job[c], "blocked", None) \in Event
  BY <1>1, JobsOfLocked, EventTyped DEF OwnEvent, EventTypes
<1> QED BY <1>1, <1>2, AppendPerforms DEF Redispatch

LEMMA LockedReseals ==
  ASSUME IInv, NEW c \in Call, NEW op, Locked(c, op),
         NEW end \in {"granted", "failed", "reseal"},
         ResumeStale(c, Len(history)) \/ ReplanDrifted(c, Len(history), end)
  PROVE  IInv'
<1>1. Len(history) \in Nat /\ NextVersion = Len(history) + 1 /\ NextVersion \in Nat
  BY DEF IInv, TypeOK, NextVersion
<1>2. \A n \in Nat :
        /\ Happened("resumed", <<"CONTEXT-RESUME", n>>, n + 1, None) \in Event
        /\ Happened("replanned", <<"CONTEXT-DRIFT", n>>, n + 1, None) \in Event
  BY StoreEvents
<1>3. CASE ResumeStale(c, Len(history))
  BY <1>1, <1>2, <1>3, AppendPerforms DEF ResumeStale
<1>4. CASE ReplanDrifted(c, Len(history), end)
  BY <1>1, <1>2, <1>4, AppendPerforms DEF ReplanDrifted
<1> QED BY <1>3, <1>4

LEMMA AdvanceKeeps ==
  ASSUME IInv, NEW c \in Call, NEW op \in {"hold", "unhold"}, Advance(c, op)
  PROVE  IInv'
<1>1. Locked(c, op) /\ op \in KeyedOps
  BY DEF Advance, KeyedOps
<1>2. CASE Perform(c, <<>>, "granted")
  BY <1>1, <1>2, JobsOfLocked, NoWrites, LockedPerforms
<1>3. CASE ResumeStale(c, Len(history)) \/ ReplanDrifted(c, Len(history), "failed")
  BY <1>1, <1>3, LockedReseals
<1>4. \A type \in EventTypes : OwnEvent(job[c], type, None) \in Event
  BY <1>1, JobsOfLocked, EventTyped DEF OwnEvent
<1>5. (IF op = "hold" THEN "held" ELSE "resumed") \in EventTypes
  BY DEF EventTypes
<1> QED BY <1>1, <1>2, <1>3, <1>4, <1>5, AppendPerforms DEF Advance

LEMMA RecoverKeeps ==
  ASSUME IInv, NEW c \in Call, Recover(c)
  PROVE  IInv'
<1>1. Locked(c, "recover")
  BY DEF Recover
<1>2. CASE ResumeStale(c, Len(history))
  BY <1>1, <1>2, LockedReseals
<1>3. CASE Perform(c, <<Show(Len(history))>>, "granted")
  <2>1. Len(history) \in Nat
    BY DEF IInv, TypeOK
  <2>2. /\ <<Show(Len(history))>> \in Seq(Write)
        /\ Behind(<<Show(Len(history))>>, Len(history))
    BY <2>1, ShowOnly
  <2> QED BY <1>1, <1>3, <2>2, LockedPerforms
<1> QED BY <1>2, <1>3 DEF Recover

(* The second half of a reseal plans from the version it had loaded.          *)
LEMMA ResealedKeeps ==
  ASSUME IInv, NEW c \in Call, Resealed(c)
  PROVE  IInv'
<1> DEFINE v == loaded[c]
<1>1. /\ v \in Nat /\ v + 1 \in Nat /\ v + 1 <= Len(history)
      /\ Len(history) \in Nat
      /\ lock = c /\ lock' = c /\ job[c] # None
      /\ loaded' = loaded /\ loaded \in [Call -> Nat]
  BY DEF IInv, TypeOK, ResumeIsDurable, LockKeepsOut, Inside, Resealed
<1>2. ASSUME NEW writes \in Seq(Write), Behind(writes, Len(history)),
             NEW end \in {"granted", "failed"}, Perform(c, writes, end)
      PROVE  IInv'
  BY <1>1, <1>2, PerformKeeps
<1> HIDE DEF v
<1>3. ASSUME NEW e \in Event, NEW n \in Nat, n <= Len(history) + 1,
             NEW end \in {"granted", "failed"},
             Perform(c, <<AppendEvent(e), Show(n)>>, end)
      PROVE  IInv'
  BY <1>1, <1>2, <1>3, AppendAndShow
<1>4. CASE ReplanDrifted(c, v + 1, IF job[c].op = "recover" THEN "granted" ELSE "failed")
  <2>1. Happened("replanned", <<"CONTEXT-DRIFT", v + 1>>, (v + 1) + 1, None) \in Event
    BY <1>1, StoreEvents
  <2>2. (v + 1) + 1 \in Nat /\ (v + 1) + 1 <= Len(history) + 1
    BY <1>1
  <2> QED BY <1>3, <1>4, <2>1, <2>2 DEF ReplanDrifted
<1>5. CASE Perform(c, <<Show(v)>>, "granted")
  <2>1. <<Show(v)>> \in Seq(Write) /\ Behind(<<Show(v)>>, Len(history))
    BY <1>1, ShowOnly
  <2> QED BY <1>2, <1>5, <2>1
<1>6. CASE /\ job[c].op = "unhold"
           /\ Perform(c, <<AppendEvent(Happened("resumed", Client(job[c]), v + 1, None)),
                           Show(v + 1)>>, "granted")
  <2>1. Client(job[c]) \in EventKey
    BY <1>1, <1>6, JobIsRequest, ClientKeys DEF IInv, KeyedOps
  <2>2. Happened("resumed", Client(job[c]), v + 1, None) \in Event
    <3>1. "resumed" \in EventTypes
      BY DEF EventTypes
    <3> QED BY <1>1, <2>1, <3>1, EventTyped
  <2>3. v + 1 <= Len(history) + 1
    BY <1>1
  <2> QED BY <1>1, <1>3, <1>6, <2>2, <2>3
<1>7. CASE Perform(c, <<>>, "failed")
  BY <1>1, <1>2, <1>7, NoWrites
<1> QED BY <1>4, <1>5, <1>6, <1>7 DEF Resealed, v

-------------------------------------------------------------------------------
(* Steps that leave the files alone.                                          *)

(* What a Writer relies on, of the history and of the files bound to it.      *)
SealedBuild ==
  /\ ~torn /\ Replayable(history)
  /\ Implementing(history)
  /\ FrozenAs(history, manifest)
  /\ Adopted(history) = baseline

LEMMA FilesDecide ==
  ASSUME UNCHANGED records
  PROVE  SealedBuild' = SealedBuild
  BY DEF SealedBuild, records

LEMMA OneInside ==
  ASSUME IInv, NEW c \in Call, Inside(c)
  PROVE  \A q \in Call \ {c} : ~Inside(q)
  BY DEF IInv, LockKeepsOut

LEMMA BehindStays ==
  ASSUME UNCHANGED <<history, todo>>
  PROVE  WritesAreBehind' = WritesAreBehind
  BY DEF WritesAreBehind, Behind

(* Before the lock is taken, and outside the Task's files.                    *)
LEMMA OutsideKeeps ==
  ASSUME IInv, TypeOK', UNCHANGED <<records, lock, loaded, todo, fate>>,
         \A q \in Call : \/ pc'[q] = pc[q] /\ job'[q] = job[q]
                         \/ pc'[q] \in {"idle", "waiting"}
  PROVE  IInv'
<1>1. LockKeepsOut'
  BY DEF IInv, LockKeepsOut, Inside
<1>2. WritesAreBehind'
  BY BehindStays DEF IInv, records
<1>3. ResumeIsDurable'
  BY DEF IInv, ResumeIsDurable, records
<1>4. WriterIsSealed'
  BY FilesDecide DEF IInv, WriterIsSealed, SealedBuild
<1>5. ProjectionFollowsHistory'
  BY DEF IInv, ProjectionFollowsHistory, records
<1> QED BY <1>1, <1>2, <1>3, <1>4, <1>5 DEF IInv

(* The step of a call that has the lock and keeps it, without a write.        *)
LEMMA StartWriterKeeps ==
  ASSUME IInv, NEW c \in Call, StartWriter(c)
  PROVE  IInv'
<1> USE DurableTaskConstants
<1>1. Locked(c, "write")
  BY DEF StartWriter
<1>2. CASE ReplanDrifted(c, Len(history), "failed")
  BY <1>1, <1>2, LockedReseals
<1>3. CASE /\ SealedBuild
           /\ pc' = [pc EXCEPT ![c] = "writing"]
           /\ UNCHANGED <<records, outside, request, job, todo, fate, granted>>
  <2>1. TypeOK'
    BY <1>1, <1>3 DEF IInv, TypeOK, Places, Locked, records, outside
  <2>2. \A q \in Call \ {c} : ~Inside(q) /\ pc'[q] = pc[q]
    BY <1>1, <1>3 DEF IInv, LockKeepsOut, TypeOK, Locked
  <2>3. LockKeepsOut'
    BY <1>1, <1>3, <2>2 DEF LockKeepsOut, Inside, Locked
  <2>4. WritesAreBehind'
    BY <1>3, BehindStays DEF IInv, records
  <2>5. pc'[c] = "writing"
    BY <1>3 DEF IInv, TypeOK
  <2>6. ResumeIsDurable'
    BY <2>2, <2>5 DEF ResumeIsDurable, Inside
  <2>7. WriterIsSealed'
    BY <1>3, FilesDecide DEF WriterIsSealed, SealedBuild
  <2>8. ProjectionFollowsHistory'
    BY <1>3 DEF IInv, ProjectionFollowsHistory, records
  <2> QED BY <2>1, <2>3, <2>4, <2>6, <2>7, <2>8 DEF IInv
<1>4. ~torn /\ Replayable(history) /\ Implementing(history)
  BY DEF StartWriter, Locked
<1>5. CASE /\ Sealed(history) /\ Adopted(history) = baseline
           /\ pc' = [pc EXCEPT ![c] = "writing"]
           /\ UNCHANGED <<records, outside, request, job, todo, fate, granted>>
  BY <1>3, <1>4, <1>5 DEF SealedBuild, Sealed
<1> QED BY <1>2, <1>5 DEF StartWriter

(* A call that has the lock and ends, in one way or another.                  *)
LEMMA LeaveKeeps ==
  ASSUME IInv, NEW c \in Call, Inside(c), TypeOK',
         UNCHANGED <<history, projection>>,
         pc'[c] \in {"idle", "unlock", "dead"},
         pc'[c] = "idle" \/ (lock' = lock /\ job' = job),
         \A q \in Call \ {c} : pc'[q] = pc[q],
         \A q \in Call : todo'[q] \in {todo[q], <<>>}
  PROVE  IInv'
<1>1. \A q \in Call \ {c} : ~Inside(q)
  BY OneInside
<1>2. LockKeepsOut'
  BY <1>1 DEF IInv, LockKeepsOut, Inside
<1>3. WritesAreBehind'
  <2> SUFFICES ASSUME NEW q \in Call PROVE Behind(todo'[q], Len(history))
    BY DEF WritesAreBehind, Behind
  <2>1. Len(history) \in Nat
    BY DEF IInv, TypeOK
  <2> QED BY <2>1, NoWrites DEF IInv, WritesAreBehind
<1>4. ResumeIsDurable' /\ WriterIsSealed'
  BY <1>1 DEF ResumeIsDurable, WriterIsSealed, Inside
<1>5. ProjectionFollowsHistory'
  BY DEF IInv, ProjectionFollowsHistory
<1> QED BY <1>2, <1>3, <1>4, <1>5 DEF IInv

LEMMA TypesOfLeaving ==
  ASSUME IInv, NEW c \in Call,
         EndWriter(c) \/ Unlock(c) \/ Crash(c) \/ RemoveStaleLock(c)
  PROVE  TypeOK'
<1> USE DurableTaskConstants DEF IInv, TypeOK, records, outside
<1>1. CASE EndWriter(c)
  BY <1>1 DEF EndWriter, Places
<1>2. CASE Unlock(c)
  <2>1. granted' \subseteq Key
    <3>1. CASE job[c].op \in KeyedOps
      <4>1. job[c].key \in Key
        BY <1>2, <3>1, JobIsRequest DEF Unlock, LockKeepsOut, Inside, Request
      <4> QED BY <1>2, <4>1 DEF Unlock
    <3>2. CASE job[c].op \notin KeyedOps
      BY <1>2, <3>2 DEF Unlock
    <3> QED BY <3>1, <3>2
  <2> QED BY <1>2, <2>1 DEF Unlock, Forget, Places
<1>3. CASE Crash(c)
  BY <1>3 DEF Crash, Torn, Places
<1>4. CASE RemoveStaleLock(c)
  BY <1>4 DEF RemoveStaleLock, Forget, Places
<1> QED BY <1>1, <1>2, <1>3, <1>4

LEMMA LeavingKeeps ==
  ASSUME IInv, NEW c \in Call,
         EndWriter(c) \/ Unlock(c) \/ Crash(c) \/ RemoveStaleLock(c)
  PROVE  IInv'
<1>1. TypeOK'
  BY TypesOfLeaving
<1>2. Inside(c)
  BY DEF Inside, EndWriter, Unlock, Crash, RemoveStaleLock
<1>3. UNCHANGED <<history, projection>>
  BY DEF EndWriter, Unlock, Crash, Torn, RemoveStaleLock, records
<1>4. /\ pc'[c] \in {"idle", "unlock", "dead"}
      /\ \A q \in Call \ {c} : pc'[q] = pc[q]
  BY DEF EndWriter, Unlock, Crash, RemoveStaleLock, IInv, TypeOK
<1>5. pc'[c] = "idle" \/ (lock' = lock /\ job' = job)
  BY DEF EndWriter, Unlock, Crash, RemoveStaleLock, IInv, TypeOK
<1>6. \A q \in Call : todo'[q] \in {todo[q], <<>>}
  BY DEF EndWriter, Unlock, Crash, RemoveStaleLock, IInv, TypeOK
<1> QED BY <1>1, <1>2, <1>3, <1>4, <1>5, <1>6, LeaveKeeps

-------------------------------------------------------------------------------
(* Writing.                                                                   *)

(* The first of the writes brings the history to where the others expect it.  *)
LEMMA BehindTail ==
  ASSUME NEW q \in Seq(Write), q # <<>>, NEW n \in Nat, NEW k \in Nat,
         Behind(q, n), Head(q).file = "events" => k = n + 1,
         Head(q).file # "events" => k = n
  PROVE  Behind(Tail(q), k)
<1> SUFFICES ASSUME NEW i \in DOMAIN Tail(q), Tail(q)[i].file = "projection"
             PROVE  \E m \in 0..(i - 1) :
                      /\ \A j \in 1..m : Tail(q)[j].file = "events"
                      /\ Tail(q)[i].value <= k + m
  BY DEF Behind
<1>1. /\ Len(q) \in Nat /\ i \in 1..(Len(q) - 1) /\ i + 1 \in DOMAIN q
      /\ \A j \in 1..(Len(q) - 1) : Tail(q)[j] = q[j + 1]
      /\ Head(q) = q[1]
  OBVIOUS
<1>2. q[i + 1].file = "projection" /\ q[i + 1].value \in Nat
  BY <1>1 DEF Write
<1>3. PICK m \in 0..i : /\ \A j \in 1..m : q[j].file = "events"
                        /\ q[i + 1].value <= n + m
  BY <1>1, <1>2 DEF Behind
<1>4. CASE m = 0
  <2>1. n <= k
    OBVIOUS
  <2>2. Tail(q)[i].value <= k + 0
    BY <1>1, <1>2, <1>3, <1>4, <2>1
  <2>3. \A j \in 1..0 : Tail(q)[j].file = "events"
    OBVIOUS
  <2>4. 0 \in 0..(i - 1)
    BY <1>1
  <2> QED BY <2>2, <2>3, <2>4
<1>5. CASE m # 0
  <2>1. k = n + 1
    BY <1>1, <1>3, <1>5
  <2>2. m - 1 \in 0..(i - 1) /\ Tail(q)[i].value <= k + (m - 1)
    BY <1>1, <1>2, <1>3, <1>5, <2>1
  <2>3. \A j \in 1..(m - 1) : Tail(q)[j].file = "events"
    BY <1>1, <1>3, <1>5
  <2> QED BY <2>2, <2>3
<1> QED BY <1>4, <1>5

LEMMA BehindGrows ==
  ASSUME NEW q \in Seq(Write), NEW n \in Nat, NEW k \in Nat, n <= k, Behind(q, n)
  PROVE  Behind(q, k)
<1> SUFFICES ASSUME NEW i \in DOMAIN q, q[i].file = "projection"
             PROVE  \E m \in 0..(i - 1) : /\ \A j \in 1..m : q[j].file = "events"
                                          /\ q[i].value <= k + m
  BY DEF Behind
<1>1. PICK m \in 0..(i - 1) : /\ \A j \in 1..m : q[j].file = "events"
                              /\ q[i].value <= n + m
  BY DEF Behind
<1>2. q[i].value \in Nat
  BY DEF Write
<1>3. q[i].value <= k + m
  BY <1>1, <1>2
<1> QED BY <1>1, <1>3

(* What one write does to the files.                                          *)
LEMMA WrittenTyped ==
  ASSUME IInv, NEW w \in Write, Written(w),
         w.file = "projection" => w.value <= Len(history)
  PROVE  /\ history' \in Seq(Event) /\ torn' \in BOOLEAN /\ projection' \in Nat
         /\ manifest' \in Manifest /\ baseline' \in Tree \cup {None}
         /\ Len(history) \in Nat /\ Len(history') \in Nat
         /\ w.file = "events" => Len(history') = Len(history) + 1
         /\ w.file # "events" => history' = history
         /\ projection' <= Len(history')
<1>1. /\ w.file = "events" => w.value \in Event
      /\ w.file = "projection" => w.value \in Nat
      /\ w.file = "manifest" => w.value \in Manifest
      /\ w.file = "baseline" => w.value \in Tree
  BY DEF Write
<1>2. /\ history \in Seq(Event) /\ torn \in BOOLEAN /\ projection \in Nat
      /\ manifest \in Manifest /\ baseline \in Tree \cup {None}
      /\ projection <= Len(history) /\ Len(history) \in Nat
  BY DEF IInv, TypeOK, ProjectionFollowsHistory
<1>3. /\ projection' \in Nat /\ manifest' \in Manifest
      /\ baseline' \in Tree \cup {None} /\ torn' \in BOOLEAN
  BY <1>1, <1>2 DEF Written
<1>4. CASE w.file = "events"
  <2>1. history' = Append(history, w.value) /\ projection' = projection
    BY <1>4 DEF Written
  <2>2. history' \in Seq(Event) /\ Len(history') = Len(history) + 1
    BY <1>1, <1>2, <1>4, <2>1
  <2> QED BY <1>2, <1>3, <1>4, <2>1, <2>2
<1>5. CASE w.file # "events"
  <2>1. history' = history
    BY <1>5 DEF Written
  <2>2. projection' <= Len(history)
    BY <1>2 DEF Written
  <2> QED BY <1>2, <1>3, <1>5, <2>1, <2>2
<1> QED BY <1>4, <1>5

(* A step of the call inside that leaves it in "step" or in "unlock".         *)
LEMMA WritingKeeps ==
  ASSUME IInv, TypeOK', NEW c \in Call, pc[c] = "step",
         UNCHANGED <<lock, job>>,
         pc'[c] \in {"step", "unlock"},
         \A q \in Call \ {c} : pc'[q] = pc[q] /\ todo'[q] = todo[q],
         Len(history) <= Len(history'),
         Behind(todo'[c], Len(history')),
         pc'[c] = "step" /\ (fate'[c] = "reseal" \/ todo'[c] = <<>>) =>
           loaded'[c] + 1 <= Len(history'),
         projection' <= Len(history')
  PROVE  IInv'
<1>1. Inside(c) /\ \A q \in Call \ {c} : ~Inside(q)
  BY OneInside DEF Inside
<1>2. LockKeepsOut'
  BY <1>1 DEF IInv, LockKeepsOut, Inside
<1>3. WritesAreBehind'
  <2> SUFFICES ASSUME NEW q \in Call PROVE Behind(todo'[q], Len(history'))
    BY DEF WritesAreBehind, Behind
  <2>1. CASE q = c
    BY <2>1
  <2>2. CASE q # c
    <3>1. /\ todo[q] \in Seq(Write) /\ Behind(todo[q], Len(history))
          /\ Len(history) \in Nat /\ Len(history') \in Nat
      BY DEF IInv, TypeOK, WritesAreBehind
    <3> QED BY <2>2, <3>1, BehindGrows
  <2> QED BY <2>1, <2>2
<1>4. ResumeIsDurable' /\ WriterIsSealed'
  BY <1>1 DEF ResumeIsDurable, WriterIsSealed, Inside
<1>5. ProjectionFollowsHistory'
  BY DEF ProjectionFollowsHistory
<1> QED BY <1>2, <1>3, <1>4, <1>5 DEF IInv

(* The next write of a call, and what it may be.                              *)
LEMMA NextWrite ==
  ASSUME IInv, NEW c \in Call, todo[c] # <<>>
  PROVE  /\ todo[c] \in Seq(Write) /\ Behind(todo[c], Len(history))
         /\ Head(todo[c]) \in Write /\ Tail(todo[c]) \in Seq(Write)
         /\ Head(todo[c]).file = "projection" =>
              Head(todo[c]).value <= Len(history)
<1> DEFINE q == todo[c]
<1>1. q \in Seq(Write) /\ Behind(q, Len(history)) /\ Len(history) \in Nat
  BY DEF IInv, TypeOK, WritesAreBehind
<1>2. Head(q) = q[1] /\ 1 \in DOMAIN q /\ q[1] \in Write /\ Tail(q) \in Seq(Write)
  BY <1>1
<1>3. ASSUME q[1].file = "projection" PROVE q[1].value <= Len(history)
  <2>1. \E m \in 0..(1 - 1) : q[1].value <= Len(history) + m
    BY <1>1, <1>2, <1>3 DEF Behind
  <2> QED BY <1>1, <2>1
<1> QED BY <1>1, <1>2, <1>3

LEMMA DoStepKeeps ==
  ASSUME IInv, NEW c \in Call, DoStep(c)
  PROVE  IInv'
<1> DEFINE q == todo[c]
           w == Head(todo[c])
<1>1. /\ pc[c] = "step" /\ q # <<>> /\ Written(w)
      /\ todo' = [todo EXCEPT ![c] = Tail(q)]
      /\ UNCHANGED <<outside, lock, request, job, loaded, fate, granted>>
      /\ pc' = [pc EXCEPT ![c] =
                  IF Len(q) = 1 /\ fate[c] # "reseal" THEN "unlock" ELSE "step"]
  BY DEF DoStep
<1>2. /\ q \in Seq(Write) /\ Behind(q, Len(history)) /\ w \in Write
      /\ Tail(q) \in Seq(Write)
      /\ w.file = "projection" => w.value <= Len(history)
  BY <1>1, NextWrite
<1> HIDE DEF w
<1>3. /\ history' \in Seq(Event) /\ torn' \in BOOLEAN /\ projection' \in Nat
      /\ manifest' \in Manifest /\ baseline' \in Tree \cup {None}
      /\ Len(history) \in Nat /\ Len(history') \in Nat
      /\ w.file = "events" => Len(history') = Len(history) + 1
      /\ w.file # "events" => history' = history
      /\ projection' <= Len(history')
  BY <1>1, <1>2, WrittenTyped
<1>4. TypeOK'
  BY <1>1, <1>2, <1>3 DEF IInv, TypeOK, Places, outside
<1>5. /\ pc'[c] = IF Len(q) = 1 /\ fate[c] # "reseal" THEN "unlock" ELSE "step"
      /\ todo'[c] = Tail(q) /\ loaded'[c] = loaded[c] /\ fate'[c] = fate[c]
      /\ \A p \in Call \ {c} : pc'[p] = pc[p] /\ todo'[p] = todo[p]
  BY <1>1 DEF IInv, TypeOK
<1>6. Behind(todo'[c], Len(history'))
  <2>1. /\ Head(q).file = "events" => Len(history') = Len(history) + 1
        /\ Head(q).file # "events" => Len(history') = Len(history)
    BY <1>3 DEF w
  <2> HIDE DEF q
  <2> QED BY <1>1, <1>2, <1>3, <1>5, <2>1, BehindTail
<1>7. Len(history) <= Len(history')
  BY <1>3
<1>8. ASSUME pc'[c] = "step", fate'[c] = "reseal" \/ todo'[c] = <<>>
      PROVE  loaded'[c] + 1 <= Len(history')
  <2>1. fate[c] = "reseal"
    <3>1. Len(q) = 1 \/ Tail(q) # <<>>
      <4>1. Len(q) \in Nat \ {0}
        BY <1>1, <1>2
      <4>2. Len(Tail(q)) = Len(q) - 1
        BY <1>1, <1>2, <4>1
      <4>3. Len(<<>>) = 0
        OBVIOUS
      <4> HIDE DEF q
      <4> QED BY <4>1, <4>2, <4>3
    <3>2. CASE fate'[c] = "reseal"
      BY <1>5, <3>2
    <3>3. CASE todo'[c] = <<>>
      <4>1. Len(q) = 1
        BY <1>5, <3>1, <3>3
      <4>2. "unlock" # "step"
        OBVIOUS
      <4> HIDE DEF q
      <4> QED BY <1>5, <1>8, <4>1, <4>2
    <3> QED BY <1>8, <3>2, <3>3
  <2>2. \/ loaded[c] + 1 <= Len(history)
        \/ w.file = "events" /\ loaded[c] <= Len(history)
    BY <1>1, <2>1 DEF IInv, ResumeIsDurable, w
  <2>3. loaded[c] \in Nat
    BY DEF IInv, TypeOK
  <2> QED BY <1>3, <1>5, <2>2, <2>3
<1> QED BY <1>1, <1>3, <1>4, <1>5, <1>6, <1>7, <1>8, WritingKeeps

LEMMA FaultKeeps ==
  ASSUME IInv, NEW c \in Call, Fault(c)
  PROVE  IInv'
<1> DEFINE q == todo[c]
           w == Head(todo[c])
<1>1. /\ pc[c] = "step" /\ q # <<>>
      /\ \/ UNCHANGED records
         \/ Torn(w)
         \/ Written(w) /\ w.file = "events"
      /\ UNCHANGED <<outside, lock, request, job, loaded, granted>>
  BY DEF Fault
<1>2. /\ w \in Write
      /\ w.file = "projection" => w.value <= Len(history)
  BY <1>1, NextWrite
<1> HIDE DEF w
<1>3. /\ history' \in Seq(Event) /\ torn' \in BOOLEAN /\ projection' \in Nat
      /\ manifest' \in Manifest /\ baseline' \in Tree \cup {None}
      /\ Len(history) \in Nat /\ Len(history') \in Nat
      /\ Len(history) <= Len(history')
      /\ projection' <= Len(history')
  <2>1. CASE UNCHANGED records \/ Torn(w)
    <3>1. UNCHANGED <<history, projection, manifest, baseline>> /\ torn' \in {torn, TRUE}
      BY <2>1 DEF Torn, records
    <3>2. Len(history) \in Nat /\ projection <= Len(history)
      BY DEF IInv, TypeOK, ProjectionFollowsHistory
    <3>3. Len(history') = Len(history) /\ projection' = projection
      BY <3>1
    <3>4. /\ history \in Seq(Event) /\ torn \in BOOLEAN /\ projection \in Nat
          /\ manifest \in Manifest /\ baseline \in Tree \cup {None}
      BY DEF IInv, TypeOK
    <3>5. Len(history) <= Len(history)
      BY <3>2
    <3> QED BY <3>1, <3>2, <3>3, <3>4, <3>5
  <2>2. CASE Written(w)
    BY <1>2, <2>2, WrittenTyped
  <2> QED BY <1>1, <2>1, <2>2
<1>4. PICK writes \in Seq(Write), end \in {"granted", "failed"} :
        /\ todo' = [todo EXCEPT ![c] = writes]
        /\ fate' = [fate EXCEPT ![c] = end]
        /\ Behind(writes, Len(history'))
        /\ \/ UNCHANGED pc /\ writes # <<>>
           \/ pc' = [pc EXCEPT ![c] = "unlock"]
  <2>1. CASE job[c].op = "recover" /\ ~torn' /\ Len(history') > loaded[c]
    <3>1. /\ todo' = [todo EXCEPT ![c] = <<Show(Len(history'))>>]
          /\ fate' = [fate EXCEPT ![c] = "granted"]
          /\ UNCHANGED pc
      BY <2>1 DEF Fault
    <3>2. /\ <<Show(Len(history'))>> \in Seq(Write)
          /\ Behind(<<Show(Len(history'))>>, Len(history'))
          /\ <<Show(Len(history'))>> # <<>>
      BY <1>3, ShowOnly
    <3> QED BY <3>1, <3>2
  <2>2. CASE ~(job[c].op = "recover" /\ ~torn' /\ Len(history') > loaded[c])
    <3>1. /\ todo' = [todo EXCEPT ![c] = <<>>]
          /\ fate' = [fate EXCEPT ![c] = "failed"]
          /\ pc' = [pc EXCEPT ![c] = "unlock"]
      BY <2>2 DEF Fault
    <3>2. <<>> \in Seq(Write) /\ Behind(<<>>, Len(history'))
      BY <1>3, NoWrites
    <3> QED BY <3>1, <3>2
  <2> QED BY <2>1, <2>2
<1>5. TypeOK'
  BY <1>1, <1>3, <1>4 DEF IInv, TypeOK, Places, outside
<1>6. /\ todo'[c] = writes /\ fate'[c] = end
      /\ pc'[c] = "unlock" \/ (pc'[c] = "step" /\ writes # <<>>)
      /\ \A p \in Call \ {c} : pc'[p] = pc[p] /\ todo'[p] = todo[p]
  BY <1>1, <1>4 DEF IInv, TypeOK
<1> QED BY <1>1, <1>3, <1>4, <1>5, <1>6, WritingKeeps

-------------------------------------------------------------------------------
(* The calls that are not inside, and the user's own files.                   *)

LEMMA SubmitKeeps ==
  ASSUME IInv, NEW c \in Call, NEW op \in KeyedOps, NEW k \in Key,
         Submit(c, [op |-> op, key |-> k, expected |-> Len(history), tree |-> tree])
  PROVE  IInv'
<1> DEFINE r == [op |-> op, key |-> k, expected |-> Len(history), tree |-> tree]
<1>1. r \in Request /\ r \in Job
  BY DEF IInv, TypeOK, Request, Job
<1>2. r.key = k
  OBVIOUS
<1>3. Submit(c, r)
  OBVIOUS
<1> HIDE DEF r
<1>4. TypeOK'
  BY <1>1, <1>2, <1>3 DEF Submit, IInv, TypeOK, Places, records, outside
<1>5. \A q \in Call : \/ pc'[q] = pc[q] /\ job'[q] = job[q]
                      \/ pc'[q] \in {"idle", "waiting"}
  BY <1>3 DEF Submit, IInv, TypeOK
<1> QED BY <1>3, <1>4, <1>5, OutsideKeeps DEF Submit

LEMMA WaitingKeeps ==
  ASSUME IInv, NEW c \in Call, NEW r \in Job \cup {None}, NEW p \in {"idle", "waiting"},
         pc' = [pc EXCEPT ![c] = p], job' = [job EXCEPT ![c] = r],
         UNCHANGED <<records, outside, lock, request, loaded, todo, fate, granted>>
  PROVE  IInv'
<1>1. TypeOK'
  BY DEF IInv, TypeOK, Places, records, outside
<1>2. \A q \in Call : \/ pc'[q] = pc[q] /\ job'[q] = job[q]
                      \/ pc'[q] \in {"idle", "waiting"}
  BY DEF IInv, TypeOK
<1> QED BY <1>1, <1>2, OutsideKeeps

LEMMA AskingKeeps ==
  ASSUME IInv, NEW c \in Call,
         \/ GiveUp(c)
         \/ \E k \in Key : Retry(c, k)
         \/ AskWithoutKey(c, [op |-> "write", expected |-> Len(history)])
         \/ AskWithoutKey(c, [op |-> "recover"])
  PROVE  IInv'
<1>1. CASE GiveUp(c)
  BY <1>1, WaitingKeeps DEF GiveUp
<1>2. ASSUME NEW k \in Key, Retry(c, k) PROVE IInv'
  <2>1. request[k] \in Job
    BY <1>2 DEF Retry, IInv, TypeOK, Job
  <2> QED BY <1>2, <2>1, WaitingKeeps DEF Retry
<1>3. ASSUME NEW r \in Job, AskWithoutKey(c, r) PROVE IInv'
  BY <1>3, WaitingKeeps DEF AskWithoutKey
<1>4. /\ [op |-> "write", expected |-> Len(history)] \in Job
      /\ [op |-> "recover"] \in Job
  BY DEF IInv, TypeOK, Job
<1> QED BY <1>1, <1>2, <1>3, <1>4

LEMMA WorldKeeps ==
  ASSUME IInv, \/ \E x \in Content : SourceChanges(x)
               \/ \E t \in Tree : TreeChanges(t)
  PROVE  IInv'
<1>1. TypeOK'
  BY DEF SourceChanges, TreeChanges, IInv, TypeOK, records, calls
<1>2. UNCHANGED <<records, lock, loaded, todo, fate, pc, job>>
  BY DEF SourceChanges, TreeChanges, calls
<1> QED BY <1>1, <1>2, OutsideKeeps

-------------------------------------------------------------------------------
(* The theorems.                                                              *)

LEMMA InitIsSound == Init => IInv
<1> SUFFICES ASSUME Init PROVE IInv
  OBVIOUS
<1> USE DurableTaskConstants
<1>1. Approval \in Manifest
  BY DEF Approval, Manifest
<1>2. /\ <<"EARLIER", 1>> \in EventKey /\ <<"EARLIER", 2>> \in EventKey
      /\ {"frozen", "approved"} \subseteq EventTypes
  BY DEF EventKey, EventTypes
<1>3. /\ Happened("frozen", <<"EARLIER", 1>>, 1, Approval) \in Event
      /\ Happened("approved", <<"EARLIER", 2>>, 2, Approval) \in Event
  BY <1>1, <1>2, EventTyped
<1>4. history \in Seq(Event) /\ Len(history) = 2
  BY <1>3 DEF Init
<1>5. TypeOK
  <2>1. /\ pc \in [Call -> Places] /\ job \in [Call -> Job \cup {None}]
        /\ loaded \in [Call -> Nat] /\ todo \in [Call -> Seq(Write)]
        /\ fate \in [Call -> {"granted", "failed", "reseal"}]
    BY NoWrites DEF Init, Places
  <2>2. /\ torn \in BOOLEAN /\ projection \in Nat /\ manifest \in Manifest
        /\ baseline \in Tree \cup {None} /\ source \in Content /\ tree \in Tree
        /\ lock \in Call \cup {Nobody} /\ request \in [Key -> Request \cup {None}]
        /\ granted \subseteq Key
    BY <1>1 DEF Init
  <2> QED BY <1>4, <2>1, <2>2 DEF TypeOK
<1>6. \A c \in Call : pc[c] = "idle" /\ todo[c] = <<>>
  BY DEF Init
<1>7. LockKeepsOut /\ ResumeIsDurable /\ WriterIsSealed
  BY <1>6 DEF LockKeepsOut, Inside, ResumeIsDurable, WriterIsSealed
<1>8. WritesAreBehind
  BY <1>4, <1>6, NoWrites DEF WritesAreBehind
<1>9. ProjectionFollowsHistory
  BY <1>4 DEF Init, ProjectionFollowsHistory
<1> QED BY <1>5, <1>7, <1>8, <1>9 DEF IInv

LEMMA CallStepKeeps ==
  ASSUME IInv, NEW c \in Call, CallStep(c)
  PROVE  IInv'
  BY AdoptKeeps, ContextKeeps, RefreshKeeps, ApproveKeeps, RedispatchKeeps,
     AdvanceKeeps, RecoverKeeps, ResealedKeeps, StartWriterKeeps, LeavingKeeps,
     DoStepKeeps DEF CallStep

LEMMA NextKeeps == IInv /\ [Next]_vars => IInv'
<1> SUFFICES ASSUME IInv, [Next]_vars PROVE IInv'
  OBVIOUS
<1>1. CASE Next
  BY <1>1, CallStepKeeps, SubmitKeeps, AskingKeeps, WorldKeeps, FaultKeeps, LeavingKeeps
     DEF Next
<1>2. CASE UNCHANGED vars
  <2>1. TypeOK'
    BY <1>2 DEF vars, IInv, TypeOK
  <2>2. UNCHANGED <<records, lock, loaded, todo, fate, pc, job>>
    BY <1>2 DEF vars, records
  <2> QED BY <2>1, <2>2, OutsideKeeps
<1> QED BY <1>1, <1>2

(* The inductive invariant holds in every reachable state.                    *)
THEOREM InvariantHolds == Spec => []IInv
  BY InitIsSound, NextKeeps, PTL DEF Spec

(* Every value has its type, whatever is interrupted, retried or repaired.    *)
THEOREM TypeCorrect == Spec => []TypeOK
<1>1. IInv => TypeOK
  BY DEF IInv
<1> QED BY <1>1, InvariantHolds, PTL

(* withDurableTaskWriter: no Writer runs on a history that does not replay,   *)
(* outside Implement, or with a Context or a Baseline on disk other than the  *)
(* one the history accepted last, however earlier calls were cut short.       *)
THEOREM WritersAreSealed == Spec => []WriterIsSealed
<1>1. IInv => WriterIsSealed
  BY DEF IInv
<1> QED BY <1>1, InvariantHolds, PTL

(* saveEvent before saveProjection: task.json never shows a version that      *)
(* events.jsonl does not have, even after a reseal plans a second Event from  *)
(* the version its call had loaded before the first.                          *)
THEOREM ProjectionNeverAhead == Spec => []ProjectionFollowsHistory
<1>1. IInv => ProjectionFollowsHistory
  BY DEF IInv
<1> QED BY <1>1, InvariantHolds, PTL

-------------------------------------------------------------------------------
(* The last Event of a kind.                                                  *)

LEMMA MaxOf ==
  ASSUME NEW n \in Nat, NEW S \in SUBSET (1..n), S # {}
  PROVE  Max(S) \in S /\ \A y \in S : Max(S) >= y
<1> DEFINE T == {n - x : x \in S}
<1>1. T \subseteq Nat /\ T # {}
  <2>1. \A x \in S : n - x \in Nat
    OBVIOUS
  <2> QED BY <2>1
<1>2. PICK t \in T : \A y \in T : ~ (<<y, t>> \in OpToRel(<, Nat))
  BY <1>1, NatLessThanWellFounded, WFMin
<1>3. \A y \in T : ~(y < t)
  BY <1>1, <1>2 DEF OpToRel
<1>4. PICK x \in S : t = n - x
  OBVIOUS
<1>5. \A y \in S : x >= y
  <2> TAKE y \in S
  <2>1. n - y \in T /\ n - y \in Nat /\ t \in Nat
    BY <1>1
  <2> QED BY <1>3, <1>4, <2>1
<1> QED BY <1>4, <1>5 DEF Max

-------------------------------------------------------------------------------
(* Histories that grow.                                                       *)

LEMMA KeysOfAppended ==
  ASSUME NEW h \in Seq(Event), NEW e \in Event
  PROVE  /\ Append(h, e) \in Seq(Event) /\ Len(Append(h, e)) = Len(h) + 1
         /\ Len(h) \in Nat
         /\ \A i \in 1..Len(h) : Append(h, e)[i] = h[i]
         /\ Append(h, e)[Len(h) + 1] = e
         /\ KeysOf(Append(h, e)) = KeysOf(h) \cup {e.key}
<1>1. /\ Append(h, e) \in Seq(Event) /\ Len(Append(h, e)) = Len(h) + 1
      /\ Len(h) \in Nat
      /\ \A i \in 1..Len(h) : Append(h, e)[i] = h[i]
      /\ Append(h, e)[Len(h) + 1] = e
  OBVIOUS
<1>2. \A i \in 1..(Len(h) + 1) : i \in 1..Len(h) \/ i = Len(h) + 1
  BY <1>1
<1>3. ToSet(Append(h, e)) = ToSet(h) \cup {e}
  BY <1>1, <1>2 DEF ToSet
<1> QED BY <1>1, <1>3 DEF KeysOf

LEMMA KeysAreThere ==
  ASSUME NEW h \in Seq(Event)
  PROVE  \A i \in DOMAIN h : h[i].key \in KeysOf(h)
  BY DEF KeysOf, ToSet

LEMMA StaysReplayable ==
  ASSUME NEW h \in Seq(Event), NEW e \in Event, Replayable(h),
         e.seq = Len(h) + 1, e.key \notin KeysOf(h)
  PROVE  Replayable(Append(h, e))
<1> DEFINE g == Append(h, e)
<1>1. /\ g \in Seq(Event) /\ Len(g) = Len(h) + 1 /\ Len(h) \in Nat
      /\ \A i \in 1..Len(h) : g[i] = h[i]
      /\ g[Len(h) + 1] = e
  BY KeysOfAppended
<1> HIDE DEF g
<1>2. \A i \in DOMAIN g : i \in DOMAIN h \/ i = Len(h) + 1
  BY <1>1
<1>3. \A i \in DOMAIN g : g[i].seq = i
  BY <1>1, <1>2 DEF Replayable
<1>4. \A i, j \in DOMAIN g : g[i].key = g[j].key => i = j
  <2> SUFFICES ASSUME NEW i \in DOMAIN g, NEW j \in DOMAIN g, g[i].key = g[j].key
               PROVE  i = j
    OBVIOUS
  <2>1. CASE i \in DOMAIN h /\ j \in DOMAIN h
    BY <1>1, <2>1 DEF Replayable
  <2>2. CASE i \in DOMAIN h /\ j = Len(h) + 1
    BY <1>1, <2>2, KeysAreThere
  <2>3. CASE j \in DOMAIN h /\ i = Len(h) + 1
    BY <1>1, <2>3, KeysAreThere
  <2> QED BY <1>2, <2>1, <2>2, <2>3
<1>5. Replayable(g)
  BY <1>3, <1>4 DEF Replayable
<1> QED BY <1>5 DEF g

-------------------------------------------------------------------------------
(* Writes that leave a replayable history.                                    *)

(* Something that binds to the history is still to be written after the first *)
(* i of these writes, or a resumed Build is looked at again.                  *)
Bound(q, end, i) ==
  end = "reseal" \/ \E j \in (i + 1)..Len(q) : q[j].file # "projection"

Sound(q, end, h) ==
  \A i \in DOMAIN q : q[i].file = "events" =>
    /\ \A j \in 1..i : q[j].file = "events"
    /\ q[i].value.key[2] <= Len(h)
    /\ \A k \in Key : q[i].value.key = <<k, 1>> =>
         \/ <<k, 0>> \in KeysOf(h)
         \/ \E j \in 1..(i - 1) : q[j].value.key = <<k, 0>>
    /\ Bound(q, end, i) =>
         /\ q[i].value.seq = Len(h) + i
         /\ q[i].value.key \notin KeysOf(h)
         /\ \A j \in 1..(i - 1) : q[j].value.key # q[i].value.key

(* A call has writes left only while it makes them; then it unlocks, or looks *)
(* at a resumed Build again.                                                  *)
NothingIsLeft ==
  \A c \in Call :
    /\ pc[c] \notin {"step", "dead"} => todo[c] = <<>>
    /\ pc[c] = "step" /\ todo[c] = <<>> => fate[c] = "reseal"
    /\ pc[c] = "step" => loaded[c] >= 2

WritesAreSound ==
  \A c \in Call : pc[c] = "step" =>
    /\ Sound(todo[c], fate[c], history)
    /\ Bound(todo[c], fate[c], 0) => ~torn /\ Replayable(history)

(* A key that the store names after a version is new at that version; the     *)
(* replan of a refresh follows the refresh.                                   *)
KeysAreOld ==
  /\ Len(history) >= 2
  /\ \A i \in 1..2 : history[i].key[1] = "EARLIER"
  /\ \A i \in 3..Len(history) : history[i].key[2] < i
  /\ \A k \in Key : <<k, 1>> \in KeysOf(history) => <<k, 0>> \in KeysOf(history)

(* What has been said to the client of a request, or what the adopted         *)
(* Baseline says for it.                                                      *)
Settled(r, h) ==
  \E e \in ToSet(h) :
    \/ e.key = Client(r)
    \/ r.op = "adopt" /\ e.type = "adopted" /\ e.id = r.tree

(* Without a stale Context to resume, the Event of a request is the first of  *)
(* its writes, and is written at the version the request named.               *)
OwnFirst(q, r, h) ==
  \A i \in DOMAIN q : q[i].file = "events" =>
    /\ q[i].value.type # "blocked"
    /\ q[i].value.key \notin Key \X {0} => q[i].value.type # "adopted"
    /\ q[i].value.key \in Key \X {0} =>
         /\ i = 1 /\ r.op \in KeyedOps /\ q[i].value.key = Client(r)
         /\ r.expected = Len(h) /\ Client(r) \notin KeysOf(h)
         /\ Entry(q[i].value).what = Asked(r).what
Due(q, end, r, h, p) ==
  /\ end # "reseal"
  /\ OwnFirst(q, r, h)
  /\ end = "granted" /\ r.op \in KeyedOps =>
       \/ Settled(r, h)
       \/ q # <<>> /\ q[1].file = "events" /\ q[1].value.key = Client(r)
  /\ end = "granted" /\ r.op = "recover" =>
       q = <<Show(Len(h))>> \/ (q = <<>> /\ p = Len(h))
  /\ end = "failed" /\ r.op = "recover" => q = <<>>

Ledgered ==
  /\ \A i \in DOMAIN history : history[i].type # "blocked"
  /\ \A k \in Key : request[k] # None => request[k].key = k
  /\ \A c \in Call : job[c] # None /\ job[c].op \in KeyedOps =>
       request[job[c].key] = job[c]
  /\ \A c \in Call : pc[c] \in {"step", "unlock"} =>
       Due(todo[c], fate[c], job[c], history, projection)
  /\ \A c \in Call : pc[c] = "writing" => job[c].op = "write"

(* The second half of the inductive invariant: what interrupted and repeated  *)
(* calls may still write, and what they have told their clients.              *)
SInv ==
  /\ NothingIsLeft
  /\ WritesAreSound
  /\ KeysAreOld
  /\ MayBlock = FALSE => Ledgered

LEMMA SoundTail ==
  ASSUME NEW q \in Seq(Write), q # <<>>, NEW end, NEW h \in Seq(Event), NEW g,
         Sound(q, end, h),
         g = IF Head(q).file = "events" THEN Append(h, Head(q).value) ELSE h
  PROVE  Sound(Tail(q), end, g)
<1> DEFINE t == Tail(q)
<1>1. /\ t \in Seq(Write) /\ Len(q) \in Nat /\ Len(q) >= 1 /\ Len(t) = Len(q) - 1
      /\ DOMAIN t = 1..Len(t)
      /\ \A i \in 1..Len(t) : t[i] = q[i + 1]
      /\ Head(q) = q[1] /\ q[1] \in Write
  OBVIOUS
<1> HIDE DEF t
<1> SUFFICES ASSUME NEW i \in 1..Len(t), t[i].file = "events"
             PROVE  /\ \A j \in 1..i : t[j].file = "events"
                    /\ t[i].value.key[2] <= Len(g)
                    /\ \A k \in Key : t[i].value.key = <<k, 1>> =>
                         \/ <<k, 0>> \in KeysOf(g)
                         \/ \E j \in 1..(i - 1) : t[j].value.key = <<k, 0>>
                    /\ Bound(t, end, i) =>
                         /\ t[i].value.seq = Len(g) + i
                         /\ t[i].value.key \notin KeysOf(g)
                         /\ \A j \in 1..(i - 1) : t[j].value.key # t[i].value.key
  BY <1>1 DEF Sound, t
<1>2. /\ i \in Nat /\ i + 1 \in DOMAIN q /\ q[i + 1].file = "events" /\ t[i] = q[i + 1]
      /\ 1 \in 1..(i + 1) /\ 1 \in 1..((i + 1) - 1)
      /\ \A j \in 1..i : j + 1 \in 1..(i + 1) /\ t[j] = q[j + 1]
      /\ \A j \in 1..(i - 1) : j + 1 \in 1..((i + 1) - 1) /\ t[j] = q[j + 1]
  BY <1>1
<1>3. \A j \in 1..(i + 1) : q[j].file = "events"
  BY <1>2 DEF Sound
<1>4. q[1].value \in Event /\ q[i + 1].value \in Event
  <2>1. q[1].file = "events" /\ q[i + 1].file = "events" /\ q[i + 1] \in Write
    BY <1>1, <1>2, <1>3
  <2> QED BY <1>1, <2>1 DEF Write
<1>5. g = Append(h, q[1].value)
  BY <1>1, <1>2, <1>3
<1>6. Len(g) = Len(h) + 1 /\ Len(h) \in Nat /\ KeysOf(g) = KeysOf(h) \cup {q[1].value.key}
  BY <1>4, <1>5, KeysOfAppended
<1>7. \A j \in 1..i : t[j].file = "events"
  BY <1>2, <1>3
<1>8. t[i].value.key[2] <= Len(g)
  <2>1. q[i + 1].value.key[2] <= Len(h)
    BY <1>2 DEF Sound
  <2>2. q[i + 1].value.key[2] \in Nat
    BY <1>4 DEF Event, EventKey
  <2> QED BY <1>2, <1>6, <2>1, <2>2
<1>9. ASSUME NEW k \in Key, t[i].value.key = <<k, 1>>
      PROVE  \/ <<k, 0>> \in KeysOf(g)
             \/ \E j \in 1..(i - 1) : t[j].value.key = <<k, 0>>
  <2>1. CASE <<k, 0>> \in KeysOf(h)
    BY <1>6, <2>1
  <2>2. ASSUME NEW j \in 1..((i + 1) - 1), q[j].value.key = <<k, 0>>
        PROVE  \/ <<k, 0>> \in KeysOf(g)
               \/ \E m \in 1..(i - 1) : t[m].value.key = <<k, 0>>
    <3>1. CASE j = 1
      BY <1>6, <2>2, <3>1
    <3>2. CASE j # 1
      <4>1. j - 1 \in 1..(i - 1) /\ (j - 1) + 1 = j
        BY <1>2, <3>2
      <4>2. t[j - 1] = q[j]
        BY <1>2, <4>1
      <4> QED BY <2>2, <4>1, <4>2
    <3> QED BY <3>1, <3>2
  <2>3. \/ <<k, 0>> \in KeysOf(h)
        \/ \E j \in 1..((i + 1) - 1) : q[j].value.key = <<k, 0>>
    <3>1. q[i + 1].value.key = <<k, 1>>
      BY <1>2, <1>9
    <3> QED BY <1>2, <3>1 DEF Sound
  <2> QED BY <2>1, <2>2, <2>3
<1>10. ASSUME Bound(t, end, i)
       PROVE  /\ t[i].value.seq = Len(g) + i
              /\ t[i].value.key \notin KeysOf(g)
              /\ \A j \in 1..(i - 1) : t[j].value.key # t[i].value.key
  <2>1. Bound(q, end, i + 1)
    <3>1. CASE end = "reseal"
      BY <3>1 DEF Bound
    <3>2. ASSUME NEW j \in (i + 1)..Len(t), t[j].file # "projection"
          PROVE  Bound(q, end, i + 1)
      <4>1. j + 1 \in ((i + 1) + 1)..Len(q) /\ q[j + 1] = t[j]
        BY <1>1, <1>2
      <4> QED BY <3>2, <4>1 DEF Bound
    <3> QED BY <1>10, <3>1, <3>2 DEF Bound
  <2>2. /\ q[i + 1].value.seq = Len(h) + (i + 1)
        /\ q[i + 1].value.key \notin KeysOf(h)
        /\ \A j \in 1..((i + 1) - 1) : q[j].value.key # q[i + 1].value.key
    BY <1>2, <2>1 DEF Sound
  <2>3. Len(h) + (i + 1) = Len(g) + i
    <3>1. i \in Nat
      BY <1>2
    <3> HIDE DEF Bound
    <3> QED BY <1>6, <3>1
  <2>4. q[1].value.key # q[i + 1].value.key
    BY <1>2, <2>2
  <2>5. q[i + 1].value.key \notin KeysOf(g)
    BY <1>6, <2>2, <2>4
  <2> QED BY <1>2, <2>2, <2>3, <2>5
<1> QED BY <1>7, <1>8, <1>9, <1>10

LEMMA BoundTail ==
  ASSUME NEW q \in Seq(Write), q # <<>>, NEW end, NEW i \in Nat, Bound(Tail(q), end, i)
  PROVE  Bound(q, end, i + 1)
<1>1. CASE end = "reseal"
  BY <1>1 DEF Bound
<1>2. ASSUME NEW j \in (i + 1)..Len(Tail(q)), Tail(q)[j].file # "projection"
      PROVE  Bound(q, end, i + 1)
  <2>1. j + 1 \in ((i + 1) + 1)..Len(q) /\ q[j + 1] = Tail(q)[j]
    OBVIOUS
  <2> QED BY <1>2, <2>1 DEF Bound
<1> QED BY <1>1, <1>2 DEF Bound

-------------------------------------------------------------------------------
(* What the calls plan to write.                                              *)

(* What a call may decide to write, and to tell its client after that.        *)
Planned(c, q, end) ==
  /\ q = <<>> => end # "reseal"
  /\ Sound(q, end, history)
  /\ MayBlock = FALSE => Due(q, end, job[c], history, projection)

LEMMA LastIsThere ==
  ASSUME NEW h \in Seq(Event), NEW types, LastOf(h, types) # 0
  PROVE  LastOf(h, types) \in DOMAIN h /\ h[LastOf(h, types)].type \in types
<1> DEFINE I == {i \in 1..Len(h) : h[i].type \in types}
<1>1. LastOf(h, types) = IF I # {} THEN Max(I) ELSE 0
  BY DEF LastOf, SelectLastInSeq
<1>2. I # {}
  BY <1>1
<1>3. Len(h) \in Nat /\ I \in SUBSET (1..Len(h))
  OBVIOUS
<1>4. Max(I) \in I
  BY <1>2, <1>3, MaxOf
<1> QED BY <1>1, <1>2, <1>4

LEMMA PlanWithoutEvents ==
  ASSUME NEW c \in Call, NEW q, \A i \in DOMAIN q : q[i].file # "events",
         job[c].op \in KeyedOps, Settled(job[c], history)
  PROVE  Planned(c, q, "granted")
  BY DEF Planned, Sound, Due, OwnFirst, KeyedOps

LEMMA PlanWithEvent ==
  ASSUME NEW c \in Call, NEW q \in Seq(Write), NEW e \in Event, NEW end,
         q # <<>>, q[1] = AppendEvent(e),
         \A i \in 2..Len(q) : q[i].file # "events",
         e.key[2] <= Len(history),
         \A k \in Key : e.key = <<k, 1>> => <<k, 0>> \in KeysOf(history),
         Bound(q, end, 1) => e.seq = Len(history) + 1 /\ e.key \notin KeysOf(history),
         MayBlock = FALSE =>
           /\ end # "reseal" /\ e.type # "blocked"
           /\ e.key \notin Key \X {0} => e.type # "adopted"
           /\ e.key \in Key \X {0} =>
                /\ job[c].op \in KeyedOps /\ e.key = Client(job[c])
                /\ job[c].expected = Len(history)
                /\ Client(job[c]) \notin KeysOf(history)
                /\ Entry(e).what = Asked(job[c]).what
           /\ end = "granted" /\ job[c].op \in KeyedOps =>
                Settled(job[c], history) \/ e.key = Client(job[c])
           /\ job[c].op # "recover"
  PROVE  Planned(c, q, end)
<1>1. /\ Len(q) \in Nat /\ Len(q) >= 1 /\ DOMAIN q = 1..Len(q)
      /\ \A i \in DOMAIN q : i = 1 \/ i \in 2..Len(q)
      /\ q[1].file = "events" /\ q[1].value = e
  BY DEF AppendEvent
<1>2. \A i \in DOMAIN q : q[i].file = "events" => i = 1
  BY <1>1
<1>3. Sound(q, end, history)
  BY <1>1, <1>2 DEF Sound
<1>4. ASSUME MayBlock = FALSE PROVE Due(q, end, job[c], history, projection)
  <2>1. OwnFirst(q, job[c], history)
    BY <1>1, <1>2, <1>4 DEF OwnFirst
  <2> QED BY <1>1, <1>4, <2>1 DEF Due
<1> QED BY <1>3, <1>4 DEF Planned

(* A plan that starts with the Event of a request at the version it names.    *)
LEMMA PlanOwnEvent ==
  ASSUME IInv, NEW c \in Call, NEW r \in Request, r = job[c], New(r),
         NEW q \in Seq(Write), NEW type \in EventTypes \ {"blocked"},
         NEW id \in Manifest \cup Tree \cup {None},
         q # <<>>, q[1] = AppendEvent(OwnEvent(r, type, id)),
         \A i \in 2..Len(q) : q[i].file # "events",
         type = "adopted" <=> r.op = "adopt",
         type = "adopted" => id = r.tree
  PROVE  Planned(c, q, "granted")
<1> DEFINE e == OwnEvent(r, type, id)
<1>1. Len(history) \in Nat /\ history \in Seq(Event)
  BY DEF IInv, TypeOK
<1>2. Client(r) \in EventKey /\ Client(r) = <<r.key, 0>> /\ r.key \in Key /\ r.op \in KeyedOps
  BY ClientKeys DEF Client, Request
<1>3. e \in Event /\ e.key = Client(r) /\ e.seq = Len(history) + 1 /\ e.type = type /\ e.id = id
  <2>1. NextVersion \in Nat /\ NextVersion = Len(history) + 1
    BY <1>1 DEF NextVersion
  <2>2. e = Happened(type, Client(r), NextVersion, id)
    BY DEF OwnEvent
  <2>3. e \in Event
    BY <1>2, <2>1, <2>2, EventTyped
  <2> QED BY <2>1, <2>2, <2>3 DEF Happened
<1>4. e.key[2] = 0 /\ \A k \in Key : e.key # <<k, 1>>
  BY <1>2, <1>3
<1>5. Entry(e).what = Asked(r).what
  BY <1>3 DEF Entry, Asked
<1> HIDE DEF e
<1>6. q[1] = AppendEvent(e)
  BY DEF e
<1>7. r.op # "recover"
  BY <1>2 DEF KeyedOps
<1>8. e.key[2] <= Len(history) /\ Client(r) \notin KeysOf(history) /\ r.expected = Len(history)
  BY <1>1, <1>4 DEF New
<1>9. e.key \in Key \X {0}
  BY <1>2, <1>3
<1>10. MayBlock = FALSE =>
         /\ "granted" # "reseal" /\ e.type # "blocked"
         /\ e.key \notin Key \X {0} => e.type # "adopted"
         /\ e.key \in Key \X {0} =>
              /\ job[c].op \in KeyedOps /\ e.key = Client(job[c])
              /\ job[c].expected = Len(history)
              /\ Client(job[c]) \notin KeysOf(history)
              /\ Entry(e).what = Asked(job[c]).what
         /\ "granted" = "granted" /\ job[c].op \in KeyedOps =>
              Settled(job[c], history) \/ e.key = Client(job[c])
         /\ job[c].op # "recover"
  BY <1>2, <1>3, <1>5, <1>7, <1>8, <1>9
<1> QED BY <1>3, <1>4, <1>6, <1>8, <1>10, PlanWithEvent

(* One lemma for each call that takes the lock.                               *)
Plans(c) ==
  \E q \in Seq(Write), end \in {"granted", "failed", "reseal"} :
    Perform(c, q, end) /\ Planned(c, q, end)

LEMMA SettledByKey ==
  ASSUME NEW r, NEW h, Client(r) \in KeysOf(h)
  PROVE  Settled(r, h)
  BY DEF KeysOf, Settled

LEMMA NoWritesPlanned ==
  ASSUME NEW c \in Call, job[c].op \in KeyedOps, Settled(job[c], history),
         Perform(c, <<>>, "granted")
  PROVE  Plans(c)
<1>1. <<>> \in Seq(Write) /\ \A i \in DOMAIN <<>> : <<>>[i].file # "events"
  OBVIOUS
<1>2. Planned(c, <<>>, "granted")
  BY <1>1, PlanWithoutEvents
<1> QED BY <1>1, <1>2 DEF Plans

LEMMA AdoptPlans ==
  ASSUME IInv, NEW c \in Call, Adopt(c)
  PROVE  Plans(c)
<1> USE DurableTaskConstants
<1> DEFINE r == job[c]
<1>1. Locked(c, "adopt") /\ "adopt" \in KeyedOps /\ r.op = "adopt"
  BY DEF Adopt, KeyedOps, Locked
<1>2. /\ r \in Request /\ r.tree \in Tree /\ Client(r) \in EventKey
      /\ Len(history) \in Nat /\ NextVersion \in Nat
      /\ NextVersion = Len(history) + 1 /\ history \in Seq(Event)
  BY <1>1, JobsOfLocked DEF IInv, TypeOK
<1>3. Keep(r.tree) \in Write /\ Keep(r.tree).file \notin {"events", "projection"}
  BY <1>2, WritesTyped DEF Keep
<1>4. OwnEvent(r, "adopted", r.tree) \in Event
  BY <1>2, EventTyped DEF OwnEvent, EventTypes
<1>5. CASE Adopted(history) = r.tree /\ Perform(c, <<>>, "granted")
  <2> DEFINE i == LastOf(history, {"adopted"})
  <2>1. i # 0 /\ history[i].id = r.tree
    BY <1>2, <1>5 DEF Adopted
  <2>2. i \in DOMAIN history /\ history[i].type = "adopted"
    BY <1>2, <2>1, LastIsThere
  <2>3. Settled(r, history)
    BY <1>1, <2>1, <2>2 DEF Settled, ToSet
  <2> QED BY <1>1, <1>5, <2>3, NoWritesPlanned
<1>6. CASE /\ Client(r) \in KeysOf(history)
           /\ Perform(c, <<Keep(r.tree), Show(Len(history))>>, "granted")
  <2> DEFINE q == <<Keep(r.tree), Show(Len(history))>>
  <2>1. q \in Seq(Write) /\ Behind(q, Len(history))
    BY <1>2, <1>3, StoreAndShow
  <2>2. \A i \in DOMAIN q : q[i].file # "events"
    BY DEF Keep, Show
  <2>3. Planned(c, q, "granted")
    BY <1>1, <1>6, <2>2, SettledByKey, PlanWithoutEvents
  <2> QED BY <1>6, <2>1, <2>3 DEF Plans
<1>7. CASE /\ New(r)
           /\ Perform(c, <<AppendEvent(OwnEvent(r, "adopted", r.tree)),
                           Keep(r.tree), Show(NextVersion)>>, "granted")
  <2> DEFINE q == <<AppendEvent(OwnEvent(r, "adopted", r.tree)),
                    Keep(r.tree), Show(NextVersion)>>
  <2>1. q \in Seq(Write) /\ Behind(q, Len(history))
    BY <1>2, <1>3, <1>4, AppendStoreAndShow
  <2>2. /\ q # <<>> /\ q[1] = AppendEvent(OwnEvent(r, "adopted", r.tree))
        /\ \A i \in 2..Len(q) : q[i].file # "events"
    BY DEF Keep, Show
  <2>3. "adopted" \in EventTypes \ {"blocked"}
    BY DEF EventTypes
  <2>4. Planned(c, q, "granted")
    <3> HIDE DEF q
    <3> QED BY <1>1, <1>2, <1>7, <2>1, <2>2, <2>3, PlanOwnEvent
  <2> QED BY <1>7, <2>1, <2>4 DEF Plans
<1> QED BY <1>5, <1>6, <1>7 DEF Adopt

LEMMA PersistContextPlans ==
  ASSUME IInv, NEW c \in Call, NEW op \in KeyedOps \ {"adopt"}, Locked(c, op),
         NEW type \in {"added", "refreshed", "frozen"}, NEW m \in Manifest,
         PersistContext(c, job[c], type, m)
  PROVE  Plans(c)
<1> DEFINE r == job[c]
           q == <<AppendEvent(OwnEvent(r, type, m)), Store(m), Show(NextVersion)>>
<1>1. /\ r \in Request /\ r.op = op /\ Client(r) \in EventKey
      /\ Len(history) \in Nat /\ NextVersion \in Nat
      /\ NextVersion = Len(history) + 1 /\ history \in Seq(Event)
  BY JobsOfLocked DEF IInv, TypeOK, Locked
<1>2. Store(m) \in Write /\ Store(m).file \notin {"events", "projection"}
  BY WritesTyped DEF Store
<1>3. CASE Accepted(history, Client(r), m) /\ Perform(c, <<Store(m)>>, "granted")
  <2>1. <<Store(m)>> \in Seq(Write)
    BY <1>1, <1>2, StoreOnly
  <2>2. \A i \in DOMAIN <<Store(m)>> : <<Store(m)>>[i].file # "events"
    BY DEF Store
  <2>3. Settled(r, history)
    BY <1>3 DEF Accepted, Settled
  <2>4. Planned(c, <<Store(m)>>, "granted")
    BY <1>1, <2>2, <2>3, PlanWithoutEvents
  <2> QED BY <1>3, <2>1, <2>4 DEF Plans
<1>4. CASE New(r) /\ Perform(c, q, "granted")
  <2>1. OwnEvent(r, type, m) \in Event
    BY <1>1, EventTyped DEF OwnEvent, EventTypes
  <2>2. q \in Seq(Write) /\ Behind(q, Len(history))
    BY <1>1, <1>2, <2>1, AppendStoreAndShow
  <2>3. /\ q # <<>> /\ q[1] = AppendEvent(OwnEvent(r, type, m))
        /\ \A i \in 2..Len(q) : q[i].file # "events"
    BY DEF Store, Show
  <2>4. type \in EventTypes \ {"blocked"} /\ type # "adopted"
    BY DEF EventTypes
  <2>5. Planned(c, q, "granted")
    <3> HIDE DEF q
    <3> QED BY <1>1, <1>4, <2>2, <2>3, <2>4, PlanOwnEvent
  <2> QED BY <1>4, <2>2, <2>5 DEF Plans
<1> QED BY <1>3, <1>4 DEF PersistContext

LEMMA ContextPlans ==
  ASSUME IInv, NEW c \in Call, AddContextEntry(c) \/ FreezeContext(c)
  PROVE  Plans(c)
<1>1. manifest \in Manifest /\ {"add", "freeze"} \subseteq KeyedOps \ {"adopt"}
  BY DEF IInv, TypeOK, KeyedOps
<1>2. CASE AddContextEntry(c)
  <2>1. [manifest EXCEPT !.added = TRUE] \in Manifest
    BY <1>1 DEF Manifest
  <2> QED BY <1>1, <1>2, <2>1, PersistContextPlans DEF AddContextEntry
<1>3. CASE FreezeContext(c)
  <2>1. job[c].key \in Key
    BY <1>1, <1>3, JobsOfLocked DEF FreezeContext
  <2>2. [manifest EXCEPT !.by = job[c].key] \in Manifest
    BY <1>1, <2>1 DEF Manifest
  <2> QED BY <1>1, <1>3, <2>2, PersistContextPlans DEF FreezeContext
<1> QED BY <1>2, <1>3

(* A refresh plans its own replan after its Event.                            *)
LEMMA RefreshPlans ==
  ASSUME IInv, SInv, NEW c \in Call, RefreshContext(c)
  PROVE  Plans(c)
<1> USE DurableTaskConstants
<1> DEFINE r == job[c]
           m == [manifest EXCEPT !.content = source]
           replanned(seq) == Happened("replanned", ReplanOf(r), seq, None)
<1>1. Locked(c, "refresh") /\ "refresh" \in KeyedOps \ {"adopt"} /\ r.op = "refresh"
  BY DEF RefreshContext, KeyedOps, Locked
<1>2. /\ r \in Request /\ r.key \in Key /\ Client(r) \in EventKey /\ ReplanOf(r) \in EventKey
      /\ Len(history) \in Nat /\ NextVersion \in Nat
      /\ NextVersion = Len(history) + 1 /\ history \in Seq(Event)
  BY <1>1, JobsOfLocked DEF IInv, TypeOK
<1>3. m \in Manifest
  BY DEF IInv, TypeOK, Manifest
<1>4. Store(m) \in Write /\ Store(m).file \notin {"events", "projection"}
  BY <1>3, WritesTyped DEF Store
<1>5. \A n \in Nat : /\ replanned(n) \in Event
                     /\ replanned(n).key = ReplanOf(r) /\ replanned(n).seq = n
                     /\ replanned(n).type = "replanned"
  BY <1>2, EventTyped DEF EventTypes, Happened
<1>6. ReplanOf(r) = <<r.key, 1>> /\ Client(r) = <<r.key, 0>>
  BY DEF ReplanOf, Client
<1>7. /\ ReplanOf(r)[2] = 1 /\ Client(r)[2] = 0 /\ ReplanOf(r) # Client(r)
      /\ ReplanOf(r) \notin Key \X {0}
      /\ \A k \in Key : /\ ReplanOf(r) = <<k, 1>> => <<k, 0>> = Client(r)
                        /\ Client(r) # <<k, 1>>
  BY <1>6
<1>8. 2 <= Len(history) /\ (ReplanOf(r) \in KeysOf(history) => Client(r) \in KeysOf(history))
  BY <1>2, <1>6 DEF SInv, KeysAreOld
<1> HIDE DEF m, replanned
<1>9. CASE PersistContext(c, r, "refreshed", m)
  BY <1>1, <1>3, <1>9, PersistContextPlans
<1>10. CASE /\ Accepted(history, Client(r), m) /\ ReplanOf(r) \notin KeysOf(history)
            /\ Perform(c, <<AppendEvent(replanned(NextVersion)), Store(m),
                            Show(NextVersion)>>, "granted")
  <2> DEFINE e == replanned(NextVersion)
             q == <<AppendEvent(e), Store(m), Show(NextVersion)>>
  <2>1. /\ e \in Event /\ e.key = ReplanOf(r) /\ e.seq = Len(history) + 1
        /\ e.type = "replanned"
    BY <1>2, <1>5
  <2>2. q \in Seq(Write) /\ Behind(q, Len(history))
    BY <1>2, <1>4, <2>1, AppendStoreAndShow
  <2>3. /\ q # <<>> /\ q[1] = AppendEvent(e)
        /\ \A i \in 2..Len(q) : q[i].file # "events"
    BY DEF Store, Show
  <2>4. Settled(r, history) /\ Client(r) \in KeysOf(history)
    BY <1>10 DEF Accepted, Settled, KeysOf
  <2>5. e.key[2] <= Len(history)
    BY <1>2, <1>7, <1>8, <2>1
  <2>6. \A k \in Key : e.key = <<k, 1>> => <<k, 0>> \in KeysOf(history)
    BY <1>7, <2>1, <2>4
  <2>7. Planned(c, q, "granted")
    <3> HIDE DEF q, e
    <3> QED BY <1>1, <1>7, <1>10, <2>1, <2>2, <2>3, <2>4, <2>5, <2>6, PlanWithEvent
  <2> QED BY <1>10, <2>2, <2>7 DEF Plans
<1>11. CASE /\ New(r)
            /\ Perform(c, <<AppendEvent(OwnEvent(r, "refreshed", m)),
                            AppendEvent(replanned(NextVersion + 1)),
                            Store(m), Show(NextVersion + 1)>>, "granted")
  <2> DEFINE e == OwnEvent(r, "refreshed", m)
             f == replanned(NextVersion + 1)
             q == <<AppendEvent(e), AppendEvent(f), Store(m), Show(NextVersion + 1)>>
  <2>1. e \in Event /\ e.key = Client(r) /\ e.seq = Len(history) + 1 /\ e.type = "refreshed"
    BY <1>2, <1>3, EventTyped DEF OwnEvent, Happened, EventTypes
  <2>2. /\ f \in Event /\ f.key = ReplanOf(r) /\ f.seq = Len(history) + 2
        /\ f.type = "replanned"
    <3>1. NextVersion + 1 \in Nat /\ NextVersion + 1 = Len(history) + 2
      BY <1>2
    <3> QED BY <1>5, <3>1
  <2>3. q \in Seq(Write) /\ Behind(q, Len(history))
    BY <1>2, <1>4, <2>1, <2>2, AppendTwiceStoreAndShow
  <2>4. /\ q # <<>> /\ Len(q) = 4 /\ DOMAIN q = 1..4
        /\ q[1].file = "events" /\ q[1].value = e
        /\ q[2].file = "events" /\ q[2].value = f
        /\ q[3].file # "events" /\ q[4].file # "events"
    BY DEF Store, Show, AppendEvent
  <2>5. /\ Client(r) \notin KeysOf(history) /\ r.expected = Len(history)
        /\ ReplanOf(r) \notin KeysOf(history)
    BY <1>8, <1>11 DEF New
  <2>6. Entry(e).what = Asked(r).what
    BY <1>1, <2>1 DEF Entry, Asked
  <2> HIDE DEF q, e, f
  <2>7. /\ \A i \in DOMAIN q : q[i].file = "events" => i = 1 \/ i = 2
        /\ 0 <= Len(history) /\ 1 <= Len(history)
    BY <1>2, <1>8, <2>4
  <2>8. Sound(q, "granted", history)
    <3> SUFFICES ASSUME NEW i \in DOMAIN q, q[i].file = "events"
                 PROVE  /\ \A j \in 1..i : q[j].file = "events"
                        /\ q[i].value.key[2] <= Len(history)
                        /\ \A k \in Key : q[i].value.key = <<k, 1>> =>
                             \/ <<k, 0>> \in KeysOf(history)
                             \/ \E j \in 1..(i - 1) : q[j].value.key = <<k, 0>>
                        /\ q[i].value.seq = Len(history) + i
                        /\ q[i].value.key \notin KeysOf(history)
                        /\ \A j \in 1..(i - 1) : q[j].value.key # q[i].value.key
      BY DEF Sound
    <3>1. CASE i = 1
      BY <1>7, <2>1, <2>4, <2>5, <2>7, <3>1
    <3>2. CASE i = 2
      <4>1. 1..(2 - 1) = {1} /\ 1..2 = {1, 2}
        OBVIOUS
      <4>2. \A k \in Key : q[2].value.key = <<k, 1>> => q[1].value.key = <<k, 0>>
        BY <1>7, <2>1, <2>2, <2>4
      <4> QED BY <1>7, <2>1, <2>2, <2>4, <2>5, <2>7, <3>2, <4>1, <4>2
    <3> QED BY <2>7, <3>1, <3>2
  <2>9. OwnFirst(q, r, history)
    <3> SUFFICES ASSUME NEW i \in DOMAIN q, q[i].file = "events"
                 PROVE  /\ q[i].value.type # "blocked"
                        /\ q[i].value.key \notin Key \X {0} => q[i].value.type # "adopted"
                        /\ q[i].value.key \in Key \X {0} =>
                             /\ i = 1 /\ r.op \in KeyedOps /\ q[i].value.key = Client(r)
                             /\ r.expected = Len(history)
                             /\ Client(r) \notin KeysOf(history)
                             /\ Entry(q[i].value).what = Asked(r).what
      BY DEF OwnFirst
    <3>1. CASE i = 1
      BY <1>1, <2>1, <2>4, <2>5, <2>6, <3>1
    <3>2. CASE i = 2
      BY <1>7, <2>2, <2>4, <3>2
    <3> QED BY <2>7, <3>1, <3>2
  <2>10. Planned(c, q, "granted")
    BY <1>1, <2>1, <2>4, <2>8, <2>9 DEF Planned, Due
  <2> QED BY <1>11, <2>3, <2>10 DEF Plans, q, e, f
<1> QED BY <1>9, <1>10, <1>11 DEF RefreshContext, m, replanned

(* An Event and the Projection of it: nothing binds to the history after it.  *)
LEMMA AppendPlans ==
  ASSUME IInv, NEW c \in Call, NEW e \in Event, NEW n \in Nat, n <= Len(history) + 1,
         NEW end \in {"granted", "failed"},
         Perform(c, <<AppendEvent(e), Show(n)>>, end),
         e.key[2] <= Len(history),
         \A k \in Key : e.key = <<k, 1>> => <<k, 0>> \in KeysOf(history),
         MayBlock = FALSE =>
           /\ e.type # "blocked"
           /\ e.key \notin Key \X {0} => e.type # "adopted"
           /\ e.key \in Key \X {0} =>
                /\ job[c].op \in KeyedOps /\ e.key = Client(job[c])
                /\ job[c].expected = Len(history)
                /\ Client(job[c]) \notin KeysOf(history)
                /\ Entry(e).what = Asked(job[c]).what
           /\ end = "granted" /\ job[c].op \in KeyedOps =>
                Settled(job[c], history) \/ e.key = Client(job[c])
           /\ job[c].op # "recover"
  PROVE  Plans(c)
<1> DEFINE q == <<AppendEvent(e), Show(n)>>
<1>1. Len(history) \in Nat
  BY DEF IInv, TypeOK
<1>2. q \in Seq(Write) /\ Behind(q, Len(history))
  BY <1>1, AppendAndShow
<1>3. /\ q # <<>> /\ q[1] = AppendEvent(e) /\ Len(q) = 2
      /\ \A i \in 2..Len(q) : q[i].file = "projection"
  BY DEF AppendEvent, Show
<1>4. Perform(c, q, end)
  OBVIOUS
<1> HIDE DEF q
<1>5. ~Bound(q, end, 1)
  BY <1>3 DEF Bound
<1>6. \A i \in 2..Len(q) : q[i].file # "events"
  BY <1>3
<1>7. Planned(c, q, end)
  BY <1>2, <1>3, <1>5, <1>6, PlanWithEvent
<1> QED BY <1>2, <1>4, <1>7 DEF Plans

LEMMA ApprovePlans ==
  ASSUME IInv, NEW c \in Call, Approve(c)
  PROVE  Plans(c)
<1> DEFINE r == job[c]
           q == <<AppendEvent(OwnEvent(r, "approved", manifest)), Show(NextVersion)>>
<1>1. Locked(c, "approve") /\ "approve" \in KeyedOps /\ r.op = "approve"
  BY DEF Approve, KeyedOps, Locked
<1>2. /\ r \in Request /\ Client(r) \in EventKey
      /\ Len(history) \in Nat /\ NextVersion \in Nat
      /\ NextVersion = Len(history) + 1 /\ manifest \in Manifest
  BY <1>1, JobsOfLocked DEF IInv, TypeOK
<1>3. CASE Client(r) \in KeysOf(history) /\ Perform(c, <<>>, "granted")
  BY <1>1, <1>3, SettledByKey, NoWritesPlanned
<1>4. CASE New(r) /\ Perform(c, q, "granted")
  <2>1. OwnEvent(r, "approved", manifest) \in Event
    BY <1>2, EventTyped DEF OwnEvent, EventTypes
  <2>2. q \in Seq(Write) /\ Behind(q, Len(history))
    BY <1>2, <2>1, AppendAndShow
  <2>3. /\ q # <<>> /\ q[1] = AppendEvent(OwnEvent(r, "approved", manifest))
        /\ \A i \in 2..Len(q) : q[i].file # "events"
    BY DEF Show
  <2>4. "approved" \in EventTypes \ {"blocked"}
    BY DEF EventTypes
  <2>5. Planned(c, q, "granted")
    <3> HIDE DEF q
    <3> QED BY <1>1, <1>2, <1>4, <2>2, <2>3, <2>4, PlanOwnEvent
  <2> QED BY <1>4, <2>2, <2>5 DEF Plans
<1> QED BY <1>3, <1>4 DEF Approve

LEMMA RedispatchPlans ==
  ASSUME IInv, SInv, NEW c \in Call, Redispatch(c)
  PROVE  Plans(c)
<1> DEFINE e == OwnEvent(job[c], "blocked", None)
<1>1. Locked(c, "redispatch") /\ "redispatch" \in KeyedOps
  BY DEF Redispatch, KeyedOps
<1>2. /\ job[c] \in Request /\ Client(job[c]) \in EventKey
      /\ Len(history) \in Nat /\ NextVersion \in Nat
      /\ NextVersion = Len(history) + 1
  BY <1>1, JobsOfLocked
<1>3. e \in Event /\ e.key = Client(job[c])
  BY <1>2, EventTyped DEF OwnEvent, EventTypes, Happened
<1>4. e.key[2] = 0 /\ \A k \in Key : e.key # <<k, 1>>
  BY <1>3 DEF Client
<1>5. MayBlock # FALSE /\ Perform(c, <<AppendEvent(e), Show(NextVersion)>>, "granted")
  BY DEF Redispatch
<1> HIDE DEF e
<1>6. e.key[2] <= Len(history) /\ NextVersion <= Len(history) + 1
  BY <1>2, <1>4
<1> QED BY <1>2, <1>3, <1>4, <1>5, <1>6, AppendPlans

(* Without a dispatch that finds its Context stale, no Build is blocked.      *)
LEMMA NothingToResume ==
  ASSUME IInv, SInv, MayBlock = FALSE
  PROVE  ~ContextStale(history)
<1> DEFINE i == LastOf(history, {"blocked", "held", "resumed"})
<1>1. \A j \in DOMAIN history : history[j].type # "blocked"
  BY DEF SInv, Ledgered
<1>2. i = 0 \/ i \in DOMAIN history
  BY LastIsThere DEF IInv, TypeOK
<1> QED BY <1>1, <1>2 DEF ContextStale, Stop

LEMMA StoreEventKeys ==
  ASSUME IInv, SInv, NEW n \in Nat, NEW s \in {"CONTEXT-RESUME", "CONTEXT-DRIFT"}
  PROVE  /\ <<s, n>>[2] = n
         /\ n > 1 => <<s, n>> \notin Key \X {0}
         /\ n > 1 => \A k \in Key : <<s, n>> # <<k, 1>>
         /\ n = Len(history) => <<s, n>> \notin KeysOf(history)
<1>1. ASSUME n = Len(history), <<s, n>> \in KeysOf(history) PROVE FALSE
  <2>1. PICK i \in DOMAIN history : history[i].key = <<s, n>>
    BY <1>1 DEF KeysOf, ToSet
  <2>2. history \in Seq(Event) /\ i \in 1..Len(history)
    BY DEF IInv, TypeOK
  <2>3. CASE i \in 1..2
    BY <2>1, <2>3 DEF SInv, KeysAreOld
  <2>4. CASE i \in 3..Len(history)
    BY <1>1, <2>1, <2>4 DEF SInv, KeysAreOld
  <2> QED BY <2>2, <2>3, <2>4
<1> QED BY <1>1

LEMMA ResumePlans ==
  ASSUME IInv, SInv, NEW c \in Call, ContextStale(history), ResumeStale(c, Len(history))
  PROVE  Plans(c)
<1> DEFINE v == Len(history)
           e == Happened("resumed", <<"CONTEXT-RESUME", v>>, v + 1, None)
           q == <<AppendEvent(e), Show(v + 1)>>
<1>1. v \in Nat /\ v > 1 /\ v + 1 \in Nat
  BY DEF IInv, TypeOK, SInv, KeysAreOld
<1>2. e \in Event /\ e.key = <<"CONTEXT-RESUME", v>> /\ e.seq = v + 1
  BY <1>1, StoreEvents DEF Happened
<1>3. q \in Seq(Write) /\ Behind(q, Len(history))
  BY <1>1, <1>2, AppendAndShow
<1>4. Perform(c, q, "reseal")
  BY DEF ResumeStale
<1>5. /\ q # <<>> /\ q[1] = AppendEvent(e)
      /\ \A i \in 2..Len(q) : q[i].file # "events"
  BY DEF Show
<1>6. MayBlock # FALSE
  BY NothingToResume
<1>7. /\ e.key[2] <= Len(history) /\ e.key \notin KeysOf(history)
      /\ \A k \in Key : e.key # <<k, 1>>
  <2>1. <<"CONTEXT-RESUME", v>>[2] <= Len(history)
    BY <1>1
  <2>2. <<"CONTEXT-RESUME", v>> \notin KeysOf(history)
    BY <1>1, StoreEventKeys
  <2>3. \A k \in Key : <<"CONTEXT-RESUME", v>> # <<k, 1>>
    BY <1>1, StoreEventKeys
  <2> QED BY <1>2, <2>1, <2>2, <2>3
<1>8. e.seq = Len(history) + 1
  BY <1>2
<1>9. Planned(c, q, "reseal")
  <2> HIDE DEF q, e, v
  <2> QED BY <1>2, <1>3, <1>5, <1>6, <1>7, <1>8, PlanWithEvent
<1> QED BY <1>3, <1>4, <1>9 DEF Plans

LEMMA DriftPlans ==
  ASSUME IInv, SInv, NEW c \in Call, NEW v \in Nat, v > 1, v <= Len(history),
         NEW end \in {"granted", "failed"}, ReplanDrifted(c, v, end),
         MayBlock = FALSE => end = "failed" /\ job[c].op # "recover"
  PROVE  Plans(c)
<1> DEFINE e == Happened("replanned", <<"CONTEXT-DRIFT", v>>, v + 1, None)
<1>1. v + 1 \in Nat /\ Len(history) \in Nat /\ v + 1 <= Len(history) + 1
  BY DEF IInv, TypeOK
<1>2. e \in Event /\ e.key = <<"CONTEXT-DRIFT", v>> /\ e.type = "replanned"
  BY StoreEvents DEF Happened
<1>3. Perform(c, <<AppendEvent(e), Show(v + 1)>>, end)
  BY DEF ReplanDrifted
<1>4. /\ e.key[2] <= Len(history) /\ e.key \notin Key \X {0}
      /\ \A k \in Key : e.key # <<k, 1>>
  BY <1>2, StoreEventKeys
<1> HIDE DEF e
<1> QED BY <1>1, <1>2, <1>3, <1>4, AppendPlans

LEMMA AdvancePlans ==
  ASSUME IInv, SInv, NEW c \in Call, NEW op \in {"hold", "unhold"}, Advance(c, op)
  PROVE  Plans(c)
<1> DEFINE r == job[c]
           type == IF op = "hold" THEN "held" ELSE "resumed"
           q == <<AppendEvent(OwnEvent(r, type, None)), Show(NextVersion)>>
<1>1. Locked(c, op) /\ op \in KeyedOps /\ r.op = op /\ op # "recover" /\ op # "adopt"
  BY DEF Advance, KeyedOps, Locked
<1>2. /\ r \in Request /\ Client(r) \in EventKey
      /\ Len(history) \in Nat /\ NextVersion \in Nat
      /\ NextVersion = Len(history) + 1 /\ Len(history) > 1
  BY <1>1, JobsOfLocked DEF IInv, TypeOK, SInv, KeysAreOld
<1>3. CASE Client(r) \in KeysOf(history) /\ Perform(c, <<>>, "granted")
  BY <1>1, <1>3, SettledByKey, NoWritesPlanned
<1>4. CASE ContextStale(history) /\ ResumeStale(c, Len(history))
  BY <1>4, ResumePlans
<1>5. CASE ReplanDrifted(c, Len(history), "failed")
  <2>1. Len(history) <= Len(history)
    BY <1>2
  <2> QED BY <1>1, <1>2, <1>5, <2>1, DriftPlans
<1>6. CASE New(r) /\ Perform(c, q, "granted")
  <2>1. type \in EventTypes \ {"blocked"} /\ type # "adopted"
    BY DEF EventTypes
  <2> HIDE DEF type
  <2>2. OwnEvent(r, type, None) \in Event
    BY <1>2, <2>1, EventTyped DEF OwnEvent
  <2>3. q \in Seq(Write) /\ Behind(q, Len(history))
    BY <1>2, <2>2, AppendAndShow
  <2>4. /\ q # <<>> /\ q[1] = AppendEvent(OwnEvent(r, type, None))
        /\ \A i \in 2..Len(q) : q[i].file # "events"
    BY DEF Show
  <2>5. Planned(c, q, "granted")
    <3> HIDE DEF q
    <3> QED BY <1>1, <1>2, <1>6, <2>1, <2>3, <2>4, PlanOwnEvent
  <2> QED BY <1>6, <2>3, <2>5 DEF Plans
<1> QED BY <1>3, <1>4, <1>5, <1>6 DEF Advance

LEMMA RecoverPlans ==
  ASSUME IInv, SInv, NEW c \in Call, Recover(c)
  PROVE  Plans(c)
<1>1. CASE ContextStale(history) /\ ResumeStale(c, Len(history))
  BY <1>1, ResumePlans
<1>2. CASE Perform(c, <<Show(Len(history))>>, "granted")
  <2> DEFINE q == <<Show(Len(history))>>
  <2>1. Len(history) \in Nat /\ Len(history) <= Len(history)
    BY DEF IInv, TypeOK
  <2>2. q \in Seq(Write) /\ Behind(q, Len(history))
    BY <2>1, ShowOnly
  <2>3. \A i \in DOMAIN q : q[i].file # "events"
    BY DEF Show
  <2>4. job[c].op = "recover" /\ "recover" \notin KeyedOps
    BY DEF Recover, Locked, KeyedOps
  <2>5. Sound(q, "granted", history) /\ OwnFirst(q, job[c], history)
    BY <2>3 DEF Sound, OwnFirst
  <2>6. Planned(c, q, "granted")
    BY <2>4, <2>5 DEF Planned, Due
  <2> QED BY <1>2, <2>2, <2>6 DEF Plans
<1> QED BY <1>1, <1>2 DEF Recover

LEMMA ResealedPlans ==
  ASSUME IInv, SInv, NEW c \in Call, Resealed(c)
  PROVE  Plans(c)
<1> DEFINE v == loaded[c]
<1>1. pc[c] = "step" /\ todo[c] = <<>> /\ fate[c] = "reseal"
  BY DEF Resealed, SInv, NothingIsLeft
<1>2. MayBlock # FALSE
  BY <1>1 DEF SInv, Ledgered, Due
<1>3. /\ v \in Nat /\ v + 1 \in Nat /\ v + 1 <= Len(history) /\ v <= Len(history)
      /\ Len(history) \in Nat /\ v + 1 <= Len(history) + 1
      /\ job[c] # None
  <2>1. v \in Nat /\ Len(history) \in Nat /\ v + 1 <= Len(history) /\ job[c] # None
    BY <1>1 DEF IInv, TypeOK, ResumeIsDurable, LockKeepsOut, Inside
  <2> QED BY <2>1
<1> HIDE DEF v
<1>4. ASSUME NEW q, q = <<>> \/ q = <<Show(v)>>,
             NEW end \in {"granted", "failed"}, Perform(c, q, end)
      PROVE  Plans(c)
  <2>1. q \in Seq(Write)
    BY <1>3, <1>4, NoWrites, ShowOnly
  <2>2. \A i \in DOMAIN q : q[i].file # "events"
    BY <1>4 DEF Show
  <2>3. Planned(c, q, end)
    BY <1>2, <2>2 DEF Planned, Sound
  <2> QED BY <1>4, <2>1, <2>3 DEF Plans
<1>5. CASE ReplanDrifted(c, v + 1, IF job[c].op = "recover" THEN "granted" ELSE "failed")
  <2>1. (IF job[c].op = "recover" THEN "granted" ELSE "failed") \in {"granted", "failed"}
    OBVIOUS
  <2>2. v + 1 > 1
    BY <1>1, <1>3 DEF SInv, NothingIsLeft, v
  <2> QED BY <1>2, <1>3, <1>5, <2>1, <2>2, DriftPlans
<1>6. CASE /\ job[c].op = "unhold"
           /\ Perform(c, <<AppendEvent(Happened("resumed", Client(job[c]), v + 1, None)),
                           Show(v + 1)>>, "granted")
  <2> DEFINE e == Happened("resumed", Client(job[c]), v + 1, None)
  <2>1. Client(job[c]) \in EventKey
    BY <1>3, <1>6, JobIsRequest, ClientKeys DEF IInv, KeyedOps
  <2>2. e \in Event /\ e.key = Client(job[c])
    <3>1. "resumed" \in EventTypes
      BY DEF EventTypes
    <3> QED BY <1>3, <2>1, <3>1, EventTyped DEF Happened
  <2>3. e.key[2] = 0 /\ \A k \in Key : e.key # <<k, 1>>
    BY <2>2 DEF Client
  <2> HIDE DEF e
  <2>4. e.key[2] <= Len(history)
    BY <1>3, <2>3
  <2>5. Perform(c, <<AppendEvent(e), Show(v + 1)>>, "granted")
    BY <1>6 DEF e
  <2> QED BY <1>2, <1>3, <2>2, <2>3, <2>4, <2>5, AppendPlans
<1> QED BY <1>4, <1>5, <1>6 DEF Resealed, v

-------------------------------------------------------------------------------
(* What a step does to what is still to be written.                           *)

(* A call that has the lock, has found the history sound, and plans.          *)
PlansUnderLock(c) ==
  /\ lock \in {Nobody, c} /\ lock' = c
  /\ ~torn /\ Replayable(history)
  /\ loaded'[c] >= 2
  /\ Plans(c)

StartsWriting(c) ==
  /\ Locked(c, "write")
  /\ pc' = [pc EXCEPT ![c] = "writing"]
  /\ UNCHANGED <<records, outside, request, job, todo, fate, granted>>

LEMMA LockedPlans ==
  ASSUME IInv, SInv, NEW c \in Call, NEW op, Locked(c, op), Plans(c)
  PROVE  PlansUnderLock(c)
<1>1. loaded'[c] = Len(history) /\ Len(history) \in Nat /\ Len(history) >= 2
  BY DEF Locked, IInv, TypeOK, SInv, KeysAreOld
<1> QED BY <1>1 DEF Locked, PlansUnderLock

LEMMA CallsPlan ==
  ASSUME IInv, SInv, NEW c \in Call, CallStep(c)
  PROVE  \/ PlansUnderLock(c) \/ StartsWriting(c)
         \/ EndWriter(c) \/ DoStep(c) \/ Unlock(c)
<1>1. CASE Adopt(c)
  BY <1>1, AdoptPlans, LockedPlans DEF Adopt
<1>2. CASE AddContextEntry(c) \/ FreezeContext(c)
  BY <1>2, ContextPlans, LockedPlans DEF AddContextEntry, FreezeContext
<1>3. CASE RefreshContext(c)
  BY <1>3, RefreshPlans, LockedPlans DEF RefreshContext
<1>4. CASE Approve(c)
  BY <1>4, ApprovePlans, LockedPlans DEF Approve
<1>5. CASE Redispatch(c)
  BY <1>5, RedispatchPlans, LockedPlans DEF Redispatch
<1>6. CASE Advance(c, "hold") \/ Advance(c, "unhold")
  BY <1>6, AdvancePlans, LockedPlans DEF Advance
<1>7. CASE Recover(c)
  BY <1>7, RecoverPlans, LockedPlans DEF Recover
<1>8. CASE Resealed(c)
  <2>1. pc[c] = "step" /\ todo[c] = <<>> /\ lock = c /\ lock' = lock /\ loaded' = loaded
    BY <1>8 DEF Resealed, IInv, LockKeepsOut, Inside
  <2>2. fate[c] = "reseal" /\ loaded[c] >= 2
    BY <2>1 DEF SInv, NothingIsLeft
  <2>3. ~torn /\ Replayable(history)
    BY <2>1, <2>2 DEF SInv, WritesAreSound, Bound
  <2> QED BY <1>8, <2>1, <2>2, <2>3, ResealedPlans DEF PlansUnderLock
<1>9. CASE StartWriter(c)
  <2>1. CASE ReplanDrifted(c, Len(history), "failed")
    <3>1. /\ Locked(c, "write") /\ job[c].op = "write"
          /\ Len(history) \in Nat /\ Len(history) > 1 /\ Len(history) <= Len(history)
      BY <1>9 DEF StartWriter, Locked, IInv, TypeOK, SInv, KeysAreOld
    <3> QED BY <2>1, <3>1, DriftPlans, LockedPlans
  <2>2. CASE /\ pc' = [pc EXCEPT ![c] = "writing"]
             /\ UNCHANGED <<records, outside, request, job, todo, fate, granted>>
    BY <1>9, <2>2 DEF StartWriter, StartsWriting
  <2> QED BY <1>9, <2>1, <2>2 DEF StartWriter
<1> QED BY <1>1, <1>2, <1>3, <1>4, <1>5, <1>6, <1>7, <1>8, <1>9 DEF CallStep

LEMMA PlanningKeepsSound ==
  ASSUME IInv, SInv, NEW c \in Call, PlansUnderLock(c)
  PROVE  SInv'
<1> USE DurableTaskConstants
<1>1. PICK q \in Seq(Write), end \in {"granted", "failed", "reseal"} :
        Perform(c, q, end) /\ Planned(c, q, end)
  BY DEF PlansUnderLock, Plans
<1>2. \A p \in Call \ {c} : /\ ~Inside(p) /\ pc[p] # "writing" /\ pc[p] # "step"
                            /\ pc'[p] = pc[p] /\ todo'[p] = todo[p] /\ fate'[p] = fate[p]
  BY <1>1 DEF IInv, TypeOK, LockKeepsOut, Inside, Perform, PlansUnderLock
<1>3. /\ pc'[c] = IF q = <<>> THEN "unlock" ELSE "step"
      /\ todo'[c] = q /\ fate'[c] = end
      /\ UNCHANGED <<history, torn, projection, request, job>>
  BY <1>1 DEF IInv, TypeOK, Perform, records
<1>4. NothingIsLeft'
  BY <1>1, <1>2, <1>3 DEF SInv, NothingIsLeft, Planned, Inside, PlansUnderLock
<1>5. WritesAreSound'
  <2> SUFFICES ASSUME NEW p \in Call, pc'[p] = "step"
               PROVE  /\ Sound(todo'[p], fate'[p], history)
                      /\ ~torn /\ Replayable(history)
    BY <1>3 DEF WritesAreSound
  <2>1. p = c
    BY <1>2
  <2> QED BY <1>1, <1>3, <2>1 DEF Planned, PlansUnderLock
<1>6. KeysAreOld'
  BY <1>3 DEF SInv, KeysAreOld, KeysOf
<1>7. ASSUME MayBlock = FALSE PROVE Ledgered'
  <2>1. Due(todo'[c], fate'[c], job[c], history, projection)
    BY <1>1, <1>3, <1>7 DEF Planned
  <2>2. \A p \in Call : pc'[p] \in {"step", "unlock"} => p = c
    BY <1>2 DEF Inside
  <2>3. \A p \in Call : pc'[p] # "writing"
    BY <1>2, <1>3
  <2>4. \A p \in Call : pc'[p] \in {"step", "unlock"} =>
          Due(todo'[p], fate'[p], job'[p], history', projection')
    BY <1>3, <2>1, <2>2
  <2> QED BY <1>3, <1>7, <2>3, <2>4 DEF SInv, Ledgered
<1> QED BY <1>4, <1>5, <1>6, <1>7 DEF SInv

(* A step that writes nothing, before the lock or at the end of a call.       *)
LEMMA IdleKeepsSound ==
  ASSUME IInv, SInv, UNCHANGED <<history, projection>>,
         \A p \in Call : /\ pc'[p] = "step" => /\ pc[p] = "step" /\ UNCHANGED torn
                                               /\ todo'[p] = todo[p] /\ fate'[p] = fate[p]
                                               /\ job'[p] = job[p] /\ loaded'[p] = loaded[p]
                         /\ pc'[p] \notin {"step", "dead"} => todo'[p] = <<>>,
         MayBlock = FALSE =>
           /\ \A k \in Key : request'[k] # None => request'[k].key = k
           /\ \A p \in Call : job'[p] # None /\ job'[p].op \in KeyedOps =>
                request'[job'[p].key] = job'[p]
           /\ \A p \in Call : pc'[p] = "unlock" =>
                Due(todo'[p], fate'[p], job'[p], history, projection)
           /\ \A p \in Call : pc'[p] = "writing" => job'[p].op = "write"
  PROVE  SInv'
<1>1. UNCHANGED <<history, projection>>
  OBVIOUS
<1>2. NothingIsLeft'
  BY DEF SInv, NothingIsLeft
<1>3. WritesAreSound'
  <2> SUFFICES ASSUME NEW p \in Call, pc'[p] = "step"
               PROVE  /\ Sound(todo'[p], fate'[p], history)
                      /\ Bound(todo'[p], fate'[p], 0) => ~torn' /\ Replayable(history)
    BY <1>1 DEF WritesAreSound
  <2> QED BY DEF SInv, WritesAreSound
<1>4. KeysAreOld'
  BY <1>1 DEF SInv, KeysAreOld, KeysOf
<1>5. ASSUME MayBlock = FALSE PROVE Ledgered'
  <2>1. \A p \in Call : pc'[p] \in {"step", "unlock"} =>
          Due(todo'[p], fate'[p], job'[p], history', projection')
    <3> SUFFICES ASSUME NEW p \in Call, pc'[p] \in {"step", "unlock"}
                 PROVE  Due(todo'[p], fate'[p], job'[p], history, projection)
      BY <1>1
    <3>1. CASE pc'[p] = "step"
      BY <1>5, <3>1 DEF SInv, Ledgered
    <3>2. CASE pc'[p] = "unlock"
      BY <1>5, <3>2
    <3> QED BY <3>1, <3>2
  <2> QED BY <1>1, <1>5, <2>1 DEF SInv, Ledgered
<1> QED BY <1>2, <1>3, <1>4, <1>5 DEF SInv

(* What the store may write next.                                             *)
LEMMA NextIsSound ==
  ASSUME IInv, SInv, NEW c \in Call, pc[c] = "step", todo[c] # <<>>
  PROVE  LET w == Head(todo[c]) IN
         /\ w \in Write /\ w = todo[c][1] /\ 1 \in DOMAIN todo[c]
         /\ w.file # "projection" => ~torn /\ Replayable(history)
         /\ w.file = "events" =>
              /\ w.value \in Event
              /\ w.value.key[2] <= Len(history)
              /\ \A k \in Key : w.value.key = <<k, 1>> => <<k, 0>> \in KeysOf(history)
              /\ Bound(todo[c], fate[c], 1) =>
                   Replayable(Append(history, w.value))
              /\ MayBlock = FALSE => w.value.type # "blocked"
<1> DEFINE q == todo[c]
           w == Head(q)
<1>1. /\ q \in Seq(Write) /\ w \in Write /\ w = q[1] /\ 1 \in DOMAIN q
      /\ history \in Seq(Event) /\ Len(q) \in Nat /\ 1 \in (0 + 1)..Len(q)
  <2>1. q \in Seq(Write) /\ history \in Seq(Event)
    BY DEF IInv, TypeOK
  <2> QED BY <2>1
<1> HIDE DEF w, q
<1>2. Sound(q, fate[c], history) /\ (Bound(q, fate[c], 0) => ~torn /\ Replayable(history))
  BY DEF SInv, WritesAreSound, q
<1>3. w.file # "projection" => ~torn /\ Replayable(history)
  BY <1>1, <1>2 DEF Bound
<1>4. ASSUME w.file = "events"
      PROVE  /\ w.value \in Event
             /\ w.value.key[2] <= Len(history)
             /\ \A k \in Key : w.value.key = <<k, 1>> => <<k, 0>> \in KeysOf(history)
             /\ Bound(q, fate[c], 1) => Replayable(Append(history, w.value))
             /\ MayBlock = FALSE => w.value.type # "blocked"
  <2>1. w.value \in Event
    BY <1>1, <1>4 DEF Write
  <2>2. /\ w.value.key[2] <= Len(history)
        /\ \A k \in Key : w.value.key = <<k, 1>> =>
             \/ <<k, 0>> \in KeysOf(history)
             \/ \E j \in 1..(1 - 1) : q[j].value.key = <<k, 0>>
        /\ Bound(q, fate[c], 1) =>
             w.value.seq = Len(history) + 1 /\ w.value.key \notin KeysOf(history)
    BY <1>1, <1>2, <1>4 DEF Sound
  <2>3. Bound(q, fate[c], 1) => Replayable(Append(history, w.value))
    <3>1. ~torn /\ Replayable(history)
      BY <1>3, <1>4
    <3> QED BY <1>1, <2>1, <2>2, <3>1, StaysReplayable
  <2>4. MayBlock = FALSE => w.value.type # "blocked"
    BY <1>1, <1>4 DEF SInv, Ledgered, Due, OwnFirst, q
  <2> QED BY <2>1, <2>2, <2>3, <2>4
<1> QED BY <1>1, <1>3, <1>4 DEF w, q

LEMMA AppendKeepsKeys ==
  ASSUME IInv, SInv, NEW e \in Event, e.key[2] <= Len(history),
         \A k \in Key : e.key = <<k, 1>> => <<k, 0>> \in KeysOf(history),
         history' = Append(history, e)
  PROVE  KeysAreOld'
<1>1. /\ history \in Seq(Event) /\ Len(history) >= 2
      /\ \A i \in 1..2 : history[i].key[1] = "EARLIER"
      /\ \A i \in 3..Len(history) : history[i].key[2] < i
      /\ \A k \in Key : <<k, 1>> \in KeysOf(history) => <<k, 0>> \in KeysOf(history)
  BY DEF IInv, TypeOK, SInv, KeysAreOld
<1>2. /\ Len(history') = Len(history) + 1 /\ Len(history) \in Nat
      /\ \A i \in 1..Len(history) : history'[i] = history[i]
      /\ history'[Len(history) + 1] = e
      /\ KeysOf(history') = KeysOf(history) \cup {e.key}
  BY <1>1, KeysOfAppended
<1>3. \A i \in 1..2 : history'[i].key[1] = "EARLIER"
  BY <1>1, <1>2
<1>4. ASSUME NEW i \in 3..Len(history') PROVE history'[i].key[2] < i
  <2>1. CASE i = Len(history) + 1
    <3>1. e.key[2] \in Nat
      BY DEF Event, EventKey
    <3> QED BY <1>2, <2>1, <3>1
  <2>2. CASE i \in 3..Len(history)
    BY <1>1, <1>2, <2>2
  <2> QED BY <1>2, <2>1, <2>2
<1>5. \A k \in Key : <<k, 1>> \in KeysOf(history') => <<k, 0>> \in KeysOf(history')
  BY <1>1, <1>2
<1> QED BY <1>1, <1>2, <1>3, <1>4, <1>5 DEF KeysAreOld

LEMMA WrittenKeepsHistory ==
  ASSUME IInv, SInv, NEW c \in Call, pc[c] = "step", todo[c] # <<>>,
         Written(Head(todo[c]))
  PROVE  /\ KeysAreOld'
         /\ MayBlock = FALSE =>
              \A i \in DOMAIN history' : history'[i].type # "blocked"
<1> DEFINE w == Head(todo[c])
<1> HIDE DEF w
<1>1. CASE w.file = "events"
  <2>1. history' = Append(history, w.value)
    BY <1>1 DEF Written, w
  <2>2. /\ w.value \in Event /\ w.value.key[2] <= Len(history)
        /\ \A k \in Key : w.value.key = <<k, 1>> => <<k, 0>> \in KeysOf(history)
        /\ MayBlock = FALSE => w.value.type # "blocked"
    BY <1>1, NextIsSound DEF w
  <2>3. KeysAreOld'
    BY <2>1, <2>2, AppendKeepsKeys
  <2>4. ASSUME MayBlock = FALSE, NEW i \in DOMAIN history'
        PROVE  history'[i].type # "blocked"
    <3>1. history \in Seq(Event) /\ \A j \in DOMAIN history : history[j].type # "blocked"
      BY <2>4 DEF IInv, TypeOK, SInv, Ledgered
    <3>2. /\ history' \in Seq(Event) /\ Len(history') = Len(history) + 1
          /\ Len(history) \in Nat
          /\ \A j \in 1..Len(history) : history'[j] = history[j]
          /\ history'[Len(history) + 1] = w.value
      BY <2>1, <2>2, <3>1, KeysOfAppended
    <3>3. i \in 1..Len(history) \/ i = Len(history) + 1
      BY <3>2
    <3> QED BY <2>2, <2>4, <3>1, <3>2, <3>3
  <2> QED BY <2>3, <2>4
<1>2. CASE w.file # "events"
  <2>1. history' = history
    BY <1>2 DEF Written, w
  <2>2. KeysAreOld'
    BY <2>1 DEF SInv, KeysAreOld
  <2> QED BY <2>1, <2>2 DEF SInv, Ledgered
<1> QED BY <1>1, <1>2

(* What a call owes its client once the first of its writes is made.          *)
LEMMA DueTail ==
  ASSUME IInv, SInv, MayBlock = FALSE, NEW c \in Call, pc[c] = "step", todo[c] # <<>>,
         Written(Head(todo[c]))
  PROVE  Due(Tail(todo[c]), fate[c], job[c], history', projection')
<1> DEFINE q == todo[c]
           t == Tail(q)
           r == job[c]
           w == Head(q)
<1>1. Due(q, fate[c], r, history, projection)
  BY DEF SInv, Ledgered
<1>2. /\ q \in Seq(Write) /\ t \in Seq(Write) /\ Len(q) \in Nat /\ Len(q) >= 1
      /\ Len(t) = Len(q) - 1 /\ DOMAIN t = 1..Len(t) /\ DOMAIN q = 1..Len(q)
      /\ \A i \in 1..Len(t) : t[i] = q[i + 1]
      /\ w = q[1] /\ 1 \in DOMAIN q /\ history \in Seq(Event)
  <2>1. q \in Seq(Write) /\ history \in Seq(Event) /\ q # <<>>
    BY DEF IInv, TypeOK
  <2> HIDE DEF q
  <2> QED BY <2>1
<1>3. /\ w.file = "events" => w.value \in Event
      /\ history' = IF w.file = "events" THEN Append(history, w.value) ELSE history
      /\ projection' = IF w.file = "projection" THEN w.value ELSE projection
  BY NextIsSound DEF Written
<1>4. ToSet(history) \subseteq ToSet(history')
  <2>1. CASE w.file = "events"
    <3>1. /\ history' = Append(history, w.value) /\ Len(history) \in Nat
          /\ Len(history') = Len(history) + 1 /\ history' \in Seq(Event)
          /\ \A i \in 1..Len(history) : history'[i] = history[i]
      BY <1>2, <1>3, <2>1, KeysOfAppended
    <3> HIDE DEF w
    <3> QED BY <1>2, <3>1 DEF ToSet
  <2>2. CASE w.file # "events"
    BY <1>3, <2>2
  <2> QED BY <2>1, <2>2
<1> HIDE DEF q, t, r, w
<1>5. OwnFirst(t, r, history')
  <2> SUFFICES ASSUME NEW i \in DOMAIN t, t[i].file = "events"
               PROVE  /\ t[i].value.type # "blocked"
                      /\ t[i].value.key \notin Key \X {0}
                      /\ t[i].value.type # "adopted"
    BY DEF OwnFirst
  <2>1. i + 1 \in DOMAIN q /\ q[i + 1] = t[i] /\ i + 1 # 1
    BY <1>2
  <2> QED BY <1>1, <2>1 DEF Due, OwnFirst
<1>6. ASSUME fate[c] = "granted", r.op \in KeyedOps
      PROVE  Settled(r, history')
  <2>1. CASE Settled(r, history)
    BY <1>4, <2>1 DEF Settled
  <2>2. CASE q[1].file = "events" /\ q[1].value.key = Client(r)
    <3>1. history' = Append(history, w.value) /\ w.value \in Event /\ w.value.key = Client(r)
      BY <1>2, <1>3, <2>2
    <3>2. /\ history'[Len(history) + 1] = w.value /\ Len(history) + 1 \in DOMAIN history'
      BY <1>2, <3>1, KeysOfAppended
    <3> QED BY <3>1, <3>2 DEF Settled, ToSet
  <2> QED BY <1>1, <1>6, <2>1, <2>2 DEF Due
<1>7. ASSUME fate[c] = "granted", r.op = "recover"
      PROVE  t = <<>> /\ projection' = Len(history')
  <2>1. q = <<Show(Len(history))>>
    BY <1>1, <1>7 DEF Due, q
  <2>2. t = <<>> /\ w = Show(Len(history))
    BY <2>1 DEF t, w
  <2> QED BY <1>3, <2>2 DEF Show
<1>8. fate[c] = "failed" /\ r.op = "recover" => FALSE
  BY <1>1 DEF Due, q
<1>9. Due(t, fate[c], r, history', projection')
  BY <1>1, <1>5, <1>6, <1>7, <1>8 DEF Due
<1> QED BY <1>9 DEF t, q, r

(* The step of the call inside that leaves these writes, and this fate.       *)
LEMMA WritingKeepsSound ==
  ASSUME IInv, SInv, NEW c \in Call, pc[c] = "step", KeysAreOld',
         MayBlock = FALSE =>
           /\ \A i \in DOMAIN history' : history'[i].type # "blocked"
           /\ Due(todo'[c], fate'[c], job[c], history', projection'),
         UNCHANGED <<request, job, loaded>>,
         \A p \in Call \ {c} : pc'[p] = pc[p] /\ todo'[p] = todo[p],
         pc'[c] \in {"step", "unlock"},
         pc'[c] = "unlock" => todo'[c] = <<>>,
         pc'[c] = "step" =>
           /\ todo'[c] = <<>> => fate'[c] = "reseal"
           /\ Sound(todo'[c], fate'[c], history')
           /\ Bound(todo'[c], fate'[c], 0) => ~torn' /\ Replayable(history')
  PROVE  SInv'
<1>1. \A p \in Call \ {c} : pc[p] # "writing" /\ pc[p] # "step" /\ pc[p] # "unlock"
  BY OneInside DEF Inside
<1>2. NothingIsLeft'
  BY <1>1 DEF SInv, NothingIsLeft
<1>3. WritesAreSound'
  BY <1>1 DEF WritesAreSound
<1>4. ASSUME MayBlock = FALSE PROVE Ledgered'
  <2>1. \A p \in Call : pc'[p] \in {"step", "unlock"} => p = c
    BY <1>1
  <2>2. \A p \in Call : pc'[p] # "writing"
    BY <1>1
  <2>3. \A p \in Call : pc'[p] \in {"step", "unlock"} =>
          Due(todo'[p], fate'[p], job'[p], history', projection')
    BY <1>4, <2>1
  <2> QED BY <1>4, <2>2, <2>3 DEF SInv, Ledgered
<1> QED BY <1>2, <1>3, <1>4 DEF SInv

LEMMA DoStepKeepsSound ==
  ASSUME IInv, SInv, NEW c \in Call, DoStep(c)
  PROVE  SInv'
<1> DEFINE q == todo[c]
           w == Head(q)
<1>1. /\ pc[c] = "step" /\ q # <<>> /\ Written(w)
      /\ pc'[c] = (IF Len(q) = 1 /\ fate[c] # "reseal" THEN "unlock" ELSE "step")
      /\ todo'[c] = Tail(q) /\ fate' = fate
      /\ UNCHANGED <<request, job, loaded, torn>>
      /\ \A p \in Call \ {c} : pc'[p] = pc[p] /\ todo'[p] = todo[p]
  BY DEF DoStep, Written, IInv, TypeOK
<1>2. /\ KeysAreOld'
      /\ MayBlock = FALSE =>
           /\ \A i \in DOMAIN history' : history'[i].type # "blocked"
           /\ Due(todo'[c], fate'[c], job[c], history', projection')
  BY <1>1, WrittenKeepsHistory, DueTail
<1>3. /\ q \in Seq(Write) /\ Len(q) \in Nat /\ Len(q) >= 1 /\ Len(Tail(q)) = Len(q) - 1
      /\ Len(q) = 1 <=> Tail(q) = <<>>
  <2>1. q \in Seq(Write)
    BY DEF IInv, TypeOK
  <2>2. /\ Len(q) \in Nat /\ Len(q) >= 1 /\ Len(Tail(q)) = Len(q) - 1
        /\ Tail(q) \in Seq(Write)
    <3> HIDE DEF q
    <3> QED BY <1>1, <2>1
  <2>3. Len(Tail(q)) = 0 <=> Tail(q) = <<>>
    <3>1. \A t \in Seq(Write) : Len(t) = 0 <=> t = <<>>
      OBVIOUS
    <3> QED BY <2>2, <3>1
  <2> QED BY <2>1, <2>2, <2>3
<1>4. /\ w.file = "events" => w.value \in Event
      /\ history' = IF w.file = "events" THEN Append(history, w.value) ELSE history
      /\ history \in Seq(Event)
  BY <1>1, NextIsSound DEF Written, IInv, TypeOK
<1>5. Sound(Tail(q), fate[c], history')
  <2>1. Sound(q, fate[c], history)
    BY <1>1 DEF SInv, WritesAreSound
  <2> HIDE DEF q
  <2> QED BY <1>1, <1>3, <1>4, <2>1, SoundTail DEF w
<1>6. ASSUME Bound(Tail(q), fate[c], 0) PROVE ~torn' /\ Replayable(history')
  <2>1. Bound(q, fate[c], 1)
    <3>1. Bound(q, fate[c], 0 + 1)
      <4> HIDE DEF q
      <4> QED BY <1>1, <1>3, <1>6, BoundTail
    <3> QED BY <3>1
  <2>2. Bound(q, fate[c], 0)
    <3>1. \A j \in (1 + 1)..Len(q) : j \in (0 + 1)..Len(q)
      BY <1>3
    <3> QED BY <2>1, <3>1 DEF Bound
  <2>3. ~torn /\ Replayable(history)
    BY <1>1, <2>2 DEF SInv, WritesAreSound
  <2>4. w.file = "events" => Replayable(Append(history, w.value))
    BY <1>1, <2>1, NextIsSound
  <2> QED BY <1>1, <1>4, <2>3, <2>4
<1>7. pc'[c] \in {"step", "unlock"} /\ (pc'[c] = "unlock" => todo'[c] = <<>>)
  BY <1>1, <1>3
<1>8. pc'[c] = "step" =>
        /\ todo'[c] = <<>> => fate'[c] = "reseal"
        /\ Sound(todo'[c], fate'[c], history')
        /\ Bound(todo'[c], fate'[c], 0) => ~torn' /\ Replayable(history')
  BY <1>1, <1>3, <1>5, <1>6
<1> HIDE DEF q, w
<1> QED BY <1>1, <1>2, <1>7, <1>8, WritingKeepsSound

LEMMA FaultKeepsSound ==
  ASSUME IInv, SInv, NEW c \in Call, Fault(c)
  PROVE  SInv'
<1> DEFINE w == Head(todo[c])
<1>1. /\ pc[c] = "step" /\ todo[c] # <<>>
      /\ \/ UNCHANGED records
         \/ Torn(w)
         \/ Written(w)
      /\ UNCHANGED <<request, job, loaded>>
  BY DEF Fault
<1>2. /\ KeysAreOld'
      /\ MayBlock = FALSE => \A i \in DOMAIN history' : history'[i].type # "blocked"
  <2>1. CASE UNCHANGED records \/ Torn(w)
    <3>1. history' = history
      BY <2>1 DEF records, Torn
    <3>2. KeysAreOld'
      BY <3>1 DEF SInv, KeysAreOld
    <3> QED BY <3>1, <3>2 DEF SInv, Ledgered
  <2>2. CASE Written(w)
    BY <1>1, <2>2, WrittenKeepsHistory
  <2> QED BY <1>1, <2>1, <2>2
<1>3. CASE job[c].op = "recover" /\ ~torn' /\ Len(history') > loaded[c]
  <2> DEFINE q == <<Show(Len(history'))>>
  <2>1. /\ todo'[c] = q /\ fate'[c] = "granted" /\ pc'[c] = "step"
        /\ \A p \in Call \ {c} : pc'[p] = pc[p] /\ todo'[p] = todo[p]
    BY <1>1, <1>3 DEF Fault, IInv, TypeOK
  <2>2. Len(q) = 1 /\ DOMAIN q = 1..1 /\ q[1].file = "projection" /\ q # <<>>
    BY DEF Show
  <2>3. Sound(q, "granted", history') /\ ~Bound(q, "granted", 0)
    <3> HIDE DEF q
    <3> QED BY <2>2 DEF Sound, Bound
  <2>4. Due(q, "granted", job[c], history', projection')
    <3>1. OwnFirst(q, job[c], history')
      <4> HIDE DEF q
      <4> QED BY <2>2 DEF OwnFirst
    <3> QED BY <1>3, <3>1 DEF Due, KeyedOps
  <2> HIDE DEF q
  <2> QED BY <1>1, <1>2, <2>1, <2>2, <2>3, <2>4, WritingKeepsSound
<1>4. CASE ~(job[c].op = "recover" /\ ~torn' /\ Len(history') > loaded[c])
  <2>1. /\ todo'[c] = <<>> /\ fate'[c] = "failed" /\ pc'[c] = "unlock"
        /\ \A p \in Call \ {c} : pc'[p] = pc[p] /\ todo'[p] = todo[p]
    BY <1>1, <1>4 DEF Fault, IInv, TypeOK
  <2>2. Due(<<>>, "failed", job[c], history', projection')
    BY DEF Due, OwnFirst
  <2> QED BY <1>1, <1>2, <2>1, <2>2, WritingKeepsSound
<1> QED BY <1>3, <1>4

-------------------------------------------------------------------------------
(* Steps that write nothing.                                                  *)

LEMMA StartsWritingKeepsSound ==
  ASSUME IInv, SInv, NEW c \in Call, StartsWriting(c)
  PROVE  SInv'
<1>1. /\ pc[c] = "waiting" /\ pc'[c] = "writing" /\ job[c].op = "write"
      /\ UNCHANGED <<history, torn, projection, request, job, todo, fate>>
      /\ \A p \in Call \ {c} : pc'[p] = pc[p] /\ loaded'[p] = loaded[p]
  BY DEF StartsWriting, Locked, IInv, TypeOK, records
<1> QED BY <1>1, IdleKeepsSound DEF SInv, NothingIsLeft, Ledgered

LEMMA LeavingKeepsSound ==
  ASSUME IInv, SInv, NEW c \in Call,
         EndWriter(c) \/ Unlock(c) \/ Crash(c) \/ RemoveStaleLock(c)
  PROVE  SInv'
<1>1. Inside(c) /\ \A p \in Call \ {c} : ~Inside(p)
  BY OneInside DEF Inside, EndWriter, Unlock, Crash, RemoveStaleLock
<1>2. /\ UNCHANGED <<history, projection>> /\ request' = request
      /\ \A p \in Call \ {c} : pc'[p] = pc[p] /\ todo'[p] = todo[p] /\ job'[p] = job[p]
      /\ job'[c] \in {job[c], None} /\ pc'[c] # "step"
  BY DEF EndWriter, Unlock, Crash, Torn, Forget, RemoveStaleLock, IInv, TypeOK, records
<1>3. pc'[c] # "dead" => todo'[c] = <<>>
  BY DEF EndWriter, Unlock, Crash, RemoveStaleLock, IInv, TypeOK, SInv, NothingIsLeft
<1>4. pc'[c] = "unlock" => EndWriter(c)
  BY DEF Unlock, Crash, RemoveStaleLock, IInv, TypeOK
<1>5. ASSUME MayBlock = FALSE, pc'[c] = "unlock"
      PROVE  Due(todo'[c], fate'[c], job'[c], history, projection)
  <2>1. fate'[c] = "granted" /\ job'[c].op = "write" /\ todo'[c] = <<>>
    BY <1>3, <1>4, <1>5 DEF EndWriter, IInv, TypeOK, SInv, Ledgered
  <2> QED BY <2>1 DEF Due, OwnFirst, KeyedOps
<1>6. pc'[c] # "writing"
  BY DEF EndWriter, Unlock, Crash, RemoveStaleLock, IInv, TypeOK
<1>7. \A p \in Call : pc'[p] \notin {"step", "unlock", "writing"} \/ p = c
  BY <1>1, <1>2 DEF Inside
<1>8. \A p \in Call : pc'[p] \notin {"step", "dead"} => todo'[p] = <<>>
  BY <1>2, <1>3 DEF SInv, NothingIsLeft
<1>9. MayBlock = FALSE =>
           /\ \A k \in Key : request'[k] # None => request'[k].key = k
           /\ \A p \in Call : job'[p] # None /\ job'[p].op \in KeyedOps =>
                request'[job'[p].key] = job'[p]
           /\ \A p \in Call : pc'[p] = "unlock" =>
                Due(todo'[p], fate'[p], job'[p], history, projection)
           /\ \A p \in Call : pc'[p] = "writing" => job'[p].op = "write"
  <2> SUFFICES ASSUME MayBlock = FALSE
               PROVE  /\ \A k \in Key : request'[k] # None => request'[k].key = k
                      /\ \A p \in Call : job'[p] # None /\ job'[p].op \in KeyedOps =>
                           request'[job'[p].key] = job'[p]
                      /\ \A p \in Call : pc'[p] = "unlock" =>
                           Due(todo'[p], fate'[p], job'[p], history, projection)
                      /\ \A p \in Call : pc'[p] = "writing" => job'[p].op = "write"
    OBVIOUS
  <2>1. \A p \in Call : job'[p] # None => job'[p] = job[p]
    BY <1>2
  <2>2. /\ \A k \in Key : request'[k] # None => request'[k].key = k
        /\ \A p \in Call : job'[p] # None /\ job'[p].op \in KeyedOps =>
             request'[job'[p].key] = job'[p]
    BY <1>2, <2>1 DEF SInv, Ledgered
  <2>3. \A p \in Call : pc'[p] = "unlock" => 
             Due(todo'[p], fate'[p], job'[p], history, projection)
    BY <1>5, <1>7
  <2>4. \A p \in Call : pc'[p] # "writing"
    BY <1>6, <1>7
  <2> QED BY <2>2, <2>3, <2>4
<1> QED BY <1>2, <1>7, <1>8, <1>9, IdleKeepsSound

LEMMA AskingKeepsSound ==
  ASSUME IInv, SInv, NEW c \in Call, NEW p \in {"idle", "waiting"}, NEW r,
         pc' = [pc EXCEPT ![c] = p], job' = [job EXCEPT ![c] = r],
         pc[c] \in {"idle", "waiting"},
         UNCHANGED <<history, torn, projection, loaded, todo, fate>>,
         \A k \in Key : request'[k] # None => request'[k] = request[k] \/ request'[k].key = k,
         \A k \in Key : request[k] # None => request'[k] = request[k],
         r # None /\ r.op \in KeyedOps => request'[r.key] = r
  PROVE  SInv'
<1>1. /\ pc'[c] = p /\ job'[c] = r
      /\ \A q \in Call \ {c} : pc'[q] = pc[q] /\ job'[q] = job[q]
  BY DEF IInv, TypeOK
<1>2. \A q \in Call : pc'[q] \notin {"step", "dead"} => todo'[q] = <<>>
  BY <1>1 DEF SInv, NothingIsLeft
<1>3. ASSUME MayBlock = FALSE
      PROVE  /\ \A k \in Key : request'[k] # None => request'[k].key = k
             /\ \A q \in Call : job'[q] # None /\ job'[q].op \in KeyedOps =>
                  request'[job'[q].key] = job'[q]
             /\ \A q \in Call : pc'[q] = "unlock" =>
                  Due(todo'[q], fate'[q], job'[q], history, projection)
             /\ \A q \in Call : pc'[q] = "writing" => job'[q].op = "write"
  <2>1. \A k \in Key : request'[k] # None => request'[k].key = k
    BY <1>3 DEF SInv, Ledgered
  <2>2. ASSUME NEW q \in Call, job'[q] # None, job'[q].op \in KeyedOps
        PROVE  request'[job'[q].key] = job'[q]
    <3>1. CASE q = c
      BY <1>1, <2>2, <3>1
    <3>2. CASE q # c
      <4>1. job[q] \in Request /\ request[job[q].key] = job[q]
        BY <1>1, <1>3, <2>2, <3>2, JobIsRequest DEF SInv, Ledgered, IInv
      <4>2. job[q].key \in Key
        BY <4>1 DEF Request
      <4> QED BY <1>1, <2>2, <3>2, <4>1, <4>2
    <3> QED BY <3>1, <3>2
  <2>3. \A q \in Call : pc'[q] \in {"unlock", "writing"} => q # c
    BY <1>1
  <2>4. \A q \in Call : pc'[q] = "unlock" =>
          Due(todo'[q], fate'[q], job'[q], history, projection)
    BY <1>1, <1>3, <2>3 DEF SInv, Ledgered
  <2> QED BY <1>1, <1>3, <2>1, <2>2, <2>3, <2>4 DEF SInv, Ledgered
<1> QED BY <1>1, <1>2, <1>3, IdleKeepsSound

(* The calls that are not inside, and the user's own files.                   *)
LEMMA SubmitKeepsSound ==
  ASSUME IInv, SInv, NEW c \in Call, NEW op \in KeyedOps, NEW k \in Key,
         Submit(c, [op |-> op, key |-> k, expected |-> Len(history), tree |-> tree])
  PROVE  SInv'
<1> DEFINE r == [op |-> op, key |-> k, expected |-> Len(history), tree |-> tree]
<1>1. r.key = k /\ Submit(c, r)
  OBVIOUS
<1> HIDE DEF r
<1>2. /\ \A j \in Key : request'[j] = (IF j = k THEN r ELSE request[j])
      /\ request[k] = None
      /\ pc[c] = "idle"
      /\ pc' = [pc EXCEPT ![c] = "waiting"] /\ job' = [job EXCEPT ![c] = r]
      /\ UNCHANGED <<history, torn, projection, loaded, todo, fate>>
  BY <1>1 DEF Submit, IInv, TypeOK, records
<1>3. /\ \A j \in Key : request'[j] # None => request'[j] = request[j] \/ request'[j].key = j
      /\ \A j \in Key : request[j] # None => request'[j] = request[j]
      /\ request'[r.key] = r
  BY <1>1, <1>2
<1> QED BY <1>2, <1>3, AskingKeepsSound

LEMMA OthersKeepSound ==
  ASSUME IInv, SInv, NEW c \in Call,
         \/ GiveUp(c)
         \/ \E k \in Key : Retry(c, k)
         \/ AskWithoutKey(c, [op |-> "write", expected |-> Len(history)])
         \/ AskWithoutKey(c, [op |-> "recover"])
  PROVE  SInv'
<1>1. CASE GiveUp(c)
  <2>1. /\ pc[c] = "waiting" /\ request' = request
        /\ pc' = [pc EXCEPT ![c] = "idle"] /\ job' = [job EXCEPT ![c] = None]
        /\ UNCHANGED <<history, torn, projection, loaded, todo, fate>>
    BY <1>1 DEF GiveUp, records
  <2> QED BY <2>1, AskingKeepsSound
<1>2. ASSUME NEW k \in Key, Retry(c, k) PROVE SInv'
  <2>1. /\ pc[c] = "idle" /\ request' = request
        /\ pc' = [pc EXCEPT ![c] = "waiting"] /\ job' = [job EXCEPT ![c] = request[k]]
        /\ UNCHANGED <<history, torn, projection, loaded, todo, fate>>
    BY <1>2 DEF Retry, records
  <2>2. CASE MayBlock = FALSE
    <3>1. request[k].key = k
      BY <1>2, <2>2 DEF Retry, SInv, Ledgered
    <3>2. request'[request[k].key] = request[k]
      BY <2>1, <3>1
    <3> QED BY <2>1, <3>2, AskingKeepsSound
  <2>3. CASE MayBlock # FALSE
    <3>1. /\ pc'[c] = "waiting"
          /\ \A q \in Call \ {c} : pc'[q] = pc[q] /\ job'[q] = job[q]
      BY <2>1 DEF IInv, TypeOK
    <3>2. \A q \in Call : pc'[q] \notin {"step", "dead"} => todo'[q] = <<>>
      BY <2>1, <3>1 DEF SInv, NothingIsLeft
    <3> QED BY <2>1, <2>3, <3>1, <3>2, IdleKeepsSound
  <2> QED BY <2>2, <2>3
<1>3. ASSUME NEW r, r.op \notin KeyedOps, AskWithoutKey(c, r) PROVE SInv'
  <2>1. /\ pc[c] = "idle" /\ request' = request
        /\ pc' = [pc EXCEPT ![c] = "waiting"] /\ job' = [job EXCEPT ![c] = r]
        /\ UNCHANGED <<history, torn, projection, loaded, todo, fate>>
    BY <1>3 DEF AskWithoutKey, records
  <2> QED BY <1>3, <2>1, AskingKeepsSound
<1>4. /\ [op |-> "write", expected |-> Len(history)].op \notin KeyedOps
      /\ [op |-> "recover"].op \notin KeyedOps
  BY DEF KeyedOps
<1> QED BY <1>1, <1>2, <1>3, <1>4

LEMMA StillKeepsSound ==
  ASSUME IInv, SInv, UNCHANGED <<records, lock, request, calls, granted>>
  PROVE  SInv'
<1>1. UNCHANGED <<history, torn, projection, request, pc, job, loaded, todo, fate>>
  BY DEF records, calls
<1> QED BY <1>1, IdleKeepsSound DEF SInv, NothingIsLeft, Ledgered

LEMMA NextKeepsSound == IInv /\ SInv /\ [Next]_vars => SInv'
<1> SUFFICES ASSUME IInv, SInv, [Next]_vars PROVE SInv'
  OBVIOUS
<1>1. ASSUME NEW c \in Call, CallStep(c) PROVE SInv'
  BY <1>1, CallsPlan, PlanningKeepsSound, StartsWritingKeepsSound, LeavingKeepsSound,
     DoStepKeepsSound
<1>2. ASSUME NEW c \in Call,
             \/ GiveUp(c)
             \/ \E k \in Key : Retry(c, k)
             \/ AskWithoutKey(c, [op |-> "write", expected |-> Len(history)])
             \/ AskWithoutKey(c, [op |-> "recover"])
      PROVE  SInv'
  BY <1>2, OthersKeepSound
<1>3. CASE \/ \E x \in Content : SourceChanges(x)
           \/ \E t \in Tree : TreeChanges(t)
           \/ UNCHANGED vars
  BY <1>3, StillKeepsSound DEF SourceChanges, TreeChanges, vars, records, calls
<1> QED BY <1>1, <1>2, <1>3, SubmitKeepsSound, FaultKeepsSound, LeavingKeepsSound DEF Next

LEMMA InitSound == Init => SInv
<1> SUFFICES ASSUME Init PROVE SInv
  OBVIOUS
<1> USE DurableTaskConstants
<1>1. /\ Len(history) = 2 /\ DOMAIN history = {1, 2}
      /\ history[1].key = <<"EARLIER", 1>> /\ history[1].type = "frozen"
      /\ history[2].key = <<"EARLIER", 2>> /\ history[2].type = "approved"
  BY DEF Init, Happened
<1>2. \A c \in Call : pc[c] = "idle" /\ todo[c] = <<>> /\ job[c] = None
  BY DEF Init
<1>3. KeysOf(history) = {<<"EARLIER", 1>>, <<"EARLIER", 2>>}
  BY <1>1 DEF KeysOf, ToSet
<1>4. KeysAreOld
  BY <1>1, <1>3 DEF KeysAreOld
<1>5. NothingIsLeft /\ WritesAreSound
  BY <1>2 DEF NothingIsLeft, WritesAreSound
<1>6. Ledgered
  <2>1. \A k \in Key : request[k] = None
    BY DEF Init
  <2> QED BY <1>1, <1>2, <2>1 DEF Ledgered
<1> QED BY <1>4, <1>5, <1>6 DEF SInv

(* Both halves of the inductive invariant hold in every reachable state.      *)
THEOREM WritesStaySound == Spec => []SInv
<1>1. Init => IInv /\ SInv
  BY InitIsSound, InitSound
<1>2. IInv /\ SInv /\ [Next]_vars => (IInv /\ SInv)'
  BY NextKeeps, NextKeepsSound
<1> QED BY <1>1, <1>2, PTL DEF Spec

LEMMA BrokenStandsStill ==
  ASSUME IInv, SInv, [Next]_vars, torn \/ ~Replayable(history)
  PROVE  UNCHANGED <<history, torn, manifest, baseline>>
<1>1. ASSUME NEW c \in Call, pc[c] = "step", todo[c] # <<>>
      PROVE  Head(todo[c]).file = "projection"
  BY <1>1, NextIsSound
<1>2. ASSUME NEW c \in Call, CallStep(c)
      PROVE  UNCHANGED <<history, torn, manifest, baseline>>
  <2>1. CASE PlansUnderLock(c) \/ StartsWriting(c)
    BY <2>1 DEF PlansUnderLock, StartsWriting, Locked
  <2>2. CASE DoStep(c)
    BY <1>1, <2>2 DEF DoStep, Written
  <2>3. CASE EndWriter(c) \/ Unlock(c)
    BY <2>3 DEF EndWriter, Unlock, records
  <2> QED BY <1>2, <2>1, <2>2, <2>3, CallsPlan
<1>3. ASSUME NEW c \in Call, Fault(c) \/ Crash(c)
      PROVE  UNCHANGED <<history, torn, manifest, baseline>>
  <2>1. CASE Fault(c)
    BY <1>1, <2>1 DEF Fault, Torn, records
  <2>2. CASE Crash(c)
    BY <1>1, <2>2 DEF Crash, Torn, records, SInv, NothingIsLeft
  <2> QED BY <1>3, <2>1, <2>2
<1>4. ASSUME UNCHANGED records PROVE UNCHANGED <<history, torn, manifest, baseline>>
  BY <1>4 DEF records
<1>5. ASSUME NEW c \in Call, GiveUp(c) \/ RemoveStaleLock(c)
                             \/ (\E r : Submit(c, r) \/ AskWithoutKey(c, r))
                             \/ \E k \in Key : Retry(c, k)
      PROVE  UNCHANGED records
  BY <1>5 DEF GiveUp, RemoveStaleLock, Submit, AskWithoutKey, Retry
<1>6. ASSUME \/ \E x \in Content : SourceChanges(x)
             \/ \E t \in Tree : TreeChanges(t)
             \/ UNCHANGED vars
      PROVE  UNCHANGED records
  BY <1>6 DEF SourceChanges, TreeChanges, vars, records
<1> QED BY <1>2, <1>3, <1>4, <1>5, <1>6 DEF Next

(* loadTask replays before anything is written: after half a line or a        *)
(* sequence that repeats, neither the history nor a file that binds to it     *)
(* changes again, not even by a call that had more writes to make.            *)
THEOREM BrokenHistoriesAreLeft == Spec => BrokenHistoryStandsStill
<1>1. IInv /\ SInv /\ [Next]_vars =>
        [torn \/ ~Replayable(history) =>
           UNCHANGED <<history, torn, manifest, baseline>>]_vars
  BY BrokenStandsStill
<1> QED BY <1>1, InvariantHolds, WritesStaySound, PTL DEF Spec, BrokenHistoryStandsStill

(* recoverDurableTask: where no dispatch finds its Context stale, a recovery  *)
(* that succeeds leaves the Projection of the whole history, whatever failed. *)
THEOREM RecoveriesShowHistory ==
  ASSUME MayBlock = FALSE
  PROVE  Spec => []RecoveryShowsHistory
<1>1. IInv /\ SInv => RecoveryShowsHistory
  <2> SUFFICES ASSUME IInv, SInv, NEW c \in Call, pc[c] = "unlock", fate[c] = "granted",
                      job[c].op = "recover"
               PROVE  projection = Len(history)
    BY DEF RecoveryShowsHistory
  <2>1. todo[c] = <<>> /\ Due(todo[c], fate[c], job[c], history, projection)
    BY DEF SInv, NothingIsLeft, Ledgered
  <2>2. <<Show(Len(history))>> # <<>>
    OBVIOUS
  <2> QED BY <2>1, <2>2 DEF Due
<1> QED BY <1>1, InvariantHolds, WritesStaySound, PTL

-------------------------------------------------------------------------------
(* The ledger.                                                                *)

Log(h) == [i \in DOMAIN h |-> Entry(h[i])]

LEMMA LogAppended ==
  ASSUME NEW h \in Seq(Event), NEW e \in Event
  PROVE  /\ Len(Log(h)) = Len(h)
         /\ Log(Append(h, e)) = Append(Log(h), Entry(e))
         /\ ToSet(Log(h)) = {Entry(f) : f \in ToSet(h)}
<1> DEFINE L == [i \in 1..Len(h) |-> Entry(h[i])]
<1>1. /\ Len(h) \in Nat /\ DOMAIN h = 1..Len(h) /\ Log(h) = L
      /\ DOMAIN Append(h, e) = 1..(Len(h) + 1)
      /\ \A i \in 1..Len(h) : Append(h, e)[i] = h[i]
      /\ Append(h, e)[Len(h) + 1] = e
  BY KeysOfAppended DEF Log
<1>2. L \in Seq({Entry(f) : f \in ToSet(h)}) /\ Len(L) = Len(h)
  <2>1. L \in [1..Len(h) -> {Entry(f) : f \in ToSet(h)}]
    BY <1>1 DEF ToSet
  <2> QED BY <1>1, <2>1
<1>3. Append(L, Entry(e)) = [i \in 1..(Len(h) + 1) |-> IF i = Len(h) + 1 THEN Entry(e) ELSE L[i]]
  BY <1>2 
<1>4. Log(Append(h, e)) = [i \in 1..(Len(h) + 1) |-> Entry(Append(h, e)[i])]
  BY <1>1 DEF Log
<1>5. \A i \in 1..(Len(h) + 1) : Entry(Append(h, e)[i]) = IF i = Len(h) + 1 THEN Entry(e) ELSE L[i]
  BY <1>1
<1>6. ToSet(L) = {Entry(f) : f \in ToSet(h)}
  BY <1>1, <1>2 DEF ToSet
<1> QED BY <1>1, <1>2, <1>3, <1>4, <1>5, <1>6

LEMMA LedgerSets == \A s : Ledger!ToSet(s) = ToSet(s)
  BY DEF Ledger!ToSet, ToSet

LEMMA LedgerStarts == Init => Ledger!Init
<1> SUFFICES ASSUME Init PROVE Ledger!Init
  OBVIOUS
<1> DEFINE blank == [who |-> None, what |-> None]
           log == [i \in DOMAIN history |-> Entry(history[i])]
<1>1. /\ Len(history) = 2 /\ DOMAIN history = 1..2
      /\ history[1].key = <<"EARLIER", 1>> /\ history[1].type = "frozen"
      /\ history[2].key = <<"EARLIER", 2>> /\ history[2].type = "approved"
  BY DEF Init, Happened
<1>2. /\ \A i \in 1..2 : history[i].key \notin Key \X {0}
      /\ \A i \in 1..2 : history[i].type # "adopted"
  BY <1>1
<1>3. \A i \in 1..2 : Entry(history[i]) = blank
  BY <1>2 DEF Entry
<1>4. log = [i \in 1..2 |-> blank]
  BY <1>1, <1>3
<1>5. blank \in Ledger!Entries
  BY DEF Ledger!Entries
<1>6. log \in Seq(Ledger!Entries) /\ \A e \in ToSet(log) : e = blank
  <2>1. log \in [1..2 -> Ledger!Entries]
    BY <1>4, <1>5
  <2>2. \A e \in ToSet(log) : e = blank
    BY <1>4 DEF ToSet
  <2> QED BY <2>1, <2>2
<1>7. [k \in Key |-> IF request[k] = None THEN None ELSE Asked(request[k])]
        = [k \in Key |-> None]
  BY DEF Init
<1>8. granted = {}
  BY DEF Init
<1>9. Ledger!ToSet(log) = ToSet(log)
  BY LedgerSets
<1> QED BY <1>6, <1>7, <1>8, <1>9 DEF Ledger!Init

LEMMA AskIsRequest ==
  ASSUME NEW r \in Request
  PROVE  Asked(r) \in Ledger!Requests /\ Asked(r) # None
<1>1. Asked(r) \in [version : Nat, what : Tree \cup {None}]
  BY DEF Asked, Request
<1> QED BY <1>1, NoneIsNoRequest DEF Ledger!Requests

(* A request is written in the ledger, or something of the store's own is.    *)
LEMMA LedgerGrows ==
  ASSUME IInv, SInv, MayBlock = FALSE, NEW c \in Call, pc[c] = "step", todo[c] # <<>>,
         Written(Head(todo[c])), UNCHANGED <<request, granted>>
  PROVE  [Ledger!Next]_(Ledger!vars)
<1> USE DurableTaskConstants
<1> DEFINE w == Head(todo[c])
           r == job[c]
<1>1. CASE w.file # "events"
  <2>1. UNCHANGED <<history, request, granted>>
    BY <1>1 DEF Written
  <2> QED BY <2>1 DEF Ledger!vars
<1>2. CASE w.file = "events"
  <2> DEFINE e == w.value
  <2>1. history' = Append(history, e) /\ e \in Event /\ history \in Seq(Event)
    BY <1>2, NextIsSound DEF Written, IInv, TypeOK
  <2>2. /\ [i \in DOMAIN history' |-> Entry(history'[i])]
             = Append([i \in DOMAIN history |-> Entry(history[i])], Entry(e))
        /\ Len([i \in DOMAIN history |-> Entry(history[i])]) = Len(history)
        /\ ToSet([i \in DOMAIN history |-> Entry(history[i])])
             = {Entry(f) : f \in ToSet(history)}
    BY <2>1, LogAppended DEF Log
  <2>3. /\ e.key \notin Key \X {0} => e.type # "adopted"
        /\ e.key \in Key \X {0} =>
             /\ r.op \in KeyedOps /\ e.key = Client(r)
             /\ r.expected = Len(history) /\ Client(r) \notin KeysOf(history)
             /\ Entry(e).what = Asked(r).what
    <3>1. OwnFirst(todo[c], r, history) /\ 1 \in DOMAIN todo[c] /\ todo[c][1] = w
      BY NextIsSound DEF SInv, Ledgered, Due
    <3> QED BY <1>2, <3>1 DEF OwnFirst
  <2> HIDE DEF e
  <2>4. CASE e.key \notin Key \X {0}
    <3>1. Entry(e) = [who |-> None, what |-> None]
      BY <2>3, <2>4 DEF Entry
    <3>2. Ledger!Record
      BY <2>2, <3>1 DEF Ledger!Record
    <3> QED BY <3>2 DEF Ledger!Next
  <2>5. CASE e.key \in Key \X {0}
    <3> DEFINE k == r.key
    <3>1. e.key = <<k, 0>> /\ k \in Key /\ Client(r) = <<k, 0>>
      BY <2>3, <2>5 DEF Client
    <3>2. r # None /\ r.op \in KeyedOps
      BY <2>3, <2>5 DEF IInv, LockKeepsOut, Inside
    <3>3. r \in Request /\ request[k] = r
      BY <3>2, JobIsRequest DEF SInv, Ledgered, IInv
    <3>4. k \in Key
      BY <3>3 DEF Request
    <3>5. e.key = <<k, 0>> /\ Client(r) = <<k, 0>>
      BY <2>3, <2>5 DEF Client
    <3> DEFINE asked == [j \in Key |-> IF request[j] = None THEN None ELSE Asked(request[j])]
    <3>6. asked[k] = Asked(r) /\ Asked(r) # None /\ Asked(r).version = Len(history)
      <4>1. Asked(r) # None
        BY <3>3, AskIsRequest
      <4> QED BY <2>3, <2>5, <3>2, <3>3, <3>4, <4>1 DEF Asked
    <3>7. Entry(e) = [who |-> k, what |-> asked[k].what]
      BY <2>3, <2>5, <3>5, <3>6 DEF Entry
    <3>8. \A f \in ToSet(history) : Entry(f).who # k
      <4> SUFFICES ASSUME NEW f \in ToSet(history), Entry(f).who = k
                   PROVE  FALSE
        OBVIOUS
      <4>1. f.key \in Key \X {0}
        BY <3>4 DEF Entry
      <4>2. f.key = <<k, 0>>
        BY <4>1 DEF Entry
      <4> QED BY <2>3, <2>5, <3>5, <4>2 DEF KeysOf
    <3> DEFINE log == [i \in DOMAIN history |-> Entry(history[i])]
    <3>9. Ledger!Accept(k)
      <4>1. asked' = asked /\ granted' = granted
        OBVIOUS
      <4>2. \A f \in Ledger!ToSet(log) : f.who # k
        BY <2>2, <3>8, LedgerSets
      <4>3. log' = Append(log, [who |-> k, what |-> asked[k].what])
        BY <2>2, <3>7
      <4>4. asked[k] # None /\ asked[k].version = Len(log)
        BY <2>2, <3>6
      <4> HIDE DEF r, e, k
      <4> QED BY <4>1, <4>2, <4>3, <4>4 DEF Ledger!Accept
    <3> QED BY <3>4, <3>9 DEF Ledger!Next
  <2> QED BY <2>4, <2>5
<1> QED BY <1>1, <1>2

LEMMA LedgerAnswers ==
  ASSUME IInv, SInv, MayBlock = FALSE, NEW c \in Call, Unlock(c)
  PROVE  [Ledger!Next]_(Ledger!vars)
<1> USE DurableTaskConstants
<1> DEFINE r == job[c]
           k == r.key
           log == [i \in DOMAIN history |-> Entry(history[i])]
           asked == [j \in Key |-> IF request[j] = None THEN None ELSE Asked(request[j])]
<1>1. pc[c] = "unlock" /\ UNCHANGED <<history, request>>
  BY DEF Unlock, records
<1>2. CASE granted' = granted
  BY <1>1, <1>2 DEF Ledger!vars
<1>3. CASE granted' # granted
  <2>1. granted' = granted \cup {k} /\ fate[c] = "granted" /\ r.op \in KeyedOps
    BY <1>3 DEF Unlock
  <2>2. r # None
    BY <1>1 DEF IInv, LockKeepsOut, Inside
  <2>3. r \in Request /\ request[k] = r /\ k \in Key /\ r.tree \in Tree
    <3>1. r \in Request /\ request[k] = r
      BY <1>1, <2>1, <2>2, JobIsRequest DEF SInv, Ledgered, IInv
    <3> QED BY <3>1 DEF Request
  <2>4. asked[k] = Asked(r) /\ Asked(r) # None
    BY <2>2, <2>3, AskIsRequest
  <2>5. Settled(r, history)
    BY <1>1, <2>1 DEF SInv, NothingIsLeft, Ledgered, Due
  <2>6. PICK f \in ToSet(history) :
          f.key = Client(r) \/ (r.op = "adopt" /\ f.type = "adopted" /\ f.id = r.tree)
    BY <2>5 DEF Settled
  <2>7. Entry(f) \in Ledger!ToSet(log)
    <3>1. history \in Seq(Event)
      BY DEF IInv, TypeOK
    <3>2. ToSet(Log(history)) = {Entry(g) : g \in ToSet(history)}
      <4> SUFFICES ASSUME NEW x
                   PROVE  x \in ToSet(Log(history))
                            <=> x \in {Entry(g) : g \in ToSet(history)}
        OBVIOUS
      <4> QED BY <3>1 DEF Log, ToSet
    <3> QED BY <3>2, LedgerSets DEF Log
  <2>8. Entry(f).who = k \/ (Entry(f).what # None /\ Entry(f).what = asked[k].what)
    <3>1. CASE f.key = Client(r)
      BY <2>3, <3>1 DEF Client, Entry
    <3>2. CASE r.op = "adopt" /\ f.type = "adopted" /\ f.id = r.tree
      BY <2>3, <2>4, <3>2 DEF Entry, Asked
    <3> QED BY <2>6, <3>1, <3>2
  <2>9. Ledger!Answer(k)
    <3>1. log' = log /\ asked' = asked
      BY <1>1
    <3>2. \E e \in Ledger!ToSet(log) : e.who = k \/ (e.what # None /\ e.what = asked[k].what)
      BY <2>7, <2>8
    <3>3. asked[k] # None
      BY <2>4
    <3> HIDE DEF r, k
    <3> QED BY <2>1, <3>1, <3>2, <3>3 DEF Ledger!Answer
  <2> QED BY <2>3, <2>9 DEF Ledger!Next
<1> QED BY <1>2, <1>3

LEMMA LedgerAsks ==
  ASSUME IInv, NEW c \in Call, NEW op \in KeyedOps, NEW k \in Key,
         Submit(c, [op |-> op, key |-> k, expected |-> Len(history), tree |-> tree])
  PROVE  [Ledger!Next]_(Ledger!vars)
<1> USE DurableTaskConstants
<1> DEFINE r == [op |-> op, key |-> k, expected |-> Len(history), tree |-> tree]
           log == [i \in DOMAIN history |-> Entry(history[i])]
           asked == [j \in Key |-> IF request[j] = None THEN None ELSE Asked(request[j])]
<1>1. r.key = k /\ r \in Request /\ Submit(c, r)
  BY DEF IInv, TypeOK, Request
<1>2. r # None
  BY <1>1, NoneIsNoRequest
<1> HIDE DEF r
<1>3. /\ request[k] = None /\ request' = [request EXCEPT ![k] = r]
      /\ UNCHANGED <<history, granted>>
  BY <1>1 DEF Submit, records
<1>4. /\ request'[k] = r
      /\ \A j \in Key \ {k} : request'[j] = request[j]
  BY <1>3 DEF IInv, TypeOK
<1>5. asked[k] = None /\ asked'[k] = Asked(r) /\ \A j \in Key \ {k} : asked'[j] = asked[j]
  BY <1>2, <1>3, <1>4
<1>6. asked'[k] \in Ledger!Requests
  BY <1>1, <1>5, AskIsRequest
<1>7. asked' = [asked EXCEPT ![k] = asked'[k]]
  <2>1. DOMAIN asked' = Key /\ DOMAIN asked = Key
    OBVIOUS
  <2> QED BY <1>5, <2>1
<1>8. Ledger!Ask(k)
  BY <1>3, <1>5, <1>6, <1>7 DEF Ledger!Ask
<1> QED BY <1>8 DEF Ledger!Next

LEMMA LedgerStands ==
  ASSUME UNCHANGED <<history, request, granted>>
  PROVE  [Ledger!Next]_(Ledger!vars)
  BY DEF Ledger!vars

LEMMA LedgerStep ==
  ASSUME IInv, SInv, MayBlock = FALSE, [Next]_vars
  PROVE  [Ledger!Next]_(Ledger!vars)
<1>1. ASSUME NEW c \in Call, CallStep(c) PROVE [Ledger!Next]_(Ledger!vars)
  <2>1. CASE PlansUnderLock(c)
    BY <2>1, LedgerStands DEF PlansUnderLock, Plans, Perform, records
  <2>2. CASE StartsWriting(c) \/ EndWriter(c)
    BY <2>2, LedgerStands DEF StartsWriting, EndWriter, records
  <2>3. CASE DoStep(c)
    BY <2>3, LedgerGrows DEF DoStep
  <2>4. CASE Unlock(c)
    BY <2>4, LedgerAnswers
  <2> QED BY <1>1, <2>1, <2>2, <2>3, <2>4, CallsPlan
<1>2. ASSUME NEW c \in Call, Fault(c) PROVE [Ledger!Next]_(Ledger!vars)
  <2>1. pc[c] = "step" /\ todo[c] # <<>> /\ UNCHANGED <<request, granted>>
    BY <1>2 DEF Fault
  <2>2. CASE UNCHANGED records \/ Torn(Head(todo[c]))
    BY <2>1, <2>2, LedgerStands DEF records, Torn
  <2>3. CASE Written(Head(todo[c]))
    BY <2>1, <2>3, LedgerGrows
  <2> QED BY <1>2, <2>2, <2>3 DEF Fault
<1>3. ASSUME NEW c \in Call,
             \/ GiveUp(c) \/ Crash(c) \/ RemoveStaleLock(c)
             \/ (\E k \in Key : Retry(c, k)) \/ (\E r : AskWithoutKey(c, r))
      PROVE  [Ledger!Next]_(Ledger!vars)
  BY <1>3, LedgerStands DEF GiveUp, Crash, Torn, RemoveStaleLock, Retry, AskWithoutKey, records
<1>4. CASE \/ \E x \in Content : SourceChanges(x)
           \/ \E t \in Tree : TreeChanges(t)
           \/ UNCHANGED vars
  BY <1>4, LedgerStands DEF SourceChanges, TreeChanges, vars, records
<1> QED BY <1>1, <1>2, <1>3, <1>4, LedgerAsks DEF Next

(* The durable store implements TaskLedger where no dispatch finds its        *)
(* Context stale: however its writes fail and its calls are repeated, a key   *)
(* gets one entry, at the version its request named, and no success is        *)
(* reported that the history does not bear out.                               *)
THEOREM StoreIsALedger ==
  ASSUME MayBlock = FALSE
  PROVE  Spec => LedgerSpec
<1>1. IInv /\ SInv /\ [Next]_vars => [Ledger!Next]_(Ledger!vars)
  BY LedgerStep
<1> QED BY <1>1, LedgerStarts, InvariantHolds, WritesStaySound, PTL
        DEF Spec, LedgerSpec, Ledger!Spec
================================================================================
