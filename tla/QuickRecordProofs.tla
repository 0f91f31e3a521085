-------------------------- MODULE QuickRecordProofs --------------------------
(* Theorems of QuickRecord, for any number of invocations and requests, any   *)
(* files and contents, and whatever the user does meanwhile.                  *)
EXTENDS QuickRecord, TLAPS

Held == {"baseline", "capture", "result", "move"}
Writing == {"create", "read", "implement", "adopt", "baseline", "write", "capture",
            "review", "finish", "complete", "result", "promote"}

(* A call that is past the Task lock holds it.                                *)
LocksAreHeld == \A r \in Run : pc[r] \in Held => lock = r

(* What an invocation has in its hands at each step; what it found under the  *)
(* Task lock stands as long as it holds it.                                   *)
Completes(r) ==
  /\ pc[r] \in Writing => request[r] \in Change
  /\ pc[r] \in {"implement", "adopt"} => seen[r] # None
  /\ pc[r] \in {"review", "finish", "complete", "result"} => after[r] # None
  /\ pc[r] \in {"requireActive", "requireArchive", "replace"} => found[r] # None
LastIsAdopted(history) ==
  /\ Len(history) \in Adoptions(history)
  /\ history[Len(history)].base \in Baseline
Stands(r) ==
  /\ pc[r] = "baseline" => runtime # None /\ LastIsAdopted(runtime.history)
  /\ pc[r] = "result" =>
       /\ runtime # None /\ runtime.baseline # None
       /\ Changed(runtime.baseline, after[r]) = {Scope}
       /\ Has(runtime.history, "completed")
  /\ pc[r] = "move" => active # None /\ Has(active.history, "archived")

(* A record: one Baseline was adopted, which is the one on file; and the      *)
(* result is of the history, the Baseline and a change of the scope.          *)
AdoptedOnce(history) ==
  \A i, j \in Adoptions(history) : i = j /\ history[i].base \in Baseline
Sound(record) ==
  /\ AdoptedOnce(record.history)
  /\ record.baseline # None =>
       /\ Adoptions(record.history) # {}
       /\ record.baseline = Adopted(record.history)
  /\ record.result # None =>
       /\ Adoptions(record.history) # {}
       /\ At(record.result.workflow, "completed")
       /\ IsPrefixOf(record.result.workflow, record.history)
       /\ record.result.before = Adopted(record.history)
       /\ Changed(record.result.before, record.result.after) = {Scope}

(* As long as one Quick was created there is one record, in one place, and    *)
(* what the invocations have seen is an earlier state of it.                  *)
NothingYet ==
  /\ runtime = None /\ active = None /\ archive = None
  /\ \A r \in Run : seen[r] = None /\ pc[r] # "promote"
InOnePlace ==
  /\ runtime = None \/ active = None
  /\ runtime = None \/ archive = None
  /\ active = None \/ archive = None
Records == {runtime, active, archive} \ {None}
RecordsAreSound ==
  /\ \A record \in Records :
       /\ Sound(record)
       /\ \A r \in Run : seen[r] # None => IsPrefixOf(seen[r].history, record.history)
  /\ runtime # None =>
       /\ ~Has(runtime.history, "archived")
       /\ \A r \in Run : pc[r] = "promote" => runtime.result # None
  /\ active # None => active.result # None
  /\ archive # None => archive.result # None /\ Has(archive.history, "archived")

IInv ==
  /\ TypeOK /\ LocksAreHeld
  /\ \A r \in Run : Completes(r) /\ Stands(r)
  /\ created = 0 => NothingYet
  /\ created <= 1 => InOnePlace /\ RecordsAreSound

-------------------------------------------------------------------------------
(* Histories.                                                                 *)

LEMMA LatestAdoption ==
  ASSUME NEW h \in Seq(Event), NEW i \in Adoptions(h), \A j \in Adoptions(h) : j <= i
  PROVE  Adopted(h) = h[i].base
<1>1. \A j, k \in Adoptions(h) : j <= k /\ k <= j => j = k
  BY DEF Adoptions
<1>2. (CHOOSE j \in Adoptions(h) : \A k \in Adoptions(h) : k <= j) = i
  BY <1>1
<1> QED BY <1>2 DEF Adopted

LEMMA OnlyAdoption ==
  ASSUME NEW h \in Seq(Event), AdoptedOnce(h), NEW i \in Adoptions(h)
  PROVE  Adopted(h) = h[i].base
<1>1. \A j \in Adoptions(h) : j <= i
  BY DEF AdoptedOnce, Adoptions
<1> QED BY <1>1, LatestAdoption

(* An Event more.                                                             *)
LEMMA AppendedHistory ==
  ASSUME NEW h \in Seq(Event), NEW e \in Event
  PROVE  /\ Append(h, e) \in Seq(Event)
         /\ \A what : Has(Append(h, e), what) <=> Has(h, what) \/ e.what = what
         /\ \A s \in Seq(Event) : IsPrefixOf(s, h) => IsPrefixOf(s, Append(h, e))
         /\ \A i \in Adoptions(h) : i \in Adoptions(Append(h, e)) /\ Append(h, e)[i] = h[i]
         /\ e.what # "adopted" => Adoptions(Append(h, e)) = Adoptions(h)
         /\ e.what = "adopted" => Adoptions(Append(h, e)) = Adoptions(h) \cup {Len(h) + 1}
<1> DEFINE a == Append(h, e)
<1>1. /\ a \in Seq(Event) /\ Len(a) = Len(h) + 1 /\ Len(h) \in Nat
      /\ \A i \in 1..Len(h) : a[i] = h[i]
      /\ a[Len(h) + 1] = e
  OBVIOUS
<1> HIDE DEF a
<1>2. \A i : i \in 1..Len(a) <=> i \in 1..Len(h) \/ i = Len(h) + 1
  BY <1>1
<1>3. \A what : Has(a, what) <=> Has(h, what) \/ e.what = what
  BY <1>1, <1>2 DEF Has
<1>4. \A s \in Seq(Event) : IsPrefixOf(s, h) => IsPrefixOf(s, a)
  BY <1>1 DEF IsPrefixOf
<1>5. \A i : i \in Adoptions(a) <=>
         i \in Adoptions(h) \/ (e.what = "adopted" /\ i = Len(h) + 1)
  BY <1>1, <1>2 DEF Adoptions
<1>6. \A i \in Adoptions(h) : a[i] = h[i]
  BY <1>1 DEF Adoptions
<1> QED BY <1>1, <1>3, <1>4, <1>5, <1>6 DEF a

LEMMA AppendedRecord ==
  ASSUME NEW record \in Record, Sound(record), NEW e \in Event,
         e.what = "adopted" => Adoptions(record.history) = {} /\ e.base \in Baseline
  PROVE  Sound([record EXCEPT !.history = Append(@, e)])
<1> DEFINE h == record.history
           a == Append(h, e)
           new == [record EXCEPT !.history = Append(@, e)]
<1>1. /\ h \in Seq(Event) /\ new.history = a /\ new.baseline = record.baseline
      /\ new.result = record.result
      /\ record.result # None => record.result.workflow \in Seq(Event)
  BY DEF Record, Result
<1>2. /\ Sound(record)
      /\ a \in Seq(Event)
      /\ \A s \in Seq(Event) : IsPrefixOf(s, h) => IsPrefixOf(s, a)
      /\ \A i \in Adoptions(h) : i \in Adoptions(a) /\ a[i] = h[i]
      /\ e.what # "adopted" => Adoptions(a) = Adoptions(h)
      /\ e.what = "adopted" => Adoptions(a) = Adoptions(h) \cup {Len(h) + 1}
      /\ e.what = "adopted" => Adoptions(h) = {} /\ e.base \in Baseline
  BY <1>1, AppendedHistory
<1>3. a[Len(h) + 1] = e
  BY <1>1
<1> HIDE DEF a, h, new
<1>4. AdoptedOnce(a)
  BY <1>2, <1>3 DEF Sound, AdoptedOnce, h
<1>5. Adoptions(h) # {} => Adopted(a) = Adopted(h) /\ Adoptions(a) # {}
  <2>1. SUFFICES ASSUME NEW i \in Adoptions(h)
                 PROVE  Adopted(a) = Adopted(h) /\ Adoptions(a) # {}
    OBVIOUS
  <2>2. AdoptedOnce(h)
    BY <1>2 DEF Sound, h
  <2>3. Adopted(h) = h[i].base /\ Adopted(a) = a[i].base
    BY <1>1, <1>2, <1>4, <2>2, OnlyAdoption
  <2> QED BY <1>2, <2>3
<1>6. Sound(new)
  BY <1>1, <1>2, <1>4, <1>5 DEF Sound, h
<1> QED BY <1>6 DEF new

LEMMA NextPhase ==
  ASSUME NEW r \in Run, NEW h \in Seq(Event), request[r] \in Request,
         NEW from \in {"triage", "implement", "review", "finish"}
  PROVE  /\ \/ Transition(r, h, from) = h
            \/ \E e \in Event : /\ e.what = Following[from]
                                /\ Transition(r, h, from) = Append(h, e)
         /\ Has(Transition(r, h, from), Following[from])
         /\ Following[from] \notin {"adopted", "archived"}
<1> DEFINE e == [by |-> request[r], what |-> Following[from], base |-> None]
<1>1. Following[from] \in {"implement", "review", "finish", "completed"}
  BY DEF Following
<1>2. e \in Event
  <2>1. \A what \in {"implement", "review", "finish", "completed"} :
          what \in {Phases[i] : i \in 1..6}
    BY DEF Phases
  <2> QED BY <1>1, <2>1 DEF Event
<1>3. CASE HasOf(h, request[r], Following[from])
  BY <1>1, <1>3 DEF Transition, HasOf, Has
<1>4. CASE ~HasOf(h, request[r], Following[from])
  <2>1. Transition(r, h, from) = Append(h, e)
    BY <1>4 DEF Transition
  <2> HIDE DEF e
  <2> QED BY <1>1, <1>2, <2>1, AppendedHistory DEF e
<1> QED BY <1>3, <1>4

-------------------------------------------------------------------------------
(* Types, the lock, and what an invocation has in its hands.                  *)

(* A step of an invocation.                                                   *)
Does(r) ==
  \/ Completing(r) \/ Archiving(r) \/ Auditing(r) \/ Stop(r)
  \/ \E step \in {"create", "before", "look"} : Begin(r, step)

LEMMA CaptureIsBaseline == ASSUME TypeOK PROVE Capture \in Baseline
  BY DEF TypeOK, Capture, Baseline

LEMMA ExtendedIsRecord ==
  ASSUME NEW record \in Record, NEW e \in Event
  PROVE  [record EXCEPT !.history = Append(@, e)] \in Record
<1>1. record.history \in Seq(Event)
  BY DEF Record
<1>2. Append(record.history, e) \in Seq(Event)
  BY <1>1
<1> QED BY <1>2 DEF Record

LEMMA AdvancedIsRecord ==
  ASSUME IInv, NEW r \in Run, runtime # None,
         NEW from \in {"triage", "implement", "review", "finish"}
  PROVE  [runtime EXCEPT !.history = Transition(r, runtime.history, from)] \in Record
<1>1. runtime \in Record /\ runtime.history \in Seq(Event) /\ request[r] \in Request
  BY DEF IInv, TypeOK, Record
<1>2. \/ Transition(r, runtime.history, from) = runtime.history
      \/ \E e \in Event : Transition(r, runtime.history, from) = Append(runtime.history, e)
  BY <1>1, NextPhase
<1>3. \A e \in Event : Append(runtime.history, e) \in Seq(Event)
  BY <1>1
<1>4. Transition(r, runtime.history, from) \in Seq(Event)
  BY <1>1, <1>2, <1>3
<1> QED BY <1>1, <1>4 DEF Record

LEMMA NewIsRecord ==
  ASSUME NEW q \in Request
  PROVE  NewRecord(q) \in Record /\ NewRecord(q) # None
<1>1. [by |-> q, what |-> "triage", base |-> None] \in Event
  BY DEF Event, Phases
<1>2. NewRecord(q) \in Record
  BY <1>1 DEF NewRecord, Record
<1> QED BY <1>2, QuickConstants

LEMMA OwnTypes ==
  ASSUME IInv, NEW r \in Run, Does(r)
  PROVE  TypeOK' /\ LocksAreHeld'
<1> USE QuickConstants
    DEF LocksAreHeld, Goto, See, Remember, AtOnce, Held, Steps, store, audits, checkout,
        counts
<1>1. TypeOK /\ LocksAreHeld /\ Completes(r) /\ Stands(r)
  BY DEF IInv
<1>2. CASE Stop(r) \/ Compare(r) \/ LookActive(r) \/ LookArchive(r) \/ ReadArchive(r)
           \/ RequireActive(r) \/ RequireArchive(r) \/ Promote(r)
           \/ \E step \in {"create", "before", "look"} : Begin(r, step)
  BY <1>1, <1>2 DEF TypeOK, Stop, Compare, LookActive, LookArchive, ReadArchive,
     RequireActive, RequireArchive, Promote, Begin
<1>3. CASE CaptureBefore(r) \/ CaptureAfter(r)
  BY <1>1, <1>3, CaptureIsBaseline DEF TypeOK, CaptureBefore, CaptureAfter
<1>4. CASE Read(r) \/ Look(r) \/ ReadActive(r) \/ Report(r)
  BY <1>1, <1>4 DEF TypeOK, Read, Look, ReadActive, Report
<1>5. CASE Create(r)
  BY <1>1, <1>5, NewIsRecord DEF TypeOK, Create
<1>6. ASSUME NEW from \in {"triage", "implement", "review"},
             NEW next \in {"adopt", "finish", "complete"}, Advance(r, from, next),
             pc[r] \notin Held
      PROVE  TypeOK' /\ LocksAreHeld'
  <2>1. runtime # None /\ runtime' \in Record
    BY <1>6, AdvancedIsRecord DEF Advance, Accepts
  <2> QED BY <1>1, <1>6, <2>1 DEF TypeOK, Advance
<1>7. CASE Enter(r) \/ Review(r) \/ Finish(r)
  <2>1. CASE \E from \in {"triage", "implement", "review"},
                next \in {"adopt", "finish", "complete"} : Advance(r, from, next)
    BY <1>6, <1>7, <2>1 DEF Enter, Review, Finish
  <2>2. CASE Goto(r, "adopt") /\ pc[r] = "implement"
             /\ UNCHANGED <<store, audits, checkout, request, seen, found, after, told,
                            counts>>
    BY <1>1, <2>2 DEF TypeOK
  <2> QED BY <1>7, <2>1, <2>2 DEF Enter, Review, Finish
<1>8. CASE Adopt(r)
  <2>1. [by |-> r, what |-> "adopted", base |-> Capture] \in Event
    BY <1>1, CaptureIsBaseline DEF Event
  <2>2. runtime # None =>
          [runtime EXCEPT !.history =
             Append(@, [by |-> r, what |-> "adopted", base |-> Capture])] \in Record
    BY <1>1, <2>1, ExtendedIsRecord DEF TypeOK
  <2>3. \/ UNCHANGED runtime /\ (seen' = seen \/ seen' = [seen EXCEPT ![r] = runtime])
        \/ runtime' \in Record /\ seen' = [seen EXCEPT ![r] = runtime']
    BY <1>8, <2>2 DEF Adopt
  <2>4. runtime' \in Record \cup {None} /\ seen' \in [Run -> Record \cup {None}]
    BY <1>1, <2>3 DEF TypeOK
  <2> QED BY <1>1, <1>8, <2>4 DEF TypeOK, Adopt
<1>9. CASE WriteBaseline(r)
  <2>1. runtime \in Record /\ runtime.history \in Seq(Event)
        /\ LastIsAdopted(runtime.history)
    BY <1>1, <1>9 DEF TypeOK, WriteBaseline, Stands, Record
  <2>2. Adopted(runtime.history) \in Baseline
    BY <2>1, LatestAdoption DEF LastIsAdopted, Adoptions
  <2>3. runtime' \in Record
    BY <1>9, <2>1, <2>2 DEF WriteBaseline, Record
  <2> QED BY <1>1, <1>9, <2>3 DEF TypeOK, WriteBaseline
<1>10. CASE Write(r)
  <2>1. Written[request[r]] \in Content
    BY <1>1, <1>10 DEF Write, Completes, Writing
  <2>2. work' \in Trees
    BY <1>1, <1>10, <2>1 DEF TypeOK, Write, Trees
  <2> QED BY <1>1, <1>10, <2>2 DEF TypeOK, Write
<1>11. CASE Complete(r)
  <2>1. runtime' \in Record
    BY <1>11, AdvancedIsRecord DEF Complete, ResultHolds
  <2> QED BY <1>1, <1>11, <2>1 DEF TypeOK, Complete
<1>12. CASE WriteResult(r)
  <2>1. runtime \in Record /\ runtime.baseline \in Baseline /\ after[r] \in Baseline
    BY <1>1, <1>12 DEF TypeOK, WriteResult, Completes, Stands, Record
  <2>2. [workflow |-> runtime.history, before |-> runtime.baseline,
         after |-> after[r]] \in Result
    BY <2>1 DEF Record, Result
  <2>3. runtime' \in Record
    BY <1>12, <2>1, <2>2 DEF WriteResult, Record
  <2> QED BY <1>1, <1>12, <2>3 DEF TypeOK, WriteResult
<1>13. CASE ArchiveEvent(r)
  <2>1. [by |-> r, what |-> "archived", base |-> None] \in Event
    BY DEF Event, Phases
  <2>2. active' \in Record
    BY <1>1, <1>13, <2>1, ExtendedIsRecord DEF TypeOK, ArchiveEvent
  <2> QED BY <1>1, <1>13, <2>2 DEF TypeOK, ArchiveEvent
<1>14. CASE ArchiveMove(r)
  BY <1>1, <1>14 DEF TypeOK, ArchiveMove
<1>15. CASE Link(r) \/ Replace(r) \/ AuditMove(r)
  <2>1. auditActive' \in Audit \cup {None} /\ auditArchive' \in Audit \cup {None}
    BY <1>1, <1>15 DEF TypeOK, Link, Replace, AuditMove, Completes, Audit
  <2> QED BY <1>1, <1>15, <2>1 DEF TypeOK, Link, Replace, AuditMove
<1> QED
  BY <1>2, <1>3, <1>4, <1>5, <1>7, <1>8, <1>9, <1>10, <1>11, <1>12, <1>13, <1>14, <1>15
     DEF Does, Completing, Archiving, Auditing

(* It leaves the other invocations alone, and what they found under the lock. *)
LEMMA OthersStay ==
  ASSUME IInv, NEW r \in Run, Does(r), NEW s \in Run, s # r
  PROVE  /\ pc'[s] = pc[s] /\ request'[s] = request[s] /\ seen'[s] = seen[s]
         /\ after'[s] = after[s] /\ found'[s] = found[s]
         /\ lock = s => UNCHANGED <<runtime, active>>
<1> USE DEF Goto, See, Remember, AtOnce, store
<1>1. TypeOK /\ LocksAreHeld /\ Nobody \notin Run
  BY QuickConstants DEF IInv
<1>2. CASE Stop(r) \/ Auditing(r) \/ \E step \in {"create", "before", "look"} : Begin(r, step)
  BY <1>1, <1>2 DEF TypeOK, Stop, Auditing, Begin, CaptureBefore, Compare, LookActive,
     LookArchive, Link, ReadArchive, ReadActive, RequireActive, RequireArchive, Replace,
     AuditMove, Report
<1>3. CASE Create(r) \/ Read(r) \/ Enter(r) \/ Review(r) \/ Finish(r)
  BY <1>1, <1>3 DEF TypeOK, Create, Read, Enter, Review, Finish, Advance
<1>4. CASE Adopt(r)
  BY <1>1, <1>4 DEF TypeOK, Adopt
<1>5. CASE WriteBaseline(r) \/ Write(r) \/ CaptureAfter(r) \/ Complete(r) \/ WriteResult(r)
           \/ Promote(r)
  BY <1>1, <1>5 DEF TypeOK, LocksAreHeld, Held, WriteBaseline, Write, CaptureAfter,
     Complete, WriteResult, Promote
<1>6. CASE Archiving(r)
  BY <1>1, <1>6 DEF TypeOK, LocksAreHeld, Held, Archiving, Look, ArchiveEvent, ArchiveMove
<1> QED BY <1>2, <1>3, <1>4, <1>5, <1>6 DEF Does, Completing

LEMMA OwnHands ==
  ASSUME IInv, NEW r \in Run, Does(r) PROVE Completes(r)' /\ Stands(r)'
<1> USE DEF Goto, See, Remember, AtOnce, store, Writing
<1>1. /\ TypeOK /\ TypeOK' /\ Completes(r) /\ Stands(r)
      /\ None \notin Record \cup Audit \cup Baseline
  BY OwnTypes, QuickConstants DEF IInv
<1>2. CASE pc'[r] \notin Writing \cup {"requireActive", "requireArchive", "replace", "move"}
  BY <1>2 DEF Completes, Stands
<1>3. CASE Stop(r) \/ CaptureBefore(r) \/ Compare(r) \/ LookActive(r) \/ LookArchive(r)
           \/ Link(r) \/ ReadArchive(r) \/ AuditMove(r) \/ Report(r) \/ Promote(r)
           \/ Look(r) \/ ArchiveMove(r)
  BY <1>1, <1>2, <1>3 DEF TypeOK, Stop, CaptureBefore, Compare, LookActive, LookArchive,
     Link, ReadArchive, AuditMove, Report, Promote, Look, ArchiveMove
<1>4. CASE \E step \in {"create", "before", "look"} : Begin(r, step)
  BY <1>1, <1>4 DEF TypeOK, Begin, Completes, Stands
<1>5. CASE ReadActive(r) \/ RequireActive(r) \/ RequireArchive(r) \/ Replace(r)
  BY <1>1, <1>5 DEF TypeOK, ReadActive, RequireActive, RequireArchive, Replace, Completes,
     Stands
<1>6. CASE Create(r)
  BY <1>1, <1>6, NewIsRecord DEF TypeOK, Create, Completes, Stands
<1>7. CASE Read(r) \/ Write(r)
  BY <1>1, <1>7 DEF TypeOK, Read, Resumable, Write, Completes, Stands
<1>8. CASE CaptureAfter(r)
  BY <1>1, <1>8, CaptureIsBaseline DEF TypeOK, CaptureAfter, Completes, Stands
<1>9. CASE Enter(r) \/ Review(r) \/ Finish(r)
  <2>1. CASE Enter(r)
    <3>1. /\ pc[r] = "implement" /\ pc' = [pc EXCEPT ![r] = "adopt"] /\ request' = request
          /\ \/ seen' = seen
             \/ runtime # None /\ seen' = [seen EXCEPT ![r] = runtime']
                /\ runtime' = [runtime EXCEPT !.history =
                                 Transition(r, runtime.history, "triage")]
      BY <1>9, <2>1 DEF Enter, Advance, Accepts
    <3>2. seen' # seen => runtime' \in Record
      BY <3>1, AdvancedIsRecord
    <3>3. seen'[r] # None
      BY <1>1, <3>1, <3>2 DEF TypeOK, Completes
    <3> QED BY <1>1, <3>1, <3>3 DEF TypeOK, Completes, Stands
  <2>2. CASE Review(r) \/ Finish(r)
    BY <1>1, <2>2 DEF TypeOK, Review, Finish, Advance, Completes, Stands
  <2> QED BY <1>9, <2>1, <2>2
<1>10. CASE Adopt(r)
  <2>1. [by |-> r, what |-> "adopted", base |-> Capture] \in Event
    BY <1>1, CaptureIsBaseline DEF Event
  <2>2. ASSUME runtime # None,
               runtime' = [runtime EXCEPT !.history = Append(@,
                             [by |-> r, what |-> "adopted", base |-> Capture])]
        PROVE  runtime' # None /\ LastIsAdopted(runtime'.history)
    <3> DEFINE e == [by |-> r, what |-> "adopted", base |-> Capture]
    <3>1. runtime \in Record /\ runtime.history \in Seq(Event)
      BY <1>1, <2>2 DEF TypeOK, Record
    <3>2. runtime'.history = Append(runtime.history, e)
      BY <2>2, <3>1 DEF Record
    <3>3. Len(runtime'.history) = Len(runtime.history) + 1
          /\ runtime'.history[Len(runtime'.history)] = e
      BY <3>1, <3>2
    <3>4. runtime' \in Record
      BY <2>1, <2>2, <3>1, ExtendedIsRecord
    <3> QED
      BY <1>1, <2>1, <3>1, <3>3, <3>4, CaptureIsBaseline DEF LastIsAdopted, Adoptions
  <2>3. \/ pc' = [pc EXCEPT ![r] = "write"]
        \/ pc' = [pc EXCEPT ![r] = "baseline"] /\ runtime' # None
           /\ LastIsAdopted(runtime'.history)
    BY <1>10, <2>2 DEF Adopt
  <2>4. request' = request /\ pc[r] = "adopt"
    BY <1>10 DEF Adopt
  <2> QED BY <1>1, <2>3, <2>4 DEF TypeOK, Completes, Stands, LastIsAdopted
<1>11. CASE WriteBaseline(r) \/ WriteResult(r)
  BY <1>1, <1>11 DEF TypeOK, WriteBaseline, WriteResult, Completes, Stands
<1>12. CASE Complete(r)
  <2>1. /\ runtime \in Record /\ runtime.history \in Seq(Event)
        /\ request[r] \in Request
        /\ runtime' = [runtime EXCEPT !.history = Transition(r, runtime.history, "finish")]
    BY <1>1, <1>12 DEF TypeOK, Complete, ResultHolds, Record
  <2>2. runtime' \in Record
    BY <1>12, AdvancedIsRecord DEF Complete, ResultHolds
  <2>3. runtime'.history = Transition(r, runtime.history, "finish")
        /\ runtime'.baseline = runtime.baseline
    BY <2>1 DEF Record
  <2>4. Has(runtime'.history, "completed")
    BY <2>1, <2>3, NextPhase DEF Following
  <2> QED
    BY <1>1, <1>12, <2>2, <2>3, <2>4
       DEF TypeOK, Complete, ResultHolds, Completes, Stands, Has, Changed, Identity
<1>13. CASE ArchiveEvent(r)
  <2>1. [by |-> r, what |-> "archived", base |-> None] \in Event
    BY DEF Event, Phases
  <2>2. active \in Record /\ active.history \in Seq(Event)
    BY <1>1, <1>13 DEF TypeOK, ArchiveEvent, Record
  <2>3. active' # None /\ Has(active'.history, "archived")
    <3>1. CASE active' = active /\ Has(active.history, "archived")
      BY <1>13, <3>1 DEF ArchiveEvent, Has
    <3>2. CASE active' = [active EXCEPT !.history = Append(@,
                            [by |-> r, what |-> "archived", base |-> None])]
      <4>1. active' \in Record
        BY <2>1, <2>2, <3>2, ExtendedIsRecord
      <4>2. active'.history = Append(active.history,
                                     [by |-> r, what |-> "archived", base |-> None])
        BY <2>2, <3>2 DEF Record
      <4> QED BY <1>1, <2>1, <2>2, <4>1, <4>2, AppendedHistory
    <3> QED BY <1>13, <3>1, <3>2 DEF ArchiveEvent
  <2> QED BY <1>1, <1>13, <2>3 DEF TypeOK, ArchiveEvent, Completes, Stands, Has
<1> QED
  BY <1>3, <1>4, <1>5, <1>6, <1>7, <1>8, <1>9, <1>10, <1>11, <1>12, <1>13
     DEF Does, Completing, Archiving, Auditing

-------------------------------------------------------------------------------
(* The one record.                                                            *)

LEMMA PrefixOfPrefix ==
  ASSUME NEW s \in Seq(Event), NEW t \in Seq(Event), NEW u \in Seq(Event),
         IsPrefixOf(s, t), IsPrefixOf(t, u)
  PROVE  IsPrefixOf(s, u)
<1>1. Len(s) \in Nat /\ Len(t) \in Nat /\ Len(u) \in Nat
  OBVIOUS
<1>2. Len(s) <= Len(u)
  BY <1>1 DEF IsPrefixOf
<1>3. ASSUME NEW i \in 1..Len(s) PROVE s[i] = u[i]
  BY <1>1, <1>3 DEF IsPrefixOf
<1> QED BY <1>2, <1>3 DEF IsPrefixOf

LEMMA PrefixOfItself == ASSUME NEW s \in Seq(Event) PROVE IsPrefixOf(s, s)
BY DEF IsPrefixOf

LEMMA StillNothing ==
  ASSUME IInv, NEW r \in Run, Does(r), created = 0, created' = 0
  PROVE  NothingYet'
<1> USE DEF Goto, See, Remember, AtOnce, store
<1>1. TypeOK /\ NothingYet /\ Stands(r)
  BY DEF IInv
<1>2. CASE Stop(r) \/ Auditing(r) \/ \E step \in {"create", "before", "look"} : Begin(r, step)
  BY <1>1, <1>2 DEF TypeOK, NothingYet, Stop, Auditing, Begin, CaptureBefore, Compare,
     LookActive, LookArchive, Link, ReadArchive, ReadActive, RequireActive, RequireArchive,
     Replace, AuditMove, Report
<1>3. ~Create(r) /\ ~Read(r) /\ ~Review(r) /\ ~Finish(r) /\ ~WriteBaseline(r) /\ ~Write(r)
      /\ ~Complete(r) /\ ~WriteResult(r) /\ ~Promote(r) /\ ~ArchiveEvent(r) /\ ~ArchiveMove(r)
  BY <1>1 DEF TypeOK, NothingYet, Stands, Create, Read, Resumable, Review, Finish, Advance,
     Accepts, WriteBaseline, Write, Complete, ResultHolds, WriteResult, Promote,
     ArchiveEvent, ArchiveMove
<1>4. CASE Enter(r) \/ Adopt(r) \/ CaptureAfter(r) \/ Look(r)
  BY <1>1, <1>4 DEF TypeOK, NothingYet, Enter, Advance, Accepts, Adopt, CaptureAfter, Look,
     ReadableResult
<1> QED BY <1>2, <1>3, <1>4 DEF Does, Completing, Archiving

(* Nothing but the invocations' own state.                                    *)
LEMMA RecordsStay ==
  ASSUME IInv, created <= 1, UNCHANGED <<runtime, active, archive>>,
         \A s \in Run : \/ seen'[s] = seen[s]
                        \/ seen'[s] \in {runtime, active},
         \A s \in Run : pc'[s] = "promote" => pc[s] = "promote"
  PROVE  InOnePlace' /\ RecordsAreSound'
<1>1. InOnePlace /\ RecordsAreSound /\ TypeOK
  BY DEF IInv
<1>2. InOnePlace' /\ Records' = Records
  BY <1>1 DEF InOnePlace, Records
<1>3. ASSUME NEW record \in Records, NEW s \in Run, seen'[s] # None
      PROVE  IsPrefixOf(seen'[s].history, record.history)
  <2>1. CASE seen'[s] = seen[s]
    BY <1>1, <1>3, <2>1 DEF RecordsAreSound
  <2>2. CASE seen'[s] \in {runtime, active}
    <3>1. record = seen'[s] /\ record \in Record
      BY <1>1, <1>3, <2>2 DEF InOnePlace, Records, TypeOK
    <3>2. record.history \in Seq(Event)
      BY <3>1 DEF Record
    <3> QED BY <3>1, <3>2, PrefixOfItself
  <2> QED BY <2>1, <2>2
<1> QED BY <1>1, <1>2, <1>3 DEF RecordsAreSound, Sound, Changed, Identity

(* The Quick goes on.                                                         *)
LEMMA RuntimeChanges ==
  ASSUME IInv, created <= 1, runtime # None, runtime' \in Record,
         UNCHANGED <<active, archive>>,
         Sound(runtime)', IsPrefixOf(runtime.history, runtime'.history),
         ~Has(runtime'.history, "archived"),
         \A s \in Run : seen'[s] = seen[s] \/ seen'[s] = runtime',
         \A s \in Run : pc'[s] = "promote" => runtime'.result # None
  PROVE  InOnePlace' /\ RecordsAreSound'
<1>1. InOnePlace /\ RecordsAreSound /\ TypeOK /\ runtime' # None
  BY QuickConstants DEF IInv
<1>2. InOnePlace' /\ active = None /\ archive = None /\ Records' = {runtime'}
  BY <1>1 DEF InOnePlace, Records
<1>3. runtime.history \in Seq(Event) /\ runtime'.history \in Seq(Event)
  BY <1>1 DEF TypeOK, Record
<1>4. ASSUME NEW s \in Run, seen'[s] # None
      PROVE  IsPrefixOf(seen'[s].history, runtime'.history)
  <2>1. CASE seen'[s] = seen[s]
    <3>1. IsPrefixOf(seen[s].history, runtime.history)
      BY <1>1, <1>4, <2>1 DEF RecordsAreSound, Records
    <3>2. seen[s].history \in Seq(Event)
      BY <1>1, <1>4, <2>1 DEF TypeOK, Record
    <3> QED BY <1>3, <2>1, <3>1, <3>2, PrefixOfPrefix
  <2>2. CASE seen'[s] = runtime'
    BY <1>3, <2>2, PrefixOfItself
  <2> QED BY <1>4, <2>1, <2>2
<1> QED BY <1>1, <1>2, <1>4 DEF RecordsAreSound

LEMMA HistoryGoesOn ==
  ASSUME IInv, created <= 1, runtime # None, NEW e \in Event,
         e.what = "adopted" => Adoptions(runtime.history) = {} /\ e.base \in Baseline,
         e.what # "archived",
         runtime' = [runtime EXCEPT !.history = Append(@, e)],
         UNCHANGED <<active, archive>>,
         \A s \in Run : seen'[s] = seen[s] \/ seen'[s] = runtime',
         \A s \in Run : pc'[s] = "promote" => pc[s] = "promote"
  PROVE  InOnePlace' /\ RecordsAreSound'
<1>1. InOnePlace /\ RecordsAreSound /\ TypeOK
  BY DEF IInv
<1>2. runtime \in Record /\ runtime.history \in Seq(Event) /\ Sound(runtime)
      /\ ~Has(runtime.history, "archived")
  BY <1>1 DEF TypeOK, Record, RecordsAreSound, Records
<1>3. runtime' \in Record
  BY <1>2, ExtendedIsRecord
<1>4. runtime'.history = Append(runtime.history, e) /\ runtime'.result = runtime.result
  BY <1>2 DEF Record
<1>5. Sound([runtime EXCEPT !.history = Append(@, e)])
  BY <1>2, AppendedRecord
<1>6. Sound(runtime)'
  BY <1>5 DEF Sound
<1>7. IsPrefixOf(runtime.history, runtime'.history) /\ ~Has(runtime'.history, "archived")
  BY <1>2, <1>4, AppendedHistory, PrefixOfItself
<1>8. \A s \in Run : pc'[s] = "promote" => runtime'.result # None
  BY <1>1, <1>4 DEF RecordsAreSound
<1> QED BY <1>3, <1>6, <1>7, <1>8, RuntimeChanges

LEMMA Advances ==
  ASSUME IInv, created <= 1, NEW r \in Run, runtime # None,
         NEW from \in {"triage", "implement", "review", "finish"},
         runtime' = [runtime EXCEPT !.history = Transition(r, runtime.history, from)],
         UNCHANGED <<active, archive>>,
         \A s \in Run : seen'[s] = seen[s] \/ seen'[s] = runtime',
         \A s \in Run : pc'[s] = "promote" => pc[s] = "promote"
  PROVE  InOnePlace' /\ RecordsAreSound'
<1>1. runtime \in Record /\ runtime.history \in Seq(Event) /\ request[r] \in Request
  BY DEF IInv, TypeOK, Record
<1>2. CASE Transition(r, runtime.history, from) = runtime.history
  <2>1. runtime' = runtime
    BY <1>1, <1>2 DEF Record
  <2> QED BY <2>1, RecordsStay
<1>3. ASSUME NEW e \in Event, e.what = Following[from],
             Transition(r, runtime.history, from) = Append(runtime.history, e)
      PROVE  InOnePlace' /\ RecordsAreSound'
  <2>1. e.what # "adopted" /\ e.what # "archived"
    BY <1>1, <1>3, NextPhase
  <2> QED BY <1>3, <2>1, HistoryGoesOn
<1> QED BY <1>1, <1>2, <1>3, NextPhase

LEMMA AdoptionStep ==
  ASSUME IInv, created <= 1, NEW r \in Run, Adopt(r)
  PROVE  InOnePlace' /\ RecordsAreSound'
<1> DEFINE e == [by |-> r, what |-> "adopted", base |-> Capture]
<1>1. TypeOK /\ RecordsAreSound /\ seen[r] # None /\ UNCHANGED <<active, archive>>
      /\ \A s \in Run : pc'[s] = "promote" => pc[s] = "promote"
  BY DEF IInv, Completes, Adopt, TypeOK, Goto, store
<1>2. e \in Event /\ e.what = "adopted" /\ e.base \in Baseline
  BY <1>1, CaptureIsBaseline DEF Event
<1>3. CASE UNCHANGED runtime
  <2>1. \A s \in Run : seen'[s] = seen[s] \/ seen'[s] = runtime
    BY <1>1, <1>3 DEF Adopt, See, TypeOK
  <2> QED BY <1>1, <1>3, <2>1, RecordsStay
<1>4. CASE /\ Adoptions(seen[r].history) = {} /\ runtime # None
           /\ Len(seen[r].history) = Len(runtime.history)
           /\ runtime' = [runtime EXCEPT !.history = Append(@, e)]
           /\ See(r, runtime')
  <2>1. IsPrefixOf(seen[r].history, runtime.history)
    BY <1>1, <1>4 DEF RecordsAreSound, Records
  <2>2. Adoptions(runtime.history) = {}
    BY <1>4, <2>1 DEF Adoptions, IsPrefixOf
  <2>3. \A s \in Run : seen'[s] = seen[s] \/ seen'[s] = runtime'
    BY <1>1, <1>4 DEF See, TypeOK
  <2> HIDE DEF e
  <2> QED BY <1>1, <1>2, <1>4, <2>2, <2>3, HistoryGoesOn
<1> QED BY <1>3, <1>4 DEF Adopt, store

LEMMA BaselineStep ==
  ASSUME IInv, created <= 1, NEW r \in Run, WriteBaseline(r)
  PROVE  InOnePlace' /\ RecordsAreSound'
<1>1. /\ TypeOK /\ RecordsAreSound /\ runtime # None
      /\ LastIsAdopted(runtime.history) /\ UNCHANGED <<active, archive>>
      /\ \A s \in Run : pc'[s] = "promote" => pc[s] = "promote"
      /\ runtime' = [runtime EXCEPT !.baseline = Adopted(runtime.history)]
  BY DEF IInv, Stands, WriteBaseline, TypeOK, Goto
<1>2. \A s \in Run : seen'[s] = seen[s] \/ seen'[s] = runtime'
  BY <1>1 DEF WriteBaseline, See, TypeOK
<1>3. runtime \in Record /\ runtime.history \in Seq(Event) /\ Sound(runtime)
  BY <1>1 DEF TypeOK, Record, RecordsAreSound, Records
<1>4. runtime'.history = runtime.history /\ runtime'.result = runtime.result
      /\ runtime'.baseline = Adopted(runtime.history)
  BY <1>1, <1>3 DEF Record
<1>5. Sound(runtime)'
  BY <1>1, <1>3, <1>4 DEF Sound, LastIsAdopted
<1>6. Adopted(runtime.history) \in Baseline
  BY <1>1, <1>3, OnlyAdoption DEF LastIsAdopted, Sound
<1>7. runtime' \in Record
  BY <1>1, <1>3, <1>6 DEF Record
<1> QED
  BY <1>1, <1>2, <1>3, <1>4, <1>5, <1>7, RuntimeChanges, PrefixOfItself
     DEF RecordsAreSound

LEMMA ResultStep ==
  ASSUME IInv, created <= 1, NEW r \in Run, WriteResult(r)
  PROVE  InOnePlace' /\ RecordsAreSound'
<1> DEFINE result == [workflow |-> runtime.history, before |-> runtime.baseline,
                      after |-> after[r]]
<1>1. TypeOK /\ RecordsAreSound /\ Stands(r) /\ Completes(r) /\ pc[r] = "result"
      /\ UNCHANGED <<active, archive>>
      /\ runtime' = [runtime EXCEPT !.result = result]
  BY DEF IInv, WriteResult
<1>2. \A s \in Run : seen'[s] = seen[s] \/ seen'[s] = runtime'
  BY <1>1 DEF WriteResult, See, TypeOK
<1>3. /\ runtime # None /\ runtime \in Record /\ runtime.history \in Seq(Event)
      /\ Sound(runtime) /\ runtime.baseline \in Baseline /\ runtime.baseline # None
      /\ after[r] \in Baseline /\ ~Has(runtime.history, "archived")
      /\ Has(runtime.history, "completed")
      /\ Changed(runtime.baseline, after[r]) = {Scope}
  BY <1>1 DEF TypeOK, Record, RecordsAreSound, Records, Stands, Completes
<1>4. result \in Result /\ result # None
  BY <1>3, QuickConstants DEF Result
<1>5. runtime'.history = runtime.history /\ runtime'.result = result
      /\ runtime'.baseline = runtime.baseline /\ runtime' \in Record
  BY <1>1, <1>3, <1>4 DEF Record
<1>6. At(runtime.history, "completed")
  BY <1>3 DEF At, Following, Has
<1>7. Sound(runtime)'
  BY <1>3, <1>5, <1>6, PrefixOfItself DEF Sound
<1> QED BY <1>1, <1>2, <1>3, <1>4, <1>5, <1>7, RuntimeChanges, PrefixOfItself

LEMMA CreateStep ==
  ASSUME IInv, NEW r \in Run, Create(r), runtime = None, created' <= 1
  PROVE  created' # 0 /\ InOnePlace' /\ RecordsAreSound'
<1>1. /\ TypeOK /\ runtime' = NewRecord(request[r]) /\ created' = created + 1
      /\ UNCHANGED <<active, archive>> /\ See(r, runtime') /\ Goto(r, "implement")
  BY DEF IInv, Create
<1>2. created = 0 /\ NothingYet
  BY <1>1 DEF IInv, TypeOK
<1>3. runtime' \in Record /\ runtime' # None
  BY <1>1, NewIsRecord DEF TypeOK
<1>4. /\ runtime'.history = <<[by |-> request[r], what |-> "triage", base |-> None]>>
      /\ runtime'.baseline = None /\ runtime'.result = None
  BY <1>1 DEF NewRecord
<1>5. Adoptions(runtime'.history) = {} /\ ~Has(runtime'.history, "archived")
  BY <1>4 DEF Adoptions, Has
<1>6. Sound(runtime)'
  BY <1>4, <1>5 DEF Sound, AdoptedOnce
<1>7. \A s \in Run : /\ seen'[s] = None \/ seen'[s] = runtime'
                     /\ pc'[s] # "promote"
  BY <1>1, <1>2 DEF NothingYet, TypeOK, See, Goto
<1>8. runtime'.history \in Seq(Event)
  BY <1>3 DEF Record
<1>9. Records' = {runtime'} /\ InOnePlace'
  BY <1>1, <1>2, <1>3 DEF Records, NothingYet, InOnePlace
<1>10. RecordsAreSound'
  BY <1>1, <1>2, <1>3, <1>5, <1>6, <1>7, <1>8, <1>9, PrefixOfItself
     DEF RecordsAreSound, NothingYet
<1> QED BY <1>1, <1>2, <1>9, <1>10

LEMMA PromoteStep ==
  ASSUME IInv, created <= 1, NEW r \in Run, Promote(r)
  PROVE  InOnePlace' /\ RecordsAreSound'
<1>1. /\ TypeOK /\ InOnePlace /\ RecordsAreSound /\ pc[r] = "promote" /\ runtime # None
      /\ active' = runtime /\ runtime' = None /\ archive' = archive /\ seen' = seen
  BY DEF IInv, Promote
<1>2. Records' = {runtime} /\ Records = {runtime} /\ InOnePlace' /\ archive = None
  BY <1>1 DEF Records, InOnePlace
<1>3. runtime.result # None
  BY <1>1 DEF RecordsAreSound
<1> QED BY <1>1, <1>2, <1>3 DEF RecordsAreSound, Sound

LEMMA ArchiveEventStep ==
  ASSUME IInv, created <= 1, NEW r \in Run, ArchiveEvent(r)
  PROVE  InOnePlace' /\ RecordsAreSound'
<1> DEFINE e == [by |-> r, what |-> "archived", base |-> None]
<1>1. /\ TypeOK /\ InOnePlace /\ RecordsAreSound /\ active # None /\ archive = None
      /\ UNCHANGED <<runtime, archive, seen>>
      /\ active' = active \/ active' = [active EXCEPT !.history = Append(@, e)]
      /\ \A s \in Run : pc'[s] = "promote" => pc[s] = "promote"
  BY DEF IInv, ArchiveEvent, TypeOK, Goto
<1>2. CASE active' = active
  BY <1>1, <1>2, RecordsStay DEF IInv
<1>3. CASE active' = [active EXCEPT !.history = Append(@, e)]
  <2>1. e \in Event /\ e.what # "adopted"
    BY DEF Event, Phases
  <2>2. runtime = None /\ active \in Record /\ active.history \in Seq(Event)
        /\ Sound(active) /\ active.result # None
    BY <1>1 DEF InOnePlace, TypeOK, Record, RecordsAreSound, Records
  <2> HIDE DEF e
  <2>3. /\ active' \in Record /\ active'.result = active.result
        /\ active'.history = Append(active.history, e)
    BY <1>3, <2>1, <2>2, ExtendedIsRecord DEF Record
  <2>4. Sound(active')
    BY <1>3, <2>1, <2>2, AppendedRecord
  <2>5. ASSUME NEW s \in Run, seen[s] # None
        PROVE  IsPrefixOf(seen[s].history, active'.history)
    <3>1. IsPrefixOf(seen[s].history, active.history) /\ seen[s].history \in Seq(Event)
      BY <1>1, <2>5 DEF RecordsAreSound, Records, TypeOK, Record
    <3> QED BY <2>1, <2>2, <2>3, <3>1, AppendedHistory
  <2>6. active' # None /\ Records' = {active'} /\ InOnePlace'
    BY <1>1, <2>2, <2>3, QuickConstants DEF Records, InOnePlace
  <2> QED BY <1>1, <2>2, <2>3, <2>4, <2>5, <2>6 DEF RecordsAreSound
<1> QED BY <1>1, <1>2, <1>3

LEMMA ArchiveMoveStep ==
  ASSUME IInv, created <= 1, NEW r \in Run, ArchiveMove(r)
  PROVE  InOnePlace' /\ RecordsAreSound'
<1>1. /\ TypeOK /\ InOnePlace /\ RecordsAreSound /\ Stands(r) /\ pc[r] = "move"
      /\ archive' = active /\ active' = None /\ runtime' = runtime /\ seen' = seen
      /\ \A s \in Run : pc'[s] = "promote" => pc[s] = "promote"
  BY DEF IInv, ArchiveMove, TypeOK, Goto
<1>2. active # None /\ Has(active.history, "archived") /\ active.result # None
  BY <1>1 DEF Stands, RecordsAreSound
<1>3. runtime = None /\ archive = None /\ Records = {active} /\ Records' = {active}
  BY <1>1, <1>2 DEF InOnePlace, Records
<1> QED BY <1>1, <1>2, <1>3 DEF InOnePlace, RecordsAreSound, Sound

LEMMA RecordStep ==
  ASSUME IInv, NEW r \in Run, Does(r), created' <= 1
  PROVE  InOnePlace' /\ RecordsAreSound'
<1> USE DEF Goto, See, store, Remember
<1>1. TypeOK /\ created \in Nat
  BY DEF IInv, TypeOK
<1>2. CASE Create(r) /\ runtime = None
  BY <1>2, CreateStep
<1>3. SUFFICES ASSUME ~(Create(r) /\ runtime = None)
               PROVE  InOnePlace' /\ RecordsAreSound'
  BY <1>2
<1>4. created <= 1
  <2>1. created' = created
    BY <1>3 DEF Does, Completing, Archiving, Auditing, Stop, Begin, Create, Read, Enter,
       Advance, Adopt, WriteBaseline, Write, CaptureAfter, Review, Finish, Complete,
       WriteResult, Promote, Look, ArchiveEvent, ArchiveMove, CaptureBefore, Compare,
       LookActive, LookArchive, Link, ReadArchive, ReadActive, RequireActive,
       RequireArchive, Replace, AuditMove, Report, counts
  <2> QED BY <2>1
<1>5. CASE /\ UNCHANGED <<runtime, active, archive>>
           /\ \A s \in Run : seen'[s] = seen[s] \/ seen'[s] \in {runtime, active}
           /\ \A s \in Run : pc'[s] = "promote" => pc[s] = "promote"
  BY <1>4, <1>5, RecordsStay
<1>6. CASE Stop(r) \/ Auditing(r) \/ \E step \in {"create", "before", "look"} : Begin(r, step)
  BY <1>1, <1>5, <1>6 DEF TypeOK, Stop, Auditing, Begin, CaptureBefore, Compare,
     LookActive, LookArchive, Link, ReadArchive, ReadActive, RequireActive, RequireArchive,
     Replace, AuditMove, Report
<1>7. CASE Create(r) \/ Read(r) \/ Write(r) \/ CaptureAfter(r) \/ Look(r)
  BY <1>1, <1>3, <1>5, <1>7 DEF TypeOK, Create, Read, Write, CaptureAfter, Look
<1>8. ASSUME NEW from \in {"triage", "implement", "review"},
             NEW next \in {"adopt", "finish", "complete"}, Advance(r, from, next)
      PROVE  InOnePlace' /\ RecordsAreSound'
  <2>1. /\ runtime # None
        /\ runtime' = [runtime EXCEPT !.history = Transition(r, runtime.history, from)]
        /\ UNCHANGED <<active, archive>>
        /\ \A s \in Run : seen'[s] = seen[s] \/ seen'[s] = runtime'
        /\ \A s \in Run : pc'[s] = "promote" => pc[s] = "promote"
    BY <1>1, <1>8 DEF TypeOK, Advance, Accepts
  <2> QED BY <1>4, <2>1, Advances
<1>9. CASE Enter(r)
  <2>1. CASE Advance(r, "triage", "adopt")
    BY <1>8, <2>1
  <2>2. CASE UNCHANGED <<store, seen>> /\ Goto(r, "adopt")
    BY <1>1, <1>5, <2>2 DEF TypeOK
  <2> QED BY <1>9, <2>1, <2>2 DEF Enter
<1>10. CASE Review(r) \/ Finish(r)
  BY <1>8, <1>10 DEF Review, Finish
<1>11. CASE Complete(r)
  <2>1. /\ runtime # None
        /\ runtime' = [runtime EXCEPT !.history = Transition(r, runtime.history, "finish")]
        /\ UNCHANGED <<active, archive, seen>>
        /\ \A s \in Run : pc'[s] = "promote" => pc[s] = "promote"
    BY <1>1, <1>11 DEF TypeOK, Complete, ResultHolds
  <2> QED BY <1>4, <2>1, Advances
<1>12. CASE Adopt(r) \/ WriteBaseline(r) \/ WriteResult(r) \/ Promote(r) \/ ArchiveEvent(r)
            \/ ArchiveMove(r)
  BY <1>4, <1>12, AdoptionStep, BaselineStep, ResultStep, PromoteStep, ArchiveEventStep,
     ArchiveMoveStep
<1> QED
  BY <1>6, <1>7, <1>9, <1>10, <1>11, <1>12 DEF Does, Completing, Archiving

-------------------------------------------------------------------------------
(* The invariant, and what follows from it.                                   *)

LEMMA Start == ASSUME Init PROVE IInv
<1> USE QuickConstants DEF Init
<1>1. work \in Trees /\ committed \in Trees
  BY DEF Trees
<1>2. TypeOK
  BY <1>1 DEF TypeOK, Steps
<1>3. LocksAreHeld /\ \A r \in Run : Completes(r) /\ Stands(r)
  BY DEF LocksAreHeld, Held, Completes, Stands, Writing
<1>4. NothingYet /\ InOnePlace /\ Records = {}
  BY DEF NothingYet, InOnePlace, Records
<1> QED BY <1>2, <1>3, <1>4 DEF IInv, RecordsAreSound

LEMMA UserStep ==
  ASSUME IInv, CommitAll \/ \E p \in Path, c \in Content : Edit(p, c)
  PROVE  IInv'
<1> USE DEF store, audits
<1>1. UNCHANGED <<store, audits, pc, request, seen, found, after, told, created>>
  BY DEF CommitAll, Edit
<1>2. work' \in Trees /\ committed' \in Trees /\ moves' \in Nat
  BY DEF IInv, TypeOK, CommitAll, Edit, Trees
<1>3. TypeOK'
  BY <1>1, <1>2 DEF IInv, TypeOK
<1>4. LocksAreHeld' /\ \A r \in Run : Completes(r)' /\ Stands(r)'
  BY <1>1 DEF IInv, LocksAreHeld, Completes, Stands, LastIsAdopted, Adoptions, Has, Changed,
     Identity
<1>5. Records' = Records /\ (NothingYet => NothingYet') /\ (InOnePlace => InOnePlace')
      /\ (RecordsAreSound => RecordsAreSound')
  BY <1>1 DEF Records, NothingYet, InOnePlace, RecordsAreSound
<1> QED BY <1>1, <1>3, <1>4, <1>5 DEF IInv

LEMMA OwnStep == ASSUME IInv, NEW r \in Run, Does(r) PROVE IInv'
<1>1. ASSUME NEW s \in Run PROVE Completes(s)' /\ Stands(s)'
  <2>1. CASE s = r
    BY <2>1, OwnHands
  <2>2. CASE s # r
    <3>1. /\ pc'[s] = pc[s] /\ request'[s] = request[s] /\ seen'[s] = seen[s]
          /\ after'[s] = after[s] /\ found'[s] = found[s]
          /\ pc[s] \in Held => UNCHANGED <<runtime, active>>
      BY <2>2, OthersStay DEF IInv, LocksAreHeld
    <3>2. Completes(s) /\ Stands(s)
      BY DEF IInv
    <3> QED BY <3>1, <3>2 DEF Completes, Stands, Held, Changed, Identity
  <2> QED BY <2>1, <2>2
<1>2. created' = 0 => created = 0
  BY DEF IInv, TypeOK, Does, Completing, Archiving, Auditing, Stop, Begin, Create, Read,
     Enter, Advance, Adopt, WriteBaseline, Write, CaptureAfter, Review, Finish, Complete,
     WriteResult, Promote, Look, ArchiveEvent, ArchiveMove, CaptureBefore, Compare,
     LookActive, LookArchive, Link, ReadArchive, ReadActive, RequireActive, RequireArchive,
     Replace, AuditMove, Report, counts
<1>3. created' = 0 => NothingYet'
  BY <1>2, StillNothing
<1> QED BY <1>1, <1>3, OwnTypes, RecordStep DEF IInv

LEMMA Step == ASSUME IInv, [Next]_vars PROVE IInv'
<1>1. CASE UNCHANGED vars
  BY <1>1 DEF vars, store, audits, checkout, counts, IInv, TypeOK, LocksAreHeld, Completes,
     Stands, LastIsAdopted, Adoptions, Has, Changed, Identity, NothingYet, InOnePlace,
     RecordsAreSound, Records
<1> QED BY <1>1, UserStep, OwnStep DEF Next, Does

(* What the invocations know, and the records they leave, stay as they should *)
(* be, beside each other and whenever they end.                               *)
THEOREM Inductive == Spec => []IInv
<1>1. Init => IInv
  BY Start
<1>2. IInv /\ [Next]_vars => IInv'
  BY Step
<1> QED BY <1>1, <1>2, PTL DEF Spec

(* Every variable keeps its type, and the Task lock is held by an invocation  *)
(* that is past it, or by nobody.                                             *)
THEOREM TypeCorrect == Spec => []TypeOK
<1>1. IInv => TypeOK
  BY DEF IInv
<1> QED BY <1>1, Inductive, PTL

(* The Project Store has one record of a Quick, completed, about the Baseline *)
(* it adopted and a change of the scope alone (completeDurableQuickResult,    *)
(* promoteQuickRuntimeTask).                                                  *)
THEOREM StoredStayWhole == Spec => []StoredQuicksAreWhole
<1>1. ASSUME IInv, created <= 1, NEW record \in {active, archive} \ {None}
      PROVE  /\ ReadableResult(record)
             /\ record.result.before = Adopted(record.history)
             /\ Changed(record.result.before, record.result.after) = {Scope}
             /\ record = archive => Has(record.history, "archived")
  <2>1. Sound(record) /\ record # None /\ record.result # None
        /\ (record = archive => Has(record.history, "archived"))
    BY <1>1 DEF IInv, RecordsAreSound, Records
  <2> QED BY <2>1 DEF Sound, ReadableResult
<1>2. IInv /\ created <= 1 => active = None \/ archive = None
  BY DEF IInv, InOnePlace
<1>3. IInv => StoredQuicksAreWhole
  BY <1>1, <1>2 DEF StoredQuicksAreWhole
<1> QED BY <1>3, Inductive, PTL

(* Once there is an audit there is one from then on, in one of its two places *)
(* at least (archiveNoChangeQuick over NodeQuickAuditStore).                  *)
THEOREM AuditsRemain == Spec => AuditRemains
<1>1. ASSUME IInv, [Next]_vars, auditActive # None \/ auditArchive # None
      PROVE  auditActive' # None \/ auditArchive' # None
  <2>1. CASE UNCHANGED audits
    BY <1>1, <2>1 DEF audits
  <2>2. ASSUME NEW r \in Run, Link(r) \/ Replace(r) \/ AuditMove(r)
        PROVE  auditActive' # None \/ auditArchive' # None
    <3>1. CASE Link(r) \/ Replace(r)
      <4>1. TypeOK /\ Completes(r)
        BY <1>1 DEF IInv
      <4>2. auditActive' \in Audit
        BY <3>1, <4>1 DEF TypeOK, Link, Replace, Completes, Audit
      <4> QED BY <4>2, QuickConstants
    <3>2. CASE AuditMove(r)
      BY <3>2 DEF AuditMove
    <3> QED BY <2>2, <3>1, <3>2
  <2>3. ASSUME NEW r \in Run, Does(r), ~(Link(r) \/ Replace(r) \/ AuditMove(r))
        PROVE  UNCHANGED audits
    BY <2>3 DEF Does, Completing, Archiving, Auditing, Stop, Begin, Create, Read, Enter,
       Advance, Adopt, WriteBaseline, Write, CaptureAfter, Review, Finish, Complete,
       WriteResult, Promote, Look, ArchiveEvent, ArchiveMove, CaptureBefore, Compare,
       LookActive, LookArchive, ReadArchive, ReadActive, RequireActive, RequireArchive,
       Report
  <2> QED
    BY <1>1, <2>1, <2>2, <2>3 DEF Next, Does, Edit, CommitAll, vars
<1>2. IInv /\ [Next]_vars =>
        [(auditActive # None \/ auditArchive # None)
           => (auditActive' # None \/ auditArchive' # None)]_vars
  BY <1>1
<1> QED BY <1>2, Inductive, PTL DEF Spec, AuditRemains
===============================================================================
