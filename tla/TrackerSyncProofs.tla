--------------------------- MODULE TrackerSyncProofs ---------------------------
(* Theorems of TrackerSync, for every number of contents, versions and late   *)
(* requests, and both protocols.                                              *)
EXTENDS TrackerSync, FiniteSetTheorems, TLAPS

(* The requests that may still be carried out.                                *)
Waiting == pc \in {"mark", "send", "await"}
Sent == late \cup {r \in {mine} : Waiting}

Issues == [content : Content, version : Nat, closed : BOOLEAN]
Requests == [op : {"create", "update"}, content : 1..Last, expect : Nat]

(* The tracker gives each version once, and the issue, like what is           *)
(* remembered of it, is one of those it gave.                                 *)
VersionsAreOnce ==
  /\ clock \in Nat
  /\ had \subseteq Issues
  /\ \A i \in had : i.version <= clock
  /\ \A i, j \in had : i.version = j.version => i = j
  /\ remote # None => remote \in had
RecordIsOfIssue == known # None => known \in had

(* What a call holds at its steps, and where it may be by its protocol.       *)
CallsAreSound ==
  /\ local \in 1..Last /\ protocol \in {"github", "mapping"}
  /\ pc \in {"idle", "find", "status", "check", "mark", "send", "await"}
  /\ pc # "idle" => payload \in 1..Last
  /\ pc = "find" /\ protocol = "github" => known = None
  /\ pc = "status" => known # None
  /\ pc = "check" /\ doing = "keep-observed" => protocol = "github"
  /\ pc = "await" => payload \in asked
  /\ pending # None => pending \in asked

(* No request names a version still to come.                                  *)
RequestsAreOld == Sent \subseteq Requests /\ \A r \in Sent : r.expect <= clock

(* Somebody else's text is remembered only when a user decided so, and a      *)
(* request that would overwrite it goes back to such a decision.              *)
Decided == \E i \in had : i.version \in decided /\ i.content = Foreign
RecordIsDecided ==
  known # None /\ known.content = Foreign => protocol = "github" /\ Decided
RequestsAreDecided ==
  \A r \in Sent :
    r.op = "update" /\ remote # None /\ remote.version = r.expect
      /\ remote.content = Foreign
    => \E i \in had : i.version \in decided /\ i.content = Foreign
                      /\ remote \in {i, known}

IInv ==
  /\ VersionsAreOnce /\ RecordIsOfIssue /\ CallsAreSound /\ RequestsAreOld
  /\ RecordIsDecided /\ RequestsAreDecided

-------------------------------------------------------------------------------
(* What the tracker does: nothing, or a new version of the issue, or its end. *)

LEMMA Grows ==
  ASSUME VersionsAreOnce, NEW i \in Issues, i.version = clock + 1, Becomes(i)
  PROVE  /\ VersionsAreOnce' /\ remote' = i
         /\ had \subseteq had' /\ clock < clock'
BY DEF VersionsAreOnce, Becomes, Issues

LEMMA Serves ==
  ASSUME VersionsAreOnce, NEW r \in Requests, Serve(r)
  PROVE  /\ VersionsAreOnce' /\ had \subseteq had' /\ clock <= clock'
         /\ Accepts(r) => /\ remote' = Written(r) /\ Written(r) \in had'
                         /\ remote'.version > clock /\ remote'.content = r.content
         /\ ~Accepts(r) => remote' = remote
<1>1. CASE Accepts(r)
  <2>1. Written(r) \in Issues /\ Written(r).version = clock + 1
        /\ Written(r).content = r.content
    BY TrackerConstants DEF Written, Issues, Requests, Content, VersionsAreOnce
  <2>2. Becomes(Written(r))
    BY <1>1 DEF Serve
  <2>3. Written(r) \in had'
    BY <2>2 DEF Becomes
  <2> QED BY <1>1, <2>1, <2>2, <2>3, Grows DEF VersionsAreOnce
<1>2. CASE ~Accepts(r)
  BY <1>2 DEF Serve, tracker, VersionsAreOnce
<1> QED BY <1>1, <1>2

LEMMA Edited ==
  ASSUME NEW i \in Issues, NEW v \in Nat, NEW c \in Content
  PROVE  /\ [i EXCEPT !.content = c, !.version = v + 1] \in Issues
         /\ [i EXCEPT !.content = c, !.version = v + 1].version = v + 1
<1>1. v + 1 \in Nat
  OBVIOUS
<1> QED BY <1>1 DEF Issues

LEMMA Reopened ==
  ASSUME NEW i \in Issues, NEW v \in Nat
  PROVE  /\ [i EXCEPT !.closed = ~@, !.version = v + 1] \in Issues
         /\ [i EXCEPT !.closed = ~@, !.version = v + 1].version = v + 1
<1>1. v + 1 \in Nat
  OBVIOUS
<1> QED BY <1>1 DEF Issues

LEMMA OthersWrite ==
  ASSUME VersionsAreOnce, Others
  PROVE  /\ VersionsAreOnce' /\ had \subseteq had' /\ clock <= clock'
         /\ remote' # None => remote'.version > clock
<1>1. CASE remote' = None /\ UNCHANGED <<clock, had>>
  BY <1>1 DEF VersionsAreOnce
<1>2. ASSUME NEW c \in Content,
             Becomes([remote EXCEPT !.content = c, !.version = clock + 1])
      PROVE  VersionsAreOnce' /\ had \subseteq had' /\ clock <= clock'
             /\ remote'.version > clock
  <2> DEFINE i == [remote EXCEPT !.content = c, !.version = clock + 1]
  <2>1. i \in Issues /\ i.version = clock + 1
    <3>1. remote \in Issues /\ clock \in Nat
      BY DEF VersionsAreOnce, Others
    <3> QED BY <3>1, Edited
  <2>2. Becomes(i)
    BY <1>2
  <2> HIDE DEF i
  <2>3. VersionsAreOnce' /\ remote' = i /\ had \subseteq had' /\ clock < clock'
    BY <2>1, <2>2, Grows
  <2> QED BY <2>1, <2>3 DEF VersionsAreOnce
<1>3. ASSUME Becomes([remote EXCEPT !.closed = ~@, !.version = clock + 1])
      PROVE  VersionsAreOnce' /\ had \subseteq had' /\ clock <= clock'
             /\ remote'.version > clock
  <2> DEFINE i == [remote EXCEPT !.closed = ~@, !.version = clock + 1]
  <2>1. i \in Issues /\ i.version = clock + 1
    <3>1. remote \in Issues /\ clock \in Nat
      BY DEF VersionsAreOnce, Others
    <3> QED BY <3>1, Reopened
  <2>2. Becomes(i)
    BY <1>3
  <2> HIDE DEF i
  <2>3. VersionsAreOnce' /\ remote' = i /\ had \subseteq had' /\ clock < clock'
    BY <2>1, <2>2, Grows
  <2> QED BY <2>1, <2>3 DEF VersionsAreOnce
<1> QED BY <1>1, <1>2, <1>3 DEF Others

-------------------------------------------------------------------------------
(* Every step, by what it does to the tracker.                                *)

Quiet ==
  \/ Advance \/ Stop \/ Push \/ Pull \/ Find \/ Status \/ Project \/ Lookup \/ Mark
  \/ \E how \in {"use-local", "keep-observed"} : Resolve(how)
  \/ CheckSeen \/ Send \/ UNCHANGED vars
Serving == \E r \in Sent : Serve(r) /\ (Answered \/ Unheard \/ Arrive(r))

LEMMA Steps ==
  ASSUME CallsAreSound, RequestsAreOld, [Next]_vars
  PROVE  Quiet \/ Others \/ Serving
<1>1. ASSUME Answered \/ Unheard PROVE Serving
  BY <1>1 DEF Answered, Unheard, Serving, Sent, Waiting
<1>2. ASSUME NEW r \in Request, Arrive(r) PROVE Serving
  BY <1>2 DEF Arrive, Serving, Sent
<1> QED BY <1>1, <1>2 DEF Next, Quiet

LEMMA QuietTracker == ASSUME Quiet PROVE UNCHANGED tracker
BY DEF Quiet, Advance, Stop, Push, Pull, Find, Status, Project, Lookup, Mark,
  Resolve, CheckSeen, Send, vars, tracker, Do, Ask, Report, Remember, Recorded, MapTo, End

LEMMA TrackerStep ==
  ASSUME IInv, [Next]_vars
  PROVE  /\ VersionsAreOnce' /\ had \subseteq had' /\ clock <= clock'
         /\ \/ remote' = remote \/ remote' = None \/ remote'.version > clock
<1>1. CASE Quiet
  BY <1>1, QuietTracker DEF tracker, IInv, VersionsAreOnce
<1>2. CASE Others
  BY <1>2, OthersWrite DEF IInv
<1>3. CASE Serving
  BY <1>3, Serves DEF IInv, Serving, RequestsAreOld
<1> QED BY <1>1, <1>2, <1>3, Steps DEF IInv

(* What is remembered stays, or becomes the issue as it is: what the Task     *)
(* says and was asked for, or nothing was remembered before, or the same text *)
(* as before, or what a user chose to keep; or it becomes what a request has  *)
(* just written.                                                              *)
LEMMA RecordStep ==
  ASSUME IInv, [Next]_vars
  PROVE  \/ known' = known
         \/ /\ known' = remote /\ remote # None /\ UNCHANGED tracker
            /\ \/ remote.content = payload /\ payload \in 1..Last
                  /\ (known = None \/ remote.content = known.content \/ payload \in asked')
               \/ known # None /\ remote.content = known.content
               \/ protocol = "github" /\ remote.version \in decided'
         \/ /\ known' \in had' /\ known'.content = payload
            /\ payload \in 1..Last /\ payload \in asked'
            /\ remote' = known'
<1>1. CASE Advance \/ Stop \/ Push \/ Pull \/ Project \/ Mark \/ Send \/ UNCHANGED vars
           \/ \E how \in {"use-local", "keep-observed"} : Resolve(how)
  BY <1>1 DEF Advance, Stop, Push, Pull, Project, Mark, Send, vars, Resolve, memory, Ask, Do
<1>2. CASE Find
  BY <1>2 DEF IInv, CallsAreSound, Find, Ask, Remember, Recorded, MapTo, Report, memory, tracker
<1>3. CASE Status
  BY <1>3 DEF IInv, CallsAreSound, Status, Remember, Recorded, MapTo, Report, memory, tracker
<1>4. CASE Lookup
  BY <1>4 DEF IInv, CallsAreSound, Lookup, Adopts, Ask, Remember, Recorded, MapTo,
     Report, memory, tracker
<1>5. CASE CheckSeen
  BY <1>5 DEF IInv, CallsAreSound, CheckSeen, Seen, Ask, Recorded, MapTo, Report, memory, tracker
<1>6. CASE Others
  BY <1>6 DEF Others, memory
<1>7. CASE Answered
  <2>1. mine \in Requests /\ payload \in 1..Last /\ payload \in asked
        /\ Serve(mine) /\ mine \in Sent
    BY <1>7 DEF IInv, CallsAreSound, RequestsAreOld, Sent, Waiting, Answered
  <2>2. CASE Accepts(mine)
    BY <1>7, <2>1, <2>2, Serves
       DEF IInv, Answered, Takes, Remember, Recorded, MapTo, Report, memory
  <2>3. CASE ~Accepts(mine)
    BY <1>7, <2>1, <2>3, Serves
       DEF IInv, Answered, Takes, Remember, Recorded, MapTo, Report, memory, Serve, tracker
  <2> QED BY <2>2, <2>3
<1>8. CASE Unheard
  BY <1>8 DEF Unheard, memory
<1>9. ASSUME NEW r \in Request, Arrive(r) PROVE known' = known
  BY <1>9 DEF Arrive, memory
<1> QED BY <1>1, <1>2, <1>3, <1>4, <1>5, <1>6, <1>7, <1>8, <1>9 DEF Next

-------------------------------------------------------------------------------
(* The invariant, a conjunct at a time.                                       *)

LEMMA RecordIsOfIssueStep ==
  ASSUME IInv, [Next]_vars PROVE RecordIsOfIssue'
BY RecordStep, TrackerStep DEF IInv, RecordIsOfIssue, VersionsAreOnce, tracker

LEMMA Deciding == ASSUME [Next]_vars PROVE decided \subseteq decided'
<1>1. CASE Quiet
  BY <1>1 DEF Quiet, Advance, Stop, Push, Pull, Find, Status, Project, Lookup, Mark,
    Resolve, CheckSeen, Send, vars, user, Ask, Report, Remember
<1>2. CASE Others \/ Unheard
  BY <1>2 DEF Others, Unheard, user
<1>3. CASE Answered
  BY <1>3 DEF Answered, Remember, Report, user
<1>4. ASSUME NEW r \in Request, Arrive(r) PROVE decided' = decided
  BY <1>4 DEF Arrive, user
<1> QED BY <1>1, <1>2, <1>3, <1>4 DEF Next, Quiet

LEMMA RecordIsDecidedStep ==
  ASSUME IInv, [Next]_vars PROVE RecordIsDecided'
<1>1. protocol' = protocol
  BY DEF Next, vars, Advance, Others, Stop, Push, Pull, Find, Status, Project, Lookup,
    Mark, Resolve, CheckSeen, Send, Answered, Unheard, Arrive, Ask, Report, Remember
<1>2. Decided => Decided'
  BY Deciding, TrackerStep DEF Decided
<1>3. CASE known' = known
  BY <1>1, <1>2, <1>3 DEF IInv, RecordIsDecided
<1>4. ASSUME known' = remote, remote # None, UNCHANGED tracker,
             known # None, remote.content = known.content
      PROVE  RecordIsDecided'
  BY <1>1, <1>2, <1>4 DEF IInv, RecordIsDecided
<1>5. ASSUME known' = remote, remote # None, UNCHANGED tracker,
             protocol = "github", remote.version \in decided'
      PROVE  RecordIsDecided'
  BY <1>1, <1>5 DEF IInv, RecordIsDecided, Decided, VersionsAreOnce, tracker
<1>6. ASSUME known'.content \in 1..Last PROVE RecordIsDecided'
  BY <1>6, TrackerConstants DEF RecordIsDecided, Foreign
<1> QED BY <1>3, <1>4, <1>5, <1>6, RecordStep

LEMMA CallsStep ==
  ASSUME IInv, [Next]_vars PROVE CallsAreSound'
<1> USE DEF IInv, CallsAreSound
<1>1. CASE Advance
  BY <1>1, TrackerConstants DEF Advance, call, memory
<1>2. CASE Others
  BY <1>2 DEF Others, call, memory
<1>3. CASE Stop
  BY <1>3 DEF Stop, End, memory
<1>4. CASE Push \/ Pull \/ Project
  BY <1>4 DEF Push, Pull, Project, Do, memory
<1>5. CASE Find
  BY <1>5 DEF Find, Ask, Remember, Recorded, MapTo, Report, End, memory
<1>6. CASE Status
  BY <1>6 DEF Status, Remember, Recorded, MapTo, Report, End, memory
<1>7. CASE Lookup
  BY <1>7 DEF Lookup, Ask, Remember, Recorded, MapTo, Report, End, memory
<1>8. CASE Mark \/ Send
  BY <1>8 DEF Mark, Send, memory
<1>9. ASSUME NEW how \in {"use-local", "keep-observed"}, Resolve(how)
      PROVE  CallsAreSound'
  BY <1>9 DEF Resolve, Do, memory
<1>10. CASE CheckSeen
  BY <1>10 DEF CheckSeen, Ask, Recorded, MapTo, Report, End, memory
<1>11. CASE Answered
  BY <1>11 DEF Answered, Remember, Recorded, MapTo, Report, End, memory
<1>12. CASE Unheard
  BY <1>12 DEF Unheard, End, memory
<1>13. ASSUME NEW r \in Request, Arrive(r) PROVE CallsAreSound'
  BY <1>13 DEF Arrive, call, memory
<1>14. CASE UNCHANGED vars
  BY <1>14 DEF vars, call, memory
<1> QED
  BY <1>1, <1>2, <1>3, <1>4, <1>5, <1>6, <1>7, <1>8, <1>9, <1>10, <1>11, <1>12,
     <1>13, <1>14 DEF Next

(* A request that is new names nothing, the issue as it is, or the issue as   *)
(* it is remembered.                                                          *)
LEMMA RequestStep ==
  ASSUME IInv, [Next]_vars, NEW r \in Sent'
  PROVE  \/ r \in Sent
         \/ /\ r \in Requests /\ UNCHANGED <<tracker, known>>
            /\ \/ r.op = "create" /\ r.expect = 0
               \/ /\ r.op = "update" /\ remote # None /\ r.expect = remote.version
                  /\ \/ remote.version \in decided'
                     \/ protocol = "mapping" /\ known # None
                        /\ remote.content = known.content
               \/ r.op = "update" /\ known # None /\ r.expect = known.version
<1> USE DEF IInv, CallsAreSound, Sent, Waiting
<1>1. CASE Advance \/ Others \/ UNCHANGED vars
  BY <1>1 DEF Advance, Others, vars, call
<1>2. CASE Stop \/ Answered \/ Unheard
  BY <1>2 DEF Stop, Answered, Unheard, Remember, Report, End
<1>3. CASE Push
  BY <1>3 DEF Push, Do, VersionsAreOnce, RecordIsOfIssue, Issues, Requests, memory
<1>4. CASE Pull \/ Project
  BY <1>4 DEF Pull, Project, Do
<1>5. CASE Find
  BY <1>5, TrackerConstants DEF Find, Ask, Remember, Report, End, Requests, memory
<1>6. CASE Status
  BY <1>6 DEF Status, Remember, Report, End
<1>7. CASE Lookup
  BY <1>7, TrackerConstants DEF Lookup, Mutates, Ask, Remember, Report, End, Requests,
     memory, VersionsAreOnce, Issues
<1>8. CASE Mark \/ Send
  BY <1>8 DEF Mark, Send
<1>9. ASSUME NEW how \in {"use-local", "keep-observed"}, Resolve(how)
      PROVE  r \in Sent
  BY <1>9 DEF Resolve, Do
<1>10. CASE CheckSeen
  BY <1>10 DEF CheckSeen, Seen, Ask, Report, End, Requests, memory, VersionsAreOnce, Issues
<1>11. ASSUME NEW q \in Request, Arrive(q) PROVE r \in Sent
  BY <1>11 DEF Arrive, call
<1> QED
  BY <1>1, <1>2, <1>3, <1>4, <1>5, <1>6, <1>7, <1>8, <1>9, <1>10, <1>11 DEF Next

LEMMA RequestsAreOldStep ==
  ASSUME IInv, [Next]_vars PROVE RequestsAreOld'
<1>1. ASSUME NEW r \in Sent'
      PROVE  r \in Requests /\ r.expect <= clock'
  <2>1. CASE r \in Sent
    BY <2>1, TrackerStep DEF IInv, RequestsAreOld, VersionsAreOnce, Requests
  <2>2. CASE r \notin Sent
    BY <2>2, RequestStep
       DEF IInv, RecordIsOfIssue, VersionsAreOnce, Issues, Requests, tracker
  <2> QED BY <2>1, <2>2
<1> QED BY <1>1 DEF RequestsAreOld

LEMMA RequestsAreDecidedStep ==
  ASSUME IInv, [Next]_vars PROVE RequestsAreDecided'
<1> SUFFICES ASSUME NEW r \in Sent', r.op = "update", remote' # None,
                    remote'.version = r.expect, remote'.content = Foreign
             PROVE  \E i \in had' : i.version \in decided' /\ i.content = Foreign
                                   /\ remote' \in {i, known'}
  BY DEF RequestsAreDecided
<1>1. CASE r \in Sent
  <2>1. remote' = remote
    BY <1>1, TrackerStep DEF IInv, RequestsAreOld, VersionsAreOnce, Requests
  <2>2. PICK i \in had : /\ i.version \in decided /\ i.content = Foreign
                       /\ remote \in {i, known}
    BY <1>1, <2>1 DEF IInv, RequestsAreDecided
  <2>3. i \in had' /\ i.version \in decided'
    BY TrackerStep, Deciding, <2>2
  <2>4. remote = known => remote' = known'
    BY <2>1, RecordStep, TrackerConstants DEF Foreign
  <2> QED BY <2>1, <2>2, <2>3, <2>4
<1>2. CASE r \notin Sent
  <2>1. UNCHANGED <<tracker, known>> /\ remote \in had
    BY <1>2, RequestStep DEF IInv, VersionsAreOnce, tracker
  <2>2. CASE remote.version \in decided'
    BY <2>1, <2>2 DEF tracker
  <2>3. CASE known # None /\ remote.content = known.content /\ protocol = "mapping"
    BY <2>1, <2>3 DEF IInv, RecordIsDecided, tracker
  <2>4. CASE known # None /\ r.expect = known.version
    <3>1. remote = known
      BY <2>1, <2>4 DEF IInv, VersionsAreOnce, RecordIsOfIssue, tracker
    <3>2. Decided
      BY <2>1, <2>4, <3>1 DEF IInv, RecordIsDecided, tracker
    <3> QED BY <2>1, <3>1, <3>2, Deciding DEF Decided, tracker
  <2> QED BY <1>2, <2>2, <2>3, <2>4, RequestStep
<1> QED BY <1>1, <1>2

LEMMA Start == Init => IInv
BY TrackerConstants DEF Init, IInv, VersionsAreOnce, RecordIsOfIssue, CallsAreSound,
  RequestsAreOld, RecordIsDecided, RequestsAreDecided, Sent, Waiting, Issues

(* The invariant holds in every state.                                        *)
THEOREM Inductive == Spec => []IInv
<1>1. IInv /\ [Next]_vars => IInv'
  BY TrackerStep, RecordIsOfIssueStep, CallsStep, RequestsAreOldStep,
     RecordIsDecidedStep, RequestsAreDecidedStep DEF IInv
<1> QED BY Start, <1>1, PTL DEF Spec

-------------------------------------------------------------------------------
(* What is remembered of the issue was there, whatever answers are lost and   *)
(* requests late (github-tracker.ts, tracker-projection.ts).                  *)
THEOREM RecordsStayTrue == Spec => []RecordsAreTrue
<1>1. IInv => RecordsAreTrue
  BY DEF IInv, RecordIsOfIssue, RecordsAreTrue
<1> QED BY <1>1, Inductive, PTL

(* No request of ours overwrites text of somebody else's that no user has     *)
(* decided about (resolveGitHubIssueProjectionConflict and                    *)
(* resolveTrackerProjectionConflict).                                         *)
THEOREM ForeignTextIsSpared == Spec => ForeignEditsSurvive
<1>1. ASSUME IInv, [Next]_vars, Ours, remote # None, remote.content = Foreign,
             remote' # remote
      PROVE  \E i \in had : i.version \in decided /\ i.content = Foreign
                            /\ remote \in {i, known}
  <2>1. ~Quiet
    BY <1>1, QuietTracker DEF tracker
  <2>2. ~Others
    BY <1>1 DEF Ours, Others, call
  <2>3. PICK r \in Sent : Serve(r)
    BY <1>1, <2>1, <2>2, Steps DEF IInv, Serving
  <2>4. r \in Requests /\ Accepts(r)
    BY <1>1, <2>3, Serves DEF IInv, RequestsAreOld
  <2>5. r.op = "update" /\ remote.version = r.expect
    BY <1>1, <2>4 DEF Accepts, Requests
  <2> QED BY <1>1, <2>5 DEF IInv, RequestsAreDecided
<1>2. IInv /\ [Next]_vars =>
        [Ours /\ remote # None /\ remote.content = Foreign /\ remote' # remote
           => \E i \in had : /\ i.version \in decided /\ i.content = Foreign
                             /\ remote \in {i, known}]_vars
  BY <1>1
<1> QED BY <1>2, Inductive, PTL DEF Spec, ForeignEditsSurvive

(* What is remembered moves to another text only when that was asked for or   *)
(* kept by a user (projectTrackerProjection, its adoption of an issue that    *)
(* says what the Task says).                                                  *)
THEOREM AdoptionStaysEarned == Spec => AdoptionIsEarned
<1>1. IInv /\ [Next]_vars =>
        [known # None /\ known'.content # known.content
           => known'.content \in asked' \/ known'.version \in decided']_vars
  BY RecordStep
<1> QED BY <1>1, Inductive, PTL DEF Spec, AdoptionIsEarned

-------------------------------------------------------------------------------
(* Types.                                                                    *)

(* A call marks what the mapping knows, and checks a conflict.               *)
TypeInv ==
  /\ TypeOK /\ IsFiniteSet(late)
  /\ pc = "mark" => known # None
  /\ pc = "check" => conflict # None

LEMMA TypeOfServe ==
  ASSUME TypeOK, NEW r \in Request, Serve(r)
  PROVE  /\ remote' \in Issue \cup {None} /\ clock' \in 0..MaxClock /\ had' \subseteq Issue
         /\ clock <= clock'
         /\ Accepts(r) => Written(r) \in Issue
<1>1. CASE Accepts(r)
  <2>1. clock < MaxClock /\ clock \in Nat /\ Becomes(Written(r))
    BY <1>1, TrackerConstants DEF Serve, TypeOK
  <2>2. Written(r) \in Issue /\ Written(r).version = clock + 1
    BY <2>1, TrackerConstants DEF Written, Issue, Request, Content, TypeOK
  <2> QED BY <2>1, <2>2, TrackerConstants DEF Becomes, TypeOK
<1>2. CASE ~Accepts(r)
  BY <1>2, TrackerConstants DEF Serve, tracker, TypeOK
<1> QED BY <1>1, <1>2

LEMMA TypeOfOthers ==
  ASSUME TypeOK, Others
  PROVE  remote' \in Issue \cup {None} /\ clock' \in 0..MaxClock /\ had' \subseteq Issue
<1>1. remote \in Issue /\ clock \in 0..MaxClock /\ had \subseteq Issue /\ MaxClock \in Nat
  BY TrackerConstants DEF TypeOK, Others
<1>2. ASSUME NEW i \in Issue, i.version \in 0..MaxClock, Becomes(i)
      PROVE  remote' \in Issue \cup {None} /\ clock' \in 0..MaxClock /\ had' \subseteq Issue
  BY <1>1, <1>2 DEF Becomes
<1>3. CASE clock < MaxClock
  <2>1. clock + 1 \in 1..MaxClock /\ clock + 1 \in 0..MaxClock BY <1>1, <1>3
  <2>2. ASSUME NEW c \in Content
        PROVE  LET i == [remote EXCEPT !.content = c, !.version = clock + 1]
               IN  i \in Issue /\ i.version = clock + 1
    BY <1>1, <2>1 DEF Issue
  <2>3. LET i == [remote EXCEPT !.closed = ~@, !.version = clock + 1]
        IN  i \in Issue /\ i.version = clock + 1
    <3>1. (~remote.closed) \in BOOLEAN OBVIOUS
    <3> QED BY <1>1, <2>1, <3>1 DEF Issue
  <2>4. CASE \E c \in Content :
               Becomes([remote EXCEPT !.content = c, !.version = clock + 1])
    BY <1>2, <2>1, <2>2, <2>4
  <2>5. CASE Becomes([remote EXCEPT !.closed = ~@, !.version = clock + 1])
    BY <1>2, <2>1, <2>3, <2>5
  <2>6. CASE remote' = None /\ UNCHANGED <<clock, had>> BY <1>1, <2>6
  <2> QED BY <2>4, <2>5, <2>6 DEF Others
<1>4. CASE ~(clock < MaxClock) BY <1>1, <1>4 DEF Others
<1> QED BY <1>3, <1>4

(* Every variable has its type after the step.                                *)
LEMMA TypeOfCall ==
  ASSUME TypeInv,
         protocol' = protocol, local' \in 1..Last,
         remote' \in Issue \cup {None}, clock' \in 0..MaxClock, had' \subseteq Issue,
         known' \in Issue \cup {None},
         pending' \in 1..Last \cup {None}, pending' # None => known' # None,
         pc' \in {"idle", "find", "status", "check", "mark", "send", "await"},
         doing' \in {None, "push", "pull", "use-local", "keep-observed"},
         payload' \in 1..Last \cup {None}, pc' # "idle" <=> payload' # None,
         mine' \in Request \cup {None}, pc' \in {"mark", "send", "await"} <=> mine' # None,
         pc' = "mark" => known' # None, pc' = "check" => conflict' # None,
         late' \subseteq Request, IsFiniteSet(late'), Cardinality(late') <= MaxLate,
         conflict' \in Conflict \cup {None}, asked' \subseteq 1..Last,
         decided' \subseteq 1..MaxClock
  PROVE  TypeInv'
BY DEF TypeInv, TypeOK

(* A call ends, and those that go on.                                         *)
LEMMA TypeOfEnd ==
  ASSUME TypeInv, End, protocol' = protocol, local' = local,
         remote' \in Issue \cup {None}, clock' \in 0..MaxClock, had' \subseteq Issue,
         \/ UNCHANGED memory
         \/ known' \in Issue /\ pending' = None
         \/ known' = known /\ pending' = None,
         late' = late, conflict' \in Conflict \cup {None}, asked' = asked,
         decided' \subseteq 1..MaxClock
  PROVE  TypeInv'
BY DEF TypeInv, TypeOK, End, memory

LEMMA TypeOfReport ==
  ASSUME TypeInv, pc # "idle", NEW issue \in Issue, NEW expected \in 0..MaxClock,
         Report(expected, issue)
  PROVE  conflict' \in Conflict
BY DEF TypeInv, TypeOK, Report, Conflict

LEMMA TypeOfRequest ==
  ASSUME TypeInv, pc # "idle", NEW op \in {"create", "update"}, NEW expect \in 0..MaxClock,
         Ask(op, expect)
  PROVE  mine' \in Request /\ mine' # None
<1>1. mine' \in Request BY DEF TypeInv, TypeOK, Ask, Request
<1> QED BY <1>1, TrackerConstants

LEMMA KnownIsTyped == ASSUME TypeOK PROVE KnownVersion \in 0..MaxClock
BY TrackerConstants DEF KnownVersion, TypeOK, Issue

LEMMA TypeOfStep ==
  ASSUME IInv, TypeInv, [Next]_vars PROVE TypeInv'
<1> USE DEF tracker, memory, call, user
<1>1. /\ protocol \in {"github", "mapping"} /\ local \in 1..Last
      /\ remote \in Issue \cup {None} /\ clock \in 0..MaxClock /\ had \subseteq Issue
      /\ known \in Issue \cup {None}
      /\ pending \in 1..Last \cup {None} /\ (pending # None => known # None)
      /\ pc \in {"idle", "find", "status", "check", "mark", "send", "await"}
      /\ doing \in {None, "push", "pull", "use-local", "keep-observed"}
      /\ payload \in 1..Last \cup {None} /\ (pc # "idle" <=> payload # None)
      /\ mine \in Request \cup {None} /\ (pc \in {"mark", "send", "await"} <=> mine # None)
      /\ late \subseteq Request /\ Cardinality(late) <= MaxLate /\ IsFiniteSet(late)
      /\ conflict \in Conflict \cup {None}
      /\ asked \subseteq 1..Last /\ decided \subseteq 1..MaxClock
      /\ pc = "mark" => known # None
      /\ pc = "check" => conflict # None
      /\ pc = "status" => known # None
  BY DEF TypeInv, TypeOK, IInv, CallsAreSound
<1>2. Last \in Nat /\ \A n \in 1..Last : n # None BY TrackerConstants
<1>3. CASE Advance BY <1>1, <1>2, <1>3, TypeOfCall DEF Advance
<1>4. CASE Others
  <2>1. remote' \in Issue \cup {None} /\ clock' \in 0..MaxClock /\ had' \subseteq Issue
    BY <1>4, TypeOfOthers DEF TypeInv
  <2> QED BY <1>1, <1>4, <2>1, TypeOfCall DEF Others
<1>5. CASE Stop
  <2>1. IsFiniteSet(late') /\ late' \subseteq Request
    BY <1>1, <1>5, FS_AddElement DEF Stop
  <2> QED BY <1>1, <1>5, <2>1, TypeOfCall DEF Stop, End
<1>6. CASE Push
  <2>1. CASE known = None \/ (known.content = local /\ known.closed = (local \in Ended))
    BY <1>1, <1>2, <1>6, <2>1, TypeOfCall DEF Push, Do
  <2>2. CASE ~(known = None \/ (known.content = local /\ known.closed = (local \in Ended)))
    <3>1. /\ doing' = "push" /\ payload' = local /\ pc' = "send"
          /\ mine' = [op |-> "update", content |-> local, expect |-> known.version]
      BY <1>6, <2>2 DEF Push
    <3>2. known.version \in 0..MaxClock BY <1>1, <2>2, TrackerConstants DEF Issue
    <3>3. mine' \in Request BY <1>1, <3>1, <3>2 DEF Request
    <3>4. mine' # None BY <3>3, TrackerConstants
    <3> QED BY <1>1, <1>2, <1>6, <3>1, <3>3, <3>4, TypeOfCall DEF Push
  <2> QED BY <2>1, <2>2
<1>7. CASE Pull \/ Project \/ \E how \in {"use-local", "keep-observed"} : Resolve(how)
  BY <1>1, <1>2, <1>7, TypeOfCall DEF Pull, Project, Resolve, Do
<1>8. CASE Find
  <2>1. CASE remote = None /\ Ask("create", 0) /\ pc' = "send" /\ UNCHANGED <<memory, user, asked>>
    <3>1. 0 \in 0..MaxClock /\ pc # "idle" BY <1>8, TrackerConstants DEF Find
    <3>2. mine' \in Request /\ mine' # None BY <2>1, <3>1, TypeOfRequest
    <3> QED BY <1>1, <2>1, <3>1, <3>2, TypeOfCall DEF Ask
  <2>2. CASE remote # None /\ Remember(remote) /\ UNCHANGED tracker
    BY <1>1, <2>2, TypeOfEnd DEF Remember, Recorded, MapTo
  <2>3. CASE remote # None /\ Report(0, remote) /\ UNCHANGED <<tracker, memory>>
    <3>1. 0 \in 0..MaxClock /\ pc # "idle" BY <1>8, TrackerConstants DEF Find
    <3>2. conflict' \in Conflict BY <1>1, <2>3, <3>1, TypeOfReport
    <3> QED BY <1>1, <2>3, <3>2, TypeOfEnd DEF Report
  <2> QED BY <1>8, <2>1, <2>2, <2>3 DEF Find
<1>9. CASE Status
  <2>1. known.version \in 0..MaxClock /\ remote \in Issue /\ pc # "idle"
    BY <1>1, <1>9, TrackerConstants DEF Status, Issue
  <2>2. CASE Remember(remote)
    BY <1>1, <1>9, <2>1, <2>2, TypeOfEnd DEF Status, Remember, Recorded, MapTo
  <2>3. CASE Report(known.version, remote) /\ UNCHANGED memory
    <3>1. conflict' \in Conflict BY <2>1, <2>3, TypeOfReport
    <3> QED BY <1>1, <1>9, <2>3, <3>1, TypeOfEnd DEF Status, Report
  <2> QED BY <1>9, <2>2, <2>3 DEF Status
<1>10. CASE Lookup
  <2>1. pc # "idle" BY <1>10 DEF Lookup
  <2>2. CASE remote = None /\ Ask("create", 0) /\ pc' = "send" /\ UNCHANGED <<memory, user, asked>>
    <3>1. 0 \in 0..MaxClock BY TrackerConstants
    <3>2. mine' \in Request /\ mine' # None BY <2>1, <2>2, <3>1, TypeOfRequest
    <3> QED BY <1>1, <2>1, <2>2, <3>2, TypeOfCall DEF Ask
  <2>3. CASE remote # None /\ Remember(remote) /\ UNCHANGED tracker
    BY <1>1, <2>3, TypeOfEnd DEF Remember, Recorded, MapTo
  <2>4. CASE /\ remote # None /\ Mutates /\ Ask("update", remote.version)
             /\ pc' = (IF pending = None THEN "mark" ELSE "send")
             /\ UNCHANGED <<memory, user, asked>>
    <3>1. remote.version \in 0..MaxClock BY <1>1, <2>4, TrackerConstants DEF Issue
    <3>2. mine' \in Request /\ mine' # None BY <2>1, <2>4, <3>1, TypeOfRequest
    <3> QED BY <1>1, <2>1, <2>4, <3>2, TypeOfCall DEF Ask, Mutates
  <2>5. CASE remote # None /\ Report(KnownVersion, remote) /\ UNCHANGED <<tracker, memory>>
    <3>1. KnownVersion \in 0..MaxClock BY KnownIsTyped DEF TypeInv
    <3>2. conflict' \in Conflict BY <1>1, <2>1, <2>5, <3>1, TypeOfReport
    <3> QED BY <1>1, <2>5, <3>2, TypeOfEnd DEF Report
  <2> QED BY <1>10, <2>2, <2>3, <2>4, <2>5 DEF Lookup
<1>11. CASE Mark \/ Send BY <1>1, <1>11, TypeOfCall DEF Mark, Send
<1>12. CASE CheckSeen
  <2>1. pc # "idle" /\ remote \in Issue /\ remote.version \in 1..MaxClock
        /\ remote.version \in 0..MaxClock
    BY <1>1, <1>12, TrackerConstants DEF CheckSeen, Issue
  <2>2. CASE /\ Seen /\ Ask("update", remote.version) /\ pc' = "send"
             /\ decided' = decided \cup {conflict.observed.version}
             /\ UNCHANGED <<memory, conflict, asked>>
    <3>1. mine' \in Request /\ mine' # None BY <2>1, <2>2, TypeOfRequest
    <3>2. decided' \subseteq 1..MaxClock BY <1>1, <2>1, <2>2 DEF Seen
    <3> QED BY <1>1, <2>1, <2>2, <3>1, <3>2, TypeOfCall DEF Ask
  <2>3. CASE /\ Seen /\ Recorded(remote) /\ End
             /\ decided' = decided \cup {conflict.observed.version}
             /\ UNCHANGED <<protocol, local, tracker, late, conflict, asked>>
    <3>1. decided' \subseteq 1..MaxClock BY <1>1, <2>1, <2>3 DEF Seen
    <3> QED BY <1>1, <2>1, <2>3, <3>1, TypeOfEnd DEF Recorded, MapTo
  <2>4. CASE /\ Report(IF protocol = "github" /\ known = None
                       THEN conflict.observed.version ELSE KnownVersion, remote)
             /\ UNCHANGED <<tracker, memory>>
    <3>1. (IF protocol = "github" /\ known = None
           THEN conflict.observed.version ELSE KnownVersion) \in 0..MaxClock
      <4>1. KnownVersion \in 0..MaxClock BY KnownIsTyped DEF TypeInv
      <4>2. conflict \in Conflict BY <1>1, <1>12 DEF CheckSeen
      <4>3. conflict.observed.version \in 0..MaxClock
        BY <4>2, TrackerConstants DEF Conflict, Issue
      <4> QED BY <4>1, <4>3
    <3>2. conflict' \in Conflict BY <2>1, <2>4, <3>1, TypeOfReport
    <3> QED BY <1>1, <2>4, <3>2, TypeOfEnd DEF Report
  <2> QED BY <1>12, <2>2, <2>3, <2>4 DEF CheckSeen
<1>13. CASE Answered
  <2>1. pc # "idle" /\ mine \in Request /\ Serve(mine) BY <1>1, <1>13 DEF Answered
  <2>2. /\ remote' \in Issue \cup {None} /\ clock' \in 0..MaxClock /\ had' \subseteq Issue
        /\ Accepts(mine) => Written(mine) \in Issue
    BY <2>1, TypeOfServe DEF TypeInv
  <2> DEFINE issue == IF Accepts(mine) THEN Written(mine) ELSE remote
  <2>3. issue \in Issue \cup {None} BY <1>1, <2>2
  <2>4. /\ End \/ Remember(issue)
        /\ \/ issue # None /\ Remember(issue)
           \/ /\ issue # None
              /\ Report(IF doing = "use-local" /\ protocol = "github" THEN mine.expect
                        ELSE KnownVersion, issue)
              /\ known' = known /\ pending' = IF doing = "push" THEN None ELSE pending
           \/ /\ End /\ UNCHANGED <<protocol, local, late, user, asked>>
              /\ known' = known /\ pending' = IF doing = "push" THEN None ELSE pending
    BY <1>13 DEF Answered, Takes, Report, Remember
  <2> HIDE DEF issue
  <2>5. CASE issue # None /\ Remember(issue)
    BY <1>1, <2>2, <2>3, <2>5, TypeOfEnd DEF Remember, Recorded, MapTo
  <2>6. CASE /\ issue # None
             /\ Report(IF doing = "use-local" /\ protocol = "github" THEN mine.expect
                       ELSE KnownVersion, issue)
             /\ known' = known /\ pending' = IF doing = "push" THEN None ELSE pending
    <3>1. (IF doing = "use-local" /\ protocol = "github" THEN mine.expect
           ELSE KnownVersion) \in 0..MaxClock
      BY <2>1, KnownIsTyped DEF TypeInv, Request
    <3>2. conflict' \in Conflict BY <2>1, <2>3, <2>6, <3>1, TypeOfReport
    <3> QED BY <1>1, <2>2, <2>6, <3>2, TypeOfEnd DEF Report
  <2>7. CASE /\ End /\ UNCHANGED <<protocol, local, late, user, asked>>
             /\ known' = known /\ pending' = IF doing = "push" THEN None ELSE pending
    BY <1>1, <2>2, <2>7, TypeOfEnd
  <2> QED BY <2>4, <2>5, <2>6, <2>7
<1>14. CASE Unheard
  <2>1. mine \in Request /\ Serve(mine) BY <1>1, <1>14 DEF Unheard
  <2>2. remote' \in Issue \cup {None} /\ clock' \in 0..MaxClock /\ had' \subseteq Issue
    BY <2>1, TypeOfServe DEF TypeInv
  <2> QED BY <1>1, <1>14, <2>2, TypeOfEnd DEF Unheard
<1>15. ASSUME NEW r \in Request, Arrive(r) PROVE TypeInv'
  <2>1. remote' \in Issue \cup {None} /\ clock' \in 0..MaxClock /\ had' \subseteq Issue
    BY <1>15, TypeOfServe DEF TypeInv, Arrive
  <2>2. IsFiniteSet(late') /\ Cardinality(late') <= MaxLate /\ late' \subseteq Request
    <3>1. late' = late \ {r} /\ r \in late BY <1>15 DEF Arrive
    <3>2. IsFiniteSet(late') /\ Cardinality(late') = Cardinality(late) - 1
      BY <1>1, <3>1, FS_RemoveElement
    <3>3. Cardinality(late) \in Nat BY <1>1, FS_CardinalityType
    <3> QED BY <1>1, <3>1, <3>2, <3>3, TrackerConstants
  <2> QED BY <1>1, <1>15, <2>1, <2>2, TypeOfCall DEF Arrive
<1>16. CASE UNCHANGED vars BY <1>1, <1>16, TypeOfCall DEF vars
<1> QED BY <1>3, <1>4, <1>5, <1>6, <1>7, <1>8, <1>9, <1>10, <1>11, <1>12, <1>13, <1>14,
           <1>15, <1>16 DEF Next

(* The issue, what is remembered of it, requests and conflicts have their     *)
(* types; a call holds a request just when it waits for one.                  *)
THEOREM TrackerTypeCorrect == Spec => []TypeOK
<1>1. Init => TypeInv
  <2> SUFFICES ASSUME Init PROVE TypeInv
    OBVIOUS
  <2>1. IsFiniteSet({}) /\ Cardinality({}) = 0 BY FS_EmptySet
  <2> QED BY <2>1, TrackerConstants DEF Init, TypeInv, TypeOK
<1>2. TypeInv => TypeOK BY DEF TypeInv
<1> QED BY <1>1, <1>2, TypeOfStep, Inductive, PTL DEF Spec
================================================================================
