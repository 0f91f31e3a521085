---------------------------- MODULE TrackerSync --------------------------------
(* A Task shown on an external tracker, by either of two protocols:           *)
(* github-tracker.ts, which remembers the issue in Events of the Task, and    *)
(* tracker-projection.ts, which remembers it in a mapping of the adapter's,   *)
(* with the mutation it is about to ask for. The tracker is external: others  *)
(* write to it, answers are lost, and a request may arrive when nobody waits  *)
(* for it any more. It is asked for one thing at a time, and it writes an     *)
(* issue only over the version that the request names.                        *)
EXTENDS Naturals, FiniteSets

CONSTANTS
  Last,       \* the projection of the Task goes through contents 1..Last
  Ended,      \* those of a Task that is completed, cancelled or archived
  MaxClock,   \* bound: versions of the tracker
  MaxLate,    \* bound: requests nobody waits for
  None

Content == 0..Last  \* what an issue says: 0 is somebody else's text
Foreign == 0

VARIABLES
  protocol,  \* "github" or "mapping"
  local,     \* the content of the Task's projection
  remote,    \* the issue
  clock,     \* the last version the tracker gave
  known,     \* what is remembered of it: the latest reference, or the mapping
  pending,   \* the pending mutation of the mapping
  pc, doing, \* how far a call is, and which it is
  payload,   \* the content it projects
  mine,      \* the request it waits for
  late,      \* requests given up
  conflict,  \* the conflict reported last
  asked,     \* the contents asked for so far
  decided,   \* the versions a user has decided about
  had        \* what the issue was at each version

memory == <<known, pending>>
call == <<pc, doing, payload, mine>>
tracker == <<remote, clock, had>>
user == <<conflict, decided>>
vars == <<protocol, local, tracker, memory, call, late, user, asked>>

Issue == [content : Content, version : 1..MaxClock, closed : BOOLEAN]
Request == [op : {"create", "update"}, content : 1..Last, expect : 0..MaxClock]
Conflict == [expected : 0..MaxClock, observed : Issue, desired : 1..Last]

ASSUME TrackerConstants ==
  /\ Last \in Nat \ {0} /\ Ended \subseteq 1..Last
  /\ MaxClock \in Nat /\ MaxLate \in Nat
  /\ None \notin Issue \cup Request \cup 1..Last

TypeOK ==
  /\ protocol \in {"github", "mapping"} /\ local \in 1..Last
  /\ remote \in Issue \cup {None} /\ clock \in 0..MaxClock
  /\ known \in Issue \cup {None}
  /\ pending \in 1..Last \cup {None} /\ (pending # None => known # None)
  /\ pc \in {"idle", "find", "status", "check", "mark", "send", "await"}
  /\ doing \in {None, "push", "pull", "use-local", "keep-observed"}
  /\ payload \in 1..Last \cup {None} /\ (pc # "idle" <=> payload # None)
  /\ mine \in Request \cup {None} /\ (pc \in {"mark", "send", "await"} <=> mine # None)
  /\ late \subseteq Request /\ Cardinality(late) <= MaxLate
  /\ conflict \in Conflict \cup {None}
  /\ asked \subseteq 1..Last /\ decided \subseteq 1..MaxClock
  /\ had \subseteq Issue

Init ==
  /\ protocol \in {"github", "mapping"} /\ local = 1
  /\ remote = None /\ clock = 0 /\ had = {}
  /\ known = None /\ pending = None
  /\ pc = "idle" /\ doing = None /\ payload = None /\ mine = None /\ late = {}
  /\ conflict = None /\ asked = {} /\ decided = {}

-------------------------------------------------------------------------------
(* The Task and the tracker.                                                  *)

Advance ==
  /\ local < Last
  /\ local' = local + 1
  /\ UNCHANGED <<protocol, tracker, memory, call, late, user, asked>>

Becomes(issue) == remote' = issue /\ clock' = issue.version /\ had' = had \cup {issue}

(* Others edit, close, reopen or touch the issue, or delete it.               *)
Others ==
  /\ remote # None
  /\ \/ /\ clock < MaxClock
        /\ \/ \E c \in Content :
                Becomes([remote EXCEPT !.content = c, !.version = clock + 1])
           \/ Becomes([remote EXCEPT !.closed = ~@, !.version = clock + 1])
     \/ remote' = None /\ UNCHANGED <<clock, had>>
  /\ UNCHANGED <<protocol, local, memory, call, late, user, asked>>

(* What the tracker does with a request, and the issue it answers with.       *)
Accepts(r) == IF r.op = "create" THEN remote = None
              ELSE remote # None /\ remote.version = r.expect
Written(r) == [content |-> r.content, version |-> clock + 1,
               closed |-> r.content \in Ended]
Serve(r) ==
  IF Accepts(r) THEN clock < MaxClock /\ Becomes(Written(r))
  ELSE UNCHANGED tracker

-------------------------------------------------------------------------------
(* What a call knows is gone when it ends.                                    *)
End ==
  /\ pc' = "idle" /\ doing' = None /\ payload' = None /\ mine' = None

(* It stops over a diagnostic, a store that fails, or the end of the process; *)
(* its request may still be on its way.                                       *)
Stop ==
  /\ pc # "idle"
  /\ End
  /\ late' = IF pc = "await" THEN late \cup {mine} ELSE late
  /\ Cardinality(late') <= MaxLate
  /\ UNCHANGED <<protocol, local, tracker, memory, user, asked>>

(* What is remembered is replaced as a whole, the pending mutation with it.   *)
MapTo(issue) == known' = issue /\ pending' = None

(* An Event is of use only while the Task is where it was; a mapping always.  *)
StillThere == protocol = "mapping" \/ payload = local
Recorded(issue) == IF StillThere THEN MapTo(issue) ELSE UNCHANGED memory
Remember(issue) ==
  /\ Recorded(issue)
  /\ End
  /\ UNCHANGED <<protocol, local, late, user, asked>>

Report(expected, issue) ==
  /\ conflict' = [expected |-> expected, observed |-> issue, desired |-> payload]
  /\ End
  /\ UNCHANGED <<protocol, local, late, decided, asked>>

KnownVersion == IF known = None THEN 0 ELSE known.version
Do(which, step) ==
  /\ pc = "idle"
  /\ doing' = which /\ payload' = local /\ pc' = step /\ mine' = None
Ask(op, expect) ==
  /\ mine' = [op |-> op, content |-> payload, expect |-> expect]
  /\ UNCHANGED <<doing, payload, protocol, local, tracker, late>>

-------------------------------------------------------------------------------
(* pushGitHubIssueProjection and pullGitHubIssueProjection, up to their first *)
(* request.                                                                   *)
Push ==
  /\ protocol = "github"
  /\ IF known = None THEN Do("push", "find")
     ELSE IF known.content = local /\ known.closed = (local \in Ended)
       THEN Do("push", "status")
     ELSE /\ pc = "idle" /\ doing' = "push" /\ payload' = local /\ pc' = "send"
          /\ mine' = [op |-> "update", content |-> local, expect |-> known.version]
  /\ UNCHANGED <<protocol, local, tracker, memory, late, user, asked>>
Pull ==
  /\ protocol = "github" /\ known # None
  /\ Do("pull", "status")
  /\ UNCHANGED <<protocol, local, tracker, memory, late, user, asked>>

(* findIssueByTaskId, when the Task has no reference.                         *)
Find ==
  /\ protocol = "github" /\ pc = "find"
  /\ \/ /\ remote = None
        /\ Ask("create", 0) /\ pc' = "send" /\ UNCHANGED <<memory, user, asked>>
     \/ /\ remote # None /\ remote.content = payload
        /\ Remember(remote) /\ UNCHANGED tracker
     \/ /\ remote # None /\ remote.content # payload
        /\ Report(0, remote) /\ UNCHANGED <<tracker, memory>>

(* getGitHubIssueProjectionStatus.                                            *)
Status ==
  /\ pc = "status" /\ remote # None
  /\ \/ remote.content = known.content /\ Remember(remote)
     \/ remote.content # known.content /\ Report(known.version, remote) /\ UNCHANGED memory
  /\ UNCHANGED tracker

-------------------------------------------------------------------------------
(* projectTrackerProjection.                                                  *)
Project ==
  /\ protocol = "mapping"
  /\ Do("push", "find")
  /\ UNCHANGED <<protocol, local, tracker, memory, late, user, asked>>

(* The lookup. A resource that says what the payload says is adopted when the *)
(* mapping says so too, or the pending mutation does. Mutant: always.         *)
AdoptsAlike == remote.content = payload
Adopts ==
  /\ remote.content = payload
  /\ known # None => IF pending = None THEN remote.content = known.content
                      ELSE pending = payload
Mutates ==
  /\ remote.content # payload
  /\ known # None /\ remote.content = known.content
  /\ pending \in {None, payload}
Lookup ==
  /\ protocol = "mapping" /\ pc = "find"
  /\ \/ /\ remote = None /\ known = None
        /\ Ask("create", 0) /\ pc' = "send" /\ UNCHANGED <<memory, user, asked>>
     \/ remote # None /\ Adopts /\ Remember(remote) /\ UNCHANGED tracker
     \/ /\ remote # None /\ Mutates
        /\ Ask("update", remote.version)
        /\ pc' = (IF pending = None THEN "mark" ELSE "send")
        /\ UNCHANGED <<memory, user, asked>>
     \/ /\ remote # None /\ ~Adopts /\ ~Mutates
        /\ Report(KnownVersion, remote) /\ UNCHANGED <<tracker, memory>>

(* The pending mutation is written before the request goes out.               *)
Mark ==
  /\ pc = "mark"
  /\ pending' = payload /\ asked' = asked \cup {payload}
  /\ pc' = "send"
  /\ UNCHANGED <<protocol, local, tracker, known, doing, payload, mine, late, user>>

-------------------------------------------------------------------------------
(* resolveGitHubIssueProjectionConflict and resolveTrackerProjectionConflict, *)
(* by a user who has the conflict before them.                                *)
Resolve(how) ==
  /\ conflict # None /\ conflict.desired = local
  /\ protocol = "github" => conflict.expected = KnownVersion
  /\ how = "keep-observed" => protocol = "github"
  /\ Do(how, "check")
  /\ UNCHANGED <<protocol, local, tracker, memory, late, user, asked>>

(* Only the very version the user has seen is decided about. Mutant: the      *)
(* issue as it is by now.                                                     *)
SeenAnyway == remote # None
Seen == remote = conflict.observed
CheckSeen ==
  /\ pc = "check" /\ remote # None
  /\ \/ /\ Seen /\ doing = "use-local"
        /\ Ask("update", remote.version) /\ pc' = "send"
        /\ decided' = decided \cup {conflict.observed.version}
        /\ UNCHANGED <<memory, conflict, asked>>
     \/ /\ Seen /\ doing = "keep-observed"
        /\ Recorded(remote) /\ End
        /\ decided' = decided \cup {conflict.observed.version}
        /\ UNCHANGED <<protocol, local, tracker, late, conflict, asked>>
     \/ /\ ~Seen
        /\ Report(IF protocol = "github" /\ known = None
                  THEN conflict.observed.version ELSE KnownVersion, remote)
        /\ UNCHANGED <<tracker, memory>>

-------------------------------------------------------------------------------
(* The requests.                                                              *)
Send ==
  /\ pc = "send"
  /\ pc' = "await" /\ asked' = asked \cup {payload}
  /\ UNCHANGED <<protocol, local, tracker, memory, doing, payload, mine, late, user>>

(* The answer comes: done, or the issue that is there instead. A create that  *)
(* meets an issue, and what says what was asked for, counts as done. Any      *)
(* answer but a lost one takes the pending mutation back.                     *)
(* Mutant: a write that was refused counts as done.                           *)
TakesAnyIssue(issue, r) == issue # None
Takes(issue, r) ==
  issue # None /\ issue.content = payload /\ (Accepts(r) \/ r.op = "create")
Answered ==
  /\ pc = "await"
  /\ Serve(mine)
  /\ LET issue == IF Accepts(mine) THEN Written(mine) ELSE remote
     IN  \/ Takes(issue, mine) /\ Remember(issue)
         \/ /\ issue # None /\ ~Takes(issue, mine)
            /\ Report(IF doing = "use-local" /\ protocol = "github" THEN mine.expect
                      ELSE KnownVersion, issue)
            /\ known' = known
            /\ pending' = IF doing = "push" THEN None ELSE pending
         \/ /\ issue = None /\ End
            /\ known' = known
            /\ pending' = IF doing = "push" THEN None ELSE pending
            /\ UNCHANGED <<protocol, local, late, user, asked>>

(* The answer is lost, or the caller with it. Mutant: silence is consent.     *)
UnheardButBelieved ==
  /\ pc = "await"
  /\ Serve(mine)
  /\ Remember(Written(mine))
  /\ UNCHANGED user
Unheard ==
  /\ pc = "await"
  /\ Serve(mine)
  /\ End
  /\ UNCHANGED <<protocol, local, memory, late, user, asked>>

(* A request arrives that was given up.                                       *)
Arrive(r) ==
  /\ r \in late
  /\ Serve(r)
  /\ late' = late \ {r}
  /\ UNCHANGED <<protocol, local, memory, call, user, asked>>

Next ==
  \/ Advance \/ Others \/ Stop
  \/ Push \/ Pull \/ Find \/ Status
  \/ Project \/ Lookup \/ Mark
  \/ \E how \in {"use-local", "keep-observed"} : Resolve(how)
  \/ CheckSeen \/ Send \/ Answered \/ Unheard
  \/ \E r \in Request : Arrive(r)

Spec == Init /\ [][Next]_vars

-------------------------------------------------------------------------------
(* What is remembered of the issue was there: an answer that was lost, a      *)
(* request given up and a write refused are never recorded as done            *)
(* (security.md: a network failure is not a synchronization that succeeded).  *)
RecordsAreTrue == known # None => known \in had

(* Text that somebody else wrote leaves the issue by a request of ours only   *)
(* when a user has decided about it: about the very version that is           *)
(* overwritten, or about the same text, as the issue is remembered since. A   *)
(* request that arrives late overwrites nothing else either.                  *)
Ours == (pc = "await" /\ pc' = "idle") \/ late' # late
ForeignEditsSurvive ==
  [][Ours /\ remote # None /\ remote.content = Foreign /\ remote' # remote
     => \E i \in had : /\ i.version \in decided /\ i.content = Foreign
                       /\ remote \in {i, known}]_vars

(* What is remembered moves from one text to another only to a text that was  *)
(* asked for, or that a user chose to keep: an issue that happens to say what *)
(* the Task says by now is no proof that we wrote it.                         *)
AdoptionIsEarned ==
  [][known # None /\ known'.content # known.content
     => known'.content \in asked' \/ known'.version \in decided']_vars
===============================================================================
