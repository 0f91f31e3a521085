--------------------------- MODULE ApprovedDelivery ---------------------------
(* What a Build promises its user, whatever events its history is made of:    *)
(* the delivered work was produced under the Plan the user agreed to last, no *)
(* refused Plan is ever built, and every reviewer found this very work clean. *)
CONSTANTS Material, \* Plans, each with the Context it is carried out in
          Result,   \* fingerprints a piece of work can end in
          Reviewer, \* the independent reviewers
          Nothing   \* nothing agreed, nothing produced

VARIABLES refused,   \* materials the user refused
          agreed,    \* the material the user agreed to last
          work,      \* the work to deliver: its result and its Plan
          verdict,   \* each reviewer's verdict on this work
          delivered  \* has the work been delivered?

vars == <<refused, agreed, work, verdict, delivered>>

Unjudged == [r \in Reviewer |-> "none"]
Buildable == agreed # Nothing /\ agreed \notin refused

Init ==
  /\ refused = {}
  /\ agreed = Nothing /\ work = Nothing
  /\ verdict = Unjudged
  /\ delivered = FALSE

(* A new agreement starts from no work at all.                                *)
Agree(m) ==
  /\ m \notin refused
  /\ agreed' = m
  /\ work' = Nothing
  /\ verdict' = Unjudged
  /\ UNCHANGED <<refused, delivered>>

Refuse(m) ==
  /\ refused' = refused \cup {m}
  /\ UNCHANGED <<agreed, work, verdict, delivered>>

Produce(f) ==
  /\ Buildable
  /\ work' = [final |-> f, plan |-> agreed.plan]
  /\ UNCHANGED <<refused, agreed, verdict, delivered>>

Judge(r, v) ==
  /\ work # Nothing
  /\ verdict' = [verdict EXCEPT ![r] = v]
  /\ UNCHANGED <<refused, agreed, work, delivered>>

(* Reviews are taken again, or the work is done again.                        *)
StartOver ==
  /\ work' \in {work, Nothing}
  /\ verdict' = Unjudged
  /\ UNCHANGED <<refused, agreed, delivered>>

Deliver ==
  /\ Buildable
  /\ work # Nothing
  /\ \A r \in Reviewer : verdict[r] = "clean"
  /\ delivered' = TRUE
  /\ UNCHANGED <<refused, agreed, work, verdict>>

Next ==
  /\ ~delivered
  /\ \/ \E m \in Material : Agree(m) \/ Refuse(m)
     \/ \E f \in Result : Produce(f)
     \/ \E r \in Reviewer, v \in {"clean", "blocking"} : Judge(r, v)
     \/ StartOver
     \/ Deliver

Spec == Init /\ [][Next]_vars
================================================================================
