------------------------------- MODULE Workflow -------------------------------
(* One Task's accepted Workflow history, as packages/core/src/workflow.ts     *)
(* reads it. The code keeps the events and answers every question by scanning *)
(* them; a variable here holds what such a scan answers, and an action updates *)
(* it the way appending the action's event changes the answer. Each action is *)
(* an accepted request: it names the current version, so requests that lost a *)
(* race are refused and leave the history alone. Gates are taken to be        *)
(* submitted with the evidence they ask for; a request with less is refused.  *)
EXTENDS Naturals

CONSTANTS
  Plan, Context,     \* identities of Plans and of Implement Context Manifests
  Fingerprint,       \* fingerprints of the repository
  MaxRepairAttempts, \* policies.maxRepairAttempts
  MaxGraphVersion,   \* bound: versions of an Initiative's Dependency Graph
  Nothing            \* no such event in the history

Material == [plan : Plan, context : Context]
Work == [final : Fingerprint, plan : Plan]

ASSUME WorkflowConstants ==
  /\ MaxRepairAttempts \in Nat
  /\ MaxGraphVersion \in Nat
  /\ Nothing \notin Plan \cup Context \cup Fingerprint \cup Material \cup Work

VARIABLES
  route, lifecycle, phase, \* the Projection's position
  repairs,        \* countRepairAttempts: Review -> Implement, ever
  context,        \* currentImplementContextChange: identity, and frozen or not
  plan,           \* currentBuildPlanChange: material, and recorded or rejected
  rejected,       \* materials whose latest Build Plan change is a rejection
  approved,       \* approvedBuildPlanIdentity
  latest,         \* the latest dispatch since the last transition
  accepted,       \* has any dispatch id an accepted result?
  implementation, \* currentBuildImplementationResult
  reviews,        \* currentBuildReviewResults, by role
  graph,          \* version of latestInitiativeGraph, 0 when there is none
  consent,        \* auxiliary: the material the user approved last
  waiting         \* auxiliary: reviewers at work under an id of their own

position == <<route, lifecycle, phase>>
planning == <<context, plan, rejected>>
execution == <<latest, accepted, waiting>>
vars == <<route, lifecycle, phase, repairs, context, plan, rejected, approved,
          latest, accepted, implementation, reviews, graph, consent, waiting>>

Reviewers == {"standards-review", "spec-review"}

(* routeDefinitions: the moves between Phases. Every Phase may also block,    *)
(* resume and be cancelled; a completed Task may be archived.                 *)
Moves ==
  [quick |-> {<<"triage", "implement">>, <<"implement", "review">>,
              <<"review", "implement">>, <<"review", "finish">>},
   build |-> {<<"triage", "explore">>, <<"explore", "plan">>,
              <<"plan", "implement">>, <<"implement", "plan">>,
              <<"implement", "review">>, <<"review", "implement">>,
              <<"review", "finish">>},
   initiative |-> {<<"triage", "explore">>, <<"explore", "plan">>,
                   <<"plan", "integrate">>, <<"integrate", "finish">>}]
Routes == DOMAIN Moves
Phases == {"triage", "explore", "plan", "implement", "review", "integrate",
           "finish"}
Lifecycles == {"active", "blocked", "cancelled", "completed", "archived"}

(* phaseByAgentRole, turned around, for the Phases of a Build.                *)
RolesOf(p) ==
  CASE p = "explore" -> {"research"}
    [] p = "plan" -> {"planning", "architecture"}
    [] p = "implement" -> {"implementation"}
    [] p = "review" -> Reviewers
    [] p = "finish" -> {"knowledge"}
    [] OTHER -> {}
Roles == UNION {RolesOf(p) : p \in Phases}

NotReviewed == [verdict |-> "none", base |-> Nothing]
NoReviews == [r \in Reviewers |-> NotReviewed]
Review == [verdict : {"clean", "blocking"}, base : Fingerprint]
Dispatched == [role : Roles, base : Fingerprint, plan : Plan,
               answered : BOOLEAN]

TypeOK ==
  /\ route \in Routes /\ lifecycle \in Lifecycles /\ phase \in Phases
  /\ repairs \in Nat
  /\ context \in [id : Context, frozen : BOOLEAN] \cup {Nothing}
  /\ plan \in [material : Material, change : {"recorded", "rejected"}]
              \cup {Nothing}
  /\ rejected \subseteq Material
  /\ approved \in Plan \cup {Nothing}
  /\ latest \in Dispatched \cup {Nothing}
  /\ accepted \in BOOLEAN
  /\ implementation \in Work \cup {Nothing}
  /\ reviews \in [Reviewers -> Review \cup {NotReviewed}]
  /\ graph \in Nat
  /\ consent \in Material \cup {Nothing}
  /\ waiting \subseteq Reviewers

(* startWorkflowTask.                                                         *)
Init ==
  /\ route \in Routes /\ lifecycle = "active" /\ phase = "triage"
  /\ repairs = 0
  /\ context = Nothing /\ plan = Nothing /\ rejected = {}
  /\ approved = Nothing /\ consent = Nothing
  /\ latest = Nothing /\ accepted = FALSE /\ waiting = {}
  /\ implementation = Nothing
  /\ reviews = NoReviews
  /\ graph = 0

Active == lifecycle = "active"

BuildIn(p) == route = "build" /\ Active /\ phase = p

-------------------------------------------------------------------------------
(* Transitions.                                                               *)

(* Mutants: a result, or a review, of an earlier cycle stays the current one. *)
EnterPositionKeepsWork(l, p) ==
  /\ lifecycle' = l
  /\ phase' = p
  /\ latest' = Nothing
  /\ waiting' = {}
  /\ reviews' = IF l = "active" /\ p = "review" THEN NoReviews ELSE reviews
  /\ UNCHANGED <<route, planning, accepted, implementation>>
EnterPositionKeepsReviews(l, p) ==
  /\ lifecycle' = l
  /\ phase' = p
  /\ latest' = Nothing
  /\ waiting' = {}
  /\ implementation' =
       IF l = "active" /\ p = "implement" THEN Nothing ELSE implementation
  /\ UNCHANGED <<route, planning, accepted, reviews>>

(* A transition into a position, as later scans see it: the scan for a        *)
(* dispatch stops at any transition into the Phase, the scans for results of  *)
(* Implement and of Review at a transition that makes their Phase active,     *)
(* resuming a blocked Task included.                                          *)
EnterPosition(l, p) ==
  /\ lifecycle' = l
  /\ phase' = p
  /\ latest' = Nothing
  /\ waiting' = {}
  /\ implementation' =
       IF l = "active" /\ p = "implement" THEN Nothing ELSE implementation
  /\ reviews' = IF l = "active" /\ p = "review" THEN NoReviews ELSE reviews
  /\ UNCHANGED <<route, planning, accepted>>

(* The moves that ask for nothing but their Gate. Implement -> Plan is the    *)
(* replan of a Build: the Plan approved so far stays the approved one.        *)
Proceed(p) ==
  /\ Active
  /\ <<phase, p>> \in Moves[route]
  /\ <<phase, p>> \notin {<<"review", "implement">>, <<"plan", "integrate">>}
  /\ route = "build" => <<phase, p>> \notin {<<"plan", "implement">>,
                                             <<"implement", "review">>,
                                             <<"review", "finish">>}
  /\ EnterPosition("active", p)
  /\ UNCHANGED <<repairs, approved, graph, consent>>

(* Mutant: a Plan can be approved after it was rejected.                      *)
ApproveRejectedPlan ==
  /\ BuildIn("plan")
  /\ plan # Nothing
  /\ context = [id |-> plan.material.context, frozen |-> TRUE]
  /\ EnterPosition("active", "implement")
  /\ approved' = plan.material.plan
  /\ consent' = plan.material
  /\ UNCHANGED <<repairs, graph>>

(* validateBuildPlanImplementationTransition: the user approves the current   *)
(* recorded Plan with its Context still frozen. The evidence names the Plan   *)
(* first, as buildPlanApprovalTransition puts it: approvedBuildPlanIdentity   *)
(* looks no further than the first human approval of a Gate.                  *)
ApprovePlan ==
  /\ BuildIn("plan")
  /\ plan # Nothing /\ plan.change = "recorded"
  /\ context = [id |-> plan.material.context, frozen |-> TRUE]
  /\ EnterPosition("active", "implement")
  /\ approved' = plan.material.plan
  /\ consent' = plan.material
  /\ UNCHANGED <<repairs, graph>>

(* validateBuildImplementationResultTransition.                               *)
EnterReview ==
  /\ BuildIn("implement")
  /\ implementation # Nothing
  /\ EnterPosition("active", "review")
  /\ UNCHANGED <<repairs, approved, graph, consent>>

(* validateBuildReviewResultTransition.                                       *)
BothReviewed ==
  /\ implementation # Nothing
  /\ \A r \in Reviewers : /\ reviews[r] # NotReviewed
                          /\ reviews[r].base = implementation.final
(* Mutant: two reviews let the Build finish whatever they found.              *)
PassAnyReview ==
  /\ BuildIn("review")
  /\ BothReviewed
  /\ EnterPosition("active", "finish")
  /\ UNCHANGED <<repairs, approved, graph, consent>>

PassReview ==
  /\ BuildIn("review")
  /\ BothReviewed
  /\ \A r \in Reviewers : reviews[r].verdict = "clean"
  /\ EnterPosition("active", "finish")
  /\ UNCHANGED <<repairs, approved, graph, consent>>

(* Mutant: one repair too many.                                               *)
RepairOnceMore ==
  /\ Active /\ phase = "review"
  /\ route = "build" =>
       /\ BothReviewed
       /\ \E r \in Reviewers : reviews[r].verdict = "blocking"
  /\ repairs <= MaxRepairAttempts
  /\ EnterPosition("active", "implement")
  /\ repairs' = repairs + 1
  /\ UNCHANGED <<approved, graph, consent>>

Repair ==
  /\ Active /\ phase = "review"
  /\ route = "build" =>
       /\ BothReviewed
       /\ \E r \in Reviewers : reviews[r].verdict = "blocking"
  /\ repairs < MaxRepairAttempts
  /\ EnterPosition("active", "implement")
  /\ repairs' = repairs + 1
  /\ UNCHANGED <<approved, graph, consent>>

(* validateInitiativeGraphTransition: the snapshot may have any version.      *)
EnterIntegrate(v) ==
  /\ route = "initiative" /\ Active /\ phase = "plan"
  /\ EnterPosition("active", "integrate")
  /\ graph' = v
  /\ UNCHANGED <<repairs, approved, consent>>

Complete ==
  /\ Active /\ phase = "finish"
  /\ EnterPosition("completed", phase)
  /\ UNCHANGED <<repairs, approved, graph, consent>>

(* lifecycleTransitions.                                                      *)
Block ==
  /\ Active
  /\ EnterPosition("blocked", phase)
  /\ UNCHANGED <<repairs, approved, graph, consent>>

Resume ==
  /\ lifecycle = "blocked"
  /\ EnterPosition("active", phase)
  /\ UNCHANGED <<repairs, approved, graph, consent>>

Cancel ==
  /\ Active
  /\ EnterPosition("cancelled", phase)
  /\ UNCHANGED <<repairs, approved, graph, consent>>

Archive ==
  /\ lifecycle = "completed"
  /\ EnterPosition("archived", phase)
  /\ UNCHANGED <<repairs, approved, graph, consent>>

-------------------------------------------------------------------------------
(* Events that keep the position.                                             *)

(* An active Quick becomes a Build in Explore. The event is not a transition: *)
(* no scan stops at it, and the repairs of the Quick stay counted.            *)
EscalateQuickToBuild ==
  /\ route = "quick" /\ Active
  /\ route' = "build" /\ phase' = "explore"
  /\ UNCHANGED <<lifecycle, repairs, planning, approved, execution,
                 implementation, reviews, graph, consent>>

(* An Implement Context Manifest is frozen, or added to, refreshed or shrunk, *)
(* which thaws it. No position is asked for: not even an active Task.         *)
RecordContextManifestChange(id, frozen) ==
  /\ context' = [id |-> id, frozen |-> frozen]
  /\ UNCHANGED <<position, repairs, plan, rejected, approved, execution,
                 implementation, reviews, graph, consent>>

RecordBuildPlan(m) ==
  /\ BuildIn("plan")
  /\ context = [id |-> m.context, frozen |-> TRUE]
  /\ m \notin rejected
  /\ plan' = [material |-> m, change |-> "recorded"]
  /\ UNCHANGED <<position, repairs, context, rejected, approved, execution,
                 implementation, reviews, graph, consent>>

RejectBuildPlan ==
  /\ BuildIn("plan")
  /\ plan # Nothing /\ plan.change = "recorded"
  /\ context = [id |-> plan.material.context, frozen |-> TRUE]
  /\ plan' = [plan EXCEPT !.change = "rejected"]
  /\ rejected' = rejected \cup {plan.material}
  /\ UNCHANGED <<position, repairs, context, approved, execution,
                 implementation, reviews, graph, consent>>

ReviseInitiativeGraph ==
  /\ route = "initiative" /\ Active /\ phase = "integrate"
  /\ graph \in 1..(MaxGraphVersion - 1)
  /\ graph' = graph + 1
  /\ UNCHANGED <<position, repairs, planning, approved, execution,
                 implementation, reviews, consent>>

(* Mutant: every Agent counts as a reviewer at work.                          *)
DispatchAnyReviewer(role, base, reused) ==
  /\ route = "build" /\ Active
  /\ approved # Nothing
  /\ role \in RolesOf(phase)
  /\ phase = "review" =>
       implementation # Nothing /\ base = implementation.final
  /\ reused => accepted
  /\ latest' = [role |-> role, base |-> base, plan |-> approved,
                answered |-> reused]
  /\ waiting' = waiting \cup {role}
  /\ UNCHANGED <<position, repairs, planning, approved, accepted,
                 implementation, reviews, graph, consent>>

(* validatePhaseExecutionDispatchRequest. A dispatch id may be used again;    *)
(* when it already has a result, no other will be accepted for it.            *)
Dispatch(role, base, reused) ==
  /\ route = "build" /\ Active
  /\ approved # Nothing
  /\ role \in RolesOf(phase)
  /\ phase = "review" =>
       implementation # Nothing /\ base = implementation.final
  /\ reused => accepted
  /\ latest' = [role |-> role, base |-> base, plan |-> approved,
                answered |-> reused]
  /\ waiting' = IF reused THEN waiting
                         ELSE (waiting \cup {role}) \cap Reviewers
  /\ UNCHANGED <<position, repairs, planning, approved, accepted,
                 implementation, reviews, graph, consent>>

(* validatePhaseExecutionResultBinding: only the latest dispatch, only once.  *)
Answer ==
  /\ route = "build" /\ Active
  /\ latest # Nothing /\ ~latest.answered
  /\ latest' = [latest EXCEPT !.answered = TRUE]
  /\ accepted' = TRUE
  /\ waiting' = waiting \ {latest.role}
  /\ UNCHANGED <<position, repairs, planning, approved, graph, consent>>

AcceptImplementation(final) ==
  /\ phase = "implement"
  /\ Answer
  /\ implementation' = [final |-> final, plan |-> latest.plan]
  /\ UNCHANGED reviews

(* validateBuildReviewResultPayload: the review starts and ends at the final  *)
(* fingerprint of the implementation.                                         *)
AcceptReview(verdict) ==
  /\ phase = "review"
  /\ Answer
  /\ implementation # Nothing /\ latest.base = implementation.final
  /\ reviews' = [reviews EXCEPT ![latest.role] =
                   [verdict |-> verdict, base |-> latest.base]]
  /\ UNCHANGED implementation

(* Any other Agent's result, and an Implementation that did not succeed.      *)
AcceptOtherResult ==
  /\ phase # "review"
  /\ Answer
  /\ UNCHANGED <<implementation, reviews>>

-------------------------------------------------------------------------------
Transition ==
  \/ \E p \in Phases : Proceed(p)
  \/ ApprovePlan
  \/ EnterReview
  \/ PassReview
  \/ Repair
  \/ \E v \in 1..MaxGraphVersion : EnterIntegrate(v)
  \/ Complete
  \/ Block
  \/ Resume
  \/ Cancel
  \/ Archive

Record ==
  \/ EscalateQuickToBuild
  \/ \E id \in Context, frozen \in BOOLEAN :
       RecordContextManifestChange(id, frozen)
  \/ \E m \in Material : RecordBuildPlan(m)
  \/ RejectBuildPlan
  \/ ReviseInitiativeGraph
  \/ \E role \in Roles, base \in Fingerprint, reused \in BOOLEAN :
       Dispatch(role, base, reused)
  \/ \E final \in Fingerprint : AcceptImplementation(final)
  \/ \E verdict \in {"clean", "blocking"} : AcceptReview(verdict)
  \/ AcceptOtherResult

Next == Transition \/ Record
Spec == Init /\ [][Next]_vars

-------------------------------------------------------------------------------
(* Properties.                                                                *)

(* The work a Build reviews and delivers was dispatched under the Plan its    *)
(* user approved last, through every replan, repair, block and resume.        *)
WorkFollowsConsent ==
  implementation # Nothing =>
    consent # Nothing /\ implementation.plan = consent.plan

(* Every dispatch binds the Plan the user approved last, though it is looked  *)
(* for anew in the history each time.                                         *)
DispatchBindsApprovedPlan ==
  latest # Nothing => consent # Nothing /\ latest.plan = consent.plan

(* A Build past Plan carries out a material the user approved and has not     *)
(* rejected, before or since.                                                 *)
RejectedPlansAreNotBuilt ==
  route = "build" /\ phase \in {"implement", "review", "finish"} =>
    consent # Nothing /\ consent \notin rejected

(* Every verdict that can let a Build out of Review, or has let it out, is    *)
(* about the implementation at hand: none is left over from an earlier cycle. *)
ReviewsJudgeThisWork ==
  route = "build" /\ phase \in {"review", "finish"} =>
    /\ implementation # Nothing
    /\ \A r \in Reviewers : reviews[r] # NotReviewed =>
         reviews[r].base = implementation.final
    /\ phase = "finish" =>
         \A r \in Reviewers : reviews[r].verdict = "clean"

(* Review returns to Implement no more often than the policy allows, counted  *)
(* over the whole life of the Task: replanning, resuming and becoming a Build *)
(* give no attempt back.                                                      *)
RepairsWithinBudget ==
  /\ [][/\ repairs' >= repairs
        /\ Active /\ phase = "review" /\ phase' = "implement" =>
             repairs' = repairs + 1]_vars
  /\ [](repairs <= MaxRepairAttempts)

(* A Task that is not active takes no Plan, dispatch, result or Phase change; *)
(* what it has leaves it only by resuming, and a finished Task cannot.        *)
StoppedTasksStandStill ==
  [][~Active =>
       /\ UNCHANGED <<route, phase, plan, rejected, approved, accepted, graph>>
       /\ latest' \in {latest, Nothing}
       /\ lifecycle # "blocked" =>
            lifecycle' # "active" /\ UNCHANGED <<implementation, reviews>>]_vars

(* The abstract delivery of approved work. A verdict counts once its Review   *)
(* is under way.                                                              *)
Verdicts == [r \in Reviewers |->
               IF phase \in {"review", "finish"} THEN reviews[r].verdict
                                                 ELSE "none"]
Delivered == route = "build" /\ lifecycle \in {"completed", "archived"}
Delivery == INSTANCE ApprovedDelivery WITH
  Result <- Fingerprint,
  Reviewer <- Reviewers,
  refused <- rejected,
  agreed <- consent,
  work <- implementation,
  verdict <- Verdicts,
  delivered <- Delivered
DeliverySpec == Delivery!Spec

-------------------------------------------------------------------------------
(* What the documents say and the code does not do.                           *)

(* "Standards Review and Spec Review MAY execute concurrently": the result of *)
(* every reviewer at work can still be accepted.                              *)
ReviewersAtWorkCanReport ==
  \A r \in waiting : latest.role = r /\ ~latest.answered
================================================================================
