---------------------------- MODULE WorkflowProofs ----------------------------
(* For every set of Plans, Contexts and fingerprints and every repair limit:  *)
(* the Workflow's safety properties, and that it implements the delivery of   *)
(* approved work.                                                             *)
EXTENDS Workflow, TLAPS

(* The shape of the history.                                                  *)
PlanNotRejected ==
  plan # Nothing /\ plan.change = "recorded" => plan.material \notin rejected
OnlyBuildsExecute ==
  route # "build" => /\ consent = Nothing /\ approved = Nothing
                     /\ latest = Nothing
                     /\ implementation = Nothing /\ reviews = NoReviews
RolesFitPhase == latest # Nothing => latest.role \in RolesOf(phase)
FinishedInFinish == lifecycle \in {"completed", "archived"} => phase = "finish"
WithinBudget == repairs <= MaxRepairAttempts

HistoryInv ==
  /\ TypeOK
  /\ PlanNotRejected
  /\ OnlyBuildsExecute
  /\ RolesFitPhase
  /\ FinishedInFinish
  /\ WithinBudget
  /\ RejectedPlansAreNotBuilt
  /\ ReviewsJudgeThisWork

LEMMA NoReviewsTyped ==
  /\ NoReviews \in [Reviewers -> Review \cup {NotReviewed}]
  /\ \A r \in Reviewers : NoReviews[r] = NotReviewed
  BY DEF NoReviews

LEMMA RoutesAre == Routes = {"quick", "build", "initiative"}
  BY DEF Routes, Moves

LEMMA InitHistory == Init => HistoryInv
<1> SUFFICES ASSUME Init PROVE HistoryInv
  OBVIOUS
<1> USE DEF Init
<1>1. TypeOK
  BY NoReviewsTyped DEF TypeOK, Phases, Lifecycles
<1>2. PlanNotRejected
  BY DEF PlanNotRejected
<1>3. OnlyBuildsExecute
  BY DEF OnlyBuildsExecute
<1>4. RolesFitPhase
  BY DEF RolesFitPhase
<1>5. FinishedInFinish
  BY DEF FinishedInFinish
<1>6. WithinBudget
  BY WorkflowConstants DEF WithinBudget
<1>7. RejectedPlansAreNotBuilt /\ ReviewsJudgeThisWork
  BY DEF RejectedPlansAreNotBuilt, ReviewsJudgeThisWork
<1> QED BY <1>1, <1>2, <1>3, <1>4, <1>5, <1>6, <1>7 DEF HistoryInv

-------------------------------------------------------------------------------
(* Types.                                                                     *)

LEMMA EnterPositionTyped ==
  ASSUME TypeOK, NEW l \in Lifecycles, NEW p \in Phases, EnterPosition(l, p),
         approved' \in Plan \cup {Nothing}, consent' \in Material \cup {Nothing},
         repairs' \in Nat, graph' \in Nat
  PROVE  TypeOK'
  BY NoReviewsTyped DEF TypeOK, EnterPosition, planning

LEMMA TransitionTyped == TypeOK /\ Transition => TypeOK'
<1> SUFFICES ASSUME TypeOK, Transition PROVE TypeOK'
  OBVIOUS
<1> USE DEF TypeOK
<1> /\ "active" \in Lifecycles /\ "completed" \in Lifecycles
    /\ "blocked" \in Lifecycles /\ "cancelled" \in Lifecycles
    /\ "archived" \in Lifecycles
    /\ {"implement", "review", "finish", "integrate"} \subseteq Phases
  BY DEF Lifecycles, Phases
<1>1. ASSUME NEW p \in Phases, Proceed(p) PROVE TypeOK'
  BY <1>1, EnterPositionTyped DEF Proceed
<1>2. ASSUME ApprovePlan PROVE TypeOK'
  <2>1. plan.material \in Material /\ plan.material.plan \in Plan
    BY <1>2 DEF ApprovePlan, Material
  <2> QED BY <1>2, <2>1, EnterPositionTyped DEF ApprovePlan
<1>3. CASE EnterReview
  BY <1>3, EnterPositionTyped DEF EnterReview
<1>4. CASE PassReview
  BY <1>4, EnterPositionTyped DEF PassReview
<1>5. CASE Repair
  BY <1>5, EnterPositionTyped DEF Repair
<1>6. ASSUME NEW v \in 1..MaxGraphVersion, EnterIntegrate(v) PROVE TypeOK'
  BY <1>6, WorkflowConstants, EnterPositionTyped DEF EnterIntegrate
<1>7. CASE Complete
  BY <1>7, EnterPositionTyped DEF Complete
<1>8. CASE Block
  BY <1>8, EnterPositionTyped DEF Block
<1>9. CASE Resume
  BY <1>9, EnterPositionTyped DEF Resume
<1>10. CASE Cancel
  BY <1>10, EnterPositionTyped DEF Cancel
<1>11. CASE Archive
  BY <1>11, EnterPositionTyped DEF Archive
<1> QED
  BY <1>1, <1>2, <1>3, <1>4, <1>5, <1>6, <1>7, <1>8, <1>9, <1>10, <1>11
  DEF Transition

LEMMA AnswerTyped ==
  ASSUME TypeOK, Answer, implementation' \in Work \cup {Nothing},
         reviews' \in [Reviewers -> Review \cup {NotReviewed}]
  PROVE  TypeOK'
<1>1. latest \in Dispatched /\ latest' \in Dispatched
  BY DEF TypeOK, Answer, Dispatched
<1> QED BY <1>1 DEF TypeOK, Answer, position, planning

LEMMA RecordTyped == TypeOK /\ RolesFitPhase /\ Record => TypeOK'
<1> SUFFICES ASSUME TypeOK, RolesFitPhase, Record PROVE TypeOK'
  OBVIOUS
<1> USE DEF TypeOK, position, planning, execution
<1>1. CASE EscalateQuickToBuild
  BY <1>1, RoutesAre DEF EscalateQuickToBuild, Phases
<1>2. ASSUME NEW id \in Context, NEW frozen \in BOOLEAN,
             RecordContextManifestChange(id, frozen)
      PROVE  TypeOK'
  BY <1>2 DEF RecordContextManifestChange
<1>3. ASSUME NEW m \in Material, RecordBuildPlan(m) PROVE TypeOK'
  BY <1>3 DEF RecordBuildPlan
<1>4. CASE RejectBuildPlan
  BY <1>4 DEF RejectBuildPlan
<1>5. CASE ReviseInitiativeGraph
  BY <1>5 DEF ReviseInitiativeGraph
<1>6. ASSUME NEW role \in Roles, NEW base \in Fingerprint, NEW reused \in BOOLEAN,
             Dispatch(role, base, reused)
      PROVE  TypeOK'
  <2>1. latest' \in Dispatched
    BY <1>6 DEF Dispatch, Dispatched
  <2>2. waiting' \subseteq Reviewers
    BY <1>6 DEF Dispatch
  <2> QED BY <1>6, <2>1, <2>2 DEF Dispatch
<1>7. ASSUME NEW final \in Fingerprint, AcceptImplementation(final) PROVE TypeOK'
  <2>1. latest.plan \in Plan
    BY <1>7 DEF AcceptImplementation, Answer, Dispatched
  <2>2. implementation' \in Work
    BY <1>7, <2>1 DEF AcceptImplementation, Work
  <2>3. Answer /\ UNCHANGED reviews
    BY <1>7 DEF AcceptImplementation
  <2> QED BY <2>2, <2>3, AnswerTyped
<1>8. ASSUME NEW verdict \in {"clean", "blocking"}, AcceptReview(verdict)
      PROVE  TypeOK'
  <2>1. latest.role \in Reviewers /\ latest.base \in Fingerprint
    BY <1>8 DEF AcceptReview, Answer, Dispatched, RolesFitPhase, RolesOf
  <2>2. [verdict |-> verdict, base |-> latest.base] \in Review
    BY <2>1 DEF Review
  <2>3. reviews' \in [Reviewers -> Review \cup {NotReviewed}]
    BY <1>8, <2>1, <2>2 DEF AcceptReview
  <2>4. Answer /\ UNCHANGED implementation
    BY <1>8 DEF AcceptReview
  <2> QED BY <2>3, <2>4, AnswerTyped
<1>9. CASE AcceptOtherResult
  BY <1>9, AnswerTyped DEF AcceptOtherResult
<1> QED
  BY <1>1, <1>2, <1>3, <1>4, <1>5, <1>6, <1>7, <1>8, <1>9 DEF Record

-------------------------------------------------------------------------------
(* The history invariant is inductive.                                        *)

(* What a move that asks only for its Gate can be in a Build.                 *)
LEMMA BuildProceeds ==
  ASSUME NEW p \in Phases, TypeOK, Proceed(p)
  PROVE  /\ route = "build" => p \in {"explore", "plan"}
         /\ p \notin {"triage", "integrate"}
         /\ p = phase => FALSE
<1>1. CASE route = "build"
  BY <1>1 DEF Proceed, Moves
<1>2. CASE route = "quick"
  BY <1>2 DEF Proceed, Moves
<1>3. CASE route = "initiative"
  BY <1>3 DEF Proceed, Moves
<1> QED BY <1>1, <1>2, <1>3, RoutesAre DEF TypeOK

LEMMA TransitionKeepsHistory == HistoryInv /\ Transition => HistoryInv'
<1> SUFFICES ASSUME HistoryInv, Transition PROVE HistoryInv'
  OBVIOUS
<1>0. TypeOK /\ TypeOK'
  BY TransitionTyped DEF HistoryInv
<1> DEFINE Rest == /\ OnlyBuildsExecute /\ FinishedInFinish /\ WithinBudget
                   /\ RejectedPlansAreNotBuilt /\ ReviewsJudgeThisWork
<1> SUFFICES Rest'
  <2>1. latest' = Nothing /\ UNCHANGED <<plan, rejected>>
    BY DEF Transition, Proceed, ApprovePlan, EnterReview, PassReview, Repair,
           EnterIntegrate, Complete, Block, Resume, Cancel, Archive,
           EnterPosition, planning
  <2>2. PlanNotRejected' /\ RolesFitPhase'
    BY <2>1 DEF HistoryInv, PlanNotRejected, RolesFitPhase
  <2> QED BY <1>0, <2>2 DEF HistoryInv
<1>a. Rest /\ PlanNotRejected
  BY DEF HistoryInv
<1> USE DEF OnlyBuildsExecute, FinishedInFinish, WithinBudget, EnterPosition,
            RejectedPlansAreNotBuilt, ReviewsJudgeThisWork, planning
<1>1. ASSUME NEW p \in Phases, Proceed(p) PROVE Rest'
  BY <1>0, <1>1, <1>a, BuildProceeds DEF Proceed
<1>2. ASSUME ApprovePlan PROVE Rest'
  <2>1. plan.material \in Material /\ plan.material # Nothing
    BY <1>0, <1>2, WorkflowConstants DEF ApprovePlan, TypeOK
  <2>2. plan.material \notin rejected
    BY <1>2, <1>a DEF ApprovePlan, PlanNotRejected
  <2> QED BY <1>2, <1>a, <2>1, <2>2 DEF ApprovePlan, BuildIn, Active
<1>3. CASE EnterReview
  BY <1>3, <1>a, NoReviewsTyped DEF EnterReview, BuildIn, Active
<1>4. CASE PassReview
  BY <1>4, <1>a DEF PassReview, BuildIn, Active, BothReviewed
<1>5. CASE Repair
  BY <1>0, <1>5, <1>a, WorkflowConstants DEF Repair, Active, TypeOK
<1>6. ASSUME NEW v \in 1..MaxGraphVersion, EnterIntegrate(v) PROVE Rest'
  BY <1>6, <1>a DEF EnterIntegrate, Active
<1>7. CASE Complete
  BY <1>7, <1>a DEF Complete, Active
<1>8. CASE Block
  BY <1>8, <1>a DEF Block, Active
<1>9. CASE Resume
  BY <1>9, <1>a, NoReviewsTyped DEF Resume
<1>10. CASE Cancel
  BY <1>10, <1>a DEF Cancel, Active
<1>11. CASE Archive
  BY <1>11, <1>a DEF Archive
<1> QED
  BY <1>1, <1>2, <1>3, <1>4, <1>5, <1>6, <1>7, <1>8, <1>9, <1>10, <1>11
  DEF Transition

LEMMA RecordKeepsHistory == HistoryInv /\ Record => HistoryInv'
<1> SUFFICES ASSUME HistoryInv, Record PROVE HistoryInv'
  OBVIOUS
<1>0. TypeOK /\ TypeOK'
  BY RecordTyped DEF HistoryInv
<1> DEFINE Rest == /\ PlanNotRejected /\ OnlyBuildsExecute /\ RolesFitPhase
                   /\ FinishedInFinish /\ WithinBudget
                   /\ RejectedPlansAreNotBuilt /\ ReviewsJudgeThisWork
<1> SUFFICES Rest'
  BY <1>0 DEF HistoryInv
<1>a. Rest
  BY DEF HistoryInv
<1> USE DEF PlanNotRejected, OnlyBuildsExecute, FinishedInFinish, WithinBudget,
            RolesFitPhase, RejectedPlansAreNotBuilt, ReviewsJudgeThisWork,
            position, planning, execution
<1>1. CASE EscalateQuickToBuild
  BY <1>1, <1>a DEF EscalateQuickToBuild, Active
<1>2. ASSUME NEW id \in Context, NEW frozen \in BOOLEAN,
             RecordContextManifestChange(id, frozen)
      PROVE  Rest'
  BY <1>2, <1>a DEF RecordContextManifestChange
<1>3. ASSUME NEW m \in Material, RecordBuildPlan(m) PROVE Rest'
  BY <1>3, <1>a DEF RecordBuildPlan
<1>4. CASE RejectBuildPlan
  <2>1. plan'.change = "rejected"
    BY <1>0, <1>4 DEF RejectBuildPlan, TypeOK
  <2>2. PlanNotRejected'
    BY <2>1
  <2> QED BY <1>4, <1>a, <2>2 DEF RejectBuildPlan, BuildIn
<1>5. CASE ReviseInitiativeGraph
  BY <1>5, <1>a DEF ReviseInitiativeGraph
<1>6. ASSUME NEW role \in Roles, NEW base \in Fingerprint, NEW reused \in BOOLEAN,
             Dispatch(role, base, reused)
      PROVE  Rest'
  BY <1>6, <1>a DEF Dispatch, Active
<1>7. ASSUME NEW final \in Fingerprint, AcceptImplementation(final) PROVE Rest'
  <2>1. latest # Nothing /\ latest'.role = latest.role
    BY <1>0, <1>7 DEF AcceptImplementation, Answer, TypeOK, Dispatched
  <2>2. RolesFitPhase'
    BY <1>7, <1>a, <2>1 DEF AcceptImplementation, Answer
  <2> QED BY <1>7, <1>a, <2>2 DEF AcceptImplementation, Answer
<1>8. ASSUME NEW verdict \in {"clean", "blocking"}, AcceptReview(verdict)
      PROVE  Rest'
  <2>1. latest # Nothing /\ latest'.role = latest.role
    BY <1>0, <1>8 DEF AcceptReview, Answer, TypeOK, Dispatched
  <2>2. RolesFitPhase'
    BY <1>8, <1>a, <2>1 DEF AcceptReview, Answer
  <2>3. ReviewsJudgeThisWork'
    <3>1. /\ phase = "review" /\ phase' = "review"
          /\ UNCHANGED implementation
          /\ latest.base = implementation.final
          /\ implementation # Nothing
      BY <1>8 DEF AcceptReview, Answer
    <3>2. \A r \in Reviewers : reviews'[r] # NotReviewed =>
            reviews'[r].base = implementation.final
      <4> TAKE r \in Reviewers
      <4>1. CASE r = latest.role
        BY <1>0, <1>8, <3>1, <4>1 DEF AcceptReview, TypeOK
      <4>2. CASE r # latest.role
        <5>1. reviews'[r] = reviews[r]
          BY <1>0, <1>8, <4>2 DEF AcceptReview, TypeOK
        <5>2. route = "build"
          BY <1>8 DEF AcceptReview, Answer
        <5> QED BY <1>a, <3>1, <5>1, <5>2
      <4> QED BY <4>1, <4>2
    <3> QED BY <3>1, <3>2
  <2>4. PlanNotRejected' /\ OnlyBuildsExecute' /\ RejectedPlansAreNotBuilt'
    BY <1>8, <1>a DEF AcceptReview, Answer
  <2> QED BY <1>8, <1>a, <2>2, <2>3, <2>4 DEF AcceptReview, Answer
<1>9. CASE AcceptOtherResult
  <2>1. latest # Nothing /\ latest'.role = latest.role
    BY <1>0, <1>9 DEF AcceptOtherResult, Answer, TypeOK, Dispatched
  <2>2. RolesFitPhase'
    BY <1>9, <1>a, <2>1 DEF AcceptOtherResult, Answer
  <2> QED BY <1>9, <1>a, <2>2 DEF AcceptOtherResult, Answer
<1> QED
  BY <1>1, <1>2, <1>3, <1>4, <1>5, <1>6, <1>7, <1>8, <1>9 DEF Record

-------------------------------------------------------------------------------
(* Theorems that hold however approvals are written.                          *)

LEMMA HistoryInvHolds == Spec => []HistoryInv
<1>1. HistoryInv /\ [Next]_vars => HistoryInv'
  <2>1. HistoryInv /\ UNCHANGED vars => HistoryInv'
    BY DEF HistoryInv, TypeOK, PlanNotRejected, OnlyBuildsExecute, RolesFitPhase,
           FinishedInFinish, WithinBudget, RejectedPlansAreNotBuilt,
           ReviewsJudgeThisWork, vars
  <2> QED BY <2>1, TransitionKeepsHistory, RecordKeepsHistory DEF Next
<1> QED BY <1>1, InitHistory, PTL DEF Spec

(* Every variable has its type.                                               *)
THEOREM TypeCorrect == Spec => []TypeOK
  BY HistoryInvHolds, PTL DEF HistoryInv

(* A Build past Plan carries out a material its user approved and did not     *)
(* reject: validateBuildPlanChangeRequest and the approval gate together.     *)
THEOREM RejectedStayUnbuilt == Spec => []RejectedPlansAreNotBuilt
  BY HistoryInvHolds, PTL DEF HistoryInv

(* No verdict of an earlier Review cycle lets a Build out of Review.          *)
THEOREM ReviewsAreCurrent == Spec => []ReviewsJudgeThisWork
  BY HistoryInvHolds, PTL DEF HistoryInv

(* validateTransitionInvariants bounds the repairs of the whole history, and  *)
(* no event gives an attempt back.                                            *)
THEOREM RepairsAreBounded == Spec => RepairsWithinBudget
<1>1. HistoryInv => repairs <= MaxRepairAttempts
  BY DEF HistoryInv, WithinBudget
<1> DEFINE Counted == /\ repairs' >= repairs
                      /\ Active /\ phase = "review" /\ phase' = "implement" =>
                           repairs' = repairs + 1
<1>2. HistoryInv /\ [Next]_vars => [Counted]_vars
  <2> SUFFICES ASSUME HistoryInv, Next PROVE Counted
    OBVIOUS
  <2>0. repairs \in Nat /\ TypeOK
    BY DEF HistoryInv, TypeOK
  <2>1. ASSUME NEW p \in Phases, Proceed(p) PROVE Counted
    BY <2>0, <2>1 DEF Proceed, EnterPosition
  <2>2. CASE ApprovePlan
    BY <2>0, <2>2 DEF ApprovePlan, BuildIn, EnterPosition
  <2>3. CASE EnterReview \/ PassReview
    BY <2>0, <2>3 DEF EnterReview, PassReview, BuildIn, EnterPosition
  <2>4. CASE Repair
    BY <2>0, <2>4 DEF Repair
  <2>5. CASE \/ \E v \in 1..MaxGraphVersion : EnterIntegrate(v)
             \/ Complete \/ Block \/ Resume \/ Cancel \/ Archive
    BY <2>0, <2>5 DEF EnterIntegrate, Complete, Block, Resume, Cancel, Archive,
                      EnterPosition
  <2>6. CASE Record
    BY <2>0, <2>6
    DEF Record, EscalateQuickToBuild, RecordContextManifestChange,
        RecordBuildPlan, RejectBuildPlan, ReviseInitiativeGraph, Dispatch,
        Answer, AcceptImplementation, AcceptReview, AcceptOtherResult, position
  <2> QED BY <2>1, <2>2, <2>3, <2>4, <2>5, <2>6 DEF Next, Transition
<1>3. Spec => [](repairs <= MaxRepairAttempts)
  BY <1>1, HistoryInvHolds, PTL
<1>4. Spec => [][Counted]_vars
  BY <1>2, HistoryInvHolds, PTL DEF Spec
<1> QED BY <1>3, <1>4 DEF RepairsWithinBudget

(* A Task that is not active is moved by resuming and archiving alone.        *)
THEOREM StoppedStandStill == Spec => StoppedTasksStandStill
<1> DEFINE Still ==
      ~Active =>
        /\ UNCHANGED <<route, phase, plan, rejected, approved, accepted, graph>>
        /\ latest' \in {latest, Nothing}
        /\ lifecycle # "blocked" =>
             lifecycle' # "active" /\ UNCHANGED <<implementation, reviews>>
<1>1. ASSUME Next PROVE Still
  <2> SUFFICES ASSUME ~Active PROVE Still
    OBVIOUS
  <2>1. \/ Resume \/ Archive
        \/ \E id \in Context, frozen \in BOOLEAN :
             RecordContextManifestChange(id, frozen)
    BY <1>1 DEF Next, Transition, Proceed, ApprovePlan, EnterReview, PassReview,
                Repair, EnterIntegrate, Complete, Block, Cancel, BuildIn,
                Record, EscalateQuickToBuild, RecordBuildPlan, RejectBuildPlan,
                ReviseInitiativeGraph, Dispatch, Answer, AcceptImplementation,
                AcceptReview, AcceptOtherResult
  <2> QED BY <2>1 DEF Resume, Archive, EnterPosition, planning, Active,
                      RecordContextManifestChange, position, execution
<1>2. [Next]_vars => [Still]_vars
  BY <1>1
<1>3. Spec => [][Still]_vars
  BY <1>2, PTL DEF Spec
<1> QED BY <1>3 DEF StoppedTasksStandStill

-------------------------------------------------------------------------------
(* Consent and approval agree.                                                *)

Consented ==
  /\ approved = IF consent = Nothing THEN Nothing ELSE consent.plan
  /\ latest # Nothing => consent # Nothing /\ latest.plan = consent.plan
  /\ WorkFollowsConsent

LEMMA StepKeepsConsent ==
  ASSUME HistoryInv, HistoryInv', Consented, [Next]_vars
  PROVE  Consented'
<1>0. TypeOK
  BY DEF HistoryInv
<1> USE DEF Consented, WorkFollowsConsent, position, planning, execution
<1>1. ASSUME NEW p \in Phases, Proceed(p) PROVE Consented'
  BY <1>1 DEF Proceed, EnterPosition
<1>2. ASSUME ApprovePlan PROVE Consented'
  <2>1. consent' \in Material /\ consent' # Nothing
    BY <1>0, <1>2, WorkflowConstants DEF ApprovePlan, TypeOK
  <2> QED BY <1>2, <2>1 DEF ApprovePlan, EnterPosition
<1>3. CASE EnterReview \/ PassReview \/ Repair
  BY <1>3 DEF EnterReview, PassReview, Repair, EnterPosition
<1>4. CASE \/ \E v \in 1..MaxGraphVersion : EnterIntegrate(v)
           \/ Complete \/ Block \/ Resume \/ Cancel \/ Archive
  BY <1>4 DEF EnterIntegrate, Complete, Block, Resume, Cancel, Archive,
              EnterPosition
<1>5. CASE \/ EscalateQuickToBuild
           \/ \E id \in Context, frozen \in BOOLEAN :
                RecordContextManifestChange(id, frozen)
           \/ \E m \in Material : RecordBuildPlan(m)
           \/ RejectBuildPlan \/ ReviseInitiativeGraph
  BY <1>5 DEF EscalateQuickToBuild, RecordContextManifestChange,
              RecordBuildPlan, RejectBuildPlan, ReviseInitiativeGraph
<1>6. ASSUME NEW role \in Roles, NEW base \in Fingerprint, NEW reused \in BOOLEAN,
             Dispatch(role, base, reused)
      PROVE  Consented'
  BY <1>6 DEF Dispatch
<1>7. ASSUME Answer PROVE latest' # Nothing => /\ consent' # Nothing
                                               /\ latest'.plan = consent'.plan
  BY <1>0, <1>7 DEF Answer, TypeOK, Dispatched
<1>8. ASSUME NEW final \in Fingerprint, AcceptImplementation(final)
      PROVE  Consented'
  <2>1. implementation'.plan = latest.plan
    BY <1>8 DEF AcceptImplementation
  <2> QED BY <1>7, <1>8, <2>1 DEF AcceptImplementation, Answer
<1>9. CASE \/ \E verdict \in {"clean", "blocking"} : AcceptReview(verdict)
           \/ AcceptOtherResult
  BY <1>7, <1>9 DEF AcceptReview, AcceptOtherResult, Answer
<1>10. CASE UNCHANGED vars
  BY <1>10 DEF vars
<1> QED
  BY <1>1, <1>2, <1>3, <1>4, <1>5, <1>6, <1>8, <1>9, <1>10
  DEF Next, Transition, Record

LEMMA ConsentedHolds == Spec => []Consented
<1>1. Init => Consented
  BY DEF Init, Consented, WorkFollowsConsent
<1>2. HistoryInv /\ HistoryInv' /\ Consented /\ [Next]_vars => Consented'
  BY StepKeepsConsent
<1> QED BY <1>1, <1>2, HistoryInvHolds, PTL DEF Spec

(* The reviewed and delivered work was made under the Plan approved last.     *)
THEOREM WorkIsConsented == Spec => []WorkFollowsConsent
  BY ConsentedHolds, PTL DEF Consented

(* Every dispatch binds the Plan approved last, as the documents promise.     *)
THEOREM DispatchesBindConsent == Spec => []DispatchBindsApprovedPlan
<1>1. Consented => DispatchBindsApprovedPlan
  BY DEF Consented, DispatchBindsApprovedPlan
<1> QED BY <1>1, ConsentedHolds, PTL

-------------------------------------------------------------------------------
(* The history implements the delivery of approved work.                      *)

LEMMA VerdictsUnjudged ==
  ASSUME \/ phase \notin {"review", "finish"}
         \/ reviews = NoReviews
  PROVE  Verdicts = Delivery!Unjudged
  BY DEF Verdicts, Delivery!Unjudged, NoReviews, NotReviewed

LEMMA VerdictsKept ==
  ASSUME reviews' = reviews,
         phase' \in {"review", "finish"} <=> phase \in {"review", "finish"}
  PROVE  Verdicts' = Verdicts
  BY DEF Verdicts

(* A step that leaves what the abstraction sees alone.                        *)
Unseen == UNCHANGED <<rejected, consent, implementation, Verdicts, Delivered>>

LEMMA UnseenStutters == Unseen => UNCHANGED Delivery!vars
  BY DEF Unseen, Delivery!vars

LEMMA TransitionDelivers ==
  ASSUME HistoryInv, HistoryInv', Transition
  PROVE  [Delivery!Next]_Delivery!vars
<1> DEFINE Goal == Delivery!Next \/ Unseen
<1> SUFFICES Goal
  BY UnseenStutters
<1>0. TypeOK /\ OnlyBuildsExecute /\ OnlyBuildsExecute'
  BY DEF HistoryInv
<1>a. RejectedPlansAreNotBuilt /\ ReviewsJudgeThisWork /\ PlanNotRejected
  BY DEF HistoryInv
<1> USE DEF EnterPosition, planning
<1>1. ASSUME NEW p \in Phases, Proceed(p) PROVE Goal
  <2>1. ~Delivered /\ UNCHANGED <<rejected, consent, Delivered>>
    BY <1>1 DEF Proceed, Active, Delivered
  <2>2. CASE route = "build"
    <3>1. p \in {"explore", "plan"} /\ UNCHANGED <<implementation, reviews>>
      BY <1>0, <1>1, <2>2, BuildProceeds DEF Proceed
    <3>2. phase \notin {"review", "finish"}
      BY <1>1, <2>2 DEF Proceed, Moves
    <3>3. UNCHANGED Verdicts
      BY <1>1, <3>1, <3>2, VerdictsKept DEF Proceed
    <3> QED BY <2>1, <3>1, <3>3 DEF Unseen
  <2>3. CASE route # "build"
    <3>1. /\ implementation = Nothing /\ implementation' = Nothing
          /\ reviews = NoReviews /\ reviews' = NoReviews
      BY <1>0, <1>1, <2>3 DEF Proceed, OnlyBuildsExecute
    <3>2. UNCHANGED Verdicts
      BY <3>1 DEF Verdicts, NoReviews, NotReviewed
    <3> QED BY <2>1, <3>1, <3>2 DEF Unseen
  <2> QED BY <2>2, <2>3
<1>2. ASSUME ApprovePlan PROVE Goal
  <2>1. plan.material \in Material /\ plan.material \notin rejected
    BY <1>0, <1>a, <1>2 DEF ApprovePlan, TypeOK, PlanNotRejected
  <2>2. Verdicts' = Delivery!Unjudged
    <3>1. phase' \notin {"review", "finish"}
      BY <1>2 DEF ApprovePlan
    <3> QED BY <3>1 DEF Verdicts, Delivery!Unjudged
  <2>3. ~Delivered /\ UNCHANGED Delivered
    BY <1>2 DEF ApprovePlan, BuildIn, Active, Delivered
  <2>4. Delivery!Agree(plan.material)
    BY <1>2, <2>1, <2>2, <2>3 DEF ApprovePlan, Delivery!Agree
  <2> QED BY <2>1, <2>3, <2>4 DEF Delivery!Next
<1>3. CASE EnterReview
  <2>1. UNCHANGED Verdicts
    BY <1>3 DEF EnterReview, BuildIn, Verdicts, NoReviews, NotReviewed
  <2> QED BY <1>3, <2>1 DEF EnterReview, BuildIn, Active, Delivered, Unseen
<1>4. CASE PassReview
  <2>1. UNCHANGED Verdicts
    BY <1>4, VerdictsKept DEF PassReview, BuildIn
  <2> QED BY <1>4, <2>1 DEF PassReview, BuildIn, Active, Delivered, Unseen
<1>5. CASE Repair
  <2>1. /\ ~Delivered /\ UNCHANGED <<rejected, consent, Delivered>>
        /\ implementation' = Nothing
    BY <1>5 DEF Repair, Active, Delivered
  <2>2. Verdicts' = Delivery!Unjudged
    BY <1>5 DEF Repair, Verdicts, Delivery!Unjudged
  <2>3. Delivery!StartOver
    BY <2>1, <2>2 DEF Delivery!StartOver
  <2> QED BY <2>1, <2>3 DEF Delivery!Next
<1>6. ASSUME NEW v \in 1..MaxGraphVersion, EnterIntegrate(v) PROVE Goal
  <2>1. UNCHANGED Verdicts
    BY <1>6, VerdictsKept DEF EnterIntegrate
  <2> QED BY <1>6, <2>1 DEF EnterIntegrate, Active, Delivered, Unseen
<1>7. CASE Complete
  <2>1. UNCHANGED <<route, rejected, consent, implementation, Verdicts>>
    BY <1>7, VerdictsKept DEF Complete
  <2>2. CASE route = "build"
    <3>1. ~Delivered /\ Delivered'
      BY <1>7, <2>2 DEF Complete, Active, Delivered
    <3>2. Delivery!Buildable /\ implementation # Nothing
      BY <1>a, <1>7, <2>2
      DEF Complete, RejectedPlansAreNotBuilt, ReviewsJudgeThisWork,
          Delivery!Buildable
    <3>3. \A r \in Reviewers : Verdicts[r] = "clean"
      BY <1>a, <1>7, <2>2 DEF Complete, ReviewsJudgeThisWork, Verdicts
    <3>4. Delivery!Deliver
      BY <2>1, <3>1, <3>2, <3>3 DEF Delivery!Deliver
    <3> QED BY <3>1, <3>4 DEF Delivery!Next
  <2>3. CASE route # "build"
    BY <2>1, <2>3 DEF Delivered, Unseen
  <2> QED BY <2>2, <2>3
<1>8. CASE Block
  <2>1. UNCHANGED Verdicts
    BY <1>8, VerdictsKept DEF Block
  <2> QED BY <1>8, <2>1 DEF Block, Active, Delivered, Unseen
<1>9. CASE Resume
  <2>1. /\ ~Delivered /\ UNCHANGED <<rejected, consent, Delivered>>
        /\ implementation' \in {implementation, Nothing}
    BY <1>9 DEF Resume, Delivered
  <2>2. CASE phase \in {"implement", "review"}
    <3>1. Verdicts' = Delivery!Unjudged
      BY <1>9, <2>2 DEF Resume, Verdicts, Delivery!Unjudged, NoReviews,
                        NotReviewed
    <3>2. Delivery!StartOver
      BY <2>1, <3>1 DEF Delivery!StartOver
    <3> QED BY <2>1, <3>2 DEF Delivery!Next
  <2>3. CASE phase \notin {"implement", "review"}
    <3>1. UNCHANGED <<implementation, reviews, phase>>
      BY <1>9, <2>3 DEF Resume
    <3>2. UNCHANGED Verdicts
      BY <3>1, VerdictsKept
    <3> QED BY <2>1, <3>1, <3>2 DEF Unseen
  <2> QED BY <2>2, <2>3
<1>10. CASE Cancel
  <2>1. UNCHANGED Verdicts
    BY <1>10, VerdictsKept DEF Cancel
  <2> QED BY <1>10, <2>1 DEF Cancel, Active, Delivered, Unseen
<1>11. CASE Archive
  <2>1. UNCHANGED Verdicts
    BY <1>11, VerdictsKept DEF Archive
  <2> QED BY <1>11, <2>1 DEF Archive, Delivered, Unseen
<1> QED
  BY <1>1, <1>2, <1>3, <1>4, <1>5, <1>6, <1>7, <1>8, <1>9, <1>10, <1>11
  DEF Transition

LEMMA RecordDelivers ==
  ASSUME HistoryInv, Consented, Record
  PROVE  [Delivery!Next]_Delivery!vars
<1> DEFINE Goal == Delivery!Next \/ Unseen
<1> SUFFICES Goal
  BY UnseenStutters
<1>0. TypeOK /\ OnlyBuildsExecute
  BY DEF HistoryInv
<1>a. RejectedPlansAreNotBuilt /\ ReviewsJudgeThisWork /\ RolesFitPhase
  BY DEF HistoryInv
<1> USE DEF position, planning, execution
<1>1. CASE EscalateQuickToBuild
  <2>1. reviews = NoReviews /\ reviews' = NoReviews
    BY <1>0, <1>1 DEF EscalateQuickToBuild, OnlyBuildsExecute
  <2>2. UNCHANGED Verdicts
    BY <2>1 DEF Verdicts, NoReviews, NotReviewed
  <2> QED BY <1>1, <2>2 DEF EscalateQuickToBuild, Active, Delivered, Unseen
<1>2. CASE \/ \E id \in Context, frozen \in BOOLEAN :
                RecordContextManifestChange(id, frozen)
           \/ \E m \in Material : RecordBuildPlan(m)
           \/ ReviseInitiativeGraph
           \/ \E role \in Roles, base \in Fingerprint, reused \in BOOLEAN :
                Dispatch(role, base, reused)
           \/ AcceptOtherResult
  <2>1. UNCHANGED <<position, rejected, consent, implementation, reviews>>
    BY <1>2 DEF RecordContextManifestChange, RecordBuildPlan,
                ReviseInitiativeGraph, Dispatch, AcceptOtherResult, Answer
  <2> QED BY <2>1, VerdictsKept DEF Delivered, Unseen
<1>3. CASE RejectBuildPlan
  <2>1. ~Delivered /\ UNCHANGED <<consent, implementation, Verdicts, Delivered>>
    BY <1>3, VerdictsKept DEF RejectBuildPlan, BuildIn, Active, Delivered
  <2>2. Delivery!Refuse(plan.material)
    BY <1>3, <2>1 DEF RejectBuildPlan, Delivery!Refuse
  <2>3. plan.material \in Material
    BY <1>0, <1>3 DEF RejectBuildPlan, TypeOK
  <2> QED BY <2>1, <2>2, <2>3 DEF Delivery!Next
<1>4. ASSUME NEW final \in Fingerprint, AcceptImplementation(final) PROVE Goal
  <2>1. /\ ~Delivered /\ UNCHANGED <<rejected, consent, Verdicts, Delivered>>
    BY <1>4, VerdictsKept DEF AcceptImplementation, Answer, Active, Delivered
  <2>2. Delivery!Buildable
    BY <1>4, <1>a DEF AcceptImplementation, Answer, RejectedPlansAreNotBuilt,
                      Delivery!Buildable
  <2>3. latest.plan = consent.plan
    BY <1>4 DEF AcceptImplementation, Answer, Consented
  <2>4. Delivery!Produce(final)
    BY <1>4, <2>1, <2>2, <2>3 DEF AcceptImplementation, Delivery!Produce
  <2> QED BY <2>1, <2>4 DEF Delivery!Next
<1>5. ASSUME NEW verdict \in {"clean", "blocking"}, AcceptReview(verdict)
      PROVE  Goal
  <2>1. ~Delivered /\ UNCHANGED <<position, rejected, consent, implementation,
                                  Delivered>>
    BY <1>5 DEF AcceptReview, Answer, Active, Delivered
  <2>2. latest.role \in Reviewers /\ phase = "review" /\ implementation # Nothing
    BY <1>5, <1>a DEF AcceptReview, Answer, RolesFitPhase, RolesOf
  <2>3. Verdicts' = [Verdicts EXCEPT ![latest.role] = verdict]
    <3>1. \A r \in Reviewers : reviews'[r].verdict =
            IF r = latest.role THEN verdict ELSE reviews[r].verdict
      BY <1>0, <1>5, <2>2 DEF AcceptReview, TypeOK
    <3> QED BY <2>1, <2>2, <3>1 DEF Verdicts
  <2>4. Delivery!Judge(latest.role, verdict)
    BY <2>1, <2>2, <2>3 DEF Delivery!Judge
  <2> QED BY <2>1, <2>2, <2>4 DEF Delivery!Next
<1> QED BY <1>1, <1>2, <1>3, <1>4, <1>5 DEF Record

(* A Build's history is a delivery of approved work: no interleaving of       *)
(* replans, rejections, repairs, blocks and resumes delivers anything else.   *)
THEOREM ImplementsDelivery == Spec => DeliverySpec
<1>1. Init => Delivery!Init
  BY DEF Init, Delivery!Init, Verdicts, Delivery!Unjudged, NoReviews,
         NotReviewed, Delivered
<1>2. HistoryInv /\ HistoryInv' /\ Consented /\ [Next]_vars
        => [Delivery!Next]_Delivery!vars
  <2>1. UNCHANGED vars => UNCHANGED Delivery!vars
    BY DEF vars, Delivery!vars, Verdicts, Delivered
  <2> QED BY <2>1, TransitionDelivers, RecordDelivers DEF Next
<1> QED
  BY <1>1, <1>2, HistoryInvHolds, ConsentedHolds, PTL
  DEF Spec, DeliverySpec, Delivery!Spec
================================================================================
