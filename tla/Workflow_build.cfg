\* Two Plans, two Contexts, two fingerprints, two repairs, on every route.
SPECIFICATION Spec
CONSTANTS
  p1 = p1
  p2 = p2
  c1 = c1
  c2 = c2
  f1 = f1
  f2 = f2
  Plan = {p1, p2}
  Context = {c1, c2}
  Fingerprint = {f1, f2}
  MaxRepairAttempts = 2
  MaxGraphVersion = 2
  Nothing = Nothing
SYMMETRY IdentitySymmetry
INVARIANTS
  TypeOK
  WorkFollowsConsent
  RejectedPlansAreNotBuilt
  ReviewsJudgeThisWork
PROPERTIES
  RepairsWithinBudget
  DeliverySpec
