SPECIFICATION MCSpec
CONSTANTS
  NoParent = NoParent
  t1 = t1
  t2 = t2
  t3 = t3
  t4 = t4
  p1 = p1
  p2 = p2
  p3 = p3
  ghost = ghost
  g1 = g1
  g2 = g2
  o1 = o1
  o2 = o2
  o3 = o3
  User = User
  NoGoal = NoGoal
  Candidates <- MCPlans
  Sessions = {s1}
  Goals = {g1, g2}
  Ops = {o1, o2, o3}
  Drafts <- MCDrafts
  MaxEvents = 4
  MaxReceipts = 3
  MaxSettings = 1
CONSTRAINT MCParts
SYMMETRY Symmetric
INVARIANTS
  KahnIsExact
  EarliestPhaseCanProgress
  ProjectionIsLeast
  PhasePlanIsSerial
  PlansReopen
  ModesCountUp
  ModelPlansWereAssessed
  ShownWasCommittedOnce
PROPERTIES
  PlanHistoryIsFinal
CHECK_DEADLOCK FALSE
