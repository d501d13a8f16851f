CONSTANTS
  g1 = g1
  g2 = g2
  r1 = r1
  r2 = r2
  a1 = a1
  a2 = a2
  h1 = h1
  w1 = w1
  None = None
  Grants = {g1, g2}
  Native = {g2}
  Runs = {r1, r2}
  Actions = {a1, a2}
  Requests = {h1}
  Contents = {w1}
  Budget <- MCBudget
  MaxTurns = 2
  Reasons = {"employee-stop"}
  MaxOverdue = 1
SPECIFICATION Spec
SYMMETRY Symmetric
CHECK_DEADLOCK FALSE
INVARIANTS
  TypeOK
  StoreReopens
  LivePermitsHaveAuthority
  EndedRunsAreSettled
  NothingRunsPastAQuestion
PROPERTIES
  FactsAreFinal
