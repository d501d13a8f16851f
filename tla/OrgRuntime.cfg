CONSTANTS
  e1 = e1
  e2 = e2
  g1 = g1
  r1 = r1
  a1 = a1
  a2 = a2
  q1 = q1
  w1 = w1
  m1 = m1
  None = None
  Hosts = {e1, e2}
  Grants = {g1}
  Native = {}
  Runs = {r1}
  Actions = {a1, a2}
  Requests = {q1}
  Contents = {w1, m1}
  Writes = {w1}
  Setups <- MCSetups
  Budget <- MCBudget
  MaxTurns = 2
  Reasons = {}
  MaxOverdue = 1
SPECIFICATION FairSpec
CHECK_DEADLOCK FALSE
INVARIANTS
  RuntimeTypeOK
  EffectsAreMarked
  EndedRunsExplainEffects
PROPERTIES
  KeepsLedger
  IntervalsEnd
