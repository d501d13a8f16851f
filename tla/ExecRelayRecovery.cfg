SPECIFICATION RelaySpec
CONSTANTS
  NoParent = NoParent
  t1 = t1
  t2 = t2
  t3 = t3
  p1 = p1
  p2 = p2
  s1 = s1
  s2 = s2
  r1 = r1
  r2 = r2
  c1 = c1
  c2 = c2
  NoRun = NoRun
  Fresh = Fresh
  Plan <- MCPhases
  Sessions = {s1, s2}
  Runs = {r1}
  Calls = {}
  Ops = {}
  MaxRevisions = 1
  MaxActions = 2
  MaxTurns = 2
  RelayEvery <- MCAlways
  Automatic = {TRUE}
  Native = {TRUE}
  Timed = {}
  Background = {}
SYMMETRY Symmetric
INVARIANTS
  RecoveryIsExplicit
