SPECIFICATION Spec
CONSTANTS
  NoParent = NoParent
  t1 = t1
  t2 = t2
  t3 = t3
  p1 = p1
  p2 = p2
  s1 = s1
  s2 = s2
  s3 = s3
  r1 = r1
  r2 = r2
  c1 = c1
  c2 = c2
  o1 = o1
  NoRun = NoRun
  Fresh = Fresh
  Plan <- MCParallel
  Sessions = {s1, s2, s3}
  Runs = {r1, r2}
  Calls = {}
  Ops = {o1}
  MaxRevisions = 1
  MaxActions = 1
  MaxTurns = 1
  RelayEvery <- MCNoRelay
  Automatic = {FALSE}
  Native = {FALSE}
  Timed = {}
  Background = {}
SYMMETRY Symmetric
INVARIANTS
  StoredPlanLoads
  OperationsCommitOnce
