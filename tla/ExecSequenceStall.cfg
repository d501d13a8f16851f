SPECIFICATION Spec
CONSTANTS
  NoParent = NoParent
  t1 = t1
  t2 = t2
  t3 = t3
  p1 = p1
  p2 = p2
  s1 = s1
  s2 = s2
  s3 = s3
  r1 = r1
  r2 = r2
  c1 = c1
  c2 = c2
  o1 = o1
  NoRun = NoRun
  Fresh = Fresh
  Plan <- MCPhases
  Sessions = {s1, s2}
  Runs = {r1}
  Calls = {c1}
  Ops = {}
  MaxRevisions = 1
  MaxActions = 2
  MaxTurns = 2
  RelayEvery <- MCNoRelay
  Automatic = {TRUE}
  Native = {FALSE}
  Timed = {}
  Background = {}
SYMMETRY Symmetric
INVARIANTS
  UnfinishedSequenceCanResume
