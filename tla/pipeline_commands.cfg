SPECIFICATION Spec
CONSTANTS
  s1 = s1
  s2 = s2
  t1 = t1
  w1 = w1
  w2 = w2
  sw1 = sw1
  op1 = op1
  Sites = {s1, s2}
  Targets = {t1}
  Deployments = {1, 2}
  SiteOf <- TwoSitesOf
  TargetOf <- OneTargetOf
  Windowed = {}
  Workers = {w1, w2}
  Sweepers = {}
  Operators = {op1}
  NSteps = 1
  MigrateStep = 1
  NSkipped = 1
  MaxMessages = 1
  MaxCrashes = 0
  MaxFaults = 1
  MaxEnvEdits = 0
  MaxRedispatch = 0
SYMMETRY WorkerSymmetry
INVARIANTS
  RunningHoldsLocks
CHECK_DEADLOCK FALSE
