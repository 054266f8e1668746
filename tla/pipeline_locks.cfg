SPECIFICATION Spec
CONSTANTS
  s1 = s1
  s2 = s2
  t1 = t1
  w1 = w1
  w2 = w2
  sw1 = sw1
  op1 = op1
  Sites = {s1}
  Targets = {t1}
  Deployments = {1, 2, 3}
  SiteOf <- OneSiteOf
  TargetOf <- OneTargetOf
  Windowed = {}
  Workers = {w1, w2}
  Sweepers = {}
  Operators = {}
  NSteps = 1
  MigrateStep = 1
  NSkipped = 0
  MaxMessages = 1
  MaxCrashes = 0
  MaxFaults = 0
  MaxEnvEdits = 0
  MaxRedispatch = 0
SYMMETRY WorkerSymmetry
INVARIANTS
  TypeOK
  LocksAccounted
PROPERTIES
  ImplementsLifecycle
CHECK_DEADLOCK FALSE
