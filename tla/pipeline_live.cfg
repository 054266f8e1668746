SPECIFICATION FairSpec
CONSTANTS
  s1 = s1
  s2 = s2
  t1 = t1
  w1 = w1
  w2 = w2
  sw1 = sw1
  op1 = op1
  Sites = {s1}
  Targets = {t1}
  Deployments = {1}
  SiteOf <- OneSiteOf
  TargetOf <- OneTargetOf
  Windowed = {s1}
  Workers = {w1}
  Sweepers = {sw1}
  Operators = {}
  NSteps = 2
  MigrateStep = 1
  NSkipped = 1
  MaxMessages = 1
  MaxCrashes = 1
  MaxFaults = 1
  MaxEnvEdits = 1
  MaxRedispatch = 0
PROPERTIES
  RunningSettles
  NeverRestarted
CHECK_DEADLOCK FALSE
