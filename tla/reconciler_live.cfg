SPECIFICATION FairSpec
CONSTANTS
  s1 = s1
  s2 = s2
  h1 = h1
  t1 = t1
  t2 = t2
  Sites = {s1}
  TargetOf <- OneHost
  Ready = {h1}
  Tickers = {t1}
  NoSite = NoSite
  NoPayload = NoPayload
  BackoffAfter = 2
  FlapCycleLimit = 1
  GlobalBudget = 1
  MaxEdits = 2
  MaxFaults = 1
  MaxExpiries = 1
  MaxCrashes = 1
PROPERTIES
  DriftSettles
CHECK_DEADLOCK FALSE
