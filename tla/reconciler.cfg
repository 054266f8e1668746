SPECIFICATION Spec
CONSTANTS
  s1 = s1
  s2 = s2
  h1 = h1
  t1 = t1
  t2 = t2
  Sites = {s1}
  TargetOf <- OneHost
  Ready = {}
  Tickers = {t1, t2}
  NoSite = NoSite
  NoPayload = NoPayload
  BackoffAfter = 2
  FlapCycleLimit = 1
  GlobalBudget = 1
  MaxEdits = 4
  MaxFaults = 0
  MaxExpiries = 0
  MaxCrashes = 1
INVARIANTS
  TypeOK
  AtMostOneLateRepair
  KillSwitchBounded
  FlapBounded
SYMMETRY ReconcilerSymmetry
CHECK_DEADLOCK FALSE
