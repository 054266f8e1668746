SPECIFICATION FairSpec
CONSTANTS
  r1 = r1
  r2 = r2
  k1 = k1
  w1 = w1
  w2 = w2
  Requests = {r1, r2}
  KeyOf <- OneKey
  NoKey = NoKey
  Workers = {w1, w2}
  NoRequest = NoRequest
  MaxMessages = 2
  MaxExpiries = 2
  MaxCrashes = 1
  MaxFaults = 1
INVARIANTS
  TypeOK
  OneOperationPerKey
  SuccessMeansDispatched
  AtMostOncePerClaim
PROPERTIES
  AcceptedSettles
CHECK_DEADLOCK FALSE
