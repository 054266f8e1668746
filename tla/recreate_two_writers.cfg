SPECIFICATION Spec
CONSTANTS
  HostSites = {sb}
  RecreateSites = {sb}
  PullSites = {sb}
  MaxDeploys = 3
  MaxKeys = 3
  MaxStepFaults = 2
INVARIANTS OneWriter
CHECK_DEADLOCK FALSE
