SPECIFICATION Spec
CONSTANTS
    Requests <- MCRequests
    Pollers = {p1, p2}
    Window = 1
    NonceTTL = 2
    IdemTTL = 2
    BatchCap = 2
    RateGeneral = 2
    RateDeploy = 2
    MaxSites = 1
    MaxDomains = 2
    DeploysPerDay = 4
    Ranks = {"cohost"}
    MaxNow = 3
    MaxPosts = 2
    MaxEvents = 1
SYMMETRY PollerSymmetry
INVARIANT JobAppliedOnce
INVARIANT WithinLimits
PROPERTY SpentNonceRefused
CHECK_DEADLOCK FALSE
