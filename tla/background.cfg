SPECIFICATION Spec
CONSTANTS
    SiteOrder <- MCOrder
    Prod = {}
    OpenAfter = 2
    CloseAfter = 1
    FlapWindow = 2
    FlapCycles = 1
    StormWindow = 1
    StormLimit = 1
    GroupWindow = 1
    RepeatAfter = 2
    UnackedAfter = 2
    MaxClock = 2
    MaxProbes = 10
    MaxHands = 1
    MaxFaults = 1
    Children = {w1, w2}
    Probed <- MCProbed
    StaleAfter = 1
    Horizon = 2
    MaxMinute = 3
    MaxCrash = 1
    Engines = {w1, w2}
    Managers = {o1}
    MaxFilings = 3
    MaxMoves = 2
    Scopes = {ws1, ws2}
    Callers = {w1, w2}
    MaxAudits = 3
    MaxShipFaults = 2
    MaxPartnerDeletes = 1
    Rows = {r1, r2}
    Syncs = {w1, w2}
    StartSeq = 1
    MaxVersion = 1
    MaxDrops = 1
    MaxForeign = 1
    MaxPolls = 1
    Period <- MCPeriod
    MaxDrillNow = 5
    MaxLost = 1
    Ticks = {w1, w2}
    Chunk = 3
    ScanCap = 2
    MaxUnits = 5
    MaxRotations = 1
    MaxTicks = 3
    MaxHostErrors = 1
    ZoneSites = {a1, a2}
    Hosts <- MCHosts
    Consecutive = 2
    MaxGap = 1
    MaxEdgeFaults = 1
    MaxClicks = 2
    MaxTraffic = 2
    MaxEvals = 3
    DnsAgents = {w1, w2}
    Tokens = {t1, t2}
    Providers = {"cloudflare", "route53"}
    Wishes <- MCWishes
    VerifyTtl = 1
    MaxTime = 1
    MaxTasks = 3
    MaxEvents = 2
SYMMETRY BackgroundSymmetry
INVARIANTS
    TypeOK
    AlertsHold
    CyclesApart
    AgreeInTurn
    TrailHolds
    SeqIsHonest
    MissedExactly
    CountedOnce
    
    ZonesHold
CHECK_DEADLOCK FALSE
