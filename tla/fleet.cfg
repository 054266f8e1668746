SPECIFICATION Spec
CONSTANTS
    Adopters = {w1}
    MaxRuns = 2
    MaxCancels = 1
    MaxAdoptFaults = 1
    Services <- MCServices
    MaxServices = 3
    MaxEdits = 1
    MaxPlans = 2
    Requests = {w1, w2}
    MaxTargets = 2
    MaxInstances = 2
    MaxCloudFaults = 1
    MaxAsks = 3
    HostSites = {sa, sb}
    RecreateSites = {sb}
    PullSites = {sa, sb}
    MaxDeploys = 2
    MaxKeys = 2
    MaxStepFaults = 2
    Reports <- MCReports
    Wordings <- MCWordings
    EligibleZones = {z1}
    Machines = {m1}
    Clients = {w1, w2}
    Nothing = Nothing
    Scans = {w1, w2}
    MaxSourceEdits = 1
    MaxScans = 2
    MaxSaves = 3
    MaxManifests = 2
    Trees <- MCTrees
    EditFiles <- MCEdits
    MaxScanEdits = 1
    MaxDeclarations = 1
    Rotators = {w1, w2}
    MaxHubKeys = 4
    MaxRotations = 3
    MaxHostFaults = 1
    MaxDeaths = 2
    MaxTornPuts = 1
    HubProcs = {w1, w2}
    UnitOrder <- MCUnits
    Nightly = 0
    MaxHour = 1
    MaxBackups = 2
    MaxUpsets = 1
    MaxRewraps = 1
SYMMETRY FleetSymmetry
INVARIANTS
    TypeOK
    
    
    
    ManifestIsGated
    ReportIsComplete
    KeysHold
    BackupsHold
CHECK_DEADLOCK FALSE
