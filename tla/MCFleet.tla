------------------------------ MODULE MCFleet -------------------------------
(***************************************************************************)
(* What changes machines and sites, on one small instance each: adoption,   *)
(* machines of the cloud, steps on a host, the wizard, the scanner, keys and*)
(* backups.  They share no state, so a behaviour explores one of them (focus).*)
(***************************************************************************)
EXTENDS Integers, Sequences, FiniteSets, TLC, WizardReports

CONSTANTS
    Adopters, MaxRuns, MaxCancels, MaxAdoptFaults, Services, MaxServices, MaxEdits, MaxPlans,
    Requests, MaxTargets, MaxInstances, MaxCloudFaults, MaxAsks, HostSites, RecreateSites,
    PullSites, MaxDeploys, MaxKeys, MaxStepFaults, Reports, Wordings, EligibleZones, Machines,
    Nothing, Clients, Scans, MaxSourceEdits, MaxScans, MaxSaves, MaxManifests, Trees, EditFiles,
    MaxScanEdits, MaxDeclarations, Rotators, MaxHubKeys, MaxRotations, MaxHostFaults, MaxDeaths,
    MaxTornPuts, HubProcs, UnitOrder, Nightly, MaxHour, MaxBackups, MaxUpsets, MaxRewraps

ASSUME RotationBounds == MaxHubKeys \in Nat \ {0}
\* A report declares what it blocks for; Nothing is none of the values it stands beside.
ASSUME WizardBounds ==
    /\ \A r \in Reports : r.soft \subseteq r.decls /\ r.decls \subseteq Wordings
    /\ Nothing \notin Reports /\ Nothing \notin Clients /\ Nothing # "yes" /\ MaxManifests \in Nat

\* A site with backups has a unit, and a window is a number of hours.
ASSUME BackupBounds ==
    UnitOrder \in Seq({UnitOrder[i] : i \in DOMAIN UnitOrder}) /\ UnitOrder # <<>> /\ Nightly \in Nat

ASSUME ScanBounds == MaxScanEdits \in Nat
\* A tree has one file at a path.
ASSUME TreePaths == \A t \in Trees : \A f \in t, g \in t : f.dir = g.dir /\ f.name = g.name => f = g

VARIABLES
    focus,  \* the component whose steps this behaviour explores
    mesh, runs, tasks, doing, minted, tempNames, orphans, prod, oldUp, temp, cancels,
    adoptFaults, raced, again,
    stack, edgeOwner, chosen, ambiguous, planned, vaulted, dbMissing, edits, plans,
    targets, running, created, req, attack, gate, siteLock, targetLock, op, origins, siteDeploy,
    orphan, cloudFaults, asks, overlapped, direct, lateJoin,
    work, images, box, volumes, migrations, healthy, params, dnsRecords, loaded, routed, pem,
    vaultKey, certRow, runbook, keys, stepFaults, torn, crossed,
    site, source, stored, answers, manifests, rowLock, client, scan, said, moved, sourceEdits,
    scans, saves,
    tree, stage, mods, declared, refused, met, checks, asked, manifest, treeEdits,
    keyRef, keyVault, authKeys, agedKeys, rotation, keysMade, rotations, hostFaults, deaths,
    tornPuts, together,
    keyfile, kekNow, kmsUp, secrets, cached, worker, dumps, told, quietAt, restores, hour,
    wraps, begun, rewraps, upsets, twoKeys, denied

Adopt == INSTANCE AdoptFlow
AdoptPlan == INSTANCE AdoptPlan
Cloud == INSTANCE CloudFleet
BoxSteps == INSTANCE HostSteps
Wizard == INSTANCE Wizard
Scanner == INSTANCE Scanner
SshKeys == INSTANCE SshRotation
Backups == INSTANCE SealedBackups

adoptState == <<mesh, runs, tasks, doing, minted, tempNames, orphans, prod, oldUp, temp,
                cancels, adoptFaults, raced, again>>
adoptPlanState == <<stack, edgeOwner, chosen, ambiguous, planned, vaulted, dbMissing, edits,
                    plans>>
cloudState == <<targets, running, created, req, attack, gate, siteLock, targetLock, op,
                origins, siteDeploy, orphan, cloudFaults, asks, overlapped, direct, lateJoin>>
boxStepsState == <<work, images, box, volumes, migrations, healthy, params, dnsRecords,
                   loaded, routed, pem, vaultKey, certRow, runbook, keys, stepFaults, torn,
                   crossed>>
wizardState == <<site, source, stored, answers, manifests, rowLock, client, scan, said, moved,
                 sourceEdits, scans, saves>>
scannerState == <<tree, stage, mods, declared, refused, met, checks, asked, manifest,
                  treeEdits>>
sshKeysState == <<keyRef, keyVault, authKeys, agedKeys, rotation, keysMade, rotations,
                  hostFaults, deaths, tornPuts, together>>
backupsState == <<keyfile, kekNow, kmsUp, secrets, cached, worker, dumps, told, quietAt,
                  restores, hour, wraps, begun, rewraps, upsets, twoKeys, denied>>
allVars == <<focus, adoptState, adoptPlanState, cloudState, boxStepsState, wizardState,
              scannerState, sshKeysState, backupsState>>

Components == {"adopt", "adoptPlan", "cloud", "boxSteps", "wizard", "scanner", "sshKeys", "backups"}

\* Out of focus a component has no state: it takes no step in this behaviour.
AdoptStarts ==
    IF focus = "adopt" THEN Adopt!Init ELSE
    mesh = 0 /\ runs = 0 /\ tasks = 0 /\ doing = 0 /\ minted = 0 /\ tempNames = 0 /\ orphans = 0 /\
    prod = 0 /\ oldUp = 0 /\ temp = 0 /\ cancels = 0 /\ adoptFaults = 0 /\ raced = 0 /\ again = 0
AdoptPlanStarts ==
    IF focus = "adoptPlan" THEN AdoptPlan!Init ELSE
    stack = 0 /\ edgeOwner = 0 /\ chosen = 0 /\ ambiguous = 0 /\ planned = 0 /\ vaulted = 0 /\
    dbMissing = 0 /\ edits = 0 /\ plans = 0
CloudStarts ==
    IF focus = "cloud" THEN Cloud!Init ELSE
    targets = 0 /\ running = 0 /\ created = 0 /\ req = 0 /\ attack = 0 /\ gate = 0 /\ siteLock = 0 /\
    targetLock = 0 /\ op = 0 /\ origins = 0 /\ siteDeploy = 0 /\ orphan = 0 /\ cloudFaults = 0 /\
    asks = 0 /\ overlapped = 0 /\ direct = 0 /\ lateJoin = 0
BoxStepsStarts ==
    IF focus = "boxSteps" THEN BoxSteps!Init ELSE
    work = 0 /\ images = 0 /\ box = 0 /\ volumes = 0 /\ migrations = 0 /\ healthy = 0 /\ params = 0 /\
    dnsRecords = 0 /\ loaded = 0 /\ routed = 0 /\ pem = 0 /\ vaultKey = 0 /\ certRow = 0 /\ runbook = 0 /\
    keys = 0 /\ stepFaults = 0 /\ torn = 0 /\ crossed = 0
WizardStarts ==
    IF focus = "wizard" THEN Wizard!Init ELSE
    site = 0 /\ source = 0 /\ stored = 0 /\ answers = 0 /\ manifests = 0 /\ rowLock = 0 /\ client = 0 /\
    scan = 0 /\ said = 0 /\ moved = 0 /\ sourceEdits = 0 /\ scans = 0 /\ saves = 0
ScannerStarts ==
    IF focus = "scanner" THEN Scanner!Init ELSE
    tree = 0 /\ stage = 0 /\ mods = 0 /\ declared = 0 /\ refused = 0 /\ met = 0 /\ checks = 0 /\
    asked = 0 /\ manifest = 0 /\ treeEdits = 0
SshKeysStarts ==
    IF focus = "sshKeys" THEN SshKeys!Init ELSE
    keyRef = 0 /\ keyVault = 0 /\ authKeys = 0 /\ agedKeys = 0 /\ rotation = 0 /\ keysMade = 0 /\
    rotations = 0 /\ hostFaults = 0 /\ deaths = 0 /\ tornPuts = 0 /\ together = 0
BackupsStarts ==
    IF focus = "backups" THEN Backups!Init ELSE
    keyfile = 0 /\ kekNow = 0 /\ kmsUp = 0 /\ secrets = 0 /\ cached = 0 /\ worker = 0 /\ dumps = 0 /\
    told = 0 /\ quietAt = 0 /\ restores = 0 /\ hour = 0 /\ wraps = 0 /\ begun = 0 /\ rewraps = 0 /\
    upsets = 0 /\ twoKeys = 0 /\ denied = 0

Init ==
    /\ focus \in Components
    /\ AdoptStarts /\ AdoptPlanStarts /\ CloudStarts /\ BoxStepsStarts /\ WizardStarts
    /\ ScannerStarts /\ SshKeysStarts /\ BackupsStarts

Next ==
    \/ /\ focus = "adopt" /\ Adopt!Next
       /\ UNCHANGED <<focus, adoptPlanState, cloudState, boxStepsState, wizardState,
                      scannerState, sshKeysState, backupsState>>
    \/ /\ focus = "adoptPlan" /\ AdoptPlan!Next
       /\ UNCHANGED <<focus, adoptState, cloudState, boxStepsState, wizardState, scannerState,
                      sshKeysState, backupsState>>
    \/ /\ focus = "cloud" /\ Cloud!Next
       /\ UNCHANGED <<focus, adoptState, adoptPlanState, boxStepsState, wizardState,
                      scannerState, sshKeysState, backupsState>>
    \/ /\ focus = "boxSteps" /\ BoxSteps!Next
       /\ UNCHANGED <<focus, adoptState, adoptPlanState, cloudState, wizardState,
                      scannerState, sshKeysState, backupsState>>
    \/ /\ focus = "wizard" /\ Wizard!Next
       /\ UNCHANGED <<focus, adoptState, adoptPlanState, cloudState, boxStepsState,
                      scannerState, sshKeysState, backupsState>>
    \/ /\ focus = "scanner" /\ Scanner!Next
       /\ UNCHANGED <<focus, adoptState, adoptPlanState, cloudState, boxStepsState,
                      wizardState, sshKeysState, backupsState>>
    \/ /\ focus = "sshKeys" /\ SshKeys!Next
       /\ UNCHANGED <<focus, adoptState, adoptPlanState, cloudState, boxStepsState,
                      wizardState, scannerState, backupsState>>
    \/ /\ focus = "backups" /\ Backups!Next
       /\ UNCHANGED <<focus, adoptState, adoptPlanState, cloudState, boxStepsState,
                      wizardState, scannerState, sshKeysState>>

Spec == Init /\ [][Next]_allVars

T == INSTANCE ScannerTrees
MCTrees == T!SmallTrees
MCEdits == T!SmallEdits

MCUnits == <<"u1", "u2">>

MCServices == {
    [hint |-> "web", edge |-> "none", port80 |-> FALSE, public |-> TRUE, url |-> 1],
    [hint |-> "web", edge |-> "none", port80 |-> TRUE, public |-> TRUE, url |-> 0],
    [hint |-> "db", edge |-> "none", port80 |-> FALSE, public |-> FALSE, url |-> 2],
    [hint |-> "db", edge |-> "none", port80 |-> FALSE, public |-> TRUE, url |-> 0],
    [hint |-> "web", edge |-> "caddy", port80 |-> TRUE, public |-> TRUE, url |-> 0],
    [hint |-> "web", edge |-> "nginx", port80 |-> TRUE, public |-> TRUE, url |-> 0]}

\* Requests, clients, scans and workers are interchangeable: every component has the
\* same two.
FleetSymmetry == Permutations(Requests)

-----------------------------------------------------------------------------
\* Every component keeps to its types.
TypeOK ==
    /\ focus = "adopt" => Adopt!TypeOK
    /\ focus = "adoptPlan" => AdoptPlan!TypeOK
    /\ focus = "cloud" => Cloud!TypeOK
    /\ focus = "boxSteps" => BoxSteps!TypeOK
    /\ focus = "wizard" => Wizard!TypeOK
    /\ focus = "scanner" => Scanner!TypeOK
    /\ focus = "sshKeys" => SshKeys!TypeOK
    /\ focus = "backups" => Backups!TypeOK

\* deploys/adopt_flow.py, provision/adopt.py: through refusals, failed calls, resumed runs,
\* cancels and the reaper one of the two stacks serves the site; a plan never gives a
\* service two roles nor the web role to an edge, and the operator's answer about a
\* mystery edge survives every later plan.
AdoptionHolds ==
    /\ focus = "adopt" => Adopt!OneStackServes
    /\ focus = "adoptPlan" => AdoptPlan!RolesAreExclusive /\ AdoptPlan!ChoiceSurvives

\* provision/ and scaling/: every instance that is paid for can be terminated, a row that
\* is gone has none running, and the site's record names only machines that run.
InstancesTracked ==
    focus = "cloud" => Cloud!InstancesAreTracked /\ Cloud!GoneIsGone /\ Cloud!OriginsRun

\* deploys/steps.py: whatever step fails, a site's certificate and key match, its
\* deployments leave the tls app of its siblings alone, and a blue_green site that was
\* deployed once always has a running container.
HostHolds ==
    focus = "boxSteps" =>
        BoxSteps!PairMatches /\ BoxSteps!SiblingsKeepTls /\ BoxSteps!SomeContainerRuns

\* wizard/materialize.py: no manifest takes a declaration as accepted in words no operator accepted,
\* nor is frozen from a report whose blockers stand, whatever is rescanned meanwhile.
ManifestIsGated == focus = "wizard" => Wizard!AcceptedAsWorded /\ Wizard!FrozenIsGated

\* scanner/core.py: a file linked out of the tree is announced or the scan fails, a
\* published credential blocks whatever is declared, and every block that needs an
\* acceptance names a confirm the same report asks, however the tree changes meanwhile.
ReportIsComplete ==
    focus = "scanner" => Scanner!EscapesAreAnnounced /\ Scanner!ProofsBlock /\ Scanner!BlocksCanBeAnswered

\* provision/ssh_rotate.py: a rotation that is alone leaves a key in the vault that opens
\* the host, and no line on the host without its key, whichever step it dies at.
KeysHold == focus = "sshKeys" => SshKeys!SomeKeyOpens /\ SshKeys!NoOrphanLine

\* vault/service.py, provision/backup.py: a stored secret can be read whenever its KEK can
\* be reached, a stored dump opens with the key a restore takes, and a unit the nightly
\* check is silent about can be restored.
BackupsHold ==
    focus = "backups" =>
        Backups!GetsOpen /\ Backups!DumpsOpen /\ Backups!QuietMeansRestorable
=============================================================================
