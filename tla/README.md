# A verification project for deploy-hub

deploy-hub is a self-hosted deployment control plane: a Django application with
Celery workers that builds, ships and routes web sites on machines it reaches over
SSH, watches them, and repairs them. This directory holds TLA+ modules that model
its concurrent core, TLC configurations that check them on small instances, and
TLAPS proofs of the main results for instances of any size.

Paths below are relative to the repository.

## 1. The system

Processes. A web process (no `ATOMIC_REQUESTS`: every statement commits on its
own), Celery workers on three queues (`deploys` with two children, `probes` with
four, `control` with one; messages are acknowledged when they are received, so a
killed child loses its message) and Celery beat, which starts the sweep of stale
deployments every 30 s, the git poll every 120 s, the outbox drain every 5 s, the
reconciler every 90 s and the collector every 60 s. All state is in the database;
the broker only carries ids in signed envelopes that expire after 300 s.

| component | state it keeps | operations | what is hard | what makes it correct |
|---|---|---|---|---|
| deployment pipeline (`deploys/pipeline.py`, `heartbeat.py`, `tasks.py`, `core/locks.py`) | `Deployment`, `DeploymentStep`, `OperationLock` of kind deploy | begin, execute, step, supersede, fail, finish, sweep | no transactions; a worker lives on after its deployment was superseded, aborted or resumed by another worker; crashes between any two statements | RUNNING means the locks are held; SUCCEEDED means every step was carried out; conflicting deployments do not run together; everything RUNNING settles |
| producers (`deploys/poller.py`, `env.py`, `hud.py`, `views.py`) | `Manifest`, `Site.config_stale`, parked rows | poll, park, promote, apply env, retry, rollback, cancel, abort | row and message are not one transaction | no order of commands corrupts the pipeline |
| HUD outbox (`core/hud/operations.py`, `core/tasks.py`) | `HudOperation`, `HudCommandOutbox` | accept, nudge, drain, claim, dispatch, close | duplicate delivery, claim timeout, crash between claim and close | one operation per key; no false success; bounded repetition; every accepted command ends |
| reconciler (`reconcile/loop.py`) | `SiteInstance`, reconcile locks, repair history | observe, repair, back off, pause | races with deployments and with itself | bounded repairs, no fight with the operator |
| deploy steps (`deploys/steps.py`, `certs.py`, `dns01.py`) | containers, certificate files, the Caddy configuration of a host, runbooks | build, ship, migrate, start, health, DNS, certificate, route, cutover, smoke, rollback | two sites share a host, every command can fail, a superseded worker finishes its step | certificate and key match, siblings keep their TLS, a deployed site has a running container |
| overflow and scaling (`deploys/overflow.py`, `provision/overflow.py`, `scaling/`) | overflow targets, origins of a site, scale proposals | copy, join, scale in, reap, evaluate, propose | a second target's locks, partial failure, attack traffic that looks like load | published origins run; an attack does not scale a site |
| adopt (`deploys/adopt_*.py`, `provision/adopt.py`) | adoption checks, temporary names and containers, the plan of roles | plan, adopt, verify, flip, decommission, cancel, reap | cancel and reaper race the flow; a resumed flow repeats stages | one of the two stacks serves the site |
| alerting (`monitor/antinoise.py`, `alerts.py`, `pager.py`, `uptime.py`, `drills.py`) | alerts, findings, uptime events, the fleet lock of the probe cycle, drill schedules | probe, open, flap, group, repeat, acknowledge, sweep, seed, detect | timers, storms, lost beat messages, locks broken by age | pages are bounded, no outage is silent, a missed drill is reported |
| inbox (`core/findings.py`, `monitor/views.py`) | `Finding` rows | file, move, audit, publish | read, save, audit and publish are four statements | row, trail and stream agree |
| collection (`monitor/collector.py`, `collect_once.py`, `traffic.py`) | payload and log cursor of a target, `TrafficStat` | pull, rotate, ingest | overlapping ticks, rotation, a line half written | no request is counted twice |
| attack playbook (`monitor/attack_*.py`, `scaling/attack_gate.py`) | findings of zone and site, the edge's security level | engage, relax, refuse to scale | two sites of one zone, failing edge calls | Under-Attack always has a row that will end it |
| partner intake (`intake/`, `core/partner_*.py`, `monitor/intake_poll.py`) | edge outbox, nonces, idempotency keys, quotas | post, poll, verify, materialise, acknowledge, suspend | replays, lost acknowledgements, two pollers, expiry of nonces | a job is applied once, within its quotas |
| audit trail (`core/audit.py`, `audit_ship.py`) | hash chain per scope, shipped stamps | append, roll back, delete a partner, ship, verify | concurrent appends, crash while shipping | the chain verifies, what counts as shipped is stored |
| vault, keys, backups (`vault/`, `provision/ssh_rotate.py`, `provision/backup.py`) | keyfile, wrapped secrets, DEK caches, host keys, dumps | mint, put, get, rewrap, rotate, back up, restore | no lock between beat, operator and drill; a death between any two statements | no secret, host or dump becomes unreadable |
| providers: DNS (`providers/registry.py`, `cloudflare.py`, `route53.py`, `core/zone_views.py`, `monitor/token_audit.py`) | account, token refs, the process's cache of proved scopes, records | connect, plant, construct, upsert, audit | tokens change at the provider; an upsert is several calls | no client inherits another token's proof; a served name stays served |
| enrolment (`provision/`, `monitor/*reaper.py`) | targets, cloud instances | enrol, provision, terminate, reap | a request dies between the provider's call and its save | every paid instance can be terminated |
| wizard (`wizard/`) | site answers, scan reports, manifests | create, scan, save, gate, freeze | a rescan between the gate and the freeze | no manifest is frozen past a blocker |
| scanner (`scanner/`) | none; a walk of a tree | detect, declare, check, report | the tree is edited between two of its walks; links | what it declined to read is announced; published credentials block |
| realtime (`realtime/`, `frontend/src/useEvents.js`) | sequence numbers, the panel's view | publish, connect, snapshot, apply | lost and reordered frames, late snapshots | the panel shows what its sequence number stands for |
| HTTP API, frontend | | | input and output | not modelled, see section 7 |

Interactions. Producers and the outbox create `Deployment` rows and send `run_deploy`;
the sweep sends it again; `begin_deploy` supersedes the RUNNING deployment of the
site; the reconciler looks at the deploy locks before it repairs; overflow copies go
through `begin_deploy` with another target.

## 2. The modules

| module | what it is |
|---|---|
| `DeployPipeline` | workers, sweeps, operators and producers over deployments, steps and locks |
| `DeployLifecycle` | the abstract specification of a deployment: exclusive RUNNING, no restart |
| `DeployPipelineProofs` | inductive invariant and theorems about `DeployPipeline` |
| `MCDeployPipeline` | small instances for TLC |
| `HudOutbox` | HTTP commands, outbox rows, drains and claiming workers |
| `HudOutboxProofs` | inductive invariant and theorems about `HudOutbox` |
| `MCHudOutbox` | small instances for TLC |
| `Reconciler` | overlapping reconciler passes, the collector, deployments and operators around one row per site |
| `ReconcilerProofs` | inductive invariant and theorems about `Reconciler` |
| `MCReconciler` | small instances for TLC |
| `PartnerIntake`, `MCPartnerIntake` | the edge of the intake, its outbox and the pollers of the hub |
| `PartnerIntakeProofs` | inductive invariant and theorems about `PartnerIntake` |
| `Alerting` | the anti-noise engine between the probes and the pager |
| `UptimeCycle` | the probe cycle under its fleet lock, and retention |
| `FindingsInbox` | one row of the inbox with its audit and realtime copies |
| `AuditTrail` | hash chains and their shipping |
| `LiveStream` | snapshot-then-stream between producers and the browser |
| `Drills` | scheduled drills and the report of missed ones |
| `TrafficCollect` | an access log on its way into counters |
| `AttackScaling` | the attack playbook and the scaler it holds back |
| `DnsZones` | tokens, proofs of scope, clients and records of one DNS zone |
| `MCBackground` | composes the nine modules above from `Alerting` on |
| `RecordProofs` | theorems about `FindingsInbox`, `AuditTrail`, `LiveStream` and `Drills`, in the composition |
| `WatchProofs` | theorems about `UptimeCycle`, `TrafficCollect` and `AttackScaling`, in the composition |
| `AdoptFlow`, `AdoptPlan` | the stages of an adoption, and the plan of a stack's roles |
| `CloudFleet` | rented machines: enrolment, overflow, join, scale in, reapers |
| `HostSteps` | what deploy steps do to a host two sites share |
| `Wizard`, `WizardReports` | from a scanned project to a frozen manifest; the reports it is checked on |
| `Scanner`, `ScannerTrees` | the readiness scan as a sequence of walks; the trees it is checked on |
| `SshRotation` | the rotation of a target's login key |
| `SealedBackups` | the keyfile, wrapped secrets, backup keys, dumps and restores |
| `MCFleet` | composes `AdoptFlow` to `SealedBackups` |
| `MachineProofs` | theorems about `CloudFleet` and `HostSteps`, in the composition |
| `FleetProofs` | theorems about `SshRotation` and `Wizard`, in the composition |

`DeployPipeline` instantiates `DeployLifecycle` with a refinement mapping. The three
detailed modules meet at narrow interfaces: the outbox hands a deployment over
(`HudOutbox!Dispatch`, which the pipeline sees as a row and a message, or with
`Redispatch` as a second message), and the reconciler sees of the pipeline only who
holds the deploy locks (`deploying`). `HostSteps` takes from the pipeline that one
deployment at a time begins on a host, and starts where `DeployPipeline` sees one action
that returns or raises.

`MCBackground` and `MCFleet` put modules side by side that have no variable in common:
where the code of two of them does meet (most file rows in the inbox, all append to the
audit trail), each models its own side of it. The variable `focus` is chosen in `Init`; a
behaviour then takes the steps of one component, and the variables of the others are 0.
The product of modules without common state has no behaviour that is not an interleaving
of theirs, so one run asks the questions of eight or nine and nothing is lost. The
interactions themselves are in section 8.

## 3. How state and actions correspond to the code

### DeployPipeline

The code opens no transaction around the statements of a deployment, so every
statement another process can observe or disturb is an action. A process has a program
counter `pc` and the local variables the code has at that place: the deployment it
was given (`dep`), the status it last read (`row`), the step rows it read before the
loop (`cache`) and its place in them (`seq`), the deployments it is about to supersede
(`todo`), the victim and the lock rows of a `release_deploy_locks` call (`vic`, `rows`,
`ret`).

| code | actions |
|---|---|
| `run_deploy`, `execute` up to `begin_deploy` | `TakeMessage`, `EnvelopeExpired`, `SeamRefused`, `NotStartable`, `BeginDeploy` |
| `begin_deploy`, `_supersede_running`, `release_deploy_locks` | `SupersedeOne`, `Release`, `AcquireSite`, `AcquireTarget`, `BackOut`, `SaveRunning` |
| `_execute_running`, `_run_step`, `_mark_failed` | `LoadSteps`, `LoopEnter`, `StartStep`, the outcome of the step, its save, the finish, the clearing of `config_stale`, the `finally` |
| `heartbeat.sweep` | `SweepList`, then per row finalize, abort, skip, or claim and enqueue |
| `hud.py` commands, `poller.py`, `env.py` | cancel and abort as a request and a later save; enqueue, park, promote, edit, apply, retry, rollback |

Abstractions. Heartbeats are null, fresh or older than two minutes, and `Age` lets a
fresh one grow old at any time, also under a living worker. What a step does on a host
is one action that returns or raises; only `ensure_migrate`, which saves its own row,
is told apart. `persist_steps` is merged with the save of RUNNING and the first read
of `run_deploy` with the one of `execute`, since nothing reads between them. A site
without a target cannot be deployed and is left out. The crash hook of the tests is
not modelled: `Crash` kills a process anywhere. A message that is not delivered in
300 s is dropped (`EnvelopeExpired`).

### DeployLifecycle

A deployment is none, queued, running, cancelled or ended. It becomes running only when
no deployment that shares its site or its target is running, and never again once it
has ended. A cancelled one may still start: the worker that had read it QUEUED saves
RUNNING over the cancel.

### HudOutbox

A request creates its deployment, looks its key up, inserts operation and outbox row in
one transaction and nudges a worker. The drain sends every pending row and every row
whose claim is older than the timeout. A worker claims in one transaction, dispatches
outside of it and closes in a third. `HudOperation.state` moves with the row in the
same transactions, so one variable stands for both. Commands that are only recorded
have no handler and behave like a dispatch that returns at once.

### Reconciler

One SiteInstance per site. A pass (`StartPass`) reads `reconcile_enabled` and
`maintenance_until` of the whole fleet, visits each site, reads its row again
(`Visit`), observes and plans (`Look`), takes the reconcile lock (`Acquire`), reads and
observes again (`Recheck`), looks at the deploy locks (`Guard`), acts (`ActOk`,
`ActFail`), saves (`Save`), gives the lock back (`Release`) and counts flap cycles
(`Flap`). An SSH observation and the statements that follow it at once are one action;
the row they are applied to was read earlier, so lost updates remain possible.

What a container is and what is seen of it are values of one set. A fresh payload shows
the state at the time of the reading; without one `docker inspect` cannot tell a
healthy container from an unhealthy one. The collector reads (`CollectRead`) and saves
(`CollectSave`) in two steps. "down" stands for absent and stopped, "degraded" for
every reason that brakes. `docker inspect` that fails for another reason than a missing
container is not told apart from a missing one by the code, and is left out:
`ensure_start` inspects again before it starts anything. `observed_state` is written
and never read by the loop. The fleet-wide switch is a setting of the process.

### PartnerIntake

`IntakePost` is the edge: signature, timestamp and idempotency of the request, and an
item in the outbox. A poller (`PollStep`) fetches a batch, oldest items first, verifies each item again (nonce,
window, rate, quota, switches), materialises it in one transaction, acknowledges it at the
edge, and only then spends the nonce and stores the key; `AckFails` and `Crash` strike
between. `KillSwitch`, `Suspend`, `SuspendFails`, `DestinationRank`, `StopPartnerSite` and
`SiteTakedown` are the operator's. The unit of time is the signature window of five
minutes; limits per minute count within one unit, and the clock ticks at most once while
a poll is under way.

### Alerting, UptimeCycle, FindingsInbox, Drills

`Alerting` keeps the tables in one record, and every function of `antinoise.py` is an operator
from tables to tables, so that `ProbeSite`, `Beat` and `Transition` stand for the probe of
a site, a periodic task and an operator's request as a whole; interleavings inside them are
the subject of the next two. `UptimeCycle` has the statements of
the cycle: take the lock, break one that is too old, skip, probe site after site, finish
with or without the dead-man ping; uptime rows are kept by id, and the sweep of retention
deletes those that are too old. `FindingsInbox` has the four statements of a
filing or a move (`FileRead` or `AskMove`, `SaveRow`, `Audited`, `Published`).
`Drills!RunDrill` seeds the next due time and then runs; `LoseDrill` is a message of beat
that nobody takes; `Hour` is the detection.

### AuditTrail

`BeginAudit` takes the row lock of the scope's head and appends; `CommitAudit` and `RollBack`
end the caller's transaction. Rows are kept under their primary keys, and a chain is walked
in that order, as `verify_chain` walks it. A hash is the sequence of what it covers (the hash
before it and the content of the row), so two rows have the same hash exactly when they hash
the same. `DeletePartner` is the foreign key's SET NULL that
moves rows to the scope of no partner. Shipping lists, puts an object and stamps in
separate steps.

### LiveStream

A row of the table is a version number. A producer saves, takes a sequence number and
sends to the group (`SaveRow`, `NextSeq`, `GroupSend`); frames on the wire arrive in any
order; the panel applies a frame, or sees a gap and fetches a snapshot, whose sequence
number is read before its rows.

### TrafficCollect and AttackScaling

A log line is two units long, so a pull can end inside one. A tick lists its targets, takes
the collect lock with `LockTarget`, pulls with the cursor it read when it listed, and
ingests. `AttackScaling` has a zone of two sites: traffic levels, the playbook per site
(`Engage`, `EngageFails`, `Relax`), the evaluator (`EvalStarts`, `EvalRefused`,
`Evaluate`), and the operator's clicks.

### DnsZones

`Connect` observes a token, then stores it and writes the rows (`ConnectPut`,
`ConnectRows`); planting reads a file, stores its token, saves the ref and removes the
file, each a step. `Construct` makes a client: a cached proof of this very vault row
within the TTL is trusted, otherwise `ProbePasses` or `ProbeRefuses`. `EnsureDns`,
`UpsertList`, `UpsertCall` and `UpsertDone` are the list and the calls of a Cloudflare
upsert; `Route53Change` is one call. `AuditTokens` is the daily audit. Outside the hub,
`EditScope` widens, disables or revokes a token, `StoreToken` rotates one. One zone and
one name; Cloudflare lists records in the order they were made; `observe_token` is one
step; the wall between purposes and the deletion of temporary names are left out.

### AdoptFlow and AdoptPlan

Requests, the worker's stages (`MintTemp`, `UpsertTemp`, `EnsureVerify`, `Healthz`,
`EnsureFlip`, `EnsureDecommission`, `PointProd`), cancel, the hourly reaper and the three steps
of a cleanup. Every function looks up the newest `CheckRun` of the site again, whatever
its message was about; the model does too. A service of a stack is what
`classify_services` looks at.

### CloudFleet

Enrolment creates the row, the instance, saves its id, pins its host key and provisions;
a request may be killed between any two. Overflow deploys, takes the join lock, writes
DNS, and undoes all of it. Terminate and delete views may fail at the provider. `World`
is what the operator and the attack gate say at that time.

### HostSteps

One action per `ensure_*` function, and one per command where a command can fail between
two effects: the certificate swap (`KeepPrevious`, `WriteCert`, `WriteKey`, `Reload`,
`PushFails`, `CertificateRow`) and the read, merge and write of the TLS app
(`ReadTlsApp`, `PutTlsApp`). A deployment can be superseded inside a step (`Kill`) and resumed
(`Resume`).

### Wizard and Scanner

A PATCH holds the row lock of the site from its first read to its commit. A materialize
reads and gates without it (`Gate`), then freezes under it (`Freeze`); scans read the source at
their start and save at their end. `Scanner` has one step per walk of the tree, since every
hook surveys it again, and `EditTree` between any two. A file is a record of where it
is, where its link leads and which traits a check would find; the patterns that find a
trait in text are left out, and directories are one level deep.

### SshRotation and SealedBackups

`SshRotation` has the stored keys, the key the row names and the lines on the host. Steps:
inspect, choose, append, try the new key, drop, point the row, probe the old key, try
again, revoke. `Die` stops a run anywhere, `TornPut` leaves a file partly written.
`SealedBackups` has the first boot (two containers mint the keyfile), wrapping under keyfile or
KMS, the process's cache of unwrapped keys, the backup key made on first use, the run that
is saved before its blob, restores and the drill. `Rewrap` runs from the operator's shell.

## 4. The runs

| run | instance | question and answer |
|---|---|---|
| `pipeline_locks` | one site, three deployments, two workers | deployments supersede each other while their workers live: no lock is leaked, the life cycle is implemented |
| `pipeline_resume` | one deployment of two steps, two workers, a sweep, one repeated dispatch | two workers walk the same steps: order kept, SUCCEEDED earned, a stopped worker is fenced before its second step |
| `pipeline_commands` | two sites on one host, two workers, an operator, one fault | no RUNNING deployment loses a lock to the other site or to a command |
| `pipeline_live` | one windowed site, worker, sweep, one crash, one fault, one env edit | every RUNNING deployment leaves RUNNING; what ended is not set RUNNING again |
| `outbox` | two requests with one key, two workers, two expiries, one crash, one fault | one operation per key, no false success, one dispatch per claim, every accepted command ends |
| `reconciler` | one site, two overlapping passes, four edits, one crash | at most one repair inside a deployment, one per ticker after the kill switch, one per other ticker after the flap limit |
| `reconciler_live` | one site, one ticker, two edits, a fault, an expired payload, a crash | the site always settles again or is braked |
| `partner` | requests with a shared key, a second tenant, two pollers, one event | a job of the outbox is applied once while polls do not overlap; quotas, rates and switches bound what is created; a spent nonce is never accepted again |
| `background` | two workers and one small instance per component | see the next table |
| `fleet` | two workers and one small instance per component | see the next table |
| `cancel_leaks_lock` | violation | a cancel between the save of RUNNING and the refresh makes `execute` return before its `try`: both locks stay |
| `recreate_two_writers` | violation | a failed recreate deployment leaves its container running; the next one stops only the last SUCCEEDED one and starts a second writer |

| property of `background` or `fleet` | what holds |
|---|---|
| `AlertsHold` | first pages stay within the storm limit and the one that crossed it; a flapping site opens no more often than `FLAP_CYCLES`; a site that is down is in the inbox unless the operator put it away |
| `CyclesApart` | through crashes and broken locks, cycles that end in time do not overlap and no uptime event repeats its predecessor |
| `AgreeInTurn` | when writers take turns, row, audit trail and stream agree |
| `TrailHolds` | a workspace's rows verify as one chain; a row stamped shipped is in the bucket with the hash its successor carries |
| `SeqIsHonest` | the panel shows everything its sequence number stands for |
| `MissedExactly` | a drill is in the inbox exactly when it was not started for a period and an hour |
| `CountedOnce` | no request is counted twice unless a tick pulls with a cursor another tick has moved |
| `AttackHandled` | no site evaluated after the engagement is scaled; Under-Attack at the edge has its row |
| `ZonesHold` | no client inherits the pass of another token; no account or planted token is lost; an upsert that is alone is exact; a served name stays served; the audit blames no token the wall accepts |
| `AdoptionHolds` | one of the two stacks serves; roles are exclusive; the operator's answer about an edge survives |
| `InstancesTracked` | a paid instance can be terminated, a gone row has none, origins run |
| `HostHolds` | certificate and key match, siblings keep their TLS, a blue_green site deployed once has a running container |
| `ManifestIsGated` | no manifest accepts a declaration in words nobody accepted, nor is frozen past a blocker |
| `ReportIsComplete` | a file linked out of the tree is announced or the scan fails; a published credential blocks; every block that asks for an acceptance names a confirm the report asks |
| `KeysHold` | a rotation that is alone leaves a stored key that opens the host and no line without its key, wherever it dies |
| `BackupsHold` | a secret can be read while its KEK can be reached; a stored dump opens; a unit the nightly check is silent about can be restored |

Several of these hold only outside a race the code does not exclude. Each module records
that the race happened in a history variable (`raced`, `again`, `interleaved`, `staleRead`,
`together`, `twoKeys`, `plantRaced`, `overlapped`, `lateJoin`, `torn`, `blind`), which no guard reads;
the property is stated for behaviours without it, and the unrestricted statement stands
beside it in the module:

| statement that does not hold | module | why |
|---|---|---|
| `StartedSettles` | `DeployPipeline` | a worker killed between the locks and RUNNING leaves a QUEUED row whose locks nobody sweeps |
| `RetryKeepsProgress` | `DeployPipeline` | a retry is a new row and carries succeeded steps out again |
| `AcceptedIsDispatched` | `HudOutbox` | one refusal of the broker makes the row FAILED; it is not polled again |
| `RestartsOnce` | `Reconciler` | the invalidated payload makes an unhealthy container look healthy, so its failures are cleared |
| `IdempotentRetry` | `PartnerIntake` | the key is stored after the acknowledgement; a repeat in between is a second deployment |
| `FailedPushIsDue` | `Alerting` | a second storm whose page fails keeps the clock of the first one's page, which was delivered |
| `SilentDrill` | `Drills` | a drill that is skipped every time seeds its next due time all the same, so it is never overdue |
| `NeverDisagree` | `FindingsInbox` | two writers audit and publish in another order than they save |
| `DeletionKeepsChain` | `AuditTrail` | the rows of a deleted partner join another chain |
| `RacingEventNotLost` | `LiveStream` | the panel fetches its snapshot when the socket opens and joins the group with its first frame: an event in between reaches nobody |
| `ReingestIsNoop` | `TrafficCollect` | counters are added to; only the cursor keeps a window from being added twice |
| `TrippedIsNotified` | `AttackScaling` | an edge call that raises after the level was set ends the playbook before the row is filed |
| `EnsuredIsExact`, `NoOverScopedClient` | `DnsZones` | `ensure_dns` compares the last row of the name only; a client outlives its proof |
| `NeverDark`, `TempNamesOwned` | `AdoptFlow` | a cleanup by the reaper overlaps the flip and stops the new stack, then the flow stops the old one; a flow writes its temp name after the reaper cleaned its run |
| `JoinedCopyRuns` | `CloudFleet` | a join that checked its target waits for the lock while the target is scaled in, and publishes it |
| `RunbookIsCurrent` | `HostSteps` | a runbook that is present is left as it is by the next deployment |
| `ScrubIsReal`, `FrozenAsAnswered` | `Wizard` | the deletion of the plain answer is rolled back with its transaction; answers and reports change between gate and freeze |
| `CommittedStateIsMarked`, `DjangoRefusalsAreMet` | `Scanner` | a state file is looked for among the files that can be read as text, and a database cannot; a link that leaves the Django root and stays in the repository is refused by one walk and read by the other |
| `HostNotLockedOut` | `SshRotation` | a put that is cut off empties `authorized_keys` |
| `NewestRestores` | `SealedBackups` | a run is SUCCEEDED before its blob is stored |

TLC refutes each of these when it is named as an invariant or a property of a run of
its module (`StartedSettles` and `AcceptedIsDispatched` under the fair specification).

Bounds. Two workers are the children of the `deploys` queue; two deployments of one
site are needed to supersede and a third to supersede the superseder while the first
worker is still alive. Two steps distinguish the step a stopped worker is in from the
next one it must not enter. One fault or crash at every possible place reaches every
recovery path; properties that count crashes say so. Three limits of the code are
scaled down where the run needs only their shape: `FLAP_CYCLE_LIMIT` 3 to 1,
`BACKOFF_AFTER` 3 to 2, the global budget 3 to 1. Four edits are the fewest that reach
a second repair after the flap limit. `Ready = {}` in `reconciler` leaves the collector
out, which none of the bounds it checks depends on; `reconciler_live` has it. Workers and
tickers are symmetric in the runs that check no liveness. The larger runs scale the timers of the code to one to three
units (a proof of scope is trusted for 1, a cycle is stale after 1, a drill's period is
2 or 3) with a clock that passes each of them at least once. Faults, deaths, edits and
clicks are bounded to one or two per behaviour, at every place. `AdoptFlow` has one worker
and the reaper: two adopt tasks of one site are not excluded by the code, and what holds of
them is only the rule about names. `SealedBackups` has hours 0 and 1, two dumps and one
upset. `DnsZones` counts a Route 53 account as its first task of three. `CHECK_DEADLOCK FALSE`:
with the bounds used up and nothing queued, the system rests.

## 5. Fairness

- A started process takes its next step: SSH commands have timeouts (at most 3600 s), so
  a step of a pipeline or of a ticker ends, by returning or by raising.
- Beat keeps starting the sweep (30 s), the drain (5 s), the collector (60 s) and the
  reconciler (90 s): weak fairness of their first action.
- Messages of one queue are delivered first in, first out. A worker that is free again
  and again takes every message in the end: strong fairness of `TakeMessage` and of the
  claim, because other messages disable it in between.
- Time passes: a heartbeat nobody touches gets old, a claim expires, a maintenance window
  ends; a deployment the reconciler waits for ends (`RunningSettles`).

Nothing is assumed of crashes, faults, operators or producers.

## 6. The proofs

TLAPS checks the theorems for every value of the constants that satisfies the named
assumptions: primary keys are positive numbers, deployments have a site and sites a
target, the three kinds of process are disjoint, there is at least one step, bounds are
natural numbers, `NoSite` and `NoRequest` are not a site and not a request, the
collected targets are targets of sites, the tickers are finite and there is one
(`TickersAssumption`). TLC evaluates all of them in the runs.

`DeployPipelineProofs`. `RunningHoldsLocks` is not inductive: a process in the middle of
`release_deploy_locks` would take the locks of a deployment that became RUNNING
meanwhile. The invariant `PipelineInv` says why that does not happen.

- `ControlInv`: every process is at a place of its own code and has the deployment that
  place needs.
- `BeginInv`: a deployment is begun once. Before it is, there is at most one message
  for it or one worker with it, so no second worker can begin it; afterwards it is never
  QUEUED again. The repeated dispatch of `SpecDup` breaks this part, which is why the
  theorems are about `Spec` and `SpecDup` is left to TLC.
- `LockInv`: nobody releases for a deployment that is RUNNING, and `begin_deploy` holds
  what it acquired.
- `StepInv`: a row that says SUCCEEDED, or a cached one, is backed by work that was
  done; a worker in the loop has everything before its place behind it.
- `OverrunInv`: a worker that overran the end of its deployment cannot enter a step again,
  because begun deployments do not return to RUNNING.

From it follow `TypeCorrect`, `RunningHolds`, `SuccessIsEarned`, `OrderKept`, `OneOverrun`,
`NotRestarted`, and `LifecycleImplemented`: initial states map to initial states and
every step to a step of `DeployLifecycle` or to a stutter. Exclusion in the abstract
specification comes from the locks: two RUNNING deployments that conflict would hold
the same row.

`LocksAccounted` is false as soon as an operator cancels: `cancel_leaks_lock` shows the leak.
`OnlyCancelLeaks` says that this is the only one. `AccountInv` names for every lock the one
who owes its release: a RUNNING deployment, a process on its way to `release_deploy_locks`,
a worker inside `begin_deploy`, or a CANCELLED deployment. `NoLockLeaks` is the consequence
for a hub nobody cancels in (`Operators = {}`), which is a hypothesis of the theorem and not
an assumption of the module.

`HudOutboxProofs`. The bound on hand-overs is about the past and the near future: `Load`
counts the dispatches made and the workers about to make one. `ClaimInv` bounds it by
the number of expired claims, one more while the claim is live. `WorkerInv` says that a
worker about to report success has dispatched; `WebInv` that a request without a row has
not inserted one. `KeyIsUnique`, `SuccessIsReal`, `ClaimsBoundEffects` follow.

`ReconcilerProofs`. `AtMostOneLateRepair` needs `LockInv` (one ticker of a site between
acquire and release) and `LateInv`: when a ticker is about to act, no deployment that
began since its look has seen a repair of the site. A second repair would need a second
ticker past the look, which the lock excludes. `KillSwitchBounded` needs `OffInv`: a
ticker that repaired a site after it was switched off is done with it in this pass, and
later passes read the switch; and `PlaceInv`, by which a ticker that acts has the site
in the snapshot of its pass and no longer in its list. `FlapsAreBounded`: the pause is
written after the lock was given back, so `FlapInv` counts, for each site, the tickers that
have saved their cycle and not yet paused (before the pause) and those that have passed the
reading of it (after): each can add one repair past the limit, and a kill one more.

`PartnerIntakeProofs`. Nothing about an item says how often it was applied, so the counts
are part of the invariant: `JobsCounted` bounds the deployments of a job together with the
polls that looked for one and are about to create it, `SitesCounted` the bound sites together
with the polls that passed the quota and are about to bind, and `LateIsLast` says that a poll
that created after the API was shut has no other creation before it.
`OneActive` says that there is one poll until two overlapped. `NonceTheorem` needs
`InFlightFresh` (an item that passed the window is fresh by the clock of its poll) and
`SpentIsKept` (a spent nonce has its row, or its request is stale for every poll under way
and to come, which is what a TTL of two windows is for). Assumed: the sets are finite, the TTL is at least two
windows, and a nonce stands for one timestamp.

The compositions. `OneAtATime`, stated in `RecordProofs` for `MCBackground` and in
`MachineProofs` for `MCFleet` (`WatchProofs` and `FleetProofs` extend them), leads from a step of the composition to a step of the component in focus or to a
stutter of it. A theorem of the composition then follows from the inductive invariant of
one component, for every value of its constants; the assumptions beside the constants say
that bounds are natural numbers, thresholds, periods and flap windows positive, probed sites
a sequence none of which is called "fleet" (`AlertBounds`), that a report blocks only for
what it declares, a site with backups has a unit (`BackupBounds`), an upsert asks for at
least one value and a zone is Cloudflare's or Route 53's (`ZoneBounds`), and a tree has one
file at a path (`TreePaths`).

| theorem | property | what makes it inductive |
|---|---|---|
| `InboxTheorem` | `AgreeInTurn` | `TurnInv`: until two writers raced, at most one is under way, and what it has left to do is what trail and stream lack |
| `TrailTheorem` | `TrailHolds` | `HeadsHeld`: who holds a head's row lock has read its last hash; `BlankHeads`: a workspace without rows has the genesis head; `PutIsStored`: what the shipper is about to stamp is in the bucket |
| `StreamTheorem` | `SeqIsHonest` | `Numbered`: numbers are given to the events of a row in the order of its versions, and the table has everything that was told; `SnapshotCovers`: a snapshot in flight has every event its number stands for |
| `DrillTheorem` | `MissedExactly` | `Overdue`: the due time is one period after the last start, and no drill has finished since it started last |
| `CyclesTheorem` | `CyclesApart` | `LockInv`: a cycle that runs holds the lock it inserted, which is too young to be broken; `RowsInOrder`: the ids of a site's rows are contiguous and in the order of their times, so a sweep deletes the first ones and neighbours still differ |
| `CollectTheorem` | `CountedOnce` | `OnePull`: the lock admits one pull at a time; `CursorCovers`: until a stale read, what was counted lies before the stored cursor, or before the window that was pulled and has not landed |
| `AttackTheorem` | `AttackHandled` | `HeldBack`: a site seen since the engagement has no evaluation under way and nothing pending, and none starts until the row is resolved |
| `KeysTheorem` | `KeysHold` | `AloneInv`: for each step of a lone rotation, which keys are stored, which lines are on the host and which the row names; `Counted` gives a fresh key a new number |
| `ManifestTheorem` | `ManifestIsGated` | `YesWasSaid`: a stored yes is to a wording somebody accepted; `GateHolds`: a client that waits to freeze was let through by its own report and by the answers of now, unless they moved |
| `BackupsTheorem` | `BackupsHold` | `KeyfileInv`: one process writes the keyfile, and what is wrapped locally is wrapped by it; `OneKey`: until two first backups race, who makes the key is alone and its row is the only one; `BlobPending`: between the row and the blob the row is one process's and has no blob, so the nightly check cannot count it |
| `AdoptionTheorem` | `AdoptionHolds` | `StageTells`: the stage of the open run tells what the production name points at; `FlowKnows`: a worker on its way to the flip has the old stack serving, and a cleanup that will stop the container has seen no flip; the plan's two properties follow from one step of the plan |
| `CloudTheorem` | `InstancesTracked` | see below |
| `HostTheorem` | `HostHolds` | see below |
| `ScanTheorem` | `ReportIsComplete` | see below |
| `ZonesTheorem` | `ZonesHold` | see below |
| `AlertsTheorem` | `AlertsHold` | see below |
| `BackgroundTyped`, `FleetTyped` | `TypeOK` | the types of every component are a part of its invariant; for `Alerting` they say that nothing in the tables is ahead of the clock, for `DnsZones` they follow from the invariants and `PlainTypes` |

`CloudTheorem`. `LocksHeld` says who is under the lock of a site, `Unjoined` that what
scale-in took out of the record stays out while it terminates it, `CopiesRun` that a copy
runs on a machine that runs, `JoinChecked` that a join that was let through still has its
copy or its row was scaled in. `EnrolledApart` is the heart: until two
enrolments overlap no two rows have one instance, a request's row is not gone and its
instance runs, and before the reference is saved no row has it. With `RefsPinned` (a stored
reference is pinned or its request is about to pin it) an instance in the air is the request's
to report, and any other one is a row's.

`HostTheorem`. `PairMatches` speaks of moments when nobody writes, so `PairInHand` says what
a writer finds at each of its steps: the copies it made, and in place what it has written so
far; `OneWriterOfFiles` that it is alone; `PairAtRest` that otherwise the pair is of one
generation and has no copies. `InsideTlsAlive` (a deployment inside the tls step has its
worker) is why a resume cannot enter the push in the middle, and why a push that did not
meet another one's worker is alone. `PutIsLoaded` carries `SiblingsKeepTls` over the gap
between the tls app and the route. `SuccessRuns`, with `OldIsSibling` and the order of
deployments (`work[d].old < d`, a part of `TypeOK`), is why cutover can stop its predecessor.

`ScanTheorem`. The scan is a series of walks of a tree that may change between any two, and a
module's results replace those of the core suite with the same id. `BlockInv`: the block of the
secret scan outlives the modules, because none of them declares its id. `MetInv`: a file that
was met and not promised by a module is in the core's list, and a report is given only when
what the modules promised is in the surviving results; `StillInv` says that in a tree that
stands still the two lists are apart. `AskedInv`: an acceptance is of a confirm of the same
reading. A walk is a set in the model, so no induction over the tree is needed; announcing
is compared by path, as the code does, which is where `TreePaths` is used.

`ZonesTheorem`. `RefsApart`: the refs of the roles, of the plants and of the connecting
requests differ, so a request that fails deletes its own row only. `AccountInv` gives the
account a live row. `PassInv`: an entry of the cache is of the role's current row and has a
pass at least as young, since the key of the cache names the row. `PlantInv`: while plants
take turns, what the only one has put is in the vault under the ref it will save.
`HalfWritten`, a part of `ServedInv`, describes the records in the middle of a lone upsert:
the values written so far, then the rows it has not come to; `Listed` (ids grow, the oldest
row stays first) is why no deletion empties the name.

`AlertsTheorem`. `LogInv` carries the storm bound over every call that records a page: a first
page is recorded only while the breaker is not storming, and every first page counts.
`MovesInv`: openings and closings alternate in the order of their times. The openings of a
window but the last are then injected into the closings `_cycle_count` counts, so a site that
may open has fewer than FLAP_CYCLES of them, or FLAPPING stands; it is resolved only after a
window with no opening in it. `SilentOne` says what `NoSilentOutage` needs of an open alert.
The engine calls itself several levels deep; `Inner` and `Outer` in `WatchProofs` are
what one call may do, are transitive, and are shown for each function once.

These parts are definitions of the components' modules, beside the properties they explain,
and TLC checked each on the instance of its run before it was proved.

Only model-checked, with the reason:

- liveness (`RunningSettles`, `AcceptedSettles`, `DriftSettles`): beyond the prover;
- everything about `SpecDup`: a repeated dispatch breaks `BeginInv`.

Every invariant and every action property of the passing runs is stated by a theorem about
`Spec`.

## 7. What is not modelled, and why

- HTTP API and access control: validation, permissions and reads. The commands that change
  a modelled component are actions of it.
- Frontend: presentation, apart from the panel's protocol in `LiveStream`.
- The text patterns of the scanner and the wording of its reports: text in, report out.
- Clients of EC2, SSM, Tailscale and ntfy: they keep no state of the hub; what they return
  or refuse is a choice in the modules that call them.
- Enrolment of a machine that exists: a list of idempotent commands.
- Threshold rules that turn a collected number into an alert, and the aggregation of
  samples: arithmetic without interleaving.
- `deliver_partner_webhook` and custom hostnames: no caller in the repository.
- Break-glass commands: printed for the operator, run by hand.
- Migrations, settings, templates and the conformance linter: configuration and tooling.
- Cryptography is perfect: a signature verifies, a row opens and a hash agrees exactly when
  it should.

## 8. Plan

1. Composition: the reconciler with the pipeline's locks instead of the abstract
   `deploying`, and the pipeline with `HostSteps` instead of an atomic step. Theorem: the
   bound on late repairs carries over.
   Then the inbox under `Alerting`, `AttackScaling` and `Drills` at once, with
   `FindingsInbox` as the one row they share.
2. Abstract specifications: a ledger of jobs for `PartnerIntake`, the set of serving
   copies for `CloudFleet`.
3. Liveness: a P1 reaches somebody, a paid machine nobody uses is terminated, a pending
   audit row is shipped.
