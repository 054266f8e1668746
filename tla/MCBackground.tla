---------------------------- MODULE MCBackground ----------------------------
(***************************************************************************)
(* The hub's background work on one small instance each: the components that*)
(* beat, the collector and the live panel drive, and the clients of a DNS   *)
(* zone that they and the deployments use.  They share no state, so a       *)
(* behaviour explores one of them (focus): the product would add no step.   *)
(***************************************************************************)
EXTENDS Integers, Sequences, FiniteSets, TLC

CONSTANTS
    SiteOrder, Prod, OpenAfter, CloseAfter, FlapWindow, FlapCycles, StormWindow, StormLimit,
    GroupWindow, RepeatAfter, UnackedAfter, MaxClock, MaxProbes, MaxHands, MaxFaults, Children,
    Probed, StaleAfter, Horizon, MaxMinute, MaxCrash, Engines, Managers, MaxFilings, MaxMoves,
    Scopes, Callers, MaxAudits, MaxShipFaults, MaxPartnerDeletes, Rows, Syncs, StartSeq,
    MaxVersion, MaxDrops, MaxForeign, MaxPolls, Period, MaxDrillNow, MaxLost, Ticks, Chunk,
    ScanCap, MaxUnits, MaxRotations, MaxTicks, MaxHostErrors, ZoneSites, Hosts, Consecutive,
    MaxGap, MaxEdgeFaults, MaxClicks, MaxTraffic, MaxEvals, DnsAgents, Tokens, Providers,
    Wishes, VerifyTtl, MaxTime, MaxTasks, MaxEvents

ASSUME AlertBounds ==
    /\ Len(SiteOrder) \in Nat \ {0} /\ DOMAIN SiteOrder = 1..Len(SiteOrder)
    /\ \A i \in DOMAIN SiteOrder : SiteOrder[i] # "fleet"
    /\ {OpenAfter, CloseAfter, FlapWindow, FlapCycles} \subseteq Nat \ {0}
    /\ {StormWindow, StormLimit, MaxClock} \subseteq Nat
ASSUME InboxBounds == MaxFilings \in Nat /\ MaxMoves \in Nat
ASSUME UptimeBounds ==
    /\ Len(Probed) \in Nat /\ DOMAIN Probed = 1..Len(Probed) /\ StaleAfter \in Nat /\ Horizon \in Nat
    /\ MaxMinute \in Nat /\ MaxCrash \in Nat
ASSUME TrafficBounds == MaxUnits \in Nat /\ MaxRotations \in Nat
ASSUME AuditBounds == MaxAudits \in Nat /\ MaxShipFaults \in Nat /\ MaxPartnerDeletes \in Nat
ASSUME LiveBounds ==
    /\ StartSeq \in Nat /\ MaxVersion \in Nat
    /\ MaxDrops \in Nat /\ MaxForeign \in Nat /\ MaxPolls \in Nat
ASSUME DrillBounds ==
    /\ Period \in [{"hub_down", "reaper", "restore_clean", "pager"} -> Nat \ {0}]
    /\ MaxDrillNow \in Nat /\ MaxLost \in Nat

VARIABLES
    focus,  \* the component whose steps this behaviour explores
    clock, at, al, probes, hands, faults, byHand,
    minute, queued, cycleLock, cycle, uptime, egress, crashes, overrun,
    inbox, trail, stream, writer, filings, moves, interleaved,
    heads, auditRows, call, store, shipper, shipFaults, deletes, partnerGone,
    table, producer, topicSeq, told, wire, member, frame, status, last, view, fetch, blind,
    drops, foreign, polls,
    drillNow, dueAt, finished, latest, reported, beatAt, begun, lost,
    file, cursor, collectLock, tick, counted, sampledFrom, ticks, hostErrors, staleRead,
    score, edgeLevel, edgeRef, engaged, cheap, proposal, home, evaluating, edgeFaults, clicks,
    traffic, evals, seen, torn,
    provider, scope, tokenRows, dnsAccount, refs, plantFile, verified, agent, records,
    recordIds, findings, dnsClock, tasksBegun, events, probed, unproved, planted, plantRaced,
    inexact, leftover, blamed

Alerts == INSTANCE Alerting
Uptime == INSTANCE UptimeCycle
InboxRow == INSTANCE FindingsInbox
Audit == INSTANCE AuditTrail
Live == INSTANCE LiveStream
Drill == INSTANCE Drills
Collect == INSTANCE TrafficCollect
AttackGate == INSTANCE AttackScaling
Zones == INSTANCE DnsZones

ASSUME ZoneBounds ==
    /\ Wishes \subseteq Seq(Zones!Texts) \ {<<>>} /\ VerifyTtl \in Nat
    /\ Providers \subseteq {"cloudflare", "route53"}

alertsState == <<clock, at, al, probes, hands, faults, byHand>>
uptimeState == <<minute, queued, cycleLock, cycle, uptime, egress, crashes, overrun>>
inboxRowState == <<inbox, trail, stream, writer, filings, moves, interleaved>>
auditState == <<heads, auditRows, call, store, shipper, shipFaults, deletes, partnerGone>>
liveState == <<table, producer, topicSeq, told, wire, member, frame, status, last, view,
               fetch, blind, drops, foreign, polls>>
drillState == <<drillNow, dueAt, finished, latest, reported, beatAt, begun, lost>>
collectState == <<file, cursor, collectLock, tick, counted, sampledFrom, ticks, hostErrors,
                  staleRead>>
attackGateState == <<score, edgeLevel, edgeRef, engaged, cheap, proposal, home, evaluating,
                     edgeFaults, clicks, traffic, evals, seen, torn>>
zonesState == <<provider, scope, tokenRows, dnsAccount, refs, plantFile, verified, agent,
                records, recordIds, findings, dnsClock, tasksBegun, events, probed, unproved,
                planted, plantRaced, inexact, leftover, blamed>>
allVars == <<focus, alertsState, uptimeState, inboxRowState, auditState, liveState,
              drillState, collectState, attackGateState, zonesState>>

Components == {"alerts", "uptime", "inboxRow", "audit", "live", "drill", "collect", "attackGate", "zones"}

\* Out of focus a component has no state: it takes no step in this behaviour.
AlertsStarts ==
    IF focus = "alerts" THEN Alerts!Init ELSE
    clock = 0 /\ at = 0 /\ al = 0 /\ probes = 0 /\ hands = 0 /\ faults = 0 /\ byHand = 0
UptimeStarts ==
    IF focus = "uptime" THEN Uptime!Init ELSE
    minute = 0 /\ queued = 0 /\ cycleLock = 0 /\ cycle = 0 /\ uptime = 0 /\ egress = 0 /\ crashes = 0 /\
    overrun = 0
InboxRowStarts ==
    IF focus = "inboxRow" THEN InboxRow!Init ELSE
    inbox = 0 /\ trail = 0 /\ stream = 0 /\ writer = 0 /\ filings = 0 /\ moves = 0 /\ interleaved = 0
AuditStarts ==
    IF focus = "audit" THEN Audit!Init ELSE
    heads = 0 /\ auditRows = 0 /\ call = 0 /\ store = 0 /\ shipper = 0 /\ shipFaults = 0 /\ deletes = 0 /\
    partnerGone = 0
LiveStarts ==
    IF focus = "live" THEN Live!Init ELSE
    table = 0 /\ producer = 0 /\ topicSeq = 0 /\ told = 0 /\ wire = 0 /\ member = 0 /\ frame = 0 /\
    status = 0 /\ last = 0 /\ view = 0 /\ fetch = 0 /\ blind = 0 /\ drops = 0 /\ foreign = 0 /\ polls = 0
DrillStarts ==
    IF focus = "drill" THEN Drill!Init ELSE
    drillNow = 0 /\ dueAt = 0 /\ finished = 0 /\ latest = 0 /\ reported = 0 /\ beatAt = 0 /\ begun = 0 /\
    lost = 0
CollectStarts ==
    IF focus = "collect" THEN Collect!Init ELSE
    file = 0 /\ cursor = 0 /\ collectLock = 0 /\ tick = 0 /\ counted = 0 /\ sampledFrom = 0 /\ ticks = 0 /\
    hostErrors = 0 /\ staleRead = 0
AttackGateStarts ==
    IF focus = "attackGate" THEN AttackGate!Init ELSE
    score = 0 /\ edgeLevel = 0 /\ edgeRef = 0 /\ engaged = 0 /\ cheap = 0 /\ proposal = 0 /\ home = 0 /\
    evaluating = 0 /\ edgeFaults = 0 /\ clicks = 0 /\ traffic = 0 /\ evals = 0 /\ seen = 0 /\ torn = 0
ZonesStarts ==
    IF focus = "zones" THEN Zones!Init ELSE
    provider = 0 /\ scope = 0 /\ tokenRows = 0 /\ dnsAccount = 0 /\ refs = 0 /\ plantFile = 0 /\
    verified = 0 /\ agent = 0 /\ records = 0 /\ recordIds = 0 /\ findings = 0 /\ dnsClock = 0 /\
    tasksBegun = 0 /\ events = 0 /\ probed = 0 /\ unproved = 0 /\ planted = 0 /\ plantRaced = 0 /\
    inexact = 0 /\ leftover = 0 /\ blamed = 0

Init ==
    /\ focus \in Components
    /\ AlertsStarts /\ UptimeStarts /\ InboxRowStarts /\ AuditStarts /\ LiveStarts
    /\ DrillStarts /\ CollectStarts /\ AttackGateStarts /\ ZonesStarts

Next ==
    \/ /\ focus = "alerts" /\ Alerts!Next
       /\ UNCHANGED <<focus, uptimeState, inboxRowState, auditState, liveState, drillState,
                      collectState, attackGateState, zonesState>>
    \/ /\ focus = "uptime" /\ Uptime!Next
       /\ UNCHANGED <<focus, alertsState, inboxRowState, auditState, liveState, drillState,
                      collectState, attackGateState, zonesState>>
    \/ /\ focus = "inboxRow" /\ InboxRow!Next
       /\ UNCHANGED <<focus, alertsState, uptimeState, auditState, liveState, drillState,
                      collectState, attackGateState, zonesState>>
    \/ /\ focus = "audit" /\ Audit!Next
       /\ UNCHANGED <<focus, alertsState, uptimeState, inboxRowState, liveState, drillState,
                      collectState, attackGateState, zonesState>>
    \/ /\ focus = "live" /\ Live!Next
       /\ UNCHANGED <<focus, alertsState, uptimeState, inboxRowState, auditState, drillState,
                      collectState, attackGateState, zonesState>>
    \/ /\ focus = "drill" /\ Drill!Next
       /\ UNCHANGED <<focus, alertsState, uptimeState, inboxRowState, auditState, liveState,
                      collectState, attackGateState, zonesState>>
    \/ /\ focus = "collect" /\ Collect!Next
       /\ UNCHANGED <<focus, alertsState, uptimeState, inboxRowState, auditState, liveState,
                      drillState, attackGateState, zonesState>>
    \/ /\ focus = "attackGate" /\ AttackGate!Next
       /\ UNCHANGED <<focus, alertsState, uptimeState, inboxRowState, auditState, liveState,
                      drillState, collectState, zonesState>>
    \/ /\ focus = "zones" /\ Zones!Next
       /\ UNCHANGED <<focus, alertsState, uptimeState, inboxRowState, auditState, liveState,
                      drillState, collectState, attackGateState>>

Spec == Init /\ [][Next]_allVars

\* The workers, callers, clients and pollers of a component are interchangeable, and
\* every component has the same two; so are the tokens of a zone.
BackgroundSymmetry == Permutations(Children) \cup Permutations(Tokens)

MCWishes == {<<"a">>, <<"b", "a">>}
MCOrder == <<"x", "y">>
MCProbed == <<"a", "b">>
MCPeriod == [hub_down |-> 3, reaper |-> 2, restore_clean |-> 3, pager |-> 3]
MCHosts == {[ready |-> TRUE, permanent |-> TRUE, headroom |-> TRUE,
             partner |-> FALSE, hub |-> FALSE, site |-> "x"]}

-----------------------------------------------------------------------------
\* Every component keeps to its types.
TypeOK ==
    /\ focus = "alerts" => Alerts!TypeOK
    /\ focus = "uptime" => Uptime!TypeOK
    /\ focus = "inboxRow" => InboxRow!TypeOK
    /\ focus = "audit" => Audit!TypeOK
    /\ focus = "live" => Live!TypeOK
    /\ focus = "drill" => Drill!TypeOK
    /\ focus = "collect" => Collect!TypeOK
    /\ focus = "attackGate" => AttackGate!TypeOK
    /\ focus = "zones" => Zones!TypeOK

\* monitor/antinoise.py: however many sites fail, first pages stay within the storm limit
\* and the one that crossed it, a flapping site opens no more often than FLAP_CYCLES, and
\* a site that is down is in the inbox unless the operator put its row away.
AlertsHold ==
    focus = "alerts" => Alerts!StormBounded /\ Alerts!OpensBounded /\ Alerts!NoSilentOutage

\* monitor/uptime.py: through crashes and takeovers of stale locks, cycles that end in
\* time do not overlap and no uptime event repeats its predecessor.
CyclesApart == focus = "uptime" => Uptime!CyclesApart

\* core/findings.py: when writers take turns, the row, the audit trail and the
\* realtime stream agree once all are done.
AgreeInTurn == focus = "inboxRow" => InboxRow!AgreeInTurn

\* core/audit.py, core/audit_ship.py: the rows of a workspace verify as one chain
\* whichever transactions race or roll back, and a row that counts as shipped is in the
\* bucket with the hash its successor carries.
TrailHolds == focus = "audit" => Audit!WorkspaceChainsVerify /\ Audit!ShippedIsStored

\* realtime/publish.py, frontend/src/useEvents.js: the panel shows everything its sequence number
\* stands for, through gaps, reordered sends, drops and late snapshots.
SeqIsHonest == focus = "live" => Live!SeqIsHonest

\* monitor/drills.py: a drill is in the inbox exactly when it was not started for a
\* period and an hour, whatever messages of the beat were lost.
MissedExactly == focus = "drill" => Drill!MissedExactly

\* monitor/collector.py, monitor/traffic.py: no request is counted twice, through rotations, failed pulls
\* and killed children, unless a tick pulls with a cursor another one has moved.
CountedOnce == focus = "collect" => Collect!CountedOnce

\* monitor/attack_playbook.py, scaling/evaluator.py: an attack never scales a site that was evaluated after the engagement,
\* and Under-Attack at the edge always has the row that will relax it.
AttackHandled == focus = "attackGate" => AttackGate!NoScaleUnderAttack /\ AttackGate!UnderAttackIsTracked

\* providers/registry.py, cloudflare.py, core/zone_views.py: no client inherits the pass of another
\* token, no account or planted token is lost, an upsert that is alone is exact, a served
\* name stays served, and the audit blames no token the wall accepts.
ZonesHold ==
    focus = "zones" =>
        /\ Zones!ClientsAreProved /\ Zones!AccountHasToken /\ Zones!PlantedIsKept
        /\ Zones!UpsertIsExact /\ Zones!NameStaysServed /\ Zones!AuditAgreesWithWall
=============================================================================
