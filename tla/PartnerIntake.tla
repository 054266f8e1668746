--------------------------- MODULE PartnerIntake ---------------------------
(***************************************************************************)
(* Partner jobs: the public edge (intake/app.py) turns a signed request     *)
(* into an outbox item; the hub polls the outbox, verifies the request      *)
(* again, materialises it as a Deployment, acknowledges the item and only   *)
(* then spends the nonce and stores the idempotency key.  One partner; its  *)
(* requests are records.  The unit of time is WINDOW_S, five minutes.          *)
(***************************************************************************)
EXTENDS Integers, Sequences, FiniteSets

CONSTANTS
    Requests,        \* [nonce, key, ts, path, tenant, body]
    Pollers,         \* children of the probes queue that run the poll
    Window,          \* WINDOW_S: tolerance of the signature's time stamp
    NonceTTL,        \* NONCE_TTL_S, twice the window
    IdemTTL,         \* IDEMPOTENCY_TTL_S
    BatchCap,        \* BATCH_CAP
    RateGeneral,     \* RATE_GENERAL_PER_MIN
    RateDeploy,      \* RATE_DEPLOY_CREATE_PER_MIN
    MaxSites, MaxDomains, DeploysPerDay,
    Ranks,           \* what a destination may become: ok, unranked, cohost, hub, no-tunnel
    MaxNow, MaxPosts, MaxEvents   \* bounds of the exploration

ASSUME RequestsAssumption ==
    /\ Requests # {} /\ IsFiniteSet(Requests) /\ \A r \in Requests : r.ts \in Int
\* A partner draws a nonce for one signature.
ASSUME NoncesAssumption == \A r, s \in Requests : r.nonce = s.nonce => r.ts = s.ts
ASSUME PollersAssumption == IsFiniteSet(Pollers)
ASSUME LimitsAssumption ==
    /\ Window \in Nat /\ NonceTTL \in Nat /\ NonceTTL >= 2 * Window /\ MaxSites \in Nat
    /\ MaxNow \in Nat /\ MaxPosts \in Nat /\ MaxEvents \in Nat

Never == -1
NonceSet == {r.nonce : r \in Requests}
Tenants == {r.tenant : r \in Requests}
Keys == {r.key : r \in Requests} \ {"none"}
Params(r) == <<r.path, r.tenant, r.body>>
NoResult == [params |-> <<>>, at |-> Never]

VARIABLES
    now,        \* units of WINDOW_S
    outbox,     \* the edge's outbox: items [id, kind, req], the oldest has the least id
    lastId,     \* FakeIntake._n
    flag,       \* PartnerApiFlag.enabled
    partner,    \* [suspended, keyed]
    dest,       \* what the first ranked destination is good for
    site,       \* per tenant: none, project, bound, stopped, absent
    deps,       \* Deployments of the partner: sequence of [job, req, at]
    nonces,     \* PartnerReplayNonce: seen_at or Never
    idem,       \* PartnerIdempotencyKey rows
    pc, clk, on, batch, cur,    \* a poll: place, its clock, enabled, items, item
    stopping,   \* sites a suspension has listed and not yet stopped
    posts, events,    \* bounded choices of the environment
    spent,      \* history: nonces that were ever stored
    overlapped, \* history: two polls ran at once
    late        \* history: creations of each poller since the API was shut

edge == <<outbox, lastId, posts>>
hub == <<flag, partner, dest, stopping>>
rows == <<site, deps, nonces, idem>>
poll == <<pc, clk, on, batch, cur>>
vars == <<now, edge, hub, rows, poll, events, spent, overlapped, late>>

NoItem == [id |-> 0, kind |-> "none", req |-> CHOOSE r \in Requests : TRUE]

Init ==
    /\ now = 0 /\ outbox = {} /\ lastId = 0
    /\ flag = TRUE /\ partner = [suspended |-> FALSE, keyed |-> TRUE] /\ dest = "ok"
    /\ site = [t \in Tenants |-> "none"] /\ deps = <<>>
    /\ nonces = [m \in NonceSet |-> Never] /\ idem = [k \in Keys |-> NoResult]
    /\ pc = [p \in Pollers |-> "idle"] /\ clk = [p \in Pollers |-> 0]
    /\ on = [p \in Pollers |-> FALSE] /\ batch = [p \in Pollers |-> {}]
    /\ cur = [p \in Pollers |-> NoItem] /\ stopping = {}
    /\ posts = 0 /\ events = 0
    /\ spent = {} /\ overlapped = FALSE /\ late = [p \in Pollers |-> 0]

---------------------------------------------------------------------------
(* The edge *)

\* verify(): the time stamp is within the window, and the key is registered.
Fresh(r, t) == r.ts - t <= Window /\ t - r.ts <= Window

\* A POST of one of the three families that leave an item in the outbox; the
\* edge has no nonce cache, so a repeated request leaves a second item.
IntakePost(r) ==
    /\ posts < MaxPosts /\ Fresh(r, now)
    /\ posts' = posts + 1 /\ lastId' = lastId + 1
    /\ outbox' = outbox \cup {[id |-> lastId + 1, kind |-> "partner", req |-> r]}
    /\ UNCHANGED <<now, hub, rows, poll, events, spent, overlapped, late>>

\* A push hint planted for the git poller.
PlantGitPush ==
    /\ posts < MaxPosts /\ posts' = posts + 1 /\ lastId' = lastId + 1
    /\ outbox' = outbox \cup {[id |-> lastId + 1, kind |-> "git", req |-> NoItem.req]}
    /\ UNCHANGED <<now, hub, rows, poll, events, spent, overlapped, late>>

\* Outbox.ack()
WithoutJob(q, id) == {item \in q : item.id # id}

---------------------------------------------------------------------------
(* The hub's verifier *)

PrunedEarly(t) == [m \in NonceSet |-> IF nonces[m] <= t - NonceTTL THEN Never ELSE nonces[m]]

\* _remember_nonce() deletes what is older than the TTL before it looks.
Pruned(t) == [m \in NonceSet |-> IF nonces[m] < t - NonceTTL THEN Never ELSE nonces[m]]

\* _general_rate_used()
GeneralUsed(t, m) == Cardinality({x \in NonceSet \ {m} : nonces[x] # Never /\ nonces[x] >= t})

Bound == {t \in Tenants : site[t] \in {"bound", "stopped", "absent"}}

SitesRefusedLate(r) == r.tenant \notin Bound /\ Cardinality(Bound) > MaxSites

\* The "sites" part of evaluate_quotas(): a new tenant pays max_sites.
SitesRefused(r) == r.tenant \notin Bound /\ Cardinality(Bound) >= MaxSites

CountSince(t, s) ==
    Cardinality({i \in DOMAIN deps : deps[i].at >= t /\ deps[i].req.tenant \in s})

\* The "deployments" part: the partner's day, then the site's minute.
DeploysRefused(r, t) ==
    \/ CountSince(0, Tenants) >= DeploysPerDay
    \/ r.tenant \in Bound /\ CountSince(t, {r.tenant}) >= RateDeploy

\* The "domains" part: a hostname of the partner that is not known yet.
DomainsRefused == Cardinality(Bound) >= MaxDomains

\* evaluate_quotas() for a request of path h at time t, nonce m left out.
QuotaRefused(r, h, t, m) ==
    \/ GeneralUsed(t, m) >= RateGeneral
    \/ h = "sites" /\ SitesRefused(r)
    \/ h = "deployments" /\ DeploysRefused(r, t)
    \/ h = "domains" /\ DomainsRefused

\* _idempotency_cached(): "absent", "match" or "mismatch".
Cached(r, t) ==
    IF r.key = "none" THEN "absent"
    ELSE IF idem[r.key] = NoResult \/ idem[r.key].at < t - IdemTTL THEN "absent"
    ELSE IF idem[r.key].params = Params(r) THEN "match" ELSE "mismatch"
\* ... which deletes the row it finds expired.
KeysAfterLook(r, t) ==
    IF r.key # "none" /\ Cached(r, t) = "absent" THEN [idem EXCEPT ![r.key] = NoResult] ELSE idem

---------------------------------------------------------------------------
(* A poll *)

\* Faults of the network, killed children and commands of the operator share a
\* budget.
OneEvent == events < MaxEvents /\ events' = events + 1

Goto(p, l) == pc' = [pc EXCEPT ![p] = l] /\ UNCHANGED cur
\* The loop goes on with the next item.
NextItem(p) == pc' = [pc EXCEPT ![p] = "next"] /\ cur' = [cur EXCEPT ![p] = NoItem]

\* _iter_jobs_git_first(): the item the loop comes to next, pushes before requests and the
\* older one before the younger.
GitFirst(q, i) ==
    \A j \in q : \/ i.kind = "git" /\ j.kind # "git"
                 \/ (i.kind = "git" <=> j.kind = "git") /\ i.id <= j.id

\* fetch(): the oldest BatchCap items.
Oldest == {i \in outbox : Cardinality({j \in outbox : j.id < i.id}) < BatchCap}

\* poll(): the clock is read, the oldest BatchCap items are fetched and the
\* switch is read, once for all of them.
PollFetch(p) ==
    /\ pc[p] = "idle"
    /\ Goto(p, "next")
    /\ clk' = [clk EXCEPT ![p] = now]
    /\ on' = [on EXCEPT ![p] = flag]
    /\ batch' = [batch EXCEPT ![p] = Oldest]
    /\ overlapped' = (overlapped \/ \E q \in Pollers : pc[q] # "idle")
    /\ UNCHANGED <<now, edge, hub, rows, events, spent, late>>

\* The loop comes to item i of the batch.
Comes(p, i) == pc[p] = "next" /\ i \in batch[p] /\ GitFirst(batch[p], i)
Skip(p, i) == batch' = [batch EXCEPT ![p] = @ \ {i}]
PollEnd(p) ==
    /\ pc[p] = "next" /\ batch[p] = {}
    /\ Goto(p, "idle")
    /\ clk' = [clk EXCEPT ![p] = 0] /\ on' = [on EXCEPT ![p] = FALSE]
    /\ UNCHANGED <<now, edge, hub, rows, batch, events, spent, overlapped, late>>

\* A git-push item is handed to the git poller and acknowledged.
HandleGitPush(p, i) ==
    /\ Comes(p, i) /\ i.kind = "git"
    /\ outbox' = WithoutJob(outbox, i.id)
    /\ Skip(p, i)
    /\ UNCHANGED <<now, lastId, posts, hub, rows, pc, clk, on, cur, events, spent, overlapped, late>>

\* reverify() of the head item, against the partner's keys.
Signed(r, t) == ~partner.suspended /\ partner.keyed /\ Fresh(r, t)
Replayed(r, t) == Pruned(t)[r.nonce] # Never
Accepts(r, t) ==
    \/ Cached(r, t) = "match"
    \/ Cached(r, t) = "absent" /\ ~QuotaRefused(r, r.path, t, r.nonce)

\* The switch was off when the poll began, the signature is refused, the key was
\* used with other parameters or a quota is exhausted: the item stays.
Refused(p, i) ==
    /\ Comes(p, i) /\ i.kind = "partner"
    /\ LET r == i.req IN
        /\ ~on[p] \/ ~Signed(r, clk[p]) \/ (~Replayed(r, clk[p]) /\ ~Accepts(r, clk[p]))
        /\ IF on[p] /\ Signed(r, clk[p])
           THEN nonces' = Pruned(clk[p]) /\ idem' = KeysAfterLook(r, clk[p])
           ELSE UNCHANGED <<nonces, idem>>
    /\ Skip(p, i)
    /\ UNCHANGED <<now, edge, hub, site, deps, pc, clk, on, cur, events, spent, overlapped, late>>

\* ReplayRejected: the alert is filed and the item acknowledged.
ReplayAcked(p, i) ==
    /\ Comes(p, i) /\ i.kind = "partner"
    /\ on[p] /\ Signed(i.req, clk[p]) /\ Replayed(i.req, clk[p])
    /\ nonces' = Pruned(clk[p])
    /\ outbox' = WithoutJob(outbox, i.id)
    /\ Skip(p, i)
    /\ UNCHANGED <<now, lastId, posts, hub, site, deps, idem, pc, clk, on, cur, events, spent, overlapped, late>>

\* The request is good: the nonce and the key are looked at and not yet stored.
Reverify(p, i) ==
    /\ Comes(p, i) /\ i.kind = "partner"
    /\ on[p] /\ Signed(i.req, clk[p]) /\ ~Replayed(i.req, clk[p]) /\ Accepts(i.req, clk[p])
    /\ nonces' = Pruned(clk[p]) /\ idem' = KeysAfterLook(i.req, clk[p])
    /\ cur' = [cur EXCEPT ![p] = i] /\ pc' = [pc EXCEPT ![p] = "verified"]
    /\ Skip(p, i)
    /\ UNCHANGED <<now, edge, hub, site, deps, clk, on, events, spent, overlapped, late>>

---------------------------------------------------------------------------
(* materialize() *)

Req(p) == cur[p].req
\* _refuse_source(), _require_template(), _refuse_partner_base()
RefuseSource(r) == r.body = "source"
RequireTemplate(r) == r.body # "image"
RefusePartnerBase(r) == r.body = "operators-domain"
\* _destination(), _refuse_hub_host(), _refuse_cohost(), _require_tunnel()
Destination == dest # "unranked"
RefuseHubHost == dest = "hub"
RefuseCohost == dest = "cohost"
RequireTunnel == dest # "no-tunnel"
Isolated(r) ==
    /\ ~RefuseSource(r) /\ RequireTemplate(r)
    /\ Destination /\ ~RefuseHubHost /\ ~RefuseCohost /\ RequireTunnel
    /\ ~RefusePartnerBase(r)

\* find_by_job_id()
Existing(id) == \E i \in DOMAIN deps : deps[i].job = id

\* The quotas of the request's own path, and then those of _create(): a new
\* tenant pays for a site whatever the path, everybody for a deployment.
QuotasRefuse(p) ==
    \/ QuotaRefused(Req(p), Req(p).path, now, "none")
    \/ Req(p).tenant \notin Bound /\ QuotaRefused(Req(p), "sites", now, "none")
    \/ QuotaRefused(Req(p), "deployments", now, "none")

\* The switch is read again, the partner is not; what is refused stays in the
\* outbox until an operator has mended the reason.
MaterializeRefused(p) ==
    /\ pc[p] = "verified"
    /\ ~flag \/ ~Isolated(Req(p)) \/ (~Existing(cur[p].id) /\ QuotasRefuse(p))
    /\ NextItem(p)
    /\ UNCHANGED <<now, edge, hub, rows, clk, on, batch, events, spent, overlapped, late>>

Creator(p) == IF Req(p).tenant \in Bound THEN "queue" ELSE "create"
MaterializeAgain(p) ==
    /\ pc[p] = "verified" /\ flag /\ Isolated(Req(p)) /\ ~QuotasRefuse(p)
    /\ Goto(p, Creator(p))
    /\ UNCHANGED <<now, edge, hub, rows, clk, on, batch, events, spent, overlapped, late>>

\* A deployment of this job exists: probe only.  Otherwise it is created, with
\* a site when the tenant has none.
Materialize(p) ==
    /\ pc[p] = "verified" /\ flag /\ Isolated(Req(p))
    /\ \/ Existing(cur[p].id) /\ Goto(p, "ack")
       \/ ~Existing(cur[p].id) /\ ~QuotasRefuse(p) /\ Goto(p, Creator(p))
    /\ UNCHANGED <<now, edge, hub, rows, clk, on, batch, events, spent, overlapped, late>>

\* Project, Site and PartnerSite.  The slug of the project is unique: a second
\* creator, and everybody after one that died half way, gets an IntegrityError.
CreateSite(p) ==
    /\ pc[p] = "create"
    /\ IF site[Req(p).tenant] = "none"
       THEN site' = [site EXCEPT ![Req(p).tenant] = "bound"] /\ Goto(p, "queue")
       ELSE NextItem(p) /\ UNCHANGED site
    /\ UNCHANGED <<now, edge, hub, deps, nonces, idem, clk, on, batch, events, spent, overlapped, late>>

Shut == ~flag \/ partner.suspended
\* create_queued(): the next Manifest version and a QUEUED Deployment.
CreateQueued(p) ==
    /\ pc[p] = "queue"
    /\ deps' = Append(deps, [job |-> cur[p].id, req |-> Req(p), at |-> now])
    /\ late' = [late EXCEPT ![p] = IF Shut THEN @ + 1 ELSE 0]
    /\ Goto(p, "ack")
    /\ UNCHANGED <<now, edge, hub, site, nonces, idem, clk, on, batch, events, spent, overlapped>>

\* Two pollers chose the same version: the unique constraint refuses one.
VersionConflict(p) ==
    /\ pc[p] = "queue"
    /\ \E q \in Pollers \ {p} : pc[q] \in {"ack", "persist"} /\ Req(q).tenant = Req(p).tenant
    /\ NextItem(p)
    /\ UNCHANGED <<now, edge, hub, rows, clk, on, batch, events, spent, overlapped, late>>

\* The acknowledgement is lost: nothing is stored, the item comes again.
AckFails(p) ==
    /\ pc[p] = "ack" /\ OneEvent
    /\ NextItem(p)
    /\ UNCHANGED <<now, edge, hub, rows, clk, on, batch, spent, overlapped, late>>

Ack(p) ==
    /\ pc[p] = "ack"
    /\ outbox' = WithoutJob(outbox, cur[p].id)
    /\ Goto(p, "persist")
    /\ UNCHANGED <<now, lastId, posts, hub, rows, clk, on, batch, events, spent, overlapped, late>>

\* _persist_accepted_nonce() and _persist_accepted_idempotency(); a row that
\* exists already is left alone.
Persist(p) ==
    /\ pc[p] = "persist"
    /\ LET r == Req(p) IN
        /\ nonces' = [Pruned(clk[p]) EXCEPT ![r.nonce] = IF @ = Never THEN now ELSE @]
        /\ spent' = spent \cup {r.nonce}
        /\ idem' = IF r.key = "none" \/ idem[r.key] # NoResult THEN idem
                   ELSE [idem EXCEPT ![r.key] = [params |-> Params(r), at |-> now]]
    /\ NextItem(p)
    /\ UNCHANGED <<now, edge, hub, site, deps, clk, on, batch, events, overlapped, late>>

\* The child is killed; nothing of the poll survives it, but it may have made
\* the project and not yet the site.
Crash(p) ==
    /\ pc[p] # "idle" /\ OneEvent
    /\ pc' = [pc EXCEPT ![p] = "idle"]
    /\ cur' = [cur EXCEPT ![p] = NoItem] /\ batch' = [batch EXCEPT ![p] = {}]
    /\ clk' = [clk EXCEPT ![p] = 0] /\ on' = [on EXCEPT ![p] = FALSE]
    /\ \/ UNCHANGED site
       \/ /\ pc[p] = "create" /\ site[Req(p).tenant] = "none"
          /\ site' = [site EXCEPT ![Req(p).tenant] = "project"]
    /\ UNCHANGED <<now, edge, hub, deps, nonces, idem, spent, overlapped, late>>

---------------------------------------------------------------------------
(* The operator *)

\* partner.api_kill_switch: an explicit value, refused when it is set already.
KillSwitch ==
    /\ OneEvent /\ flag' = ~flag
    /\ late' = [p \in Pollers |-> 0]
    /\ UNCHANGED <<now, edge, partner, dest, stopping, rows, poll, spent, overlapped>>

\* partner.destination_rank, or the collector finds the tunnel gone or a site of
\* the operator's on the ranked host.
DestinationRank(d) ==
    /\ OneEvent /\ d # dest /\ dest' = d
    /\ UNCHANGED <<now, edge, flag, partner, stopping, rows, poll, spent, overlapped, late>>

\* partner.suspend (or the automatic kill switch) lists the sites, ...
Suspend ==
    /\ OneEvent /\ ~partner.suspended /\ stopping = {}
    /\ IF Bound = {}
       THEN partner' = [suspended |-> TRUE, keyed |-> FALSE] /\ UNCHANGED stopping
       ELSE stopping' = Bound /\ UNCHANGED partner
    /\ late' = [p \in Pollers |-> 0]
    /\ UNCHANGED <<now, edge, flag, dest, rows, poll, spent, overlapped>>

\* ... stops them one by one, ...
StopPartnerSite(t) ==
    /\ t \in stopping
    /\ stopping' = stopping \ {t}
    /\ site' = [site EXCEPT ![t] = "stopped"]
    /\ partner' = IF stopping' = {} THEN [suspended |-> TRUE, keyed |-> FALSE] ELSE partner
    /\ late' = [p \in Pollers |-> 0]
    /\ UNCHANGED <<now, edge, flag, dest, deps, nonces, idem, poll, events, spent, overlapped>>

\* ... and a host that does not answer ends it before the keys are revoked.
SuspendFails ==
    /\ stopping # {}
    /\ stopping' = {}
    /\ UNCHANGED <<now, events, edge, flag, partner, dest, rows, poll, spent, overlapped, late>>

\* partner.site_takedown: the route answers 410 from now on.
SiteTakedown(t) ==
    /\ OneEvent /\ t \in Bound
    /\ site' = [site EXCEPT ![t] = "absent"]
    /\ UNCHANGED <<now, edge, flag, partner, dest, stopping, deps, nonces, idem, poll, spent, overlapped, late>>

\* A poll is at most 21 calls with a time-out of 5 s: it sees one step of the
\* clock, not two.
Tick ==
    /\ now < MaxNow /\ now' = now + 1
    /\ \A p \in Pollers : pc[p] = "idle" \/ clk[p] = now
    /\ UNCHANGED <<edge, hub, rows, poll, events, spent, overlapped, late>>

PollStep(p) ==
    \/ PollFetch(p) \/ PollEnd(p)
    \/ \E i \in batch[p] : HandleGitPush(p, i) \/ Refused(p, i) \/ ReplayAcked(p, i) \/ Reverify(p, i)
    \/ MaterializeRefused(p) \/ Materialize(p) \/ CreateSite(p) \/ CreateQueued(p)
    \/ VersionConflict(p) \/ Ack(p) \/ Persist(p)

Next ==
    \/ \E r \in Requests : IntakePost(r)
    \/ PlantGitPush
    \/ \E p \in Pollers : PollStep(p) \/ AckFails(p) \/ Crash(p)
    \/ KillSwitch \/ Suspend \/ SuspendFails \/ Tick
    \/ \E d \in Ranks : DestinationRank(d)
    \/ \E t \in Tenants : StopPartnerSite(t) \/ SiteTakedown(t)

Spec == Init /\ [][Next]_vars

---------------------------------------------------------------------------
(* Properties *)

Items == [id : 1..MaxPosts, kind : {"partner", "git"}, req : Requests]
Pcs == {"idle", "next", "verified", "create", "queue", "ack", "persist"}
Working == {"verified", "create", "queue", "ack", "persist"}

\* Every variable of the edge, the hub and the polls has the type the code gives it.
TypeOK ==
    /\ now \in 0..MaxNow /\ lastId \in 0..MaxPosts /\ posts = lastId
    /\ outbox \subseteq Items /\ batch \in [Pollers -> SUBSET Items]
    /\ cur \in [Pollers -> {NoItem} \cup Items]
    /\ flag \in BOOLEAN /\ partner \in [suspended : BOOLEAN, keyed : BOOLEAN]
    /\ dest \in Ranks \cup {"ok"}
    /\ site \in [Tenants -> {"none", "project", "bound", "stopped", "absent"}]
    /\ deps \in Seq([job : 1..MaxPosts, req : Requests, at : 0..MaxNow])
    /\ nonces \in [NonceSet -> Never..MaxNow]
    /\ idem \in [Keys -> {NoResult} \cup [params : {Params(r) : r \in Requests}, at : 0..MaxNow]]
    /\ pc \in [Pollers -> Pcs] /\ clk \in [Pollers -> 0..MaxNow] /\ on \in [Pollers -> BOOLEAN]
    /\ \A p \in Pollers : pc[p] \in Working => cur[p] \in Items
    /\ stopping \subseteq Tenants /\ spent \subseteq NonceSet /\ overlapped \in BOOLEAN
    /\ events \in 0..MaxEvents /\ late \in [Pollers -> Nat]

\* Until two polls overlap, one poller at most is at work.
OneActive == ~overlapped => \A p, q \in Pollers : pc[p] # "idle" /\ pc[q] # "idle" => p = q

DeploymentsOf(id) == {i \in DOMAIN deps : deps[i].job = id}

\* An outbox item becomes one Deployment, whatever acknowledgements are lost and
\* whichever polls die; polls that overlap can add one each, and no more: the
\* look for the job's deployment (find_by_job_id) is not atomic with its creation.
JobAppliedOnce ==
    \A id \in 1..lastId :
        Cardinality(DeploymentsOf(id)) <= (IF overlapped THEN Cardinality(Pollers) ELSE 1)

\* Who may still create a deployment of the job: the look for one is behind it.
Creating(id) == {p \in Pollers : pc[p] \in {"create", "queue"} /\ cur[p].id = id}
JobsCounted ==
    \A id \in 1..MaxPosts : DeploymentsOf(id) # {} =>
        Cardinality(DeploymentsOf(id)) + Cardinality(Creating(id))
            <= (IF overlapped THEN Cardinality(Pollers) ELSE 1)

\* A nonce that was stored is never accepted again, although its row is deleted
\* after the TTL and the time stamp may be a window in the future: as long as
\* polls do not overlap, the row outlives the request it belongs to.
FreshNonce ==
    \A p \in Pollers : pc[p] = "next" /\ pc'[p] = "verified" /\ ~overlapped => cur'[p].req.nonce \notin spent
SpentNonceRefused == [][FreshNonce]_vars

\* A request that is being applied was fresh by the clock of its poll, which is not ahead.
InFlightFresh ==
    \A p \in Pollers : clk[p] <= now /\ (pc[p] \in Working => Fresh(cur[p].req, clk[p]))
\* A spent nonce has its row, stored no earlier than its request may be fresh, or its request
\* is stale for every poll under way and to come.
SpentIsKept ==
    /\ \A m \in NonceSet : nonces[m] # Never => m \in spent
    /\ ~overlapped => \A r \in Requests : r.nonce \in spent =>
        \/ nonces[r.nonce] # Never /\ r.ts - Window <= nonces[r.nonce]
        \/ r.ts + Window < now /\ \A p \in Pollers : pc[p] # "idle" => r.ts + Window < clk[p]

\* The partner never has more sites than max_sites, except that each overlapping
\* poll can pass the quota with the same count.
SitesWithinQuota ==
    Cardinality(Bound) <= MaxSites + (IF overlapped THEN Cardinality(Pollers) - 1 ELSE 0)

\* The pollers about to bind a tenant passed the quota before anyone of them binds.
Binding == {p \in Pollers : pc[p] = "create"}
SitesCounted ==
    /\ stopping \subseteq Bound
    /\ Cardinality(Bound) + Cardinality(Binding)
        <= MaxSites + (IF overlapped THEN Cardinality(Pollers) - 1 ELSE 0)

\* After the switch was turned off or the partner suspended, a poll that was
\* under way creates at most the one deployment it was at.
ShutBounded == \A p \in Pollers : late[p] <= 1

\* A poller that created after the API was shut has no other creation before it.
LateIsLast ==
    \A p \in Pollers : late[p] = 0 \/ (late[p] = 1 /\
        \/ partner.suspended /\ pc[p] \notin {"verified", "create", "queue"}
        \/ ~flag /\ pc[p] \notin {"create", "queue"})

\* What the operator limits, the quota of sites (core/partner_verify.py, evaluate_quotas)
\* and the switch (core/partner_jobs.py, materialize), is exceeded by one per poll at most.
WithinLimits == SitesWithinQuota /\ ShutBounded

\* Two requests with the same idempotency key and the same parameters are one
\* deployment (the store of first responses in core/partner_verify.py).
IdempotentRetry ==
    \A i, j \in DOMAIN deps :
        (/\ deps[i].req.key = deps[j].req.key /\ deps[i].req.key # "none"
         /\ Params(deps[i].req) = Params(deps[j].req))
            => i = j
=============================================================================
