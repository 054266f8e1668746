------------------------------ MODULE DnsZones ------------------------------
(***************************************************************************)
(* One DNS zone of the hub (providers/registry.py, cloudflare.py, route53.py, *)
(* core/zone_views.py, monitor/token_audit.py): how its dnsAccount and tokens  *)
(* come into the vault, how a process proves a token's scope before it holds *)
(* a client, how long it trusts the proof, and how a client rewrites the    *)
(* records of a name with calls that are not one transaction.  Tokens are    *)
(* rotated, widened and revoked by their owner at any time.                 *)
(***************************************************************************)
EXTENDS Integers, Sequences

CONSTANTS
    DnsAgents,      \* processes of the hub that handle requests and tasks
    Tokens,         \* tokens the owner has issued
    Providers,      \* DnsAccount.provider of the explored accounts
    Wishes,         \* the value lists the callers of a name ask for, none empty
    VerifyTtl,      \* VERIFY_TTL_S
    MaxTime, MaxTasks,
    MaxEvents       \* bounds: faults, deaths, stored tokens and scope edits together

VARIABLES
    provider,
    scope,      \* per token: what the provider lets it do
    tokenRows,  \* the API_TOKEN rows of owner dns_account, oldest first: [ref, token, live]
    dnsAccount, \* DnsAccount and its DnsZone: the vault ref of each role, 0 none
    refs,       \* refs handed out (uuid4)
    plantFile,  \* the token in the Origin-CA plant file, or NoToken
    verified,   \* per process: the entries of _verified, [key, at]
    agent,      \* per process: its place and locals
    records,    \* the provider's A records of the name in list order: [id, value]
    recordIds,
    findings,   \* findings filed, by kind and role
    dnsClock, tasksBegun, events,
    probed,     \* history, per process: [row, at] of the passes no later rejection undid
    unproved,   \* history: a client came from the cache without such a pass
    planted,    \* history: tokens whose plant file was removed
    plantRaced, \* history: two plants overlapped
    inexact,    \* history: an upsert that was alone left something else than it was asked for
    leftover,   \* history: ensure_dns found nothing to do beside values nobody asked for
    blamed      \* history: the audit filed drift for a token the wall accepts

bounds == <<tasksBegun, events>>
keeping == <<tokenRows, dnsAccount, refs, plantFile, planted, plantRaced>>
trust == <<verified, probed, unproved>>
served == <<records, recordIds, inexact, leftover>>
dnsVars == <<provider, scope, keeping, trust, served, agent, findings, dnsClock, bounds, blamed>>

NoToken == "none"
Roles == {"dns", "edge", "origin"}
Idle == [at |-> "idle"]
Is(p, place) == agent[p].at = place
Goes(p, a) == agent' = [agent EXCEPT ![p] = a]
Event == events < MaxEvents /\ events' = events + 1
Begin(p) == Is(p, "idle") /\ tasksBegun < MaxTasks /\ tasksBegun' = tasksBegun + 1

\* What the owner can make of a token.
Narrow == [status |-> "active", zones |-> {"home"}]
Wide == [status |-> "active", zones |-> {"home", "other"}]
TokenScopes == {Narrow, Wide,
           [status |-> "active", zones |-> {"other"}],
           [status |-> "active", zones |-> {}],
           [status |-> "disabled", zones |-> {"home"}],
           [status |-> "revoked", zones |-> {}]}

\* A Cloudflare dnsAccount starts unconnected; a Route 53 zone is entered by the operator
\* with the one AWS credential of the hub, which counts as its first task.
Init ==
    /\ provider \in Providers /\ scope \in [Tokens -> {Narrow, Wide}]
    /\ IF provider = "route53"
       THEN /\ \E t \in Tokens : tokenRows = <<[ref |-> 1, token |-> t, live |-> TRUE]>>
            /\ dnsAccount = [exists |-> TRUE, ref |-> [r \in Roles |-> IF r = "dns" THEN 1 ELSE 0]]
            /\ refs = 1
       ELSE /\ tokenRows = <<>> /\ refs = 0
            /\ dnsAccount = [exists |-> FALSE, ref |-> [r \in Roles |-> 0]]
    /\ plantFile = NoToken /\ planted = {} /\ plantRaced = FALSE
    /\ verified = [p \in DnsAgents |-> {}] /\ probed = [p \in DnsAgents |-> {}]
    /\ unproved = FALSE /\ inexact = FALSE /\ leftover = FALSE /\ blamed = FALSE
    /\ agent = [p \in DnsAgents |-> Idle] /\ records = <<>> /\ recordIds = 0 /\ findings = {}
    /\ dnsClock = 0 /\ tasksBegun = refs /\ events = 0

-----------------------------------------------------------------------------
\* observe_token(): verify says active or the probe is skipped; the probe names the zones
\* the token reaches.  A revoked token is answered with 401.
Observed(t) == [ok |-> scope[t].status # "revoked", status |-> scope[t].status,
                zones |-> IF scope[t].status = "active" THEN scope[t].zones ELSE {}]

\* _verify_scope(), CloudflareConnectView and _observe_origin_ca(): active, one zone, this one.
OneZone(t) ==
    LET o == Observed(t) IN
    o.ok /\ o.status = "active" /\ o.zones = {"home"}

\* GetHostedZone of provider_zone_id: the credential is the dnsAccount's, not one zone's.
HostedZone(t) == Observed(t).ok /\ "home" \in Observed(t).zones

Passes(t) == IF provider = "route53" THEN HostedZone(t) ELSE OneZone(t)

\* The provider lets a call on the zone through.
Admitted(t) == scope[t].status = "active" /\ "home" \in scope[t].zones

\* _load_token(): the newest secret of a ref, 0 if there is none.
NewestOf(ref) ==
    LET mine == {k \in DOMAIN tokenRows : tokenRows[k].ref = ref /\ tokenRows[k].live} IN
    IF mine = {} THEN 0 ELSE CHOOSE k \in mine : \A j \in mine : j <= k

Put(ref, t) == tokenRows' = Append(tokenRows, [ref |-> ref, token |-> t, live |-> TRUE])

-----------------------------------------------------------------------------
\* CloudflareConnectView.post(): the pasted token is observed before anything is written.
Connect(p, t) ==
    /\ Begin(p) /\ provider = "cloudflare" /\ OneZone(t)
    /\ Goes(p, [at |-> "observed", token |-> t])
    /\ UNCHANGED <<provider, scope, keeping, trust, served, findings, dnsClock, events, blamed>>

\* vault_service.put() under a new ref.
ConnectPut(p) ==
    /\ Is(p, "observed") /\ refs' = refs + 1 /\ Put(refs + 1, agent[p].token)
    /\ Goes(p, [at |-> "stored", row |-> Len(tokenRows) + 1])
    /\ UNCHANGED <<provider, scope, dnsAccount, plantFile, planted, plantRaced, trust, served,
                   findings, dnsClock, bounds, blamed>>

\* One transaction for both rows: a second claim of the zone name is refused, by clean() or by
\* the constraint, and whatever fails the secret is deleted again.
ConnectRows(p) ==
    LET k == agent[p].row IN
    /\ Is(p, "stored") /\ Goes(p, Idle)
    /\ \/ /\ ~dnsAccount.exists
          /\ dnsAccount' = [dnsAccount EXCEPT !.exists = TRUE, !.ref["dns"] = tokenRows[k].ref]
          /\ UNCHANGED <<tokenRows, events>>
       \/ /\ IF dnsAccount.exists THEN UNCHANGED events ELSE Event
          /\ tokenRows' = [tokenRows EXCEPT ![k].live = FALSE] /\ UNCHANGED dnsAccount
    /\ UNCHANGED <<provider, scope, refs, plantFile, planted, plantRaced, trust, served,
                   findings, dnsClock, tasksBegun, blamed>>

\* The operator stores another token under a role's ref, or gives the role its first.
StoreToken(role, t) ==
    /\ dnsAccount.exists /\ Event
    /\ provider = "route53" => role = "dns"
    /\ LET ref == IF dnsAccount.ref[role] = 0 THEN refs + 1 ELSE dnsAccount.ref[role] IN
       /\ Put(ref, t) /\ dnsAccount' = [dnsAccount EXCEPT !.ref[role] = ref]
       /\ refs' = IF ref > refs THEN ref ELSE refs
    /\ UNCHANGED <<provider, scope, plantFile, planted, plantRaced, trust, served, agent,
                   findings, dnsClock, tasksBegun, blamed>>

\* The operator writes a token into the plant directory.
WritePlant(t) ==
    /\ plantFile = NoToken /\ dnsAccount.exists /\ provider = "cloudflare"
    /\ Event /\ plantFile' = t
    /\ UNCHANGED <<provider, scope, tokenRows, dnsAccount, refs, planted, plantRaced, trust, served,
                   agent, findings, dnsClock, tasksBegun, blamed>>

Planting == {p \in DnsAgents : agent[p].at \in {"planting", "plant_put", "plant_saved"}}

\* OriginCaPlantView.post(): the row and the file are read, the token is observed.
Plant(p) ==
    /\ Begin(p) /\ dnsAccount.exists /\ plantFile # NoToken /\ OneZone(plantFile)
    /\ plantRaced' = (plantRaced \/ Planting # {})
    /\ Goes(p, [at |-> "planting", token |-> plantFile, had |-> dnsAccount.ref["origin"], ref |-> 0])
    /\ UNCHANGED <<provider, scope, tokenRows, dnsAccount, refs, plantFile, planted, trust, served,
                   findings, dnsClock, events, blamed>>

PlantPut(p) ==
    LET a == agent[p]  ref == IF a.had = 0 THEN refs + 1 ELSE a.had IN
    /\ Is(p, "planting") /\ Put(ref, a.token) /\ refs' = IF a.had = 0 THEN refs + 1 ELSE refs
    /\ Goes(p, [a EXCEPT !.at = "plant_put", !.ref = ref])
    /\ UNCHANGED <<provider, scope, dnsAccount, plantFile, planted, plantRaced, trust, served,
                   findings, dnsClock, bounds, blamed>>

\* The ref is compared with the row as this request read it.
PlantSave(p) ==
    LET a == agent[p] IN
    /\ Is(p, "plant_put") /\ Goes(p, [a EXCEPT !.at = "plant_saved"])
    /\ dnsAccount' = IF a.had # a.ref THEN [dnsAccount EXCEPT !.ref["origin"] = a.ref] ELSE dnsAccount
    /\ UNCHANGED <<provider, scope, tokenRows, refs, plantFile, planted, plantRaced, trust, served,
                   findings, dnsClock, bounds, blamed>>

\* resolved.unlink(): whatever the path holds by now.
PlantUnlink(p) ==
    /\ Is(p, "plant_saved") /\ Goes(p, Idle)
    /\ planted' = planted \cup ({plantFile} \ {NoToken}) /\ plantFile' = NoToken
    /\ UNCHANGED <<provider, scope, tokenRows, dnsAccount, refs, plantRaced, trust, served, findings,
                   dnsClock, bounds, blamed>>

-----------------------------------------------------------------------------
\* The key of _verified: rotation under one ref changes it.
CacheKeyByRef(role, k) == <<role, tokenRows[k].ref>>
CacheKey(role, k) == <<role, tokenRows[k].ref, k>>

Holds(p, role, k) == Goes(p, [at |-> "client", role |-> role, row |-> k, token |-> tokenRows[k].token])

\* A pass of this very row that is young enough and was not followed by a rejection.
Proved(p, k) == \E e \in probed[p] : e.row = k /\ dnsClock - e.at < VerifyTtl

\* dns_provider_for(), edge_protection_for(): the newest secret, then the cache.  Route 53
\* and the Origin CA issuer have no cache.
Construct(p, role) ==
    LET k == NewestOf(dnsAccount.ref[role])
        key == CacheKey(role, k)
        stamps == {e \in verified[p] : e.key = key}
        young == role # "origin" /\ provider = "cloudflare"
                 /\ \E e \in stamps : dnsClock - e.at < VerifyTtl
    IN
    /\ Begin(p) /\ dnsAccount.exists /\ dnsAccount.ref[role] # 0 /\ k # 0
    /\ IF young
       THEN Holds(p, role, k) /\ unproved' = (unproved \/ ~Proved(p, k)) /\ UNCHANGED verified
       ELSE /\ Goes(p, [at |-> "probing", role |-> role, row |-> k, key |-> key,
                        token |-> tokenRows[k].token])
            /\ verified' = [verified EXCEPT ![p] = @ \ stamps] /\ UNCHANGED unproved
    /\ UNCHANGED <<provider, scope, keeping, probed, served, findings, dnsClock, events, blamed>>

\* The pass of a probe is stamped after it; the issuer and Route 53 keep none.
ProbePasses(p) ==
    LET a == agent[p] IN
    /\ Is(p, "probing") /\ Passes(a.token) /\ Holds(p, a.role, a.row)
    /\ verified' = IF a.role = "origin" \/ provider = "route53" THEN verified
                   ELSE [verified EXCEPT ![p] = @ \cup {[key |-> a.key, at |-> dnsClock]}]
    /\ probed' = [probed EXCEPT ![p] =
                    {e \in @ : e.row # a.row} \cup {[row |-> a.row, at |-> dnsClock]}]
    /\ UNCHANGED <<provider, scope, keeping, unproved, served, findings, dnsClock, bounds, blamed>>

\* A refusal, or a call that failed, files a finding and raises; origin_cert_issuer_for
\* only raises.
ProbeRefuses(p) ==
    LET role == agent[p].role  kind == IF provider = "route53" THEN "r53-fail" ELSE "cf-scope" IN
    /\ Is(p, "probing") /\ Goes(p, Idle)
    /\ IF Passes(agent[p].token) THEN Event ELSE UNCHANGED events
    /\ findings' = findings \cup (IF role = "origin" THEN {} ELSE {<<kind, role>>})
    /\ UNCHANGED <<provider, scope, keeping, trust, served, dnsClock, tasksBegun, blamed>>

\* on_auth_error of the client: its own entry is dropped; the issuer has no such hook.
Forget(p) ==
    LET a == agent[p] IN
    /\ verified' = IF a.role = "origin" THEN verified
                   ELSE [verified EXCEPT ![p] = {e \in @ : e.key # CacheKey(a.role, a.row)}]
    /\ probed' = [probed EXCEPT ![p] = {e \in @ : e.row # a.row}]

\* A row that already matches needs no call, nor does the end of the loop.
CallDue(a) ==
    \/ a.at \in {"client", "ensure"}
    \/ a.at = "writing" /\ IF a.next <= Len(a.wish) /\ a.next <= Len(a.current)
                           THEN a.current[a.next].value # a.wish[a.next]
                           ELSE a.next <= Len(a.wish) \/ a.next <= Len(a.current)

\* _api(): a call is refused with 401 or 403, or fails otherwise; it raises.
CallRefused(p) ==
    /\ CallDue(agent[p]) /\ Goes(p, Idle)
    /\ \/ ~Admitted(agent[p].token) /\ Forget(p) /\ UNCHANGED events
       \/ Event /\ UNCHANGED <<verified, probed>>
    /\ UNCHANGED <<provider, scope, keeping, unproved, served, findings, dnsClock, tasksBegun, blamed>>

\* A call on the edge or at the Origin CA, which leaves the records alone.
OtherCall(p) ==
    /\ Is(p, "client") /\ agent[p].role # "dns" /\ Admitted(agent[p].token) /\ Goes(p, Idle)
    /\ UNCHANGED <<provider, scope, keeping, trust, served, findings, dnsClock, bounds, blamed>>

-----------------------------------------------------------------------------
Values == {records[i].value : i \in DOMAIN records}
Row(id, v) == [id |-> id, value |-> v]
Replace(rows, ks, row) == [j \in DOMAIN rows |-> IF j \in ks THEN row ELSE rows[j]]
Drop(rows, k) == [j \in 1..(Len(rows) - 1) |-> IF j < k THEN rows[j] ELSE rows[j + 1]]
MayCall(p) == Admitted(agent[p].token)

\* ensure_dns(): the last row listed for the name stands for it; a client that lists one
\* row per value never finds two values there.
Existing == IF records = <<>> THEN <<>>
            ELSE IF provider = "route53" THEN [i \in DOMAIN records |-> records[i].value]
            ELSE <<records[Len(records)].value>>
EnsureDns(p, wish) ==
    /\ Is(p, "client") /\ agent[p].role = "dns" /\ MayCall(p)
    /\ IF Existing = wish
       THEN Goes(p, Idle)
       ELSE Goes(p, [at |-> "ensure", role |-> "dns", row |-> agent[p].row,
                      token |-> agent[p].token, wish |-> wish])
    /\ leftover' = (leftover \/ (Existing = wish /\ Values # {wish[i] : i \in DOMAIN wish}))
    /\ UNCHANGED <<provider, scope, keeping, trust, records, recordIds, inexact, findings, dnsClock,
                   bounds, blamed>>

\* upsert_record() lists again; adopt's flip comes here directly.
UpsertList(p, wish) ==
    /\ \/ Is(p, "ensure") /\ agent[p].wish = wish
       \/ Is(p, "client") /\ agent[p].role = "dns"
    /\ MayCall(p)
    /\ agent' = [q \in DnsAgents |->
         IF q = p THEN [at |-> "writing", role |-> agent[p].role, row |-> agent[p].row,
                        token |-> agent[p].token, wish |-> wish, current |-> records, next |-> 1,
                        alone |-> \A r \in DnsAgents \ {p} : ~Is(r, "writing")]
         ELSE IF Is(q, "writing") THEN [agent[q] EXCEPT !.alone = FALSE] ELSE agent[q]]
    /\ UNCHANGED <<provider, scope, keeping, trust, served, findings, dnsClock, bounds, blamed>>

\* The loop over the values, then over the rows left: equal rows are kept, others PUT,
\* missing ones POSTed, extras DELETEd (404 is success); a PUT of a row that is gone raises.
UpsertCall(p) ==
    LET a == agent[p]  i == a.next  old == a.current
        at == IF i <= Len(old) THEN {j \in DOMAIN records : records[j].id = old[i].id} ELSE {}
        on == Goes(p, [a EXCEPT !.next = i + 1])
    IN
    /\ Is(p, "writing") /\ provider = "cloudflare" /\ (i <= Len(a.wish) \/ i <= Len(old))
    /\ \/ /\ i <= Len(a.wish) /\ i <= Len(old) /\ old[i].value = a.wish[i]
          /\ on /\ UNCHANGED <<records, recordIds>>
       \/ /\ i <= Len(a.wish) /\ i <= Len(old) /\ old[i].value # a.wish[i] /\ MayCall(p)
          /\ IF at = {} THEN Goes(p, Idle) ELSE on
          /\ records' = Replace(records, at, Row(old[i].id, a.wish[i])) /\ UNCHANGED recordIds
       \/ /\ i <= Len(a.wish) /\ i > Len(old) /\ MayCall(p) /\ on
          /\ records' = Append(records, Row(recordIds + 1, a.wish[i])) /\ recordIds' = recordIds + 1
       \/ /\ i > Len(a.wish) /\ MayCall(p) /\ on
          /\ IF at = {} THEN UNCHANGED records ELSE \E k \in at : records' = Drop(records, k)
          /\ UNCHANGED recordIds
    /\ UNCHANGED <<provider, scope, keeping, trust, inexact, leftover, findings, dnsClock, bounds,
                   blamed>>

\* sorted(rows) == sorted(wish): the same values as often, in any order.
SameValues(rows, wish) ==
    /\ Len(rows) = Len(wish)
    /\ \E f \in [DOMAIN wish -> DOMAIN rows] :
        /\ \A i, j \in DOMAIN wish : f[i] = f[j] => i = j
        /\ \A i \in DOMAIN wish : rows[f[i]].value = wish[i]

\* Route 53 takes the whole record set in one change, or none is needed.
Route53Change(p) ==
    LET a == agent[p] IN
    /\ Is(p, "writing") /\ provider = "route53" /\ a.next = 1 /\ MayCall(p)
    /\ records' = IF SameValues(a.current, a.wish) THEN records
                  ELSE [i \in DOMAIN a.wish |-> Row(0, a.wish[i])]
    /\ Goes(p, [a EXCEPT !.next = 1 + Len(a.wish), !.current = <<>>])
    /\ UNCHANGED <<provider, scope, keeping, trust, recordIds, inexact, leftover, findings, dnsClock,
                   bounds, blamed>>

UpsertDone(p) ==
    LET a == agent[p] IN
    /\ Is(p, "writing") /\ a.next > Len(a.wish) /\ a.next > Len(a.current) /\ Goes(p, Idle)
    /\ inexact' = (inexact \/ (a.alone /\ ~SameValues(records, a.wish)))
    /\ UNCHANGED <<provider, scope, keeping, trust, records, recordIds, leftover, findings, dnsClock,
                   bounds, blamed>>

-----------------------------------------------------------------------------
\* _audit_credential() of the daily audit: revoked, inactive, hidden or undeclared reach.
Drifted(t) ==
    LET o == Observed(t) IN
    ~o.ok \/ o.status # "active" \/ ~(o.zones \subseteq {"home"})

\* audit_cloudflare_credentials(): every role with a ref and a secret behind it.
AuditTokens(p) ==
    LET bad == {r \in Roles : dnsAccount.ref[r] # 0 /\ NewestOf(dnsAccount.ref[r]) # 0
                               /\ Drifted(tokenRows[NewestOf(dnsAccount.ref[r])].token)} IN
    /\ Begin(p) /\ dnsAccount.exists /\ provider = "cloudflare" /\ UNCHANGED agent
    /\ findings' = findings \cup {<<"cf-token-scope", r>> : r \in bad}
    /\ blamed' = (blamed \/ \E r \in bad : OneZone(tokenRows[NewestOf(dnsAccount.ref[r])].token))
    /\ UNCHANGED <<provider, scope, keeping, trust, served, dnsClock, events>>

\* The owner widens, narrows, disables or revokes a token.
EditScope(t, s) ==
    /\ Event
    /\ s # scope[t] /\ scope' = [scope EXCEPT ![t] = s]
    /\ UNCHANGED <<provider, keeping, trust, served, agent, findings, dnsClock, tasksBegun, blamed>>

TimePasses ==
    /\ dnsClock < MaxTime /\ dnsClock' = dnsClock + 1
    /\ UNCHANGED <<provider, scope, keeping, trust, served, agent, findings, bounds, blamed>>

\* A process dies; its cache goes with it.
Killed(p) ==
    /\ Event /\ ~Is(p, "idle") /\ Goes(p, Idle)
    /\ verified' = [verified EXCEPT ![p] = {}] /\ probed' = [probed EXCEPT ![p] = {}]
    /\ UNCHANGED <<provider, scope, keeping, unproved, served, findings, dnsClock, tasksBegun, blamed>>

Next ==
    \/ TimePasses
    \/ \E t \in Tokens :
        \/ WritePlant(t) \/ \E s \in TokenScopes : EditScope(t, s)
        \/ \E role \in Roles \ {"origin"} : StoreToken(role, t)
    \/ \E p \in DnsAgents :
        \/ ConnectPut(p) \/ ConnectRows(p) \/ Plant(p) \/ PlantPut(p) \/ PlantSave(p)
        \/ PlantUnlink(p) \/ ProbePasses(p) \/ ProbeRefuses(p) \/ CallRefused(p) \/ OtherCall(p)
        \/ UpsertCall(p) \/ Route53Change(p) \/ UpsertDone(p) \/ AuditTokens(p) \/ Killed(p)
        \/ \E t \in Tokens : Connect(p, t)
        \/ \E role \in Roles : Construct(p, role)
        \/ \E wish \in Wishes : EnsureDns(p, wish) \/ UpsertList(p, wish)

Spec == Init /\ [][Next]_dnsVars

-----------------------------------------------------------------------------
Places == {"idle", "observed", "stored", "planting", "plant_put", "plant_saved", "probing",
           "client", "ensure", "writing"}

\* The types of the vault rows, the caches, the processes and the records.
TypeOK ==
    /\ scope \in [Tokens -> TokenScopes] /\ dnsAccount.ref \in [Roles -> 0..refs]
    /\ \A k \in DOMAIN tokenRows : tokenRows[k].ref \in 1..refs /\ tokenRows[k].token \in Tokens
    /\ \A p \in DnsAgents : agent[p].at \in Places /\ \A e \in verified[p] : e.at \in 0..dnsClock
    /\ \A i \in DOMAIN records : records[i].id \in 0..recordIds
    /\ findings \subseteq {"cf-scope", "r53-fail", "cf-token-scope"} \X Roles

\* A client made without a probe holds a token that passed one in this process, as this very
\* row of the vault, within the TTL and after its last rejection (registry.py
\* dns_provider_for): no rotated, widened or refused token inherits a pass.
ClientsAreProved == ~unproved

\* The connected account always has a token behind its DNS ref, whoever raced it, failed or
\* died (zone_views.py CloudflareConnectView).
AccountHasToken == dnsAccount.exists => NewestOf(dnsAccount.ref["dns"]) # 0

\* A live row of the vault has token t under ref x.
InVault(x, t) ==
    \E k \in DOMAIN tokenRows : tokenRows[k] = [ref |-> x, token |-> t, live |-> TRUE]

\* While plants take turns, a token whose file was removed is in the vault under the
\* account's ref (zone_views.py OriginCaPlantView), whichever statement one died at.
PlantedIsKept ==
    ~plantRaced => \A t \in planted : InVault(dnsAccount.ref["origin"], t)

\* An upsert no other one overlapped leaves exactly the values it was asked for, also after
\* overlapping or killed ones left duplicates (cloudflare.py, route53.py upsert_record).
UpsertIsExact == ~inexact

\* A name that was served once is never without a record (upsert_record writes before it
\* deletes), however upserts overlap, fail or die.
NameStaysServed == recordIds > 0 => records # <<>>

\* The daily audit blames no token the wall would accept (token_audit.py, registry.py).
AuditAgreesWithWall == ~blamed

\* What the code does not give: ensure_dns looks at the last row of the name only, so a
\* wish for that one value leaves other rows served (deploys/steps.py ensure_dns).
EnsuredIsExact == ~leftover

\* Nor this: a client outlives its proof, so a token widened later is held over-scoped.
NoOverScopedClient ==
    \A p \in DnsAgents : Is(p, "client") /\ provider = "cloudflare" =>
        ~("other" \in scope[agent[p].token].zones)
-----------------------------------------------------------------------------
(* What the proofs need beside the properties *)

PlantPlaces == {"planting", "plant_put", "plant_saved"}
Calling == {"probing", "client", "ensure", "writing"}
Texts == UNION {{w[i] : i \in DOMAIN w} : w \in Wishes}

\* What a process remembers at each place.
Remembers(a) ==
    /\ a.at \in Places
    /\ a.at = "observed" => a.token \in Tokens
    /\ a.at \in PlantPlaces =>
        a \in [at : PlantPlaces, token : Tokens, had : 0..refs, ref : 0..refs]
    /\ a.at = "stored" => a.row \in DOMAIN tokenRows
    /\ a.at \in Calling => a.role \in Roles /\ a.row \in DOMAIN tokenRows

\* ZoneTypes: the vault rows, the account and the caches.
ZoneTypes ==
    /\ refs \in Nat /\ dnsClock \in Nat /\ plantFile \in Tokens \cup {NoToken}
    /\ tokenRows \in Seq([ref : Nat \ {0}, token : Tokens, live : BOOLEAN])
    /\ \A k \in DOMAIN tokenRows : tokenRows[k].ref <= refs
    /\ dnsAccount \in [exists : BOOLEAN, ref : [Roles -> Nat]]
    /\ \A r \in Roles : dnsAccount.ref[r] <= refs
    /\ verified \in [DnsAgents -> SUBSET [key : Roles \X Nat \X Nat, at : Nat]]
    /\ probed \in [DnsAgents -> SUBSET [row : Nat, at : Nat]]
    /\ agent = [p \in DnsAgents |-> agent[p]] /\ \A p \in DnsAgents : Remembers(agent[p])

\* Ref x is no other role's and no connecting request's: only plants use it.
PlantOwn(x) ==
    x # 0 =>
        /\ x # dnsAccount.ref["dns"] /\ x # dnsAccount.ref["edge"]
        /\ \A q \in DnsAgents : Is(q, "stored") => tokenRows[agent[q].row].ref # x

\* The row a connecting request has put is its alone.
ConnectOwn(p) ==
    LET k == agent[p].row IN
    /\ tokenRows[k].live /\ \A r \in Roles : dnsAccount.ref[r] # tokenRows[k].ref
    /\ \A j \in DOMAIN tokenRows : tokenRows[j].ref = tokenRows[k].ref => j = k
    /\ \A q \in DnsAgents \ {p} : Is(q, "stored") => agent[q].row # k

\* The row behind a client belongs to its role.
RowOf(role, k) ==
    IF role = "origin" THEN PlantOwn(tokenRows[k].ref)
    ELSE tokenRows[k].ref = dnsAccount.ref[role]

\* RefsApart: the refs of the roles, of the plants and of the connecting requests differ.
RefsApart ==
    /\ dnsAccount.ref["dns"] # 0 => dnsAccount.ref["dns"] # dnsAccount.ref["edge"]
    /\ PlantOwn(dnsAccount.ref["origin"])
    /\ \A p \in DnsAgents :
        /\ Is(p, "stored") => ConnectOwn(p)
        /\ agent[p].at \in PlantPlaces => PlantOwn(agent[p].had) /\ PlantOwn(agent[p].ref)
        /\ agent[p].at \in Calling => RowOf(agent[p].role, agent[p].row)
        /\ Is(p, "probing") => agent[p].key = CacheKey(agent[p].role, agent[p].row)

\* Before the account exists nothing refers to it; afterwards its DNS ref has a live row.
AccountInv ==
    /\ ~dnsAccount.exists =>
        /\ \A r \in Roles : dnsAccount.ref[r] = 0
        /\ \A p \in DnsAgents : agent[p].at \in {"idle", "observed", "stored"} /\ verified[p] = {}
    /\ dnsAccount.exists =>
        \E k \in DOMAIN tokenRows : tokenRows[k].ref = dnsAccount.ref["dns"] /\ tokenRows[k].live

\* PassInv: an entry of the cache is of the role's row and has a pass at least as young.
PassInv ==
    \A p \in DnsAgents :
        /\ \A f \in probed[p] : f.at <= dnsClock
        /\ \A e \in verified[p] :
            \E role \in Roles \ {"origin"}, k \in DOMAIN tokenRows :
                /\ e.key = CacheKey(role, k) /\ tokenRows[k].ref = dnsAccount.ref[role]
                /\ e.at <= dnsClock /\ \E f \in probed[p] : f.row = k /\ f.at >= e.at

\* A plant is of the file that is there, it knows the account's ref, and what it has put
\* is in the vault.
PlantSound(a) ==
    /\ plantFile = a.token /\ plantFile # NoToken
    /\ a.at # "plant_saved" => a.had = dnsAccount.ref["origin"]
    /\ a.at = "plant_saved" => a.ref = dnsAccount.ref["origin"]
    /\ a.at = "plant_put" => (a.had # 0 => a.ref = a.had)
    /\ a.at # "planting" => InVault(a.ref, a.token)

\* PlantInv: while plants take turns there is one at a time.
PlantInv ==
    ~plantRaced =>
        /\ \A p, q \in Planting : p = q
        /\ \A p \in Planting : PlantSound(agent[p])

\* Ids are handed out in list order, and the oldest row stays first.
Listed(rows) ==
    /\ \A i, j \in DOMAIN rows : i < j => rows[i].id < rows[j].id
    /\ rows # <<>> => rows[1].id = 1

\* The rows a lone upsert leaves after next - 1 calls: the values written so far, then the
\* listed rows it has not come to.
HalfWritten(a) ==
    LET n == Len(a.wish)
        done == IF a.next <= n THEN a.next - 1 ELSE n
        rest == IF a.next <= Len(a.current) THEN Len(a.current) - a.next + 1 ELSE 0
    IN
    /\ Len(records) = done + rest
    /\ \A j \in 1..done : records[j].value = a.wish[j]
    /\ \A j \in 1..rest : records[done + j] = a.current[a.next + j - 1]

\* What an upsert on its way holds, and what a lone one has made of the records.
Writing(p) ==
    LET a == agent[p] IN
    /\ a = [at |-> "writing", role |-> a.role, row |-> a.row, token |-> a.token, wish |-> a.wish,
            current |-> a.current, next |-> a.next, alone |-> a.alone]
    /\ a.wish \in Wishes /\ a.current \in Seq([id : Nat, value : Texts])
    /\ a.next \in Nat \ {0} /\ a.alone \in BOOLEAN
    /\ provider = "cloudflare" => Listed(a.current)
    /\ a.alone =>
        /\ \A q \in DnsAgents \ {p} : ~Is(q, "writing")
        /\ provider = "cloudflare" => HalfWritten(a)
        /\ provider = "route53" =>
            IF a.next = 1 THEN records = a.current ELSE SameValues(records, a.wish)

\* ServedInv: the records of the name and the upserts on their way.
ServedInv ==
    /\ recordIds \in Nat /\ records \in Seq([id : Nat, value : Texts])
    /\ agent = [p \in DnsAgents |-> agent[p]] /\ provider \in Providers
    /\ provider # "cloudflare" => recordIds = 0
    /\ provider = "cloudflare" =>
        /\ Listed(records) /\ (recordIds > 0 => records # <<>>)
        /\ \A i \in DOMAIN records : records[i].id \in 1..recordIds
    /\ \A p \in DnsAgents : /\ Is(p, "ensure") => agent[p].wish \in Wishes
                            /\ Is(p, "writing") => Writing(p)

\* What TypeOK says beyond the invariants above: scopes, findings, and the rows of Route 53,
\* which have no ids.
PlainTypes ==
    /\ scope \in [Tokens -> TokenScopes]
    /\ findings \subseteq {"cf-scope", "r53-fail", "cf-token-scope"} \X Roles
    /\ provider # "cloudflare" => \A i \in DOMAIN records : records[i].id = 0
=============================================================================
