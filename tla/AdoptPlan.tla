------------------------------ MODULE AdoptPlan ------------------------------
(***************************************************************************)
(* The adoption plan of a compose stack (provision/adopt.py): services are  *)
(* given roles, the edge owner is written or asked for, volumes are          *)
(* registered, and the connection strings are pointed at                    *)
(* (_point_db_cache_volumes in deploys/adopt_flow.py).  A service is a       *)
(* record of what classify_services() looks at; a stack is a sequence of     *)
(* services in file order.                                                   *)
(***************************************************************************)
EXTENDS Integers, Sequences, FiniteSets

CONSTANTS
    Services,       \* services a stack may hold: [hint, edge, port80, public, url]
    MaxServices, MaxEdits, MaxPlans    \* bounds of the exploration

VARIABLES
    stack,      \* the compose file of the Project tree
    edgeOwner,  \* Site.edge_owner
    chosen,     \* history: what the operator chose for the present stack, or "none"
    ambiguous,  \* state of the row adopt-edge-ambiguous
    planned,    \* the roles of the last plan that was not refused, or <<>>
    vaulted,    \* the DATABASE_URL in the vault, 0 for none
    dbMissing,  \* the row adopt-db-url-missing is open
    edits, plans

planVars == <<stack, edgeOwner, chosen, ambiguous, planned, vaulted, dbMissing, edits, plans>>

Roles == {"web", "worker", "beat", "migrate", "db", "cache", "edge"}      \* ROLE_KEYS
Index(st) == 1..Len(st)

Init ==
    /\ stack \in UNION {[1..n -> Services] : n \in 1..MaxServices} /\ edgeOwner = "host_caddy" /\ chosen = "none" /\ ambiguous = "none"
    /\ planned = <<>> /\ vaulted = 0 /\ dbMissing = FALSE /\ edits = 0 /\ plans = 0

---------------------------------------------------------------------------
(* classify_services(), over the positions of a stack; 0 is no service *)

FirstIn(S) == IF S = {} THEN 0 ELSE CHOOSE i \in S : \A j \in S : i <= j

\* _edge_state(): the publishers of 80 or 443; one that is no edge image, or two
\* different edge images, are a mystery; two services of one image are neither.
Publishers(st) == {i \in Index(st) : st[i].port80}
EdgeImages(st) == {st[i].edge : i \in Publishers(st)} \ {"none"}
Mystery(st) == (\E i \in Publishers(st) : st[i].edge = "none") \/ Cardinality(EdgeImages(st)) > 1
EdgeName(st) ==
    IF Mystery(st) \/ Cardinality(Publishers(st)) # 1 THEN 0 ELSE FirstIn(Publishers(st))
\* _is_edge_publisher()
IsEdge(s) == s.port80 /\ s.edge # "none"

\* The first service with a hint takes the role; edge publishers take none.
RoleOf(st, role) == FirstIn({i \in Index(st) : ~IsEdge(st[i]) /\ st[i].hint = role})
Hinted(st) == {RoleOf(st, r) : r \in Roles \ {"web", "edge"}} \ {0}
Remaining(st) == {i \in Index(st) : ~IsEdge(st[i])} \ Hinted(st)
Public(st) == {i \in Remaining(st) : st[i].public}
Web(st) ==
    IF Cardinality(Remaining(st)) = 1 THEN FirstIn(Remaining(st))
    ELSE IF Cardinality(Public(st)) = 1 THEN FirstIn(Public(st)) ELSE 0
ClassifyServices(st) ==
    [r \in Roles |-> IF r = "web" THEN Web(st) ELSE IF r = "edge" THEN EdgeName(st) ELSE RoleOf(st, r)]

\* _unassigned_public(): public services that hold no role but the web's.
UnassignedPublic(st, roles) ==
    {i \in Index(st) : /\ st[i].public /\ ~IsEdge(st[i])
                       /\ i \notin {roles[r] : r \in Roles \ {"web"}}}

---------------------------------------------------------------------------
\* One service of the repository's compose file is replaced.
EditStack(i, s) ==
    /\ edits < MaxEdits /\ edits' = edits + 1 /\ s # stack[i]
    /\ stack' = [stack EXCEPT ![i] = s] /\ chosen' = "none"
    /\ UNCHANGED <<edgeOwner, ambiguous, planned, vaulted, dbMissing, plans>>

\* The edge owner a plan writes: none while the publisher of 80/443 is a mystery.
PlanEdge(roles) ==
    IF Mystery(stack) THEN edgeOwner ELSE IF roles["edge"] # 0 THEN "site_caddy" ELSE "host_caddy"

\* _file_pointer_gaps(), _has_env_key(): the string of the db service or of the web.
Url(roles) ==
    LET urls == {stack[roles[r]].url : r \in {q \in {"db", "web"} : roles[q] # 0}} \ {0}
    IN IF urls = {} THEN 0 ELSE CHOOSE u \in urls : TRUE

\* adoption_plan(): two public services are refused before anything is written; a
\* mystery files its row unless the operator has resolved it (_block_ambiguous_edge).
AdoptionPlan ==
    /\ plans < MaxPlans /\ plans' = plans + 1
    /\ LET roles == ClassifyServices(stack) IN
        IF Cardinality(UnassignedPublic(stack, roles)) > 1
        THEN UNCHANGED <<edgeOwner, ambiguous, planned, dbMissing>>
        ELSE /\ edgeOwner' = PlanEdge(roles)
             /\ ambiguous' = IF Mystery(stack) /\ ambiguous = "none" THEN "open" ELSE ambiguous
             /\ dbMissing' = (dbMissing \/ (roles["db"] # 0 /\ Url(roles) = 0))
             /\ planned' = roles
    /\ UNCHANGED <<stack, chosen, vaulted, edits>>

\* apply_edge_owner(): write it and resolve the row.
ApplyEdgeOwner(owner) ==
    /\ edgeOwner' = owner /\ chosen' = owner
    /\ ambiguous' = IF ambiguous = "open" THEN "resolved" ELSE ambiguous
    /\ UNCHANGED <<stack, planned, vaulted, dbMissing, edits, plans>>

\* _point_db_cache_volumes(), _obtain_env(), _vault_database_url(): the first string that
\* is found is vaulted once and never replaced.
PointDb ==
    /\ LET roles == ClassifyServices(stack) IN
        /\ roles["db"] # 0
        /\ vaulted' = IF Url(roles) # 0 /\ vaulted = 0 THEN Url(roles) ELSE vaulted
        /\ dbMissing' = (Url(roles) = 0)
    /\ UNCHANGED <<stack, edgeOwner, chosen, ambiguous, planned, edits, plans>>

Next ==
    \/ \E i \in DOMAIN stack, s \in Services : EditStack(i, s)
    \/ \E o \in {"host_caddy", "site_caddy"} : ApplyEdgeOwner(o)
    \/ AdoptionPlan \/ PointDb

Spec == Init /\ [][Next]_planVars

---------------------------------------------------------------------------
(* Properties *)

\* Owners, rows and roles.
TypeOK ==
    /\ edgeOwner \in {"host_caddy", "site_caddy"} /\ chosen \in {"none", "host_caddy", "site_caddy"}
    /\ ambiguous \in {"none", "open", "resolved"} /\ dbMissing \in BOOLEAN
    /\ planned = <<>> \/ DOMAIN planned = Roles

\* A plan that is not refused gives every service at most one role, gives the web role to
\* the one public application if there is one, and never to an edge or a database.
RolesAreExclusive ==
    LET roles == ClassifyServices(stack) IN
    /\ \A r, q \in Roles : r # q /\ roles[r] # 0 => roles[r] # roles[q]
    /\ Cardinality(UnassignedPublic(stack, roles)) = 1 =>
           roles["web"] = 0 \/ roles["web"] \in UnassignedPublic(stack, roles)
    /\ roles["web"] # 0 => ~IsEdge(stack[roles["web"]])

\* What the operator chose for a stack whose edge is a mystery survives every later plan
\* of that stack.
ChoiceSurvives == chosen # "none" /\ Mystery(stack) => edgeOwner = chosen
=============================================================================
