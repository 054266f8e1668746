------------------------------- MODULE Wizard -------------------------------
(***************************************************************************)
(* From a scanned project to a frozen manifest: creating the site, saving   *)
(* answers and materializing (wizard/create.py, service.py, questions.py,   *)
(* materialize.py), while the source is edited and scanned again            *)
(* (wizard/hud_workers.py).  A PATCH holds the site's row lock from         *)
(* its first read to its commit; a materialize takes it only after its      *)
(* gate, so what it gated and what it freezes are read at two moments.      *)
(***************************************************************************)
EXTENDS Integers, Sequences, FiniteSets

CONSTANTS
    Reports,        \* what a scan can say: [decls, soft, hard, warn, secret, current]
    Wordings,       \* declarations of test material: [path, reason]
    EligibleZones, Machines,    \* DNS zones a site may be bound to; enrolled targets
    Nothing,        \* a model value: not answered, or no report, zone or machine
    Clients, Scans, \* requests in flight; scan operations in flight
    MaxSourceEdits, MaxScans, MaxSaves, MaxManifests    \* bounds of the exploration

VARIABLES
    site,       \* the site: [zone, machine], or Nothing
    source,     \* what a scan of the checkout would say now
    stored,     \* project.scan_report
    answers,    \* WizardAnswer rows: [domain, env, confirm], env Nothing, "plain" or "vaulted"
    manifests,  \* frozen manifests: [report, accepted, refused, env, late]
    rowLock,    \* the client that holds the site's row
    client,     \* per client: [at, report]
    scan,       \* per scan operation: [at, report]
    said,       \* history: wordings an operator was shown and accepted
    moved,      \* history: clients past their gate for which an answer was changed or swept since
    sourceEdits, scans, saves

wizardVars == <<site, source, stored, answers, manifests, rowLock, client, scan, said, moved, sourceEdits, scans, saves>>

Idle == [at |-> "idle", report |-> Nothing]
NoAnswers == [domain |-> FALSE, env |-> Nothing, confirm |-> [w \in Wordings |-> Nothing]]

Init ==
    /\ site = Nothing /\ source \in Reports /\ stored = Nothing /\ answers = NoAnswers /\ manifests = <<>>
    /\ rowLock = Nothing /\ client = [c \in Clients |-> Idle] /\ scan = [k \in Scans |-> Idle]
    /\ said = {} /\ moved = {} /\ sourceEdits = 0 /\ scans = 0 /\ saves = 0

---------------------------------------------------------------------------
(* create_project() *)

\* The requested zone when it is eligible; none for a mesh_only site; otherwise the only one.
BindDnsZone(mesh, asked) ==
    IF asked # Nothing THEN EligibleZones \cap {asked}
    ELSE IF mesh THEN {Nothing}
    ELSE IF Cardinality(EligibleZones) = 1 THEN EligibleZones ELSE {}
BindPrimaryTarget(asked) ==
    IF asked # Nothing THEN Machines \cap {asked}
    ELSE IF Cardinality(Machines) = 1 THEN Machines ELSE {}

CreateProject(mesh, zone, machine) ==
    /\ site = Nothing
    /\ \E z \in BindDnsZone(mesh, zone), m \in BindPrimaryTarget(machine) : site' = [zone |-> z, machine |-> m]
    /\ UNCHANGED <<source, stored, answers, manifests, rowLock, client, scan, said, moved, sourceEdits, scans, saves>>

---------------------------------------------------------------------------
(* scan_project() *)

\* The checkout changes: declarations are reworded, secrets come and go.
EditSource(r) ==
    /\ sourceEdits < MaxSourceEdits /\ r # source /\ source' = r /\ sourceEdits' = sourceEdits + 1
    /\ UNCHANGED <<site, stored, answers, manifests, rowLock, client, scan, said, moved, scans, saves>>
ScanStart(k) ==
    /\ scan[k].at = "idle" /\ scans < MaxScans /\ scans' = scans + 1 /\ site # Nothing
    /\ scan' = [scan EXCEPT ![k] = [at |-> "scanned", report |-> source]]
    /\ UNCHANGED <<site, source, stored, answers, manifests, rowLock, client, said, moved, sourceEdits, saves>>
\* The report is saved whatever was saved since the scan began.
ScanSave(k) ==
    /\ scan[k].at = "scanned" /\ scan' = [scan EXCEPT ![k] = Idle] /\ stored' = scan[k].report
    /\ UNCHANGED <<site, source, answers, manifests, rowLock, client, said, moved, sourceEdits, scans, saves>>

---------------------------------------------------------------------------
(* Questions and answers *)

\* confirm_question_id(): the id digests the path and the reason.
ConfirmId(w) == w

\* question_map(): the base questions, and what the report asks.
Asks(r, w) == r # Nothing /\ \E d \in r.decls : ConfirmId(d) = w
AsksEnv(r) == r # Nothing
\* downgraded_answers(): a plain row whose question is a secret now.
Downgraded(r, a) == r # Nothing /\ r.secret /\ a.env = "plain"
ScrubDowngraded(r, a) == [a EXCEPT !.env = IF Downgraded(r, a) THEN Nothing ELSE @]
\* scrub_orphaned_declaration_answers(): not without a report.
ScrubOrphans(r, a) == [a EXCEPT !.confirm = [w \in Wordings |-> IF r = Nothing \/ Asks(r, w) THEN @[w] ELSE Nothing]]
Scrubbed(r, a) == ScrubOrphans(r, ScrubDowngraded(r, a))

SetUnlocked(c) ==
    /\ client[c].at = "idle" /\ site # Nothing /\ saves < MaxSaves /\ saves' = saves + 1
    /\ rowLock' = c /\ client' = [client EXCEPT ![c] = [at |-> "save", report |-> stored]]
    /\ UNCHANGED <<site, source, stored, answers, manifests, scan, said, moved, sourceEdits, scans>>
\* set_answers() locks the row, then reads the report.
SetAnswers(c) ==
    /\ client[c].at = "idle" /\ site # Nothing /\ rowLock = Nothing /\ saves < MaxSaves /\ saves' = saves + 1
    /\ rowLock' = c /\ client' = [client EXCEPT ![c] = [at |-> "save", report |-> stored]]
    /\ UNCHANGED <<site, source, stored, answers, manifests, scan, said, moved, sourceEdits, scans>>

\* One of the questions is answered.  An unknown question or a bad value rolls back the
\* scrubs too.
Saved(c, new) ==
    /\ client[c].at = "save" /\ answers' = new /\ rowLock' = Nothing /\ client' = [client EXCEPT ![c] = Idle]
    /\ moved' = IF new # answers THEN {d \in Clients : client[d].at = "freeze"} \cup moved ELSE moved
    /\ UNCHANGED <<site, source, stored, manifests, scan, sourceEdits, scans, saves>>
SaveDomain(c) == Saved(c, [Scrubbed(client[c].report, answers) EXCEPT !.domain = TRUE]) /\ UNCHANGED said
\* A secret is vaulted and its previous vault row deleted.
SaveEnv(c) ==
    /\ AsksEnv(client[c].report) /\ UNCHANGED said
    /\ Saved(c, [Scrubbed(client[c].report, answers) EXCEPT !.env = IF client[c].report.secret THEN "vaulted" ELSE "plain"])
SaveConfirm(c, w, value) ==
    /\ client[c].report # Nothing /\ w \in client[c].report.decls
    /\ Saved(c, [Scrubbed(client[c].report, answers) EXCEPT !.confirm[ConfirmId(w)] = value])
    /\ said' = IF value = "yes" THEN said \cup {w} ELSE said
SaveRefused(c) == Saved(c, answers) /\ UNCHANGED said

---------------------------------------------------------------------------
(* materialize() *)

\* _pending_acceptance(): only a blocker whose every finding is declared can be cleared,
\* by a yes to each of its declarations.
Cleared(r, a) == ~r.hard /\ \A w \in r.soft : a.confirm[ConfirmId(w)] = "yes"
\* missing_required(): the domain and every confirm.
Missing(r, a) == ~a.domain \/ \E w \in r.decls : a.confirm[ConfirmId(w)] = Nothing
\* preflight(), with an unreadable or absent report first.
Preflight(r, a) == r # Nothing /\ r.current /\ Cleared(r, a) /\ ~Downgraded(r, a) /\ ~Missing(r, a)

Materialize(c) ==
    /\ client[c].at = "idle" /\ site # Nothing
    /\ client' = [client EXCEPT ![c] = [at |-> "gate", report |-> stored]]
    /\ UNCHANGED <<site, source, stored, answers, manifests, rowLock, scan, said, moved, sourceEdits, scans, saves>>

\* The scrubs come first, in the transaction that a refusal rolls back.
Gate(c, confirmWarnings) ==
    /\ client[c].at = "gate"
    /\ LET r == client[c].report IN
        client' = [client EXCEPT ![c] = IF /\ ~Downgraded(r, answers)
                                           /\ Preflight(r, Scrubbed(r, answers))
                                           /\ r.warn => confirmWarnings
                                        THEN [@ EXCEPT !.at = "freeze"] ELSE Idle]
    /\ UNCHANGED <<site, source, stored, answers, manifests, rowLock, scan, said, moved, sourceEdits, scans, saves>>

\* _record_declarations(): what the answers say now, draft by draft.
Accepted(r, a) == {w \in r.decls : a.confirm[ConfirmId(w)] = "yes"}

FreezeReread(c) == stored
\* The report that was gated, not the one stored by now.
FrozenReport(c) == client[c].report
\* Under the lock the answers are read again, the unknown ones skipped; the environment
\* is bundled in the vault.
Freeze(c) ==
    /\ client[c].at = "freeze" /\ rowLock = Nothing /\ Len(manifests) < MaxManifests
    /\ LET r == FrozenReport(c)  a == ScrubOrphans(client[c].report, answers) IN
        /\ manifests' = Append(manifests, [report |-> r, accepted |-> Accepted(r, a), refused |-> r.decls \ Accepted(r, a),
                                           env |-> a.env, late |-> c \in moved])
        /\ answers' = a
    /\ client' = [client EXCEPT ![c] = Idle]
    /\ moved' = (IF answers' # answers THEN {d \in Clients : client[d].at = "freeze"} \cup moved ELSE moved) \ {c}
    /\ UNCHANGED <<site, source, stored, rowLock, scan, said, sourceEdits, scans, saves>>

\* The requests: a PATCH of answers and a POST of the next manifest.
WizardView(c) == SetAnswers(c)
ManifestView(c) == Materialize(c)

Next ==
    \/ \E mesh \in BOOLEAN, z \in EligibleZones \cup {Nothing}, m \in Machines \cup {Nothing} : CreateProject(mesh, z, m)
    \/ \E r \in Reports : EditSource(r)
    \/ \E k \in Scans : ScanStart(k) \/ ScanSave(k)
    \/ \E c \in Clients :
        \/ WizardView(c) \/ SaveDomain(c) \/ SaveEnv(c) \/ SaveRefused(c)
        \/ \E w \in Wordings, v \in {"yes", "no"} : SaveConfirm(c, w, v)
        \/ ManifestView(c) \/ Freeze(c)
        \/ \E b \in BOOLEAN : Gate(c, b)

Spec == Init /\ [][Next]_wizardVars

---------------------------------------------------------------------------
(* Properties *)

Answers == [domain : BOOLEAN, env : {Nothing, "plain", "vaulted"}, confirm : [Wordings -> {Nothing, "yes", "no"}]]
Manifest == [report : Reports, accepted : SUBSET Wordings, refused : SUBSET Wordings, env : {Nothing, "plain", "vaulted"}, late : BOOLEAN]
\* Requests and rows have their shapes; a save in flight is the holder of the row, and what
\* passed the gate is a report.
TypeOK ==
    /\ stored \in Reports \cup {Nothing} /\ source \in Reports /\ answers \in Answers
    /\ client \in [Clients -> [at : {"idle", "save", "gate", "freeze"}, report : Reports \cup {Nothing}]]
    /\ scan \in [Scans -> [at : {"idle", "scanned"}, report : Reports \cup {Nothing}]]
    /\ rowLock \in Clients \cup {Nothing} /\ \A c \in Clients : client[c].at = "save" <=> rowLock = c
    /\ \A c \in Clients : client[c].at = "freeze" => client[c].report \in Reports
    /\ said \subseteq Wordings /\ moved \subseteq Clients
    /\ manifests \in Seq(Manifest) /\ Len(manifests) <= MaxManifests

\* "an answer to a claim that has since changed cannot match the id of the claim that
\* replaced it": no manifest records a declaration as accepted in a wording that no
\* operator accepted, however often the declaration was edited, scanned and confirmed.
AcceptedAsWorded == \A i \in DOMAIN manifests : manifests[i].accepted \subseteq said

\* Whatever is rescanned meanwhile, a manifest is frozen from a report whose blockers are
\* cleared: none that stands however the operator answers, and a yes to each declaration
\* behind the others, unless an answer was changed or
\* swept by somebody else between the gate and the lock.
FrozenIsGated ==
    \A i \in DOMAIN manifests :
        LET m == manifests[i] IN m.report.current /\ ~m.report.hard /\ (m.late \/ m.report.soft \subseteq m.accepted)

\* Why: an answer that says yes was given to that wording, and a client that waits to freeze
\* was let through by its own report and by the answers of now, unless they moved.
YesWasSaid == \A w \in Wordings : answers.confirm[w] = "yes" => w \in said
GateHolds ==
    \A c \in Clients : client[c].at = "freeze" =>
        LET r == client[c].report IN
            r.current /\ ~r.hard /\ (c \in moved \/ \A w \in r.soft : answers.confirm[w] = "yes")

\* "the previously stored plaintext has been deleted": a materialize that is refused for
\* an answer that is a secret now has deleted the plain answer.
ScrubIsReal ==
    [][\A c \in Clients :
          client[c].at = "gate" /\ client'[c].at = "idle" /\ Downgraded(client[c].report, answers)
          => answers'.env # "plain"]_wizardVars

\* A manifest's declarations are the ones its gate was passed with.
FrozenAsAnswered == \A i \in DOMAIN manifests : manifests[i].report.soft \subseteq manifests[i].accepted
=============================================================================
