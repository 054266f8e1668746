--------------------------- MODULE SealedBackups ---------------------------
(***************************************************************************)
(* The nightly dumps of one site (provision/backup.py) and the vault that   *)
(* keeps their key (vault/kek.py, vault/service.py): a keyfile minted by the *)
(* first container that boots, DEKs wrapped by the keyfile or by KMS, a      *)
(* cache of unwrapped DEKs per process, backup keys made on first use, runs  *)
(* and blobs.  The beat task, the operator's test and a restore drill run    *)
(* beside each other without a lock, and a process may die anywhere.         *)
(***************************************************************************)
EXTENDS Integers, Sequences, FiniteSets

CONSTANTS
    HubProcs,       \* processes of the hub
    UnitOrder,      \* the site's BackupUnits in the order of their pk
    Nightly,        \* _NIGHTLY_WINDOW
    MaxHour, MaxBackups, MaxUpsets, MaxRewraps   \* bounds of the exploration

VARIABLES
    keyfile,    \* content of VAULT_KEYFILE: 0 missing, -1 created and still empty, or a key
    kekNow,     \* VAULT_KEK_BACKEND
    kmsUp,
    secrets,    \* the site's BACKUP_KEY rows, oldest first: [kek, under, wrap]
    cached,     \* per process: the keys of _DEK_CACHE, pairs of row and wrapped DEK
    worker,     \* per process: its place and the locals of persist_backup
    dumps,      \* CheckRun rows of kind BACKUP and their blobs: [unit, key, hour, ok, blob]
    told,       \* units with a backup-failure alert
    quietAt,    \* per unit: the hour of the last nightly check that passed it, or -1
    restores,   \* CheckRun rows of kind RESTORE_CLEAN, the last one's outcome
    hour, wraps, begun, rewraps,
    upsets,     \* failed commands, kills and outages so far
    twoKeys,    \* history: two processes found no backup key at once
    denied      \* history: a get was refused although both KEKs could be reached

bounds == <<begun, rewraps>>
vault == <<keyfile, kekNow, kmsUp, secrets, cached, wraps, denied>>
records == <<dumps, told, quietAt, restores>>
backupVars == <<vault, worker, records, hour, bounds, upsets, twoKeys>>

Units == {UnitOrder[i] : i \in DOMAIN UnitOrder}
Down == [at |-> "down"]
Up == [at |-> "up"]
Is(p, place) == worker[p].at = place
Goes(p, w) == worker' = [worker EXCEPT ![p] = w]
Upset == upsets < MaxUpsets /\ upsets' = upsets + 1

Init ==
    /\ keyfile = 0 /\ kekNow = "local" /\ kmsUp = TRUE /\ secrets = <<>>
    /\ cached = [p \in HubProcs |-> {}] /\ worker = [p \in HubProcs |-> Down]
    /\ dumps = <<>> /\ told = {} /\ quietAt = [u \in Units |-> -1] /\ restores = "none"
    /\ hour = 0 /\ wraps = 0 /\ begun = 0 /\ upsets = 0 /\ rewraps = 0
    /\ twoKeys = FALSE /\ denied = FALSE

-----------------------------------------------------------------------------
\* ensure() before Django boots, then VaultConfig.ready(): a keyfile of another size than
\* 32 bytes, or a KMS that cannot be reached, refuses to boot.
Boot(p) ==
    /\ Is(p, "down") /\ keyfile # -1
    /\ keyfile > 0 /\ kekNow = "kms" => kmsUp
    /\ Goes(p, IF keyfile = 0 THEN [at |-> "mint"] ELSE Up)
    /\ UNCHANGED <<vault, records, hour, bounds, upsets, twoKeys>>

\* os.open(O_CREAT | O_EXCL): the loser of two boots raises and is started again.
CreateKeyfile(p) ==
    /\ Is(p, "mint")
    /\ IF keyfile = 0 THEN keyfile' = -1 /\ Goes(p, [at |-> "write"])
                      ELSE Goes(p, Down) /\ UNCHANGED keyfile
    /\ UNCHANGED <<kekNow, kmsUp, secrets, cached, wraps, denied, records, hour, bounds,
                   upsets, twoKeys>>

WriteKeyfile(p) ==
    /\ Is(p, "write") /\ wraps' = wraps + 1 /\ keyfile' = wraps + 1 /\ Goes(p, Up)
    /\ UNCHANGED <<kekNow, kmsUp, secrets, cached, denied, records, hour, bounds,
                   upsets, twoKeys>>

\* get_backend().wrap(): under the file's key or under KMS, with a fresh nonce.
CanWrap == kekNow = "kms" => kmsUp
Wrapped == [kek |-> kekNow, under |-> IF kekNow = "local" THEN keyfile ELSE 0, wrap |-> wraps + 1]

\* backend_for_stored_kek_id(): the row's own backend, also when another one is configured.
Backend(row) == row.kek

\* _unwrap_dek() of a row as this process read it: from the cache, or by the backend.
Unwraps(p, k, row) ==
    \/ <<k, row.wrap>> \in cached[p]
    \/ Backend(row) = "kms" /\ row.kek = "kms" /\ kmsUp
    \/ Backend(row) = "local" /\ row.kek = "local" /\ row.under = keyfile

Remembers(p, k, row) == cached' = [cached EXCEPT ![p] = @ \cup {<<k, row.wrap>>}]

\* rewrap(): the DEK of a row is wrapped again under the configured KEK and the
\* entries of this process for the row are replaced.
Rewrap(p, k) ==
    /\ Is(p, "up") /\ rewraps < MaxRewraps /\ rewraps' = rewraps + 1
    /\ LET now == Wrapped IN
       IF Unwraps(p, k, secrets[k]) /\ CanWrap
       THEN /\ secrets' = [secrets EXCEPT ![k] = now] /\ wraps' = wraps + 1
            /\ cached' = [cached EXCEPT ![p] = {c \in @ : c[1] # k} \cup {<<k, now.wrap>>}]
       ELSE UNCHANGED <<secrets, wraps, cached>>
    /\ UNCHANGED <<keyfile, kekNow, kmsUp, denied, worker, records, hour, begun, upsets, twoKeys>>

\* The hub moves from the keyfile to KMS: settings change and every process restarts.
MoveToKms ==
    /\ kekNow = "local" /\ keyfile > 0 /\ kekNow' = "kms"
    /\ worker' = [p \in HubProcs |-> Down] /\ cached' = [p \in HubProcs |-> {}]
    /\ UNCHANGED <<keyfile, kmsUp, secrets, wraps, denied, records, hour, bounds, upsets,
                   twoKeys>>

KmsOutage ==
    /\ IF kmsUp THEN Upset ELSE UNCHANGED upsets
    /\ kmsUp' = ~kmsUp
    /\ UNCHANGED <<keyfile, kekNow, secrets, cached, wraps, denied, worker, records, hour, begun,
                   rewraps, twoKeys>>

-----------------------------------------------------------------------------
\* run_nightly() of the beat; BackupTestNowView.
Begin(p, todo, nightly) ==
    /\ Is(p, "up") /\ begun < MaxBackups /\ begun' = begun + 1
    /\ Goes(p, [at |-> "collect", todo |-> todo, nightly |-> nightly, key |-> 0,
                row |-> [kek |-> kekNow, under |-> 0, wrap |-> 0], run |-> 0])
    /\ UNCHANGED <<vault, records, hour, rewraps, upsets, twoKeys>>
RunNightly(p) == Begin(p, UnitOrder, TRUE)
TestNow(p, u) == Begin(p, <<u>>, FALSE)

\* The loop goes on with the next unit; a nightly ends with its check.
NextUnit(p) ==
    LET w == worker[p] IN
    Goes(p, IF Len(w.todo) > 1 THEN [w EXCEPT !.at = "collect", !.todo = Tail(@), !.key = 0]
            ELSE IF w.nightly THEN [w EXCEPT !.at = "check"] ELSE Up)
\* _alert_backup_failure()
Fails(p) == told' = told \cup {Head(worker[p].todo)} /\ NextUnit(p)

\* _ensure_backup_key() looks for a row; .first() is the newest.
Existing == Len(secrets)

\* _collect(): pg_dump on the host, then the look for the key.
Collect(p) ==
    LET w == worker[p] IN
    /\ Is(p, "collect")
    /\ \/ /\ Goes(p, IF Existing = 0 THEN [w EXCEPT !.at = "no_key"]
                     ELSE [w EXCEPT !.at = "keyed", !.key = Existing, !.row = secrets[Existing]])
          /\ twoKeys' = (twoKeys \/ (Existing = 0 /\ \E q \in HubProcs \ {p} : Is(q, "no_key")))
          /\ UNCHANGED <<told, upsets>>
       \/ Upset /\ Fails(p) /\ UNCHANGED twoKeys
    /\ UNCHANGED <<vault, dumps, quietAt, restores, hour, bounds>>

\* service.put() of a new backup key.
PutKey(p) ==
    LET w == worker[p] IN
    /\ Is(p, "no_key")
    /\ IF CanWrap
       THEN /\ secrets' = Append(secrets, Wrapped) /\ wraps' = wraps + 1
            /\ Goes(p, [w EXCEPT !.at = "keyed", !.key = Len(secrets) + 1, !.row = Wrapped])
            /\ UNCHANGED told
       ELSE Fails(p) /\ UNCHANGED <<secrets, wraps>>
    /\ UNCHANGED <<keyfile, kekNow, kmsUp, cached, denied, dumps, quietAt, restores, hour,
                   bounds, upsets, twoKeys>>

\* service.get() of the row read before, then seal().
Seal(p) ==
    LET w == worker[p] IN
    /\ Is(p, "keyed")
    /\ IF Unwraps(p, w.key, w.row)
       THEN Goes(p, [w EXCEPT !.at = "sealed"]) /\ Remembers(p, w.key, w.row)
            /\ UNCHANGED <<denied, told>>
       ELSE Fails(p) /\ denied' = (denied \/ kmsUp) /\ UNCHANGED cached
    /\ UNCHANGED <<keyfile, kekNow, kmsUp, secrets, wraps, dumps, quietAt, restores, hour, bounds,
                   upsets, twoKeys>>

\* run.save(): SUCCEEDED is committed before the blob is stored.
SaveRun(p) ==
    LET w == worker[p] IN
    /\ Is(p, "sealed")
    /\ dumps' = Append(dumps, [unit |-> Head(w.todo), key |-> w.key, hour |-> hour,
                               ok |-> TRUE, blob |-> "none"])
    /\ Goes(p, [w EXCEPT !.at = "saved", !.run = Len(dumps) + 1])
    /\ UNCHANGED <<vault, told, quietAt, restores, hour, bounds, upsets, twoKeys>>

\* _store_blob() replaces the file in one step; a failure marks the row FAILED and alerts.
StoreBlob(p) ==
    LET w == worker[p] IN
    /\ Is(p, "saved")
    /\ \/ /\ dumps' = [dumps EXCEPT ![w.run].blob = "whole"] /\ NextUnit(p)
          /\ UNCHANGED <<told, upsets>>
       \/ Upset /\ dumps' = [dumps EXCEPT ![w.run].ok = FALSE] /\ Fails(p)
    /\ UNCHANGED <<vault, quietAt, restores, hour, bounds, twoKeys>>

\* _succeeded_runs() and _has_recent_succeeded_dump(): a row that is recent and has a file.
Succeeded(u) == {i \in DOMAIN dumps : dumps[i].unit = u /\ dumps[i].ok}
HasRecentRow(u) == \E i \in Succeeded(u) : dumps[i].hour >= hour - Nightly
HasRecent(u) == \E i \in Succeeded(u) : dumps[i].hour >= hour - Nightly /\ dumps[i].blob # "none"

\* check_missing_nightly() after the loop.
CheckMissing(p) ==
    /\ Is(p, "check") /\ Goes(p, Up)
    /\ told' = told \cup {u \in Units : ~HasRecent(u)}
    /\ quietAt' = [u \in Units |-> IF HasRecent(u) THEN hour ELSE -1]
    /\ UNCHANGED <<vault, dumps, restores, hour, bounds, upsets, twoKeys>>

\* latest_unsealed_dump(): the blob of a run and the newest key of the site.
Opens(i) == dumps[i].blob = "whole" /\ dumps[i].key = Len(secrets)

\* The drill takes the newest run and records a failure too; BackupRestoreView takes the
\* one the operator names and only answers when it fails.
Restore(p, u, asked) ==
    LET newest == {i \in Succeeded(u) : \A j \in Succeeded(u) : j <= i}
        runs == IF asked = 0 THEN newest ELSE Succeeded(u) \cap {asked}
        file == {i \in runs : dumps[i].blob # "none"}
        got == Unwraps(p, Len(secrets), secrets[Len(secrets)])
    IN
    /\ Is(p, "up") /\ begun < MaxBackups /\ begun' = begun + 1
    /\ restores' = IF file # {} /\ got /\ \A i \in file : Opens(i) THEN "opened"
                   ELSE IF asked = 0 THEN "failed" ELSE restores
    /\ IF file # {} /\ got THEN Remembers(p, Len(secrets), secrets[Len(secrets)])
                           ELSE UNCHANGED cached
    /\ denied' = (denied \/ (file # {} /\ ~got /\ kmsUp))
    /\ UNCHANGED <<keyfile, kekNow, kmsUp, secrets, wraps, worker, dumps, told, quietAt, hour,
                   rewraps, upsets, twoKeys>>
RestoreDrill(p) == Restore(p, UnitOrder[1], 0)
RestoreView(p, u, i) == Restore(p, u, i)

HourPasses ==
    /\ hour < MaxHour /\ hour' = hour + 1
    /\ UNCHANGED <<vault, worker, records, bounds, upsets, twoKeys>>

\* A process is killed; its cache goes with it.
Killed(p) ==
    /\ ~Is(p, "down") /\ Upset
    /\ Goes(p, Down) /\ cached' = [cached EXCEPT ![p] = {}]
    /\ UNCHANGED <<keyfile, kekNow, kmsUp, secrets, wraps, denied, records, hour, begun,
                   rewraps, twoKeys>>

Next ==
    \/ MoveToKms \/ KmsOutage \/ HourPasses
    \/ \E p \in HubProcs :
        \/ Boot(p) \/ CreateKeyfile(p) \/ WriteKeyfile(p) \/ RunNightly(p) \/ Collect(p)
        \/ PutKey(p) \/ Seal(p) \/ SaveRun(p) \/ StoreBlob(p) \/ CheckMissing(p)
        \/ RestoreDrill(p) \/ Killed(p)
        \/ \E u \in Units : TestNow(p, u)
        \/ \E k \in DOMAIN secrets : Rewrap(p, k)
        \/ \E i \in DOMAIN dumps : RestoreView(p, dumps[i].unit, i)

Spec == Init /\ [][Next]_backupVars

-----------------------------------------------------------------------------
Resting == [at : {"down", "mint", "write", "up"}]
VaultRow == [kek : {"local", "kms"}, under : Int, wrap : Nat]
Busy == [at : {"collect", "no_key", "keyed", "sealed", "saved", "check"}, todo : Seq(Units),
         nightly : BOOLEAN, key : Nat, row : VaultRow, run : Nat]
Dump == [unit : Units, key : Nat, hour : Nat, ok : BOOLEAN, blob : {"none", "whole"}]

\* The types of the vault, the processes and the records.
TypeOK ==
    /\ wraps \in Nat /\ keyfile \in -1..wraps /\ kekNow \in {"local", "kms"} /\ kmsUp \in BOOLEAN
    /\ secrets \in Seq(VaultRow) /\ worker \in [HubProcs -> Resting \cup Busy]
    /\ \A p \in HubProcs : worker[p] \in Busy => worker[p].todo # <<>>
    /\ dumps \in Seq(Dump)
    /\ told \subseteq Units /\ quietAt \in [Units -> Int] /\ restores \in {"none", "opened", "failed"}
    /\ hour \in Nat /\ twoKeys \in BOOLEAN /\ denied \in BOOLEAN

\* Who is past its boot found the keyfile written, one process at most writes it, and a row
\* that is wrapped locally, also as a process read it, is wrapped by the key in the file.
KeyfileInv ==
    /\ \A p \in HubProcs :
        /\ ~Is(p, "down") /\ ~Is(p, "mint") /\ ~Is(p, "write") => keyfile > 0
        /\ Is(p, "write") => keyfile = -1 /\ \A q \in HubProcs : Is(q, "write") => q = p
        /\ Is(p, "keyed") /\ worker[p].row.kek = "local" => worker[p].row.under = keyfile
    /\ \A k \in DOMAIN secrets : secrets[k].kek = "local" => secrets[k].under = keyfile /\ keyfile > 0

\* A dump and a process that has a key name a row of the vault; until two first backups
\* race, the one that makes the key is alone and its row is the only one.
OneKey ==
    /\ \A p \in HubProcs : worker[p].at \in {"keyed", "sealed"} => worker[p].key \in DOMAIN secrets
    /\ \A i \in DOMAIN dumps : dumps[i].key \in DOMAIN secrets
    /\ ~twoKeys =>
        /\ Len(secrets) <= 1
        /\ \A p \in HubProcs : Is(p, "no_key") =>
              secrets = <<>> /\ \A q \in HubProcs : Is(q, "no_key") => q = p

\* A process between the row and the blob has a row of its own without a blob.
BlobPending ==
    \A p \in HubProcs : Is(p, "saved") =>
        /\ worker[p].run \in DOMAIN dumps /\ dumps[worker[p].run].blob = "none"
        /\ \A q \in HubProcs : Is(q, "saved") /\ worker[q].run = worker[p].run => q = p

\* A get is refused only while KMS cannot be reached (vault/service.py get, kek.py
\* backend_for_stored_kek_id): not by a move to KMS, a rewrap under a reader's feet, a
\* cold cache or containers that boot together without a keyfile.
GetsOpen == ~denied

\* Unless two first backups race, every stored dump opens with the key a restore
\* takes (provision/backup.py _ensure_backup_key, latest_unsealed_dump).
DumpsOpen == ~twoKeys => \A i \in DOMAIN dumps : dumps[i].blob # "none" => Opens(i)

\* A unit the nightly check passed over has a dump from its window that a restore can
\* open (check_missing_nightly), whoever died between the row and the blob.
QuietMeansRestorable ==
    ~twoKeys => \A u \in Units : quietAt[u] >= 0 =>
        \E i \in Succeeded(u) : dumps[i].hour >= quietAt[u] - Nightly /\ Opens(i)

\* What the code does not give: the newest SUCCEEDED run can be restored.
NewestRestores ==
    \A u \in Units : \A i \in Succeeded(u) :
        (\A j \in Succeeded(u) : j <= i) /\ (\A p \in HubProcs : ~Is(p, "saved")) => Opens(i)
=============================================================================
