---------------------------- MODULE SshRotation ----------------------------
(***************************************************************************)
(* One SSH target's login key (provision/ssh_rotate.py): the key the row    *)
(* names, the private keys in the vault (vault/service.py) and the public    *)
(* keys in authorized_keys on the host.  The quarterly beat sweep            *)
(* (rotate_all) and the operator's T1 request (SshRotateView) run the same   *)
(* code and no lock keeps them apart; a run may die between any two steps,   *)
(* and a put (core/ssh.py) writes the remote file in place.                  *)
(* Keys are numbered in the order they are made, so a larger key is newer.   *)
(***************************************************************************)
EXTENDS Integers, FiniteSets

CONSTANTS
    Rotators,           \* workers that may run rotate_ssh for this target
    MaxHubKeys, MaxRotations, MaxHostFaults, MaxDeaths, MaxTornPuts   \* bounds of the exploration

VARIABLES
    keyRef,     \* Target.ssh_key_ref
    keyVault,   \* the Secret rows of kind SSH_PRIVATE_KEY of this target
    authKeys,   \* the hub's lines of authorized_keys on the host
    agedKeys,   \* keys made a quarter ago or more
    rotation,   \* per worker: place, force, and rotate_ssh's locals ref, text, current, new
    keysMade, rotations, hostFaults, deaths, tornPuts,
    together  \* history: two runs were under way at once

rotationVars == <<keyRef, keyVault, authKeys, agedKeys, rotation, keysMade, rotations,
                  hostFaults, deaths, tornPuts, together>>
budget == <<keysMade, rotations, deaths, tornPuts, together>>

HubKeys == 1..MaxHubKeys
NotRotating == [at |-> "idle"]
Done(w) == rotation' = [rotation EXCEPT ![w] = NotRotating]
At(w, place) == rotation[w].at = place
To(w, r) == rotation' = [rotation EXCEPT ![w] = r]

Init ==
    /\ keyRef = 1 /\ keyVault = {1} /\ authKeys = {1} /\ agedKeys = {}
    /\ rotation = [w \in Rotators |-> NotRotating]
    /\ keysMade = 1 /\ rotations = 0 /\ hostFaults = 0 /\ deaths = 0 /\ tornPuts = 0
    /\ together = FALSE

\* Ninety days go by.
QuarterPasses ==
    /\ agedKeys # keyVault /\ agedKeys' = keyVault
    /\ UNCHANGED <<keyRef, keyVault, authKeys, rotation, hostFaults, budget>>

\* rotate_ssh() begins: the row was read once, by the caller.
StartRotation(w, force) ==
    /\ At(w, "idle") /\ rotations < MaxRotations
    /\ rotations' = rotations + 1
    /\ To(w, [at |-> "inspect", force |-> force, ref |-> keyRef, text |-> {},
              current |-> keyRef, new |-> keyRef])
    /\ together' = (together \/ \E v \in Rotators \ {w} : ~At(v, "idle"))
    /\ UNCHANGED <<keyRef, keyVault, authKeys, agedKeys, keysMade, hostFaults, deaths, tornPuts>>

\* rotate_all of the quarterly beat; SshRotateView, which forces.
Sweep(w) == StartRotation(w, FALSE)
Request(w) == StartRotation(w, TRUE)

\* A login as key k: the private key must be in the vault and its line on the host.
Opens(k) == k \in keyVault /\ k \in authKeys

\* _incomplete(): the host fails a step of the run, which ends with an alert.
HostFails(w) == hostFaults < MaxHostFaults /\ hostFaults' = hostFaults + 1 /\ Done(w)

\* _inspect() over the connection opened with the row's key.  A refused login raises.
Inspect(w) ==
    LET r == rotation[w] IN
    /\ At(w, "inspect")
    /\ \/ /\ Opens(r.ref) /\ To(w, [r EXCEPT !.at = "choose", !.text = authKeys])
          /\ UNCHANGED hostFaults
       \/ ~Opens(r.ref) /\ Done(w) /\ UNCHANGED hostFaults
       \/ Opens(r.ref) /\ HostFails(w)
    /\ UNCHANGED <<keyRef, keyVault, authKeys, agedKeys, budget>>

\* _current_secret() and _pending_secrets(): keys newer than the current one.
Current(r) == keyVault \cap {r.ref}
Pending(r) == {k \in keyVault \ {r.ref} : Current(r) # {} => k > r.ref}
IsYoung(r) == Current(r) # {} /\ r.ref \notin agedKeys

\* _store_new(): a fresh key is vaulted under a name of its own.
StoreNew ==
    /\ keysMade < MaxHubKeys /\ keysMade' = keysMade + 1 /\ keyVault' = keyVault \cup {keysMade + 1}

\* The young current key is left alone (an extra hub line is a stale-key alert);
\* an interrupted rotation resumes with its key; otherwise a key is generated and vaulted.
Choose(w) ==
    LET r == rotation[w]
        chosen(k) == [r EXCEPT !.at = "append", !.new = k,
                               !.current = IF Current(r) # {} THEN r.ref ELSE 0]
    IN  /\ At(w, "choose")
        /\ \/ /\ IsYoung(r) /\ ~r.force /\ Pending(r) = {} /\ Done(w)
              /\ UNCHANGED <<keyVault, keysMade>>
           \/ /\ \E k \in Pending(r) : (\A j \in Pending(r) : j <= k) /\ To(w, chosen(k))
              /\ UNCHANGED <<keyVault, keysMade>>
           \/ /\ Pending(r) = {} /\ ~(IsYoung(r) /\ ~r.force)
              /\ StoreNew /\ To(w, chosen(keysMade + 1))
        /\ UNCHANGED <<keyRef, authKeys, agedKeys, rotations, hostFaults, deaths, tornPuts, together>>

AppendForgets(w) ==
    LET r == rotation[w] IN
    /\ At(w, "append") /\ authKeys' = r.text \cup {r.new} /\ To(w, [r EXCEPT !.at = "try"])
    /\ UNCHANGED <<keyRef, keyVault, agedKeys, hostFaults, budget>>
\* _append_line() to the text read before, then the whole file is put.
Append(w) ==
    LET r == rotation[w] IN
    /\ At(w, "append")
    /\ authKeys' = IF r.new \in r.text THEN authKeys ELSE r.text \cup {r.new}
    /\ To(w, [r EXCEPT !.at = "try", !.text = @ \cup {r.new}])
    /\ UNCHANGED <<keyRef, keyVault, agedKeys, hostFaults, budget>>

\* _login() with the new key, on a connection of its own.
TryNew(w) ==
    LET r == rotation[w] IN
    /\ At(w, "try")
    /\ \/ Opens(r.new) /\ To(w, [r EXCEPT !.at = "drop"]) /\ UNCHANGED hostFaults
       \/ ~Opens(r.new) /\ Done(w) /\ UNCHANGED hostFaults
       \/ Opens(r.new) /\ HostFails(w)
    /\ UNCHANGED <<keyRef, keyVault, authKeys, agedKeys, budget>>

\* _drop_blob(): the old line goes, if the text this run knows has it.  The old key's
\* blob is derived from its private key, so a row deleted meanwhile still decrypts here.
Drop(w) ==
    LET r == rotation[w] IN
    /\ At(w, "drop")
    /\ authKeys' = IF r.current \in r.text THEN r.text \ {r.current} ELSE authKeys
    /\ To(w, [r EXCEPT !.at = "point", !.text = @ \ {r.current}])
    /\ UNCHANGED <<keyRef, keyVault, agedKeys, hostFaults, budget>>

\* target.save(update_fields=["ssh_key_ref"]), unless the copy in hand already names the key.
Point(w) ==
    LET r == rotation[w] IN
    /\ At(w, "point")
    /\ keyRef' = IF r.ref # r.new THEN r.new ELSE keyRef
    /\ To(w, [r EXCEPT !.at = "probe", !.ref = r.new])
    /\ UNCHANGED <<keyVault, authKeys, agedKeys, hostFaults, budget>>

\* The old key is tried and the file read again over the first connection.  An old line
\* that is still there is a stale-key alert, and the old private key is kept.
ProbeOld(w) ==
    LET r == rotation[w] IN
    /\ At(w, "probe")
    /\ \/ /\ To(w, [r EXCEPT !.at = "again", !.current = IF r.current \in authKeys THEN 0 ELSE @])
          /\ UNCHANGED hostFaults
       \/ r.current # 0 /\ HostFails(w)
    /\ UNCHANGED <<keyRef, keyVault, authKeys, agedKeys, budget>>

\* The new key once more, now that the old line is gone.
TryAgain(w) ==
    LET r == rotation[w] IN
    /\ At(w, "again")
    /\ \/ Opens(r.new) /\ To(w, [r EXCEPT !.at = "revoke"]) /\ UNCHANGED hostFaults
       \/ ~Opens(r.new) /\ Done(w) /\ UNCHANGED hostFaults
       \/ Opens(r.new) /\ HostFails(w)
    /\ UNCHANGED <<keyRef, keyVault, authKeys, agedKeys, budget>>

\* _revoke(): the old Secret row is deleted.
Revoke(w) ==
    LET r == rotation[w] IN
    /\ At(w, "revoke") /\ keyVault' = keyVault \ {r.current} /\ Done(w)
    /\ UNCHANGED <<keyRef, authKeys, agedKeys, hostFaults, budget>>

\* The worker is killed, or the transport or the vault raises: nothing is undone.
Die(w) ==
    /\ ~At(w, "idle") /\ deaths < MaxDeaths /\ deaths' = deaths + 1 /\ Done(w)
    /\ UNCHANGED <<keyRef, keyVault, authKeys, agedKeys, keysMade, rotations, hostFaults, tornPuts, together>>

\* SshTransport.put opens the remote file for writing: cut off, it leaves a part of the lines.
TornPut(w) ==
    LET r == rotation[w] IN
    /\ \/ At(w, "append") /\ r.new \notin r.text
       \/ At(w, "drop") /\ r.current \in r.text
    /\ tornPuts < MaxTornPuts /\ tornPuts' = tornPuts + 1
    /\ authKeys' \in SUBSET (IF At(w, "append") THEN r.text ELSE r.text \ {r.current})
    /\ Done(w)
    /\ UNCHANGED <<keyRef, keyVault, agedKeys, keysMade, rotations, hostFaults, deaths, together>>

Next ==
    \/ QuarterPasses
    \/ \E w \in Rotators :
          \/ Sweep(w) \/ Request(w)
          \/ Inspect(w) \/ Choose(w) \/ Append(w) \/ TryNew(w) \/ Drop(w) \/ Point(w)
          \/ ProbeOld(w) \/ TryAgain(w) \/ Revoke(w) \/ Die(w) \/ TornPut(w)

Spec == Init /\ [][Next]_rotationVars

Places == {"inspect", "choose", "append", "try", "drop", "point", "probe", "again", "revoke"}
Run == [at : Places, force : BOOLEAN, ref : HubKeys, text : SUBSET HubKeys,
        current : {0} \cup HubKeys, new : HubKeys]
TypeOK ==
    /\ keyRef \in HubKeys /\ keyVault \subseteq HubKeys /\ authKeys \subseteq HubKeys
    /\ rotation \in [Rotators -> {NotRotating} \cup Run]

Idle == \A w \in Rotators : At(w, "idle")

\* ssh_rotate.py:1-8 and 296-300: a run that is alone never leaves the host without a
\* working key, whichever step it dies at: some private key in the vault opens the host.
SomeKeyOpens == ~together /\ tornPuts = 0 => \E k \in keyVault : Opens(k)

\* ssh_rotate.py:287-311: a private key is revoked only once its line is known to be gone,
\* so no line on the host outlives its key, whatever dies or is torn, in a run that is alone.
NoOrphanLine == ~together => authKeys \subseteq keyVault

\* Why: a run that is alone knows the file it writes until it has pointed the row at the
\* new key, and by then the new line is on the host and the old one is not.
Alone(w) ==
    LET r == rotation[w] IN
    /\ r.at \in {"choose", "append", "try", "drop"} => r.text = authKeys /\ Opens(r.ref)
    /\ r.at \in {"append", "try", "drop"} => r.current = r.ref
    /\ r.at \in Places \ {"inspect", "choose"} => r.new \in keyVault /\ r.new # r.current
    /\ r.at \in Places \ {"inspect", "choose", "append"} => r.new \in authKeys
    /\ r.at \in {"point", "probe", "again", "revoke"} => r.current \notin authKeys
Counted ==
    /\ keysMade \in 1..MaxHubKeys /\ tornPuts \in Nat /\ together \in BOOLEAN
    /\ keyVault \subseteq 1..keysMade
AloneInv ==
    ~together =>
        /\ \A v, w \in Rotators : ~At(v, "idle") /\ ~At(w, "idle") => v = w
        /\ \A w \in Rotators : Alone(w)

\* ssh_rotate.py:151-155: whatever a rotation was stopped by, the key the row names is
\* still the login path.
HostNotLockedOut == Idle => Opens(keyRef)
=============================================================================
