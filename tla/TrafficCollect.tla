--------------------------- MODULE TrafficCollect ---------------------------
(***************************************************************************)
(* One target's access log on its way into TrafficStat rows: the tick       *)
(* (monitor/tasks.py collect_all), the script on the host (collect_once.py), *)
(* the cursor of the Target row (collector.py) and the ingest (traffic.py). *)
(* A log line is two units long, so that a pull can meet a line that is     *)
(* still being written.  Beat starts a tick every minute whether or not the *)
(* last one is done; only the collect lock of the target keeps them apart.  *)
(***************************************************************************)
EXTENDS Integers, FiniteSets

CONSTANTS
    Ticks,              \* children that run collect_all
    Chunk, ScanCap,     \* CHUNK and SUMMARY_SCAN_CAP, in units
    MaxUnits, MaxRotations, MaxTicks, MaxHostErrors    \* bounds of the exploration

VARIABLES
    file,       \* the log on the host: inode and size in units
    cursor,     \* collect_log_inode and collect_log_offset of the Target row
    collectLock,\* the OperationLock row (target, pk, collect)
    tick,       \* per child: place, the cursor its queryset read, the chunk it pulled
    counted,    \* requests landed per line <<inode, n>>
    sampledFrom,\* inodes whose rows carry sampled=True for a dropped window
    ticks, hostErrors,
    staleRead   \* history: a pull used a cursor that was no longer the stored one

trafficVars == <<file, cursor, collectLock, tick, counted, sampledFrom, ticks, hostErrors, staleRead>>

Inodes == 1..(MaxRotations + 1)
Lines == Inodes \X (1..(MaxUnits \div 2))
Away == [at |-> "idle"]
Zero == [inode |-> 0, off |-> 0]

Init ==
    /\ file = [inode |-> 1, size |-> 0] /\ cursor = Zero /\ collectLock = FALSE
    /\ tick = [w \in Ticks |-> Away] /\ counted = [l \in Lines |-> 0] /\ sampledFrom = {}
    /\ ticks = 0 /\ hostErrors = 0 /\ staleRead = FALSE

\* The site writes half a line; Caddy rolls the file.
WriteLog ==
    /\ file.size < MaxUnits /\ file' = [file EXCEPT !.size = @ + 1]
    /\ UNCHANGED <<cursor, collectLock, tick, counted, sampledFrom, ticks, hostErrors, staleRead>>
Rotate ==
    /\ file.inode <= MaxRotations /\ file.size > 0 /\ file' = [inode |-> file.inode + 1, size |-> 0]
    /\ UNCHANGED <<cursor, collectLock, tick, counted, sampledFrom, ticks, hostErrors, staleRead>>

\* _summarize(): whole lines up to the scan cap; the offset stops after the last of them.
SummaryEnd(start) ==
    LET ends == {n \in start..file.size : n % 2 = 0 /\ n - 2 - start < ScanCap}
    IN IF ends = {} THEN start ELSE CHOOSE n \in ends : \A m \in ends : m <= n

EchoZero(c) == [inode |-> c.inode, from |-> 0, to |-> 0, rotated |-> FALSE, sampled |-> FALSE]
\* A stat or an open that fails echoes the caller's cursor.
EchoCursor(c) == [inode |-> c.inode, from |-> c.off, to |-> c.off, rotated |-> FALSE, sampled |-> FALSE]

\* _log_chunk(): from the cursor, or from the start of a file that is new or was
\* truncated; raw to the end of the file, or a summary when more than a chunk is pending.
LogChunk(c) ==
    LET rotated == c.inode # 0 /\ file.inode # c.inode
        start == IF rotated \/ c.off > file.size THEN 0 ELSE c.off
        raw == file.size - start <= Chunk
    IN [inode |-> file.inode, from |-> start, to |-> IF raw THEN file.size ELSE SummaryEnd(start),
        rotated |-> rotated, sampled |-> ~raw]

\* collect_all(): the queryset is read once, at the start of the tick.
ListTargets(w) ==
    /\ ticks < MaxTicks /\ ticks' = ticks + 1 /\ tick[w].at = "idle"
    /\ tick' = [tick EXCEPT ![w] = [at |-> "listed", row |-> cursor]]
    /\ UNCHANGED <<file, cursor, collectLock, counted, sampledFrom, hostErrors, staleRead>>

\* locks.acquire(): a target that is locked is left to the other tick.
LockTarget(w) ==
    /\ tick[w].at = "listed"
    /\ IF collectLock THEN tick' = [tick EXCEPT ![w] = Away] /\ UNCHANGED collectLock
       ELSE tick' = [tick EXCEPT ![w].at = "locked"] /\ collectLock' = TRUE
    /\ UNCHANGED <<file, cursor, counted, sampledFrom, ticks, hostErrors, staleRead>>

\* collect(), _persist_collect(): run the script with the cursor of the row this tick read
\* and save the cursor it answers.
Collect(w, hostOk) ==
    /\ tick[w].at = "locked" /\ (hostOk \/ hostErrors < MaxHostErrors)
    /\ LET chunk == IF hostOk THEN LogChunk(tick[w].row) ELSE EchoCursor(tick[w].row)
       IN /\ tick' = [tick EXCEPT ![w] = [at |-> "pulled", chunk |-> chunk]]
          /\ cursor' = [inode |-> chunk.inode, off |-> chunk.to]
    /\ hostErrors' = IF hostOk THEN hostErrors ELSE hostErrors + 1
    /\ staleRead' = (staleRead \/ tick[w].row # cursor)
    /\ UNCHANGED <<file, collectLock, counted, sampledFrom, ticks>>

\* The lines of a chunk that are whole: _from_lines() counts the pieces as malformed.
Whole(chunk) == {n \in 1..(MaxUnits \div 2) : chunk.from < 2 * n - 1 /\ 2 * n <= chunk.to}

\* ingest(), _land(): accumulate.  The dedup cursor in collect_payload was overwritten by
\* the collect of this tick, so every window lands.  The finally releases the lock.
Ingest(w) ==
    /\ tick[w].at = "pulled"
    /\ LET chunk == tick[w].chunk
       IN /\ counted' = [l \in Lines |-> IF l[1] = chunk.inode /\ l[2] \in Whole(chunk)
                                         THEN counted[l] + 1 ELSE counted[l]]
          /\ sampledFrom' = IF chunk.rotated \/ chunk.sampled THEN sampledFrom \cup {chunk.inode} ELSE sampledFrom
    /\ tick' = [tick EXCEPT ![w] = Away] /\ collectLock' = FALSE
    /\ UNCHANGED <<file, cursor, ticks, hostErrors, staleRead>>

\* The script, the transport or the ingest raises: collector-failed, and the lock goes.
CollectFails(w) ==
    /\ tick[w].at \in {"locked", "pulled"} /\ hostErrors < MaxHostErrors /\ hostErrors' = hostErrors + 1
    /\ tick' = [tick EXCEPT ![w] = Away] /\ collectLock' = FALSE
    /\ UNCHANGED <<file, cursor, counted, sampledFrom, ticks, staleRead>>

\* The child is killed: the lock stays, and no tick takes it over.
KillTick(w) ==
    /\ tick[w].at \in {"locked", "pulled"} /\ hostErrors < MaxHostErrors /\ hostErrors' = hostErrors + 1
    /\ tick' = [tick EXCEPT ![w] = Away]
    /\ UNCHANGED <<file, cursor, collectLock, counted, sampledFrom, ticks, staleRead>>

Next ==
    \/ WriteLog \/ Rotate
    \/ \E w \in Ticks : \/ ListTargets(w) \/ LockTarget(w) \/ Ingest(w) \/ CollectFails(w) \/ KillTick(w)
                        \/ \E ok \in BOOLEAN : Collect(w, ok)

Spec == Init /\ [][Next]_trafficVars

---------------------------------------------------------------------------
(* Properties *)

Cursors == [inode : 0..(MaxRotations + 1), off : 0..MaxUnits]
Chunks == [inode : 0..(MaxRotations + 1), from : 0..MaxUnits, to : 0..MaxUnits, rotated : BOOLEAN, sampled : BOOLEAN]
\* The cursor stays within the log, the ticks within their places.
TypeOK ==
    /\ file \in [inode : Inodes, size : 0..MaxUnits] /\ cursor \in Cursors
    /\ tick \in [Ticks -> {Away} \cup [at : {"listed", "locked"}, row : Cursors] \cup [at : {"pulled"}, chunk : Chunks]]
    /\ counted \in [Lines -> Nat] /\ sampledFrom \subseteq 0..(MaxRotations + 1)
    /\ staleRead \in BOOLEAN /\ collectLock \in BOOLEAN

\* No request is counted twice, through rotations, failed pulls, killed children and
\* host errors, as long as no tick pulls with a cursor another tick has moved meanwhile.
CountedOnce == ~staleRead => \A l \in Lines : counted[l] <= 1

\* Why: the lock admits one pull at a time, and what was counted lies before the stored
\* cursor, or before the window that was pulled and has not landed yet.
OnePull ==
    /\ \A w \in Ticks : tick[w].at \in {"locked", "pulled"} => collectLock
    /\ \A v, w \in Ticks : tick[v].at \in {"locked", "pulled"} /\ tick[w].at \in {"locked", "pulled"} => v = w
Behind(l, inode, off) == l[1] < inode \/ (l[1] = inode /\ 2 * l[2] <= off)
CursorCovers ==
    ~staleRead =>
        /\ cursor.inode <= file.inode /\ (cursor.inode = file.inode => cursor.off <= file.size)
        /\ \A l \in Lines : counted[l] <= 1 /\ (counted[l] > 0 => Behind(l, cursor.inode, cursor.off))
        /\ \A w \in Ticks : tick[w].at = "pulled" =>
              /\ tick[w].chunk.inode = cursor.inode /\ tick[w].chunk.to = cursor.off
              /\ \A l \in Lines : counted[l] > 0 => Behind(l, cursor.inode, tick[w].chunk.from)

\* "Re-ingesting the same (inode, offset) window is a no-op"
ReingestIsNoop == \A l \in Lines : counted[l] <= 1
=============================================================================
