----------------------------- MODULE DebateGate -----------------------------
(***************************************************************************)
(* The grace after downtime (internal/daemon/debate_gate.go): a debate     *)
(* times out only once the relay connection has been up for a while since  *)
(* it was made and since the machine last woke.  Two clocks run: the wall  *)
(* clock, and the monotonic one that stands still during a suspend.        *)
(***************************************************************************)
EXTENDS Integers

CONSTANTS Grace, Gap, Interval, Horizon  \* debateTimeoutGrace, debateResumeGap, debateSweepInterval; a bound
ASSUME GateAssumption == 0 < Interval /\ Interval <= Gap /\ Gap < Grace /\ Grace < Horizon

VARIABLES
    mono, wall,  \* the clocks
    gate,        \* [resumeAt, lastTick, lastSeen, sweeping, client]; -1 is the zero time
    ticked,      \* the monotonic time of the last tick's end: the ticker's phase
    conn,        \* [up, since, redial]: the relay client's State, and a forced re-dial under way
    noRelay,
    woke,        \* when the machine last woke from a suspend longer than Gap, between two sweeps
    ready        \* Ready just said that timeouts may be applied
gateVars == <<mono, wall, gate, ticked, conn, noRelay, woke, ready>>

GateInit ==
    /\ mono = 0 /\ wall = 0 /\ ticked = 0 /\ woke = -1
    /\ gate = [resumeAt |-> -1, lastTick |-> -1, lastSeen |-> -1, sweeping |-> FALSE, client |-> FALSE]
    /\ conn = [up |-> FALSE, since |-> 0, redial |-> FALSE]
    /\ noRelay \in BOOLEAN
    /\ ready = FALSE

\* setClient: the client is made after the sweep starts.
setClient ==
    /\ ~noRelay /\ ~gate.client /\ gate' = [gate EXCEPT !.client = TRUE]
    /\ UNCHANGED <<mono, wall, ticked, conn, noRelay, woke, ready>>

\* checkResumeLocked: the gap since the last tick, or inside a sweep since the last
\* look.
ref == IF gate.sweeping THEN gate.lastSeen ELSE gate.lastTick
resumed == ref # -1 /\ wall - ref > Gap
checkResumeLocked ==
    LET seen == IF gate.sweeping THEN [gate EXCEPT !.lastSeen = wall] ELSE gate
    IN  IF resumed THEN [seen EXCEPT !.resumeAt = mono, !.lastTick = wall] ELSE seen

\* reconnect: the re-dial runs on its own, after the lock is released.
reconnect == conn' = [conn EXCEPT !.redial = @ \/ (resumed /\ gate.client)]

\* readyLocked.
BugTrustsSince == conn.since
from == IF gate.resumeAt > conn.since THEN gate.resumeAt ELSE conn.since
readyLocked ==
    CASE noRelay -> TRUE
      [] ~noRelay /\ (resumed \/ ~gate.client \/ ~conn.up) -> FALSE
      [] OTHER -> mono - from >= Grace

\* Ready: from the sweep, or from a debate IPC call at any time.
Ready ==
    /\ ready' = readyLocked
    /\ gate' = checkResumeLocked /\ reconnect
    /\ UNCHANGED <<mono, wall, ticked, noRelay, woke>>

\* tick: the resume test, the sweep, and at its end the tick's time.
tickStart ==
    /\ ~gate.sweeping
    /\ gate' = [checkResumeLocked EXCEPT !.sweeping = TRUE, !.lastSeen = wall]
    /\ reconnect
    /\ UNCHANGED <<mono, wall, ticked, noRelay, woke, ready>>
tickEnd ==
    /\ gate.sweeping /\ gate' = [gate EXCEPT !.sweeping = FALSE, !.lastTick = wall]
    /\ ticked' = mono
    /\ UNCHANGED <<mono, wall, conn, noRelay, woke, ready>>

\* The relay client (external): it connects, loses its connection, follows a re-dial.
Dial ==
    /\ gate.client /\ (~conn.up \/ conn.redial)
    /\ conn' = [up |-> TRUE, since |-> mono, redial |-> FALSE]
    /\ UNCHANGED <<mono, wall, gate, ticked, noRelay, woke, ready>>
Drop ==
    /\ conn.up /\ conn' = [conn EXCEPT !.up = FALSE]
    /\ UNCHANGED <<mono, wall, gate, ticked, noRelay, woke, ready>>

\* Time: both clocks run (the ticker fires every Interval); the machine sleeps.
Pass ==
    /\ wall < Horizon /\ (gate.sweeping \/ mono < ticked + Interval)
    /\ mono' = mono + 1 /\ wall' = wall + 1
    /\ ready' = FALSE /\ UNCHANGED <<gate, ticked, conn, noRelay, woke>>
Sleep ==
    /\ wall + Gap < Horizon /\ wall' = wall + Gap + 1
    /\ woke' = IF gate.sweeping \/ gate.lastTick = -1 THEN woke ELSE mono
    /\ ready' = FALSE /\ UNCHANGED <<mono, gate, ticked, conn, noRelay>>

GateNext == setClient \/ Ready \/ tickStart \/ tickEnd \/ Dial \/ Drop \/ Pass \/ Sleep

\* A timeout is applied only when B's mail had Grace to arrive: the connection is
\* up that long, and the machine has been awake that long since it last slept, even
\* if a user's call looks before the ticker does.  (A suspend before the first
\* tick, or inside a sweep that does not look again, goes unnoticed.)
GraceAfterWake ==
    ready /\ ~noRelay => mono >= Grace /\ (woke # -1 => mono - woke >= Grace)
=============================================================================
