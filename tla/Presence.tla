------------------------------ MODULE Presence ------------------------------
(***************************************************************************)
(* Heartbeats of one daemon to the peers that may see it                   *)
(* (internal/presence).  The tick loop and a change of mode or team run on *)
(* threads of their own; each computes the visible set and sends one       *)
(* heartbeat at a time while it holds sendMu.  The relay drops what it     *)
(* cannot hand over, and nothing orders what it does.                      *)
(***************************************************************************)
EXTENDS Integers, FiniteSets, TLC

CONSTANTS
    Viewers,    \* the peers
    TeamOf,     \* the teams of this daemon, each a set of viewers
    Changes,    \* bound on changes of mode and team
    Beats       \* bound on ticks, restarts and lost heartbeats together

VARIABLES
    mode,       \* the visibility mode, and the team of only_team
    saved,      \* the mode in the settings
    activeIn,   \* the teams active here
    visible,    \* the visible set of the last SyncVisibility
    boot, seqs, \* this start's boot id and the last seq for each peer
    thread,     \* what the tick loop and the caller of a change are doing
    sendMu,     \* the thread holding sendMu
    air,        \* heartbeats under way
    seen,       \* the presence row each viewer holds
    changes, beats, missed, \* operations, faults and heartbeats lost so far
    told        \* the peers whose last goodbye still holds

presenceVars == <<mode, saved, activeIn, visible, boot, seqs, thread, sendMu, air, seen, changes, beats, missed, told>>

Threads == {"tick", "change", "team", "shutdown"}
Idle == [pc |-> "idle", todo |-> {}]
Plain(m) == [mode |-> m, team |-> ""]
Modes == {Plain("visible"), Plain("invisible")} \union [mode : {"only_team"}, team : DOMAIN TeamOf]

-----------------------------------------------------------------------------
(* Sending                                                                 *)

\* checkTeamGone: only_team of a team that is no longer active is invisible.
teamGone(m, act) == m.mode = "only_team" /\ m.team \notin act
checkTeamGone(m, act) == IF teamGone(m, act) THEN Plain("invisible") ELSE m

\* visibleSet, without the degradation of the mode.
visibleIn(m, act) ==
    CASE m.mode = "invisible" -> {}
      [] m.mode = "visible" -> UNION {TeamOf[t] : t \in act}
      [] OTHER -> TeamOf[m.team]
visibleSet == visibleIn(checkTeamGone(mode, activeIn), activeIn)

\* A goodbye holds until the peer may see the daemon again.
stillTold(m, act, s) == s \ visibleIn(checkTeamGone(m, act), act)

\* Accept: a later seq of the same boot, or a boot that is not older.
accepts(row, hb) == IF row.boot = hb.boot THEN hb.seq > row.seq ELSE hb.boot >= row.boot

Accept(row, hb) == IF accepts(row, hb) THEN [state |-> hb.state, boot |-> hb.boot, seq |-> hb.seq] ELSE row

\* sendOne: the seq is the peer's next one.
heartbeat(p, state) == [to |-> p, state |-> state, boot |-> boot, seq |-> seqs[p] + 1]

\* A sender without the mutex.
BugNoSendMu(t) == thread[t].pc # "sending"
\* sendAll, SyncVisibility and Goodbye wait for sendMu.
locks(t) == sendMu = "none"

Become(t, pc, todo) == thread' = [thread EXCEPT ![t] = [pc |-> pc, todo |-> todo]]

\* sendAll: the tick, an agent edge and the relay-ready hook.
StartTick ==
    /\ thread["tick"].pc = "idle" /\ thread["shutdown"].pc = "idle"
    /\ beats < Beats /\ beats' = beats + 1
    /\ Become("tick", "sendAll", {})
    /\ UNCHANGED <<mode, saved, activeIn, visible, boot, seqs, sendMu, air, seen, changes, missed, told>>

SendAll ==
    LET to == visibleSet IN
    /\ thread["tick"].pc = "sendAll" /\ locks("tick")
    /\ sendMu' = "tick"
    /\ mode' = checkTeamGone(mode, activeIn) /\ saved' = checkTeamGone(mode, activeIn)
    /\ Become("tick", "sending", {<<p, "online">> : p \in to})
    /\ UNCHANGED <<activeIn, visible, boot, seqs, air, seen, changes, beats, missed, told>>

\* SyncVisibility: heartbeats to the peers that came, goodbyes to those that left.
syncTodo(to) == {<<p, "online">> : p \in to \ visible} \union {<<p, "offline">> : p \in visible \ to}

SyncVisibility(t) ==
    LET to == visibleSet IN
    /\ thread[t].pc = "sync" /\ locks(t)
    /\ sendMu' = t
    /\ mode' = checkTeamGone(mode, activeIn) /\ saved' = checkTeamGone(mode, activeIn)
    /\ visible' = to
    /\ Become(t, "sending", syncTodo(to))
    /\ UNCHANGED <<activeIn, boot, seqs, air, seen, changes, beats, missed, told>>

\* sendOne, and the unlock after the last one.
SendOne(t) ==
    /\ thread[t].pc = "sending"
    /\ IF thread[t].todo = {}
       THEN /\ Become(t, IF t = "shutdown" THEN "down" ELSE "idle", {})
            /\ sendMu' = "none"
            /\ UNCHANGED <<air, seqs, told>>
       ELSE \E x \in thread[t].todo :
            /\ air' = air \union {heartbeat(x[1], x[2])}
            /\ seqs' = [seqs EXCEPT ![x[1]] = @ + 1]
            /\ told' = IF x[2] = "offline" /\ x[1] \notin visibleSet THEN told \union {x[1]} ELSE told
            /\ Become(t, "sending", thread[t].todo \ {x})
            /\ UNCHANGED sendMu
    /\ UNCHANGED <<mode, saved, activeIn, visible, boot, seen, changes, beats, missed>>

\* SetMode: the settings, then the cache, then SyncVisibility.
SetMode ==
    /\ changes < Changes /\ thread["change"].pc = "idle" /\ thread["shutdown"].pc = "idle"
    /\ changes' = changes + 1
    /\ \E m \in Modes \ {mode} :
         /\ ~teamGone(m, activeIn)
         /\ mode' = m /\ saved' = m
         /\ told' = stillTold(m, activeIn, told)
    /\ Become("change", "sync", {})
    /\ UNCHANGED <<activeIn, visible, boot, seqs, sendMu, air, seen, beats, missed>>

\* OnMembersChanged: a team becomes active here or stops being so, and a goroutine of
\* its own runs SyncVisibility.
TeamChanged ==
    /\ changes < Changes /\ thread["team"].pc = "idle" /\ thread["shutdown"].pc = "idle"
    /\ changes' = changes + 1
    /\ \E t \in DOMAIN TeamOf :
         /\ activeIn' = (activeIn \ {t}) \union ({t} \ activeIn)
         /\ told' = stillTold(mode, activeIn', told)
    /\ Become("team", "sync", {})
    /\ UNCHANGED <<mode, saved, visible, boot, seqs, sendMu, air, seen, beats, missed>>

\* Goodbye: offline to the visible set, on shutdown.
Goodbye ==
    /\ beats < Beats /\ beats' = beats + 1
    /\ thread["shutdown"].pc = "idle" /\ locks("shutdown")
    /\ sendMu' = "shutdown"
    /\ Become("shutdown", "sending", {<<p, "offline">> : p \in visible})
    /\ UNCHANGED <<mode, saved, activeIn, visible, boot, seqs, air, seen, changes, missed, told>>

\* Run after a start: LoadSettings, a new boot id, and the first SyncVisibility.
RunSender ==
    /\ thread["shutdown"].pc = "down"
    /\ mode' = saved /\ visible' = {} /\ boot' = boot + 1
    /\ seqs' = [p \in Viewers |-> 0]
    /\ sendMu' = "none"
    /\ thread' = [t \in Threads |-> IF t = "change" THEN [pc |-> "sync", todo |-> {}] ELSE Idle]
    /\ told' = stillTold(saved, activeIn, told)
    /\ UNCHANGED <<saved, activeIn, air, seen, changes, beats, missed>>

-----------------------------------------------------------------------------
(* The relay and the viewers                                               *)

\* routeEphemeral drops what it cannot hand over.
DropHeartbeat ==
    \E hb \in air :
        /\ beats < Beats /\ beats' = beats + 1
        /\ air' = air \ {hb} /\ missed' = missed \union {hb.to}
        /\ UNCHANGED <<mode, saved, activeIn, visible, boot, seqs, thread, sendMu, seen, changes, told>>

\* Handle and Accept.
ReceiveHeartbeat ==
    \E hb \in air :
        /\ air' = air \ {hb}
        /\ seen' = [seen EXCEPT ![hb.to] = Accept(@, hb)]
        /\ UNCHANGED <<mode, saved, activeIn, visible, boot, seqs, thread, sendMu, changes, beats, missed, told>>

PresenceInit ==
    /\ mode = Plain("visible") /\ saved = Plain("visible")
    /\ activeIn \in SUBSET DOMAIN TeamOf
    /\ visible = {} /\ boot = 1 /\ seqs = [p \in Viewers |-> 0]
    /\ thread = [t \in Threads |-> IF t = "change" THEN [pc |-> "sync", todo |-> {}] ELSE Idle]
    /\ sendMu = "none" /\ air = {} /\ missed = {} /\ told = {} /\ changes = 0 /\ beats = 0
    /\ seen = [p \in Viewers |-> [state |-> "offline", boot |-> 0, seq |-> 0]]

PresenceNext ==
    \/ StartTick \/ SendAll \/ SetMode \/ TeamChanged \/ Goodbye \/ RunSender
    \/ DropHeartbeat \/ ReceiveHeartbeat
    \/ \E t \in Threads : SyncVisibility(t) \/ SendOne(t)

-----------------------------------------------------------------------------
\* A goodbye stands: once a peer was told goodbye because it may no longer see
\* this daemon, no tick that began earlier brings the daemon back online there,
\* whatever the order of arrival and across a restart (sendMu, Sender.nextSeq,
\* Store.Accept).  Only peers that lost a heartbeat are excepted.
GoodbyeStands ==
    \A p \in told \ missed :
        (\A hb \in air : hb.to # p) => seen[p].state = "offline"
=============================================================================
