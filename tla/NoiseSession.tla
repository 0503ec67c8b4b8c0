---------------------------- MODULE NoiseSession ----------------------------
(***************************************************************************)
(* Encrypted sessions between two paired daemons (internal/session): the   *)
(* handshake of session.init, session.resp and session.fin, the data that  *)
(* waits for it, and pings.  Both may dial at once.  The relay may lose,   *)
(* repeat and reorder envelopes, and may report one it could not hand      *)
(* over; daemons restart and turn peers away.                              *)
(*                                                                         *)
(* What a Noise message proves is its origin: a handshake step carries the *)
(* number of the responder's handshake it belongs to.                      *)
(***************************************************************************)
EXTENDS Integers, Sequences, FiniteSets, TLC

CONSTANTS
    Ends,               \* the two daemons
    Calls,              \* the instances: who makes each ping, which troubles, how many
    maxOpenPerPeer, maxPendingPerPeer, maxQueuePerPeer

VARIABLES
    call,     \* the instance of this behaviour
    tbl,      \* sessions of each daemon, by sid
    current,  \* the sid to send on, if any
    dialing,  \* the sid of the pending handshake this daemon began, if any
    queue,    \* plaintexts waiting for a handshake
    pings,    \* what is known of each ping
    wire,     \* envelopes under way
    gate,     \* the daemons that turn their peer away
    fresh,    \* next sid, handshake number and age
    taken,    \* data handled: how often each <<daemon, sid, counter>>
    trouble   \* troubles so far

sessVars == <<call, tbl, current, dialing, queue, pings, wire, gate, fresh, taken, trouble>>

PingIds == DOMAIN call.by
Peer(d) == CHOOSE e \in Ends : e # d

-----------------------------------------------------------------------------
(* The tables of one daemon, under m.mu                                    *)

Cut(f, keys) == [k \in DOMAIN f \ keys |-> f[k]]
Handshaking(t, sid) == sid \in DOMAIN t /\ ~t[sid].open
Oldest(t, sids) == CHOOSE s \in sids : \A o \in sids : t[s].age <= t[o].age

M(d) == [tbl |-> tbl[d], current |-> current[d], dialing |-> dialing[d], queue |-> queue[d]]

\* A drop that leaves the session current.
BugDropKeepsCurrent(m, sid) ==
    IF sid \notin DOMAIN m.tbl THEN m
    ELSE [m EXCEPT !.tbl = Cut(@, {sid}), !.dialing = @ \ {sid}, !.queue = IF sid \in m.dialing THEN <<>> ELSE @]

\* dropLocked
dropLocked(m, sid) ==
    IF sid \notin DOMAIN m.tbl THEN m
    ELSE [m EXCEPT !.tbl = Cut(@, {sid}), !.current = @ \ {sid}, !.dialing = @ \ {sid},
                   !.queue = IF sid \in m.dialing THEN <<>> ELSE @]

\* openLocked: the session becomes current; the oldest beyond the cap goes.
openLocked(m, sid) ==
    LET t == [m.tbl EXCEPT ![sid].open = TRUE, ![sid].age = fresh]
        opens == {s \in DOMAIN t : t[s].open}
        kept == IF Cardinality(opens) <= maxOpenPerPeer THEN t ELSE Cut(t, {Oldest(t, opens)})
    IN [m EXCEPT !.tbl = kept, !.current = {sid}, !.dialing = @ \ {sid}]

\* limitPendingLocked
limitPendingLocked(t) ==
    LET waiting == {s \in DOMAIN t : ~t[s].open /\ ~t[s].initiator}
    IN IF Cardinality(waiting) < maxPendingPerPeer THEN t ELSE Cut(t, {Oldest(t, waiting)})

\* The envelopes.  sealLocked takes the session's next counter.
Envelope(to, kind, sid, hs) == [to |-> to, kind |-> kind, sid |-> sid, hs |-> hs, copy |-> FALSE]
Data(to, sid, n, body) == [to |-> to, kind |-> "data", sid |-> sid, n |-> n, body |-> body, copy |-> FALSE]

sealed(d, t, sid, bodies) == {Data(Peer(d), sid, t[sid].next + i - 1, bodies[i]) : i \in DOMAIN bodies}
counted(t, sid, bodies) == [t EXCEPT ![sid].next = @ + Len(bodies)]

\* flushLocked, on a session just opened.
flushLocked(m, sid) == [m EXCEPT !.tbl = counted(@, sid, m.queue), !.queue = <<>>]

Store(d, m) ==
    /\ tbl' = [tbl EXCEPT ![d] = m.tbl]
    /\ current' = [current EXCEPT ![d] = m.current]
    /\ dialing' = [dialing EXCEPT ![d] = m.dialing]
    /\ queue' = [queue EXCEPT ![d] = m.queue]

\* sealLocked and flushLocked note the session of the pings they carry.
PingBodies(bodies) == {bodies[i].id : i \in {j \in DOMAIN bodies : bodies[j].type = "ping"}}
sentOn(ids, sid) == [id \in PingIds |-> IF id \in ids THEN [pings[id] EXCEPT !.sid = {sid}, !.sent = TRUE] ELSE pings[id]]

\* finishLocked and failPeerLocked: only pending pings end.
finishLocked(ps, ids, state) == [id \in PingIds |-> IF id \in ids /\ ps[id].state = "pending" THEN [ps[id] EXCEPT !.state = state] ELSE ps[id]]
PingsOf(d) == {id \in PingIds : call.by[id] = d}

NewSess(initiator, hs) == [initiator |-> initiator, open |-> FALSE, hs |-> hs, age |-> fresh, next |-> 0, recvNext |-> 0]

-----------------------------------------------------------------------------
(* Sending                                                                 *)

\* Ping, sendApp and prepareApp: on the current session, or queued, with a
\* handshake begun unless one is under way.  A full queue fails the ping.
Ping(d, id) ==
    LET body == [type |-> "ping", id |-> id]
        p == [state |-> "pending", sid |-> {}, sent |-> FALSE]
        m == M(d)
    IN /\ pings[id].state = "new"
       /\ \/ \E sid \in m.current :
               /\ Store(d, [m EXCEPT !.tbl = counted(@, sid, <<body>>)])
               /\ wire' = wire \union sealed(d, m.tbl, sid, <<body>>)
               /\ pings' = [pings EXCEPT ![id] = [p EXCEPT !.sid = {sid}, !.sent = TRUE]]
               /\ UNCHANGED fresh
          \/ /\ m.current = {} /\ Len(m.queue) < maxQueuePerPeer
             /\ IF m.dialing # {}
                THEN /\ Store(d, [m EXCEPT !.queue = Append(@, body)])
                     /\ pings' = [pings EXCEPT ![id] = [p EXCEPT !.sid = m.dialing]]
                     /\ UNCHANGED <<wire, fresh>>
                ELSE /\ Store(d, [m EXCEPT !.queue = Append(@, body), !.dialing = {fresh}, !.tbl = (fresh :> NewSess(TRUE, 0)) @@ @])
                     /\ pings' = [pings EXCEPT ![id] = [p EXCEPT !.sid = {fresh}]]
                     /\ wire' = wire \union {Envelope(Peer(d), "init", fresh, 0)}
                     /\ fresh' = fresh + 1
          \/ /\ m.current = {} /\ Len(m.queue) >= maxQueuePerPeer
             /\ pings' = [pings EXCEPT ![id] = [p EXCEPT !.state = "failed"]]
             /\ UNCHANGED <<tbl, current, dialing, queue, wire, fresh>>
       /\ UNCHANGED <<call, gate, taken, trouble>>

-----------------------------------------------------------------------------
(* Receiving                                                               *)

\* onInit: unless the gate turns the peer away or the sid is known.
onInit(d, e) ==
    LET sess == NewSess(FALSE, fresh) IN
    IF d \notin gate /\ e.sid \notin DOMAIN tbl[d]
    THEN /\ tbl' = [tbl EXCEPT ![d] = (e.sid :> sess) @@ limitPendingLocked(@)]
         /\ fresh' = fresh + 1
         /\ wire' = (wire \ {e}) \union {Envelope(Peer(d), "resp", e.sid, fresh)}
         /\ UNCHANGED <<current, dialing, queue, pings, taken>>
    ELSE wire' = wire \ {e} /\ UNCHANGED <<tbl, current, dialing, queue, pings, fresh, taken>>

\* onResp: the initiator opens, sends fin, then what was queued.
onResp(d, e) ==
    LET m == openLocked(M(d), e.sid)
        known == Handshaking(tbl[d], e.sid) /\ tbl[d][e.sid].initiator
    IN IF known
       THEN /\ Store(d, flushLocked(m, e.sid))
            /\ wire' = (wire \ {e}) \union {Envelope(Peer(d), "fin", e.sid, e.hs)} \union sealed(d, m.tbl, e.sid, queue[d])
            /\ pings' = sentOn(PingBodies(queue[d]), e.sid)
            /\ fresh' = fresh + 1 /\ UNCHANGED taken
       ELSE wire' = wire \ {e} /\ UNCHANGED <<tbl, current, dialing, queue, pings, fresh, taken>>

\* Handshake.Read verifies a step of the handshake it belongs to, and no other.
Read(s, hs) == s.hs = hs

\* onFin: the responder opens; a fin of another handshake does not verify and
\* drops the session.
onFin(d, e) ==
    LET m == openLocked(M(d), e.sid)
        known == Handshaking(tbl[d], e.sid) /\ ~tbl[d][e.sid].initiator
    IN CASE known /\ Read(tbl[d][e.sid], e.hs) ->
            /\ Store(d, flushLocked(m, e.sid))
            /\ wire' = (wire \ {e}) \union sealed(d, m.tbl, e.sid, queue[d])
            /\ pings' = sentOn(PingBodies(queue[d]), e.sid)
            /\ fresh' = fresh + 1 /\ UNCHANGED taken
         [] known /\ ~Read(tbl[d][e.sid], e.hs) ->
            /\ Store(d, dropLocked(M(d), e.sid))
            /\ wire' = wire \ {e} /\ UNCHANGED <<pings, fresh, taken>>
         [] OTHER -> wire' = wire \ {e} /\ UNCHANGED <<tbl, current, dialing, queue, pings, fresh, taken>>

\* A transport that accepts the last counter again.
BugAcceptsLast(s, n) == n + 1 >= s.recvNext
\* Transport.Open: counters only grow.
openable(s, n) == n >= s.recvNext

\* onData: a ping is answered on its session unless the ping gate refuses; a pong
\* ends the ping it names.
onData(d, e) ==
    LET known == e.sid \in DOMAIN tbl[d] /\ tbl[d][e.sid].open /\ openable(tbl[d][e.sid], e.n)
        t == [tbl[d] EXCEPT ![e.sid].recvNext = e.n + 1]
        pong == [type |-> "pong", id |-> e.body.id]
        answers == e.body.type = "ping" /\ d \notin gate
        key == <<d, e.sid, e.n>>
    IN IF known
       THEN /\ tbl' = [tbl EXCEPT ![d] = IF answers THEN counted(t, e.sid, <<pong>>) ELSE t]
            /\ wire' = (wire \ {e}) \union (IF answers THEN sealed(d, t, e.sid, <<pong>>) ELSE {})
            /\ pings' = IF e.body.type = "pong" /\ pings[e.body.id].sent THEN finishLocked(pings, {e.body.id}, "complete") ELSE pings
            /\ taken' = (key :> (IF key \in DOMAIN taken THEN taken[key] + 1 ELSE 1)) @@ taken
            /\ UNCHANGED <<current, dialing, queue, fresh>>
       ELSE wire' = wire \ {e} /\ UNCHANGED <<tbl, current, dialing, queue, pings, fresh, taken>>

handle(e) ==
    LET d == e.to IN
    /\ CASE e.kind = "init" -> onInit(d, e)
         [] e.kind = "resp" -> onResp(d, e)
         [] e.kind = "fin" -> onFin(d, e)
         [] e.kind = "data" -> onData(d, e)
    /\ UNCHANGED <<call, gate, trouble>>

-----------------------------------------------------------------------------
(* Timers, gates, restarts and the relay                                   *)

Trouble(kind) == kind \in call.kinds /\ trouble < call.troubles /\ trouble' = trouble + 1

\* HandleError: the relay reports an envelope it could not hand over, once for all
\* the pings of that peer; the pending dial is dropped with it.
HandleError(d) ==
    /\ Store(d, IF dialing[d] = {} THEN M(d) ELSE dropLocked(M(d), CHOOSE s \in dialing[d] : TRUE))
    /\ pings' = finishLocked(pings, PingsOf(d), "failed")

LoseEnvelope(e) ==
    /\ Trouble("lose") /\ wire' = wire \ {e}
    /\ \/ HandleError(Peer(e.to))
       \/ UNCHANGED <<tbl, current, dialing, queue, pings>>
    /\ UNCHANGED <<call, gate, fresh, taken>>

\* The relay delivers an envelope twice.
Repeat(e) ==
    /\ ~e.copy /\ Trouble("repeat")
    /\ wire' = wire \union {[e EXCEPT !.copy = TRUE]}
    /\ UNCHANGED <<call, tbl, current, dialing, queue, pings, gate, fresh, taken>>

\* pingTimeout: the ping fails and its session is dropped.
pingTimeout(id) ==
    LET d == call.by[id] IN
    /\ pings[id].state = "pending" /\ Trouble("timeout")
    /\ pings' = finishLocked(pings, {id}, "failed")
    /\ Store(d, IF pings[id].sid = {} THEN M(d) ELSE dropLocked(M(d), CHOOSE s \in pings[id].sid : TRUE))
    /\ UNCHANGED <<call, wire, gate, fresh, taken>>

\* sweep: a handshake past its time goes, and fails the pings when it was ours.
sweep(d) ==
    \E sid \in DOMAIN tbl[d] :
        /\ ~tbl[d][sid].open /\ Trouble("sweep")
        /\ Store(d, dropLocked(M(d), sid))
        /\ pings' = IF tbl[d][sid].initiator THEN finishLocked(pings, PingsOf(d), "failed") ELSE pings
        /\ UNCHANGED <<call, wire, gate, fresh, taken>>

\* The presence mode changes; DropGatedSessions then closes what the gate refuses.
SetGate(d) ==
    /\ Trouble("gate")
    /\ gate' = (gate \ {d}) \union ({d} \ gate)
    /\ UNCHANGED <<call, tbl, current, dialing, queue, pings, wire, fresh, taken>>

DropGatedSessions(d) ==
    /\ d \in gate /\ DOMAIN tbl[d] # {}
    /\ Store(d, [tbl |-> <<>>, current |-> {}, dialing |-> {}, queue |-> IF dialing[d] = {} THEN queue[d] ELSE <<>>])
    /\ UNCHANGED <<call, pings, wire, gate, fresh, taken, trouble>>

RestartEnd(d) ==
    /\ Trouble("restart")
    /\ Store(d, [tbl |-> <<>>, current |-> {}, dialing |-> {}, queue |-> <<>>])
    /\ pings' = finishLocked(pings, PingsOf(d), "failed")
    /\ UNCHANGED <<call, wire, gate, fresh, taken>>

SessInit ==
    /\ call \in Calls
    /\ tbl = [d \in Ends |-> <<>>]
    /\ current = [d \in Ends |-> {}] /\ dialing = [d \in Ends |-> {}] /\ queue = [d \in Ends |-> <<>>]
    /\ pings = [id \in PingIds |-> [state |-> "new", sid |-> {}, sent |-> FALSE]]
    /\ wire = {} /\ gate = {} /\ fresh = 1 /\ taken = <<>> /\ trouble = 0

SessNext ==
    \/ \E id \in PingIds : Ping(call.by[id], id)
    \/ \E e \in wire : handle(e) \/ LoseEnvelope(e) \/ Repeat(e)
    \/ \E id \in PingIds : pingTimeout(id)
    \/ \E d \in Ends : sweep(d) \/ SetGate(d) \/ DropGatedSessions(d) \/ RestartEnd(d)

-----------------------------------------------------------------------------
\* The four tables fit together after any mix of simultaneous dials, late answers,
\* timeouts, evictions and closed gates: the current session is there and open
\* (sealCurrent uses it without looking), the dialled one is our own handshake, and
\* what is queued has a handshake that will flush or drop it.
TablesFit ==
    \A d \in Ends :
        /\ \A s \in current[d] : s \in DOMAIN tbl[d] /\ tbl[d][s].open
        /\ \A s \in dialing[d] : Handshaking(tbl[d], s) /\ tbl[d][s].initiator
        /\ queue[d] # <<>> => dialing[d] # {}
        /\ Cardinality({s \in DOMAIN tbl[d] : tbl[d][s].open}) <= maxOpenPerPeer

\* Each sealed plaintext reaches its handler at most once, although the relay may
\* deliver its envelope again, in any order, after the session was dropped and
\* others were opened (Transport.Open's counter).
HandledOnce == \A k \in DOMAIN taken : taken[k] = 1

\* The two above: sessions that fit and plaintexts handled once.
SessionsFit == TablesFit /\ HandledOnce
=============================================================================
