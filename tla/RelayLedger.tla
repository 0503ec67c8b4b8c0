---------------------------- MODULE RelayLedger ----------------------------
(***************************************************************************)
(* The relay's memory budgets (internal/relay/budget.go) and the threads   *)
(* that charge them (conn.go, relay.go): the read loop of a connection,    *)
(* which charges the frame it reads and pushes it to the recipient's       *)
(* buffer, the queue drain, which reserves a batch before it reads it, and *)
(* the write loop.  A charge that does not fit evicts one holder and is    *)
(* tried once more.                                                        *)
(*                                                                         *)
(* One step is what the code does under conn.bmu and ledger.mu.  Choosing  *)
(* the holder that pays (pick) and evicting it are two steps: no bmu is    *)
(* held between them.  Bytes are counted in units of the smallest frame.   *)
(***************************************************************************)
EXTENDS Integers, Sequences, FiniteSets, FiniteSetsExt, Functions

CONSTANTS
    Peers,      \* the connections
    prefixOf,   \* the network prefix of each
    Loads       \* the instances: what is sent, how large the budgets are

Kinds == {"outbound", "read", "ephemeral"}
NoPeer == "none"
LedgerPrefixes == {prefixOf[c] : c \in Peers}

(* A load: max and share (of each budget), cap (slots of a send buffer),    *)
(* maxBytes (bytes of mail it may hold), reserve (drainReserve), frames,    *)
(* late (bounds: frames read, ticks of the clock), sizes, types and pairs   *)
(* (sender and recipient) of the frames, drains (connections with a queued  *)
(* batch), ready (connections whose ready frame is not written yet), fails  *)
(* (connections whose socket may fail).                                     *)
VARIABLES
    load,
    used,       \* pool.used, by budget
    puse,       \* prefixUse.used, by budget and prefix
    hold,       \* conn.hold, by connection and budget
    queue,      \* conn.queue: the frames pushed and not yet written
    inOut,      \* how many of them wait in conn.out
    bytes,      \* conn.outBytes, ephBytes, resv, readHeld
    readStart, dead, doomed,
    thread,     \* the read loop ("read") and the drain ("drain") of a connection
    clock, frames, drains      \* frames read; the batches still to deliver

poolVars == <<used, puse, hold>>
connVars == <<queue, inOut, bytes, readStart, dead>>
ledgerVars == <<load, poolVars, connVars, doomed, thread, clock, frames, drains>>

NoBytes == [out |-> 0, eph |-> 0, resv |-> 0, read |-> 0]
(* A thread: pc, the charge it makes (for, on, kind, n), the holder picked  *)
(* to pay for it, and the frame it handles (size, type, to) or, for a drain, *)
(* what is left of its reservation (size).                                   *)
Quiet == [pc |-> "idle", for |-> "grow", on |-> NoPeer, kind |-> "read", n |-> 0,
          victim |-> NoPeer, size |-> 0, type |-> "mail", to |-> NoPeer]

\* newConn, and sendReady: the ready frame is charged without a check.
LedgerInit ==
    /\ load \in Loads
    /\ hold = [c \in Peers |-> [k \in Kinds |->
                  IF k = "ephemeral" /\ c \in load.ready THEN 1 ELSE 0]]
    /\ used = [k \in Kinds |-> IF k = "ephemeral" THEN Cardinality(load.ready) ELSE 0]
    /\ puse = [k \in Kinds |-> [p \in LedgerPrefixes |-> IF k = "ephemeral"
                  THEN Cardinality({c \in load.ready : prefixOf[c] = p}) ELSE 0]]
    /\ queue = [c \in Peers |-> IF c \in load.ready
                  THEN <<[kind |-> "ephemeral", n |-> 1, at |-> 0]>> ELSE <<>>]
    /\ inOut = [c \in Peers |-> IF c \in load.ready THEN 1 ELSE 0]
    /\ bytes = [c \in Peers |-> [NoBytes EXCEPT !.eph = hold[c]["ephemeral"]]]
    /\ readStart = [c \in Peers |-> 0]
    /\ dead = [c \in Peers |-> FALSE] /\ doomed = [c \in Peers |-> FALSE]
    /\ thread = [c \in Peers |-> [w \in {"read", "drain"} |-> Quiet]]
    /\ clock = 0 /\ frames = 0 /\ drains = load.drains

-----------------------------------------------------------------------------
(* The ledger.                                                              *)

\* pool.fits: "prefix" or "relay" names what refuses n more bytes, "" nothing.
\* A prefix, or a budget, that holds nothing takes one charge of any size.
fits(c, k, n) ==
    LET p == puse[k][prefixOf[c]] IN
    IF p > 0 /\ p + n > load.share[k] THEN "prefix"
    ELSE IF used[k] > 0 /\ used[k] + n > load.max[k] THEN "relay" ELSE ""

\* ledger.charge: n more bytes of budget k for c.
charge(c, k, n) ==
    /\ used' = [used EXCEPT ![k] = @ + n]
    /\ puse' = [puse EXCEPT ![k][prefixOf[c]] = @ + n]
    /\ hold' = [hold EXCEPT ![c][k] = @ + n]

\* ledger.unchargeLocked: give n back, never more than c holds.
uncharge(c, k, n) ==
    LET m == Min({n, hold[c][k]}) IN
    /\ used' = [used EXCEPT ![k] = @ - m]
    /\ puse' = [puse EXCEPT ![k][prefixOf[c]] = @ - m]
    /\ hold' = [hold EXCEPT ![c][k] = @ - m]

\* ledger.releaseAll: everything c holds, in every budget.
releaseAll(c) ==
    /\ used' = [k \in Kinds |-> used[k] - hold[c][k]]
    /\ puse' = [k \in Kinds |-> [puse[k] EXCEPT ![prefixOf[c]] = @ - hold[c][k]]]
    /\ hold' = [hold EXCEPT ![c] = [k \in Kinds |-> 0]]

\* conn.age: a connection with no frame waiting has no age.  Times are shifted
\* by one so that 0 is the zero time.
age(c, k) ==
    IF k = "read" THEN readStart[c] + 1
    ELSE IF queue[c] # <<>> THEN queue[c][1].at + 1 ELSE 0

older(a, b) == a # 0 /\ (b = 0 \/ a < b)

\* evictStale, in ticks: how long the oldest frame may wait, by what is held.
evictStale(held) == 1 + held \div 4

\* ledger.eligible: a reader inside its own prefix pays only with an older
\* frame; for mail and presence only a holder that does not keep up pays.
eligible(c, r, k, ownPrefix) ==
    IF k = "read" THEN ~ownPrefix \/ readStart[c] < readStart[r]
    ELSE /\ queue[c] # <<>>
         /\ clock - queue[c][1].at >= evictStale(hold[c]["outbound"] + hold[c]["ephemeral"])

holders(k, p) == {c \in Peers : prefixOf[c] = p /\ hold[c][k] > 0}

\* prefixUse.oldest
oldest(k, p) ==
    LET ages == {age(c, k) : c \in holders(k, p)} \ {0} IN IF ages = {} THEN 0 ELSE Min(ages)

\* pick, the prefix that pays: r's own when its share refused the charge, else
\* the heaviest, ties to the oldest; {} when r's own is the heaviest.
payer(r, k, n, over) ==
    LET rp == prefixOf[r]
        P == {p \in LedgerPrefixes : puse[k][p] > 0}
        heaviest == {p \in P : \A q \in P : puse[k][q] <= puse[k][p]}
        best == {p \in heaviest : \A q \in heaviest : ~older(oldest(k, q), oldest(k, p))}
        rAge == IF k # "read" /\ age(r, k) = 0 THEN clock + 1 ELSE age(r, k)
        need == puse[k][rp] + n
    IN IF over THEN {rp} \cap P
       ELSE {p \in best : /\ p # rp
                          /\ \/ puse[k][p] > need
                             \/ puse[k][p] = need /\ older(oldest(k, p), rAge)}

\* pick: the connections that may be chosen (the code takes any on a tie).
pick(r, k, n, over) ==
    UNION {LET E == {c \in holders(k, p) : c # r /\ eligible(c, r, k, p = prefixOf[r])}
           IN {c \in E : \A d \in E : /\ hold[d][k] <= hold[c][k]
                                      /\ hold[d][k] = hold[c][k] =>
                                            ~older(age(d, k), age(c, k))}
           : p \in payer(r, k, n, over)}

-----------------------------------------------------------------------------
(* One connection's accounting.                                             *)

\* What stands in the way before the budget is asked: a full buffer, or the
\* connection's own byte cap (an empty buffer takes one frame).
roomFor(c, k, n) ==
    LET held == bytes[c].out + bytes[c].eph IN
    ~(k = "outbound" /\ held > 0 /\ held + n > load.maxBytes)

Pushed(c, k, n) ==
    /\ queue' = [queue EXCEPT ![c] = Append(@, [kind |-> k, n |-> n, at |-> clock])]
    /\ inOut' = [inOut EXCEPT ![c] = @ + 1]

\* What a charge is for, and what it changes beside the pools: a frame pushed
\* (tryPush), a drain reservation (tryReserve), a chunk being read (chargeRead).
blocked(job) ==
    LET c == job.on IN
    \/ dead[c]
    \/ job.for = "push" /\ inOut[c] = load.cap
    \/ job.for \in {"push", "reserve"} /\ ~roomFor(c, job.kind, job.n)

tryCharge(job) ==
    LET c == job.on IN
    /\ charge(c, job.kind, job.n)
    /\ CASE job.for = "push" ->
              /\ Pushed(c, job.kind, job.n)
              /\ bytes' = [bytes EXCEPT ![c] = IF job.kind = "outbound"
                                               THEN [@ EXCEPT !.out = @ + job.n]
                                               ELSE [@ EXCEPT !.eph = @ + job.n]]
         [] job.for = "reserve" ->
              bytes' = [bytes EXCEPT ![c].resv = @ + job.n] /\ UNCHANGED <<queue, inOut>>
         [] job.for = "grow" ->
              bytes' = [bytes EXCEPT ![c].read = @ + job.n] /\ UNCHANGED <<queue, inOut>>
    /\ UNCHANGED <<readStart, dead>>

\* conn.dieLocked
dieLocked(c) ==
    /\ dead' = [dead EXCEPT ![c] = TRUE]
    /\ queue' = [queue EXCEPT ![c] = <<>>] /\ inOut' = [inOut EXCEPT ![c] = 0]
    /\ bytes' = [bytes EXCEPT ![c] = NoBytes]
    /\ releaseAll(c)

-----------------------------------------------------------------------------
(* What a thread does once its charge is settled.                           *)

Charging(t, for, on, kind, n) ==
    [t EXCEPT !.pc = "try", !.for = for, !.on = on, !.kind = kind, !.n = n, !.victim = NoPeer]

\* handleFrame and route: mail goes to the recipient's buffer, presence too
\* unless that is over half full.
routed(c, t) ==
    IF dead[c] THEN Quiet
    ELSE IF t.type = "mail" THEN Charging(t, "push", t.to, "outbound", t.size)
    ELSE IF inOut[t.to] > load.cap \div 2 THEN [t EXCEPT !.pc = "done"]
    ELSE Charging(t, "push", t.to, "ephemeral", t.size)

\* The charge was made.  `got' is what the frame being read then holds.
paid(c, t, got) ==
    CASE t.for = "grow" -> IF got < t.size THEN [t EXCEPT !.pc = "try"]
                           ELSE [t EXCEPT !.pc = "route"]
      [] t.for = "push" -> [t EXCEPT !.pc = "done"]
      [] t.for = "reserve" -> [t EXCEPT !.pc = "send", !.size = t.n]

\* It was not: mail is queued instead and its sender told (enqueue), presence
\* and control frames are dropped, a drain waits.
unpaid(c, t) ==
    CASE t.for = "push" /\ t.kind = "outbound" -> Charging(t, "push", c, "ephemeral", 1)
      [] t.for = "push" -> [t EXCEPT !.pc = "done"]
      [] t.for = "reserve" -> IF dead[c] THEN Quiet ELSE [t EXCEPT !.pc = "wait"]
      [] t.for = "grow" -> Quiet

\* The frame cannot be read: what was read of it is given back and, when the
\* read budget was the reason, the connection closed.
dropFrame(c) ==
    /\ doomed' = [doomed EXCEPT ![c] = TRUE]
    /\ IF dead[c] THEN UNCHANGED <<poolVars, bytes>>
       ELSE uncharge(c, "read", bytes[c].read) /\ bytes' = [bytes EXCEPT ![c].read = 0]
    /\ UNCHANGED <<queue, inOut, readStart, dead>>

Refuse(c, w) ==
    LET t == thread[c][w] IN
    /\ thread' = [thread EXCEPT ![c][w] = unpaid(c, t)]
    /\ IF t.for = "grow" THEN dropFrame(c) ELSE UNCHANGED <<poolVars, connVars, doomed>>

Constant == UNCHANGED <<load, clock, frames, drains>>

\* One attempt (tryPush, tryReserve, chargeRead); a refusal by the budget alone
\* looks for a holder that pays, the first time.
attempt(c, w) ==
    LET t == thread[c][w] IN
    /\ t.pc \in {"try", "retry"}
    /\ \/ /\ ~blocked(t) /\ fits(t.on, t.kind, t.n) = ""
          /\ tryCharge(t)
          /\ thread' = [thread EXCEPT ![c][w] = paid(c, t, bytes[c].read + t.n)]
          /\ UNCHANGED doomed
       \/ /\ ~blocked(t) /\ fits(t.on, t.kind, t.n) # "" /\ t.pc = "try"
          /\ \/ \E h \in pick(t.on, t.kind, t.n, fits(t.on, t.kind, t.n) = "prefix") :
                  /\ thread' = [thread EXCEPT ![c][w] = [t EXCEPT !.pc = "evict", !.victim = h]]
                  /\ UNCHANGED <<poolVars, connVars, doomed>>
             \/ /\ pick(t.on, t.kind, t.n, fits(t.on, t.kind, t.n) = "prefix") = {}
                /\ Refuse(c, w)
       \/ /\ blocked(t) \/ (t.pc = "retry" /\ fits(t.on, t.kind, t.n) # "")
          /\ Refuse(c, w)
    /\ Constant

\* evictFor: the holder is marked dead and closed, unless it already was.
evict(c, w) ==
    LET t == thread[c][w] IN
    /\ t.pc = "evict"
    /\ \/ /\ ~dead[t.victim]
          /\ dieLocked(t.victim)
          /\ doomed' = [doomed EXCEPT ![t.victim] = TRUE]
          /\ thread' = [thread EXCEPT ![c][w].pc = "retry"]
          /\ UNCHANGED readStart
       \/ dead[t.victim] /\ Refuse(c, w)
    /\ Constant

-----------------------------------------------------------------------------
(* The read loop.                                                           *)

\* readFrame: the first bytes of a frame.
startRead(c, size, type, to) ==
    /\ thread[c]["read"].pc = "idle" /\ ~doomed[c] /\ <<c, to>> \in load.pairs
    /\ frames < load.frames
    /\ frames' = frames + 1
    /\ readStart' = [readStart EXCEPT ![c] = clock]
    /\ thread' = [thread EXCEPT ![c]["read"] =
          Charging([Quiet EXCEPT !.size = size, !.type = type, !.to = to], "grow", c, "read", 1)]
    /\ UNCHANGED <<load, poolVars, queue, inOut, bytes, dead, doomed, clock, drains>>

\* The frame is complete: it is routed.
route(c) ==
    /\ thread[c]["read"].pc = "route"
    /\ thread' = [thread EXCEPT ![c]["read"] = routed(c, @)]
    /\ Constant /\ UNCHANGED <<poolVars, connVars, doomed>>

\* Mutant: the eviction that already returned the bytes is not noticed.
BugDoneTwice(c) ==
    /\ thread[c]["read"].pc = "done"
    /\ thread' = [thread EXCEPT ![c]["read"] = Quiet]
    /\ used' = [used EXCEPT !["read"] = @ - thread[c]["read"].size]
    /\ puse' = [puse EXCEPT !["read"][prefixOf[c]] = @ - thread[c]["read"].size]
    /\ hold' = [hold EXCEPT ![c]["read"] = 0] /\ bytes' = [bytes EXCEPT ![c].read = 0]
    /\ Constant /\ UNCHANGED <<queue, inOut, readStart, dead, doomed>>

\* conn.doneRead, once the frame has been routed or dropped.
doneRead(c) ==
    /\ thread[c]["read"].pc = "done"
    /\ thread' = [thread EXCEPT ![c]["read"] = Quiet]
    /\ IF dead[c] THEN UNCHANGED <<poolVars, bytes>>
       ELSE uncharge(c, "read", bytes[c].read) /\ bytes' = [bytes EXCEPT ![c].read = 0]
    /\ Constant /\ UNCHANGED <<queue, inOut, readStart, dead, doomed>>

\* The socket breaks, or the peer goes away, while a frame is being read.
readFails(c) ==
    /\ thread[c]["read"].for = "grow" /\ thread[c]["read"].pc = "try" /\ doomed[c]
    /\ thread' = [thread EXCEPT ![c]["read"] = Quiet]
    /\ dropFrame(c) /\ Constant

\* frameTimedOut: the frame took too long; the timer may also win against a
\* frame just completed.
frameTimedOut(c) ==
    /\ c \in load.fails /\ thread[c]["read"].pc # "idle" /\ ~dead[c]
    /\ dieLocked(c) /\ doomed' = [doomed EXCEPT ![c] = TRUE]
    /\ Constant /\ UNCHANGED <<readStart, thread>>

Fail(c) ==
    /\ c \in load.fails /\ ~doomed[c]
    /\ doomed' = [doomed EXCEPT ![c] = TRUE]
    /\ Constant /\ UNCHANGED <<poolVars, connVars, thread>>

\* ServeHTTP's deferred release, when the read loop has returned.
release(c) ==
    /\ doomed[c] /\ ~dead[c] /\ thread[c]["read"].pc = "idle"
    /\ dieLocked(c)
    /\ Constant /\ UNCHANGED <<doomed, readStart, thread>>

-----------------------------------------------------------------------------
(* The queue drain and the write loop.                                      *)

startDrain(c) ==
    /\ thread[c]["drain"].pc = "idle" /\ ~doomed[c] /\ c \in drains
    /\ drains' = drains \ {c}
    /\ thread' = [thread EXCEPT ![c]["drain"] =
                     Charging(Quiet, "reserve", c, "outbound", load.reserve)]
    /\ UNCHANGED <<load, poolVars, connVars, doomed, clock, frames>>

\* Mutant: a waiting drain looks again only when its own buffer is written.
BugWaitsForOwnWrites(c) ==
    LET t == thread[c]["drain"] IN
    /\ t.pc = "wait" /\ (dead[c] \/ doomed[c] \/ queue[c] # <<>>)
    /\ thread' = [thread EXCEPT ![c]["drain"] = IF dead[c] \/ doomed[c] THEN Quiet
                                               ELSE [@ EXCEPT !.pc = "try"]]
    /\ Constant /\ UNCHANGED <<poolVars, connVars, doomed>>

\* conn.reserve waits: it looks again when there is room, when a holder can be
\* made to pay, or when the connection is over.
recheck(c) ==
    LET t == thread[c]["drain"]
        why == fits(c, "outbound", t.n)
    IN
    /\ t.pc = "wait"
    /\ \/ (dead[c] \/ doomed[c]) /\ thread' = [thread EXCEPT ![c]["drain"] = Quiet]
       \/ /\ ~blocked(t) /\ (why = "" \/ pick(c, "outbound", t.n, why = "prefix") # {})
          /\ thread' = [thread EXCEPT ![c]["drain"].pc = "try"]
    /\ Constant /\ UNCHANGED <<poolVars, connVars, doomed>>

\* conn.sendReserved: a row moves from the reservation into the buffer.
sendReserved(c, n) ==
    LET t == thread[c]["drain"] IN
    /\ t.pc = "send" /\ ~dead[c] /\ n <= t.size /\ inOut[c] < load.cap
    /\ Pushed(c, "outbound", n)
    /\ bytes' = [bytes EXCEPT ![c].out = @ + n, ![c].resv = @ - n]
    /\ thread' = [thread EXCEPT ![c]["drain"].size = @ - n]
    /\ Constant /\ UNCHANGED <<poolVars, readStart, dead, doomed>>

\* conn.unreserve: what the batch did not use.
unreserve(c) ==
    LET t == thread[c]["drain"] IN
    /\ t.pc = "send"
    /\ thread' = [thread EXCEPT ![c]["drain"] = Quiet]
    /\ IF dead[c] THEN UNCHANGED <<poolVars, bytes>>
       ELSE /\ uncharge(c, "outbound", Min({t.size, bytes[c].resv}))
            /\ bytes' = [bytes EXCEPT ![c].resv = @ - Min({t.size, @})]
    /\ Constant /\ UNCHANGED <<queue, inOut, readStart, dead, doomed>>

\* writeLoop takes the next frame ...
take(c) ==
    /\ ~dead[c] /\ inOut[c] > 0 /\ inOut[c] = Len(queue[c])
    /\ inOut' = [inOut EXCEPT ![c] = @ - 1]
    /\ Constant /\ UNCHANGED <<poolVars, queue, bytes, readStart, dead, doomed, thread>>

\* ... and is done with it, written or failed (a failure ends the connection).
written(c) ==
    LET f == queue[c][1] IN
    /\ ~dead[c] /\ inOut[c] < Len(queue[c])
    /\ queue' = [queue EXCEPT ![c] = Tail(@)]
    /\ uncharge(c, f.kind, f.n)
    /\ bytes' = [bytes EXCEPT ![c] = IF f.kind = "outbound" THEN [@ EXCEPT !.out = @ - f.n]
                                     ELSE [@ EXCEPT !.eph = @ - f.n]]
    /\ \/ UNCHANGED doomed
       \/ c \in load.fails /\ doomed' = [doomed EXCEPT ![c] = TRUE]
    /\ Constant /\ UNCHANGED <<inOut, readStart, dead, thread>>

Tick ==
    /\ clock < load.late
    /\ clock' = clock + 1
    /\ UNCHANGED <<load, poolVars, connVars, doomed, thread, frames, drains>>

LedgerStep(c) ==
    \/ \E w \in {"read", "drain"} : attempt(c, w) \/ evict(c, w)
    \/ route(c) \/ doneRead(c) \/ readFails(c) \/ release(c)
    \/ recheck(c) \/ \E n \in load.sizes : sendReserved(c, n)
    \/ unreserve(c) \/ take(c) \/ written(c)

LedgerNext ==
    \/ \E c \in Peers : \/ LedgerStep(c) \/ startDrain(c) \/ frameTimedOut(c) \/ Fail(c)
                        \/ \E n \in load.sizes, y \in load.types, d \in Peers :
                              startRead(c, n, y, d)
    \/ Tick

(* Goroutines run, and a write ends, at the latest by its timeout.           *)
LedgerFairness == WF_ledgerVars(\E c \in Peers : LedgerStep(c))

-----------------------------------------------------------------------------
SumOver(S, f(_)) == FoldSet(LAMBDA x, acc : f(x) + acc, 0, S)
QueueBytes(c, k) == SumOver({i \in 1..Len(queue[c]) : queue[c][i].kind = k},
                            LAMBDA i : queue[c][i].n)

\* The books balance after every step of every thread: a budget is the sum of
\* what the prefixes hold and what the connections hold, a connection holds
\* exactly its buffered frames, its reservation and the frame it reads, one
\* that was released or evicted holds nothing whatever its threads still do
\* (nothing is returned twice and nothing leaks), and mail and reading never
\* pass their budgets (conn.go dieLocked, written, unreserve, doneRead).
BooksBalance ==
    /\ \A k \in Kinds :
        /\ used[k] = SumOver(Peers, LAMBDA c : hold[c][k])
        /\ \A p \in LedgerPrefixes :
              puse[k][p] = SumOver({c \in Peers : prefixOf[c] = p}, LAMBDA c : hold[c][k])
    /\ \A c \in Peers :
        /\ hold[c] = [k \in Kinds |->
              CASE k = "outbound" -> bytes[c].out + bytes[c].resv
                [] k = "ephemeral" -> bytes[c].eph
                [] k = "read" -> bytes[c].read]
        /\ bytes[c].out = QueueBytes(c, "outbound") /\ bytes[c].eph = QueueBytes(c, "ephemeral")
        /\ dead[c] => bytes[c] = NoBytes
        /\ thread[c]["drain"].pc # "send" => bytes[c].resv = 0
        /\ thread[c]["read"].pc = "idle" => bytes[c].read = 0
    /\ \A k \in {"outbound", "read"} : used[k] <= load.max[k]

\* No queue drain waits for ever: a reservation is granted, or its connection
\* ends, because writes end, reservations are returned and a holder that does
\* not keep up is evicted (conn.go reserve; budget.go evictFor).
DrainsGetRoom == <>[](\A c \in Peers : thread[c]["drain"].pc = "idle")

=============================================================================
