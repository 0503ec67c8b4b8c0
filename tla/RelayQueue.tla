----------------------------- MODULE RelayQueue -----------------------------
(***************************************************************************)
(* The relay's offline queue for one recipient key: how an envelope is     *)
(* forwarded directly or stored (internal/relay/relay.go route, enqueue,   *)
(* arm), how a connection's backlog is drained, redelivered under a budget *)
(* and retried (drainStep, redeliverStep, retrySkipped), and what the      *)
(* queue's tables hold (queue.go add, claim, ack, sweep, prune).           *)
(*                                                                         *)
(* A row is one stored envelope.  Its field `firsts' (how often it was     *)
(* claimed as a first delivery), `handed' (the rows a connection was given) *)
(* and `newest' are history: no action reads them.  What a dead connection  *)
(* remembers is never read again, so it is reset when the connection dies.  *)
(*                                                                         *)
(* An atomic step is what the code does under one lock: Server.mu for the  *)
(* registry, conn.mu for draining, cursor and the skipped range (a claim   *)
(* runs under it and the queue's own lock), conn.bmu for the buffer.       *)
(***************************************************************************)
EXTENDS Integers, Sequences, FiniteSets

CONSTANTS
    Senders,      \* the keys that send to the recipient
    Ids,          \* envelope ids a sender uses
    MaxArrivals,  \* bound: envelopes the relay reads, re-sent ones included
    MaxConns,     \* bound: connections the recipient opens
    drainBatch,   \* rows in one batch
    OutCap,       \* frames a connection's send buffer holds
    PairCap,      \* unexpired rows one sender may have waiting
    Events        \* bound: which of "expire", "evict", "restart" may happen

ASSUME QueueConstants ==
    /\ MaxArrivals \in Nat /\ MaxConns \in Nat
    /\ drainBatch \in Nat \ {0} /\ OutCap \in Nat \ {0} /\ PairCap \in Nat

VARIABLES
    rows,      \* table queue
    H,         \* table queue_delivered: the key's delivered mark, 0 for none
    nextSeq,   \* the AUTOINCREMENT counter of table queue
    reg,       \* Server.conns[key], 0 for none
    opened,    \* connections opened so far
    draining, cursor, skip,    \* conn.draining, conn.cursor, [skipFrom, skipTo]
    dead, doomed,              \* conn.dead; the socket is closing
    out,       \* the frames waiting in the send buffer
    drain,     \* the drain goroutine (or inline first step) of a connection
    snd,       \* the read loop of a sender, inside route
    arrivals,  \* envelopes the relay has read
    handed,    \* the sequence numbers a connection was handed
    newest,    \* the last envelope of a sender a connection was handed first
    got        \* envelopes written to the recipient

table == <<rows, H, nextSeq>>
conn == <<draining, cursor, skip, dead, doomed, out, drain, handed, newest>>
queueVars == <<table, reg, opened, conn, snd, arrivals, got>>

Conns == 1..MaxConns
Seqs == 1..MaxArrivals

NoSkip == [from |-> 0, to |-> 0]
NoDrain == [pc |-> "idle", retry |-> FALSE, after |-> 0, upto |-> 0, probed |-> 0,
         first |-> FALSE, batch |-> {}]
Reading == [pc |-> "idle", id |-> 0, n |-> 0, dst |-> 0]

Fresh(r) == ~r.expired
\* The unexpired rows of the recipient with a sequence number in (after, upto].
Waiting(after, upto) == {r \in rows : Fresh(r) /\ r.seq > after /\ r.seq <= upto}
Oldest(R) == CHOOSE r \in R : \A q \in R : r.seq <= q.seq

\* A batch a read of R may return: the oldest rows of R, at least one, at most
\* drainBatch, fewer when they hold many bytes.
Batches(R) == {B \in SUBSET R : /\ B # {} /\ Cardinality(B) <= drainBatch
                                /\ \A r \in B, q \in R \ B : r.seq < q.seq}
LastSeq(B) == CHOOSE n \in {r.seq : r \in B} : \A r \in B : r.seq <= n


QueueInit ==
    /\ rows = {} /\ H = 0 /\ nextSeq = 1
    /\ reg = 0 /\ opened = 0
    /\ draining = [c \in Conns |-> TRUE] /\ cursor = [c \in Conns |-> 0]
    /\ skip = [c \in Conns |-> NoSkip]
    /\ dead = [c \in Conns |-> TRUE] /\ doomed = [c \in Conns |-> TRUE]
    /\ out = [c \in Conns |-> <<>>] /\ drain = [c \in Conns |-> NoDrain]
    /\ snd = [s \in Senders |-> Reading] /\ arrivals = 0
    /\ handed = [c \in Conns |-> {}] /\ newest = [c \in Conns |-> [s \in Senders |-> 0]]
    /\ got = {}

-----------------------------------------------------------------------------
(* A sender's envelope: direct, or queue and wake the recipient's drain.    *)

\* The relay reads an envelope and looks the recipient up.
route(s, id) ==
    /\ snd[s].pc = "idle" /\ arrivals < MaxArrivals
    /\ arrivals' = arrivals + 1
    /\ snd' = [snd EXCEPT ![s] = [pc |-> IF reg = 0 THEN "add" ELSE "direct",
                                  id |-> id, n |-> arrivals + 1, dst |-> reg]]
    /\ UNCHANGED <<table, reg, opened, conn, got>>

\* Mutant: the slot check is missing.
BugFull(c) == ~dead[c]

\* The buffer takes a frame.
takes(c) == ~dead[c] /\ Len(out[c]) < OutCap

\* Mutant: an envelope is forwarded although the backlog is still draining.
BugOvertake(s) ==
    LET c == snd[s].dst IN
    /\ snd[s].pc = "direct"
    /\ \/ /\ takes(c)
          /\ out' = [out EXCEPT ![c] = Append(@, [from |-> s, id |-> snd[s].id])]
          /\ newest' = [newest EXCEPT ![c][s] = snd[s].n]
          /\ snd' = [snd EXCEPT ![s] = Reading]
       \/ /\ ~takes(c)
          /\ snd' = [snd EXCEPT ![s].pc = "add"]
          /\ UNCHANGED <<out, newest>>
    /\ UNCHANGED <<table, reg, opened, draining, cursor, skip, dead, doomed, drain,
                   handed, arrivals, got>>

\* conn.direct: forwarded unless queued envelopes are still being delivered,
\* or the buffer is full; then the envelope is queued.
direct(s) ==
    LET c == snd[s].dst IN
    /\ snd[s].pc = "direct"
    /\ \/ /\ ~draining[c] /\ takes(c)
          /\ out' = [out EXCEPT ![c] = Append(@, [from |-> s, id |-> snd[s].id])]
          /\ newest' = [newest EXCEPT ![c][s] = snd[s].n]
          /\ snd' = [snd EXCEPT ![s] = Reading]
       \/ /\ draining[c] \/ ~takes(c)
          /\ snd' = [snd EXCEPT ![s].pc = "add"]
          /\ UNCHANGED <<out, newest>>
    /\ UNCHANGED <<table, reg, opened, draining, cursor, skip, dead, doomed, drain,
                   handed, arrivals, got>>

\* queue.add: an envelope already stored is a success that changes nothing; a
\* full queue, low storage or a database error refuses it.
add(s) ==
    LET same == {r \in rows : r.from = s /\ r.id = snd[s].id}
        mine == {r \in rows : r.from = s /\ Fresh(r)}
    IN
    /\ snd[s].pc = "add"
    /\ \/ same # {} /\ snd' = [snd EXCEPT ![s].pc = "lookup"] /\ UNCHANGED table
       \/ /\ same = {} /\ Cardinality(mine) < PairCap
          /\ rows' = rows \cup {[seq |-> nextSeq, from |-> s, id |-> snd[s].id,
                                 n |-> snd[s].n, expired |-> FALSE, firsts |-> 0]}
          /\ nextSeq' = nextSeq + 1 /\ UNCHANGED H
          /\ snd' = [snd EXCEPT ![s].pc = "lookup"]
       \/ snd' = [snd EXCEPT ![s] = Reading] /\ UNCHANGED table
    /\ UNCHANGED <<reg, opened, conn, arrivals, got>>

\* Mutant: the recipient looked up before the envelope was stored is armed.
BugStaleDst(s) ==
    /\ snd[s].pc = "lookup"
    /\ snd' = [snd EXCEPT ![s] = IF snd[s].dst = 0 THEN Reading ELSE [@ EXCEPT !.pc = "arm"]]
    /\ UNCHANGED <<table, reg, opened, conn, arrivals, got>>

\* enqueue: the recipient may have connected while the envelope was stored.
lookup(s) ==
    /\ snd[s].pc = "lookup"
    /\ snd' = [snd EXCEPT ![s] = IF reg = 0 THEN Reading
                                 ELSE [@ EXCEPT !.pc = "arm", !.dst = reg]]
    /\ UNCHANGED <<table, reg, opened, conn, arrivals, got>>

\* Mutant: the drain is started and the flag not set.
BugNoFlag(s) ==
    LET c == snd[s].dst IN
    /\ snd[s].pc = "arm"
    /\ drain' = IF draining[c] THEN drain ELSE [drain EXCEPT ![c] = [NoDrain EXCEPT !.pc = "claim"]]
    /\ snd' = [snd EXCEPT ![s] = Reading]
    /\ UNCHANGED <<table, reg, opened, draining, cursor, skip, dead, doomed, out,
                   arrivals, handed, newest, got>>

\* arm: make sure the backlog is being delivered.  The drain of a connection
\* that is gone ends at its first reservation.
arm(s) ==
    LET c == snd[s].dst IN
    /\ snd[s].pc = "arm"
    /\ draining' = [draining EXCEPT ![c] = TRUE]
    /\ drain' = IF draining[c] THEN drain ELSE [drain EXCEPT ![c] = [NoDrain EXCEPT !.pc = "claim"]]
    /\ snd' = [snd EXCEPT ![s] = Reading]
    /\ UNCHANGED <<table, reg, opened, cursor, skip, dead, doomed, out, arrivals,
                   handed, newest, got>>

-----------------------------------------------------------------------------
(* The drain goroutine of a connection.                                     *)

\* Mutant: the delivered mark is not looked at.
BugNoMark(after) == Waiting(after, nextSeq)

\* queue.claim, the rows a drain at `after' may take as first deliveries.
Claimable(after) == IF after < H THEN {} ELSE Waiting(after, nextSeq)

\* drainStep up to the hand-over.  Under conn.mu: rows above the delivered mark
\* are claimed before they are sent; below it a redelivery starts; with nothing
\* left the connection goes back to direct forwarding.
claim(c) ==
    /\ drain[c].pc = "claim" /\ ~dead[c]
    /\ \/ /\ cursor[c] < H
          /\ drain' = [drain EXCEPT ![c] = [NoDrain EXCEPT !.pc = "probe", !.upto = H,
                                                       !.after = cursor[c]]]
          /\ UNCHANGED <<rows, H, draining, cursor>>
       \/ /\ cursor[c] >= H /\ Claimable(cursor[c]) = {}
          /\ draining' = [draining EXCEPT ![c] = FALSE]
          /\ drain' = [drain EXCEPT ![c] = NoDrain]
          /\ UNCHANGED <<rows, H, cursor>>
       \/ \E B \in Batches(Claimable(cursor[c])) :
          /\ rows' = (rows \ B) \cup {[r EXCEPT !.firsts = @ + 1] : r \in B}
          /\ H' = IF LastSeq(B) > H THEN LastSeq(B) ELSE H
          /\ cursor' = [cursor EXCEPT ![c] = LastSeq(B)]
          /\ drain' = [drain EXCEPT ![c] = [NoDrain EXCEPT !.pc = "send", !.first = TRUE,
                                                       !.batch = B]]
          /\ UNCHANGED draining
    /\ UNCHANGED <<nextSeq, reg, opened, skip, dead, doomed, out, snd, arrivals,
                   handed, newest, got>>

\* The drain's goroutine ends: its connection is gone, or a queue read failed
\* (queueFailed closes the connection).  conn.draining stays set.
drainEnds(c) ==
    /\ drain[c].pc # "idle"
    /\ \/ dead[c] /\ UNCHANGED doomed
       \/ drain[c].pc # "send" /\ doomed' = [doomed EXCEPT ![c] = TRUE]
       \/ drain[c].pc = "send" /\ doomed[c] /\ UNCHANGED doomed
    /\ drain' = [drain EXCEPT ![c] = NoDrain]
    /\ UNCHANGED <<table, reg, opened, draining, cursor, skip, dead, out, snd,
                   arrivals, handed, newest, got>>

\* A redelivery step of drain d reached position next.  A retry with rows left
\* goes on; otherwise the normal drain does.
Reached(d, next) ==
    IF d.retry /\ next < d.upto
    THEN [d EXCEPT !.pc = "probe", !.after = next, !.batch = {}]
    ELSE [NoDrain EXCEPT !.pc = "claim"]
\* The cursor after it: a retry has a cursor of its own.
CursorAt(c, next) == IF drain[c].retry \/ next <= cursor[c] THEN cursor
                  ELSE [cursor EXCEPT ![c] = next]
\* skipRedelivery: a range already recorded is widened.
Widened(k, from, to) ==
    [from |-> IF k.from = 0 \/ from < k.from THEN from ELSE k.from,
     to   |-> IF to > k.to THEN to ELSE k.to]

\* redeliverStep: nothing is left in the range.
probeDone(c) ==
    LET d == drain[c] IN
    /\ d.pc = "probe" /\ ~dead[c] /\ Waiting(d.after, d.upto) = {}
    /\ cursor' = CursorAt(c, d.upto) /\ drain' = [drain EXCEPT ![c] = Reached(d, d.upto)]
    /\ UNCHANGED <<table, reg, opened, draining, skip, dead, doomed, out, snd, arrivals,
                   handed, newest, got>>

\* The rows from seq on are skipped for want of budget.
skipRedelivery(c, seq) ==
    LET d == drain[c] IN
    /\ skip' = [skip EXCEPT ![c] = Widened(@, seq, d.upto)]
    /\ cursor' = CursorAt(c, d.upto) /\ drain' = [drain EXCEPT ![c] = Reached(d, d.upto)]
    /\ UNCHANGED <<table, reg, opened, draining, dead, doomed, out, snd, arrivals,
                   handed, newest, got>>

\* redeliverStep: the budget refuses the first row of the range.
probeRefused(c) ==
    LET R == Waiting(drain[c].after, drain[c].upto) IN
    /\ drain[c].pc = "probe" /\ ~dead[c] /\ R # {}
    /\ skipRedelivery(c, Oldest(R).seq)

\* redeliverStep: the budget pays it.
probePaid(c) ==
    LET R == Waiting(drain[c].after, drain[c].upto) IN
    /\ drain[c].pc = "probe" /\ ~dead[c] /\ R # {}
    /\ drain' = [drain EXCEPT ![c].pc = "range", ![c].probed = Oldest(R).seq]
    /\ UNCHANGED <<table, reg, opened, draining, cursor, skip, dead, doomed, out, snd,
                   arrivals, handed, newest, got>>

\* redeliverStep: read the rows the budget pays.  A first row that is not the
\* probed one (acked since) is charged alone and may be refused.
nextRange(c) ==
    LET d == drain[c]
        R == Waiting(d.after, d.upto)
    IN
    /\ d.pc = "range" /\ ~dead[c]
    /\ \/ R # {} /\ Oldest(R).seq # d.probed /\ skipRedelivery(c, Oldest(R).seq)
       \/ /\ \/ /\ R = {}
                /\ cursor' = CursorAt(c, d.upto)
                /\ drain' = [drain EXCEPT ![c] = Reached(d, d.upto)]
             \/ \E B \in Batches(R) :
                /\ drain' = [drain EXCEPT ![c].pc = "send", ![c].batch = B]
                /\ UNCHANGED cursor
          /\ UNCHANGED <<table, reg, opened, draining, skip, dead, doomed, out, snd,
                         arrivals, handed, newest, got>>

\* sendBatch: hand over the next row, waiting for a slot; after the last one
\* go on where the batch ended.
sendBatch(c) ==
    LET d == drain[c]
        r == Oldest(d.batch)
    IN
    /\ d.pc = "send" /\ takes(c)
    /\ out' = [out EXCEPT ![c] = Append(@, [from |-> r.from, id |-> r.id])]
    /\ newest' = IF d.first THEN [newest EXCEPT ![c][r.from] = r.n] ELSE newest
    /\ handed' = [handed EXCEPT ![c] = @ \cup {r.seq}]
    /\ \/ /\ d.batch # {r} /\ drain' = [drain EXCEPT ![c].batch = @ \ {r}]
          /\ UNCHANGED cursor
       \/ /\ d.batch = {r} /\ d.first
          /\ drain' = [drain EXCEPT ![c] = [NoDrain EXCEPT !.pc = "claim"]]
          /\ UNCHANGED cursor
       \/ /\ d.batch = {r} /\ ~d.first
          /\ drain' = [drain EXCEPT ![c] = Reached(d, r.seq)]
          /\ cursor' = CursorAt(c, r.seq)
    /\ UNCHANGED <<table, reg, opened, draining, skip, dead, doomed, snd, arrivals, got>>

\* Mutant: the retry starts behind the first skipped row.
BugOffByOne(c) ==
    /\ ~dead[c] /\ ~draining[c] /\ skip[c] # NoSkip
    /\ draining' = [draining EXCEPT ![c] = TRUE]
    /\ drain' = [drain EXCEPT ![c] = [NoDrain EXCEPT !.pc = "probe", !.retry = TRUE,
                                                 !.after = skip[c].from,
                                                 !.upto = skip[c].to]]
    /\ skip' = [skip EXCEPT ![c] = NoSkip]
    /\ UNCHANGED <<table, reg, opened, cursor, dead, doomed, out, snd, arrivals,
                   handed, newest, got>>

\* retrySkippedAt and retryRange: at a sweep tick a connection that is not
\* draining and whose buckets can pay drains its skipped range again.
retrySkipped(c) ==
    /\ ~dead[c] /\ ~draining[c] /\ skip[c] # NoSkip
    /\ draining' = [draining EXCEPT ![c] = TRUE]
    /\ drain' = [drain EXCEPT ![c] = [NoDrain EXCEPT !.pc = "probe", !.retry = TRUE,
                                                 !.after = skip[c].from - 1,
                                                 !.upto = skip[c].to]]
    /\ skip' = [skip EXCEPT ![c] = NoSkip]
    /\ UNCHANGED <<table, reg, opened, cursor, dead, doomed, out, snd, arrivals,
                   handed, newest, got>>

-----------------------------------------------------------------------------
(* The recipient: its connections, what it reads and acks.                  *)

\* register: the new connection starts draining; the one it replaces is kicked.
register ==
    /\ opened < MaxConns
    /\ opened' = opened + 1 /\ reg' = opened + 1
    /\ dead' = [dead EXCEPT ![opened + 1] = FALSE]
    /\ doomed' = [c \in Conns |-> IF c = opened + 1 THEN FALSE ELSE doomed[c] \/ c = reg]
    /\ drain' = [drain EXCEPT ![opened + 1] = [NoDrain EXCEPT !.pc = "claim"]]
    /\ UNCHANGED <<table, draining, cursor, skip, out, snd, arrivals, handed, newest, got>>

\* The peer goes away, or its socket fails.
disconnect(c) ==
    /\ ~dead[c] /\ ~doomed[c]
    /\ doomed' = [doomed EXCEPT ![c] = TRUE]
    /\ UNCHANGED <<table, reg, opened, draining, cursor, skip, dead, out, drain, snd,
                   arrivals, handed, newest, got>>

\* dieLocked: the connections C refuse every further send and what waits in
\* their buffers is dropped.
die(C) ==
    /\ dead' = [c \in Conns |-> dead[c] \/ c \in C]
    /\ doomed' = [c \in Conns |-> doomed[c] \/ c \in C]
    /\ out' = [c \in Conns |-> IF c \in C THEN <<>> ELSE out[c]]
    /\ draining' = [c \in Conns |-> draining[c] \/ c \in C]
    /\ cursor' = [c \in Conns |-> IF c \in C THEN 0 ELSE cursor[c]]
    /\ skip' = [c \in Conns |-> IF c \in C THEN NoSkip ELSE skip[c]]
    /\ handed' = [c \in Conns |-> IF c \in C THEN {} ELSE handed[c]]
    /\ newest' = [c \in Conns |-> IF c \in C THEN [s \in Senders |-> 0] ELSE newest[c]]

\* evict: a frame for someone else needs this connection's share of the budget.
evict(c) ==
    /\ "evict" \in Events /\ ~dead[c]
    /\ die({c})
    /\ UNCHANGED <<table, reg, opened, drain, snd, arrivals, got>>

\* unregister, when the connection's read loop ends.
unregister(c) ==
    /\ doomed[c] /\ reg = c
    /\ reg' = 0
    /\ UNCHANGED <<table, opened, conn, snd, arrivals, got>>

\* release: the connection is over.
release(c) ==
    /\ doomed[c] /\ ~dead[c] /\ reg # c
    /\ die({c})
    /\ UNCHANGED <<table, reg, opened, drain, snd, arrivals, got>>

\* writeLoop writes the next frame; the recipient has it.
written(c) ==
    /\ ~dead[c] /\ out[c] # <<>>
    /\ got' = got \cup {Head(out[c])}
    /\ out' = [out EXCEPT ![c] = Tail(@)]
    /\ UNCHANGED <<table, reg, opened, draining, cursor, skip, dead, doomed, drain,
                   snd, handed, newest, arrivals>>

\* The recipient acks an envelope it has received: its row is deleted.
ack(e) ==
    /\ reg # 0 /\ e \in got
    /\ rows' = {r \in rows : ~(r.from = e.from /\ r.id = e.id)}
    /\ UNCHANGED <<H, nextSeq, reg, opened, conn, snd, arrivals, got>>

-----------------------------------------------------------------------------
(* Time and the sweeper.                                                    *)

\* A row's TTL passes.
expire(r) ==
    /\ "expire" \in Events /\ Fresh(r)
    /\ rows' = (rows \ {r}) \cup {[r EXCEPT !.expired = TRUE]}
    /\ UNCHANGED <<H, nextSeq, reg, opened, conn, snd, arrivals, got>>

\* sweepBatch deletes expired rows, oldest first.
sweepBatch ==
    LET E == {r \in rows : r.expired} IN
    /\ E # {}
    /\ rows' = rows \ {Oldest(E)}
    /\ UNCHANGED <<H, nextSeq, reg, opened, conn, snd, arrivals, got>>

\* pruneBatch deletes the delivered mark of a key with no row left.
pruneDelivered ==
    /\ rows = {} /\ H # 0
    /\ H' = 0
    /\ UNCHANGED <<rows, nextSeq, reg, opened, conn, snd, arrivals, got>>

\* The relay process stops and starts again: the tables stay, the rest is gone.
restart ==
    /\ "restart" \in Events
    /\ reg' = 0
    /\ die(Conns)
    /\ drain' = [c \in Conns |-> NoDrain] /\ snd' = [s \in Senders |-> Reading]
    /\ UNCHANGED <<table, opened, arrivals, got>>

Relaying(s) == direct(s) \/ add(s) \/ lookup(s) \/ arm(s)
probe(c) == probeDone(c) \/ probeRefused(c) \/ probePaid(c)
Draining(c) == claim(c) \/ drainEnds(c) \/ probe(c) \/ nextRange(c) \/ sendBatch(c)

QueueNext ==
    \/ \E s \in Senders, id \in Ids : route(s, id)
    \/ \E s \in Senders : Relaying(s)
    \/ \E c \in Conns : \/ Draining(c) \/ retrySkipped(c)
                        \/ disconnect(c) \/ evict(c) \/ unregister(c) \/ release(c) \/ written(c)
    \/ register
    \/ \E e \in got : ack(e)
    \/ \E r \in rows : expire(r)
    \/ sweepBatch \/ pruneDelivered \/ restart

QueueSpec == QueueInit /\ [][QueueNext]_queueVars

(* Goroutines run; the peer reads; the sweeper ticks; the redelivery buckets *)
(* refill, so a redelivery asked for again and again is paid some day.       *)
QueueFairness ==
    /\ \A s \in Senders : WF_queueVars(Relaying(s))
    /\ \A c \in Conns : /\ WF_queueVars(Draining(c)) /\ SF_queueVars(probePaid(c))
                         /\ WF_queueVars(retrySkipped(c)) /\ WF_queueVars(written(c))
                         /\ WF_queueVars(unregister(c))

FairQueueSpec == QueueSpec /\ QueueFairness

-----------------------------------------------------------------------------
Frames == [from : Senders, id : Ids]
Rows == [seq : Seqs, from : Senders, id : Ids, n : 1..MaxArrivals, expired : BOOLEAN,
         firsts : Nat]

\* Type invariant of the tables, the connections and the goroutines.
QueueTypeOK ==
    /\ rows \subseteq Rows /\ H \in 0..MaxArrivals /\ nextSeq \in 1..(MaxArrivals + 1)
    /\ reg \in 0..MaxConns /\ opened \in 0..MaxConns
    /\ draining \in [Conns -> BOOLEAN] /\ cursor \in [Conns -> 0..MaxArrivals]
    /\ skip \in [Conns -> [from : 0..MaxArrivals, to : 0..MaxArrivals]]
    /\ dead \in [Conns -> BOOLEAN] /\ doomed \in [Conns -> BOOLEAN]
    /\ \A c \in Conns : out[c] \in Seq(Frames) /\ Len(out[c]) <= OutCap
    /\ \A c \in Conns : /\ drain[c].pc \in {"idle", "claim", "probe", "range", "send"}
                        /\ drain[c].batch \subseteq Rows
                        /\ drain[c].pc = "send" => drain[c].batch # {}
    /\ \A s \in Senders : /\ snd[s].pc \in {"idle", "direct", "add", "lookup", "arm"}
                          /\ snd[s].pc \in {"direct", "arm"} => snd[s].dst \in Conns
    /\ arrivals \in 0..MaxArrivals
    /\ handed \in [Conns -> SUBSET Seqs] /\ newest \in [Conns -> [Senders -> 0..MaxArrivals]]
    /\ got \subseteq Frames

\* A connection whose flag says "draining" has a drain at work, and one whose
\* drain is at work says so, as long as it is not going away: conn.draining set
\* with no goroutine would hold back every later envelope, a goroutine without
\* the flag would let direct envelopes overtake the backlog (relay.go arm,
\* drainStep, startRetry).
DrainMatchesFlag ==
    \A c \in Conns :
        /\ ~draining[c] => drain[c].pc = "idle"
        /\ drain[c].pc = "idle" /\ draining[c] => doomed[c]

\* No envelope is stranded in the queue: when the recipient's connection is on
\* direct forwarding, every unexpired row was handed to that connection, or is
\* in the range recorded for the retry, or its sender is about to arm the
\* connection (relay.go enqueue, drainStep, skipRedelivery).
NoRowStranded ==
    \A c \in Conns : reg = c /\ ~doomed[c] /\ ~draining[c] =>
        \A r \in rows : Fresh(r) =>
            \/ r.seq \in handed[c]
            \/ r.seq \in skip[c].from..skip[c].to
            \/ \E s \in Senders : /\ r.from = s /\ r.id = snd[s].id
                                  /\ \/ snd[s].pc = "lookup"
                                     \/ snd[s].pc = "arm" /\ snd[s].dst = c

\* No row is a first delivery twice: claim raises the delivered mark before a
\* frame is sent, so a later connection, a replaced one still draining, or a
\* restarted relay pays for it as a redelivery (queue.go claim, pruneDelivered).
FirstDeliveryOnce == \A r \in rows : r.firsts <= 1

\* The queue's rows, the connections' flags and the drains fit together.
QueueKeepsRows == QueueTypeOK /\ DrainMatchesFlag /\ NoRowStranded /\ FirstDeliveryOnce

\* Envelopes of one sender are handed to one connection in the order the relay
\* read them: a direct envelope never overtakes the backlog, nor a batch a
\* direct one (conn.go direct, relay.go drainStep).  Redeliveries are exempt.
InOrder ==
    [][\A c \in Conns, s \in Senders : ~dead'[c] => newest'[c][s] >= newest[c][s]]_queueVars

\* A stored envelope reaches the recipient: while a connection stays, every
\* unexpired row is in the end handed to it, whatever is acked, skipped for want
\* of budget or armed meanwhile (relay.go drainStep, retrySkippedAt).
EveryRowHanded ==
    \A c \in Conns, n \in Seqs :
        (reg = c /\ \E r \in rows : r.seq = n /\ Fresh(r))
            ~> (reg # c \/ n \in handed[c] \/ ~\E r \in rows : r.seq = n /\ Fresh(r))

=============================================================================
