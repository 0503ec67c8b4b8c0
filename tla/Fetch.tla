-------------------------------- MODULE Fetch --------------------------------
(***************************************************************************)
(* Reading through a grant: the grantor's fetch server (internal/          *)
(* capability/fetch.go) and the holder's fetch client (internal/daemon/    *)
(* fetch_client.go), joined by the Noise session, which loses, duplicates  *)
(* and reorders here.  A request is named by the fetch and the attempt,    *)
(* <<o, n>>.  Every section under the server's or the client's mutex, every *)
(* read of the grants table and every send is a step of its own.           *)
(***************************************************************************)
EXTENDS Integers, FiniteSets, FiniteSetsExt, Sequences

CONSTANTS
    Fetches,     \* fetches the holder's user may start
    FetchLimits  \* instances: records of the bounds of the code and of the run

VARIABLES
    fl,       \* the instance: see FetchFields
    op,       \* client: each fetch
    net,      \* [req, resp]: messages under way
    queue,    \* server: queued jobs
    job,      \* server: where each job is (the first or second copy of a request)
    inflight, \* [peer, grant, rejects]: the server's counters
    rate,     \* operations counted in the current second
    window,   \* byteWindow of the grant: [hour, b]
    seen,     \* request id -> time it was recorded, or -1
    aud,      \* [rows, ops, written, summed]: the audit window of the grant
    gstate,   \* the grant's row and session at the grantor: usable, paused, revoked
    clock,    \* [tick, hour]
    stopping,   \* the server is being closed
    budget,   \* [faults, dups] left to the surroundings
    fhist     \* [served, late, bytes]: times served, fragments sent late, bytes per hour

fetchVars == <<fl, op, net, queue, job, inflight, rate, window, seen, aud, gstate,
               clock, stopping, budget, fhist>>

FetchFields == {"fetches", "perPeer", "perGrant", "rejects", "queue", "workers", "perSecond",
                "bytes", "buckets", "frags", "past", "future", "remember", "retries", "rows",
                "ticks", "hours", "faults", "dups", "close", "kinds", "changes"}

Attempts == 0..1
Reqs == Fetches \X Attempts
Jobs == Reqs \X {1, 2}

NoJob == [at |-> "none", sent |-> 0, hour |-> 0, counted |-> FALSE, slot |-> FALSE]
NewOp == [state |-> "none", read |-> TRUE, n |-> 0, ts |-> [n \in Attempts |-> 0],
          parts |-> [k \in {} |-> 0], retries |-> 0]

FetchInit ==
    /\ fl \in FetchLimits
    /\ op = [o \in Fetches |-> NewOp]
    /\ net = [req |-> {}, resp |-> {}]
    /\ queue = <<>>
    /\ job = [j \in Jobs |-> NoJob]
    /\ inflight = [peer |-> 0, grant |-> 0, rejects |-> 0]
    /\ rate = 0
    /\ window = [hour |-> 0, b |-> [i \in 0..(fl.buckets - 1) |-> 0]]
    /\ seen = [r \in Reqs |-> -1]
    /\ aud = [rows |-> 0, ops |-> 0, written |-> 0, summed |-> 0]
    /\ gstate = "usable"
    /\ clock = [tick |-> 0, hour |-> 0] /\ stopping = FALSE
    /\ budget = [faults |-> fl.faults, dups |-> fl.dups]
    /\ fhist = [served |-> [r \in Reqs |-> 0], late |-> [j \in Jobs |-> 0],
                bytes |-> [h \in 0..fl.hours |-> 0]]

clientVars == <<op>>
serverVars == <<queue, job, inflight, rate, window, seen, aud>>
aroundVars == <<fl, gstate, clock, stopping>>

Fails == budget.faults > 0 /\ budget' = [budget EXCEPT !.faults = @ - 1]
Works == UNCHANGED budget

-----------------------------------------------------------------------------
(* The client                                                              *)

fetchPending(o) == op[o].state = "pending"

\* admit and the send: at most two fetches per peer; a fetch whose request
\* cannot be sent is forgotten.
start(o, read, skew) ==
    /\ op[o].state = "none" /\ o \in fl.fetches
    /\ Cardinality({x \in Fetches : fetchPending(x)}) < fl.perPeer
    /\ \/ /\ Works
          /\ op' = [op EXCEPT ![o] = [NewOp EXCEPT !.state = "pending", !.read = read, !.ts[0] = clock.tick + skew]]
          /\ net' = [net EXCEPT !.req = @ \cup {<<o, 0>>}]
       \/ /\ Fails
          /\ op' = [op EXCEPT ![o].state = "forgotten"]
          /\ UNCHANGED net
    /\ UNCHANGED <<serverVars, aroundVars, fhist>>

\* Responses a fetch needs: the fragments of a read, one for stat and list.
Frags(o) == IF op[o].read THEN fl.frags ELSE 1

finishLocked(o, state) == op' = [op EXCEPT ![o].state = state, ![o].parts = [k \in {} |-> 0]]

BugOnlyWhole(o) ==
    /\ fetchPending(o) /\ op[o].n = 0
    /\ finishLocked(o, "failed")
    /\ UNCHANGED <<net, serverVars, aroundVars, budget, fhist>>

\* tick: the deadline, or a read with a missing fragment is sent again whole
\* under a new request id.
tickDeadline(o) ==
    /\ fetchPending(o)
    /\ finishLocked(o, "failed")
    /\ UNCHANGED <<net, serverVars, aroundVars, budget, fhist>>

BugKeepsParts(o) ==
    /\ fetchPending(o)
    /\ Cardinality(DOMAIN op[o].parts) \in 1..(Frags(o) - 1)
    /\ op[o].retries < fl.retries
    /\ op' = [op EXCEPT ![o].retries = @ + 1, ![o].n = @ + 1, ![o].ts[op[o].n + 1] = clock.tick]
    /\ Works /\ net' = [net EXCEPT !.req = @ \cup {<<o, op[o].n + 1>>}]
    /\ UNCHANGED <<serverVars, aroundVars, fhist>>

tickRetry(o) ==
    /\ fetchPending(o)
    /\ Cardinality(DOMAIN op[o].parts) \in 1..(Frags(o) - 1)
    /\ op[o].retries < fl.retries
    /\ op' = [op EXCEPT ![o].retries = @ + 1, ![o].n = @ + 1,
                        ![o].parts = [k \in {} |-> 0], ![o].ts[op[o].n + 1] = clock.tick]
    /\ \/ Works /\ net' = [net EXCEPT !.req = @ \cup {<<o, op[o].n + 1>>}]
       \/ Fails /\ UNCHANGED net
    /\ UNCHANGED <<serverVars, aroundVars, fhist>>

\* onResp takes only an answer to the current attempt of a pending fetch.
Current(m) == fetchPending(m.r[1]) /\ op[m.r[1]].n = m.r[2]

\* A message leaves the network when it is delivered, unless it is doubled.
Taken(kind, m) ==
    \/ net' = [net EXCEPT ![kind] = @ \ {m}] /\ UNCHANGED budget
    \/ budget.dups > 0 /\ budget' = [budget EXCEPT !.dups = @ - 1] /\ UNCHANGED net

onFragLocked(o, m) ==
    LET have == DOMAIN op[o].parts \cup {m.frag}
        all == [k \in have |-> IF k \in DOMAIN op[o].parts THEN op[o].parts[k] ELSE m.r]
    IN  IF Cardinality(have) < Frags(o)
        THEN op' = [op EXCEPT ![o].parts = all]
        ELSE op' = [op EXCEPT ![o].state = "complete", ![o].parts = all]

onResp(m) ==
    /\ m \in net.resp
    /\ Taken("resp", m)
    /\ IF ~Current(m) THEN UNCHANGED op
       ELSE IF m.frag = -1 THEN finishLocked(m.r[1], "failed")
       ELSE onFragLocked(m.r[1], m)
    /\ UNCHANGED <<serverVars, aroundVars, fhist>>

-----------------------------------------------------------------------------
(* The server's queue and limits                                           *)

BugKeepsReject(c, b) == IF b.counted THEN [c EXCEPT !.peer = @ - 1] ELSE c

Free(c, b) == IF b.counted THEN [c EXCEPT !.peer = @ - 1] ELSE [c EXCEPT !.rejects = @ - 1]

\* Handle reserves a slot, or one of a few answers "rate limited", and
\* queues; a full queue gives the slot back.
Handle(r) ==
    /\ r \in net.req
    /\ Taken("req", r)
    /\ \E c \in {1, 2} :
       /\ job[<<r, c>>].at = "none" /\ (c = 2 => job[<<r, 1>>].at # "none")
       /\ LET free == inflight.peer < fl.perPeer
              b == [NoJob EXCEPT !.at = "queued", !.counted = free]
              reserved == IF free THEN [inflight EXCEPT !.peer = @ + 1]
                          ELSE [inflight EXCEPT !.rejects = @ + 1]
          IN  IF stopping \/ (~free /\ inflight.rejects >= fl.rejects)
              THEN UNCHANGED <<queue, job, inflight>>
              ELSE IF Len(queue) < fl.queue
              THEN /\ queue' = Append(queue, <<r, c>>)
                   /\ job' = [job EXCEPT ![<<r, c>>] = b]
                   /\ inflight' = reserved
              ELSE inflight' = Free(reserved, b) /\ UNCHANGED <<queue, job>>
    /\ UNCHANGED <<clientVars, rate, window, seen, aud, aroundVars, fhist>>

Running == {j \in Jobs : job[j].at \notin {"none", "queued", "done"}}

\* A worker takes the next job.
worker ==
    /\ queue # <<>> /\ ~stopping /\ Cardinality(Running) < fl.workers
    /\ queue' = Tail(queue)
    /\ job' = [job EXCEPT ![Head(queue)].at = IF job[Head(queue)].counted THEN "serve" ELSE "refuse"]
    /\ UNCHANGED <<clientVars, net, inflight, rate, window, seen, aud, aroundVars, budget, fhist>>

\* fetchAudit.record: so many rows a minute, the rest summarised.
Record(a) == IF a.rows < fl.rows
             THEN [a EXCEPT !.rows = @ + 1, !.written = @ + 1]
             ELSE [a EXCEPT !.ops = @ + 1]

respond(j, k) == net' = [net EXCEPT !.resp = @ \cup {[r |-> j[1], frag |-> k]}]
Sends(j, k) == (Works /\ respond(j, k)) \/ (Fails /\ UNCHANGED net)

\* A job ends: both slots are freed before the last answer.
Finish(j) ==
    /\ job' = [job EXCEPT ![j].at = "done", ![j].slot = FALSE]
    /\ inflight' = [Free(inflight, job[j]) EXCEPT !.grant = IF job[j].slot THEN @ - 1 ELSE @]

\* run for a job over the limits: no audit row.
runRefused(j) ==
    /\ job[j].at = "refuse"
    /\ Finish(j) /\ Sends(j, -1)
    /\ UNCHANGED <<clientVars, queue, rate, window, seen, aud, aroundVars, fhist>>

EndsWithError(j) == Finish(j) /\ aud' = Record(aud) /\ Sends(j, -1)

\* The time stamp, then authorize: the grant's row, its session, its expiry.
Stale(ts) == ts < clock.tick - fl.past \/ ts > clock.tick + fl.future

authorize(j) ==
    /\ job[j].at = "serve"
    /\ IF Stale(op[j[1][1]].ts[j[1][2]]) \/ gstate # "usable"
       THEN EndsWithError(j)
       ELSE /\ job' = [job EXCEPT ![j].at = "admit", ![j].hour = clock.hour]
            /\ UNCHANGED <<net, inflight, aud, budget>>
    /\ UNCHANGED <<clientVars, queue, rate, window, seen, aroundVars, fhist>>

BugForgetsEarly(r) == seen[r] # -1 /\ clock.tick - seen[r] < fl.remember

\* markSeen: a request id inside its window is refused.
Remembered(r) == seen[r] # -1 /\ clock.tick - seen[r] <= fl.remember

\* byteWindow: a ring of hours; roll clears those that fell out.
roll(w, h) ==
    IF h <= w.hour THEN w
    ELSE [hour |-> h,
          b |-> [i \in DOMAIN w.b |->
                    IF \E x \in (w.hour + 1)..h : x % fl.buckets = i THEN 0 ELSE w.b[i]]]

sum(w) == MapThenSumSet(LAMBDA i : w.b[i], DOMAIN w.b)

BugNoBudget(w) == inflight.grant >= fl.perGrant \/ rate >= fl.perSecond

BugNoRate(w) == inflight.grant >= fl.perGrant \/ sum(w) >= fl.bytes

\* The limits of the grant: in flight, per second, bytes per day.
OverLimits(w) == inflight.grant >= fl.perGrant \/ rate >= fl.perSecond \/ sum(w) >= fl.bytes

admit(j) ==
    /\ job[j].at = "admit"
    /\ LET r == j[1]
           rolled == roll(window, job[j].hour)
       IN  /\ seen' = IF Remembered(r) THEN seen ELSE [seen EXCEPT ![r] = clock.tick]
           /\ window' = IF Remembered(r) THEN window ELSE rolled
           /\ IF Remembered(r) \/ OverLimits(rolled)
              THEN EndsWithError(j) /\ UNCHANGED <<rate, fhist>>
              ELSE /\ rate' = rate + 1
                   /\ inflight' = [inflight EXCEPT !.grant = @ + 1]
                   /\ job' = [job EXCEPT ![j].at = IF op[r[1]].read THEN "check" ELSE "meta", ![j].slot = TRUE]
                   /\ fhist' = [fhist EXCEPT !.served[r] = @ + 1]
                   /\ UNCHANGED <<net, aud, budget>>
    /\ UNCHANGED <<clientVars, queue, aroundVars>>

\* stat and list: one answer.
serveMeta(j) ==
    /\ job[j].at = "meta"
    /\ Finish(j) /\ aud' = Record(aud) /\ Sends(j, 0)
    /\ UNCHANGED <<clientVars, queue, rate, window, seen, aroundVars, fhist>>

\* The path is refused or the backend fails.
backendFails(j) ==
    /\ job[j].at \in {"meta", "check"}
    /\ Fails
    /\ Finish(j) /\ aud' = Record(aud) /\ respond(j, -1)
    /\ UNCHANGED <<clientVars, queue, rate, window, seen, aroundVars, fhist>>

BugChecksOnce(j) ==
    /\ job[j].at = "check"
    /\ IF gstate # "usable" /\ job[j].sent = 0 THEN EndsWithError(j)
       ELSE job' = [job EXCEPT ![j].at = "send"] /\ UNCHANGED <<net, inflight, aud, budget>>
    /\ UNCHANGED <<clientVars, queue, rate, window, seen, aroundVars, fhist>>

\* recheck, before every fragment.
recheck(j) ==
    /\ job[j].at = "check"
    /\ IF gstate # "usable" THEN EndsWithError(j)
       ELSE job' = [job EXCEPT ![j].at = "send"] /\ UNCHANGED <<net, inflight, aud, budget>>
    /\ UNCHANGED <<clientVars, queue, rate, window, seen, aroundVars, fhist>>

addServed(j) ==
    LET w == roll(window, job[j].hour)
    IN  window' = [w EXCEPT !.b[w.hour % fl.buckets] = @ + 1]

\* One fragment: counted, then the slots and the audit row if it is the
\* last, then sent; a send that fails ends the read.
sendFragment(j) ==
    /\ job[j].at = "send"
    /\ addServed(j)
    /\ IF job[j].sent = fl.frags - 1
       THEN Finish(j) /\ aud' = Record(aud) /\ Sends(j, job[j].sent)
       ELSE \/ /\ job' = [job EXCEPT ![j].at = "check", ![j].sent = @ + 1]
               /\ Works /\ respond(j, job[j].sent)
               /\ UNCHANGED <<inflight, aud>>
            \/ Finish(j) /\ aud' = Record(aud) /\ Fails /\ UNCHANGED net
    /\ fhist' = [fhist EXCEPT !.bytes[clock.hour] = @ + 1,
                              !.late[j] = IF gstate = "revoked" THEN @ + 1 ELSE @]
    /\ UNCHANGED <<clientVars, queue, rate, seen, aroundVars>>

BugDropsOps(a) == [a EXCEPT !.rows = 0, !.ops = 0]

\* Flush and record write the summary of a finished minute; requests past
\* their time are forgotten, and so is a window of hours long gone.
takeSummary(a) == [a EXCEPT !.rows = 0, !.summed = @ + a.ops, !.ops = 0]

Flush ==
    /\ aud' = takeSummary(aud)
    /\ seen' = [r \in Reqs |-> IF Remembered(r) THEN seen[r] ELSE -1]
    /\ window' = IF clock.hour - window.hour >= fl.buckets
                 THEN [hour |-> clock.hour, b |-> [i \in DOMAIN window.b |-> 0]] ELSE window
    /\ <<aud, seen, window>>' # <<aud, seen, window>>
    /\ UNCHANGED <<clientVars, net, queue, job, inflight, rate, aroundVars, budget, fhist>>

\* Close takes no more jobs; the summary is written once the workers stopped.
CloseServer ==
    /\ fl.close
    /\ \/ ~stopping /\ stopping' = TRUE /\ UNCHANGED aud
       \/ stopping /\ Running = {} /\ aud.ops > 0 /\ aud' = takeSummary(aud) /\ UNCHANGED stopping
    /\ UNCHANGED <<clientVars, net, queue, job, inflight, rate, window, seen, fl, gstate, clock, budget, fhist>>

-----------------------------------------------------------------------------
(* Around them                                                             *)

Lose(kind, m) ==
    /\ m \in net[kind] /\ Fails
    /\ net' = [net EXCEPT ![kind] = @ \ {m}]
    /\ UNCHANGED <<clientVars, serverVars, aroundVars, fhist>>

\* grant_revoke, the session's close or exp; a result and a change request.
GrantChanges ==
    /\ fl.changes
    /\ \/ gstate # "revoked" /\ gstate' = "revoked"
       \/ gstate = "usable" /\ gstate' = "paused" /\ Fails
       \/ gstate = "paused" /\ gstate' = "usable"
    /\ IF gstate' = "paused" THEN TRUE ELSE UNCHANGED budget
    /\ UNCHANGED <<clientVars, net, serverVars, fl, clock, stopping, fhist>>

TimePasses ==
    \* A tick is 30 s: no job is that long between reading the clock and markSeen.
    /\ \/ /\ clock.tick < fl.ticks /\ \A j \in Jobs : job[j].at # "admit"
          /\ clock' = [clock EXCEPT !.tick = @ + 1] /\ UNCHANGED rate
       \* opBudget ends a job long before it could see two hours end.
       \/ /\ clock.hour < fl.hours
          /\ \A j \in Running : job[j].hour = clock.hour \/ job[j].at = "serve"
          /\ clock' = [clock EXCEPT !.hour = @ + 1] /\ UNCHANGED rate
       \/ rate > 0 /\ rate' = 0 /\ UNCHANGED clock
    /\ UNCHANGED <<clientVars, net, queue, job, inflight, window, seen, aud, fl, gstate, stopping, budget, fhist>>

FetchNext ==
    \/ \E o \in Fetches : \/ \E read \in fl.kinds, skew \in 0..fl.future : start(o, read, skew)
                           \/ tickDeadline(o) \/ tickRetry(o)
    \/ \E r \in Reqs : Handle(r) \/ Lose("req", r)
    \/ \E j \in Jobs : \/ runRefused(j) \/ authorize(j) \/ admit(j) \/ serveMeta(j)
                       \/ backendFails(j) \/ recheck(j) \/ sendFragment(j)
    \/ \E m \in net.resp : onResp(m) \/ Lose("resp", m)
    \/ worker \/ Flush \/ CloseServer \/ GrantChanges \/ TimePasses

FetchSpec == FetchInit /\ [][FetchNext]_fetchVars

\* The worker pool runs while the daemon does, every job has a time budget,
\* and the janitor ticks.
FetchFairness ==
    /\ WF_fetchVars(worker)
    /\ WF_fetchVars(\E j \in Jobs : \/ runRefused(j) \/ authorize(j) \/ admit(j)
                                     \/ serveMeta(j) \/ recheck(j) \/ sendFragment(j))
    /\ WF_fetchVars(\E o \in Fetches : tickDeadline(o))

FetchFairSpec == FetchSpec /\ FetchFairness

-----------------------------------------------------------------------------
(* Properties                                                              *)

FetchTypeOK ==
    /\ DOMAIN fl = FetchFields
    /\ \A o \in Fetches : op[o].state \in {"none", "pending", "complete", "failed", "forgotten"}
    /\ net.req \subseteq Reqs
    /\ \A j \in Jobs : job[j].at \in {"none", "queued", "serve", "refuse", "admit", "meta", "check", "send", "done"}
    /\ gstate \in {"usable", "paused", "revoked"}
    /\ rate \in 0..fl.perSecond /\ Len(queue) <= fl.queue

\* The counters say exactly which jobs hold a slot: no path through Handle,
\* run and serve frees one twice or keeps one (OnceFunc, release).
SlotsAreExact ==
    LET open == {j \in Jobs : job[j].at \notin {"none", "done"}}
    IN  /\ inflight.peer = Cardinality({j \in open : job[j].counted})
        /\ inflight.rejects = Cardinality({j \in open : ~job[j].counted})
        /\ inflight.grant = Cardinality({j \in Jobs : job[j].slot})
        /\ inflight.peer <= fl.perPeer /\ inflight.grant <= fl.perGrant

\* A request is served at most once for as long as its time stamp is taken,
\* even after its id was pruned: reqRemember outlasts tsPast plus tsFuture.
ServedOnce == \A r \in Reqs : fhist.served[r] <= 1

\* After a revoke commits, a read under way sends at most the one fragment
\* that had already passed its check.
RevokeStopsReads == \A j \in Jobs : fhist.late[j] <= 1

\* Bytes of the hours the budget speaks of: the current one and the ones
\* before it, one fewer than the buckets kept.
RecentBytes ==
    MapThenSumSet(LAMBDA h : fhist.bytes[h],
                  {h \in 0..fl.hours : h <= clock.hour /\ h > clock.hour - (fl.buckets - 1)})

\* The bytes of a rolling day stay below the budget plus the operations that
\* were admitted before it was reached, one per slot of the grant.
BudgetHolds == RecentBytes <= fl.bytes - 1 + fl.perGrant * fl.frags

\* Every finished operation is in the audit log once: as its own row or in
\* a summary, written or still to be written.
AuditLosesNothing ==
    aud.written + aud.summed + aud.ops =
        Cardinality({j \in Jobs : job[j].at = "done" /\ job[j].counted})

\* What the user gets was sent in answer to one attempt, complete; fragments
\* of an attempt given up are never mixed in.
OneAttempt ==
    \A o \in Fetches :
        /\ \A k \in DOMAIN op[o].parts : op[o].parts[k] = <<o, op[o].n>>
        /\ op[o].state = "complete" => DOMAIN op[o].parts = 0..(Frags(o) - 1)

\* The holder's daemon serves what it may, once, and accounts for it.
ReadsAreAccounted ==
    /\ FetchTypeOK /\ SlotsAreExact /\ ServedOnce /\ RevokeStopsReads
    /\ BudgetHolds /\ AuditLosesNothing /\ OneAttempt

\* A finished fetch does not change again, whatever arrives late.
AnswersStand ==
    [][\A o \in Fetches : op[o].state \in {"complete", "failed", "forgotten"} => op'[o] = op[o]]_fetchVars

\* Every fetch comes to an end and every slot comes back, and no end is taken back.
FetchesEnd ==
    /\ AnswersStand
    /\ <>[](/\ \A o \in Fetches : ~fetchPending(o)
            /\ stopping \/ \A j \in Jobs : job[j].at \in {"none", "done"})
=============================================================================
