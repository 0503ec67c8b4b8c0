------------------------------- MODULE Webhook -------------------------------
(***************************************************************************)
(* Notifications (internal/notify): the trigger that takes lifecycle       *)
(* events one at a time, the webhook queue and its delivery worker, the    *)
(* webhook settings that notify_set changes (internal/daemon/notify.go),   *)
(* and the key backends that hold the signing secret (internal/keystore).  *)
(*                                                                         *)
(* A trigger goroutine, the worker and the notify_set calls each take      *)
(* several steps on the settings, the secret and the queue, and interleave *)
(* there.  The worker reads a batch of rows and works it off later.        *)
(***************************************************************************)
EXTENDS Naturals, Sequences, FiniteSets, SequencesExt, FiniteSetsExt

CONSTANTS Events,         \* lifecycle events, and their queue rows
          HookCalls,      \* the notify_set calls
          maxQueued, queueMaxRows, deliverBatch,
          retryDelays,    \* the delays between the attempts
          queueMaxAge, queueRetention, retryDelayCap,
          Hooks           \* the instances

VARIABLES hook,           \* the instance, an element of Hooks
          wtime,          \* the clock
          queued,         \* Trigger.queued
          firing,         \* event -> where its Fire is
          webhook,        \* the setting notify.webhook
          copies,         \* key backend -> the secret it holds, 0 when none
          locked,         \* the keychain cannot be reached now
          webhook_queue,  \* event -> its row
          worker,         \* Webhook.Run
          hcalls,         \* where each notify_set call is
          posts,          \* what was posted
          hused           \* the bounds used up

rowVars  == <<webhook_queue, worker, posts>>
setVars  == <<webhook, copies, locked, hcalls>>
fireVars == <<queued, firing>>
hookVars == <<hook, wtime, fireVars, setVars, rowVars, hused>>

-----------------------------------------------------------------------------
(* The key backends: the keychain first, then a file. *)

Backends == <<"keychain", "file">>
reachable(b) == b = "file" \/ ~locked

\* Save: to the first backend that takes it; a copy in the other one is
\* removed, or stays while that one is locked.
Save(secret) ==
    IF locked THEN [copies EXCEPT !["file"] = secret]
    ELSE [copies EXCEPT !["keychain"] = secret, !["file"] = 0]

\* Pick: the first copy whose hash is the one the settings hold; 0 when no
\* backend that can be read holds it.
Pick(hash) ==
    LET held == SelectSeq(Backends, LAMBDA b : reachable(b) /\ copies[b] = hash)
    IN  IF held = <<>> THEN 0 ELSE copies[Head(held)]

\* DeleteSaved: every backend that can be reached; a locked one is an error.
DeleteSaved == [b \in DOMAIN copies |-> IF reachable(b) THEN 0 ELSE copies[b]]

-----------------------------------------------------------------------------
(* The queue, Queue's methods on webhook_queue. *)

NoRow == [state |-> "none", attempts |-> 0, next |-> 0, created |-> 0, updated |-> 0]
NoWebhook == [url |-> 0, hash |-> 0]

Pending == {e \in Events : webhook_queue[e].state = "pending"}
oldestOf(es) == {e \in es : \A f \in es : webhook_queue[e].created <= webhook_queue[f].created}

\* Enqueue: a full table drops its oldest pending row first.
overflowOldest(q, old) == [q EXCEPT ![old].state = "failed", ![old].updated = wtime]
Enqueue(e) ==
    LET row == [NoRow EXCEPT !.state = "pending", !.next = wtime, !.created = wtime,
                             !.updated = wtime]
    IN  IF Cardinality(Pending) >= queueMaxRows
        THEN \E old \in oldestOf(Pending) :
                webhook_queue' = [overflowOldest(webhook_queue, old) EXCEPT ![e] = row]
        ELSE webhook_queue' = [webhook_queue EXCEPT ![e] = row]

\* due: the pending rows whose time has come, the longest due first.
Due == {e \in Pending : webhook_queue[e].next <= wtime}
batches ==
    LET n == IF Cardinality(Due) < deliverBatch THEN Cardinality(Due) ELSE deliverBatch
    IN  {s \in [1 .. n -> Due] :
            /\ \A i, j \in 1 .. n : i < j => s[i] # s[j] /\
                  webhook_queue[s[i]].next <= webhook_queue[s[j]].next
            /\ \A e \in Due \ Range(s), i \in 1 .. n :
                  webhook_queue[s[i]].next <= webhook_queue[e].next}

MarkSent(e, now) ==
    webhook_queue' = [webhook_queue EXCEPT ![e].state = "sent", ![e].attempts = @ + 1,
                                           ![e].updated = now]
MarkFailed(e, now) ==
    webhook_queue' = [webhook_queue EXCEPT ![e].state = "failed", ![e].attempts = @ + 1,
                                           ![e].updated = now]

\* Mutant: a retry makes the row pending again.
BugRevives(e, at, now) ==
    webhook_queue' = [webhook_queue EXCEPT ![e].state = "pending", ![e].attempts = @ + 1,
                                           ![e].next = at, ![e].updated = now]

\* MarkRetry leaves the state alone: a row failed meanwhile stays failed.
MarkRetry(e, at, now) ==
    webhook_queue' = [webhook_queue EXCEPT ![e].attempts = @ + 1, ![e].next = at,
                                           ![e].updated = now]

FailAllPending ==
    [e \in Events |-> IF e \in Pending
                      THEN [webhook_queue[e] EXCEPT !.state = "failed", !.updated = wtime]
                      ELSE webhook_queue[e]]

\* Purge: the final rows older than the retention.
Purge ==
    /\ worker.pc = "idle"
    /\ \E e \in Events : webhook_queue[e].state \in {"sent", "failed"}
                         /\ webhook_queue[e].updated + queueRetention < wtime
    /\ webhook_queue' = [e \in Events |->
          IF webhook_queue[e].state \in {"sent", "failed"}
             /\ webhook_queue[e].updated + queueRetention < wtime
          THEN [NoRow EXCEPT !.state = "purged"] ELSE webhook_queue[e]]
    /\ UNCHANGED <<hook, wtime, fireVars, setVars, worker, posts, hused>>

\* nextRetry: the delay before the attempt after this one, 0 when exhausted.
nextRetry(attemptsSoFar, retryAfter) ==
    IF attemptsSoFar > Len(retryDelays) THEN 0
    ELSE Min({retryDelayCap, Max({retryDelays[attemptsSoFar], retryAfter})})

-----------------------------------------------------------------------------
(* The trigger. *)

moves(e, pc) == firing' = [firing EXCEPT ![e] = pc]

\* Fire: counted first, then taken or, past maxQueued, counted down again.
Fire(e) ==
    /\ firing[e] = "new"
    /\ queued' = queued + 1
    /\ moves(e, IF queued + 1 > maxQueued THEN "over" ELSE "waiting")
    /\ UNCHANGED <<hook, wtime, setVars, rowVars, hused>>

reportDrop(e) ==
    /\ firing[e] = "over"
    /\ queued' = queued - 1
    /\ moves(e, "dropped")
    /\ UNCHANGED <<hook, wtime, setVars, rowVars, hused>>

\* The goroutine takes showMu: one event at a time.  An event that is off ends
\* here, another is shown on the desktop, whose failure changes nothing.
fire(e) ==
    /\ firing[e] = "waiting" /\ \A f \in Events : firing[f] \notin {"shown", "read"}
    /\ IF e \in hook.off
       THEN moves(e, "done") /\ queued' = queued - 1
       ELSE moves(e, "shown") /\ UNCHANGED queued
    /\ UNCHANGED <<hook, wtime, setVars, rowVars, hused>>

\* fireWebhook: nothing without a webhook; otherwise the row goes in later.
fireWebhook(e) ==
    /\ firing[e] = "shown"
    /\ IF webhook = NoWebhook
       THEN moves(e, "done") /\ queued' = queued - 1
       ELSE moves(e, "read") /\ UNCHANGED queued
    /\ UNCHANGED <<hook, wtime, setVars, rowVars, hused>>

enqueue(e) ==
    /\ firing[e] = "read"
    /\ Enqueue(e)
    /\ moves(e, "done") /\ queued' = queued - 1
    /\ UNCHANGED <<hook, wtime, setVars, worker, posts, hused>>

-----------------------------------------------------------------------------
(* The delivery worker. *)

Waiting == [pc |-> "idle", batch |-> <<>>, now |-> 0, cfg |-> NoWebhook, secret |-> 0]

\* tick reads a batch; its rows are attempted one after the other.
tick ==
    /\ worker.pc = "idle" /\ Due # {}
    /\ \E b \in batches : worker' = [Waiting EXCEPT !.pc = "attempt", !.batch = b]
    /\ UNCHANGED <<hook, wtime, fireVars, setVars, webhook_queue, posts, hused>>

row == Head(worker.batch)
endRow == worker' = IF Len(worker.batch) = 1 THEN Waiting
                    ELSE [Waiting EXCEPT !.pc = "attempt", !.batch = Tail(worker.batch)]

\* attempt reads the settings of now; without a webhook it leaves the row, and
\* a row past its age fails before the POST.
attempt ==
    /\ worker.pc = "attempt"
    /\ IF webhook = NoWebhook
       THEN endRow /\ UNCHANGED webhook_queue
       ELSE IF wtime - webhook_queue[row].created > queueMaxAge
       THEN endRow /\ MarkFailed(row, wtime)
       ELSE /\ worker' = [worker EXCEPT !.pc = "load", !.now = wtime, !.cfg = webhook]
            /\ UNCHANGED webhook_queue
    /\ UNCHANGED <<hook, wtime, fireVars, setVars, posts, hused>>

\* finish: a retry while attempts and age allow it, otherwise the row fails.
finish(e, retryable, retryAfter) ==
    LET so == webhook_queue[e].attempts + 1
        tooOld == worker.now - webhook_queue[e].created > queueMaxAge
        delay == nextRetry(so, retryAfter)
    IN  IF retryable /\ ~tooOld /\ delay # 0
        THEN MarkRetry(e, worker.now + delay, worker.now)
        ELSE MarkFailed(e, worker.now)

\* The secret is the one whose hash the settings named.
loadSecret ==
    /\ worker.pc = "load"
    /\ LET s == Pick(worker.cfg.hash)
       IN  IF s = 0
           THEN endRow /\ finish(row, TRUE, 0)
           ELSE worker' = [worker EXCEPT !.pc = "post", !.secret = s] /\ UNCHANGED webhook_queue
    /\ UNCHANGED <<hook, wtime, fireVars, setVars, posts, hused>>

\* The POST and its outcome: delivered, refused for good (redirect, blocked
\* address, most statuses), or worth another attempt, after Retry-After.
deliver(outcome) ==
    /\ worker.pc = "post"
    /\ posts' = posts \cup {[row |-> row, cfg |-> worker.cfg, secret |-> worker.secret]}
    /\ CASE outcome = "2xx"   -> MarkSent(row, worker.now)
         [] outcome = "4xx"   -> finish(row, FALSE, 0)
         [] outcome = "5xx"   -> finish(row, TRUE, 0)
         [] outcome = "later" -> finish(row, TRUE, retryDelayCap + 1)
    /\ endRow
    /\ UNCHANGED <<hook, wtime, fireVars, setVars, hused>>

-----------------------------------------------------------------------------
(* notify_set, its webhook part (applyWebhookSet). *)

here(c, pc) == hcalls[c].pc = pc
goes(c, pc) == hcalls' = [hcalls EXCEPT ![c].pc = pc]

\* GetWebhook; a rotation needs a webhook, and a first URL brings a secret.
applyWebhookSet(c) ==
    /\ here(c, "new")
    /\ hcalls' = [hcalls EXCEPT ![c] =
          [pc |-> CASE hook.sets[c].op = "off" -> "clear"
                    [] hook.sets[c].op = "rotate" /\ webhook = NoWebhook -> "refused"
                    [] hook.sets[c].op = "rotate" \/ webhook = NoWebhook -> "rotate"
                    [] OTHER -> "store",
           cfg |-> IF hook.sets[c].op = "set" THEN [webhook EXCEPT !.url = hook.sets[c].url]
                   ELSE webhook]]
    /\ UNCHANGED <<hook, wtime, fireVars, webhook, copies, locked, rowVars, hused>>

\* RotateSecret: a fresh secret is saved before its hash is stored.
RotateSecret(c) ==
    /\ here(c, "rotate")
    /\ hused' = [hused EXCEPT !.secrets = @ + 1]
    /\ copies' = Save(hused'.secrets)
    /\ hcalls' = [hcalls EXCEPT ![c].pc = "store", ![c].cfg.hash = hused'.secrets]
    /\ UNCHANGED <<hook, wtime, fireVars, webhook, locked, rowVars>>

SetWebhook(c) ==
    /\ here(c, "store")
    /\ webhook' = hcalls[c].cfg
    /\ goes(c, "done")
    /\ UNCHANGED <<hook, wtime, fireVars, copies, locked, rowVars, hused>>

\* "--webhook off": the setting, then the secret, then the pending rows; a
\* secret that cannot be deleted ends the call before the rows.
clearWebhook(c) ==
    /\ here(c, "clear")
    /\ webhook' = NoWebhook
    /\ goes(c, "delete")
    /\ UNCHANGED <<hook, wtime, fireVars, copies, locked, rowVars, hused>>

DeleteSecret(c) ==
    /\ here(c, "delete")
    /\ copies' = DeleteSaved
    /\ goes(c, IF locked THEN "failed" ELSE "fail")
    /\ UNCHANGED <<hook, wtime, fireVars, webhook, locked, rowVars, hused>>

failPending(c) ==
    /\ here(c, "fail")
    /\ webhook_queue' = FailAllPending
    /\ goes(c, "done")
    /\ UNCHANGED <<hook, wtime, fireVars, webhook, copies, locked, worker, posts, hused>>

-----------------------------------------------------------------------------
keychain ==
    /\ locked \/ hused.locks < hook.locks
    /\ locked' = ~locked
    /\ hused' = IF locked THEN hused ELSE [hused EXCEPT !.locks = @ + 1]
    /\ UNCHANGED <<hook, wtime, fireVars, webhook, copies, hcalls, rowVars>>

timeGoesOn ==
    /\ wtime < hook.time
    /\ wtime' = wtime + 1
    /\ UNCHANGED <<hook, fireVars, setVars, rowVars, hused>>

HookInit ==
    /\ hook \in Hooks
    /\ wtime = 0 /\ queued = 0
    /\ firing = [e \in Events |-> IF e \in hook.events THEN "new" ELSE "done"]
    /\ webhook = hook.webhook
    /\ copies = [b \in {"keychain", "file"} |-> IF b = "keychain" THEN hook.webhook.hash ELSE 0]
    /\ locked = FALSE
    /\ webhook_queue = [e \in Events |-> NoRow]
    /\ worker = Waiting /\ posts = {}
    /\ hcalls = [c \in HookCalls |-> [pc |-> IF c \in DOMAIN hook.sets THEN "new" ELSE "done",
                                       cfg |-> NoWebhook]]
    /\ hused = [secrets |-> hook.webhook.hash, locks |-> 0]

hookSteps ==
    \/ \E e \in Events : reportDrop(e) \/ fire(e) \/ fireWebhook(e) \/ enqueue(e)
    \/ \E c \in HookCalls : RotateSecret(c) \/ SetWebhook(c) \/ clearWebhook(c)
                            \/ DeleteSecret(c) \/ failPending(c)
workerSteps ==
    \/ tick \/ attempt \/ loadSecret \/ \E o \in {"2xx", "4xx", "5xx", "later"} : deliver(o)

HookNext ==
    \/ \E e \in Events : Fire(e) \/ reportDrop(e) \/ fire(e) \/ fireWebhook(e) \/ enqueue(e)
    \/ Purge \/ tick \/ attempt \/ loadSecret
    \/ \E o \in {"2xx", "4xx", "5xx", "later"} : deliver(o)
    \/ \E c \in HookCalls : applyWebhookSet(c) \/ RotateSecret(c) \/ SetWebhook(c)
                            \/ clearWebhook(c) \/ DeleteSecret(c) \/ failPending(c)
    \/ keychain \/ timeGoesOn

HookFairness == WF_hookVars(hookSteps) /\ WF_hookVars(workerSteps) /\ WF_hookVars(timeGoesOn)
HookSpec == HookInit /\ [][HookNext]_hookVars /\ HookFairness

-----------------------------------------------------------------------------
(* Properties *)

\* Every POST is signed with the secret that was set together with the URL and
\* the hash its settings held, whatever copy a locked or preferred backend kept
\* from before a rotation (SecretHash, secretMatches, Contents.Pick).
SignsWithTheSetSecret == \A p \in posts : p.secret = p.cfg.hash

\* The queue stays within its bound although rows are failed, by an overflow
\* or a removed webhook, while the worker is attempting them: an outcome that
\* comes late makes no row pending again (Enqueue, MarkRetry).
QueueStaysBounded == Cardinality(Pending) <= queueMaxRows

\* Every row ends: with a webhook set, and the clock going on, no row stays
\* pending past its age and the longest delay, whether the receiver answers,
\* asks to be tried later or the secret cannot be read (nextRetry, queueMaxAge);
\* and the two above hold all along.
RowsEnd ==
    /\ [](SignsWithTheSetSecret /\ QueueStaysBounded)
    /\ <>[](webhook # NoWebhook =>
            \A e \in Pending : webhook_queue[e].created + queueMaxAge + retryDelayCap > hook.time)
=============================================================================
