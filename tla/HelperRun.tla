------------------------------ MODULE HelperRun ------------------------------
(***************************************************************************)
(* The own-device helper: the scope its human grants a controller          *)
(* (internal/daemon/device_scope.go, internal/device/scope.go) and the     *)
(* runner that executes one allowlisted command at a time                  *)
(* (internal/daemon/device_run.go, internal/device/runner.go).             *)
(*                                                                         *)
(* The goroutines that meet here: the runner's loop with the command it    *)
(* executes, the sweeps started by kick, by execute itself and by watch    *)
(* (serialised by sweepMu), the device_scope_set calls with their          *)
(* controller's set lock, the handlers that take authority away and kick   *)
(* only after their commit, and the mail that brings requests.  The daemon *)
(* may crash at any step, or be stopped: its context ends while the steps  *)
(* under way go on.                                                        *)
(***************************************************************************)
EXTENDS Naturals, Sequences, FiniteSets, SequencesExt

CONSTANTS Ctls,           \* the peers that may control this helper
          Reqs,           \* the requests that name a command
          Setters,        \* the device_scope_set calls
          maxQueuedRuns, maxRunsPerDay, runWindow,
          Duties          \* the instances: who asks what, and how often

VARIABLES duty,           \* the instance, an element of Duties
          htime,          \* the helper's clock
          hlink,          \* controller -> its active helper link, 0 when none
          scopes,         \* device_scopes: link id -> scope
          runs,           \* the settings row device.runs
          sess,           \* request -> the work session opened for it
          windows,        \* the device_scope approvals waiting for a code
          pending,        \* scopeApprovals.m
          setLock,        \* scopeApprovals.sets: who holds a set lock
          setting,        \* where each device_scope_set call is
          ending,         \* handlers that committed a revocation, kick to come
          hlife,          \* "up", "stopping" or "down"
          cur,            \* helperRunner.cur
          loop,           \* the loop goroutine
          sweeping,       \* the sweep that holds sweepMu
          kicks,          \* the sweeps kick has started, waiting for sweepMu
          wake,           \* the wake channel holds a token
          proc,           \* request -> what its process did
          hspent          \* the bounds used up

dbVars  == <<hlink, scopes, runs, sess>>
askVars == <<windows, pending, setLock, setting, ending>>
runVars == <<cur, loop, sweeping, kicks, wake>>
helperVars == <<duty, htime, dbVars, askVars, hlife, runVars, proc, hspent>>

-----------------------------------------------------------------------------
(* Values.  A scope lets one request type run one command name; what the   *)
(* name stands for is its program.  A link id is its number of activation. *)

NoScope == [prog |-> "none", types |-> {}, exp |-> 0]
NoLink  == [id |-> 0, at |-> 0]
NoReq   == "noReq"
NoCur   == [req |-> NoReq, prog |-> "none", exp |-> 0, cause |-> "none"]
NoSweep == [pc |-> "free", by |-> "none", saw |-> NoReq, job |-> NoReq, ok |-> TRUE,
            plan |-> NoScope, dropped |-> <<>>]
AtRest(pc) == [pc |-> pc, req |-> NoReq, plan |-> NoScope, dropped |-> <<>>, res |-> "none"]

Outcomes == {"pass", "fail", "timed out", "killed"}

ctlOf(r)  == duty.asks[r].ctl
typeOf(r) == duty.asks[r].type

\* The active link in which c controls this helper, and the scope of a link.
ActiveHelperLinkTx(c) == hlink[c].id # 0
ScopeTx(l) == IF l = 0 THEN NoScope ELSE scopes[l]

\* CheckRunTx: checks 1-5, in the order the code applies them; the plan is
\* the scope, which names the program and its expiry.
CheckRunTx(c, type, created) ==
    LET sc == ScopeTx(hlink[c].id)
    IN  IF ~ActiveHelperLinkTx(c) THEN "link"
        ELSE IF sc = NoScope THEN "scope"
        ELSE IF htime >= sc.exp THEN "expired"
        ELSE IF type \notin sc.types THEN "type"
        ELSE IF sc.prog = "none" THEN "command"
        ELSE IF created < hlink[c].at THEN "created"
        ELSE "ok"

\* valid: a queued or running job against the link and scope of now.
valid(j) == CheckRunTx(ctlOf(j.req), typeOf(j.req), j.created) = "ok"

\* The daemon's context ends when it stops: what still uses it then fails.
Alive == hlife = "up"
Running == hlife \in {"up", "stopping"}

-----------------------------------------------------------------------------
(* The run queue row. *)

NoJob == [req |-> NoReq, created |-> 0]

\* pruneRecent: the run times still inside the window.
pruneRecent(c) == SelectSeq(runs.recent[c], LAMBDA t : t + runWindow > htime)

\* Mutant: the queued run does not wake the loop.
BugNoSignal(r, created) ==
    IF CheckRunTx(ctlOf(r), typeOf(r), created) = "ok"
    THEN /\ runs' = [runs EXCEPT !.queued = Append(@, [req |-> r, created |-> created])]
         /\ sess' = [sess EXCEPT ![r].state = "open"]
         /\ UNCHANGED wake
    ELSE /\ sess' = [sess EXCEPT ![r].state = "inbox"]
         /\ UNCHANGED <<runs, wake>>

\* RouteTx, in the receive transaction of a request: it is queued when every
\* check and both limits allow it, and its session opens accepted for the
\* runner; otherwise it is an ordinary request, here without a session.
RouteTx(r, created) ==
    LET c == ctlOf(r)
        recent == pruneRecent(c)
        inScope == /\ CheckRunTx(c, typeOf(r), created) = "ok"
                   /\ Len(runs.queued) < maxQueuedRuns
                   /\ Len(recent) < maxRunsPerDay
    IN  IF inScope
        THEN /\ runs' = [runs EXCEPT !.queued = Append(@, [req |-> r, created |-> created]),
                                     !.recent[c] = Append(recent, htime)]
             /\ sess' = [sess EXCEPT ![r].state = "open"]
             /\ wake' = TRUE
        ELSE /\ sess' = [sess EXCEPT ![r].state = "inbox"]
             /\ UNCHANGED <<runs, wake>>

receiveRequest(r, created) ==
    /\ Alive /\ loop.pc # "recover"
    /\ sess[r].state = "none" /\ created <= htime
    /\ RouteTx(r, created)
    /\ UNCHANGED <<duty, htime, hlink, scopes, askVars, hlife, cur, loop, sweeping,
                   kicks, proc, hspent>>

\* The controller's ws.state closes the session: accepted or cancelled there.
controllerCloses(r) ==
    /\ Alive /\ sess[r].state = "open" /\ "closes" \in duty.steps
    /\ sess' = [sess EXCEPT ![r].state = "closed"]
    /\ UNCHANGED <<duty, htime, hlink, scopes, runs, askVars, hlife, runVars, proc, hspent>>

\* cancel: ws.cancel for a session that is still open (SubmitCancel ByRunner;
\* a second one is a duplicate that sends nothing).
cancel(s, j) ==
    IF s[j.req].state = "open" THEN [s EXCEPT ![j.req].cancel = TRUE] ELSE s

\* Dropped jobs are cancelled one after the other.
cancelAll(s, js) == FoldLeft(cancel, s, js)

\* SubmitResult by the runner: one result per round, and none once a cancel
\* was asked for.
SubmitResult(s, r, what) ==
    IF s[r].state = "open" /\ ~s[r].cancel /\ s[r].result = "none"
    THEN [s EXCEPT ![r].result = what] ELSE s

-----------------------------------------------------------------------------
(* The sweeps and the loop. *)

\* A transaction may fail, at most duty.faults times.
mayFail == hspent.faults < duty.faults
failed  == hspent' = [hspent EXCEPT !.faults = @ + 1]

\* The commands of the running job are stopped through cur, if it is still
\* the one of that session; the first cause stays.
stopSession(r, cause) ==
    IF cur.req = r /\ r # NoReq /\ cur.cause = "none"
    THEN [cur EXCEPT !.cause = cause] ELSE cur
stopRunning(r) == stopSession(r, "revoked")

\* Mutant: the sweep confirms a run by its name alone.
BugSameName(r, plan) ==
    IF cur.req # r \/ r = NoReq THEN cur ELSE [cur EXCEPT !.exp = plan.exp]

\* stillRunning: a name that now stands for another program stops the run,
\* otherwise the expiry that watch waits for moves.
stillRunning(r, plan) ==
    IF cur.req # r \/ r = NoReq THEN cur
    ELSE IF plan.prog # cur.prog THEN stopSession(r, "revoked")
    ELSE [cur EXCEPT !.exp = plan.exp]

executing == cur.req # NoReq

\* kick: a background sweep, unless the daemon is stopping.
kick == kicks' = IF Alive THEN kicks + 1 ELSE kicks

\* sweep takes sweepMu and notes what runs now.
sweepBegin(by) ==
    /\ sweeping.pc = "free"
    /\ sweeping' = [NoSweep EXCEPT !.pc = "begun", !.by = by, !.saw = cur.req]

kickedSweep ==
    /\ Running /\ kicks > 0
    /\ sweepBegin("kick")
    /\ kicks' = kicks - 1
    /\ UNCHANGED <<duty, htime, dbVars, askVars, hlife, cur, loop, wake, proc, hspent>>

\* execute's own sweep before anything starts.
firstSweep ==
    /\ Running /\ loop.pc = "sweep"
    /\ sweepBegin("execute")
    /\ loop' = [loop EXCEPT !.pc = "swept"]
    /\ UNCHANGED <<duty, htime, dbVars, askVars, hlife, cur, kicks, wake, proc, hspent>>

\* watch runs from execute's first check to its end or its stop; its timer
\* fires past the expiry the last sweep saw, and every minute at least.
watching == executing /\ cur.cause = "none" /\ loop.pc \in {"run", "ended", "submit", "finish"}
due == watching /\ htime >= cur.exp

watchSweep ==
    /\ Alive /\ watching
    /\ due \/ "minutes" \in duty.steps
    /\ sweepBegin("watch")
    /\ UNCHANGED <<duty, htime, dbVars, askVars, hlife, cur, loop, kicks, wake, proc, hspent>>

\* A kick's sweep runs under a context that never ends, the others under the
\* daemon's.
sweepAlive == hlife = "up" \/ (hlife = "stopping" /\ sweeping.by = "kick")

\* take(start = FALSE) of a sweep: its transaction.
Dropped == SelectSeq(runs.queued, LAMBDA j : ~valid(j))
Kept    == SelectSeq(runs.queued, valid)
planOf(r) == ScopeTx(hlink[ctlOf(r)].id)

sweepTake ==
    /\ sweeping.pc = "begun" /\ sweepAlive
    /\ runs' = [runs EXCEPT !.queued = Kept]
    /\ sweeping' = IF runs.running = NoJob
                   THEN [sweeping EXCEPT !.pc = "took", !.dropped = Dropped]
                   ELSE [sweeping EXCEPT !.pc = "took", !.dropped = Dropped,
                           !.job = runs.running.req, !.ok = valid(runs.running),
                           !.plan = planOf(runs.running.req)]
    /\ UNCHANGED <<duty, htime, hlink, scopes, sess, askVars, hlife, cur, loop, kicks,
                   wake, proc, hspent>>

\* A take that fails stops the command the sweep saw running: what cannot be
\* confirmed as allowed is not allowed, unless it failed because the daemon
\* stops.
sweepFails ==
    /\ Running /\ sweeping.pc = "begun"
    /\ \/ mayFail /\ failed
       \/ ~sweepAlive /\ UNCHANGED hspent
    /\ cur' = IF sweepAlive THEN stopSession(sweeping.saw, "check") ELSE cur
    /\ sweeping' = NoSweep
    /\ wake' = TRUE
    /\ UNCHANGED <<duty, htime, dbVars, askVars, hlife, loop, kicks, proc>>

\* After the transaction: the running command is stopped or confirmed, and
\* the dropped runs are cancelled.
sweepApply ==
    /\ Running /\ sweeping.pc = "took"
    /\ cur' = IF sweeping.ok THEN stillRunning(sweeping.job, sweeping.plan)
              ELSE stopRunning(sweeping.job)
    /\ sess' = IF sweepAlive THEN cancelAll(sess, sweeping.dropped) ELSE sess
    /\ sweeping' = NoSweep
    /\ wake' = TRUE
    /\ UNCHANGED <<duty, htime, hlink, scopes, runs, askVars, hlife, loop, kicks, proc, hspent>>

\* take(start = TRUE): only the loop starts runs, so a job still marked
\* running is left from a finish that failed, and is cleared.
takeNext ==
    /\ Alive /\ loop.pc = "take"
    /\ LET next == IF Kept = <<>> THEN NoJob ELSE Head(Kept)
       IN  /\ runs' = [runs EXCEPT !.running = next,
                                   !.queued = IF Kept = <<>> THEN <<>> ELSE Tail(Kept)]
           /\ loop' = [AtRest("took") EXCEPT !.req = next.req, !.dropped = Dropped,
                         !.plan = IF next = NoJob THEN NoScope ELSE planOf(next.req)]
    /\ UNCHANGED <<duty, htime, hlink, scopes, sess, askVars, hlife, cur, sweeping, kicks,
                   wake, proc, hspent>>

\* The queue could not be read or written: wait for the next wake.
takeFails ==
    /\ Alive /\ loop.pc = "take"
    /\ mayFail /\ failed
    /\ loop' = AtRest("idle")
    /\ UNCHANGED <<duty, htime, dbVars, askVars, hlife, cur, sweeping, kicks, wake, proc>>

\* The runs take dropped are cancelled after its commit.
cancelDropped ==
    /\ Running /\ loop.pc = "took"
    /\ sess' = IF Alive THEN cancelAll(sess, loop.dropped) ELSE sess
    /\ loop' = IF loop.req = NoReq THEN AtRest("idle")
               ELSE [loop EXCEPT !.pc = "open", !.dropped = <<>>]
    /\ UNCHANGED <<duty, htime, hlink, scopes, runs, askVars, hlife, cur, sweeping, kicks,
                   wake, proc, hspent>>

\* loop waits for a wake, and ends with the daemon's context.
loopWakes ==
    /\ Alive /\ loop.pc = "idle" /\ wake
    /\ loop' = AtRest("take") /\ wake' = FALSE
    /\ UNCHANGED <<duty, htime, dbVars, askVars, hlife, cur, sweeping, kicks, proc, hspent>>

loopEnds ==
    /\ hlife = "stopping" /\ loop.pc \in {"take", "idle"}
    /\ loop' = AtRest("off")
    /\ UNCHANGED <<duty, htime, dbVars, askVars, hlife, cur, sweeping, kicks, wake, proc, hspent>>

\* execute: a session the controller closed meanwhile has nothing to run; an
\* open one makes the job the current run.  A session that cannot be read is
\* treated like a closed one.
execute ==
    /\ Running /\ loop.pc = "open"
    /\ \/ /\ Alive /\ sess[loop.req].state = "open"
          /\ cur' = [req |-> loop.req, prog |-> loop.plan.prog, exp |-> loop.plan.exp,
                     cause |-> "none"]
          /\ loop' = [loop EXCEPT !.pc = "sweep"]
          /\ UNCHANGED hspent
       \/ /\ loop' = [loop EXCEPT !.pc = "skip"]
          /\ \/ (~Alive \/ sess[loop.req].state # "open") /\ UNCHANGED hspent
             \/ mayFail /\ failed
          /\ UNCHANGED cur
    /\ UNCHANGED <<duty, htime, dbVars, askVars, hlife, sweeping, kicks, wake, proc>>

\* finish clears the running job, unless its transaction fails: then the
\* row stays marked.
finish(ctxEnded) ==
    \/ ~ctxEnded /\ runs' = [runs EXCEPT !.running = NoJob] /\ UNCHANGED hspent
    \/ ctxEnded /\ UNCHANGED <<runs, hspent>>
    \/ mayFail /\ failed /\ UNCHANGED runs

finishSkipped ==
    /\ Running /\ loop.pc = "skip"
    /\ finish(~Alive)
    /\ loop' = AtRest("take")
    /\ UNCHANGED <<duty, htime, hlink, scopes, sess, askVars, hlife, cur, sweeping, kicks,
                   wake, proc>>

\* CheckTarget may refuse what changed on disk, and a stopped run does not
\* start; otherwise the process starts, or cannot.
startProcess ==
    /\ Running /\ loop.pc = "swept" /\ sweeping.by # "execute"
    /\ \/ /\ "could not start" \in duty.outcomes \/ cur.cause # "none" \/ ~Alive
          /\ loop' = [loop EXCEPT !.pc = "ended", !.res = "could not start"]
          /\ UNCHANGED proc
       \/ /\ cur.cause = "none" /\ Alive
          /\ loop' = [loop EXCEPT !.pc = "run"]
          /\ proc' = [proc EXCEPT ![loop.req] = "running"]
    /\ UNCHANGED <<duty, htime, dbVars, askVars, hlife, cur, sweeping, kicks, wake, hspent>>

\* The process ends, or device.Run kills its tree at the timeout, at the stop
\* of the run or at the daemon's own.
Run(how) ==
    /\ Running /\ loop.pc = "run"
    /\ how \in duty.outcomes \cup {"killed"}
    /\ how = "killed" => cur.cause # "none" \/ ~Alive
    /\ proc' = [proc EXCEPT ![loop.req] = how]
    /\ loop' = [loop EXCEPT !.pc = "ended", !.res = how]
    /\ UNCHANGED <<duty, htime, dbVars, askVars, hlife, cur, sweeping, kicks, wake, hspent>>

\* After the run: a stopping daemon leaves the job marked running; a run that
\* was stopped is finished and cancelled; any other one reports its result.
afterRun ==
    /\ Running /\ loop.pc = "ended"
    /\ IF ~Alive
       THEN cur' = NoCur /\ loop' = AtRest("off")
       ELSE /\ loop' = [loop EXCEPT !.pc = IF cur.cause = "none" THEN "submit" ELSE "stopped"]
            /\ UNCHANGED cur
    /\ UNCHANGED <<duty, htime, dbVars, askVars, hlife, sweeping, kicks, wake, proc, hspent>>

finishStopped ==
    /\ Running /\ loop.pc = "stopped"
    /\ finish(~Alive)
    /\ loop' = [loop EXCEPT !.pc = "cancel"]
    /\ UNCHANGED <<duty, htime, hlink, scopes, sess, askVars, hlife, cur, sweeping, kicks,
                   wake, proc>>

cancelStopped ==
    /\ Running /\ loop.pc = "cancel"
    /\ \/ Alive /\ sess' = cancel(sess, loop) /\ UNCHANGED hspent
       \/ ~Alive /\ UNCHANGED <<sess, hspent>>
       \/ mayFail /\ failed /\ UNCHANGED sess
    /\ loop' = AtRest("take") /\ cur' = NoCur
    /\ UNCHANGED <<duty, htime, hlink, scopes, runs, askVars, hlife, sweeping, kicks, wake, proc>>

\* The result is submitted under the daemon's context; a failure is logged.
submitRun ==
    /\ Running /\ loop.pc = "submit"
    /\ \/ Alive /\ sess' = SubmitResult(sess, loop.req, loop.res) /\ UNCHANGED hspent
       \/ ~Alive /\ UNCHANGED <<sess, hspent>>
       \/ mayFail /\ failed /\ UNCHANGED sess
    /\ loop' = [loop EXCEPT !.pc = "finish"]
    /\ UNCHANGED <<duty, htime, hlink, scopes, runs, askVars, hlife, cur, sweeping, kicks,
                   wake, proc>>

\* ... and the job is finished under a context that never ends.
finishReported ==
    /\ Running /\ loop.pc = "finish"
    /\ finish(FALSE)
    /\ loop' = AtRest("take") /\ cur' = NoCur
    /\ UNCHANGED <<duty, htime, hlink, scopes, sess, askVars, hlife, sweeping, kicks, wake, proc>>

-----------------------------------------------------------------------------
(* Granting and taking away. *)

\* kick after what changed the scope or ended the link, once its commit is done.
note(c, what, id) == ending' = ending \cup {[ctl |-> c, what |-> what, id |-> id]}

\* RejectFor on an approval that may be gone, and its OnReject hook: drop.
drop(c, id) == IF pending[c] = id THEN [pending EXCEPT ![c] = "none"] ELSE pending

\* device_scope_set reads the link and validates: the scope expires later.
scopeSet(s) ==
    LET want == duty.sets[s]
    IN  /\ Alive /\ setting[s].pc = "new" /\ ActiveHelperLinkTx(want.ctl)
        /\ setting' = [setting EXCEPT ![s] =
              [pc |-> "read", ctl |-> want.ctl, link |-> hlink[want.ctl].id,
               scope |-> [prog |-> want.prog, types |-> want.types, exp |-> htime + want.ttl]]]
    /\ UNCHANGED <<duty, htime, dbVars, windows, pending, setLock, ending, hlife, runVars,
                   proc, hspent>>

\* Mutant: the older approval is rejected without holding the set lock.
BugNoSetLock(s) ==
    /\ Alive /\ setting[s].pc = "read"
    /\ LET c == setting[s].ctl
       IN  /\ windows' = {w \in windows : w.id # pending[c]}
           /\ pending' = [pending EXCEPT ![c] = "none"]
    /\ setting' = [setting EXCEPT ![s].pc = "locked"]
    /\ UNCHANGED <<duty, htime, dbVars, setLock, ending, hlife, runVars, proc, hspent>>

\* ... takes its controller's set lock and rejects the scope still waiting.
lock(s) ==
    /\ Alive /\ setting[s].pc = "read"
    /\ LET c == setting[s].ctl
       IN  /\ setLock[c] = "none"
           /\ setLock' = [setLock EXCEPT ![c] = s]
           /\ windows' = {w \in windows : w.id # pending[c]}
           /\ pending' = [pending EXCEPT ![c] = "none"]
    /\ setting' = [setting EXCEPT ![s].pc = "locked"]
    /\ UNCHANGED <<duty, htime, dbVars, ending, hlife, runVars, proc, hspent>>

\* ... creates its approval, whose window may be answered at once,
createWindow(s) ==
    /\ Alive /\ setting[s].pc = "locked"
    /\ windows' = windows \cup {[id |-> s, ctl |-> setting[s].ctl, link |-> setting[s].link,
                                 scope |-> setting[s].scope]}
    /\ setting' = [setting EXCEPT ![s].pc = "created"]
    /\ UNCHANGED <<duty, htime, dbVars, pending, setLock, ending, hlife, runVars, proc, hspent>>

\* ... and records it, which releases the lock.
put(s) ==
    /\ Alive /\ setting[s].pc = "created"
    /\ LET c == setting[s].ctl
       IN  pending' = [pending EXCEPT ![c] = s] /\ setLock' = [setLock EXCEPT ![c] = "none"]
    /\ setting' = [setting EXCEPT ![s].pc = "done"]
    /\ UNCHANGED <<duty, htime, dbVars, windows, ending, hlife, runVars, proc, hspent>>

\* The code was typed: Precondition and Perform, in one transaction.
confirmScope(w) ==
    /\ Alive /\ w \in windows
    /\ hlink[w.ctl].id = w.link /\ htime < w.scope.exp
    /\ scopes' = [scopes EXCEPT ![w.link] = w.scope]
    /\ windows' = windows \ {w}
    /\ note(w.ctl, "set", w.id)
    /\ UNCHANGED <<duty, htime, hlink, runs, sess, pending, setLock, setting, hlife, runVars,
                   proc, hspent>>

\* The human rejects the scope, or its window expires.
rejectScope(w) ==
    /\ Alive /\ w \in windows
    /\ windows' = windows \ {w}
    /\ pending' = drop(w.ctl, w.id)
    /\ UNCHANGED <<duty, htime, dbVars, setLock, setting, ending, hlife, runVars, proc, hspent>>

\* A new link with c became active; a helper has one controller.
linked(c) ==
    /\ Alive /\ \A x \in Ctls : hlink[x].id = 0
    /\ hspent.links < duty.links
    /\ hspent' = [hspent EXCEPT !.links = @ + 1]
    /\ hlink' = [hlink EXCEPT ![c] = [id |-> hspent.links + 1, at |-> htime]]
    /\ UNCHANGED <<duty, htime, scopes, runs, sess, askVars, hlife, runVars, proc>>

\* RevokeForPeerTx, as far as the helper's authority goes.
RevokeForPeer(c) ==
    /\ hlink[c].id # 0
    /\ hlink' = [hlink EXCEPT ![c] = NoLink]
    /\ scopes' = [scopes EXCEPT ![hlink[c].id] = NoScope]

\* device_unlink, or a device.unlink mail.
unlink(c) ==
    /\ Alive /\ "unlink" \in duty.steps
    /\ RevokeForPeer(c)
    /\ note(c, "end", "none")
    /\ UNCHANGED <<duty, htime, runs, sess, windows, pending, setLock, setting, hlife, runVars,
                   proc, hspent>>

\* peers remove: the hook kicks inside the transaction, whose end the sweep
\* waits for; a scope waiting for its code is left to its Precondition.
removed(c) ==
    /\ Alive /\ "remove" \in duty.steps
    /\ RevokeForPeer(c)
    /\ kick
    /\ UNCHANGED <<duty, htime, runs, sess, askVars, hlife, cur, loop, sweeping, wake, proc,
                   hspent>>

\* device_scope_clear.
scopeClear(c) ==
    /\ Alive /\ "clear" \in duty.steps
    /\ ActiveHelperLinkTx(c) /\ ScopeTx(hlink[c].id) # NoScope
    /\ scopes' = [scopes EXCEPT ![hlink[c].id] = NoScope]
    /\ note(c, "end", "none")
    /\ UNCHANGED <<duty, htime, hlink, runs, sess, windows, pending, setLock, setting, hlife,
                   runVars, proc, hspent>>

\* After the commit: an unlink or a clear rejects the scope still waiting, once
\* no set of that controller is under way; a scope that was set forgets its
\* approval, if it was recorded.  Both kick.
afterEnd(e) ==
    /\ Alive /\ e \in ending
    /\ IF e.what = "end"
       THEN /\ setLock[e.ctl] = "none"
            /\ windows' = {w \in windows : w.id # pending[e.ctl]}
            /\ pending' = [pending EXCEPT ![e.ctl] = "none"]
       ELSE /\ pending' = IF setting[e.id].pc = "done" THEN drop(e.ctl, e.id) ELSE pending
            /\ UNCHANGED windows
    /\ ending' = ending \ {e}
    /\ kick
    /\ UNCHANGED <<duty, htime, dbVars, setLock, setting, hlife, cur, loop, sweeping, wake,
                   proc, hspent>>

-----------------------------------------------------------------------------
(* Time, stop, crash and restart. *)

minutePasses ==
    /\ htime < duty.time
    /\ htime' = htime + 1
    /\ UNCHANGED <<duty, dbVars, askVars, hlife, runVars, proc, hspent>>

\* The daemon stops: the handlers are gone, its context ends.
stopDaemon ==
    /\ Alive /\ hspent.stops < duty.stops
    /\ ending = {} /\ \A s \in Setters : setting[s].pc \in {"new", "done"}
    /\ hlife' = "stopping"
    /\ hspent' = [hspent EXCEPT !.stops = @ + 1]
    /\ UNCHANGED <<duty, htime, dbVars, askVars, runVars, proc>>

\* What lived in memory is gone: the sweeps, the waiting approvals, the process.
memoryLost ==
    /\ hlife' = "down"
    /\ cur' = NoCur /\ loop' = AtRest("off") /\ sweeping' = NoSweep /\ kicks' = 0 /\ wake' = FALSE
    /\ windows' = {} /\ pending' = [c \in Ctls |-> "none"] /\ setLock' = [c \in Ctls |-> "none"]
    /\ setting' = [s \in Setters |-> IF setting[s].pc = "new" THEN setting[s]
                                      ELSE [setting[s] EXCEPT !.pc = "done"]]
    /\ ending' = {}
    /\ proc' = [r \in Reqs |-> IF proc[r] = "running" THEN "killed" ELSE proc[r]]

\* wait: the stop ends once the loop and the kicked sweeps are done.
stopped ==
    /\ hlife = "stopping" /\ loop.pc = "off" /\ kicks = 0 /\ sweeping.pc = "free"
    /\ memoryLost
    /\ UNCHANGED <<duty, htime, dbVars, hspent>>

crash ==
    /\ Running /\ hspent.crashes < duty.crashes
    /\ memoryLost
    /\ hspent' = [hspent EXCEPT !.crashes = @ + 1]
    /\ UNCHANGED <<duty, htime, dbVars>>

\* recoverAfterRestart clears the row, then reports what it held; if it fails
\* the daemon starts anyway.
recoverAfterRestart ==
    /\ hlife = "down"
    /\ hlife' = "up"
    /\ \/ /\ runs' = [runs EXCEPT !.running = NoJob, !.queued = <<>>]
          /\ loop' = [AtRest("recover") EXCEPT !.req = runs.running.req, !.dropped = runs.queued,
                        !.res = IF runs.running = NoJob THEN "none"
                                ELSE IF valid(runs.running) THEN "interrupted" ELSE "revoked"]
          /\ UNCHANGED hspent
       \/ /\ mayFail /\ failed
          /\ loop' = AtRest("take") /\ UNCHANGED runs
    /\ UNCHANGED <<duty, htime, hlink, scopes, sess, askVars, cur, sweeping, kicks, wake, proc>>

reportRecovered ==
    /\ Alive /\ loop.pc = "recover"
    /\ sess' = cancelAll(CASE loop.res = "revoked" -> cancel(sess, loop)
                           [] loop.res = "interrupted" -> SubmitResult(sess, loop.req, "interrupted")
                           [] OTHER -> sess, loop.dropped)
    /\ loop' = AtRest("take")
    /\ UNCHANGED <<duty, htime, hlink, scopes, runs, askVars, hlife, cur, sweeping, kicks,
                   wake, proc, hspent>>

-----------------------------------------------------------------------------
HelperInit ==
    /\ duty \in Duties
    /\ htime = 0
    /\ hlink = [c \in Ctls |-> IF duty.scope # NoScope /\ c = duty.ctl
                              THEN [id |-> 1, at |-> 0] ELSE NoLink]
    /\ scopes = [l \in 1 .. duty.links |-> IF l = 1 THEN duty.scope ELSE NoScope]
    /\ runs = [running |-> NoJob, queued |-> <<>>, recent |-> [c \in Ctls |-> <<>>]]
    /\ sess = [r \in Reqs |-> [state |-> "none", result |-> "none", cancel |-> FALSE]]
    /\ windows = {} /\ pending = [c \in Ctls |-> "none"] /\ setLock = [c \in Ctls |-> "none"]
    /\ setting = [s \in Setters |-> [pc |-> IF s \in DOMAIN duty.sets THEN "new" ELSE "done",
                                      ctl |-> "none", link |-> 0, scope |-> NoScope]]
    /\ ending = {} /\ hlife = "up"
    /\ cur = NoCur /\ loop = AtRest("take") /\ sweeping = NoSweep /\ kicks = 0 /\ wake = FALSE
    /\ proc = [r \in Reqs |-> "none"]
    /\ hspent = [links |-> IF duty.scope = NoScope THEN 0 ELSE 1, faults |-> 0, stops |-> 0, crashes |-> 0]

\* What goes on by itself: the sweeps with the watch that is due, and the loop
\* with the handlers under way.
sweepSteps ==
    \/ kickedSweep \/ (due /\ watchSweep) \/ sweepTake \/ sweepApply
    \/ (~sweepAlive /\ sweepFails)
loopSteps ==
    \/ firstSweep \/ takeNext \/ cancelDropped \/ loopWakes \/ loopEnds \/ execute
    \/ finishSkipped \/ startProcess \/ (\E how \in Outcomes : Run(how))
    \/ afterRun \/ finishStopped \/ cancelStopped \/ submitRun \/ finishReported
    \/ (\E e \in ending : afterEnd(e)) \/ (\E s \in Setters : put(s) \/ createWindow(s))
    \/ stopped \/ recoverAfterRestart \/ reportRecovered

HelperNext ==
    \/ \E r \in DOMAIN duty.asks : \/ \E t \in {0, htime} : receiveRequest(r, t)
                                    \/ controllerCloses(r)
    \/ kickedSweep \/ firstSweep \/ watchSweep \/ sweepTake \/ sweepFails \/ sweepApply
    \/ takeNext \/ takeFails \/ cancelDropped \/ loopWakes \/ loopEnds \/ execute
    \/ finishSkipped \/ startProcess
    \/ \E how \in Outcomes : Run(how)
    \/ afterRun \/ finishStopped \/ cancelStopped \/ submitRun \/ finishReported
    \/ \E s \in DOMAIN duty.sets : scopeSet(s) \/ lock(s) \/ createWindow(s) \/ put(s)
    \/ \E w \in windows : confirmScope(w) \/ rejectScope(w)
    \/ \E c \in Ctls : linked(c) \/ unlink(c) \/ removed(c) \/ scopeClear(c)
    \/ \E e \in ending : afterEnd(e)
    \/ minutePasses \/ stopDaemon \/ stopped \/ crash \/ recoverAfterRestart \/ reportRecovered

HelperFairness == WF_helperVars(sweepSteps) /\ WF_helperVars(loopSteps)
HelperSpec == HelperInit /\ [][HelperNext]_helperVars /\ HelperFairness

-----------------------------------------------------------------------------
(* Properties *)

\* A command that runs although its link or scope no longer allows it, or
\* allows another program under its name, is about to be stopped: its stop is
\* set, or a sweep that will find it is running, waiting for sweepMu, owed by
\* a handler past its commit, or due at the expiry watch waits for
\* (device_run.go execute's sweep before the start, kick, stillRunning, watch).
StopReachesTheRun ==
    (loop.pc = "run" /\ Alive /\ (~valid(runs.running) \/ planOf(cur.req).prog # cur.prog))
    => \/ cur.cause # "none"
       \/ kicks > 0 \/ ending # {} \/ due
       \/ sweeping.pc = "begun"
       \/ sweeping.pc = "took" /\ (~sweeping.ok \/ sweeping.plan.prog # cur.prog)

\* A request runs its command at most once, whatever crashes, failed finishes
\* and restarts come between (take clears a job left marked running,
\* recoverAfterRestart reports and never requeues), and a result once
\* submitted is not replaced (one result per round).
RunsOnce ==
    \A r \in Reqs : /\ proc[r] # "none" => proc'[r] # "running" \/ proc[r] = "running"
                    /\ sess[r].result # "none" => sess'[r].result = sess[r].result

\* At most one scope of a controller waits for its code, however the
\* device_scope_set, device_scope_clear and unlink calls overlap, so that a
\* scope the human has replaced cannot be confirmed later (R55-085).
OneScopeWaiting ==
    \A c \in Ctls : Cardinality({w \in windows : w.ctl = c}) <= 1

\* What runs, and what waits for a code, is what the human last allowed.
RunsUnderControl == StopReachesTheRun /\ OneScopeWaiting

\* Every accepted run comes to its end: with no failed transaction, and the
\* daemon up in the end, the queue empties and nothing is left marked running;
\* and no step runs or reports anything twice.
RunsEnd ==
    /\ [][RunsOnce]_helperVars
    /\ <>[](hlife = "up" /\ hspent.faults = 0
            => runs.queued = <<>> /\ runs.running = NoJob /\ ~executing)

\* An accepted run is not forgotten: while its session is open and nothing was
\* reported, the queue row or the live runner still holds it ("A run cut
\* short by the daemon stopping is left marked running, so the next start
\* reports it interrupted", device_run.go).
RunIsHeldOrReported ==
    \A r \in Reqs :
        (sess[r].state = "open" /\ sess[r].result = "none" /\ ~sess[r].cancel)
        => \/ runs.running.req = r \/ loop.req = r
           \/ \E js \in {runs.queued, loop.dropped, sweeping.dropped} :
                 \E i \in DOMAIN js : js[i].req = r
=============================================================================
