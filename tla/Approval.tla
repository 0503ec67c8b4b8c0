------------------------------ MODULE Approval ------------------------------
(***************************************************************************)
(* The approval store of a daemon (internal/approval): rows in SQLite, the *)
(* in-memory half of every pending approval, the dialogs that show them    *)
(* and the goroutines that act on them.  Every section that holds s.mu is  *)
(* one step; what a function does after it released s.mu is a step of its  *)
(* own, kept in tail or work until it runs.  A write may fail (faults).    *)
(***************************************************************************)
EXTENDS Integers, FiniteSets

CONSTANTS
    Approvals,              \* approvals that Create may be asked for
    ApprovalLimits    \* instances to explore: records of the fields below

ASSUME ApprovalConstants ==
    \A l \in ApprovalLimits :
        /\ l.ids \subseteq Approvals
        /\ l.attempts \in Nat \ {0} /\ l.pending \in Nat /\ l.wrong \in Nat /\ l.windows \in Nat

VARIABLES
    lim,        \* [ids, attempts, pending, hourly, wrong, retries, windows, opens, faults, desktop]
    row,        \* the approvals table: state and attempts
    entry,      \* s.pending: the live half of an approval
    create,     \* where the Create call of an approval is
    dialogs,    \* running dialogs, <<id, handle>>
    watched,    \* dialogs whose answer a goroutine waits for
    work,       \* goroutines between two sections of s.mu: answers and reopens
    tail,       \* what a decision still does after it released s.mu
    unwritten,  \* expired approvals whose row could not be written
    tries,      \* failed attempts of retryExpired
    wrongCodes,      \* wrong codes in the rolling day (settings table)
    time,       \* [aged, hour, old]: past expiry, created this hour, long decided
    used,       \* [windows, opens, faults] used up of the bounds of lim
    fact,       \* the waiting action's precondition holds
    closed,     \* s.closed
    hist        \* [hooks, performed, guesses] of each approval

approvalVars == <<lim, row, entry, create, dialogs, watched, work, tail, unwritten,
                  tries, wrongCodes, time, used, fact, closed, hist>>

NoEntry == [in |-> "none", handle |-> 0, watch |-> 0, opening |-> FALSE,
            attempts |-> 0, timer |-> "off"]

ApprovalInit ==
    /\ lim \in ApprovalLimits
    /\ row = [i \in Approvals |-> [state |-> "none", attempts |-> 0]]
    /\ entry = [i \in Approvals |-> NoEntry]
    /\ create = [i \in Approvals |-> "idle"]
    /\ dialogs = {} /\ watched = {} /\ work = {}
    /\ tail = [i \in Approvals |-> "none"]
    /\ unwritten = {} /\ tries = 0 /\ wrongCodes = 0
    /\ time = [aged |-> {}, hour |-> {}, old |-> {}]
    /\ used = [windows |-> 0, opens |-> 0, faults |-> 0]
    /\ fact = [i \in Approvals |-> TRUE]
    /\ closed = FALSE
    /\ hist = [i \in Approvals |-> [hooks |-> 0, performed |-> 0, guesses |-> 0]]

Pending == {i \in Approvals : entry[i].in # "none"}
Live == {i \in Approvals : entry[i].in = "live"}

-----------------------------------------------------------------------------
(* Faults, windows and time                                                *)

Ok == UNCHANGED used
Fault == used.faults < lim.faults /\ used' = [used EXCEPT !.faults = @ + 1]

\* A stopped timer whose callback already waits for s.mu still runs.
StopTimer(e) == [e EXCEPT !.timer = IF @ = "fired" THEN @ ELSE "off"]

\* The watches that the entries of S know.
Watches(S) == {d \in watched : d[1] \in S /\ d[2] \in {entry[d[1]].handle, entry[d[1]].watch}}

BugKeepsWatching(S) ==
    /\ entry' = [i \in Approvals |-> IF i \in S THEN NoEntry ELSE entry[i]]
    /\ dialogs' = dialogs \ {<<i, entry[i].handle>> : i \in S}
    /\ UNCHANGED watched

\* Entries S leave s.pending and the dialog each one knows is killed; the
\* watch is cancelled where the code does so (killing ends it anyway).
drop(S) ==
    /\ entry' = [i \in Approvals |-> IF i \in S THEN NoEntry ELSE entry[i]]
    /\ dialogs' = dialogs \ {<<i, entry[i].handle>> : i \in S}
    /\ watched' = watched \ Watches(S)

SetTail(S, what) == tail' = [i \in Approvals |-> IF i \in S THEN what ELSE tail[i]]
SetRows(S, state) == row' = [i \in Approvals |-> IF i \in S THEN [row[i] EXCEPT !.state = state] ELSE row[i]]

Expired == Live \cap time.aged

\* sweepExpiredLocked: every aged approval is marked expired and forgotten;
\* a failing write stops the sweep, with what it already swept gone.
sweepExpiredLocked(S) ==
    /\ S \subseteq Expired
    /\ \/ S = Expired /\ Ok
       \/ S # Expired /\ Fault

HourPasses ==
    /\ time.hour # {} \/ Live \ time.aged # {}
    /\ time' = [time EXCEPT !.hour = {}, !.aged = @ \cup Live]
    /\ UNCHANGED <<lim, row, entry, create, dialogs, watched, work, tail, unwritten, tries, wrongCodes, used, fact, closed, hist>>

\* The rolling day and the retention of decided rows both end.
MonthPasses ==
    /\ wrongCodes > 0
    /\ wrongCodes' = 0
    /\ time' = [time EXCEPT !.hour = {}, !.aged = @ \cup Live,
                            !.old = {i \in Approvals : row[i].state \notin {"none", "pending"}}]
    /\ UNCHANGED <<lim, row, entry, create, dialogs, watched, work, tail, unwritten, tries, used, fact, closed, hist>>

\* The session closed, the peer was removed or the request changed.
FactGone(i) ==
    /\ fact[i]
    /\ fact' = [fact EXCEPT ![i] = FALSE]
    /\ UNCHANGED <<lim, row, entry, create, dialogs, watched, work, tail, unwritten, tries, wrongCodes, time, used, closed, hist>>

-----------------------------------------------------------------------------
(* Create                                                                  *)

\* pruneDecided deletes the rows decided long ago.
pruneDecided(r) == [i \in Approvals |-> IF i \in time.old THEN [r[i] EXCEPT !.state = "none"] ELSE r[i]]

\* Up to the reservation, in one section: lock check, sweep, prune, limits.
CreateReserve(i) ==
    /\ create[i] = "idle" /\ i \in lim.ids
    /\ UNCHANGED <<lim, work, unwritten, tries, wrongCodes, time, fact, closed, hist>>
    /\ IF wrongCodes >= lim.wrong
       THEN /\ create' = [create EXCEPT ![i] = "failed"]
            /\ UNCHANGED <<row, entry, dialogs, watched, tail, used>>
       ELSE \E S \in SUBSET Expired :
            /\ sweepExpiredLocked(S)
            /\ LET swept == [j \in Approvals |-> IF j \in S THEN [row[j] EXCEPT !.state = "expired"] ELSE row[j]]
                   refused == \/ S # Expired
                              \/ Cardinality(Pending \ S) >= lim.pending
                              \/ Cardinality(time.hour) >= lim.hourly
                              \/ closed
               IN /\ row' = IF S = Expired THEN pruneDecided(swept) ELSE swept
                  /\ create' = [create EXCEPT ![i] = IF refused THEN "failed"
                                                     ELSE IF lim.desktop THEN "window" ELSE "code"]
                  /\ SetTail(S, "hook")
                  /\ dialogs' = dialogs \ {<<j, entry[j].handle>> : j \in S}
                  /\ watched' = watched \ Watches(S)
                  /\ entry' = [j \in Approvals |->
                        IF j \in S THEN NoEntry
                        ELSE IF j = i /\ ~refused THEN [NoEntry EXCEPT !.in = "reserved"] ELSE entry[j]]

BugKeepsSlot(i) == UNCHANGED entry

\* dropReserved: only a slot that is still reserved is removed.
dropReserved(i) == entry' = [entry EXCEPT ![i] = IF @.in = "reserved" THEN NoEntry ELSE @]

NextHandle == used.windows + 1

OpensDialog(i) ==
    /\ used.windows < lim.windows
    /\ used' = [used EXCEPT !.windows = @ + 1]
    /\ dialogs' = dialogs \cup {<<i, NextHandle>>}

\* The dialog is started and the ready wait ends, outside s.mu.
CreateWindow(i) ==
    /\ create[i] = "window"
    /\ \/ /\ dropReserved(i)
          /\ create' = [create EXCEPT ![i] = "failed"]
          /\ UNCHANGED <<dialogs, used>>
       \/ /\ OpensDialog(i)
          /\ entry' = [entry EXCEPT ![i].handle = IF entry[i].in = "none" THEN 0 ELSE NextHandle]
          /\ create' = [create EXCEPT ![i] = "code"]
    /\ UNCHANGED <<lim, row, watched, work, tail, unwritten, tries, wrongCodes, time, fact, closed, hist>>

Mine(i) == {d \in dialogs : d[1] = i}

\* The code is made and shown; without a notifier the window is killed too.
CreateCode(i) ==
    /\ create[i] = "code"
    /\ \/ create' = [create EXCEPT ![i] = "store"] /\ UNCHANGED <<entry, dialogs, used>>
       \/ /\ Fault
          /\ dropReserved(i)
          /\ dialogs' = dialogs \ Mine(i)
          /\ create' = [create EXCEPT ![i] = "failed"]
    /\ UNCHANGED <<lim, row, watched, work, tail, unwritten, tries, wrongCodes, time, fact, closed, hist>>

\* The row is written and the slot finished, only if the reservation survived.
CreateStore(i) ==
    /\ create[i] = "store"
    /\ IF entry[i].in = "none" \/ closed
       THEN /\ create' = [create EXCEPT ![i] = "failed"]
            /\ entry' = [entry EXCEPT ![i] = NoEntry]
            /\ dialogs' = dialogs \ Mine(i)
            /\ UNCHANGED <<row, watched, time, used>>
       ELSE \/ /\ Fault
               /\ create' = [create EXCEPT ![i] = "failed"]
               /\ entry' = [entry EXCEPT ![i] = NoEntry]
               /\ dialogs' = dialogs \ Mine(i)
               /\ UNCHANGED <<row, watched, time>>
            \/ /\ create' = [create EXCEPT ![i] = "made"]
               /\ row' = [row EXCEPT ![i].state = "pending"]
               /\ entry' = [entry EXCEPT ![i] = [@ EXCEPT !.in = "live", !.timer = "armed", !.watch = entry[i].handle]]
               /\ watched' = watched \cup Mine(i)
               /\ time' = [time EXCEPT !.hour = @ \cup {i}]
               /\ UNCHANGED <<dialogs, used>>
    /\ UNCHANGED <<lim, work, tail, unwritten, tries, wrongCodes, fact, closed, hist>>

-----------------------------------------------------------------------------
(* Deciding                                                                *)

\* checkExpiryLocked found the stored expiry in the past: the row is marked
\* and the approval forgotten; a failing write leaves everything.
ConfirmExpired(i) ==
    \/ /\ Ok
       /\ SetRows({i}, "expired") /\ drop({i}) /\ SetTail({i}, "hook")
       /\ UNCHANGED <<wrongCodes, hist>>
    \/ Fault /\ UNCHANGED <<row, entry, dialogs, watched, tail, wrongCodes, hist>>

BugDropsLiveOnly(i) ==
    /\ hist' = [hist EXCEPT ![i].guesses = @ + 1]
    /\ LET attempts == row[i].attempts + 1
           rejected == attempts >= lim.attempts
           gone == (IF rejected THEN {i} ELSE {}) \cup (IF wrongCodes + 1 >= lim.wrong THEN Live ELSE {})
       IN /\ Ok
          /\ wrongCodes' = wrongCodes + 1
          /\ row' = [row EXCEPT ![i].attempts = attempts, ![i].state = IF rejected THEN "rejected" ELSE @]
          /\ tail' = [j \in Approvals |-> IF j \in gone THEN (IF j = i /\ rejected THEN "hook" ELSE "row") ELSE tail[j]]
          /\ entry' = [j \in Approvals |-> IF j \in gone THEN NoEntry ELSE entry[j]]
          /\ dialogs' = dialogs /\ watched' = watched

BugFreeAttempt(i) ==
    /\ hist' = [hist EXCEPT ![i].guesses = @ + 1]
    /\ \/ Fault /\ UNCHANGED <<row, wrongCodes, tail, entry, dialogs, watched>>
       \/ /\ Ok /\ wrongCodes' = wrongCodes + 1 /\ row' = [row EXCEPT ![i].attempts = @ + 1]
          /\ IF row[i].attempts + 1 >= lim.attempts THEN drop({i}) /\ SetTail({i}, "row")
             ELSE UNCHANGED <<tail, entry, dialogs, watched>>

\* The attempt and the wrong code are counted in one transaction.
recordBadCode(i) ==
    [attempts |-> row[i].attempts + 1,
     rejected |-> row[i].attempts + 1 >= lim.attempts,
     locked   |-> wrongCodes + 1 >= lim.wrong]

\* A wrong code.  The last attempt rejects the approval, and the last wrong
\* code of the day drops every pending approval before s.mu is released
\* (dropAllLocked; lockAll then rejects the rows).  When the transaction
\* fails the approval is dropped in memory and rejected best effort.
ConfirmWrong(i) ==
    /\ hist' = [hist EXCEPT ![i].guesses = @ + 1]
    /\ \/ LET bad == recordBadCode(i)
              rejected == bad.rejected \/ entry[i].attempts + 1 >= lim.attempts
              locked == bad.locked
              gone == (IF rejected THEN {i} ELSE {}) \cup (IF locked THEN Pending ELSE {})
              others == gone \cap (Live \ (IF rejected THEN {i} ELSE {}))
          IN /\ Ok
             /\ wrongCodes' = wrongCodes + 1
             /\ row' = [row EXCEPT ![i] = [attempts |-> bad.attempts,
                                           state |-> IF rejected THEN "rejected" ELSE @.state]]
             /\ tail' = [j \in Approvals |-> IF j \in others THEN "row"
                                      ELSE IF j = i /\ rejected THEN "hook" ELSE tail[j]]
             /\ entry' = [j \in Approvals |->
                    IF j \in gone THEN NoEntry
                    ELSE IF j = i THEN [entry[i] EXCEPT !.handle = 0, !.attempts = @ + 1] ELSE entry[j]]
             /\ dialogs' = dialogs \ {<<j, entry[j].handle>> : j \in others \cup (IF rejected THEN {i} ELSE {})}
             /\ watched' = watched \ Watches(gone)
       \/ /\ Fault
          /\ drop({i}) /\ SetTail({i}, "row")
          /\ UNCHANGED <<row, wrongCodes>>

BugKeepsEntry(i) ==
    /\ fact[i] /\ Ok /\ SetRows({i}, "approved")
    /\ hist' = [hist EXCEPT ![i].performed = @ + 1]
    /\ UNCHANGED <<entry, dialogs, watched, tail, wrongCodes>>

BugPerformsFirst(i) ==
    /\ hist' = [hist EXCEPT ![i].performed = @ + 1]
    /\ UNCHANGED wrongCodes
    /\ \/ Fault /\ UNCHANGED <<row, entry, dialogs, watched, tail>>
       \/ Ok /\ SetRows({i}, "approved") /\ drop({i}) /\ UNCHANGED tail

\* The code is right: the decision, the precondition and the action share a
\* transaction.  A failed begin or commit keeps the approval, without its
\* timer; a failed action keeps it and arms the timer again.
ConfirmRight(i) ==
    LET kept(timer) ==
            /\ Fault
            /\ entry' = [entry EXCEPT ![i] = [StopTimer(@) EXCEPT !.handle = 0,
                                                 !.timer = IF @ = "fired" THEN @ ELSE timer]]
            /\ UNCHANGED <<row, dialogs, watched, tail, hist>>
    IN /\ UNCHANGED wrongCodes
       /\ \/ kept("off")
          \/ fact[i] /\ kept("armed")
          \/ ~fact[i] /\ Ok /\ drop({i}) /\ SetTail({i}, "row") /\ UNCHANGED <<row, hist>>
          \/ /\ fact[i] /\ Ok
             /\ SetRows({i}, "approved") /\ drop({i})
             /\ hist' = [hist EXCEPT ![i].performed = @ + 1]
             /\ UNCHANGED tail

\* confirm, in one section of s.mu; nothing happens to an approval that is
\* gone or only reserved.
confirm(i, code) ==
    IF i \notin Live THEN Ok /\ UNCHANGED <<row, entry, dialogs, watched, tail, wrongCodes, hist>>
    ELSE IF i \in time.aged THEN ConfirmExpired(i)
    ELSE IF code = "right" THEN ConfirmRight(i) ELSE ConfirmWrong(i)

\* A line on the daemon's own stdin (terminal mode).
TerminalConfirm(i, code) ==
    /\ ~lim.desktop /\ i \in Live
    /\ confirm(i, code)
    /\ UNCHANGED <<lim, create, work, unwritten, tries, time, fact, closed>>

BugNoHook(i) == i \in Live /\ drop({i}) /\ UNCHANGED tail

\* takePending, then the row and the hook outside s.mu.
takePending(i) == i \in Live /\ drop({i}) /\ SetTail({i}, "row")

\* Reject from IPC, the terminal or another part of the daemon.
Reject(i) ==
    /\ takePending(i)
    /\ UNCHANGED <<lim, row, create, work, unwritten, tries, wrongCodes, time, used, fact, closed, hist>>

\* What the approval is about ended: its pending row is looked up, and an
\* approval that is no longer live is left to whoever took it.
RejectSubjects(i) ==
    /\ ~fact[i] /\ row[i].state = "pending"
    /\ Reject(i)

\* rejectRow: unconditional on the row's state, best effort.
TailRow(i) ==
    /\ tail[i] = "row"
    /\ \/ Ok /\ SetRows({i}, "rejected")
       \/ Fault /\ UNCHANGED row
    /\ SetTail({i}, "hook")
    /\ UNCHANGED <<lim, entry, create, dialogs, watched, work, unwritten, tries, wrongCodes, time, fact, closed, hist>>

\* runOnReject.
TailHook(i) ==
    /\ tail[i] = "hook"
    /\ SetTail({i}, "none")
    /\ hist' = [hist EXCEPT ![i].hooks = @ + 1]
    /\ UNCHANGED <<lim, row, entry, create, dialogs, watched, work, unwritten, tries, wrongCodes, time, used, fact, closed>>

-----------------------------------------------------------------------------
(* Expiry                                                                  *)

BugTimerOfWindow(i) ==
    /\ i \in Live /\ i \in time.aged /\ entry[i].timer = "armed" /\ entry[i].handle # 0
    /\ entry' = [entry EXCEPT ![i].timer = "fired"]
    /\ UNCHANGED <<lim, row, create, dialogs, watched, work, tail, unwritten, tries, wrongCodes, time, used, fact, closed, hist>>

\* The expiry timer fires and its callback waits for s.mu.
TimerFires(i) ==
    /\ i \in Live /\ i \in time.aged /\ entry[i].timer = "armed"
    /\ entry' = [entry EXCEPT ![i].timer = "fired"]
    /\ UNCHANGED <<lim, row, create, dialogs, watched, work, tail, unwritten, tries, wrongCodes, time, used, fact, closed, hist>>

\* expireNow removes the entry first and writes the row afterwards.
ExpireNow(i) ==
    /\ i \in Live /\ entry[i].timer = "fired"
    /\ drop({i}) /\ SetTail({i}, "expire")
    /\ UNCHANGED <<lim, row, create, work, unwritten, tries, wrongCodes, time, used, fact, closed, hist>>

\* writeExpired: only a row that is still pending.
writeExpired(i) == SetRows(IF row[i].state = "pending" THEN {i} ELSE {}, "expired")

\* A failed write hides the approval, runs the hook and is retried.
TailExpire(i) ==
    /\ tail[i] = "expire"
    /\ \/ Ok /\ writeExpired(i) /\ UNCHANGED unwritten
          /\ SetTail({i}, IF row[i].state = "pending" THEN "hook" ELSE "none")
       \/ Fault /\ unwritten' = unwritten \cup {i} /\ SetTail({i}, "hook") /\ UNCHANGED row
    /\ UNCHANGED <<lim, entry, create, dialogs, watched, work, tries, wrongCodes, time, fact, closed, hist>>

\* retryExpired gives up after lim.retries attempts or when the store closes.
RetryExpired(i) ==
    /\ i \in unwritten /\ tries < lim.retries /\ ~closed
    /\ \/ Ok /\ writeExpired(i) /\ unwritten' = unwritten \ {i} /\ UNCHANGED tries
       \/ Fault /\ tries' = tries + 1 /\ UNCHANGED <<row, unwritten>>
    /\ UNCHANGED <<lim, entry, create, dialogs, watched, work, tail, wrongCodes, time, fact, closed, hist>>

\* List sweeps before it reads.
List ==
    /\ Expired # {}
    /\ \E S \in SUBSET Expired :
         /\ sweepExpiredLocked(S)
         /\ SetRows(S, "expired") /\ drop(S) /\ SetTail(S, "hook")
    /\ UNCHANGED <<lim, create, work, unwritten, tries, wrongCodes, time, fact, closed, hist>>

-----------------------------------------------------------------------------
(* Windows                                                                 *)

Answers == {"right", "wrong", "malformed", "reject", "dismiss"}

\* The dialog gives its one answer and exits; onWindowAnswer forgets it
\* first, so that the next window may start.
WindowAnswers(i, h, kind) ==
    /\ <<i, h>> \in watched
    /\ dialogs' = dialogs \ {<<i, h>>} /\ watched' = watched \ {<<i, h>>}
    /\ entry' = [entry EXCEPT ![i] = IF i \in Live /\ @.handle = h
                                     THEN [@ EXCEPT !.handle = 0, !.watch = 0] ELSE @]
    /\ work' = IF kind = "dismiss" THEN work
               ELSE work \cup {[id |-> i, h |-> h, step |-> IF kind = "malformed" THEN "reopen" ELSE "decide", kind |-> kind]}
    /\ UNCHANGED <<lim, row, create, tail, unwritten, tries, wrongCodes, time, used, fact, closed, hist>>

\* The answer is acted on.  A wrong code or a failed action reopens the
\* window when the approval is still pending.
DecideAnswer(w) ==
    /\ w \in work /\ w.step = "decide"
    /\ IF w.kind = "reject"
       THEN /\ IF w.id \in Live THEN takePending(w.id) ELSE UNCHANGED <<entry, dialogs, watched, tail>>
            /\ work' = work \ {w}
            /\ UNCHANGED <<row, wrongCodes, used, hist>>
       ELSE /\ confirm(w.id, w.kind)
            /\ work' = (work \ {w}) \cup {[w EXCEPT !.step = "reopen"]}
    /\ UNCHANGED <<lim, create, unwritten, tries, time, fact, closed>>

\* approval_open: the answer is immediate when a window is open already.
OpenWindow(i) ==
    /\ lim.desktop /\ i \in Live /\ used.opens < lim.opens
    /\ entry[i].handle = 0 /\ ~entry[i].opening
    /\ used' = [used EXCEPT !.opens = @ + 1]
    /\ work' = work \cup {[id |-> i, h |-> 0, step |-> "reopen", kind |-> "open"]}
    /\ UNCHANGED <<lim, row, entry, create, dialogs, watched, tail, unwritten, tries, wrongCodes, time, fact, closed, hist>>

\* reopen, first section: a no-op while another window is open or opening.
Reopen(w) ==
    /\ w \in work /\ w.step = "reopen"
    /\ LET i == w.id
           may == i \in Live /\ ~entry[i].opening /\ entry[i].handle = 0 /\ ~closed
       IN /\ entry' = IF may THEN [entry EXCEPT ![i].opening = TRUE] ELSE entry
          /\ work' = (work \ {w}) \cup (IF may THEN {[w EXCEPT !.step = "start"]} ELSE {})
    /\ UNCHANGED <<lim, row, create, dialogs, watched, tail, unwritten, tries, wrongCodes, time, used, fact, closed, hist>>

\* startWindow: nothing is started for a row that is no longer pending, and
\* the dialog may fail to come up.
StartWindow(w) ==
    /\ w \in work /\ w.step = "start"
    /\ \/ /\ row[w.id].state = "pending" /\ w.id \notin unwritten
          /\ OpensDialog(w.id)
          /\ work' = (work \ {w}) \cup {[w EXCEPT !.step = "attach", !.h = NextHandle]}
          /\ UNCHANGED entry
       \/ /\ work' = work \ {w}
          /\ entry' = [entry EXCEPT ![w.id].opening = FALSE]
          /\ UNCHANGED <<dialogs, used>>
    /\ UNCHANGED <<lim, row, create, watched, tail, unwritten, tries, wrongCodes, time, fact, closed, hist>>

\* reopen, second section: the new dialog is kept, or killed when the
\* approval is gone or the store closed.
AttachWindow(w) ==
    /\ w \in work /\ w.step = "attach"
    /\ work' = work \ {w}
    /\ LET i == w.id
           keep == i \in Live /\ ~closed
       IN /\ entry' = IF keep THEN [entry EXCEPT ![i] = [@ EXCEPT !.opening = FALSE, !.handle = w.h, !.watch = w.h]]
                      ELSE [entry EXCEPT ![i].opening = FALSE]
          /\ dialogs' = IF keep THEN dialogs ELSE dialogs \ {<<i, w.h>>}
          /\ watched' = IF keep THEN watched \cup {<<i, w.h>>} ELSE watched
    /\ UNCHANGED <<lim, row, create, tail, unwritten, tries, wrongCodes, time, used, fact, closed, hist>>

-----------------------------------------------------------------------------
(* Stopping and starting                                                   *)

Close ==
    /\ ~closed
    /\ closed' = TRUE
    /\ entry' = [i \in Approvals |-> [StopTimer(entry[i]) EXCEPT !.handle = 0]]
    /\ dialogs' = dialogs \ {<<i, entry[i].handle>> : i \in Pending}
    /\ watched' = watched \ Watches(Approvals)
    /\ UNCHANGED <<lim, row, create, work, tail, unwritten, tries, wrongCodes, time, used, fact, hist>>

\* The process ended, cleanly or not, and ExpireStale ran at the next start:
\* every row left pending is expired, and no hook runs for it.
Restart ==
    /\ closed \/ Pending # {} \/ tail # [i \in Approvals |-> "none"]
    /\ closed' = FALSE
    /\ row' = pruneDecided([i \in Approvals |-> IF row[i].state = "pending" THEN [row[i] EXCEPT !.state = "expired"] ELSE row[i]])
    /\ entry' = [i \in Approvals |-> NoEntry]
    /\ create' = [i \in Approvals |-> IF create[i] \in {"window", "code", "store"} THEN "failed" ELSE create[i]]
    /\ dialogs' = {} /\ watched' = {} /\ work' = {} /\ unwritten' = {} /\ tries' = 0
    /\ tail' = [i \in Approvals |-> "none"]
    /\ UNCHANGED <<lim, wrongCodes, time, used, fact, hist>>

-----------------------------------------------------------------------------
ApprovalNext ==
    \/ HourPasses \/ MonthPasses \/ List \/ Close \/ Restart
    \/ \E i \in Approvals :
        \/ FactGone(i)
        \/ CreateReserve(i) \/ CreateWindow(i) \/ CreateCode(i) \/ CreateStore(i)
        \/ \E code \in {"right", "wrong"} : TerminalConfirm(i, code)
        \/ Reject(i) \/ RejectSubjects(i) \/ TailRow(i) \/ TailHook(i)
        \/ TimerFires(i) \/ ExpireNow(i) \/ TailExpire(i) \/ RetryExpired(i)
        \/ OpenWindow(i)
        \/ \E h \in 1..lim.windows, kind \in Answers : WindowAnswers(i, h, kind)
    \/ \E w \in work : DecideAnswer(w) \/ Reopen(w) \/ StartWindow(w) \/ AttachWindow(w)

ApprovalSpec == ApprovalInit /\ [][ApprovalNext]_approvalVars

\* Time passes, timers fire and goroutines run.
ApprovalFairness ==
    /\ WF_approvalVars(HourPasses)
    /\ WF_approvalVars(\E i \in Approvals : TimerFires(i) \/ ExpireNow(i)
                                           \/ TailRow(i) \/ TailHook(i) \/ TailExpire(i))

ApprovalFairSpec == ApprovalSpec /\ ApprovalFairness

-----------------------------------------------------------------------------
(* Properties                                                              *)

ApprovalRows == [state : {"none", "pending", "approved", "rejected", "expired"}, attempts : Nat]
ApprovalEntries ==
    [in : {"none", "reserved", "live"}, handle : Nat, watch : Nat, opening : BOOLEAN, attempts : Nat,
     timer : {"off", "armed", "fired"}]

CreateSteps == {"idle", "window", "code", "store", "made", "failed"}
Tails == {"none", "row", "hook", "expire"}

ApprovalTypeOK ==
    /\ row \in [Approvals -> ApprovalRows]
    /\ entry \in [Approvals -> ApprovalEntries]
    /\ create \in [Approvals -> CreateSteps]
    /\ tail \in [Approvals -> Tails]
    /\ watched \subseteq dialogs

\* An approval comes to one thing: its action is performed once, or its hook
\* runs once, whichever of Confirm, Reject, the timer, a sweep, a lockout and
\* a failed write reached it first (store.go confirm, expireNow, lockAll).
OneOutcome == \A i \in Approvals : hist[i].performed + hist[i].hooks <= 1

\* The table tells the same story as the actions: a row is approved exactly
\* when its action was performed, also after rejectRow, whose UPDATE names no
\* state (store.go rejectRow).
ApprovedMeansPerformed ==
    \A i \in Approvals : row[i].state = "approved" <=> hist[i].performed = 1 /\ row[i].state # "none"

\* A decided row keeps its state until it is pruned.
DecisionsStand ==
    [][\A i \in Approvals : row[i].state \in {"approved", "rejected", "expired"} => row'[i].state \in {row[i].state, "none"}]_approvalVars

\* No code can be tested once the day's wrong codes are used up: the lockout
\* drops every pending approval before s.mu is released, and a Create that
\* waits for its window finds its reservation gone (store.go dropAllLocked).
NothingPendingWhileLocked == wrongCodes >= lim.wrong => Pending = {}

\* A failing wrong-code write never buys another attempt (store.go confirm).
GuessesBounded == \A i \in Approvals : hist[i].guesses <= lim.attempts

\* A reserved slot belongs to a Create that is still running, so failures do
\* not use up MaxPending; and reservations count (store.go Create).
SlotsAreBounded ==
    /\ Cardinality(Pending) <= lim.pending
    /\ \A i \in Approvals : entry[i].in = "reserved" => create[i] \in {"window", "code", "store"}

\* The table, the pending entries and the actions tell one story in every state.
DecidedOnce ==
    /\ ApprovalTypeOK /\ OneOutcome /\ ApprovedMeansPerformed
    /\ NothingPendingWhileLocked /\ GuessesBounded /\ SlotsAreBounded

\* What an approval has come to, as the contract tells it.
Outcome ==
    [i \in Approvals |-> IF hist[i].performed > 0 THEN "approved"
                     ELSE IF hist[i].hooks > 0 THEN "released"
                     ELSE IF tail[i] # "none" THEN "ending"
                     ELSE IF i \in Live THEN "waiting"
                     ELSE IF create[i] = "made" THEN "forgotten" ELSE "none"]

Contract == INSTANCE ApprovalContract WITH outcome <- Outcome, Ids <- Approvals

\* The store keeps the contract of approval.Action: performed at most once,
\* released at most once, never both, and forgotten only by a restart; and what
\* the table says of it stands.
KeepsContract == Contract!ContractSpec /\ DecisionsStand

\* Every pending row is decided, by a human or by the expiry timer, unless a
\* write failed or the store was closed (store.go expireNow).
EveryRowIsDecided ==
    <>[](used.faults > 0 \/ closed \/ \A i \in Approvals : row[i].state # "pending")
=============================================================================
