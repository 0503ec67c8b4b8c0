---------------------------- MODULE WorkRequest ----------------------------
(***************************************************************************)
(* One request from daemon A (the requester) to daemon B (the worker), and *)
(* the work session it opens: internal/request and internal/worksession on *)
(* both sides, the mail between them and the human approvals on A          *)
(* (internal/daemon/session.go).                                           *)
(*                                                                         *)
(* B's `in' request row and A's session row are authoritative; A's `out'   *)
(* row and B's session row mirror them through mails that overtake each    *)
(* other.  The mail layer (MailOutbox, MailReceiver) delivers a mail at    *)
(* most once, in any order, and may give one up; the sender then may or    *)
(* may not know.  A handler that changes nothing may answer with an echo   *)
(* of the last reply, read after its transaction and sent in another one:  *)
(* the answer in between is `echo'.  `old' is a Phase 1 daemon, which      *)
(* knows no sessions.                                                      *)
(***************************************************************************)
EXTENDS SessionRows, FiniteSets, Bags

CONSTANTS
    Limits,         \* the bounds of a behaviour, chosen at its start; see TypeLimits
    MaxAge,         \* days after which an unknown request is refused (30)
    ResendAge,      \* days within which a request may be sent again (21)
    TombstoneAge    \* days a cancel that came first is remembered (31)

ASSUME AgesAssumption ==
    /\ MaxAge \in Nat /\ ResendAge \in Nat /\ TombstoneAge \in Nat
    /\ ResendAge <= MaxAge /\ MaxAge <= TombstoneAge

VARIABLES
    a,       \* A: row, tries, cancels (mails sent), session, sensitive (the quarantine
             \*    rule), asks (pending approvals), fresh (last_state under 10 minutes
             \*    old), echo, old, inbox (texts a reader of A's mail can see) and
             \*    held (history: texts that went into quarantine and never came out)
    b,       \* B: row, tomb (day of the tombstone), session, stops (ws.cancels sent),
             \*    unsupported (a ws mail of B ended unsupported_kind), completing (a
             \*    request_complete between its two reads), fresh, echo, old, made
    net,     \* the mails sent and not delivered, a bag
    day,     \* days since the request was created
    limit    \* the bounds of this behaviour

workVars == <<a, b, net, day, limit>>

TypeLimits ==
    [tries : Nat, cancels : Nat, rounds : Nat, seqs : Nat, made : Nat, stops : Nat,
     days : Nat, full : BOOLEAN, caps : BOOLEAN, run : BOOLEAN, grants : BOOLEAN,
     sensitive : BOOLEAN, oldA : BOOLEAN, oldB : BOOLEAN]

NoMail == [kind |-> "none"]
NoTomb == -1
Idle == -2               \* no request_complete under way
RequestMail(n) == [kind |-> "request", n |-> n]
CancelMail(n) == [kind |-> "request.cancel", n |-> n]
ResultMail(w) == [kind |-> "ws.result", round |-> w.round, content |-> w.result]
StopMail == [kind |-> "ws.cancel"]

WorkInit ==
    /\ limit \in Limits
    /\ a = [row |-> NoOut, tries |-> 0, cancels |-> 0, session |-> NoSession,
            sensitive |-> limit.sensitive, asks |-> {}, fresh |-> FALSE, echo |-> NoMail,
            old |-> limit.oldA, inbox |-> {}, held |-> {}]
    /\ b = [row |-> NoIn, tomb |-> NoTomb, session |-> NoMirror, stops |-> 0,
            unsupported |-> FALSE, completing |-> Idle, fresh |-> FALSE,
            echo |-> NoMail, old |-> limit.oldB, made |-> 0]
    /\ net = EmptyBag
    /\ day = 0

Sent(mails) == net (+) SetToBag(mails)
Answered(m, mails) == (net (-) SetToBag({m})) (+) SetToBag(mails)
InFlight(kind) == {m \in BagToSet(net) : m.kind = kind}
Texts(content) == {content} \ {NoContent, CancelledNote}

----------------------------------------------------------------------------
(* A: commands on the request. *)

Submit ==
    /\ a.row.state = "none"
    /\ a' = [a EXCEPT !.row = Submitted, !.tries = 1]
    /\ net' = Sent({RequestMail(1)})
    /\ UNCHANGED <<b, day, limit>>

\* request_resend: only what is still pending, not cancelled, young and lost.
Resend ==
    /\ a.row.state = "pending" /\ a.row.cancel = "none"
    /\ a.row.mail \in {"expired", "failed"}
    /\ day < ResendAge
    /\ a.tries < limit.tries
    /\ a' = [a EXCEPT !.row.mail = "live", !.tries = @ + 1]
    /\ net' = Sent({RequestMail(a.tries + 1)})
    /\ UNCHANGED <<b, day, limit>>

\* request_cancel: a cancel whose mail is still on its way, or arrived, is not repeated.
Cancel ==
    /\ a.row.state \in Open
    /\ ~(a.row.cancel = "requested" /\ a.row.cancelMail \in {"live", "delivered"})
    /\ a.cancels < limit.cancels
    /\ a' = [a EXCEPT !.row.cancel = "requested", !.row.cancelMail = "live",
                      !.cancels = @ + 1]
    /\ net' = Sent({CancelMail(a.cancels + 1)})
    /\ UNCHANGED <<b, day, limit>>

----------------------------------------------------------------------------
(* A: commands on the session, and the approvals that two of them wait for. *)

\* A's own step of its session: the row, the ws.state and, on a close, A's view of
\* it in a request record that B already completed.
MoveSession(s, asks) ==
    /\ a' = [a EXCEPT !.session = s, !.fresh = TRUE, !.asks = asks,
                      !.row = IF s.state = "closed" THEN SetOutContent(@, requesterView(s))
                              ELSE @,
                      !.held = IF a.session.state = "quarantined" /\ s.state = "awaiting_result"
                               THEN @ \ {s.result} ELSE @]
    /\ net' = Sent({StateMail(s)})
    /\ UNCHANGED <<b, day, limit>>

AcceptResult ==
    /\ a.session.state = "awaiting_result"
    /\ MoveSession(Close(a.session, "accepted"), a.asks)

RequestChanges ==
    /\ a.session.state \in {"awaiting_result", "quarantined"}
    /\ a.session.round < limit.rounds
    /\ MoveSession(NextRound(a.session), a.asks)

Discard ==
    /\ a.session.state = "quarantined"
    /\ MoveSession(Discarded(a.session), a.asks)

CancelSession ==
    /\ a.session.state = "open"
    /\ MoveSession(Close(a.session, "cancelled"), a.asks)

\* A sensitive grant of the session: the quarantine rule holds from here on.
Grant ==
    /\ limit.grants /\ ~a.sensitive
    /\ a.session.state = "open"
    /\ a' = [a EXCEPT !.sensitive = TRUE]
    /\ UNCHANGED <<b, net, day, limit>>

Asked == [release |-> "quarantined", accept_result |-> "awaiting_result"]

\* ws_release and ws_accept_result --human: an approval bound to the session's seq.
\* `result' is the text it is about (history).
Ask(kind) ==
    /\ a.session.state = Asked[kind]
    /\ a' = [a EXCEPT !.asks = @ \cup {[kind |-> kind, seq |-> a.session.seq,
                                        result |-> a.session.result]}]
    /\ a' # a
    /\ UNCHANGED <<b, net, day, limit>>

BugAnySeq(ask) == a.session.state = Asked[ask.kind]
Precondition(ask) ==
    /\ a.session.state = Asked[ask.kind]
    /\ a.session.seq = ask.seq

ConfirmRelease(ask) ==
    /\ ask.kind = "release" /\ Precondition(ask)
    /\ MoveSession(Released(a.session), a.asks \ {ask})

ConfirmAccept(ask) ==
    /\ ask.kind = "accept_result" /\ Precondition(ask)
    /\ MoveSession([Close(a.session, "accepted") EXCEPT !.human = TRUE], a.asks \ {ask})

\* Rejected, expired, failed its precondition, or dropped by a restart or by a close: its
\* RejectSubjects runs after the closing transaction, so a confirm may come first.
EndAsk(ask) ==
    /\ a' = [a EXCEPT !.asks = @ \ {ask}]
    /\ UNCHANGED <<b, net, day, limit>>

----------------------------------------------------------------------------
(* A: mail from B. *)

applyAccept(m) ==
    /\ m.state = "accepted"
    /\ a' = [a EXCEPT !.row = applyMirror(@, m, NoContent),
                      !.session = IF a.old THEN @ ELSE OpenSession(@)]
    /\ net' = Answered(m, {})
    /\ UNCHANGED <<b, day, limit>>

applyComplete(m) ==
    LET e == IF a.old THEN [session |-> a.session, content |-> m.content, withhold |-> FALSE]
             ELSE EarlyComplete(a.session, m.content, a.sensitive)
        closes == e.session # a.session
        row == IF closes THEN SetOutContent(a.row, requesterView(e.session)) ELSE a.row
    IN  /\ m.state = "completed"
        /\ a' = [a EXCEPT !.session = e.session, !.fresh = closes \/ @,
                          !.row = applyMirror(row, m, e.content),
                          !.inbox = IF e.withhold THEN @ ELSE @ \cup Texts(m.content)]
        /\ net' = Answered(m, IF closes THEN {StateMail(e.session)} ELSE {})
        /\ UNCHANGED <<b, day, limit>>

\* Declined, deferred or cancelled; a late end closes an open session.
applyOther(m) ==
    LET ends == /\ m.seq > a.row.seq /\ m.state \in Final
                /\ a.session.state = "open"
        s == IF ends THEN Close(a.session, "cancelled") ELSE a.session
    IN  /\ m.state \notin {"accepted", "completed"}
        /\ a' = [a EXCEPT !.row = applyMirror(@, m, NoContent), !.session = s,
                          !.fresh = ends \/ @]
        /\ net' = Answered(m, IF ends THEN {StateMail(s)} ELSE {})
        /\ UNCHANGED <<b, day, limit>>

Lifecycle(m) ==
    /\ a.echo = NoMail
    /\ applyAccept(m) \/ applyComplete(m) \/ applyOther(m)

\* What resendLastState reads after a handler that changed nothing.
LastState == IF a.session.seq > 0 /\ ~a.fresh THEN StateMail(a.session) ELSE NoMail

\* The mail layer's answer for a result: delivered, unless the ack is lost.
ResultAcked(m, status) ==
    IF b.session.resultMail = "live" /\ b.session.resultRound = m.round
    THEN [b EXCEPT !.session.resultMail = status] ELSE b

\* A result for a request that ended here is dropped without an echo.
ResultEnded(m) ==
    /\ ~a.old /\ a.echo = NoMail
    /\ a.row.state \in Final
    /\ net' = Answered(m, {})
    /\ b' \in {b, ResultAcked(m, "delivered")}
    /\ UNCHANGED <<a, day, limit>>

ResultIgnored(m) ==
    LET s == OpenSession(a.session) IN
    /\ ~a.old /\ a.echo = NoMail
    /\ a.row.state \notin Final
    /\ s.state # "open" \/ s.round # m.round
    /\ a' = [a EXCEPT !.session = s, !.echo = LastState]
    /\ net' = Answered(m, {})
    /\ b' \in {b, ResultAcked(m, "delivered")}
    /\ UNCHANGED <<day, limit>>

\* A result that overtook the accept opens the session itself.
ResultTaken(m) ==
    LET s == OpenSession(a.session)
        taken == TakeResult(s, m.content, a.sensitive)
    IN  /\ ~a.old /\ a.echo = NoMail
        /\ a.row.state \notin Final
        /\ s.state = "open" /\ s.round = m.round
        /\ a' = [a EXCEPT !.session = taken, !.fresh = TRUE,
                          !.inbox = IF a.sensitive THEN @ ELSE @ \cup {m.content},
                          !.held = IF a.sensitive THEN @ \cup {m.content} ELSE @]
        /\ net' = Answered(m, {StateMail(taken)})
        /\ b' \in {b, ResultAcked(m, "delivered")}
        /\ UNCHANGED <<day, limit>>

applyResult(m) == ResultEnded(m) \/ ResultIgnored(m) \/ ResultTaken(m)

\* B's ws.cancel: for a session A does not have it is an orphan, open it closes,
\* otherwise it is refused and A's state is echoed.
StopOrphan(m) ==
    /\ a.session.state = "none"
    /\ net' = Answered(m, {})
    /\ UNCHANGED a

StopRefused(m) ==
    /\ a.session.state \notin {"none", "open"}
    /\ a' = [a EXCEPT !.echo = LastState]
    /\ net' = Answered(m, {})

StopApplied(m) ==
    LET s == Close(a.session, "cancelled") IN
    /\ a.session.state = "open"
    /\ a' = [a EXCEPT !.session = s, !.fresh = TRUE,
                      !.row = SetOutContent(@, requesterView(s))]
    /\ net' = Answered(m, {StateMail(s)})

applyStop(m) ==
    /\ ~a.old /\ a.echo = NoMail
    /\ StopOrphan(m) \/ StopRefused(m) \/ StopApplied(m)
    /\ UNCHANGED <<b, day, limit>>

\* A Phase 1 daemon acks a ws mail as an unsupported kind, or the ack is lost.
Unsupported(m) ==
    /\ a.old
    /\ net' = Answered(m, {})
    /\ \/ b' = b
       \/ b' = [(IF m.kind = "ws.result" THEN ResultAcked(m, "unsupported") ELSE b)
                EXCEPT !.unsupported = TRUE]
    /\ UNCHANGED <<a, day, limit>>

\* resendLastState: its own transaction, after the read.
EchoState ==
    /\ a.echo # NoMail
    /\ a' = [a EXCEPT !.echo = NoMail, !.fresh = TRUE]
    /\ net' = Sent({a.echo})
    /\ UNCHANGED <<b, day, limit>>

----------------------------------------------------------------------------
(* B: mail from A. *)

RequestAcked(m, status) ==
    IF a.row.mail = "live" /\ m.n = a.tries THEN [a EXCEPT !.row.mail = status] ELSE a
CancelAcked(m) ==
    IF a.row.cancelMail = "live" /\ m.n = a.cancels
    THEN [a EXCEPT !.row.cancelMail = "delivered"] ELSE a

\* What resubmitStale reads after a handler that changed nothing.
LastReply == IF b.row.state # "pending" /\ ~b.fresh THEN Reply(b.row) ELSE NoMail

RequestDuplicate(m) ==
    /\ b.row.state # "none"
    /\ b' = [b EXCEPT !.echo = LastReply]
    /\ net' = Answered(m, {})
    /\ a' \in {a, RequestAcked(m, "delivered")}

\* Over a daily cap, or unknown and too old.  The caps come before the tombstone.
RequestRefused(m) ==
    /\ b.row.state = "none"
    /\ limit.caps \/ (b.tomb = NoTomb /\ day > MaxAge)
    /\ net' = Answered(m, {})
    /\ a' \in {a, RequestAcked(m, "failed")}
    /\ UNCHANGED b

\* consumeTombstone: the reply was sent when the cancel came.
RequestTombstoned(m) ==
    /\ b.row.state = "none" /\ b.tomb # NoTomb
    /\ b' = [b EXCEPT !.row = Moved(NoIn, "cancelled", NoContent), !.tomb = NoTomb]
    /\ net' = Answered(m, {})
    /\ a' \in {a, RequestAcked(m, "delivered")}

BugTakesAnyAge == b.row.state = "none" /\ b.tomb = NoTomb
Acceptable == b.row.state = "none" /\ b.tomb = NoTomb /\ day <= MaxAge

RequestDeclined(m) ==
    LET row == Moved(NoIn, "declined", NoContent) IN
    /\ Acceptable
    /\ b' = [b EXCEPT !.row = row, !.fresh = TRUE]
    /\ net' = Answered(m, {Reply(row)})
    /\ a' \in {a, RequestAcked(m, "delivered")}

RequestStored(m) ==
    /\ Acceptable
    /\ b' = [b EXCEPT !.row = Stored]
    /\ net' = Answered(m, {})
    /\ a' \in {a, RequestAcked(m, "delivered")}

\* The own-device helper accepts in the same transaction and owns the session.
RequestRun(m) ==
    LET row == Moved(Stored, "accepted", NoContent) IN
    /\ limit.run /\ ~b.old /\ Acceptable
    /\ b' = [b EXCEPT !.row = row, !.fresh = TRUE,
                      !.session = [OpenSession(@) EXCEPT !.runner = TRUE]]
    /\ net' = Answered(m, {Reply(row)})
    /\ a' \in {a, RequestAcked(m, "delivered")}

apply(m) ==
    /\ b.echo = NoMail
    /\ \/ RequestDuplicate(m) \/ RequestRefused(m) \/ RequestTombstoned(m)
       \/ RequestDeclined(m) \/ RequestStored(m) \/ RequestRun(m)
    /\ UNCHANGED <<day, limit>>

\* A cancel before its request leaves a tombstone, unless the peer has too many.
EarlyCancel(m) ==
    /\ b.row.state = "none"
    /\ b' = [b EXCEPT !.tomb = day, !.fresh = TRUE]
    /\ net' = Answered(m, {Reply(Moved(NoIn, "cancelled", NoContent))})

EarlyCancelFull(m) ==
    /\ b.row.state = "none" /\ limit.full
    /\ net' = Answered(m, {})
    /\ UNCHANGED b

CancelApplied(m) ==
    LET row == Moved(b.row, "cancelled", NoContent) IN
    /\ b.row.state \in Open
    /\ b' = [b EXCEPT !.row = row, !.fresh = TRUE]
    /\ net' = Answered(m, {Reply(row)})

CancelRefused(m) ==
    /\ b.row.state \in {"accepted"} \cup Final
    /\ b' = [b EXCEPT !.echo = LastReply]
    /\ net' = Answered(m, {})

applyCancel(m) ==
    /\ b.echo = NoMail
    /\ EarlyCancel(m) \/ EarlyCancelFull(m) \/ CancelApplied(m) \/ CancelRefused(m)
    /\ a' \in {a, CancelAcked(m)}
    /\ UNCHANGED <<day, limit>>

\* applyEarlyCancel of another request deletes the tombstones of every peer by age.
PruneTombstone ==
    /\ b.tomb # NoTomb /\ day > b.tomb + TombstoneAge
    /\ b' = [b EXCEPT !.tomb = NoTomb]
    /\ UNCHANGED <<a, net, day, limit>>

StateOrphan(m) ==
    /\ b.session.state = "none"
    /\ net' = Answered(m, {})
    /\ UNCHANGED b

\* The step into closed completes the request in the same transaction, if it is
\* still accepted; a new round of a run session is cancelled at once.
StateApplied(m) ==
    LET w == applyState(b.session, m)
        completes == /\ w.state = "closed" /\ b.session.state # "closed"
                     /\ b.row.state = "accepted"
        row == IF completes THEN Moved(b.row, "completed", Completion(b.session, m))
               ELSE b.row
        stops == /\ m.seq > b.session.seq /\ b.session.runner
                 /\ w.state = "open" /\ w.round >= 2
    IN  /\ b.session.state # "none"
        /\ b' = [b EXCEPT !.session = IF stops THEN WithCancel(w) ELSE w,
                          !.row = row, !.fresh = completes \/ @]
        /\ net' = Answered(m, (IF completes THEN {Reply(row)} ELSE {})
                              \cup (IF stops THEN {StopMail} ELSE {}))

applyStateMail(m) ==
    /\ b.echo = NoMail
    /\ StateOrphan(m) \/ StateApplied(m)
    /\ UNCHANGED <<a, day, limit>>

\* resubmitStale: its own transaction, after the read.
EchoReply ==
    /\ b.echo # NoMail
    /\ b' = [b EXCEPT !.echo = NoMail, !.fresh = TRUE]
    /\ net' = Sent({b.echo})
    /\ UNCHANGED <<a, day, limit>>

----------------------------------------------------------------------------
(* B: commands. *)

\* transitionTx: the row, last_reply and its mail; an accept opens the session.
Step(row, session, mails) ==
    /\ b' = [b EXCEPT !.row = row, !.session = session, !.fresh = TRUE]
    /\ net' = Sent({Reply(row)} \cup mails)
    /\ UNCHANGED <<a, day, limit>>

Accept ==
    /\ b.row.state \in Open
    /\ Step(Moved(b.row, "accepted", NoContent),
            IF b.old THEN b.session ELSE OpenSession(b.session), {})

Decline ==
    /\ b.row.state \in Open
    /\ Step(Moved(b.row, "declined", NoContent), b.session, {})

Defer ==
    /\ b.row.state \in Open /\ b.row.seq < limit.seqs
    /\ Step(Moved(b.row, "deferred", NoContent), b.session, {})

\* The one-step answer to a question: accept and result in one transaction.
AnswerQuestion ==
    LET w == WithResult(OpenSession(b.session), b.made + 1)
        row == Moved(b.row, "accepted", NoContent)
    IN  /\ ~b.old /\ b.row.state \in Open
        /\ b.made < limit.made
        /\ b' = [b EXCEPT !.row = row, !.session = w, !.fresh = TRUE, !.made = @ + 1]
        /\ net' = Sent({Reply(row), ResultMail(w)})
        /\ UNCHANGED <<a, day, limit>>

\* request_complete looks for a session first, and completes the request directly
\* when it saw none, in a transaction of its own.
CompleteLooks ==
    /\ b.completing = Idle /\ b.session.state = "none"
    /\ b.row.state \in Open \cup {"accepted"}
    /\ b.made < limit.made
    /\ \E content \in {NoContent, b.made + 1} :
         b' = [b EXCEPT !.completing = content, !.made = IF content = NoContent THEN @ ELSE content]
    /\ UNCHANGED <<a, net, day, limit>>

CompleteDone ==
    LET row == Moved(b.row, "completed", b.completing) IN
    /\ b.completing # Idle
    /\ b.row.state = "accepted"
    /\ b' = [b EXCEPT !.row = row, !.completing = Idle, !.fresh = TRUE]
    /\ net' = Sent({Reply(row)})
    /\ UNCHANGED <<a, day, limit>>

CompleteBadState ==
    /\ b.completing # Idle
    /\ b.row.state # "accepted"
    /\ b' = [b EXCEPT !.completing = Idle]
    /\ UNCHANGED <<a, net, day, limit>>

\* ws_result, and request_complete when a session exists.
SubmitResult ==
    LET w == WithResult(b.session, b.made + 1) IN
    /\ MaySubmit(b.session)
    /\ b.made < limit.made
    /\ b' = [b EXCEPT !.session = w, !.made = @ + 1]
    /\ net' = Sent({ResultMail(w)})
    /\ UNCHANGED <<a, day, limit>>

Stop ==
    /\ b' = [b EXCEPT !.session = WithCancel(@), !.stops = @ + 1]
    /\ net' = Sent({StopMail})
    /\ UNCHANGED <<a, day, limit>>

SubmitCancel ==
    /\ b.session.state \notin {"none", "closed"}
    /\ ~b.session.runner
    /\ b.session.cancel # "requested"
    /\ b.stops < limit.stops
    /\ Stop

\* The runner gives up a run whose result mail did not arrive.
CancelUndeliveredRunResult ==
    /\ b.session.runner /\ b.session.state = "open"
    /\ b.session.cancel = "none" /\ b.session.resultMail = "expired"
    /\ Stop

\* In one transaction: the mirror closes and the request completes without A.
BugFallbackOnlyCloses ==
    /\ b.unsupported /\ b.session.state \notin {"none", "closed"}
    /\ b.row.state = "accepted"
    /\ b' = [b EXCEPT !.session = FallenBack(@)]
    /\ UNCHANGED <<a, net, day, limit>>
CheckPhase1Fallback ==
    LET row == Moved(b.row, "completed", FallbackContent(b.session)) IN
    /\ b.unsupported /\ b.session.state \notin {"none", "closed"}
    /\ b.row.state = "accepted"
    /\ b' = [b EXCEPT !.session = FallenBack(@), !.row = row, !.fresh = TRUE]
    /\ net' = Sent({Reply(row)})
    /\ UNCHANGED <<a, day, limit>>

----------------------------------------------------------------------------
(* The mail layer, time and restarts. *)

ExpireRequest ==
    /\ a.row.mail = "live"
    /\ a' = [a EXCEPT !.row.mail = "expired"]
    /\ UNCHANGED <<b, net, day, limit>>

ExpireCancel ==
    /\ a.row.cancelMail = "live"
    /\ a' = [a EXCEPT !.row.cancelMail = "expired"]
    /\ UNCHANGED <<b, net, day, limit>>

ExpireResult ==
    /\ b.session.resultMail = "live"
    /\ b' = [b EXCEPT !.session.resultMail = "expired"]
    /\ UNCHANGED <<a, net, day, limit>>

\* Ten minutes pass: an echo may go out again.
Tick ==
    /\ a.fresh \/ b.fresh
    /\ a' = [a EXCEPT !.fresh = FALSE]
    /\ b' = [b EXCEPT !.fresh = FALSE]
    /\ UNCHANGED <<net, day, limit>>

NextDay ==
    /\ day < limit.days
    /\ day' = day + 1
    /\ UNCHANGED <<a, b, net, limit>>

\* A restart forgets what was only in memory; it may bring the new version.
RestartA ==
    /\ \/ a.old
       \/ a.echo # NoMail
    /\ a' = [a EXCEPT !.echo = NoMail, !.asks = {}, !.old = FALSE]
    /\ UNCHANGED <<b, net, day, limit>>

RestartB ==
    /\ b.old \/ b.echo # NoMail \/ b.completing # Idle
    /\ b' = [b EXCEPT !.echo = NoMail, !.completing = Idle, !.old = FALSE]
    /\ UNCHANGED <<a, net, day, limit>>

----------------------------------------------------------------------------

Deliver ==
    \/ \E m \in InFlight("lifecycle") : Lifecycle(m)
    \/ \E m \in InFlight("ws.result") : applyResult(m)
    \/ \E m \in InFlight("ws.cancel") : applyStop(m)
    \/ \E m \in InFlight("ws.result") \cup InFlight("ws.cancel") : Unsupported(m)
    \/ \E m \in InFlight("request") : apply(m)
    \/ \E m \in InFlight("request.cancel") : applyCancel(m)
    \/ \E m \in InFlight("ws.state") : applyStateMail(m)

CommandA ==
    \/ Submit \/ Resend \/ Cancel
    \/ AcceptResult \/ RequestChanges \/ Discard \/ CancelSession \/ Grant
    \/ \E kind \in DOMAIN Asked : Ask(kind)
    \/ \E ask \in a.asks : ConfirmRelease(ask) \/ ConfirmAccept(ask) \/ EndAsk(ask)

CommandB ==
    \/ Accept \/ Decline \/ Defer \/ AnswerQuestion
    \/ CompleteLooks \/ CompleteDone \/ CompleteBadState
    \/ SubmitResult \/ SubmitCancel

Background ==
    \/ EchoState \/ EchoReply \/ PruneTombstone
    \/ CancelUndeliveredRunResult \/ CheckPhase1Fallback

Environment ==
    \/ ExpireRequest \/ ExpireCancel \/ ExpireResult
    \/ Tick \/ NextDay \/ RestartA \/ RestartB

WorkNext == Deliver \/ CommandA \/ CommandB \/ Background \/ Environment

WorkSpec == WorkInit /\ [][WorkNext]_workVars

\* The mail layer delivers what was sent, the handlers finish their echo and the
\* outbox's OnFinal hook and the start-up rescan run the fallback checks.
WorkFairness ==
    /\ WF_workVars(Deliver)
    /\ WF_workVars(EchoState) /\ WF_workVars(EchoReply)
    /\ WF_workVars(CancelUndeliveredRunResult) /\ WF_workVars(CheckPhase1Fallback)

FairWorkSpec == WorkSpec /\ WorkFairness

----------------------------------------------------------------------------
(* Properties. *)

\* Every stored row and pending step is one the tables and handlers can hold.
WorkTypeOK ==
    /\ a.row.state \in {"none", "pending", "deferred", "accepted"} \cup Final
    /\ a.row.cancel \in {"none", "requested", "refused"}
    /\ {a.row.mail, a.row.cancelMail} \subseteq {"none", "live", "delivered", "expired", "failed"}
    /\ b.row.state \in {"none", "pending", "deferred", "accepted"} \cup Final
    /\ b.session.cancel \in {"none", "requested", "refused"}
    /\ \A s \in {a.session, b.session} :
         /\ s.state \in {"none", "open", "awaiting_result", "quarantined", "closed"}
         /\ s.outcome \in {"none", "accepted", "cancelled"}
         /\ s.state = "closed" <=> s.outcome # "none"
         /\ s.round \in 0..limit.rounds
    /\ {a.session.result, b.session.result, a.row.content, b.row.content}
         \subseteq CancelledNote..b.made
    /\ a.inbox \cup a.held \subseteq 1..b.made
    /\ limit \in TypeLimits

\* The sender's mirror of the request (applyMirror) never runs ahead of the recipient's
\* row, and at the same sequence number it shows the same state, whatever the order the
\* lifecycle mails, echoes and cancels arrive in.  The one reply without a row behind it
\* is the `cancelled' of a cancel that came before its request.
RequestMirrorAgrees ==
    IF b.row.state = "none"
    THEN a.row.seq = 0 \/ (a.row.seq = 1 /\ a.row.state = "cancelled")
    ELSE /\ a.row.seq <= b.row.seq
         /\ a.row.seq = b.row.seq => a.row.state = b.row.state

\* A request the sender was told is cancelled is never worked on: not when the cancel
\* overtook the request (applyEarlyCancel, consumeTombstone), not when the request mail
\* arrives after its tombstone was pruned (maxAge against tombstoneMaxAge).
NeverRunsCancelled ==
    a.row.state = "cancelled" => b.row.state \in {"none", "cancelled"}

\* B's mirror of the session (applyState) never runs ahead of A's row, agrees with it at
\* the same sequence number, and is closed only if A closed, except after the Phase 1
\* fallback.  A has a session only for a request B accepted.
SessionMirrorAgrees ==
    /\ b.session.seq <= a.session.seq
    /\ a.session.state # "none" => b.row.state \in {"accepted", "completed"}
    /\ b.session.state = "closed" /\ ~b.unsupported => a.session.state = "closed"
    /\ b.session.seq = a.session.seq /\ b.session.seq > 0 /\ ~b.unsupported =>
         /\ b.session.state = a.session.state
         /\ b.session.round = a.session.round
         /\ b.session.outcome = a.session.outcome

\* B never has a closed session with a request still accepted, however it closed: by A's
\* ws.state (applyState) or by the Phase 1 fallback, each in one transaction with
\* CompleteInTx.
ClosedMeansCompleted ==
    b.session.state = "closed" => b.row.state = "completed"

\* Whichever comes second, B's request.complete or A's close, the requester's record of a
\* closed session ends with A's own view: the result A accepted, or the cancelled note
\* (EarlyComplete, writeRequesterViewTx).  Only a session that never moved before B's
\* complete keeps what B sent.
RecordIsRequesters ==
    a.row.state = "completed" /\ a.session.state = "closed" =>
        \/ a.row.content = requesterView(a.session)
        \/ a.session.outcome = "cancelled" /\ a.session.round = 1 /\ a.session.seq = 1

\* A result that was quarantined and not released is nowhere a reader of A's daemon can
\* see it: not in the session once it left quarantine, not in the request record, not in
\* an inbox copy, also when B sends the text again with its request.complete.
QuarantinedUnseen ==
    a.held \cap (a.inbox \cup {a.row.content}
                 \cup (IF a.session.state = "quarantined" THEN {} ELSE {a.session.result}))
      = {}

\* What the two daemons hold of one request agrees, and shows each of them only what it
\* may see, in every state.
MirrorsAgree ==
    /\ WorkTypeOK /\ RequestMirrorAgrees /\ NeverRunsCancelled
    /\ SessionMirrorAgrees /\ ClosedMeansCompleted
    /\ RecordIsRequesters /\ QuarantinedUnseen

\* Neither mirror goes back: a late or repeated mail never takes A's record or B's session
\* to an earlier state, and what ended stays as it ended (applyMirror, applyState).
MirrorsNeverGoBack ==
    /\ a.row.seq <= a'.row.seq
    /\ a.row.state \in Final => a'.row.state = a.row.state
    /\ b.session.seq <= b'.session.seq
    /\ b.session.state = "closed" =>
          b'.session.state = "closed" /\ b'.session.outcome = b.session.outcome

\* A human approval decides only the result it was asked about: while it waits, A's agent
\* may ask for changes and a new result may put the session back in the same state
\* (Precondition of ws_release and ws_accept_result).
HumanDecidedThisResult ==
    /\ a.session.state = "quarantined" /\ a'.session.state = "awaiting_result" =>
          \E ask \in a.asks : ask.kind = "release" /\ ask.result = a.session.result
    /\ ~a.session.human /\ a'.session.human =>
          \E ask \in a.asks : ask.kind = "accept_result" /\ ask.result = a.session.result

\* When the accepted close reaches B, B completes its request with exactly the result A
\* accepted, though B's own copy is a different row on another machine (MaySubmit, one
\* result per round; applyState, Completion).
CompletesWithAccepted ==
    b.session.state # "closed" /\ b'.session.outcome = "accepted" /\ b.row.state = "accepted" =>
       /\ a.session.outcome = "accepted"
       /\ b'.row.content = a.session.result
       /\ b'.row.content # NoContent

\* No step undoes or replaces what was decided.
DecisionsHold == [][MirrorsNeverGoBack /\ HumanDecidedThisResult /\ CompletesWithAccepted]_workVars

\* Once A closed the session, B's mirror closes too and A's request record completes.
CloseReachesBoth ==
    a.session.state = "closed" /\ b.session.state # "none"
        ~> b.session.state = "closed" /\ a.row.state = "completed"

\* A request_cancel is answered: the record becomes cancelled, or the cancel is marked
\* refused (applyMirror step 5), in every order of the cancel, the request and the replies.
CancelAnswered ==
    a.row.cancel = "requested" ~> a.row.state = "cancelled" \/ a.row.cancel = "refused"

\* Both ends settle what was asked of them, whatever the order of their mail.
ExchangesSettle == CloseReachesBoth /\ CancelAnswered
=============================================================================
