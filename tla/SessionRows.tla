---------------------------- MODULE SessionRows ----------------------------
(***************************************************************************)
(* What one step does to a row of table work_sessions: the requester's     *)
(* (authoritative) and the worker's (a mirror).  internal/worksession      *)
(* transitions.go, hooks.go, mirror.go, phase1.go.  Debate sessions are    *)
(* not covered here.  last_state is not a field: it is the ws.state of the *)
(* row's current state once seq > 0 (StateMail).                           *)
(***************************************************************************)
EXTENDS RequestRows

NoSession == [state |-> "none", seq |-> 0, round |-> 0, outcome |-> "none",
              result |-> NoContent, human |-> FALSE]
NoMirror == [state |-> "none", seq |-> 0, round |-> 0, outcome |-> "none",
             result |-> NoContent, resultRound |-> 0, resultMail |-> "none",
             cancel |-> "none", runner |-> FALSE]

StateMail(s) == [kind |-> "ws.state", state |-> s.state, seq |-> s.seq,
                 round |-> s.round, outcome |-> s.outcome]

\* INSERT OR IGNORE of an open row, on either side.
OpenSession(s) ==
    IF s.state = "none" THEN [s EXCEPT !.state = "open", !.round = 1] ELSE s

----------------------------------------------------------------------------
(* The requester's row. *)

Close(s, outcome) ==
    [s EXCEPT !.state = "closed", !.seq = @ + 1, !.outcome = outcome]

TakeResult(s, content, quarantine) ==
    [s EXCEPT !.state = IF quarantine THEN "quarantined" ELSE "awaiting_result",
              !.seq = @ + 1, !.result = content]

BugSameSeq(s) ==
    [s EXCEPT !.state = "awaiting_result"]
BugKeepsResult(s) ==
    [s EXCEPT !.state = "open", !.seq = @ + 1, !.round = @ + 1]
NextRound(s) ==
    [s EXCEPT !.state = "open", !.seq = @ + 1, !.round = @ + 1, !.result = NoContent]

Discarded(s) == [Close(s, "cancelled") EXCEPT !.result = NoContent]

Released(s) == [s EXCEPT !.state = "awaiting_result", !.seq = @ + 1]

\* What A stores in its request record for a closed session.
requesterView(s) == IF s.outcome = "accepted" THEN s.result ELSE CancelledNote

\* B's request.complete with `content' reaches A: what becomes of A's session,
\* what A stores and whether the mail's inbox copy stays blank.  `quarantine'
\* is the quarantine rule's answer, asked only about content.
BugKeepsWorkers(s, content, quarantine) ==
    [session |-> IF s.state = "open" THEN Close(s, "cancelled") ELSE s,
     content |-> content, withhold |-> FALSE]
EarlyComplete(s, content, quarantine) ==
    LET held == content # NoContent /\ quarantine
        phase2 == s.round > 1 \/ s.seq > 0
    IN  CASE s.state = "none" ->
               [session |-> s, content |-> IF held THEN NoContent ELSE content,
                withhold |-> held]
          [] s.state = "closed" ->
               [session |-> s, content |-> requesterView(s), withhold |-> held]
          [] s.state \in {"awaiting_result", "quarantined"} ->
               [session |-> s, content |-> NoContent, withhold |-> TRUE]
          [] OTHER ->
               [session |-> Close(s, "cancelled"),
                content |-> IF phase2 THEN CancelledNote
                            ELSE IF held THEN NoContent ELSE content,
                withhold |-> phase2 \/ held]

----------------------------------------------------------------------------
(* The worker's row. *)

\* A result for the current round, once.
BugTwoResults(w) == w.state = "open" /\ w.cancel # "requested"
MaySubmit(w) ==
    /\ w.state = "open"
    /\ w.cancel # "requested"
    /\ w.resultRound # w.round

WithResult(w, content) ==
    [w EXCEPT !.result = content, !.resultRound = w.round, !.resultMail = "live"]

WithCancel(w) == [w EXCEPT !.cancel = "requested"]

Forgotten(w) ==
    [w EXCEPT !.result = NoContent, !.resultRound = 0, !.resultMail = "none"]

\* A ws.state m on B's row: an echo of the state B has may refuse B's cancel, an
\* older one changes nothing, closed is final, and a newer one is copied.
BugNextOnly(w, m) ==
    IF m.seq = w.seq + 1 /\ w.state # "closed"
    THEN [w EXCEPT !.state = m.state, !.seq = m.seq, !.round = m.round,
                   !.outcome = m.outcome]
    ELSE w
applyState(w, m) ==
    LET review == m.state \in {"awaiting_result", "quarantined"}
        answered == IF ~review THEN "none"
                    ELSE IF w.cancel = "requested" THEN "refused" ELSE w.cancel
        kept == IF m.state = "open" \/ m.outcome = "cancelled" THEN Forgotten(w) ELSE w
    IN  IF m.seq <= w.seq
        THEN IF m.seq = w.seq /\ review THEN [w EXCEPT !.cancel = answered] ELSE w
        ELSE IF w.state = "closed" THEN w
        ELSE [kept EXCEPT !.state = m.state, !.seq = m.seq, !.round = m.round,
                          !.outcome = m.outcome, !.cancel = answered]

\* What B's request completes with when A's close reaches its row.
Completion(w, m) ==
    IF m.outcome = "cancelled" THEN CancelledNote
    ELSE IF w.resultRound = m.round THEN w.result ELSE NoContent

\* The requester turned out to be a Phase 1 daemon: B closes on its own.
BugNoOutcome(w) == [w EXCEPT !.state = "closed"]
FallenBack(w) == [w EXCEPT !.state = "closed", !.outcome = "cancelled"]
FallbackContent(w) == IF w.result = NoContent THEN CancelledNote ELSE w.result
=============================================================================
