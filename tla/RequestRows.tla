---------------------------- MODULE RequestRows ----------------------------
(***************************************************************************)
(* What one step does to a row of table requests: the sender's `out' row   *)
(* (a mirror) and the recipient's `in' row (authoritative), as operators   *)
(* from the old row to the new one.  internal/request lifecycle.go,        *)
(* receive.go, cancel.go, mirror.go, session_hooks.go.                     *)
(*                                                                         *)
(* A row with state "none" is no row.  The text a party wrote (the note    *)
(* and result of a completion) is a number, its identity; NoContent and    *)
(* CancelledNote are the two fixed ones.  last_reply is not a field: it is *)
(* always the mail of the row's current state (Reply).                     *)
(***************************************************************************)
EXTENDS Integers

NoContent == 0
CancelledNote == -1      \* the note "session cancelled" without a result

Open == {"pending", "deferred"}
Final == {"declined", "completed", "cancelled"}

NoOut == [state |-> "none", seq |-> 0, cancel |-> "none", content |-> NoContent,
          mail |-> "none", cancelMail |-> "none"]
NoIn == [state |-> "none", seq |-> 0, content |-> NoContent]

\* The mail a lifecycle step of the recipient sends, also kept as last_reply.
Reply(row) == [kind |-> "lifecycle", state |-> row.state, seq |-> row.seq,
               content |-> row.content]

\* One step of the recipient's row: the next sequence number.
BugSeqOnce(row, state, content) ==
    [state |-> state, seq |-> 1, content |-> content]
Moved(row, state, content) ==
    [state |-> state, seq |-> row.seq + 1, content |-> content]

\* The sender's new request row, and the recipient's.
Submitted == [NoOut EXCEPT !.state = "pending", !.mail = "live"]
Stored == [NoIn EXCEPT !.state = "pending"]

\* The sender's row when a lifecycle mail m arrives: the higher sequence number
\* wins, and a cancel the recipient did not follow is marked refused, also when
\* m itself was ignored.  `content' is what a completion stores.
BugEqualSeq(row, m, content) ==
    [row EXCEPT !.state = m.state, !.seq = m.seq,
                !.content = IF m.state = "completed" THEN content ELSE @]
BugRefuseApplied(row, m, content) ==
    IF m.seq > row.seq
    THEN [row EXCEPT !.state = m.state, !.seq = m.seq,
                     !.content = IF m.state = "completed" THEN content ELSE @]
    ELSE row
applyMirror(row, m, content) ==
    LET seen == IF m.seq > row.seq
                THEN [row EXCEPT !.state = m.state, !.seq = m.seq,
                                 !.content = IF m.state = "completed" THEN content ELSE @]
                ELSE row
    IN  IF seen.cancel = "requested" /\ seen.state \in {"accepted", "declined", "completed"}
        THEN [seen EXCEPT !.cancel = "refused"]
        ELSE seen

\* A's own view of a closed session, written into a completed record only.
SetOutContent(row, content) ==
    IF row.state = "completed" THEN [row EXCEPT !.content = content] ELSE row
=============================================================================
