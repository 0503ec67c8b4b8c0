------------------------------- MODULE Debate -------------------------------
(***************************************************************************)
(* A debate between its initiator A and its respondent B (internal/debate, *)
(* with the parts of request and worksession that open and end it).  A is  *)
(* the one writer; B keeps a mirror.  Mail is applied at most once, in any *)
(* order, and may be lost.  Each action is one transaction.                *)
(***************************************************************************)
EXTENDS DebateRecord

CONSTANTS
    Constraints,  \* constraint ids: [by |-> role, n |-> number]
    DebateLimits  \* instances: [rounds, positions, moves, points, accepts, constraints,
                  \*   active, stored, clocks, loses, echoes, cancels]

VARIABLES
    dlim,      \* the instance
    a, b,      \* the two debates rows with their entries, request and Decision
    toA, toB,  \* mail under way
    left,      \* [loses, echoes] left to the surroundings
    wrong      \* a body was refused or a held entry dropped

debateVars == <<dlim, a, b, toA, toB, left, wrong>>

NoDecision == [state |-> "none", content |-> None, sigs |-> <<>>]
NewRow == [phase |-> "invited", tr |-> <<>>, request |-> "pending", due |-> FALSE,
           outcome |-> "none", reason |-> "none", cons |-> <<>>, dec |-> NoDecision,
           exp |-> None, lastState |-> None, closeBody |-> None, session |-> "none",
           commitment |-> None]

Entry(author, kind, text, state) ==
    [author |-> author, kind |-> kind, text |-> text, state |-> state]

\* Start and ReceivedTx: A stores its position committed, B the commitment.
DebateInit ==
    /\ dlim \in DebateLimits
    /\ \E p \in dlim.positions :
          /\ a = [NewRow EXCEPT !.tr = 0 :> Entry(Initiator, "position", p, "committed")]
          /\ b = [NewRow EXCEPT !.commitment = Commitment(p)]
    /\ toA = {} /\ toB = {}
    /\ left = [loses |-> dlim.loses, echoes |-> dlim.echoes]
    /\ wrong = FALSE

open(r) == r.phase \in OpenPhases
turn(r, role) == NextTurn(r.tr, metas(r.tr, turnStates(role)), dlim.rounds)

\* insertEntry, and advanceTx: the phase, and a new deadline for the next turn.
\* (Only B's answer has a time on B, and it does not move.)
insertEntry(r, slot, e) == [r EXCEPT !.tr = (slot :> e) @@ @]
advanceTx(r, role) == [r EXCEPT !.phase = turn(r, role).phase, !.due = role = Respondent /\ @]

\* sendLastState on A: the mail is also kept for the echo.
sendLastState(r, m) == [r EXCEPT !.lastState = <<m>>]

\* setClosed, and CloseDebateTx for the work session.
setClosed(r, outcome, reason) ==
    [r EXCEPT !.phase = "closed", !.outcome = outcome, !.reason = reason, !.due = FALSE]
CloseDebateTx(r, outcome) ==
    [r EXCEPT !.session = IF @ = "open" THEN outcome ELSE @]

\* OpenedTx, through OpenSession: idempotent.
OpenSession(r) ==
    LET s == [r EXCEPT !.session = IF @ = "none" THEN "open" ELSE @]
    IN  IF s.phase = "invited" THEN [s EXCEPT !.phase = "positions"] ELSE s

\* EndedTx: a request that ends before its accept ends the debate.
EndedTx(r) == IF r.phase = "invited" THEN setClosed(r, "cancelled", "cancelled") ELSE r

active(r) == {c \in DOMAIN r.cons : r.cons[c] = "active"}

-----------------------------------------------------------------------------
(* A's close                                                               *)

\* decideTx: the close is not dated before the request.
closeTime(clock) == Max({clock, Opened})
decideTx(r, n, listed, outcome, reason, clock) ==
    LET d == Derive(r.tr, {"applied"}, n, listed, outcome, reason, closeTime(clock))
    IN  [state |-> "awaiting_peer", content |-> <<d>>, sigs |-> (Initiator :> d)]

\* closeTx: a cancelled close ends the debate at once; the others wait in closing
\* for B's signature.  The mail is the row's last state afterwards.
entriesOf(r) == Cardinality(metas(r.tr, {"applied"}))
closeTx(r, outcome, reason, cancelledBy, clock) ==
    LET n == entriesOf(r)
        listed == active(r)
        m == [k |-> "close", entries |-> n, listed |-> listed, outcome |-> outcome,
              reason |-> reason, at |-> clock, hash |-> None]
    IN  IF outcome = "cancelled"
        THEN CloseDebateTx(
                 sendLastState([setClosed(r, outcome, reason) EXCEPT
                     !.exp = <<experience(r.tr, coverApplied(r.tr), outcome, cancelledBy, "none", None)>>],
                     m), "cancelled")
        ELSE LET dec == decideTx(r, n, listed, outcome, reason, clock)
             IN  CloseDebateTx(
                     sendLastState([r EXCEPT !.phase = "closing", !.reason = reason, !.due = FALSE,
                         !.dec = dec,
                         !.exp = <<experience(r.tr, coverApplied(r.tr), outcome, "none", "none",
                                              dec.content)>>],
                         [m EXCEPT !.at = closeTime(clock), !.hash = dec.content]), "accepted")

\* A's row after r0 became r, and the mail the new row sent.
ASends(r) ==
    /\ a' = r
    /\ toB' = IF r.lastState # a.lastState THEN toB \cup {r.lastState[1]} ELSE toB

-----------------------------------------------------------------------------
(* What the two users do                                                   *)

\* DecodeEntry: the texts a user of this side may submit at a turn.
DecodeEntry(kind) ==
    CASE kind = "position" -> dlim.positions
      [] kind = "move" -> dlim.moves
      [] kind = "proposal" -> {Proposal(p) : p \in dlim.points}
      [] kind = "answer" -> {Answer(x, p) : x \in dlim.accepts, p \in dlim.points}

MayWrite(r, role, text) ==
    /\ open(r)
    /\ LET t == turn(r, role)
       IN  /\ ~t.done /\ t.author = role /\ t.slot # 0
           /\ text \in DecodeEntry(t.kind)
           /\ checkEntryTargets(r.tr, t.kind, text, role, t.slot, turnStates(role))

entryMail(t, text) == [k |-> "entry", slot |-> t.slot, kind |-> t.kind, text |-> text]

\* Submit on A.  (Submit sweeps first; while the grace after downtime lasts the
\* sweep closes nothing, so a turn past its deadline may still be taken.)
SubmitOnA(text) ==
    /\ MayWrite(a, Initiator, text)
    /\ LET t == turn(a, Initiator)
           r == insertEntry(a, t.slot, Entry(Initiator, t.kind, text, "applied"))
       IN  ASends(sendLastState(advanceTx(r, Initiator), entryMail(t, text)))
    /\ UNCHANGED <<dlim, b, toA, left, wrong>>

\* request_accept on B, which opens the session and the debate.
AcceptInTx(r) == OpenSession([r EXCEPT !.request = "accepted"])
Accept ==
    /\ b.request = "pending"
    /\ b' = AcceptInTx(b)
    /\ toA' = toA \cup {[k |-> "accept"]}
    /\ UNCHANGED <<dlim, a, toB, left, wrong>>

\* Submit on B.  The position of an invited debate accepts it in the same
\* transaction.  An early entry held at this slot is dropped.
SubmitOnB(text) ==
    /\ b.phase = "invited" => b.request = "pending"
    /\ LET r == IF b.phase = "invited" THEN AcceptInTx(b) ELSE b
           t == turn(r, Respondent)
       IN  /\ MayWrite(r, Respondent, text)
           /\ b' = advanceTx(insertEntry(r, t.slot, Entry(Respondent, t.kind, text, "sent")), Respondent)
           /\ toA' = toA \cup {entryMail(t, text)}
                         \cup (IF b.phase = "invited" THEN {[k |-> "accept"]} ELSE {})
           /\ wrong' = (wrong \/ t.slot \in metas(r.tr, {"early"}))
    /\ UNCHANGED <<dlim, a, toB, left>>

\* request_decline and a request.cancel that B follows (only while pending).
Decline ==
    /\ dlim.cancels /\ b.request = "pending"
    /\ \E ending \in {"declined", "cancelled"} :
          /\ b' = EndedTx([b EXCEPT !.request = ending])
          /\ toA' = toA \cup {[k |-> "ended", state |-> ending]}
    /\ UNCHANGED <<dlim, a, toB, left, wrong>>

\* ws_cancel on A.
CancelTx ==
    /\ dlim.cancels /\ open(a)
    /\ ASends(closeTx(a, "cancelled", "cancelled", Initiator, Opened))
    /\ UNCHANGED <<dlim, b, toA, left, wrong>>

-----------------------------------------------------------------------------
(* B's mirror                                                              *)

\* closeMirrorTx: the session closes and the request completes.
closeMirrorTx(r, wsOutcome, cover, cancelledBy, cause, dec) ==
    CloseDebateTx([r EXCEPT
        !.request = IF @ = "accepted" THEN "completed" ELSE @,
        !.exp = <<experience(r.tr, cover,
                             IF r.outcome = "none" THEN "cancelled" ELSE r.outcome,
                             cancelledBy, cause, dec)>>], wsOutcome)
\* The mail it sends: CompleteInTx refuses a request that is not accepted.
completeMail(r) == IF r.request = "accepted" THEN {[k |-> "complete"]} ELSE {}

answered(r) == \E s \in DOMAIN r.tr : r.tr[s].kind = "answer" /\ r.tr[s].state = "sent"

\* AbandonTx, with the ws.cancel SubmitCancel sends: after B's own answer only
\* once A's close is held or the answer's turn is over.
mayAbandon(r) == answered(r) => r.closeBody # None \/ r.due
AbandonTx ==
    /\ dlim.cancels /\ open(b) /\ mayAbandon(b)
    /\ b' = closeMirrorTx(setClosed(b, "cancelled", "abandoned"), "cancelled",
                          coverAppliedOrSent(b.tr), Respondent, "none", None)
    /\ toA' = toA \cup {[k |-> "wscancel"]} \cup completeMail(b)
    /\ UNCHANGED <<dlim, a, toB, left, wrong>>

\* brokenTx: B's end after a reveal that does not match the commitment.
brokenTx(r) ==
    closeMirrorTx([r EXCEPT !.phase = "broken", !.due = FALSE], "cancelled",
                  coverAppliedOrSent(r.tr), Respondent, "bad_reveal", None)

\* refuseOnB: B's own record, the hash it answers with, and a broken debate.
refusal(r, m) ==
    LET slots == {s \in metas(r.tr, {"applied", "sent"}) : s < m.entries}
        exp == Expected(textOf(r.tr, slots, "answer"))
    IN  IF deriveError(r.tr, slots, exp[1], exp[2], m.at) = "none"
        THEN <<Derive(r.tr, {"applied", "sent"}, m.entries, m.listed \cap DOMAIN r.cons,
                      exp[1], exp[2], m.at)>>
        ELSE None
refuseOnB(r, m) ==
    LET own == refusal(r, m)
        dec == IF own = None THEN NoDecision
               ELSE [state |-> "peer_refused", content |-> own, sigs |-> <<>>]
    IN  closeMirrorTx([r EXCEPT !.phase = "broken", !.due = FALSE, !.closeBody = <<m>>,
                                !.dec = dec],
                      "cancelled", coverBelow(r.tr, m.entries), Respondent, "decision_refused", own)

\* closeMatches: B's own transcript allows the outcome A claims.
closeMatches(r, m) ==
    LET mine == {s \in DOMAIN r.tr : r.tr[s].state = "sent" /\ r.tr[s].kind = "answer"}
        accepts == \E s \in mine : r.tr[s].text.accept
    IN  CASE m.outcome = "agreed" -> mine # {} /\ accepts
          [] m.outcome = "escalated" /\ m.reason = "rejected" -> mine # {} /\ ~accepts
          [] m.outcome = "escalated" /\ m.reason = "timeout" ->
                 1 \in DOMAIN r.tr /\ r.tr[1].state = "sent"
          [] m.outcome = "cancelled" -> TRUE

\* closeGap: what A's count of entries means for B's transcript.
closeGap(r, m) ==
    LET t == turn(r, Respondent)
        cut == \E s \in DOMAIN r.tr : r.tr[s].author = Initiator /\ s >= m.entries
    IN  CASE m.entries < 2 \/ cut -> "refuse"
          [] m.entries >= 2 /\ ~cut /\ t.slot >= m.entries -> "complete"
          [] /\ m.entries >= 2 /\ ~cut /\ t.slot < m.entries
             /\ (t.done \/ t.author = Respondent) -> "refuse"
          [] OTHER -> "hold"

missingConstraints(r, m) == m.listed \ DOMAIN r.cons
\* markLateTx: B's active constraints that the close does not list.
markLateTx(r, m) ==
    [r EXCEPT !.cons = [c \in DOMAIN @ |-> IF @[c] = "active" /\ c \notin m.listed
                                            THEN "late" ELSE @[c]]]

\* applyCloseOnB, in the order of the code: the outcome, the entries, what is
\* still missing, B's own derivation, A's hash and signature, B's signature.
SignedClose(r, m, d) ==
    closeMirrorTx([setClosed(markLateTx(r, m), m.outcome, m.reason) EXCEPT
                      !.closeBody = <<m>>,
                      !.dec = [state |-> "signed", content |-> <<d>>,
                               sigs |-> (Initiator :> d) @@ (Respondent :> d)]],
                  "accepted", coverBelow(r.tr, m.entries), "none", "none", <<d>>)
CancelledClose(r, m) ==
    closeMirrorTx([setClosed(markLateTx(r, m), m.outcome, m.reason) EXCEPT !.closeBody = <<m>>],
                  "cancelled", coverBelow(r.tr, m.entries),
                  IF m.reason = "timeout" THEN "timeout" ELSE Initiator, "none", None)
applyCloseOnB(r, m) ==
    LET states == {"applied", "sent"}
        slots == {s \in metas(r.tr, states) : s < m.entries}
        d == Derive(r.tr, states, m.entries, m.listed, m.outcome, m.reason, m.at)
        gap == closeGap(r, m)
    IN  CASE ~closeMatches(r, m) -> refuseOnB(r, m)
          [] closeMatches(r, m) /\ m.outcome = "cancelled" -> CancelledClose(r, m)
          [] closeMatches(r, m) /\ m.outcome # "cancelled" ->
                 CASE gap = "refuse" -> refuseOnB(r, m)
                   [] gap = "hold" \/ (gap = "complete" /\ missingConstraints(r, m) # {}) ->
                          [r EXCEPT !.closeBody = <<m>>]
                   [] OTHER ->
                          IF /\ deriveError(r.tr, slots, m.outcome, m.reason, m.at) = "none"
                             /\ m.hash = <<d>>
                          THEN SignedClose(r, m, d)
                          ELSE refuseOnB(r, m)

\* The mail such a step of B sends, from the row before and after.
signMail(r, s) ==
    IF ~open(r) \/ open(s) THEN {}
    ELSE completeMail(r) \cup
         (IF s.dec.state = "signed" \/ s.phase = "broken"
          THEN {[k |-> "sign", hash |-> s.dec.content, refused |-> s.phase = "broken"]} ELSE {})

\* retryIfHeld and retryHeldClose: after every arrival.
BugForgetsHeld(r) == r
retryIfHeld(r) == IF open(r) /\ r.closeBody # None THEN applyCloseOnB(r, r.closeBody[1]) ELSE r

\* drainTx: held entries are applied while the next slot is A's and held; a wrong
\* one is dropped, and ends the loop (the slot is empty then).
heldAt(r, n) ==
    LET t == turn(r, Respondent) IN ~t.done /\ t.slot = n /\ n \in DOMAIN r.tr /\ r.tr[n].state = "early"
fits(r, n) ==
    LET t == turn(r, Respondent)
    IN  /\ t.author = Initiator /\ r.tr[n].kind = t.kind
        /\ checkEntryTargets(r.tr, r.tr[n].kind, r.tr[n].text, Initiator, n, turnStates(Respondent))
drainTx(r) ==
    LET drain(q, n) ==
            CASE ~heldAt(q, n) -> q
              [] heldAt(q, n) /\ ~fits(q, n) -> [q EXCEPT !.tr = [u \in DOMAIN @ \ {n} |-> @[u]]]
              [] heldAt(q, n) /\ fits(q, n) -> [q EXCEPT !.tr[n].state = "applied"]
    IN  FoldLeft(drain, r, [i \in 1..(2 * dlim.rounds + 2) |-> i + 1])

\* After an entry or the reveal: the held entries, the turn, the held close.
arrived(r) == retryIfHeld(advanceTx(drainTx(r), Respondent))
dropsHeld(r) == Cardinality(DOMAIN drainTx(r).tr) < Cardinality(DOMAIN r.tr)

BSends(r) == b' = r /\ toA' = toA \cup signMail(b, r)

\* applyEntryOnB.
ApplyEntryOnB(m) ==
    /\ m \in toB /\ m.k = "entry" /\ toB' = toB \ {m}
    /\ LET t == turn(b, Respondent)
           e == Entry(Initiator, m.kind, m.text, "applied")
           new == open(b) /\ m.slot \notin DOMAIN b.tr /\ ~t.done
           mine == new /\ m.slot = t.slot /\ t.author = Initiator
           valid == m.kind = t.kind
                    /\ checkEntryTargets(b.tr, m.kind, m.text, Initiator, m.slot, turnStates(Respondent))
           early == new /\ m.slot >= 2 /\ m.slot > t.slot
           in == insertEntry(b, m.slot, e)
       IN  \/ /\ mine /\ wrong' = (wrong \/ ~valid \/ dropsHeld(in))
              /\ BSends(IF valid THEN arrived(in) ELSE b)
           \/ early /\ b' = insertEntry(b, m.slot, [e EXCEPT !.state = "early"]) /\ UNCHANGED <<toA, wrong>>
           \/ ~mine /\ ~early /\ UNCHANGED <<b, toA, wrong>>
    /\ UNCHANGED <<dlim, a, left>>

\* applyReveal: checked against the commitment of the request.
ApplyReveal(m) ==
    /\ m \in toB /\ m.k = "reveal" /\ toB' = toB \ {m}
    /\ LET in == insertEntry(b, 0, Entry(Initiator, "position", m.text, "applied"))
           good == Commitment(m.text) = b.commitment
       IN  IF b.phase = "positions" /\ turn(b, Respondent).slot = 0
           THEN /\ b' = IF good THEN arrived(in) ELSE brokenTx(b)
                /\ toA' = toA \cup IF good THEN signMail(b, arrived(in))
                                   ELSE {[k |-> "wscancel"]} \cup completeMail(b)
                /\ wrong' = (wrong \/ dropsHeld(in))
           ELSE UNCHANGED <<b, toA, wrong>>
    /\ UNCHANGED <<dlim, a, left>>

\* applyClose: a close may list no more than the limit; after the end the first one
\* is kept for the record.
ApplyClose(m) ==
    /\ m \in toB /\ m.k = "close" /\ toB' = toB \ {m}
    /\ wrong' = (wrong \/ Cardinality(m.listed) > dlim.active)
    /\ BSends(CASE Cardinality(m.listed) > dlim.active -> b
                [] Cardinality(m.listed) <= dlim.active /\ open(b) -> applyCloseOnB(b, m)
                [] b.phase \in {"closed", "broken"} ->
                       [b EXCEPT !.closeBody = IF @ = None THEN <<m>> ELSE @]
                [] OTHER -> b)
    /\ UNCHANGED <<dlim, a, left>>

-----------------------------------------------------------------------------
(* A applies B's mail                                                      *)

\* The accept: it opens the session, and with it the debate.  A's request row
\* follows the higher sequence number: an accept never undoes an end.
ApplyAccept ==
    /\ [k |-> "accept"] \in toA /\ toA' = toA \ {[k |-> "accept"]}
    /\ a' = IF a.request = "pending" THEN OpenSession([a EXCEPT !.request = "accepted"]) ELSE a
    /\ UNCHANGED <<dlim, b, toB, left, wrong>>

\* A decline or cancelled, and a complete that overtook everything: EndedTx.
ApplyEnded(m) ==
    /\ m \in toA /\ m.k = "ended" /\ toA' = toA \ {m}
    /\ a' = EndedTx([a EXCEPT !.request = m.state])
    /\ UNCHANGED <<dlim, b, toB, left, wrong>>

\* EarlyCompleteTx, then the mirror's EndedTx.
ApplyComplete ==
    /\ [k |-> "complete"] \in toA /\ toA' = toA \ {[k |-> "complete"]}
    /\ LET r == [a EXCEPT !.request = "completed"]
       IN  ASends(IF open(r) THEN closeTx(r, "cancelled", "cancelled", Respondent, Opened) ELSE EndedTx(r))
    /\ UNCHANGED <<dlim, b, left, wrong>>

\* PeerCancelTx: refused after A decided; an orphan before the session exists.
PeerCancelTx ==
    /\ [k |-> "wscancel"] \in toA /\ toA' = toA \ {[k |-> "wscancel"]}
    /\ ASends(IF a.session = "open" /\ open(a)
              THEN closeTx(a, "cancelled", "cancelled", Respondent, Opened) ELSE a)
    /\ UNCHANGED <<dlim, b, left, wrong>>

\* revealTx: slot 0 becomes applied and is sent.
revealTx(r) ==
    sendLastState([r EXCEPT !.tr[0].state = "applied"], [k |-> "reveal", text |-> r.tr[0].text])

\* echo: the last state again (none while invited), at most once in ten minutes.
echo ==
    \/ UNCHANGED <<toB, left>>
    \/ /\ a.lastState # None /\ left.echoes > 0
       /\ toB' = toB \cup {a.lastState[1]} /\ left' = [left EXCEPT !.echoes = @ - 1]

\* applyEntryOnA: slot 1 opens an invited debate, and reveals; the answer closes.
ApplyEntryOnA(m, clock) ==
    /\ m \in toA /\ m.k = "entry" /\ toA' = toA \ {m}
    /\ LET opens == a.phase = "invited" /\ m.slot = 1 /\ a.request = "pending"
           r == IF opens THEN OpenSession(a) ELSE a
           t == turn(r, Initiator)
           mine == open(r) /\ ~t.done /\ t.slot = m.slot /\ t.author = Respondent
           valid == m.kind = t.kind
                    /\ checkEntryTargets(r.tr, m.kind, m.text, Respondent, m.slot, {"applied"})
           in == insertEntry(r, m.slot, Entry(Respondent, m.kind, m.text, "applied"))
           next == advanceTx(IF m.slot = 1 THEN revealTx(in) ELSE in, Initiator)
           exp == Expected(<<m.text>>)
       IN  \/ /\ mine /\ wrong' = (wrong \/ ~valid)
              /\ ASends(CASE ~valid -> a
                          [] valid /\ m.kind = "answer" -> closeTx(next, exp[1], exp[2], "none", clock)
                          [] valid /\ m.kind # "answer" -> next)
              /\ UNCHANGED left
           \/ ~mine /\ echo /\ UNCHANGED <<a, wrong>>
    /\ UNCHANGED <<dlim, b>>

\* applySign: either way A leaves closing with the outcome it decided.
ApplySign(m) ==
    /\ m \in toA /\ m.k = "sign" /\ toA' = toA \ {m}
    /\ a' = IF a.phase = "closing" /\ a.dec.state = "awaiting_peer"
            THEN LET d == a.dec.content[1]
                     r == setClosed(a, d.outcome, a.reason)
                 IN  IF m.refused \/ m.hash # <<d>>
                     THEN [r EXCEPT !.dec.state = "peer_refused"]
                     ELSE [r EXCEPT !.dec.state = "signed", !.dec.sigs = @ @@ (Respondent :> m.hash[1])]
            ELSE a
    /\ UNCHANGED <<dlim, b, toB, left, wrong>>

-----------------------------------------------------------------------------
(* Constraints, deadlines, loss                                            *)

\* checkConstrainable, and AddConstraintTx in the approval's transaction.
checkConstrainable(r) == open(r) /\ Cardinality(active(r)) < dlim.active
AddConstraintTx(c) ==
    /\ c \in dlim.constraints /\ c \notin DOMAIN a.cons \cup DOMAIN b.cons
    /\ [k |-> "constraint", id |-> c] \notin toA \cup toB
    /\ \/ /\ c.by = Initiator /\ checkConstrainable(a)
          /\ a' = [a EXCEPT !.cons = (c :> "active") @@ @]
          /\ toB' = toB \cup {[k |-> "constraint", id |-> c]} /\ UNCHANGED <<b, toA>>
       \/ /\ c.by = Respondent /\ checkConstrainable(b)
          /\ b' = [b EXCEPT !.cons = (c :> "active") @@ @]
          /\ toA' = toA \cup {[k |-> "constraint", id |-> c]} /\ UNCHANGED <<a, toB>>
    /\ UNCHANGED <<dlim, left, wrong>>

\* applyConstraint.  A takes one while invited if its request is still open (the
\* constraint overtook the accept), and stores what exceeds the limit as excess.
BugStoresExcessActive(r) == "active"
constraintState(r) == IF Cardinality(active(r)) >= dlim.active THEN "excess" ELSE "active"
ApplyConstraintOnA(m) ==
    /\ m \in toA /\ m.k = "constraint" /\ toA' = toA \ {m}
    /\ a' = IF /\ open(a) \/ (a.phase = "invited" /\ a.request = "pending")
               /\ m.id \notin DOMAIN a.cons /\ Cardinality(DOMAIN a.cons) < dlim.stored
            THEN [a EXCEPT !.cons = (m.id :> constraintState(a)) @@ @]
            ELSE a
    /\ UNCHANGED <<dlim, b, toB, left, wrong>>
ApplyConstraintOnB(m) ==
    /\ m \in toB /\ m.k = "constraint" /\ toB' = toB \ {m}
    /\ IF open(b) /\ m.id \notin DOMAIN b.cons /\ Cardinality(DOMAIN b.cons) < dlim.stored
       THEN BSends(retryIfHeld([b EXCEPT !.cons = (m.id :> "active") @@ @]))
       ELSE UNCHANGED <<b, toA>>
    /\ UNCHANGED <<dlim, a, left, wrong>>

\* SweepOne: only A closes on time.  A missing position leaves nothing to record.
SweepOne(clock) ==
    /\ open(a) /\ a.due
    /\ LET t == turn(a, Initiator)
       IN  ASends(IF t.slot = 1 /\ ~t.done
                  THEN closeTx(a, "cancelled", "timeout", "timeout", clock)
                  ELSE closeTx(a, "escalated", "timeout", "none", clock))
    /\ UNCHANGED <<dlim, b, toA, left, wrong>>

\* Time passes the deadline of A's open turn, or of B's answer.
Expire ==
    /\ \/ open(a) /\ ~a.due /\ a' = [a EXCEPT !.due = TRUE] /\ UNCHANGED b
       \/ open(b) /\ answered(b) /\ ~b.due /\ b' = [b EXCEPT !.due = TRUE] /\ UNCHANGED a
    /\ UNCHANGED <<dlim, toA, toB, left, wrong>>

\* A mail ends undelivered (external: the outbox gave up).
LoseMail ==
    /\ left.loses > 0 /\ left' = [left EXCEPT !.loses = @ - 1]
    /\ \/ \E m \in toA : toA' = toA \ {m} /\ UNCHANGED toB
       \/ \E m \in toB : toB' = toB \ {m} /\ UNCHANGED toA
    /\ UNCHANGED <<dlim, a, b, wrong>>

UserSteps ==
    \/ \E text \in UNION {DecodeEntry(k) : k \in {"move", "proposal"}} : SubmitOnA(text)
    \/ \E text \in UNION {DecodeEntry(k) : k \in {"position", "move", "answer"}} : SubmitOnB(text)
    \/ Accept \/ Decline \/ CancelTx \/ AbandonTx
    \/ \E c \in Constraints : AddConstraintTx(c)
Deliver ==
    \/ ApplyAccept \/ ApplyComplete \/ PeerCancelTx
    \/ \E m \in toA : \/ ApplyEnded(m) \/ ApplySign(m) \/ ApplyConstraintOnA(m)
                      \/ \E clock \in dlim.clocks : ApplyEntryOnA(m, clock)
    \/ \E m \in toB : \/ ApplyEntryOnB(m) \/ ApplyReveal(m) \/ ApplyClose(m) \/ ApplyConstraintOnB(m)
Sweep == \E clock \in dlim.clocks : SweepOne(clock)

DebateNext == UserSteps \/ Deliver \/ Expire \/ Sweep \/ LoseMail

\* Mail arrives unless it is lost, time passes, and the sweep runs every 20 s: weak
\* fairness of these steps, which are enabled exactly while something is moving.
moving == toA # {} \/ toB # {} \/ open(a) \/ (open(b) /\ answered(b) /\ ~b.due)
DebateFairness == []<>~moving \/ []<><<Deliver \/ Expire \/ Sweep>>_debateVars
DebateSpec == DebateInit /\ [][DebateNext]_debateVars

-----------------------------------------------------------------------------
(* Properties                                                              *)

\* Between two unmodified daemons nothing is ever refused, whatever the order, the
\* loss and the clocks: no body and no held entry is wrong for its slot, the reveal
\* matches, B's derivation gives the Decision A hashed, and A takes B's signature.
NothingRefused == ~wrong /\ a.dec.state # "peer_refused" /\ b.phase # "broken"

\* A Decision one side holds as signed is the other side's too: the same record, the
\* same outcome, verified by anyone, and the same experience record.
SignedByBoth ==
    /\ a.dec.state = "signed" => b.dec.state = "signed"
    /\ b.dec.state = "signed" =>
          /\ b.dec.content = a.dec.content /\ a.phase \in {"closing", "closed"}
          /\ b.outcome = b.dec.content[1].outcome /\ b.exp = a.exp
          /\ a.phase = "closed" => a.outcome = b.outcome
    /\ \A r \in {a, b} : r.dec.state = "signed" =>
          Verify(r.dec.content[1], r.dec.content[1], r.dec.sigs, dlim.rounds)

\* loadConstraints: every state but excess.
visible(r) == {c \in DOMAIN r.cons : r.cons[c] # "excess"}

\* buildView and List: what a side's user is shown.
late(r, role, slot) ==
    /\ role = Respondent /\ r.phase = "closed" /\ r.closeBody # None
    /\ slot >= r.closeBody[1].entries /\ r.tr[slot].author = Respondent
waiting(r, role) ==
    CASE (open(r) /\ turn(r, role).done) \/ r.phase = "closing" -> "signature"
      [] open(r) /\ ~turn(r, role).done /\ turn(r, role).slot = 0 -> "reveal"
      [] open(r) /\ ~turn(r, role).done /\ turn(r, role).slot # 0 ->
             IF turn(r, role).author = role THEN "you" ELSE "entry"
      [] OTHER -> "none"
buildView(r, role) ==
    [waiting |-> waiting(r, role),
     states |-> [s \in DOMAIN r.tr \ metas(r.tr, {"early"}) |-> IF late(r, role, s) THEN "late" ELSE r.tr[s].state],
     outcome |-> IF r.phase = "closing" THEN r.lastState[1].outcome ELSE r.outcome,
     constraints |-> visible(r)]

\* What the two users see fits together: they are never both told to write, A's
\* position leaves only after B is bound to its own, and what B's closed debate does
\* not show as late is what A holds.
OneSpeaker ==
    LET va == buildView(a, Initiator)
        vb == buildView(b, Respondent)
    IN  /\ ~(va.waiting = "you" /\ vb.waiting = "you")
        /\ (0 \in DOMAIN b.tr \/ \E m \in toB : m.k = "reveal") =>
              1 \in DOMAIN b.tr /\ b.tr[1].state = "sent"
        /\ b.dec.state = "signed" =>
              /\ {s \in DOMAIN vb.states : vb.states[s] # "late"} = DOMAIN va.states
              /\ va.outcome = vb.outcome

\* The two sides' debates fit together in every state.
DebatesAgree == NothingRefused /\ SignedByBoth /\ OneSpeaker

\* Every debate ends: the sweep ends it on A, and when no mail is lost A's close ends
\* it on B and B's signature ends A's closing, unless B abandoned the debate; no row
\* stays an invitation after its request ended.
DebateEnds ==
    <>[](/\ ~open(a)
         /\ dlim.loses = 0 =>
               /\ ~open(b) /\ (a.phase = "closing" => b.reason = "abandoned")
               /\ "invited" \in {a.phase, b.phase} => b.request = "pending")
=============================================================================
