---------------------------- MODULE DebateRecord ----------------------------
(***************************************************************************)
(* What two sides of a debate compute from a transcript: whose turn it is  *)
(* (internal/debate/turns.go), which position a move may challenge         *)
(* (store.go, validate.go), the Decision (internal/decision/decision.go),  *)
(* its verification (verify.go) and the experience record (experience.go). *)
(*                                                                         *)
(* A transcript is a function from slots to entries.  An entry's text is   *)
(* what the rules read of it: a position has items (numbered from 0) that  *)
(* can be challenged, a move has the targets of its challenges (-1 is the  *)
(* claim) and perhaps a revised position, a proposal and an answer have    *)
(* points of disagreement.  A hash is the Decision it is the hash of.      *)
(***************************************************************************)
EXTENDS Integers, FiniteSets, Sequences, SequencesExt, TLC

Initiator == "initiator"
Respondent == "respondent"
OpenPhases == {"positions", "rounds", "converge"}
None == <<>>

\* The four kinds of entry.
Position(items) == [items |-> items]
Move(targets, revision) == [targets |-> targets, revision |-> revision]
Proposal(open) == [open |-> open]
Answer(accept, open) == [accept |-> accept, open |-> open]

\* Commitment: it binds its maker to one position and shows nothing of it.
Commitment(position) == <<"commitment", position>>

other(role) == IF role = Initiator THEN Respondent ELSE Initiator
moveAuthor(s) == IF s % 2 = 0 THEN Initiator ELSE Respondent

\* The slots of tr in one of the states, the turn engine's view.
metas(tr, states) == {s \in DOMAIN tr : tr[s].state \in states}
BugTurnStates(role) == {"applied"}
turnStates(role) == IF role = Initiator THEN {"applied"} ELSE {"applied", "sent"}

-----------------------------------------------------------------------------
(* The turn engine                                                         *)

emptyMove(tr, s) == tr[s].kind = "move" /\ tr[s].text.targets = {}

\* After the move in slot s comes the proposal: the last two moves challenge
\* nothing, or it is the respondent's move of the last round.
converges(tr, rounds, s) ==
    \/ s > 2 /\ emptyMove(tr, s - 1) /\ emptyMove(tr, s)
    \/ s % 2 = 1 /\ s \div 2 >= rounds

\* Next (turns.go): the slot to fill given the slots `in' of tr.
Turn(phase, slot, kind, author) ==
    [phase |-> phase, slot |-> slot, kind |-> kind, author |-> author, done |-> FALSE]
NextTurn(tr, in, rounds) ==
    LET moves == {s \in 2..(2 * rounds + 1) :
                     \A t \in 2..s : t \in in /\ (t < s => ~converges(tr, rounds, t))}
        s == IF moves = {} THEN 1 ELSE Max(moves)
    IN  CASE 1 \notin in -> Turn("positions", 1, "position", Respondent)
          [] 1 \in in /\ 0 \notin in -> Turn("positions", 0, "position", Initiator)
          [] {0, 1} \subseteq in /\ (s = 1 \/ ~converges(tr, rounds, s)) ->
                 Turn("rounds", s + 1, "move", moveAuthor(s + 1))
          [] {0, 1} \subseteq in /\ s > 1 /\ converges(tr, rounds, s) ->
                 CASE s + 1 \notin in -> Turn("converge", s + 1, "proposal", Initiator)
                   [] s + 1 \in in /\ s + 2 \notin in ->
                          Turn("converge", s + 2, "answer", Respondent)
                   [] {s + 1, s + 2} \subseteq in ->
                          [phase |-> "converge", slot |-> s + 3, kind |-> "none",
                           author |-> "none", done |-> TRUE]

RoundsUsed(tr) == Max({0} \cup {s \div 2 : s \in {t \in DOMAIN tr : tr[t].kind = "move"}})

-----------------------------------------------------------------------------
(* Targets                                                                 *)

\* The author's position before a slot: the opening one, or the latest revision.
current(tr, author, before, states) ==
    LET opening == IF author = Initiator THEN 0 ELSE 1
        revised == {s \in metas(tr, states) : /\ 2 <= s /\ s < before
                                              /\ tr[s].author = author /\ tr[s].kind = "move"
                                              /\ tr[s].text.revision # None}
    IN  IF revised = {} THEN tr[opening].text.items ELSE tr[Max(revised)].text.revision[1]

ExistsIn(target, items) == target = -1 \/ target < items
CheckTargets(text, items) == \A t \in text.targets : ExistsIn(t, items)

checkEntryTargets(tr, kind, text, author, slot, states) ==
    kind = "move" =>
        /\ (IF author = Initiator THEN 1 ELSE 0) \in metas(tr, states)
        /\ CheckTargets(text, current(tr, other(author), slot, states))

-----------------------------------------------------------------------------
(* The Decision                                                            *)

\* Expected: the outcome and the reason that the answer gives.
Expected(answer) ==
    CASE answer = None -> <<"escalated", "timeout">>
      [] answer # None /\ answer[1].accept -> <<"agreed", "accepted">>
      [] answer # None /\ ~answer[1].accept -> <<"escalated", "rejected">>

\* mergeDisagreement: the proposal's points followed by the answer's new ones.
mergeDisagreement(proposal, answer) ==
    LET extra == IF answer = None THEN <<>> ELSE answer[1].open
    IN  proposal[1].open \o SelectSeq(extra, LAMBDA p : \A i \in DOMAIN proposal[1].open :
                                                          proposal[1].open[i] # p)

textOf(tr, slots, kind) ==
    LET at == {s \in slots : tr[s].kind = kind}
    IN  IF at = {} THEN None ELSE <<tr[Max(at)].text>>

\* positions.<role>.final: the last revision among the slots of the record.
BugFirstRevision(tr, slots, role) ==
    LET at == {s \in slots : /\ tr[s].author = role /\ tr[s].kind = "move"
                             /\ tr[s].text.revision # None}
    IN  IF at = {} THEN None ELSE tr[Min(at)].text.revision
finals(tr, slots, role) ==
    LET at == {s \in slots : /\ tr[s].author = role /\ tr[s].kind = "move"
                             /\ tr[s].text.revision # None}
    IN  IF at = {} THEN None ELSE tr[Max(at)].text.revision

\* Derive's refusals.  The request was created at time 1.
Opened == 1
deriveError(tr, slots, outcome, reason, at) ==
    CASE ~({0, 1} \subseteq slots) -> "incomplete"
      [] {0, 1} \subseteq slots /\ Expected(textOf(tr, slots, "answer")) # <<outcome, reason>> ->
             "inconsistent"
      [] /\ {0, 1} \subseteq slots /\ at < Opened
         /\ Expected(textOf(tr, slots, "answer")) = <<outcome, reason>> -> "early"
      [] OTHER -> "none"

\* Derive: from the entries below `count', the listed constraints (each with its
\* author) and the close.
Derive(tr, states, count, human, outcome, reason, at) ==
    LET slots == {s \in metas(tr, states) : s < count}
        proposal == textOf(tr, slots, "proposal")
        answer == textOf(tr, slots, "answer")
    IN  [initial |-> <<tr[0].text, tr[1].text>>,
         final |-> <<finals(tr, slots, Initiator), finals(tr, slots, Respondent)>>,
         rounds |-> [s \in {t \in slots : tr[t].kind = "move"} |-> tr[s].text],
         proposal |-> proposal, answer |-> answer,
         agreement |-> IF outcome = "agreed" THEN proposal ELSE None,
         remaining |-> IF proposal = None THEN <<>> ELSE mergeDisagreement(proposal, answer),
         human |-> human, outcome |-> outcome, reason |-> reason, closed |-> at]

\* checkInvariants: what verification recomputes from the record alone.
lastRevision(d, side) ==
    LET at == {s \in DOMAIN d.rounds : s % 2 = side /\ d.rounds[s].revision # None}
    IN  IF at = {} THEN None ELSE d.rounds[Max(at)].revision
checkInvariants(d) ==
    /\ Expected(d.answer) = <<d.outcome, d.reason>>
    /\ (d.outcome = "agreed") = (d.agreement # None)
    /\ d.agreement # None => d.agreement = d.proposal
    /\ d.remaining = IF d.proposal = None THEN <<>> ELSE mergeDisagreement(d.proposal, d.answer)
    /\ \A side \in {0, 1} : d.final[side + 1] = lastRevision(d, side)
    /\ d.closed >= Opened

\* checkSchema: what a Decision may contain, whatever the transcript was.
checkSchema(d, rounds) ==
    /\ \A s \in DOMAIN d.rounds : s \div 2 <= rounds
    /\ d.answer # None => d.proposal # None
    /\ d.outcome \in {"agreed", "escalated"} /\ d.reason \in {"accepted", "rejected", "timeout"}

\* Verify: step 1 the schema and a first signature, steps 2 to 4 the hash, the
\* signatures and the id, step 5 the invariants.  A signature is the Decision it
\* was made over.
Verify(d, hash, sigs, rounds) ==
    /\ checkSchema(d, rounds) /\ Initiator \in DOMAIN sigs
    /\ hash = d /\ \A role \in DOMAIN sigs : sigs[role] = d
    /\ checkInvariants(d)

-----------------------------------------------------------------------------
(* The experience record                                                   *)

\* The slots a record covers: A's close counts the applied ones; B covers what it
\* applied or sent, below the count of the close when it applied one.
coverApplied(tr) == metas(tr, {"applied"})
coverAppliedOrSent(tr) == metas(tr, {"applied", "sent"})
coverBelow(tr, entries) == {s \in coverAppliedOrSent(tr) : s < entries}

claimOf(tr, cover, slot) == IF slot \in cover THEN <<tr[slot].text>> ELSE None

\* decisionFacts and writeExperienceTx: dec is the Decision, or None.
experience(tr, cover, outcome, cancelledBy, cause, dec) ==
    [claims |-> <<claimOf(tr, cover, 0), claimOf(tr, cover, 1)>>,
     rounds |-> RoundsUsed([s \in cover |-> tr[s]]),
     outcome |-> outcome, decision |-> dec,
     worked |-> IF outcome = "agreed" /\ dec # None THEN dec[1].agreement ELSE None,
     remaining |-> IF outcome = "escalated" /\ dec # None THEN Len(dec[1].remaining) ELSE 0,
     cancelledBy |-> IF outcome = "cancelled" THEN cancelledBy ELSE "none",
     cause |-> IF outcome = "cancelled" THEN cause ELSE "none"]
=============================================================================
