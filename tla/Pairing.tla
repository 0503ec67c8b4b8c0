------------------------------ MODULE Pairing ------------------------------
(***************************************************************************)
(* Pairing two daemons with a short code: the manager of internal/peers at *)
(* every daemon, the code table of internal/relay/pairing.go, and the      *)
(* frames between them.  An issuer shows a code; a redeemer that was told  *)
(* the code proves it with a tag, the issuer stores the redeemer and       *)
(* answers with its own tag, and the redeemer stores the issuer.           *)
(*                                                                         *)
(* A tag is the value it authenticates: the role, the code and both keys.  *)
(* Time is not counted: a timer that is armed may fire.                    *)
(***************************************************************************)
EXTENDS Integers, FiniteSets, Sequences, SequencesExt, FiniteSetsExt, TLC

CONSTANTS
    Plans,          \* the instances: who starts which pairing with which codes
    maxAttempts,    \* attempts an issuer accepts for one pairing
    maxRedemptions, \* redemptions the relay allows for one lookup
    maxLookupRetries

VARIABLES
    plan,    \* the instance of this behaviour
    ps,      \* the sessions of every manager, by pairing id
    entries, \* the relay's outstanding codes, by lookup
    inbox,   \* what the relay has sent to each daemon, in order
    up,      \* the daemons connected to the relay
    used,    \* pair_used_codes of every daemon: <<daemon, code>>
    known,   \* the peers table of every daemon: <<daemon, key, trust>>
    sent,    \* the tags redeemers have sent: <<pairing id, daemon, code>>
    spent    \* faults so far

pairVars == <<plan, ps, entries, inbox, up, used, known, sent, spent>>

Trusts == <<"relay", "team", "code", "fingerprint">>

-----------------------------------------------------------------------------
(* Codes, tags and peers rows                                              *)

Daemons == {plan.starts[id].at : id \in DOMAIN plan.starts}
lookupOf(code) == code[1]

\* transcript and tagFor: what a tag binds.
transcript(lookup, issuer, redeemer) == <<lookup, issuer, redeemer>>
issuerTag(code, t) == <<"issuer", code, t>>
redeemerTag(code, t) == <<"redeemer", code, t>>

trustRank(trust) == CHOOSE i \in DOMAIN Trusts : Trusts[i] = trust

\* AddTrustedAudited: a known peer keeps the higher trust.
addTrusted(d, key, trust) ==
    LET rows == {r \in known : r[1] = d /\ r[2] = key}
        keep == {r \in rows : trustRank(r[3]) >= trustRank(trust)}
    IN (known \ rows) \union (IF keep = {} THEN {<<d, key, trust>>} ELSE keep)

\* verifyPeer: a card or an announcement that does not verify.
verifyPeer(key) == key \notin plan.badCards

-----------------------------------------------------------------------------
(* The relay                                                               *)

PairCode(ref) == [op |-> "pair_code", ref |-> ref]
PairPeer(ref, key) == [op |-> "pair_peer", ref |-> ref, key |-> key]
Refused(ref, code) == [op |-> "error", ref |-> ref, code |-> code]
Confirm(from, lookup, tag) ==
    [op |-> "pair.confirm", from |-> from, lookup |-> lookup, tag |-> tag]

Post(box, d, frame) == [box EXCEPT ![d] = Append(@, frame)]

outstanding(es, d) == Cardinality({l \in DOMAIN es : es[l].issuer = d})

\* pairNew: the entries and the inboxes after it, as a pair.  The relay may also
\* refuse it for the rate limits or the caps over all codes.
pairNew(es, box, d, ref, lookup) ==
    CASE outstanding(es, d) >= plan.maxOutstanding -> <<es, Post(box, d, Refused(ref, "pair_limit"))>>
      [] outstanding(es, d) < plan.maxOutstanding /\ lookup \in DOMAIN es ->
           <<es, Post(box, d, Refused(ref, "pair_lookup_taken"))>>
      [] OTHER -> <<(lookup :> [issuer |-> d, ref |-> ref, redemptions |-> 0]) @@ es,
                    Post(box, d, PairCode(ref))>>

Without(es, lookup) == [l \in DOMAIN es \ {lookup} |-> es[l]]

\* pairRedeem: the issuer is told first; then the code is counted.
pairRedeem(es, box, d, ref, lookup) ==
    LET e == es[lookup]
        n == e.redemptions + 1
        told == Post(Post(box, e.issuer, PairPeer(e.ref, d)), d, PairPeer(ref, e.issuer))
    IN CASE lookup \notin DOMAIN es -> <<es, Post(box, d, Refused(ref, "pair_invalid"))>>
         [] lookup \in DOMAIN es /\ e.issuer = d -> <<es, Post(box, d, Refused(ref, "bad_pairing"))>>
         [] lookup \in DOMAIN es /\ e.issuer # d /\ e.issuer \notin up ->
              <<es, Post(box, d, Refused(ref, "peer_offline"))>>
         [] OTHER -> <<IF n >= maxRedemptions THEN Without(es, lookup)
                       ELSE [es EXCEPT ![lookup].redemptions = n], told>>

\* pairCancel: only the issuer's own entry.
pairCancel(es, d, lookup) ==
    IF d \in up /\ lookup \in DOMAIN es /\ es[lookup].issuer = d THEN Without(es, lookup) ELSE es

\* limiter: a relay that refuses for its rate limits answers and changes nothing.
rateLimited(ref, d) ==
    /\ spent.limited < plan.limited
    /\ spent' = [spent EXCEPT !.limited = @ + 1]
    /\ inbox' = Post(inbox, d, Refused(ref, "pair_rate_limited"))
    /\ UNCHANGED entries

\* An outstanding code expires at the relay.
ExpireEntry ==
    /\ \E l \in DOMAIN entries : entries' = Without(entries, l)
    /\ UNCHANGED <<plan, ps, inbox, up, used, known, sent, spent>>

-----------------------------------------------------------------------------
(* A session of the manager                                                *)

NewSession ==
    [state |-> "new", code |-> <<"", "">>, shown |-> FALSE, sends |-> 0, kd |-> "idle", attempts |-> <<>>,
     failures |-> 0, step |-> "none", completing |-> 0, stored |-> FALSE, notified |-> FALSE]

At(id) == plan.starts[id].at
Role(id) == plan.starts[id].role
Pending(id) == ps[id].state = "pending"

Attempt(peer) == [peer |-> peer, waiting |-> FALSE, accepted |-> FALSE, over |-> FALSE, tag |-> <<>>]

\* newSession refuses a start beyond maxPending.
mayStart(d) == Cardinality({id \in DOMAIN ps : At(id) = d /\ Pending(id)}) < plan.maxPending

\* end: the session after it.  Every attempt is over, the secret and K are wiped,
\* and a Completer tag runs unless it already has.
ended(s, state) ==
    [s EXCEPT !.state = state, !.shown = FALSE, !.kd = "idle", !.notified = TRUE,
              !.attempts = [i \in DOMAIN @ |-> [@[i] EXCEPT !.over = TRUE, !.waiting = FALSE]]]

\* end of an issuer also withdraws its lookup from the relay.
withdrawn(es, id) ==
    IF Role(id) = "issuer" THEN pairCancel(es, At(id), lookupOf(ps[id].code)) ELSE es

\* A finish that ends a pairing whose peer is being stored.
BugFinishCompleting(id) == Pending(id)
\* finish: it does nothing to a pairing that ended, or whose tag verified.
mayFinish(id) == Pending(id) /\ ps[id].completing = 0

Finished(id) ==
    IF mayFinish(id)
    THEN ps' = [ps EXCEPT ![id] = ended(@, "failed")] /\ entries' = withdrawn(entries, id)
    ELSE UNCHANGED <<ps, entries>>

\* attemptFailed, of an attempt that is not over: the last failed attempt fails the pairing.
attemptFailed(id, i) ==
    LET s == ps[id]
        failed == [s EXCEPT !.attempts[i].over = TRUE, !.attempts[i].waiting = FALSE, !.failures = @ + 1]
    IN IF s.failures + 1 >= maxAttempts
       THEN ps' = [ps EXCEPT ![id] = ended(failed, "failed")] /\ entries' = withdrawn(entries, id)
       ELSE ps' = [ps EXCEPT ![id] = failed] /\ UNCHANGED entries

-----------------------------------------------------------------------------
(* Starting a pairing                                                      *)

\* beginIssuer, with a code nobody has used before.
beginIssuer(id) ==
    /\ ps[id].state = "new" /\ Role(id) = "issuer"
    /\ At(id) \in up /\ mayStart(At(id))
    /\ \E code \in plan.starts[id].codes :
         /\ ps' = [ps EXCEPT ![id] = [@ EXCEPT !.state = "pending", !.code = code, !.sends = 1]]
         /\ \/ rateLimited(id, At(id))
            \/ LET r == pairNew(entries, inbox, At(id), id, lookupOf(code)) IN
               entries' = r[1] /\ inbox' = r[2] /\ UNCHANGED spent
    /\ UNCHANGED <<plan, up, used, known, sent>>

\* The codes a redeemer may have been told, or have misread.
Told(id) == {c \in plan.starts[id].codes :
               \E o \in DOMAIN ps : Role(o) = "issuer" /\ ps[o].shown /\ lookupOf(ps[o].code) = lookupOf(c)}

\* beginRedeemer: a code this daemon already sent a tag for is refused at once.
beginRedeemer(id) ==
    /\ ps[id].state = "new" /\ Role(id) = "redeemer"
    /\ At(id) \in up /\ mayStart(At(id))
    /\ \E code \in Told(id) :
         /\ <<At(id), code>> \notin used
         /\ ps' = [ps EXCEPT ![id] = [@ EXCEPT !.state = "pending", !.code = code]]
         /\ \/ rateLimited(id, At(id))
            \/ LET r == pairRedeem(entries, inbox, At(id), id, lookupOf(code)) IN
               entries' = r[1] /\ inbox' = r[2] /\ UNCHANGED spent
    /\ UNCHANGED <<plan, up, used, known, sent>>

-----------------------------------------------------------------------------
(* Frames from the relay                                                   *)

\* onCode: the code is shown.
onCode(f) ==
    /\ IF Pending(f.ref) /\ ~ps[f.ref].shown
       THEN ps' = [ps EXCEPT ![f.ref].shown = TRUE]
       ELSE UNCHANGED ps
    /\ UNCHANGED entries

\* onPeerIssuer: an attempt that waits for the redeemer's tag.
onPeerIssuer(f) ==
    LET id == f.ref
        n == Len(ps[id].attempts)
    IN IF ~Pending(id) \/ ~ps[id].shown \/ n >= maxAttempts
       THEN UNCHANGED <<ps, entries>>
       ELSE IF verifyPeer(f.key)
       THEN /\ ps' = [ps EXCEPT ![id].attempts = Append(@, [Attempt(f.key) EXCEPT !.waiting = TRUE]),
                                ![id].kd = IF @ = "idle" THEN "started" ELSE @]
            /\ UNCHANGED entries
       ELSE LET s == [ps[id] EXCEPT !.attempts = Append(@, [Attempt(f.key) EXCEPT !.over = TRUE]),
                                    !.failures = @ + 1]
                last == s.failures >= maxAttempts /\ s.completing = 0
            IN /\ ps' = [ps EXCEPT ![id] = IF last THEN ended(s, "failed") ELSE s]
               /\ entries' = IF last THEN withdrawn(entries, id) ELSE entries

\* onPeerRedeemer: the redeemer's only pair_peer.
onPeerRedeemer(f) ==
    LET id == f.ref IN
    IF ~Pending(id) \/ ps[id].attempts # <<>>
    THEN UNCHANGED <<ps, entries>>
    ELSE /\ ps' = [ps EXCEPT ![id] =
                     IF verifyPeer(f.key)
                     THEN [@ EXCEPT !.attempts = <<Attempt(f.key)>>, !.kd = "started", !.step = "derive"]
                     ELSE ended([@ EXCEPT !.attempts = <<Attempt(f.key)>>], "failed")]
         /\ UNCHANGED entries

\* HandleError: a taken lookup is answered with a completely new code.
HandleError(d, f, rest) ==
    LET id == f.ref
        retry == Pending(id) /\ Role(id) = "issuer" /\ ~ps[id].shown
                 /\ f.code = "pair_lookup_taken" /\ ps[id].sends <= maxLookupRetries
    IN IF retry
       THEN \E code \in plan.starts[id].codes \ {ps[id].code} :
              LET r == pairNew(entries, rest, d, id, lookupOf(code)) IN
              /\ ps' = [ps EXCEPT ![id].code = code, ![id].sends = @ + 1, ![id].kd = "idle"]
              /\ entries' = r[1]
              /\ inbox' = r[2]
       ELSE Finished(id) /\ inbox' = rest

\* HandleEnvelope: a pair.confirm goes to the waiting attempt of its sender.
Waiting(d, f) ==
    {x \in UNION {{<<id, i>> : i \in DOMAIN ps[id].attempts} : id \in DOMAIN ps} :
        /\ At(x[1]) = d /\ Pending(x[1]) /\ lookupOf(ps[x[1]].code) = f.lookup
        /\ LET a == ps[x[1]].attempts[x[2]] IN
           a.peer = f.from /\ a.waiting /\ ~a.accepted /\ ~a.over}

HandleEnvelope(d, f) ==
    /\ IF Waiting(d, f) = {} THEN UNCHANGED ps
       ELSE \E x \in Waiting(d, f) :
              /\ \A y \in Waiting(d, f) : y[1] = x[1] => y[2] <= x[2]
              /\ ps' = [ps EXCEPT ![x[1]].attempts[x[2]].accepted = TRUE,
                                  ![x[1]].attempts[x[2]].tag = f.tag]
    /\ UNCHANGED entries

\* The read loop of a daemon takes the next frame.
ReadFrame(d) ==
    /\ d \in up /\ inbox[d] # <<>>
    /\ LET f == Head(inbox[d])
           rest == [inbox EXCEPT ![d] = Tail(@)]
       IN \/ f.op = "error" /\ HandleError(d, f, rest)
          \/ f.op = "pair_code" /\ onCode(f) /\ inbox' = rest
          \/ f.op = "pair_peer" /\ Role(f.ref) = "issuer" /\ onPeerIssuer(f) /\ inbox' = rest
          \/ f.op = "pair_peer" /\ Role(f.ref) = "redeemer" /\ onPeerRedeemer(f) /\ inbox' = rest
          \/ f.op = "pair.confirm" /\ HandleEnvelope(d, f) /\ inbox' = rest
    /\ UNCHANGED <<plan, up, used, known, sent, spent>>

-----------------------------------------------------------------------------
(* The goroutines of a session                                             *)

\* startKDFLocked: the derivation finishes.
deriveK(id) ==
    /\ ps[id].kd = "started"
    /\ ps' = [ps EXCEPT ![id].kd = "ready"]
    /\ UNCHANGED <<plan, entries, inbox, up, used, known, sent, spent>>

\* sendRedeemerTag, first part: the tag is computed while the session is pending.
ComputeTag(id) ==
    /\ ps[id].step = "derive"
    /\ ps[id].kd = "ready" \/ ~Pending(id)
    /\ ps' = [ps EXCEPT ![id].step = IF Pending(id) THEN "tagged" ELSE "done"]
    /\ UNCHANGED <<plan, entries, inbox, up, used, known, sent, spent>>

\* MarkCodeUsed that reports a known code as fresh.
BugMarkIgnored(d, code) == TRUE
\* INSERT OR IGNORE: only the first redemption of a code finds it fresh.
markedFresh(d, code) == <<d, code>> \notin used

\* sendRedeemerTag, second part: the code is recorded as used before the tag goes.
MarkCodeUsed(id) ==
    /\ ps[id].step = "tagged"
    /\ used' = used \union {<<At(id), ps[id].code>>}
    /\ IF markedFresh(At(id), ps[id].code)
       THEN ps' = [ps EXCEPT ![id].step = "marked"]
       ELSE ps' = [ps EXCEPT ![id] = [IF mayFinish(id) THEN ended(@, "failed") ELSE @ EXCEPT !.step = "done"]]
    /\ UNCHANGED <<plan, entries, inbox, up, known, sent, spent>>

\* sendConfirm: through the relay, which keeps it for a daemon that is away.
sendConfirm(box, d, to, lookup, tag) ==
    IF d \in up THEN Post(box, to, Confirm(d, lookup, tag)) ELSE box

\* sendRedeemerTag, last part: a session that ended meanwhile sends nothing, and
\* a tag that cannot be sent fails the pairing.
SendRedeemerTag(id) ==
    LET d == At(id)
        a == ps[id].attempts[1]
        code == ps[id].code
        tag == redeemerTag(code, transcript(lookupOf(code), a.peer, d))
        waits == [ps[id] EXCEPT !.step = "done", !.attempts[1].waiting = TRUE]
    IN /\ ps[id].step = "marked"
       /\ ps' = [ps EXCEPT ![id] = CASE ~Pending(id) -> [@ EXCEPT !.step = "done"]
                                     [] Pending(id) /\ d \notin up -> ended(waits, "failed")
                                     [] OTHER -> waits]
       /\ inbox' = IF Pending(id) THEN sendConfirm(inbox, d, a.peer, lookupOf(code), tag) ELSE inbox
       /\ sent' = IF Pending(id) THEN sent \union {<<id, d, code>>} ELSE sent
       /\ UNCHANGED <<plan, entries, up, used, known, spent>>

\* checkConfirm, first part: the tag is compared and the pairing claimed.
checkConfirm(id, i) ==
    LET s == ps[id]
        a == s.attempts[i]
        d == At(id)
        want == IF Role(id) = "issuer"
                THEN redeemerTag(s.code, transcript(lookupOf(s.code), d, a.peer))
                ELSE issuerTag(s.code, transcript(lookupOf(s.code), a.peer, d))
    IN /\ a.accepted /\ ~a.over /\ Pending(id) /\ s.kd = "ready" /\ s.completing = 0
       /\ IF a.tag = want
          THEN ps' = [ps EXCEPT ![id].completing = i] /\ UNCHANGED entries
          ELSE IF Role(id) = "issuer" THEN attemptFailed(id, i) ELSE Finished(id)
       /\ UNCHANGED <<plan, inbox, up, used, known, sent, spent>>

\* checkConfirm, second part: the peer is stored with its pair.complete row, or
\* the transaction fails and so does the pairing.
storePeer(id) ==
    LET s == ps[id] IN
    /\ s.completing # 0 /\ Pending(id) /\ ~s.stored
    /\ \/ /\ known' = addTrusted(At(id), s.attempts[s.completing].peer, "code")
          /\ ps' = [ps EXCEPT ![id].stored = TRUE]
          /\ UNCHANGED <<entries, spent>>
       \/ /\ spent.disk < plan.disk
          /\ spent' = [spent EXCEPT !.disk = @ + 1]
          /\ ps' = [ps EXCEPT ![id] = ended(@, "failed")]
          /\ entries' = withdrawn(entries, id)
          /\ UNCHANGED known
    /\ UNCHANGED <<plan, inbox, up, used, sent>>

\* An issuer that sends its tag before the Completer has run.
BugTagFirst(s) == s.stored
\* checkConfirm, third part, of an issuer: Completed runs, then tag_I is sent.
tagReady(s) == s.stored /\ s.notified

notify(id) ==
    /\ Role(id) = "issuer" /\ Pending(id) /\ ps[id].stored /\ ~ps[id].notified
    /\ ps' = [ps EXCEPT ![id].notified = TRUE]
    /\ UNCHANGED <<plan, entries, inbox, up, used, known, sent, spent>>

sendIssuerTag(id) ==
    LET s == ps[id]
        peer == s.attempts[s.completing].peer
        tag == issuerTag(s.code, transcript(lookupOf(s.code), At(id), peer))
    IN /\ Role(id) = "issuer" /\ Pending(id) /\ tagReady(s) /\ s.step = "none"
       /\ ps' = [ps EXCEPT ![id].step = "done"]
       /\ inbox' = sendConfirm(inbox, At(id), peer, lookupOf(s.code), tag)
       /\ UNCHANGED <<plan, entries, up, used, known, sent, spent>>

\* checkConfirm, last part: the claimed pairing ends complete.
endComplete(id) ==
    /\ Pending(id) /\ ps[id].stored
    /\ Role(id) = "issuer" => ps[id].step = "done"
    /\ ps' = [ps EXCEPT ![id] = ended(@, "complete")]
    /\ entries' = withdrawn(entries, id)
    /\ UNCHANGED <<plan, inbox, up, used, known, sent, spent>>

-----------------------------------------------------------------------------
(* Timers, the user and faults                                             *)

\* A deadline that stops once the peer's tag is awaited.
BugDeadlineStops(id) ==
    /\ mayFinish(id) /\ ps[id].attempts = <<>>
    /\ Finished(id)
    /\ UNCHANGED <<plan, inbox, up, used, known, sent, spent>>

\* armLocked: a pending session always has a deadline.
Deadline(id) ==
    /\ mayFinish(id)
    /\ Finished(id)
    /\ UNCHANGED <<plan, inbox, up, used, known, sent, spent>>

\* The confirm timer of an issuer's attempt.
ConfirmTimeout(id, i) ==
    /\ Role(id) = "issuer" /\ Pending(id)
    /\ ps[id].attempts[i].waiting /\ ~ps[id].attempts[i].accepted
    /\ ps[id].completing = 0
    /\ attemptFailed(id, i)
    /\ UNCHANGED <<plan, inbox, up, used, known, sent, spent>>

\* The connection drops: control frames under way are lost, a confirmation is
\* lost or comes again from the relay's queue.
Drop(d) ==
    /\ d \in up /\ spent.drops < plan.drops
    /\ up' = up \ {d}
    /\ \E keep \in {{}, {"pair.confirm"}} :
         inbox' = [inbox EXCEPT ![d] = SelectSeq(@, LAMBDA f : f.op \in keep)]
    /\ spent' = [spent EXCEPT !.drops = @ + 1]
    /\ UNCHANGED <<plan, ps, entries, used, known, sent>>

Reconnect(d) ==
    /\ d \notin up
    /\ up' = up \union {d}
    /\ UNCHANGED <<plan, ps, entries, inbox, used, known, sent, spent>>

\* The daemon restarts: its sessions were only in memory.
Restart(d) ==
    /\ spent.restarts < plan.restarts
    /\ \E id \in DOMAIN ps : At(id) = d /\ Pending(id)
    /\ ps' = [id \in DOMAIN ps |-> IF At(id) = d /\ Pending(id)
                                   THEN [ps[id] EXCEPT !.state = "gone", !.kd = "idle", !.step = "done"]
                                   ELSE ps[id]]
    /\ inbox' = [inbox EXCEPT ![d] = <<>>]
    /\ spent' = [spent EXCEPT !.restarts = @ + 1]
    /\ UNCHANGED <<plan, entries, up, used, known, sent>>

PairInit ==
    /\ plan \in Plans
    /\ ps = [id \in DOMAIN plan.starts |-> NewSession]
    /\ entries = <<>>
    /\ inbox = [d \in Daemons |-> <<>>]
    /\ up = Daemons
    /\ used = {} /\ known = {} /\ sent = {}
    /\ spent = [limited |-> 0, disk |-> 0, drops |-> 0, restarts |-> 0]

SessionStep(id) ==
    \/ deriveK(id) \/ ComputeTag(id) \/ MarkCodeUsed(id) \/ SendRedeemerTag(id)
    \/ \E i \in DOMAIN ps[id].attempts : checkConfirm(id, i)
    \/ storePeer(id) \/ notify(id) \/ sendIssuerTag(id) \/ endComplete(id)
    \/ Deadline(id)

PairNext ==
    \/ \E id \in DOMAIN ps : beginIssuer(id) \/ beginRedeemer(id) \/ SessionStep(id)
    \/ \E id \in DOMAIN ps : \E i \in DOMAIN ps[id].attempts : ConfirmTimeout(id, i)
    \/ \E d \in Daemons : ReadFrame(d) \/ Drop(d) \/ Reconnect(d) \/ Restart(d)
    \/ ExpireEntry

\* Timers fire and goroutines run.
PairFairness == WF_pairVars(\E id \in DOMAIN ps : SessionStep(id))

-----------------------------------------------------------------------------
(* Properties                                                              *)

\* A pairing reports what happened to the peers table: a timer, an error frame or
\* a cancel that races the storing of the peer (completing) never makes a pairing
\* failed whose peer is stored, and a complete one has stored it.
OutcomeMatchesStore ==
    \A id \in DOMAIN ps : /\ ps[id].state = "failed" => ~ps[id].stored
                          /\ ps[id].state = "complete" => ps[id].stored

\* When a redeemer has stored its issuer, that issuer had stored the redeemer and
\* run its Completer (the team invite) before: "store first, then confirm".
IssuerStoredFirst ==
    \A r \in DOMAIN ps : Role(r) = "redeemer" /\ ps[r].stored =>
        \E i \in DOMAIN ps :
            /\ Role(i) = "issuer" /\ ps[i].stored /\ ps[i].notified
            /\ ps[i].code = ps[r].code
            /\ ps[i].attempts[ps[i].completing].peer = At(r)

\* Two redemptions of one code on one daemon never both send a tag, however their
\* check of the used codes and their recording of it interleave.
OneTagPerCode == \A x, y \in sent : x[2] = y[2] /\ x[3] = y[3] => x = y

\* The pairings of two daemons, their peers and the tags they sent fit together.
PairingsAgree == OutcomeMatchesStore /\ IssuerStoredFirst /\ OneTagPerCode

\* Every pairing ends: no answer of the relay or of the peer is needed for it.
PairingsEnd == <>[](\A id \in DOMAIN ps : ~Pending(id))
=============================================================================
