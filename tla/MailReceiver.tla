----------------------------- MODULE MailReceiver -----------------------------
(***************************************************************************)
(* The receiving path (internal/mail/receiver.go, open.go): the created    *)
(* window, the receive age limit, the dedupe transaction over mail_seen    *)
(* and mail_inbox, the second transaction of a refused body, After and the *)
(* ack; and the two prunes of those tables (Receiver.Prune, daily, and     *)
(* pruneTx of internal/retention, on request).                             *)
(*                                                                         *)
(* The daemon handles mail on one goroutine (startMail), so one mail is in *)
(* hand at a time; prunes, clock steps and crashes fall between any two of *)
(* its transactions.  The relay may deliver any mail again at any time.    *)
(*                                                                         *)
(* time is true time; clock is what this daemon reads.  A clock may be     *)
(* stepped forward by any amount and corrected, and lags by at most        *)
(* MaxSkew.  Peers stamp created with a clock within MaxSkew of true time. *)
(***************************************************************************)
EXTENDS Integers, FiniteSets

CONSTANTS Mail,           \* mails of all peers, one per (from, id)
          KindOf,         \* "inbox": known, with an inbox row; "keys": known,
                          \* without one and without age limit; "unknown"
          MaxAge,         \* Opener: oldest created accepted at all
          MaxSkew,        \* Opener: how far created may be ahead
          ReceiveMaxAge,  \* Handle: oldest created that is processed
          SeenRetention,  \* how long mail_seen rows are kept
          MinOlderThan,   \* retention: smallest age of an inbox row to prune
          MaxTime,        \* bound: true time
          MaxStep         \* bound: how far the clock is stepped forward

ASSUME ReceiverConstants ==
    /\ KindOf \in [Mail -> {"inbox", "keys", "unknown"}]
    /\ MaxAge \in Nat /\ MaxSkew \in Nat /\ ReceiveMaxAge \in Nat
    /\ SeenRetention \in Nat /\ MinOlderThan \in Nat
    /\ MaxTime \in Nat /\ MaxStep \in Nat

(* 35 d against 30 d and 10 min in the code: the margin the prune relies on. *)
ASSUME SeenOutlivesWindow == SeenRetention >= MaxAge + 4 * MaxSkew

VARIABLES
    time,      \* true time
    clock,     \* the local clock
    made,      \* the mails created so far
    created,   \* created[m]: the signed creation time
    seen,      \* mails with a mail_seen row
    stamp,     \* stamp[m]: its received_at
    bad,       \* mails whose mail_seen row carries badBodyMark
    inbox,     \* mails with a mail_inbox row
    got,       \* got[m]: its received_at
    pc,        \* where Handle is
    cur,       \* the mail Handle has in hand
    member,    \* the ack member Handle will send
    at,        \* the stamp computed before the bad-body transaction
    acks,      \* acks sent: [id, member]; "stale" is a rejected ack for age
    applied,   \* history: applied[m] counts committed Apply calls
    ran        \* history: ran[m] counts After calls

mailVars  == <<made, created>>
seenVars  == <<seen, stamp, bad>>
inboxVars == <<inbox, got>>
handler   == <<pc, cur, member, at>>
history   == <<applied, ran>>
receiverVars == <<time, clock, mailVars, seenVars, inboxVars, handler, acks, history>>

NoMail   == "none"
Member   == {"ids", "unsupported", "rejected"}
Known(m) == KindOf[m] # "unknown"

ReceiverInit ==
    /\ time = 0 /\ clock = 0
    /\ made = {} /\ created = [m \in Mail |-> 0]
    /\ seen = {} /\ stamp = [m \in Mail |-> 0] /\ bad = {}
    /\ inbox = {} /\ got = [m \in Mail |-> 0]
    /\ pc = "idle" /\ cur = NoMail /\ member = "ids" /\ at = 0
    /\ acks = {}
    /\ applied = [m \in Mail |-> 0] /\ ran = [m \in Mail |-> 0]

Idle == pc' = "idle" /\ cur' = NoMail /\ member' = "ids" /\ at' = 0

-------------------------------------------------------------------------------
(* Opening and classifying one delivered mail.                                *)

\* Step 11 of the Opener: created within [clock - MaxAge, clock + MaxSkew].
open(m) ==
    /\ m \in made
    /\ clock - MaxAge <= created[m] /\ created[m] <= clock + MaxSkew

stale(m) == KindOf[m] # "keys" /\ clock - created[m] > ReceiveMaxAge

Least(a, b) == IF a < b THEN a ELSE b

seenStamp(m) == Least(clock, created[m] + MaxSkew)

\* A mail over the receive age limit is acked rejected and not stored.
HandleStale(m) ==
    /\ pc = "idle" /\ open(m) /\ stale(m)
    /\ \E ok \in BOOLEAN : acks' = IF ok THEN acks \cup {[id |-> m, member |-> "stale"]} ELSE acks
    /\ UNCHANGED <<time, clock, mailVars, seenVars, inboxVars, handler, history>>

Accepted(m) == IF Known(m) THEN "ids" ELSE "unsupported"

seenAs(m) == IF m \in bad THEN "rejected" ELSE Accepted(m)

\* The dedupe transaction finds the id in mail_seen or mail_inbox and rolls back.
storeDuplicate(m) ==
    /\ pc = "idle" /\ open(m) /\ ~stale(m)
    /\ m \in seen \cup inbox
    /\ pc' = "ack" /\ cur' = m
    /\ member' = IF m \in seen THEN seenAs(m) ELSE Accepted(m)
    /\ UNCHANGED <<at, time, clock, mailVars, seenVars, inboxVars, acks, history>>

IsNew(m) == m \notin seen \cup inbox

record(m, t) == seen' = seen \cup {m} /\ stamp' = [stamp EXCEPT ![m] = t]

\* The dedupe transaction of a new mail commits: the mail_seen row and, for a
\* known kind, what Apply wrote and the mail_inbox row.
store(m) ==
    /\ pc = "idle" /\ open(m) /\ ~stale(m) /\ IsNew(m)
    /\ record(m, seenStamp(m))
    /\ IF KindOf[m] = "inbox"
       THEN inbox' = inbox \cup {m} /\ got' = [got EXCEPT ![m] = clock]
       ELSE UNCHANGED inboxVars
    /\ applied' = [applied EXCEPT ![m] = IF Known(m) THEN @ + 1 ELSE @]
    /\ pc' = (IF Known(m) THEN "after" ELSE "ack")
    /\ cur' = m /\ member' = Accepted(m)
    /\ UNCHANGED <<bad, at, ran, acks, time, clock, mailVars>>

\* Apply refuses the body (ErrBadBody, ErrLimit): the transaction is rolled back.
\* Any other Apply or commit error rolls back too, and nothing is acked.
applyRefuses(m) ==
    /\ pc = "idle" /\ open(m) /\ ~stale(m) /\ IsNew(m) /\ Known(m)
    /\ pc' = "bad" /\ cur' = m /\ at' = seenStamp(m)
    /\ UNCHANGED <<member, seenVars, inboxVars, acks, history, time, clock, mailVars>>

\* Mutant of storeBad: the row is recorded without badBodyMark.
BugUnmarked ==
    /\ pc = "bad"
    /\ record(cur, at) /\ bad' = bad
    /\ pc' = "ack" /\ member' = "rejected"
    /\ UNCHANGED <<cur, at, inboxVars, acks, history, time, clock, mailVars>>

\* The second transaction records only the marked mail_seen row; a row that is
\* there by now decides the ack instead.
storeBad ==
    /\ pc = "bad"
    /\ IF cur \in seen
       THEN member' = seenAs(cur) /\ UNCHANGED seenVars
       ELSE record(cur, at) /\ bad' = bad \cup {cur} /\ member' = "rejected"
    /\ pc' = "ack"
    /\ UNCHANGED <<cur, at, inboxVars, acks, history, time, clock, mailVars>>

\* The second transaction fails: nothing recorded, nothing acked.
storeBadFails ==
    /\ pc = "bad" /\ Idle
    /\ UNCHANGED <<seenVars, inboxVars, acks, history, time, clock, mailVars>>

After ==
    /\ pc = "after"
    /\ ran' = [ran EXCEPT ![cur] = @ + 1]
    /\ pc' = "ack"
    /\ UNCHANGED <<cur, member, at, seenVars, inboxVars, acks, applied, time, clock, mailVars>>

\* One attempt to seal and send the ack; a failure is only logged.
ack ==
    /\ pc = "ack" /\ Idle
    /\ \E ok \in BOOLEAN : acks' = IF ok THEN acks \cup {[id |-> cur, member |-> member]} ELSE acks
    /\ UNCHANGED <<seenVars, inboxVars, history, time, clock, mailVars>>

-------------------------------------------------------------------------------
(* Pruning.                                                                    *)

\* SeenBasis: t is more than d before the earlier of the clock and the newest
\* stamp; false when mail_seen is empty.
SeenBasis(t, d) == t < clock - d /\ \E n \in seen : t < stamp[n] - d

\* Mutant of SeenCutoff: the local clock alone (before R55-F28).
BugCutoffByClock(t) == t < clock - SeenRetention

SeenCutoff(t) == SeenBasis(t, SeenRetention)

\* The mail_seen rows a prune now keeps.
Kept == {m \in seen : ~SeenCutoff(stamp[m])}

pruneSeen ==
    /\ seen' = Kept /\ bad' = bad \cap Kept
    /\ stamp' = [m \in Mail |-> IF m \in Kept THEN stamp[m] ELSE 0]

Prune ==
    /\ Kept # seen /\ pruneSeen
    /\ UNCHANGED <<inboxVars, handler, acks, history, time, clock, mailVars>>

\* agentnet prune: mail_seen first, then inbox rows older than the cutoff whose
\* mail_seen row is gone, in one transaction.
pruneTx(cutoff) ==
    /\ cutoff <= clock - MinOlderThan
    /\ LET Gone == {m \in inbox : got[m] < cutoff /\ m \notin Kept}
       IN  /\ Gone # {}
           /\ inbox' = inbox \ Gone
           /\ got' = [m \in Mail |-> IF m \in Gone THEN 0 ELSE got[m]]
    /\ pruneSeen
    /\ UNCHANGED <<handler, acks, history, time, clock, mailVars>>

-------------------------------------------------------------------------------
(* The environment: peers create mail, time passes, the clock is stepped and   *)
(* corrected, the daemon restarts.                                             *)

peerCreates(m, t) ==
    /\ m \notin made /\ time - MaxSkew <= t /\ t <= time + MaxSkew
    /\ made' = made \cup {m} /\ created' = [created EXCEPT ![m] = t]
    /\ UNCHANGED <<time, clock, seenVars, inboxVars, handler, acks, history>>

timePasses ==
    /\ time < MaxTime
    /\ time' = time + 1 /\ clock' = clock + 1
    /\ UNCHANGED <<mailVars, seenVars, inboxVars, handler, acks, history>>

setClock(c) ==
    /\ c # clock /\ time - MaxSkew <= c /\ c <= time + MaxStep
    /\ clock' = c
    /\ UNCHANGED <<time, mailVars, seenVars, inboxVars, handler, acks, history>>

crash ==
    /\ pc # "idle" /\ Idle
    /\ UNCHANGED <<time, clock, mailVars, seenVars, inboxVars, acks, history>>

HandleStep ==
    \/ \E m \in Mail : HandleStale(m) \/ storeDuplicate(m) \/ store(m) \/ applyRefuses(m)
    \/ storeBad \/ storeBadFails \/ After \/ ack

PruneStep == Prune \/ \E c \in (-MaxSkew)..(MaxTime + MaxStep) : pruneTx(c)

WorldStep ==
    \/ \E m \in Mail, t \in (-MaxSkew)..(MaxTime + MaxSkew) : peerCreates(m, t)
    \/ timePasses
    \/ \E c \in (-MaxSkew)..(MaxTime + MaxStep) : setClock(c)
    \/ crash

ReceiverNext == HandleStep \/ PruneStep \/ WorldStep

ReceiverSpec == ReceiverInit /\ [][ReceiverNext]_receiverVars

-------------------------------------------------------------------------------
(* Type correctness: what the two tables and the handler can hold.             *)
ReceiverTypeOK ==
    /\ time \in Nat /\ clock \in Int
    /\ made \subseteq Mail /\ created \in [Mail -> Int]
    /\ seen \subseteq Mail /\ stamp \in [Mail -> Int] /\ bad \subseteq seen
    /\ inbox \subseteq Mail /\ got \in [Mail -> Int]
    /\ pc \in {"idle", "bad", "after", "ack"}
    /\ (pc = "idle" /\ cur = NoMail) \/ (pc # "idle" /\ cur \in Mail)
    /\ member \in Member /\ at \in Int
    /\ acks \subseteq [id : Mail, member : Member \cup {"stale"}]
    /\ applied \in [Mail -> Nat] /\ ran \in [Mail -> Nat]

(* mail.md "Pruning can never re-admit a replay": a mail is applied at most    *)
(* once however often it is delivered, whichever prunes run and however the    *)
(* local clock was stepped forward meanwhile; After runs at most once.         *)
AppliedOnce == \A m \in Mail : applied[m] <= 1 /\ ran[m] <= applied[m]

(* The ack matches what was committed, and stands: ids only for a mail whose   *)
(* Apply committed, rejected (other than for age) only for one that was never  *)
(* applied and never will be, unsupported only for an unknown kind.            *)
AckTellsTheTruth ==
    \A a \in acks :
        /\ a.member = "ids" => applied[a.id] >= 1
        /\ a.member = "rejected" => Known(a.id) /\ applied[a.id] = 0
        /\ a.member = "unsupported" => ~Known(a.id)

===============================================================================
