------------------------------ MODULE MailOutbox ------------------------------
(***************************************************************************)
(* The sender's outbox (internal/mail/outbox.go) and the statements other  *)
(* packages run on its table (peers removal).                              *)
(*                                                                         *)
(* Three goroutines touch the table without a common lock; every SQL       *)
(* statement is one atomic step and everything between two statements can  *)
(* be interleaved:                                                         *)
(*   "worker"   Outbox.Run: maintain, then sendDue over a snapshot         *)
(*   "receiver" Receiver.Handle: OnAck, and Retry after a keys mail        *)
(*   read loop  OnReady, OnPeerOnline and HandleError, one at a time (hook)*)
(*                                                                         *)
(* Times are abstracted to what the code compares: due[m] stands for       *)
(* next_attempt <= now, created/updated count days, hot holds the rows     *)
(* re-sealed less than ResealInterval ago.  A frame and a key_id are the   *)
(* generation (1, 2, ...) of the recipient's mailbox key; NoFrame is NULL. *)
(* SQL statements do not fail (a failure is logged and changes nothing).   *)
(***************************************************************************)
EXTENDS Integers, FiniteSets

CONSTANTS Mail,             \* the mails that may be submitted
          Peer,             \* the recipients
          To,               \* To[m]: the recipient of m
          OutboxExpiry,     \* days an unacked mail is resent
          OutboxRetention,  \* days a final row is kept
          Batch,            \* outboxBatch: rows per sendDue scan
          MaxKey,           \* bound: mailbox key generations
          MaxDay,           \* bound: days
          MaxEdges          \* bound: OnReady / OnPeerOnline calls per process

ASSUME OutboxConstants ==
    /\ To \in [Mail -> Peer]
    /\ {"none", "connect", "ready"} \cap Peer = {}
    /\ OutboxExpiry \in Nat /\ OutboxRetention \in Nat
    /\ Batch \in Nat \ {0} /\ MaxKey \in Nat \ {0}
    /\ MaxDay \in Nat /\ MaxEdges \in Nat

VARIABLES
    st,         \* st[m]: the row's state, "none" before insert, "purged" after
    due,        \* due[m]: next_attempt <= now
    keyId,      \* keyId[m]: key generation the row is sealed to
    frame,      \* frame[m]: key generation of the stored frame, or NoFrame
    signed,     \* signed[m]: the signed plaintext is stored
    created,    \* created[m]: day of msg.created
    updated,    \* updated[m]: day of the last update
    day,        \* the clock, in days
    sealing,    \* Submit calls between seal and insert: [id, key]
    pc,         \* pc[t]: where sender goroutine t is
    batch,      \* the worker's unsent snapshot: [id, frame]
    ids,        \* Retry's unprocessed ids
    cur,        \* cur[t]: the row t is handling and what it read
    ready,      \* count of OnReady calls
    online,     \* online[p]: count of OnPeerOnline calls
    hook,       \* the read loop: "none", or the hook between its two halves
    connected,  \* relayclient has a connection
    wire,       \* wire[m]: m on this connection: "no", "sent" or "refused"
    paired,     \* peers that are paired
    newest,     \* newest[p]: newest announced mailbox key of p
    hot,        \* rows re-sealed less than ResealInterval ago
    sent,       \* frames that may have reached the relay: [id, key]
    settled,    \* history: m was tried or refused since the last edge
    told        \* history: told[m] is the state OnFinal reported

rowVars  == <<st, due, keyId, frame, signed, created, updated>>
thrVars  == <<pc, batch, ids, cur>>
edgeVars == <<ready, online, hook>>
linkVars == <<connected, wire, sent>>
envVars  == <<day, sealing, paired, newest, hot>>
histVars == <<settled, told>>
outboxVars == <<rowVars, thrVars, edgeVars, linkVars, envVars, histVars>>

NoFrame   == 0
Open      == {"queued", "relayed"}
Final     == {"delivered", "expired", "failed"}
RowState  == {"none", "purged"} \cup Open \cup Final
Thread    == {"worker", "receiver"}
ThreadPC  == {"idle", "pass", "reseal", "send", "update", "recheck"}
Frame     == [id : Mail, key : 1..MaxKey]
Cur       == [id : Mail, frame : 1..MaxKey, was : 1..MaxKey, ready : Nat,
              online : Nat, ok : BOOLEAN]
NoCur     == [pc |-> "idle"]
PCHook    == {"none", "connect", "ready"} \cup Peer

OutboxInit ==
    /\ st = [m \in Mail |-> "none"]
    /\ due = [m \in Mail |-> FALSE]
    /\ keyId = [m \in Mail |-> NoFrame]
    /\ frame = [m \in Mail |-> NoFrame]
    /\ signed = [m \in Mail |-> FALSE]
    /\ created = [m \in Mail |-> 0]
    /\ updated = [m \in Mail |-> 0]
    /\ day = 0
    /\ sealing = {}
    /\ pc = [t \in Thread |-> "idle"]
    /\ batch = {} /\ ids = {}
    /\ cur = [t \in Thread |-> NoCur]
    /\ ready = 0 /\ online = [p \in Peer |-> 0] /\ hook = "none"
    /\ connected = FALSE /\ sent = {} /\ wire = [m \in Mail |-> "no"]
    /\ paired = Peer /\ newest = [p \in Peer |-> 1] /\ hot = {}
    /\ settled = [m \in Mail |-> TRUE]
    /\ told = [m \in Mail |-> "none"]

-------------------------------------------------------------------------------
(* Submitting.  Submit seals (and checks IsPaired) outside any transaction,   *)
(* then inserts; SubmitTx does both inside the caller's transaction.          *)

insert(m, key, at) ==
    /\ st' = [st EXCEPT ![m] = "queued"]
    /\ due' = [due EXCEPT ![m] = TRUE]
    /\ keyId' = [keyId EXCEPT ![m] = key]
    /\ frame' = [frame EXCEPT ![m] = key]
    /\ signed' = [signed EXCEPT ![m] = TRUE]
    /\ created' = [created EXCEPT ![m] = at]
    /\ updated' = [updated EXCEPT ![m] = day]

CanSubmit(m) ==
    /\ st[m] = "none" /\ \A s \in sealing : s.id # m
    /\ To[m] \in paired
    /\ day + OutboxExpiry <= MaxDay   \* bound: every row can reach its expiry

seal(m) ==
    /\ CanSubmit(m)
    /\ sealing' = sealing \cup {[id |-> m, key |-> newest[To[m]], at |-> day]}
    /\ UNCHANGED <<rowVars, thrVars, edgeVars, linkVars, day, paired, newest, hot, histVars>>

Submit(s) ==
    /\ s \in sealing
    /\ sealing' = sealing \ {s}
    /\ insert(s.id, s.key, s.at)
    /\ UNCHANGED <<thrVars, edgeVars, linkVars, day, paired, newest, hot, histVars>>

SubmitTx(m) ==
    /\ CanSubmit(m)
    /\ insert(m, newest[To[m]], day)
    /\ UNCHANGED <<thrVars, edgeVars, linkVars, envVars, histVars>>

-------------------------------------------------------------------------------
(* Final states.  clear is the part of the UPDATE that every final state has  *)
(* in common; finish also forgets the re-seal time and calls OnFinal, which   *)
(* the statement of removeTx does not.                                        *)

clear(Ends) ==
    /\ due' = [m \in Mail |-> due[m] /\ m \notin Ends]
    /\ frame' = [m \in Mail |-> IF m \in Ends THEN NoFrame ELSE frame[m]]
    /\ signed' = [m \in Mail |-> signed[m] /\ m \notin Ends]
    /\ updated' = [m \in Mail |-> IF m \in Ends THEN day ELSE updated[m]]
    /\ UNCHANGED <<keyId, created>>

report(Ends, final) ==
    /\ hot' = hot \ Ends
    /\ told' = [m \in Mail |-> IF m \in Ends THEN final ELSE told[m]]
    /\ UNCHANGED settled

\* Mutant of finish: the UPDATE is not limited to open rows.
BugFinishAny(m, final) ==
    /\ st' = [st EXCEPT ![m] = final]
    /\ clear({m})
    /\ report({m}, final)

finish(m, final) ==
    LET Ends == {m} \cap {n \in Mail : st[n] \in Open} IN
    /\ st' = [st EXCEPT ![m] = IF m \in Ends THEN final ELSE @]
    /\ clear(Ends)
    /\ report(Ends, final)

OnAck(m, final) ==
    /\ pc["receiver"] = "idle"
    /\ finish(m, final)
    /\ UNCHANGED <<thrVars, edgeVars, linkVars, day, sealing, paired, newest>>

\* Mutant of maintain: only rows that were never handed over expire.
BugMaintainQueued ==
    LET Expired == {m \in Mail : st[m] = "queued" /\ created[m] + OutboxExpiry <= day}
    IN  /\ pc["worker"] = "idle" /\ Expired # {}
        /\ st' = [m \in Mail |-> IF m \in Expired THEN "expired" ELSE st[m]]
        /\ clear(Expired) /\ report(Expired, "expired")
        /\ UNCHANGED <<thrVars, edgeVars, linkVars, day, sealing, paired, newest>>

\* maintain: expire what is too old, then delete the final rows of long ago.
maintain ==
    LET Expired == {m \in Mail : st[m] \in Open /\ created[m] + OutboxExpiry <= day}
        Purged  == {m \in Mail : st[m] \in Final /\ updated[m] + OutboxRetention < day}
    IN  /\ pc["worker"] = "idle" /\ Expired \cup Purged # {}
        /\ st' = [m \in Mail |-> IF m \in Expired THEN "expired"
                                 ELSE IF m \in Purged THEN "purged" ELSE st[m]]
        /\ clear(Expired) /\ report(Expired, "expired")
        /\ UNCHANGED <<thrVars, edgeVars, linkVars, day, sealing, paired, newest>>

removeTx(p) ==
    /\ p \in paired
    /\ paired' = paired \ {p}
    /\ LET Ends == {m \in Mail : To[m] = p /\ st[m] \in Open} IN
       /\ st' = [m \in Mail |-> IF m \in Ends THEN "failed" ELSE st[m]]
       /\ clear(Ends)
    /\ UNCHANGED <<thrVars, edgeVars, linkVars, day, sealing, newest, hot, histVars>>

-------------------------------------------------------------------------------
(* Handing a row to the relay.  sendDue works through a snapshot of the due   *)
(* rows; Retry re-seals rows the peer could not decrypt; both call send.      *)

NextPC(rest) == IF rest = {} THEN "idle" ELSE "pass"

Loaded(f, was) == [id |-> f.id, frame |-> f.key, was |-> was, ready |-> ready,
                   online |-> online[To[f.id]], ok |-> FALSE]

sendDue ==
    LET Due == {m \in Mail : st[m] \in Open /\ due[m]}
    IN  /\ pc["worker"] = "idle" /\ Due # {}
        /\ \E S \in SUBSET Due :
              /\ Cardinality(S) = IF Cardinality(Due) < Batch THEN Cardinality(Due) ELSE Batch
              /\ batch' = {[id |-> m, key |-> frame[m]] : m \in S}
        /\ pc' = [pc EXCEPT !["worker"] = "pass"]
        /\ UNCHANGED <<rowVars, ids, cur, edgeVars, linkVars, envVars, histVars>>

sendRow(f) ==
    /\ pc["worker"] = "pass" /\ f \in batch
    /\ batch' = batch \ {f}
    /\ \/ /\ To[f.id] \notin paired
          /\ finish(f.id, "failed")
          /\ pc' = [pc EXCEPT !["worker"] = NextPC(batch')]
          /\ UNCHANGED cur
       \/ /\ To[f.id] \in paired
          /\ cur' = [cur EXCEPT !["worker"] = Loaded(f, f.key)]
          /\ pc' = [pc EXCEPT !["worker"] = "send"]
          /\ UNCHANGED <<rowVars, hot, histVars>>
    /\ UNCHANGED <<ids, edgeVars, linkVars, day, sealing, paired, newest>>

Retry(p, S) ==
    /\ pc["receiver"] = "idle" /\ S # {} /\ \A m \in S : To[m] = p
    /\ ids' = {[id |-> m, key |-> newest[p]] : m \in S}
    /\ pc' = [pc EXCEPT !["receiver"] = "pass"]
    /\ UNCHANGED <<rowVars, batch, cur, edgeVars, linkVars, envVars, histVars>>

\* Retry's SELECT: skip a row that was just re-sealed, is final or has this key.
retrySelect(f) ==
    /\ pc["receiver"] = "pass" /\ f \in ids
    /\ ids' = ids \ {f}
    /\ IF f.id \in hot \/ st[f.id] \notin Open \/ ~signed[f.id] \/ keyId[f.id] = f.key
       THEN /\ pc' = [pc EXCEPT !["receiver"] = NextPC(ids')]
            /\ UNCHANGED cur
       ELSE /\ pc' = [pc EXCEPT !["receiver"] = "reseal"]
            /\ cur' = [cur EXCEPT !["receiver"] = Loaded(f, keyId[f.id])]
    /\ UNCHANGED <<rowVars, batch, edgeVars, linkVars, envVars, histVars>>

\* Mutant of retryUpdate: the new frame is stored without its key_id.
BugResealKey ==
    LET c == cur["receiver"] IN
    /\ pc["receiver"] = "reseal" /\ st[c.id] \in Open
    /\ frame' = [frame EXCEPT ![c.id] = c.frame]
    /\ pc' = [pc EXCEPT !["receiver"] = "send"]
    /\ UNCHANGED <<st, due, keyId, signed, created, updated, batch, ids, cur>>
    /\ UNCHANGED <<edgeVars, linkVars, envVars, histVars>>

\* Retry's UPDATE: only if the row is still open and sealed to the key it read.
retryUpdate ==
    LET c == cur["receiver"] IN
    /\ pc["receiver"] = "reseal"
    /\ IF st[c.id] \in Open /\ keyId[c.id] = c.was
       THEN /\ frame' = [frame EXCEPT ![c.id] = c.frame]
            /\ keyId' = [keyId EXCEPT ![c.id] = c.frame]
            /\ updated' = [updated EXCEPT ![c.id] = day]
            /\ hot' = hot \cup {c.id}
            /\ cur' = [cur EXCEPT !["receiver"] = Loaded([id |-> c.id, key |-> c.frame], c.was)]
            /\ pc' = [pc EXCEPT !["receiver"] = "send"]
       ELSE /\ cur' = [cur EXCEPT !["receiver"] = NoCur]
            /\ pc' = [pc EXCEPT !["receiver"] = NextPC(ids)]
            /\ UNCHANGED <<frame, keyId, updated, hot>>
    /\ UNCHANGED <<st, due, signed, created, batch, ids, edgeVars, linkVars>>
    /\ UNCHANGED <<day, sealing, paired, newest, histVars>>

-------------------------------------------------------------------------------
(* send, in four steps: load the edge counts (in sendRow / retryUpdate), hand *)
(* the frame to relayclient, record the attempt, and re-check the counts.     *)

\* Sender.Send succeeds only while connected; a failed write may still have
\* put the frame on the wire.
handOff(t, ok) ==
    LET c == cur[t]
        f == [id |-> c.id, key |-> c.frame]
    IN  /\ pc[t] = "send" /\ (ok => connected)
        /\ pc' = [pc EXCEPT ![t] = "update"]
        /\ cur' = [cur EXCEPT ![t].ok = ok]
        /\ \/ connected /\ sent' = sent \cup {f} /\ wire' = [wire EXCEPT ![c.id] = "sent"]
           \/ ~ok /\ UNCHANGED <<sent, wire>>
        /\ UNCHANGED <<rowVars, batch, ids, edgeVars, connected, envVars, histVars>>

Rest(t) == IF t = "worker" THEN batch ELSE ids

\* The UPDATE after the hand-off: one attempt more, backoff, relayed on success.
recordAttempt(t) ==
    LET c == cur[t]
        open == st[c.id] \in Open
    IN  /\ pc[t] = "update"
        /\ st' = [st EXCEPT ![c.id] = IF open /\ c.ok THEN "relayed" ELSE @]
        /\ due' = [due EXCEPT ![c.id] = @ /\ ~open]
        /\ updated' = [updated EXCEPT ![c.id] = IF open THEN day ELSE @]
        /\ settled' = [settled EXCEPT ![c.id] =
                          @ \/ (open /\ c.ready = ready /\ c.online = online[To[c.id]])]
        /\ pc' = [pc EXCEPT ![t] = IF c.ok THEN NextPC(Rest(t)) ELSE "recheck"]
        /\ cur' = [cur EXCEPT ![t] = IF c.ok THEN NoCur ELSE @]
        /\ UNCHANGED <<keyId, frame, signed, created, batch, ids>>
        /\ UNCHANGED <<edgeVars, linkVars, envVars, told>>

\* Mutant of recheck: the counts are not compared (before the INV-4 fix).
BugNoRecheck(t) ==
    /\ pc[t] = "recheck"
    /\ pc' = [pc EXCEPT ![t] = NextPC(Rest(t))]
    /\ cur' = [cur EXCEPT ![t] = NoCur]
    /\ UNCHANGED <<rowVars, batch, ids, edgeVars, linkVars, envVars, histVars>>

\* A failed hand-off that overlapped OnReady or OnPeerOnline is due again (INV-4).
recheck(t) ==
    LET c == cur[t] IN
    /\ pc[t] = "recheck"
    /\ due' = [due EXCEPT ![c.id] =
                  @ \/ (/\ c.ready # ready \/ c.online # online[To[c.id]]
                        /\ st[c.id] = "queued")]
    /\ pc' = [pc EXCEPT ![t] = NextPC(Rest(t))]
    /\ cur' = [cur EXCEPT ![t] = NoCur]
    /\ UNCHANGED <<st, keyId, frame, signed, created, updated, batch, ids>>
    /\ UNCHANGED <<edgeVars, linkVars, envVars, histVars>>

-------------------------------------------------------------------------------
(* The relay read loop.  relayclient sets its connection, then calls OnReady, *)
(* which counts first and updates second; OnPeerOnline does the same.         *)

connect ==
    /\ hook = "none" /\ ~connected /\ ready < MaxEdges
    /\ connected' = TRUE /\ hook' = "connect"
    /\ UNCHANGED <<rowVars, thrVars, ready, online, wire, sent, envVars, histVars>>

onReadyCount ==
    /\ hook = "connect"
    /\ ready' = ready + 1 /\ hook' = "ready"
    /\ settled' = [m \in Mail |-> FALSE]
    /\ UNCHANGED <<rowVars, thrVars, online, linkVars, envVars, told>>

sendNow(S) == due' = [m \in Mail |-> due[m] \/ (m \in S /\ st[m] = "queued")]

OnReady ==
    /\ hook = "ready" /\ hook' = "none"
    /\ sendNow(Mail)
    /\ UNCHANGED <<st, keyId, frame, signed, created, updated>>
    /\ UNCHANGED <<thrVars, ready, online, linkVars, envVars, histVars>>

onlineCount(p) ==
    /\ hook = "none" /\ connected /\ online[p] < MaxEdges
    /\ online' = [online EXCEPT ![p] = @ + 1] /\ hook' = p
    /\ settled' = [m \in Mail |-> settled[m] /\ To[m] # p]
    /\ UNCHANGED <<rowVars, thrVars, ready, linkVars, envVars, told>>

OnPeerOnline(p) ==
    /\ hook = p /\ hook' = "none"
    /\ sendNow({m \in Mail : To[m] = p})
    /\ UNCHANGED <<st, keyId, frame, signed, created, updated>>
    /\ UNCHANGED <<thrVars, ready, online, linkVars, envVars, histVars>>

HandleError(m, permanent) ==
    /\ hook = "none" /\ wire[m] = "sent"
    /\ wire' = [wire EXCEPT ![m] = "refused"]
    /\ \/ /\ permanent /\ finish(m, "failed")
       \/ /\ ~permanent
          /\ st' = [st EXCEPT ![m] = IF @ = "relayed" THEN "queued" ELSE @]
          /\ updated' = [updated EXCEPT ![m] = IF st[m] = "relayed" THEN day ELSE @]
          /\ settled' = [settled EXCEPT ![m] = @ \/ st[m] = "relayed"]
          /\ UNCHANGED <<due, keyId, frame, signed, created, hot, told>>
    /\ UNCHANGED <<thrVars, edgeVars, connected, sent, day, sealing, paired, newest>>

disconnect ==
    /\ hook = "none" /\ connected
    /\ connected' = FALSE /\ wire' = [m \in Mail |-> "no"]
    /\ UNCHANGED <<rowVars, thrVars, edgeVars, sent, envVars, histVars>>

-------------------------------------------------------------------------------
(* Time, pairing, key announcements and process restarts.                     *)

backoffOver(m) ==
    /\ st[m] \in Open /\ ~due[m]
    /\ due' = [due EXCEPT ![m] = TRUE]
    /\ UNCHANGED <<st, keyId, frame, signed, created, updated>>
    /\ UNCHANGED <<thrVars, edgeVars, linkVars, envVars, histVars>>

hourOver(m) ==
    /\ m \in hot /\ hot' = hot \ {m}
    /\ UNCHANGED <<rowVars, thrVars, edgeVars, linkVars, day, sealing, paired, newest, histVars>>

tick ==
    /\ day < MaxDay /\ day' = day + 1
    /\ UNCHANGED <<rowVars, thrVars, edgeVars, linkVars, sealing, paired, newest, hot, histVars>>

\* A newer announcement of p is merged (a keys mail, a roster, a pairing).
announce(p) ==
    /\ p \in paired /\ newest[p] < MaxKey
    /\ newest' = [newest EXCEPT ![p] = @ + 1]
    /\ UNCHANGED <<rowVars, thrVars, edgeVars, linkVars, day, sealing, paired, hot, histVars>>

pairAgain(p) ==
    /\ p \notin paired /\ paired' = paired \cup {p}
    /\ UNCHANGED <<rowVars, thrVars, edgeVars, linkVars, day, sealing, newest, hot, histVars>>

\* The process dies: the table stays, everything in memory is lost.
crash ==
    /\ sealing' = {} /\ batch' = {} /\ ids' = {} /\ hot' = {}
    /\ pc' = [t \in Thread |-> "idle"] /\ cur' = [t \in Thread |-> NoCur]
    /\ ready' = 0 /\ online' = [p \in Peer |-> 0] /\ hook' = "none"
    /\ connected' = FALSE /\ wire' = [m \in Mail |-> "no"]
    /\ settled' = [m \in Mail |-> TRUE]
    /\ UNCHANGED <<rowVars, day, paired, newest, sent, told>>

-------------------------------------------------------------------------------
WorkerStep ==
    \/ maintain \/ sendDue
    \/ \E f \in batch : sendRow(f)
    \/ \E ok \in BOOLEAN : handOff("worker", ok)
    \/ recordAttempt("worker") \/ recheck("worker")

RetryStep ==
    \/ \E f \in ids : retrySelect(f)
    \/ retryUpdate
    \/ \E ok \in BOOLEAN : handOff("receiver", ok)
    \/ recordAttempt("receiver") \/ recheck("receiver")

SubmitStep ==
    \/ \E m \in Mail : seal(m) \/ SubmitTx(m)
    \/ \E s \in sealing : Submit(s)

LinkStep ==
    \/ connect \/ onReadyCount \/ OnReady \/ disconnect
    \/ \E p \in Peer : onlineCount(p) \/ OnPeerOnline(p)
    \/ \E m \in Mail, permanent \in BOOLEAN : HandleError(m, permanent)

TimeStep ==
    \/ tick
    \/ \E m \in Mail : backoffOver(m) \/ hourOver(m)

PeerStep ==
    \E p \in Peer : removeTx(p) \/ pairAgain(p) \/ announce(p)

\* The outbox alone: an ack or a key-miss reply may name any mail that was sent.
MailStep ==
    \/ \E m \in Mail, final \in {"delivered", "failed"} :
          (\E f \in sent : f.id = m) /\ OnAck(m, final)
    \/ \E p \in Peer, S \in SUBSET {f.id : f \in sent} : Retry(p, S)

OutboxNext ==
    WorkerStep \/ RetryStep \/ SubmitStep \/ LinkStep \/ TimeStep \/ PeerStep \/ MailStep \/ crash

OutboxSpec == OutboxInit /\ [][OutboxNext]_outboxVars

\* Run loops for ever and looks at both maintain and sendDue in every round; a
\* hand-off returns; the clock advances.
OutboxFairness ==
    /\ WF_outboxVars(tick)
    /\ SF_outboxVars(maintain)
    /\ WF_outboxVars(WorkerStep)

FairOutboxSpec == OutboxSpec /\ OutboxFairness

-------------------------------------------------------------------------------
(* Type correctness: every variable holds what outbox.go can store in it.     *)
OutboxTypeOK ==
    /\ st \in [Mail -> RowState] /\ due \in [Mail -> BOOLEAN]
    /\ keyId \in [Mail -> 0..MaxKey] /\ frame \in [Mail -> 0..MaxKey]
    /\ signed \in [Mail -> BOOLEAN]
    /\ created \in [Mail -> 0..MaxDay] /\ updated \in [Mail -> 0..MaxDay]
    /\ day \in 0..MaxDay
    /\ sealing \subseteq [id : Mail, key : 1..MaxKey, at : 0..MaxDay]
    /\ pc \in [Thread -> ThreadPC] /\ batch \subseteq Frame /\ ids \subseteq Frame
    /\ DOMAIN cur = Thread
    /\ \A t \in Thread : IF pc[t] \in {"idle", "pass"} THEN cur[t] = NoCur ELSE cur[t] \in Cur
    /\ ready \in Nat /\ online \in [Peer -> Nat] /\ hook \in PCHook
    /\ connected \in BOOLEAN /\ wire \in [Mail -> {"no", "sent", "refused"}] /\ sent \subseteq Frame
    /\ paired \subseteq Peer /\ newest \in [Peer -> 1..MaxKey] /\ hot \subseteq Mail
    /\ settled \in [Mail -> BOOLEAN] /\ told \in [Mail -> {"none"} \cup Final]

(* A row that is final holds neither plaintext nor frame, whatever a snapshot *)
(* or a re-seal in progress knew of it ("no plaintext stays at rest").        *)
FinalHoldsNothing ==
    \A m \in Mail : st[m] \in Final \cup {"purged"} =>
        /\ ~signed[m] /\ frame[m] = NoFrame /\ ~due[m]

(* An open row can always be sent and re-sealed: its frame is stored, is the  *)
(* one its key_id names, and the plaintext is there.                          *)
OpenRowIsSendable ==
    \A m \in Mail : st[m] \in Open =>
        signed[m] /\ frame[m] # NoFrame /\ frame[m] = keyId[m]

(* INV-4 (send, OnReady, OnPeerOnline): a queued row waits for its backoff    *)
(* only if it was tried, or refused by the relay, after the last time the     *)
(* relay connected or its peer came online.  The hooks and the failed         *)
(* hand-off that still have their second statement to run are excepted.       *)
HookPending(m) == hook \in {"ready", To[m]}
RecheckPending(m) == \E t \in Thread : pc[t] = "recheck" /\ cur[t].id = m
NoMissedEdge ==
    \A m \in Mail :
        st[m] = "queued" /\ ~due[m] /\ ~HookPending(m) /\ ~RecheckPending(m)
            => settled[m]

(* OnFinal reports a mail at most once, and the state it reports is the one   *)
(* the row keeps: a late ack, expiry or refusal changes nothing.              *)
ReportedStateStands ==
    [][\A m \in Mail :
          /\ told[m] # "none" => told'[m] = told[m]
          /\ st[m] \in Final => st'[m] \in {st[m], "purged"}]_outboxVars

(* mail.md, Outbox states: "relayed" means Send succeeded "and no `error`     *)
(* frame with `ref = id` arrived" for that hand-off.                          *)
RelayedWasNotRefused == \A m \in Mail : st[m] = "relayed" => wire[m] # "refused"

(* Every stored mail reaches a final state: maintain expires what no ack,     *)
(* refusal or peer removal has ended.                                         *)
EveryMailEnds == \A m \in Mail : st[m] \in Open ~> st[m] \in Final

===============================================================================
