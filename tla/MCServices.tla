------------------------------ MODULE MCServices ------------------------------
(***************************************************************************)
(* What a daemon keeps going beside its exchanges: over the connection to  *)
(* its relay the encrypted sessions, its presence and its turn at what the *)
(* relay holds; at home the webhook, the audit log and the retention of    *)
(* old records.  A behaviour is one of NoiseSession, Presence, RelayTurns, *)
(* Webhook, AuditLog or Retention.                                         *)
(***************************************************************************)
EXTENDS NoiseSession, Presence, RelayTurns, Webhook, AuditLog, Retention

CONSTANTS n1, n2, n3

VARIABLE part

servicesVars == <<part, sessVars, presenceVars, turnVars, hookVars, auditVars, pruneVars>>

\* Both daemons dial at once, with each trouble; one daemon dials again after two of
\* them; a third ping finds the session open or the queue full.
Call(by, kinds, n) == [by |-> by, kinds |-> kinds, troubles |-> n]
MCCalls == {Call(<<n1, n2>>, {"lose", "timeout", "repeat", "sweep", "gate", "restart"}, 1),
            Call(<<n1, n1>>, {"gate", "restart"}, 2), Call(<<n1, n1>>, {"timeout", "repeat"}, 2),
            Call(<<n1, n1, n1>>, {}, 0)}

MCTeamOf == "t1" :> {n1} @@ "t2" :> {}

\* Three connections of one prefix that all need more than its bucket holds: one
\* reads slowly, one acknowledges meanwhile, one goes away.
Case == [rows |-> (n1 :> <<1, 2>>) @@ (n2 :> <<2, 1>>) @@ (n3 :> <<1>>), keyBurst |-> 3, keyRate |-> 2,
         prefixBurst |-> 3, prefixRate |-> 1, batch |-> 3, slow |-> {n1}, acks |-> 0, closes |-> 0]
MCCases == {Case, [Case EXCEPT !.acks = 1, !.keyBurst = 2, !.keyRate = 1],
            [Case EXCEPT !.closes = 1, !.slow = {n2}]}

\* One row through its whole age; three events for a queue of one; a rotation or a
\* removal beside a new webhook while the keychain is locked; a first webhook.
MCretryDelays == <<1, 2>>
HookCall(op, url) == [op |-> op, url |-> url]
Hook == [events |-> {"e1"}, off |-> {}, sets |-> << >>, webhook |-> [url |-> 1, hash |-> 1], locks |-> 0, time |-> 0]
MCHooks == {
    [Hook EXCEPT !.time = 7],
    [Hook EXCEPT !.events = {"e1", "e2", "e3"}, !.off = {"e3"}, !.time = 1],
    [Hook EXCEPT !.sets = "c1" :> HookCall("rotate", 0) @@ "c2" :> HookCall("set", 2), !.locks = 1, !.time = 1],
    [Hook EXCEPT !.events = {"e1", "e2"}, !.sets = "c1" :> HookCall("off", 0) @@ "c2" :> HookCall("set", 2), !.locks = 1],
    [Hook EXCEPT !.webhook = NoWebhook, !.sets = "c1" :> HookCall("set", 1) @@ "c2" :> HookCall("rotate", 0)]}

\* Writers of two processes on a log with legacy rows, and on an empty one.
Writer(kindOf, proc, reads, match) == [kind |-> kindOf, proc |-> proc, reads |-> reads, match |-> match]
EmptyLog == [legacy |-> <<>>, writers |-> << >>, faults |-> 0, anchors |-> 0]
MCLogs == {
    [EmptyLog EXCEPT !.legacy = <<1, 3>>, !.faults = 1, !.anchors = 1,
        !.writers = "w1" :> Writer("own", "i", FALSE, "yes") @@ "w2" :> Writer("hard", "d", TRUE, "near")
                    @@ "w3" :> Writer("soft", "d", FALSE, "yes")],
    [EmptyLog EXCEPT !.faults = 2,
        !.writers = "w1" :> Writer("own", "d", FALSE, "near") @@ "w2" :> Writer("hard", "d", TRUE, "no")
                    @@ "w3" :> Writer("soft", "d", TRUE, "yes")]}

\* Every table has rows on both sides of the cutoff and of each bound; a few rows with
\* a change meanwhile, with two approvals at once, with a restart between batches.
Request(u, size) == [closed |-> TRUE, updated |-> u, size |-> size]
Work(r, u) == [req |-> r, closed |-> TRUE, updated |-> u]
DebateOf(r, u, n) == [req |-> r, closed |-> TRUE, updated |-> u, entries |-> n]
Grant(isHeld, s, exp, revokedAt) == [held |-> isHeld, session |-> s, exp |-> exp, revoked |-> revokedAt]
Experience(s, created) == [session |-> s, created |-> created]
Inbox(t, full) == [at |-> t, full |-> full]
Full == [requests |-> 1 :> Request(1, 2) @@ 2 :> Request(2, 1) @@ 3 :> Request(3, 1),
         work_sessions |-> 1 :> Work(1, 1) @@ 2 :> Work(2, 3) @@ 4 :> Work(9, 2),
         debates |-> 5 :> DebateOf(3, 2, 2) @@ 4 :> DebateOf(9, 1, 1),
         grants |-> 1 :> Grant(FALSE, 1, 2, 99) @@ 2 :> Grant(TRUE, 8, 9, 3) @@ 3 :> Grant(FALSE, 8, 3, 99)
                    @@ 4 :> Grant(TRUE, 2, 3, 99),
         experience_records |-> 1 :> Experience(1, 1) @@ 2 :> Experience(5, 2) @@ 3 :> Experience(8, 1)
                                @@ 4 :> Experience(4, 1),
         mail_inbox |-> 1 :> Inbox(1, TRUE) @@ 2 :> Inbox(2, TRUE) @@ 3 :> Inbox(5, TRUE) @@ 4 :> Inbox(9, TRUE),
         mail_seen |-> 2 :> [at |-> 2] @@ 4 :> [at |-> 9]]
Few == [Full EXCEPT !.requests = 1 :> Request(1, 1) @@ 2 :> Request(2, 1),
                    !.work_sessions = 1 :> Work(1, 1) @@ 2 :> Work(2, 3), !.debates = << >>,
                    !.grants = 1 :> Grant(FALSE, 1, 2, 99), !.experience_records = << >>,
                    !.mail_inbox = 1 :> Inbox(1, FALSE) @@ 2 :> Inbox(4, FALSE) @@ 3 :> Inbox(5, FALSE),
                    !.mail_seen = 2 :> [at |-> 4] @@ 3 :> [at |-> 6]]
Records == [now |-> 10, time |-> 10, asks |-> "a1" :> 4, runs |-> "k1" :> "a1" @@ "k2" :> "a1", rejects |-> 0,
          faults |-> 0, touches |-> 0, mails |-> {}, restarts |-> 0, calm |-> FALSE, tables |-> Few]
MCStores == {
    [Records EXCEPT !.calm = TRUE, !.tables = Full],
    [Records EXCEPT !.touches = 1, !.time = 12, !.mails = {4}],
    [Records EXCEPT !.asks = "a1" :> 4 @@ "a2" :> 5, !.runs = "k1" :> "a1" @@ "k2" :> "a2", !.faults = 1, !.time = 11],
    [Records EXCEPT !.restarts = 1, !.faults = 1, !.rejects = 1, !.time = 13, !.mails = {4}, !.runs = "k1" :> "a1"]}

ServicesInit ==
    /\ part \in {"session", "presence", "turns", "webhook", "audit", "retention"}
    /\ SessInit /\ PresenceInit /\ TurnsInit /\ HookInit /\ AuditInit /\ RetentionInit
    /\ part # "session" => call = CHOOSE x \in Calls : TRUE
    /\ part # "presence" => activeIn = {}
    /\ part # "turns" => case = CHOOSE x \in Cases : TRUE
    /\ part # "webhook" => hook = CHOOSE x \in Hooks : TRUE
    /\ part # "audit" => alog = CHOOSE x \in Logs : TRUE
    /\ part # "retention" => kept = CHOOSE x \in Stores : TRUE

ServicesNext ==
    \/ part = "session" /\ SessNext /\ UNCHANGED <<part, presenceVars, turnVars, hookVars, auditVars, pruneVars>>
    \/ part = "presence" /\ PresenceNext /\ UNCHANGED <<part, sessVars, turnVars, hookVars, auditVars, pruneVars>>
    \/ part = "turns" /\ TurnsNext /\ UNCHANGED <<part, sessVars, presenceVars, hookVars, auditVars, pruneVars>>
    \/ part = "webhook" /\ HookNext /\ UNCHANGED <<part, sessVars, presenceVars, turnVars, auditVars, pruneVars>>
    \/ part = "audit" /\ AuditNext /\ UNCHANGED <<part, sessVars, presenceVars, turnVars, hookVars, pruneVars>>
    \/ part = "retention" /\ RetentionNext /\ UNCHANGED <<part, sessVars, presenceVars, turnVars, hookVars, auditVars>>

\* TurnsFairness and HookFairness, owed where theirs is the part that moves.
ServicesSpec ==
    /\ ServicesInit /\ [][ServicesNext]_servicesVars
    /\ WF_turnVars(part = "turns" /\ TurnStep)
    /\ WF_hookVars(part = "webhook" /\ hookSteps) /\ WF_hookVars(part = "webhook" /\ workerSteps)
    /\ WF_hookVars(part = "webhook" /\ timeGoesOn)
=============================================================================
