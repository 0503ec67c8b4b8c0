------------------------------ MODULE MailboxKeys ------------------------------
(***************************************************************************)
(* The daemon's own mailbox keys (internal/mailbox): the hourly rotation   *)
(* job, Announcement, the deletion sweep and the three-key limit, with the *)
(* private halves (keystore) and the rows (mailbox_keys_own) written in    *)
(* separate steps.  Keys.mu makes a whole job one critical section, so     *)
(* only a crash or a failing keystore or database call can fall between    *)
(* its steps.                                                              *)
(*                                                                         *)
(* A key is named by its position in rows.  The clock the code reads is    *)
(* trueTime + off.  A peer has a correct clock, accepts an                 *)
(* announcement by the rules of verifyAnnouncement and mergeMailboxKeys,   *)
(* and seals to the newest one it accepted.                                *)
(***************************************************************************)
EXTENDS Integers, Sequences, FiniteSets

CONSTANTS RotateAfter,   \* age at which the current key is replaced
          Lifetime,      \* AnnouncementLifetime: not_after - created
          DeleteGrace,   \* the relay's queue TTL
          MaxLive,       \* most keys whose private half may exist
          Limits         \* the bounds of a behaviour, chosen at its start: offset, the
                         \* errors its clock may have; wrong, how long it may be wrong;
                         \* time, the true time; prompt, a job runs, ends and reaches
                         \* the peer within a unit

ASSUME KeysConstants ==
    /\ RotateAfter \in Nat \ {0} /\ Lifetime \in Nat \ {0}
    /\ DeleteGrace \in Nat \ {0} /\ MaxLive \in Nat \ {0}
    /\ \A l \in Limits :
        /\ l.offset \subseteq Int /\ 0 \in l.offset
        /\ l.wrong \in Nat /\ l.time \in Nat /\ l.prompt \in BOOLEAN

VARIABLES
    trueTime, \* true time
    off,      \* the clock's error
    wrong,    \* how long the clock has been wrong; Corrected after it was set right
    rows,     \* mailbox_keys_own: [created, retired, deleted]
    secret,   \* keys whose private half is in the keystore
    cache,    \* keys whose private half MailboxKey has loaded
    top,      \* newest mail_seen stamp, NoStamp if there is none
    step,     \* the step of the job that holds Keys.mu
    todo,     \* sweepLocked: expired keys not handled yet
    victim,   \* deleteKey: the key whose row is to be marked
    fresh,    \* the key this job created, 0 if none
    pushed,   \* announcements pushed and not yet seen by the peer
    newest,   \* the newest announcement the peer accepted, 0 if none
    sealedAt, \* sealedAt[k]: last time the peer sealed to k before its not_after
    limit     \* the bounds of this behaviour

keyVars == <<trueTime, off, wrong, rows, secret, cache, top, step, todo, victim, fresh,
             pushed, newest, sealedAt, limit>>
jobVars  == <<step, todo, victim, fresh>>
peerVars == <<pushed, newest, sealedAt>>
timeVars == <<trueTime, off, wrong, limit>>

NoStamp   == -limit.time - 1
Never     == -limit.time - 1
Corrected == limit.time + 1
keyClock  == trueTime + off
Key       == 1..Len(rows)
notAfter(k) == rows[k].created + Lifetime

live      == {k \in Key : ~rows[k].deleted}
currentOf == {k \in live : ~rows[k].retired}

KeysInit ==
    /\ limit \in Limits
    /\ trueTime = 0 /\ off = 0 /\ wrong = 0
    /\ rows = <<>> /\ secret = {} /\ cache = {} /\ top = NoStamp
    /\ step = "idle" /\ todo = {} /\ victim = 0 /\ fresh = 0
    /\ pushed = {} /\ newest = 0 /\ sealedAt = <<>>

-------------------------------------------------------------------------------
(* Creating a key.                                                            *)

usable(k) ==
    /\ notAfter(k) > keyClock     \* renewBefore, an hour, is less than a unit
    /\ rows[k].created <= keyClock \* as is MaxSkew
    /\ k \in secret

\* Mutant of save: the private half is not stored before the row.
BugSaveLater ==
    /\ step' = "saved" /\ fresh' = Len(rows) + 1
    /\ UNCHANGED <<rows, secret, cache, todo, victim>>

\* createLocked up to ks.Save: the private half is stored before the row.
\* Bound: no two keys have the same created (the code counts seconds, not units).
save ==
    /\ \A k \in Key : rows[k].created # keyClock
    /\ step' = "saved" /\ fresh' = Len(rows) + 1
    /\ secret' = secret \cup {fresh'}
    /\ UNCHANGED <<rows, cache, todo, victim>>

\* Age is measured at the earlier of the clock and the newest mail_seen stamp.
seenBasis == IF top < keyClock THEN top ELSE keyClock

expired(k, rs) ==
    /\ top # NoStamp
    /\ rs[k].created + Lifetime + DeleteGrace <= seenBasis
    /\ \E n \in 1..Len(rs) :
          /\ ~rs[n].deleted /\ rs[n].created > rs[k].created
          /\ rs[n].created + DeleteGrace <= seenBasis

startSweep(rs) ==
    /\ step' = "sweep"
    /\ todo' = {k \in 1..Len(rs) : ~rs[k].deleted /\ expired(k, rs)}
    /\ UNCHANGED victim

currentIsFresh ==
    \E k \in currentOf : rows[k].created + RotateAfter > keyClock /\ usable(k)

\* Rotate: create a key if the current one is old or unusable, and sweep.
rotate ==
    /\ step = "idle"
    /\ IF currentIsFresh
       THEN startSweep(rows) /\ UNCHANGED <<rows, secret, cache, fresh>>
       ELSE save
    /\ UNCHANGED <<timeVars, top, peerVars>>

\* Announcement (pairing, key-miss reply): create a key if there is none to offer.
announce ==
    /\ step = "idle" /\ ~\E k \in currentOf : usable(k)
    /\ save
    /\ UNCHANGED <<timeVars, top, peerVars>>

retire(rs) == [k \in 1..Len(rs) |-> [rs[k] EXCEPT !.retired = TRUE]]

\* createLocked's transaction, and the start of its sweep over the new list.
createLocked ==
    /\ step = "saved"
    /\ rows' = Append(retire(rows), [created |-> keyClock, retired |-> FALSE, deleted |-> FALSE])
    /\ sealedAt' = Append(sealedAt, Never)
    /\ startSweep(rows')
    /\ UNCHANGED <<timeVars, secret, cache, top, fresh, pushed, newest>>

\* The transaction fails: the private half is deleted again.
createFails ==
    /\ step = "saved" /\ step' = "idle"
    /\ secret' = secret \ {fresh} /\ fresh' = 0
    /\ UNCHANGED <<timeVars, rows, cache, top, todo, victim, peerVars>>

-------------------------------------------------------------------------------
(* Deleting keys.  deleteKey drops the cached key, deletes the private half   *)
(* and then marks the row; each of the last two can fail.                     *)

\* Mutant of capVictim: the oldest key goes first, whatever its created says.
BugOldestFirst ==
    LET retired == {k \in live : rows[k].retired}
    IN  {k \in retired : \A n \in retired : rows[k].created <= rows[n].created}

\* The keys the limit may delete next: one from the future first, else the oldest.
capVictim ==
    LET retired == {k \in live : rows[k].retired}
        future  == {k \in retired : rows[k].created > keyClock}
        from    == IF future # {} THEN future ELSE retired
    IN  {k \in from : \A n \in from : rows[k].created <= rows[n].created}

Victims ==
    IF todo # {} THEN todo
    ELSE IF Cardinality(live) > MaxLive THEN capVictim ELSE {}

deleteSecret(k) ==
    /\ step = "sweep" /\ k \in Victims
    /\ cache' = cache \ {k} /\ secret' = secret \ {k}
    /\ todo' = todo \ {k} /\ victim' = k /\ step' = "mark"
    /\ UNCHANGED <<timeVars, rows, top, fresh, peerVars>>

\* A locked keychain: an expired key stays live, the limit gives up.
deleteFails(k) ==
    /\ ~limit.prompt /\ step = "sweep" /\ k \in Victims
    /\ cache' = cache \ {k}
    /\ todo' = todo \ {k} /\ step' = IF todo # {} THEN "sweep" ELSE "done"
    /\ UNCHANGED <<timeVars, rows, secret, top, victim, fresh, peerVars>>

markDeleted ==
    /\ step = "mark" /\ step' = "sweep" /\ victim' = 0
    /\ rows' = [rows EXCEPT ![victim].deleted = TRUE]
    /\ UNCHANGED <<timeVars, secret, cache, top, todo, fresh, peerVars>>

sweepLocked ==
    /\ step = "sweep" /\ Victims = {} /\ step' = "done"
    /\ UNCHANGED <<timeVars, rows, secret, cache, top, todo, victim, fresh, peerVars>>

\* The job ends; the OnRotate hook pushes a new key's announcement.
OnRotate ==
    /\ step = "done" /\ step' = "idle" /\ fresh' = 0
    /\ pushed' = pushed \cup ({fresh} \ {0})
    /\ UNCHANGED <<timeVars, rows, secret, cache, top, todo, victim, newest, sealedAt>>

\* MailboxKey loads the private half of a live key and keeps it in memory.
MailboxKey(k) ==
    /\ step = "idle" /\ k \in live \cap secret /\ k \notin cache
    /\ notAfter(k) + DeleteGrace > keyClock
    /\ cache' = cache \cup {k}
    /\ UNCHANGED <<timeVars, rows, secret, top, jobVars, peerVars>>

\* A crash can lose a push (not in a prompt run).
daemonCrash ==
    /\ limit.prompt => step = "idle"
    /\ step' = "idle" /\ todo' = {} /\ victim' = 0 /\ fresh' = 0 /\ cache' = {}
    /\ UNCHANGED <<timeVars, rows, secret, top, peerVars>>

-------------------------------------------------------------------------------
(* The peer, mail and time.                                                   *)

\* mergeMailboxKeys of an announcement that verifyAnnouncement let through.
peerMerges(k) ==
    /\ k \in pushed /\ pushed' = pushed \ {k}
    /\ newest' = IF /\ rows[k].created <= trueTime /\ notAfter(k) > trueTime
                    /\ newest = 0 \/ rows[k].created > rows[newest].created
                 THEN k ELSE newest
    /\ UNCHANGED <<timeVars, rows, secret, cache, top, jobVars, sealedAt>>

\* Outbox.seal: to the newest announcement.  It does so after its not_after too;
\* no property is about such mail, so that leaves no trace.
peerSeals ==
    /\ newest # 0
    /\ notAfter(newest) > trueTime
    /\ sealedAt' = [sealedAt EXCEPT ![newest] = trueTime]
    /\ UNCHANGED <<timeVars, rows, secret, cache, top, jobVars, pushed, newest>>

\* A mail is accepted: its stamp is the earlier of the clock and its created.
mailArrives ==
    /\ off >= 0 \/ top < keyClock
    /\ top' = IF trueTime < keyClock THEN trueTime ELSE keyClock
    /\ top' > top
    /\ UNCHANGED <<timeVars, rows, secret, cache, jobVars, peerVars>>

\* Bound: a job takes no time.
Run ==
    /\ step = "idle" /\ trueTime < limit.time /\ (limit.prompt => pushed = {} /\ currentIsFresh)
    /\ off # 0 => wrong < limit.wrong
    /\ trueTime' = trueTime + 1 /\ wrong' = IF off # 0 THEN wrong + 1 ELSE wrong
    /\ UNCHANGED <<off, limit, rows, secret, cache, top, jobVars, peerVars>>

\* The clock is set wrong once, and set right once.
stepClock(o) ==
    /\ step = "idle" /\ wrong # Corrected /\ o # off
    /\ off = 0 \/ o = 0
    /\ off' = o /\ wrong' = IF o = 0 THEN Corrected ELSE wrong
    /\ UNCHANGED <<trueTime, limit, rows, secret, cache, top, jobVars, peerVars>>

JobStep ==
    \/ rotate \/ announce \/ createLocked \/ createFails
    \/ \E k \in Key : deleteSecret(k) \/ deleteFails(k)
    \/ markDeleted \/ sweepLocked \/ OnRotate

KeysWorld ==
    \/ \E k \in Key : MailboxKey(k)
    \/ \E k \in pushed : peerMerges(k)
    \/ peerSeals \/ mailArrives \/ Run \/ daemonCrash
    \/ \E o \in limit.offset : stepClock(o)

KeysNext == JobStep \/ KeysWorld

KeysSpec == KeysInit /\ [][KeysNext]_keyVars

-------------------------------------------------------------------------------
(* Type correctness.                                                          *)
KeysTypeOK ==
    /\ limit \in Limits /\ trueTime \in 0..limit.time /\ off \in limit.offset /\ wrong \in 0..Corrected
    /\ rows \in Seq([created : Int, retired : BOOLEAN, deleted : BOOLEAN])
    /\ secret \subseteq 1..(Len(rows) + 1) /\ cache \subseteq Key
    /\ top \in Int
    /\ step \in {"idle", "saved", "sweep", "mark", "done"}
    /\ todo \subseteq Key /\ victim \in 0..Len(rows) /\ fresh \in 0..(Len(rows) + 1)
    /\ pushed \subseteq Key /\ newest \in 0..Len(rows)
    /\ sealedAt \in Seq(Int) /\ Len(sealedAt) = Len(rows)

(* The key being offered can decrypt: in every state, after every crash, the   *)
(* current key's private half is in the keystore (createLocked: "a crash never *)
(* leaves an announced key without its secret"; capVictim: "The current key is *)
(* never a candidate").                                                        *)
CurrentKeyDecrypts == currentOf \subseteq secret

(* A key held in memory is one that is still stored: MailboxKey never answers  *)
(* from a private half that the sweep has deleted.                             *)
CacheIsStored == cache \subseteq secret

(* mail.md, Lifecycle: mail sealed to a key before its not_after can be opened *)
(* for the whole queue TTL, whatever the sweep and the limit delete.           *)
KeyOutlivesItsMail ==
    \A k \in Key : trueTime < sealedAt[k] + DeleteGrace => k \in secret

===============================================================================
