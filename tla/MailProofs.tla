------------------------------ MODULE MailProofs ------------------------------
(***************************************************************************)
(* Proofs about the mail that reaches a daemon and the keys that open it.  *)
(*                                                                         *)
(* Receiver: a mail is applied at most once and acked truthfully, for      *)
(* every set of mails and every value of the retention constants that      *)
(* SeenOutlivesWindow admits.  A mail_seen stamp is within MaxSkew of the  *)
(* signed created of its mail, so the newest stamp is at most 2 MaxSkew    *)
(* ahead of true time, whatever the local clock shows.  A pruned row is    *)
(* SeenRetention older than that, so its mail has left the created window  *)
(* of the Opener for good (Gone): no replay of it is opened again.         *)
(*                                                                         *)
(* Keys: the key on offer can always decrypt, for every rotation age,      *)
(* lifetime, queue TTL and key limit, every error of the clock, and every  *)
(* crash and failing keystore or database call.  CurrentKeyDecrypts is not *)
(* inductive: the sweep deletes private halves from a list it made         *)
(* earlier.  SweepInv adds that neither that list nor the key being        *)
(* deleted holds the current key; SavedInv that the private half of a row  *)
(* about to be inserted is in the keystore; OneCurrent that every row but  *)
(* the last is retired, so what the limit may delete (only retired keys)   *)
(* is never on offer.                                                      *)
(***************************************************************************)
EXTENDS MailReceiver, MailboxKeys, SequenceTheorems, TLAPS

\* The mail is too old for the Opener on every clock this daemon may have.
Gone(m) == time > created[m] + MaxAge + MaxSkew

\* A mail on which Handle has decided is known or can never be opened again.
Decided(m) == m \in made /\ (m \in seen \/ Gone(m))

ClockInv ==
    /\ time - MaxSkew <= clock
    /\ \A m \in made : created[m] <= time + MaxSkew

StampInv ==
    /\ \A m \in seen : /\ m \in made
                       /\ created[m] - MaxSkew <= stamp[m]
                       /\ stamp[m] <= created[m] + MaxSkew
    /\ pc = "bad" => /\ cur \in made /\ Known(cur) /\ applied[cur] = 0
                     /\ created[cur] - MaxSkew <= at /\ at <= created[cur] + MaxSkew

AppliedInv ==
    \A m \in Mail :
        /\ applied[m] <= 1 /\ ran[m] <= applied[m]
        /\ applied[m] = 1 => Known(m) /\ m \notin bad /\ Decided(m)
        /\ m \in bad => Known(m)
        /\ m \in seen /\ m \notin bad /\ Known(m) => applied[m] = 1
        /\ m \in inbox => Known(m) /\ applied[m] = 1

\* What an ack member says of mail m.
Says(m, verdict) ==
    /\ verdict = "ids" => applied[m] = 1
    /\ verdict = "rejected" => Known(m) /\ applied[m] = 0 /\ Decided(m)
    /\ verdict = "unsupported" => ~Known(m)

AckInv ==
    /\ \A a \in acks : Says(a.id, a.member)
    /\ pc = "ack" => Says(cur, member)
    /\ pc = "after" => member = "ids" /\ applied[cur] = 1 /\ ran[cur] = 0

IInv == ReceiverTypeOK /\ ClockInv /\ StampInv /\ AppliedInv /\ AckInv

-------------------------------------------------------------------------------
\* Never pruned while it can be replayed: a row before the cutoff is Gone.
LEMMA PrunedIsGone ==
    ASSUME IInv, NEW m \in seen, SeenCutoff(stamp[m])
    PROVE  Gone(m)
<1>1. PICK n \in seen : stamp[m] < stamp[n] - SeenRetention
  BY DEF SeenCutoff, SeenBasis
<1>2. /\ created[m] - MaxSkew <= stamp[m]
      /\ stamp[n] <= created[n] + MaxSkew /\ created[n] <= time + MaxSkew
  BY DEF IInv, StampInv, ClockInv
<1>3. /\ stamp[m] \in Int /\ stamp[n] \in Int /\ created[m] \in Int
      /\ created[n] \in Int /\ time \in Int
  BY DEF IInv, ReceiverTypeOK
<1> QED
  BY <1>1, <1>2, <1>3, ReceiverConstants, SeenOutlivesWindow DEF Gone

\* A mail the Opener lets through is not Gone.
LEMMA OpenIsNotGone ==
    ASSUME IInv, NEW m \in Mail, open(m)
    PROVE  ~Gone(m)
BY ReceiverConstants DEF IInv, ReceiverTypeOK, ClockInv, open, Gone

\* The stamp of a mail that was opened is within MaxSkew of its created.
LEMMA StampIsClose ==
    ASSUME IInv, NEW m \in Mail, open(m)
    PROVE  /\ seenStamp(m) \in Int
           /\ created[m] - MaxSkew <= seenStamp(m)
           /\ seenStamp(m) <= created[m] + MaxSkew
BY ReceiverConstants DEF IInv, ReceiverTypeOK, open, seenStamp, Least

\* A mail that is opened and in neither table was never applied.
LEMMA NewIsUnapplied ==
    ASSUME IInv, NEW m \in Mail, open(m), IsNew(m)
    PROVE  applied[m] = 0 /\ ran[m] = 0
<1>1. applied[m] # 1
  BY OpenIsNotGone DEF IInv, AppliedInv, Decided, IsNew
<1> QED
  BY <1>1 DEF IInv, AppliedInv, ReceiverTypeOK

\* A fresh receiver, with empty tables, satisfies the inductive invariant.
LEMMA InitInv == ReceiverInit => IInv
BY ReceiverConstants DEF ReceiverInit, IInv, ReceiverTypeOK, ClockInv, StampInv, AppliedInv, AckInv,
    Known, Member

\* Every step of Receiver.Handle, RunPrune, the retention prune, the clock and a
\* crash preserves it; one step per action.
LEMMA NextInv == IInv /\ [ReceiverNext]_receiverVars => IInv'
<1> SUFFICES ASSUME IInv, [ReceiverNext]_receiverVars PROVE IInv'
  OBVIOUS
<1> USE ReceiverConstants
<1> USE DEF Known, Member, Says, Decided, Gone
<1>a. ASSUME NEW m \in Mail, HandleStale(m) PROVE IInv'
  BY <1>a DEF HandleStale, IInv, ReceiverTypeOK, ClockInv, StampInv, AppliedInv, AckInv,
     mailVars, seenVars, inboxVars, handler, history
<1>b. ASSUME NEW m \in Mail, storeDuplicate(m) PROVE IInv'
  <2>1. /\ m \in seen => Says(m, seenAs(m)) /\ seenAs(m) \in Member
        /\ m \notin seen => Says(m, Accepted(m)) /\ Accepted(m) \in Member
    BY <1>b DEF storeDuplicate, seenAs, Accepted, open, IInv, ReceiverTypeOK, AppliedInv
  <2>2. Says(m, member') /\ member' \in Member /\ pc' = "ack" /\ cur' = m
    BY <1>b, <2>1 DEF storeDuplicate
  <2> QED
    BY <1>b, <2>2 DEF storeDuplicate, IInv, ReceiverTypeOK, ClockInv, StampInv,
       AppliedInv, AckInv, mailVars, seenVars, inboxVars, history
<1>c. ASSUME NEW m \in Mail, store(m) PROVE IInv'
  <2>1. /\ applied[m] = 0 /\ ran[m] = 0 /\ m \in made /\ m \notin seen /\ m \notin inbox
        /\ seenStamp(m) \in Int /\ created[m] - MaxSkew <= seenStamp(m)
        /\ seenStamp(m) <= created[m] + MaxSkew
    BY <1>c, StampIsClose, NewIsUnapplied DEF store, open, IsNew
  <2>2. /\ seen' = seen \cup {m} /\ stamp' = [stamp EXCEPT ![m] = seenStamp(m)] /\ bad' = bad
        /\ UNCHANGED <<time, clock, made, created, ran, acks>>
        /\ cur' = m /\ member' = Accepted(m) /\ at' = at
        /\ pc' = (IF Known(m) THEN "after" ELSE "ack")
        /\ applied' = [applied EXCEPT ![m] = IF Known(m) THEN @ + 1 ELSE @]
    BY <1>c DEF store, record, mailVars
  <2>3. /\ inbox' = (IF KindOf[m] = "inbox" THEN inbox \cup {m} ELSE inbox)
        /\ got' \in [Mail -> Int]
    BY <1>c DEF store, inboxVars, IInv, ReceiverTypeOK
  <2>4. ReceiverTypeOK'
    <3>1. pc' \in {"after", "ack"} /\ member' \in Member
      BY <2>2 DEF Accepted
    <3>2. applied' \in [Mail -> Nat]
      BY <2>2 DEF IInv, ReceiverTypeOK
    <3>3. seen' \subseteq Mail /\ stamp' \in [Mail -> Int] /\ bad' \subseteq seen'
      BY <2>1, <2>2 DEF IInv, ReceiverTypeOK
    <3> QED
      BY <2>2, <2>3, <3>1, <3>2, <3>3 DEF IInv, ReceiverTypeOK
  <2>5. ClockInv' /\ StampInv'
    BY <2>1, <2>2 DEF IInv, ReceiverTypeOK, ClockInv, StampInv
  <2>6. AppliedInv'
    BY <2>1, <2>2, <2>3 DEF IInv, ReceiverTypeOK, AppliedInv
  <2>7. AckInv'
    <3>1. \A a \in acks : a.id = m => a.member \notin {"ids", "rejected"}
      BY <1>c, <2>1, OpenIsNotGone DEF IInv, AckInv, store
    <3> QED
      BY <2>1, <2>2, <3>1 DEF IInv, ReceiverTypeOK, AckInv, Accepted
  <2> QED
    BY <2>4, <2>5, <2>6, <2>7 DEF IInv
<1>d. ASSUME NEW m \in Mail, applyRefuses(m) PROVE IInv'
  BY <1>d, StampIsClose, NewIsUnapplied DEF applyRefuses, open, IInv, ReceiverTypeOK, ClockInv,
     StampInv, AppliedInv, AckInv, mailVars, seenVars, inboxVars, history
<1>e. ASSUME storeBad PROVE IInv'
  BY <1>e DEF storeBad, record, seenAs, Accepted, IInv, ReceiverTypeOK, ClockInv, StampInv,
     AppliedInv, AckInv, mailVars, seenVars, inboxVars, history
<1>f. ASSUME storeBadFails PROVE IInv'
  BY <1>f DEF storeBadFails, Idle, IInv, ReceiverTypeOK, ClockInv, StampInv, AppliedInv, AckInv,
     mailVars, seenVars, inboxVars, history
<1>g. ASSUME After PROVE IInv'
  BY <1>g DEF After, IInv, ReceiverTypeOK, ClockInv, StampInv, AppliedInv, AckInv,
     mailVars, seenVars, inboxVars
<1>h. ASSUME ack PROVE IInv'
  BY <1>h DEF ack, Idle, IInv, ReceiverTypeOK, ClockInv, StampInv, AppliedInv, AckInv,
     mailVars, seenVars, inboxVars, history
<1>i. ASSUME pruneSeen, UNCHANGED <<handler, acks, history, time, clock, mailVars>>,
             inbox' \subseteq inbox, got' \in [Mail -> Int]
      PROVE IInv'
  <2>1. \A m \in seen : m \in seen' \/ Gone(m)
    BY <1>i, PrunedIsGone DEF pruneSeen, Kept
  <2>2. seen' \subseteq seen /\ bad' = bad \cap seen'
    BY <1>i DEF pruneSeen, Kept
  <2> QED
    BY <1>i, <2>1, <2>2 DEF pruneSeen, Kept, IInv, ReceiverTypeOK, ClockInv, StampInv, AppliedInv,
       AckInv, mailVars, handler, history
<1>j. ASSUME NEW m \in Mail, NEW t \in Int, peerCreates(m, t) PROVE IInv'
  BY <1>j DEF peerCreates, IInv, ReceiverTypeOK, ClockInv, StampInv, AppliedInv, AckInv,
     seenVars, inboxVars, handler, history
<1>k. ASSUME timePasses PROVE IInv'
  BY <1>k DEF timePasses, IInv, ReceiverTypeOK, ClockInv, StampInv, AppliedInv, AckInv,
     mailVars, seenVars, inboxVars, handler, history
<1>l. ASSUME NEW c \in Int, setClock(c) PROVE IInv'
  BY <1>l DEF setClock, IInv, ReceiverTypeOK, ClockInv, StampInv, AppliedInv, AckInv,
     mailVars, seenVars, inboxVars, handler, history
<1>m. ASSUME crash PROVE IInv'
  BY <1>m DEF crash, Idle, IInv, ReceiverTypeOK, ClockInv, StampInv, AppliedInv, AckInv,
     mailVars, seenVars, inboxVars, history
<1>n. ASSUME UNCHANGED receiverVars PROVE IInv'
  BY <1>n DEF receiverVars, IInv, ReceiverTypeOK, ClockInv, StampInv, AppliedInv, AckInv,
     mailVars, seenVars, inboxVars, handler, history
<1>o. ASSUME Prune PROVE IInv'
  BY <1>i, <1>o DEF Prune, inboxVars, IInv, ReceiverTypeOK
<1>p. ASSUME NEW c \in Int, pruneTx(c) PROVE IInv'
  <2>1. inbox' \subseteq inbox /\ got' \in [Mail -> Int]
    BY <1>p DEF pruneTx, IInv, ReceiverTypeOK
  <2> QED
    BY <1>i, <1>p, <2>1 DEF pruneTx
<1> QED
  <2>1. -MaxSkew \in Int /\ MaxTime + MaxStep \in Int /\ MaxTime + MaxSkew \in Int
    OBVIOUS
  <2> QED
    BY <1>a, <1>b, <1>c, <1>d, <1>e, <1>f, <1>g, <1>h, <1>j, <1>k, <1>l, <1>m, <1>n, <1>o, <1>p, <2>1
       DEF ReceiverNext, HandleStep, PruneStep, WorldStep

\* The inductive invariant holds in every reachable state of the receiver.
THEOREM ReceiverInvariant == ReceiverSpec => []IInv
BY InitInv, NextInv, PTL DEF ReceiverSpec

\* Receiver.Handle and the prunes keep every table and field within its type.
THEOREM TypeCorrect == ReceiverSpec => []ReceiverTypeOK
BY ReceiverInvariant, PTL DEF IInv

\* Receiver.store applies a mail, and Handle runs its After, at most once, however
\* often it is replayed, whatever the clock does and whatever RunPrune forgets.
THEOREM MailIsAppliedOnce == ReceiverSpec => []AppliedOnce
<1>1. IInv => AppliedOnce
  BY DEF IInv, AppliedInv, AppliedOnce
<1> QED
  BY <1>1, ReceiverInvariant, PTL

\* Receiver.ack never says delivered for a mail that was not applied, nor a refusal
\* for one that was.
THEOREM AcksAreTrue == ReceiverSpec => []AckTellsTheTruth
<1>1. IInv => AckTellsTheTruth
  BY DEF IInv, ReceiverTypeOK, AckInv, Says, AckTellsTheTruth
<1> QED
  BY <1>1, ReceiverInvariant, PTL

-------------------------------------------------------------------------------
(* The mailbox keys.                                                          *)

KeyRows == [created : Int, retired : BOOLEAN, deleted : BOOLEAN]

\* The clock is wrong for no longer than time has run.
WrongInv == wrong <= trueTime \/ (wrong = Corrected /\ off = 0)

OneCurrent == \A k \in Key : k < Len(rows) => rows[k].retired

SavedInv ==
    /\ step = "saved" => fresh = Len(rows) + 1 /\ fresh \in secret
    /\ step # "saved" => fresh <= Len(rows)

SweepInv ==
    /\ todo \cap currentOf = {}
    /\ step = "mark" => victim \in Key /\ victim \notin currentOf
    /\ step \in {"idle", "saved", "done"} => todo = {}

KeysInv ==
    /\ KeysTypeOK /\ WrongInv /\ OneCurrent /\ SavedInv /\ SweepInv
    /\ CurrentKeyDecrypts /\ CacheIsStored

-------------------------------------------------------------------------------
\* What the types say of clocks and rows.
LEMMA KeyTypes ==
    ASSUME KeysTypeOK
    PROVE  /\ limit.time \in Nat /\ limit.offset \subseteq Int /\ 0 \in limit.offset
           /\ limit.wrong \in Nat /\ limit.prompt \in BOOLEAN
           /\ trueTime \in Int /\ off \in Int /\ keyClock \in Int /\ seenBasis \in Int
           /\ seenBasis <= keyClock /\ Len(rows) \in Nat /\ DOMAIN rows = Key
           /\ \A k \in Key : rows[k] \in KeyRows
<1>1. /\ limit.time \in Nat /\ limit.offset \subseteq Int /\ 0 \in limit.offset
      /\ limit.wrong \in Nat /\ limit.prompt \in BOOLEAN
  BY KeysConstants DEF KeysTypeOK
<1>2. trueTime \in Int /\ off \in Int /\ top \in Int
  BY <1>1 DEF KeysTypeOK
<1>3. keyClock \in Int /\ seenBasis \in Int /\ seenBasis <= keyClock
  BY <1>2 DEF keyClock, seenBasis
<1>4. Len(rows) \in Nat /\ DOMAIN rows = Key /\ \A k \in Key : rows[k] \in KeyRows
  BY LenProperties, ElementOfSeq DEF KeysTypeOK, KeyRows, Key
<1> QED
  BY <1>1, <1>2, <1>3, <1>4

\* A function on 1..n is a sequence of length n.
LEMMA FcnIsSeq ==
    ASSUME NEW S, NEW n \in Nat, NEW f \in [1..n -> S]
    PROVE  f \in Seq(S) /\ Len(f) = n
OBVIOUS

\* A key whose announcement has not run out is not expired.
LEMMA LiveIsNotExpired ==
    ASSUME KeysTypeOK, NEW rs, NEW k, rs[k].created \in Int,
           rs[k].created + Lifetime > keyClock
    PROVE  ~expired(k, rs)
BY KeyTypes, KeysConstants DEF expired

\* The keys the limit may delete are retired.
LEMMA CapIsRetired ==
    \A k \in capVictim : k \in live /\ k \notin currentOf
BY DEF capVictim, currentOf

\* A daemon without keys.
LEMMA KeysInitInv == KeysInit => KeysInv
BY KeysConstants DEF KeysInit, KeysInv, KeysTypeOK, WrongInv, OneCurrent, SavedInv, SweepInv,
   CurrentKeyDecrypts, CacheIsStored, Key, live, currentOf, NoStamp, Corrected

\* A step that touches neither rows nor private halves, and starts no deletion.
LEMMA QuietKeeps ==
    ASSUME KeysInv, KeysTypeOK', WrongInv', UNCHANGED <<rows, secret>>,
           cache' \subseteq secret, todo' \subseteq todo,
           step' = "mark" => step = "mark" /\ victim' = victim,
           step' = "saved" => step = "saved" /\ fresh' = fresh,
           step' # "saved" => fresh' <= Len(rows),
           step' \in {"idle", "saved", "done"} => todo' = {}
    PROVE  KeysInv'
BY DEF KeysInv, OneCurrent, SavedInv, SweepInv, CurrentKeyDecrypts, CacheIsStored, Key, live,
   currentOf

-------------------------------------------------------------------------------
(* The job's steps.                                                           *)

\* save: the private half of the key to be inserted is stored.
LEMMA SaveKeeps ==
    ASSUME KeysInv, step = "idle", save, UNCHANGED <<timeVars, top, peerVars>>
    PROVE  KeysInv'
<1>0. /\ Len(rows) \in Nat /\ step' = "saved" /\ fresh' = Len(rows) + 1
      /\ secret' = secret \cup {Len(rows) + 1} /\ todo = {}
      /\ UNCHANGED <<rows, cache, todo, victim, timeVars, top, peerVars>>
  BY KeyTypes DEF save, KeysInv, SweepInv
<1>1. KeysTypeOK'
  <2>1. secret' \subseteq 1..(Len(rows) + 1) /\ fresh' \in 0..(Len(rows) + 1)
    <3>1. secret \subseteq 1..(Len(rows) + 1) /\ Len(rows) + 1 \in 1..(Len(rows) + 1)
      BY <1>0 DEF KeysInv, KeysTypeOK
    <3>2. secret' \subseteq 1..(Len(rows) + 1)
      BY <1>0, <3>1, Zenon
    <3> QED
      BY <1>0, <3>2
  <2>2. step' = "saved" /\ UNCHANGED <<rows, cache, todo, victim, timeVars, top, peerVars>>
    BY <1>0
  <2> QED
    BY <2>1, <2>2 DEF KeysInv, KeysTypeOK, timeVars, peerVars, Key, Corrected
<1>2. WrongInv' /\ OneCurrent' /\ SavedInv' /\ SweepInv'
  BY <1>0 DEF KeysInv, WrongInv, OneCurrent, SavedInv, SweepInv, Key, Corrected, timeVars
<1>3. CurrentKeyDecrypts' /\ CacheIsStored'
  BY <1>0 DEF KeysInv, CurrentKeyDecrypts, CacheIsStored, currentOf, live, Key
<1> QED
  BY <1>1, <1>2, <1>3 DEF KeysInv

\* The sweep that follows a job with a fresh current key spares that key.
LEMMA RotateKeeps == ASSUME KeysInv, rotate PROVE KeysInv'
<1>1. CASE currentIsFresh
  <2>0. /\ step = "idle" /\ step' = "sweep"
        /\ todo' = {k \in Key : ~rows[k].deleted /\ expired(k, rows)}
        /\ UNCHANGED <<rows, secret, cache, fresh, victim, timeVars, top, peerVars>>
    BY <1>1 DEF rotate, startSweep, Key
  <2>1. KeysTypeOK'
    BY <2>0 DEF KeysInv, KeysTypeOK, timeVars, peerVars, Key, Corrected
  <2>2. todo' \cap currentOf = {}
    <3>1. PICK c \in currentOf : notAfter(c) > keyClock
      BY <1>1 DEF currentIsFresh, usable
    <3>2. \A k \in currentOf : k = c
      BY <3>1, KeyTypes DEF KeysInv, OneCurrent, currentOf, live, Key
    <3>3. ~expired(c, rows)
      BY <3>1, KeyTypes, LiveIsNotExpired DEF KeysInv, notAfter, currentOf, live, KeyRows
    <3> QED
      BY <2>0, <3>2, <3>3
  <2>3. WrongInv' /\ OneCurrent' /\ SavedInv' /\ SweepInv'
    BY <2>0, <2>2
    DEF KeysInv, WrongInv, OneCurrent, SavedInv, SweepInv, Key, Corrected, timeVars, currentOf, live
  <2>4. CurrentKeyDecrypts' /\ CacheIsStored'
    BY <2>0 DEF KeysInv, CurrentKeyDecrypts, CacheIsStored, currentOf, live, Key
  <2> QED
    BY <2>1, <2>3, <2>4 DEF KeysInv
<1>2. CASE ~currentIsFresh
  BY <1>2, SaveKeeps DEF rotate
<1> QED
  BY <1>1, <1>2

\* Announcement stores a private half and no more.
LEMMA AnnounceKeeps == ASSUME KeysInv, announce PROVE KeysInv'
BY SaveKeeps DEF announce

\* The row list after createLocked: every old key retired, the new one on offer.
LEMMA NewRows ==
    ASSUME KeysInv, createLocked
    PROVE  /\ rows' \in Seq(KeyRows) /\ Len(rows') = Len(rows) + 1
           /\ rows'[Len(rows) + 1] = [created |-> keyClock, retired |-> FALSE, deleted |-> FALSE]
           /\ \A k \in Key : rows'[k] = [rows[k] EXCEPT !.retired = TRUE]
<1>1. retire(rows) \in Seq(KeyRows) /\ Len(retire(rows)) = Len(rows)
  <2>1. \A k \in Key : [rows[k] EXCEPT !.retired = TRUE] \in KeyRows
    BY KeyTypes DEF KeysInv, KeyRows
  <2>2. retire(rows) \in [1..Len(rows) -> KeyRows] /\ Len(rows) \in Nat
    BY <2>1, KeyTypes DEF retire, KeysInv, Key
  <2> QED
    BY <2>2, FcnIsSeq
<1>2. [created |-> keyClock, retired |-> FALSE, deleted |-> FALSE] \in KeyRows
  BY KeyTypes DEF KeysInv, KeyRows
<1>3. \A k \in Key : retire(rows)[k] = [rows[k] EXCEPT !.retired = TRUE]
  BY DEF retire, Key
<1> DEFINE old == retire(rows)
           row == [created |-> keyClock, retired |-> FALSE, deleted |-> FALSE]
<1>4. rows' = Append(old, row)
  BY DEF createLocked
<1> HIDE DEF old, row
<1>5. /\ rows' \in Seq(KeyRows) /\ Len(rows') = Len(old) + 1 /\ rows'[Len(old) + 1] = row
      /\ \A k \in 1..Len(old) : rows'[k] = old[k]
  BY <1>1, <1>2, <1>4, AppendProperties DEF old, row
<1> QED
  BY <1>1, <1>3, <1>5 DEF Key, old, row

\* createLocked's transaction, and the list of the sweep.
LEMMA CreateLockedKeeps == ASSUME KeysInv, createLocked PROVE KeysInv'
<1> DEFINE new == Len(rows) + 1
<1>0. /\ step = "saved" /\ step' = "sweep" /\ fresh = new /\ new \in secret
      /\ todo' = {k \in Key' : ~rows'[k].deleted /\ expired(k, rows')}
      /\ sealedAt' = Append(sealedAt, Never)
      /\ UNCHANGED <<timeVars, secret, cache, top, fresh, pushed, newest, victim>>
  BY DEF createLocked, startSweep, KeysInv, SavedInv, Key
<1>1. /\ rows' \in Seq(KeyRows) /\ Len(rows') = new /\ Key' = Key \cup {new} /\ new \notin Key
      /\ rows'[new] = [created |-> keyClock, retired |-> FALSE, deleted |-> FALSE]
      /\ \A k \in Key : rows'[k].retired
  <2>1. \A k \in Key : [rows[k] EXCEPT !.retired = TRUE].retired
    BY KeyTypes DEF KeysInv, KeyRows
  <2>2. Len(rows) \in Nat
    BY KeyTypes DEF KeysInv
  <2>3. \A k \in Key : rows'[k].retired
    BY <2>1, NewRows
  <2>4. Len(rows') = new /\ Key' = Key \cup {new} /\ new \notin Key
    BY <2>2, NewRows DEF Key
  <2> QED
    BY <2>3, <2>4, NewRows
<1>2. Len(rows) \in Nat /\ Never \in Int
  BY KeyTypes DEF KeysInv, Never
<1>3. currentOf' \subseteq {new}
  BY <1>1 DEF currentOf, live
<1>4. ~expired(new, rows')
  BY <1>1, KeyTypes, KeysConstants, LiveIsNotExpired DEF KeysInv
<1>5. sealedAt' \in Seq(Int) /\ Len(sealedAt') = Len(rows')
  BY <1>0, <1>1, <1>2 DEF KeysInv, KeysTypeOK
<1>6. KeysTypeOK'
  BY <1>0, <1>1, <1>2, <1>5 DEF KeysInv, KeysTypeOK, KeyRows, timeVars, Key, Corrected
<1>7. WrongInv' /\ OneCurrent' /\ SavedInv' /\ SweepInv'
  BY <1>0, <1>1, <1>2, <1>3, <1>4
  DEF KeysInv, WrongInv, OneCurrent, SavedInv, SweepInv, Key, Corrected, timeVars
<1>8. CurrentKeyDecrypts' /\ CacheIsStored'
  BY <1>0, <1>3 DEF KeysInv, CurrentKeyDecrypts, CacheIsStored
<1> QED
  BY <1>6, <1>7, <1>8 DEF KeysInv

\* The transaction fails: only a private half without a row is deleted.
LEMMA CreateFailsKeeps == ASSUME KeysInv, createFails PROVE KeysInv'
<1>0. /\ Len(rows) \in Nat /\ step' = "idle" /\ fresh' = 0 /\ fresh = Len(rows) + 1
      /\ secret' = secret \ {Len(rows) + 1} /\ todo = {}
      /\ UNCHANGED <<rows, cache, todo, victim, timeVars, top, peerVars>>
  BY KeyTypes DEF createFails, KeysInv, SavedInv, SweepInv
<1>1. KeysTypeOK'
  <2>1. secret' \subseteq 1..(Len(rows) + 1)
    BY <1>0 DEF KeysInv, KeysTypeOK
  <2>2. /\ step' = "idle" /\ fresh' = 0
        /\ UNCHANGED <<rows, cache, todo, victim, timeVars, top, peerVars>>
    BY <1>0
  <2>3. Len(rows) \in Nat
    BY <1>0
  <2> QED
    BY <2>1, <2>2, <2>3 DEF KeysInv, KeysTypeOK, timeVars, peerVars, Key, Corrected
<1>2. WrongInv' /\ OneCurrent' /\ SavedInv' /\ SweepInv'
  BY <1>0 DEF KeysInv, WrongInv, OneCurrent, SavedInv, SweepInv, Key, Corrected, timeVars
<1>3. Len(rows) + 1 \notin Key
  BY <1>0 DEF Key
<1>4. CurrentKeyDecrypts' /\ CacheIsStored'
  BY <1>0, <1>3
  DEF KeysInv, KeysTypeOK, CurrentKeyDecrypts, CacheIsStored, currentOf, live, Key
<1> QED
  BY <1>1, <1>2, <1>4 DEF KeysInv

\* What the sweep and the limit may delete is never on offer.
LEMMA VictimIsNotCurrent ==
    ASSUME KeysInv, NEW k \in Victims
    PROVE  k \notin currentOf
BY CapIsRetired DEF Victims, KeysInv, SweepInv

\* deleteKey deletes the private half before it marks the row.
LEMMA DeleteSecretKeeps ==
    ASSUME KeysInv, NEW k \in Key, deleteSecret(k)
    PROVE  KeysInv'
<1>0. /\ step' = "mark" /\ victim' = k /\ todo' = todo \ {k} /\ step = "sweep"
      /\ cache' = cache \ {k} /\ secret' = secret \ {k} /\ k \notin currentOf
      /\ UNCHANGED <<timeVars, rows, top, fresh, peerVars>>
  BY VictimIsNotCurrent DEF deleteSecret
<1>1. KeysTypeOK'
  <2>1. /\ secret' \subseteq 1..(Len(rows) + 1) /\ cache' \subseteq Key /\ todo' \subseteq Key
        /\ k \in 0..Len(rows)
    <3>1. secret \subseteq 1..(Len(rows) + 1) /\ cache \subseteq Key /\ todo \subseteq Key
      BY DEF KeysInv, KeysTypeOK
    <3>2. k \in 0..Len(rows)
      BY KeyTypes DEF KeysInv, Key
    <3> QED
      BY <1>0, <3>1, <3>2, Zenon
  <2>2. step' = "mark" /\ victim' = k /\ UNCHANGED <<timeVars, rows, top, fresh, peerVars>>
    BY <1>0
  <2> QED
    BY <2>1, <2>2 DEF KeysInv, KeysTypeOK, timeVars, peerVars, Key, Corrected
<1>2. WrongInv' /\ OneCurrent' /\ SavedInv' /\ SweepInv'
  BY <1>0
  DEF KeysInv, WrongInv, OneCurrent, SavedInv, SweepInv, Key, Corrected, timeVars, currentOf, live
<1>3. CurrentKeyDecrypts' /\ CacheIsStored'
  BY <1>0 DEF KeysInv, CurrentKeyDecrypts, CacheIsStored, currentOf, live, Key
<1> QED
  BY <1>1, <1>2, <1>3 DEF KeysInv

\* A locked keychain keeps the private half; only the cached copy goes.
LEMMA DeleteFailsKeeps ==
    ASSUME KeysInv, NEW k \in Key, deleteFails(k)
    PROVE  KeysInv'
<1>0. /\ step = "sweep" /\ cache' = cache \ {k} /\ todo' = todo \ {k}
      /\ step' = IF todo # {} THEN "sweep" ELSE "done"
      /\ UNCHANGED <<timeVars, rows, secret, top, victim, fresh, peerVars>>
  BY DEF deleteFails
<1>1. KeysTypeOK'
  BY <1>0 DEF KeysInv, KeysTypeOK, timeVars, peerVars, Key, Corrected
<1>2. WrongInv'
  BY <1>0 DEF KeysInv, WrongInv, Corrected, timeVars
<1> QED
  BY <1>0, <1>1, <1>2, QuietKeeps DEF KeysInv, CacheIsStored, SavedInv

\* The row of a key that is not on offer is marked deleted.
LEMMA MarkDeletedKeeps == ASSUME KeysInv, markDeleted PROVE KeysInv'
<1>0. /\ step = "mark" /\ step' = "sweep" /\ victim' = 0 /\ victim \in Key /\ victim \notin currentOf
      /\ rows' = [rows EXCEPT ![victim] = [rows[victim] EXCEPT !.deleted = TRUE]]
      /\ UNCHANGED <<timeVars, secret, cache, top, todo, fresh, peerVars>>
  BY DEF markDeleted, KeysInv, SweepInv
<1>1. /\ rows \in Seq(KeyRows) /\ victim \in 1..Len(rows)
      /\ [rows[victim] EXCEPT !.deleted = TRUE] \in KeyRows
  BY <1>0, KeyTypes DEF KeysInv, KeysTypeOK, KeyRows, Key
<1>2. /\ rows' \in Seq(KeyRows) /\ Len(rows') = Len(rows) /\ Len(rows) \in Nat
      /\ \A j \in Key : rows'[j] = IF j = victim THEN [rows[victim] EXCEPT !.deleted = TRUE]
                                   ELSE rows[j]
  BY <1>0, <1>1, ExceptSeq, LenProperties DEF Key
<1>3. /\ Key' = Key /\ rows'[victim].deleted
      /\ \A j \in Key : rows'[j].retired = rows[j].retired
  BY <1>0, <1>1, <1>2, KeyTypes DEF Key, KeysInv, KeyRows
<1>4. currentOf' \subseteq currentOf
  BY <1>2, <1>3 DEF currentOf, live
<1>5. KeysTypeOK'
  BY <1>0, <1>2, <1>3 DEF KeysInv, KeysTypeOK, KeyRows, timeVars, peerVars, Corrected
<1>6. WrongInv' /\ OneCurrent' /\ SavedInv' /\ SweepInv'
  BY <1>0, <1>2, <1>3, <1>4
  DEF KeysInv, WrongInv, OneCurrent, SavedInv, SweepInv, Corrected, timeVars
<1>7. CurrentKeyDecrypts' /\ CacheIsStored'
  BY <1>0, <1>4 DEF KeysInv, CurrentKeyDecrypts, CacheIsStored
<1> QED
  BY <1>5, <1>6, <1>7 DEF KeysInv

\* The sweep ends with nothing left to do.
LEMMA SweepLockedKeeps == ASSUME KeysInv, sweepLocked PROVE KeysInv'
<1>0. /\ step = "sweep" /\ step' = "done" /\ todo = {}
      /\ UNCHANGED <<timeVars, rows, secret, cache, top, todo, victim, fresh, peerVars>>
  BY DEF sweepLocked, Victims
<1>1. KeysTypeOK' /\ WrongInv'
  BY <1>0 DEF KeysInv, KeysTypeOK, WrongInv, timeVars, peerVars, Key, Corrected
<1> QED
  BY <1>0, <1>1, QuietKeeps DEF KeysInv, CacheIsStored, SavedInv

\* The end of the job pushes a new key's announcement.
LEMMA OnRotateKeeps == ASSUME KeysInv, OnRotate PROVE KeysInv'
<1>0. /\ step = "done" /\ step' = "idle" /\ fresh' = 0 /\ pushed' = pushed \cup ({fresh} \ {0})
      /\ UNCHANGED <<timeVars, rows, secret, cache, top, todo, victim, newest, sealedAt>>
  BY DEF OnRotate
<1>1. KeysTypeOK'
  <2>1. fresh \in 0..Len(rows)
    BY <1>0 DEF KeysInv, KeysTypeOK, SavedInv
  <2>2. pushed' \subseteq Key
    <3>1. pushed \subseteq Key
      BY DEF KeysInv, KeysTypeOK
    <3>2. fresh # 0 => fresh \in Key
      BY <2>1 DEF Key
    <3> QED
      BY <1>0, <3>1, <3>2, Zenon
  <2> QED
    BY <1>0, <2>2 DEF KeysInv, KeysTypeOK, timeVars, Key, Corrected
<1>2. WrongInv'
  BY <1>0 DEF KeysInv, WrongInv, timeVars, Corrected
<1> QED
  BY <1>0, <1>1, <1>2, KeyTypes, QuietKeeps DEF KeysInv, CacheIsStored, SweepInv

-------------------------------------------------------------------------------
(* The steps around the job.                                                  *)

\* MailboxKey loads a private half that is in the keystore.
LEMMA MailboxKeyKeeps ==
    ASSUME KeysInv, NEW k \in Key, MailboxKey(k)
    PROVE  KeysInv'
<1>0. /\ k \in secret /\ cache' = cache \cup {k}
      /\ UNCHANGED <<timeVars, rows, secret, top, jobVars, peerVars>>
  BY DEF MailboxKey
<1>1. cache' \subseteq Key /\ cache' \subseteq secret
  BY <1>0 DEF KeysInv, KeysTypeOK, CacheIsStored
<1>2. KeysTypeOK' /\ WrongInv'
  BY <1>0, <1>1 DEF KeysInv, KeysTypeOK, WrongInv, timeVars, jobVars, peerVars, Key, Corrected
<1> QED
  BY <1>0, <1>1, <1>2, QuietKeeps DEF KeysInv, SavedInv, SweepInv, jobVars

\* After a crash no job runs and nothing is cached; rows and private halves stand.
LEMMA DaemonCrashKeeps == ASSUME KeysInv, daemonCrash PROVE KeysInv'
<1>0. /\ step' = "idle" /\ todo' = {} /\ victim' = 0 /\ fresh' = 0 /\ cache' = {}
      /\ UNCHANGED <<timeVars, rows, secret, top, peerVars>>
  BY DEF daemonCrash
<1>1. Len(rows) \in Nat
  BY KeyTypes DEF KeysInv
<1>2. KeysTypeOK' /\ WrongInv'
  BY <1>0, <1>1 DEF KeysInv, KeysTypeOK, WrongInv, timeVars, peerVars, Key, Corrected
<1> QED
  BY <1>0, <1>1, <1>2, QuietKeeps

\* A step of the peer, of a sender or of time touches neither the job nor the keys.
LEMMA OutsideKeeps ==
    ASSUME KeysInv, KeysTypeOK', WrongInv', UNCHANGED <<rows, secret, cache, jobVars>>
    PROVE  KeysInv'
BY QuietKeeps DEF KeysInv, CacheIsStored, SavedInv, SweepInv, jobVars

\* The peer takes an announcement, or seals to the one it took last.
LEMMA PeerKeeps ==
    ASSUME KeysInv, peerSeals \/ \E k \in pushed : peerMerges(k)
    PROVE  KeysInv'
<1>1. ASSUME NEW k \in pushed, peerMerges(k) PROVE KeysInv'
  <2>0. /\ newest' \in {k, newest} /\ pushed' = pushed \ {k}
        /\ UNCHANGED <<timeVars, rows, secret, cache, top, jobVars, sealedAt>>
    BY <1>1 DEF peerMerges
  <2>1. newest' \in 0..Len(rows) /\ pushed' \subseteq Key
    <3>1. pushed \subseteq Key /\ newest \in 0..Len(rows)
      BY DEF KeysInv, KeysTypeOK
    <3>2. k \in 0..Len(rows)
      BY <3>1 DEF Key
    <3> QED
      BY <2>0, <3>1, <3>2, Zenon
  <2>2. KeysTypeOK' /\ WrongInv'
    BY <2>0, <2>1 DEF KeysInv, KeysTypeOK, WrongInv, timeVars, jobVars, Key, Corrected
  <2> QED
    BY <2>0, <2>2, OutsideKeeps
<1>2. CASE peerSeals
  <2>0. /\ newest # 0 /\ sealedAt' = [sealedAt EXCEPT ![newest] = trueTime]
        /\ UNCHANGED <<timeVars, rows, secret, cache, top, jobVars, pushed, newest>>
    BY <1>2 DEF peerSeals
  <2>1. newest \in 1..Len(sealedAt) /\ sealedAt \in Seq(Int) /\ trueTime \in Int
    BY <2>0, KeyTypes DEF KeysInv, KeysTypeOK
  <2>2. sealedAt' \in Seq(Int) /\ Len(sealedAt') = Len(sealedAt)
    BY <2>0, <2>1, ExceptSeq
  <2>3. KeysTypeOK' /\ WrongInv'
    BY <2>0, <2>2 DEF KeysInv, KeysTypeOK, WrongInv, timeVars, jobVars, Key, Corrected
  <2> QED
    BY <2>0, <2>3, OutsideKeeps
<1> QED
  BY <1>1, <1>2

\* A mail's stamp.
LEMMA MailArrivesKeeps == ASSUME KeysInv, mailArrives PROVE KeysInv'
<1>0. /\ top' \in {trueTime, keyClock}
      /\ UNCHANGED <<timeVars, rows, secret, cache, jobVars, peerVars>>
  BY DEF mailArrives
<1>1. top' \in Int
  BY <1>0, KeyTypes DEF KeysInv
<1>2. KeysTypeOK' /\ WrongInv'
  BY <1>0, <1>1 DEF KeysInv, KeysTypeOK, WrongInv, timeVars, jobVars, peerVars, Key, Corrected
<1> QED
  BY <1>0, <1>2, OutsideKeeps

\* Time passes, and the clock is set wrong or right.
LEMMA ClockKeeps ==
    ASSUME KeysInv, Run \/ \E o \in limit.offset : stepClock(o)
    PROVE  KeysInv'
<1>1. /\ limit' = limit /\ UNCHANGED <<rows, secret, cache, top, jobVars, peerVars>>
      /\ off' \in limit.offset /\ trueTime' \in 0..limit.time /\ wrong' \in 0..Corrected
      /\ WrongInv'
  <2>0. /\ limit.time \in Nat /\ limit.wrong \in Nat /\ trueTime \in 0..limit.time
        /\ wrong \in 0..Corrected /\ WrongInv /\ off \in limit.offset
    BY KeyTypes DEF KeysInv, KeysTypeOK
  <2>1. CASE Run
    BY <2>0, <2>1 DEF Run, WrongInv, Corrected
  <2>2. CASE \E o \in limit.offset : stepClock(o)
    BY <2>0, <2>2 DEF stepClock, WrongInv, Corrected
  <2> QED
    BY <2>1, <2>2
<1>2. KeysTypeOK'
  BY <1>1 DEF KeysInv, KeysTypeOK, jobVars, peerVars, Key, Corrected
<1> QED
  BY <1>1, <1>2, OutsideKeeps

-------------------------------------------------------------------------------
\* Every step keeps the invariant.
LEMMA KeysNextInv == KeysInv /\ [KeysNext]_keyVars => KeysInv'
<1> SUFFICES ASSUME KeysInv, [KeysNext]_keyVars PROVE KeysInv'
  OBVIOUS
<1>1. CASE JobStep
  BY <1>1, RotateKeeps, AnnounceKeeps, CreateLockedKeeps, CreateFailsKeeps, DeleteSecretKeeps,
     DeleteFailsKeeps, MarkDeletedKeeps, SweepLockedKeeps, OnRotateKeeps DEF JobStep
<1>2. CASE KeysWorld
  BY <1>2, MailboxKeyKeeps, PeerKeeps, MailArrivesKeeps, ClockKeeps, DaemonCrashKeeps
  DEF KeysWorld
<1>3. CASE UNCHANGED keyVars
  <2>1. KeysTypeOK' /\ WrongInv' /\ UNCHANGED <<rows, secret, cache, jobVars>>
    BY <1>3 DEF keyVars, jobVars, KeysInv, KeysTypeOK, WrongInv, Key, Corrected
  <2> QED
    BY <2>1, OutsideKeeps
<1> QED
  BY <1>1, <1>2, <1>3 DEF KeysNext

\* The inductive invariant holds in every reachable state of the key store.
THEOREM KeysInvariant == KeysSpec => []KeysInv
BY KeysInitInv, KeysNextInv, PTL DEF KeysSpec

\* Every variable of the key store keeps its type.
THEOREM KeysTypeCorrect == KeysSpec => []KeysTypeOK
BY KeysInvariant, PTL DEF KeysInv

\* The key on offer can decrypt: createLocked stores the private half before the row,
\* and neither sweepLocked nor capVictim deletes the current key's, whatever the clock
\* shows and wherever the job is cut short.
THEOREM CurrentKeyIsUsable == KeysSpec => []CurrentKeyDecrypts
BY KeysInvariant, PTL DEF KeysInv

\* MailboxKey never answers from a private half that deleteKey has deleted.
THEOREM CacheFollowsKeystore == KeysSpec => []CacheIsStored
BY KeysInvariant, PTL DEF KeysInv
===============================================================================
