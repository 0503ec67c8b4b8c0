--------------------------- MODULE MailOutboxProofs ---------------------------
(***************************************************************************)
(* The theorems about the outbox.  MailOutboxInvariant has the steps of    *)
(* the worker and of Retry; the other steps, and what follows from the     *)
(* invariant, are here.                                                    *)
(***************************************************************************)
EXTENDS MailOutboxInvariant

\* Submit seals before its transaction.
LEMMA SealKeeps ==
    ASSUME OInv, NEW m \in Mail, seal(m)
    PROVE  OInv'
<1> USE DEF OInv, rowVars, thrVars, edgeVars, linkVars, histVars
<1>1. OutboxTypeOK'
  BY OutboxConstants DEF seal, OutboxTypeOK
<1>2. ActiveInv'
  BY DEF seal, CanSubmit, OutboxTypeOK, ActiveInv, Busy
<1>3. RowInv' /\ EdgeInv' /\ NoMissedEdge'
  BY RowSame, EdgeSame, NoMissedEdgeSame DEF seal
<1> QED
  BY <1>1, <1>2, <1>3

\* The INSERT of a new row, by Submit or inside the transaction of SubmitTx's caller.
LEMMA InsertKeeps ==
    ASSUME OInv, NEW m \in Mail, NEW key \in 1..MaxKey, NEW at \in 0..MaxDay, insert(m, key, at),
           st[m] = "none", sealing' \subseteq sealing, \A s \in sealing' : s.id # m,
           UNCHANGED <<thrVars, edgeVars, linkVars, day, paired, newest, hot, histVars>>
    PROVE  OInv'
<1> USE OutboxConstants DEF OInv, Open, Final, Thread, thrVars, edgeVars, linkVars, histVars
<1>1. OutboxTypeOK'
  BY DEF insert, OutboxTypeOK, RowState
<1>2. /\ st'[m] = "queued" /\ due'[m] /\ signed'[m] /\ frame'[m] = key /\ keyId'[m] = key
      /\ \A n \in Mail \ {m} : /\ st'[n] = st[n] /\ due'[n] = due[n] /\ signed'[n] = signed[n]
                               /\ frame'[n] = frame[n] /\ keyId'[n] = keyId[n]
  BY DEF insert, OutboxTypeOK
<1>3. RowInv'
  BY <1>2 DEF RowInv, FinalHoldsNothing, OpenRowIsSendable, NoFrame
<1>4. ActiveInv'
  BY <1>2 DEF OutboxTypeOK, ActiveInv, Busy, Frame, Cur
<1>5. EdgeInv'
  BY <1>2 DEF OutboxTypeOK, ActiveInv, EdgeInv, Busy, SameCounts, Cur
<1>6. NoMissedEdge'
  BY <1>2 DEF NoMissedEdge, HookPending, RecheckPending
<1> QED
  BY <1>1, <1>3, <1>4, <1>5, <1>6

\* SubmitTx seals and inserts inside the transaction of its caller.
LEMMA SubmitTxKeeps ==
    ASSUME OInv, NEW m \in Mail, SubmitTx(m)
    PROVE  OInv'
<1>1. newest[To[m]] \in 1..MaxKey /\ day \in 0..MaxDay
  BY OutboxConstants DEF OInv, OutboxTypeOK
<1>2. st[m] = "none" /\ \A s \in sealing' : s.id # m
  BY DEF SubmitTx, CanSubmit, envVars
<1>3. /\ insert(m, newest[To[m]], day) /\ sealing' \subseteq sealing
      /\ UNCHANGED <<thrVars, edgeVars, linkVars, day, paired, newest, hot, histVars>>
  BY DEF SubmitTx, envVars
<1> QED
  BY <1>1, <1>2, <1>3, InsertKeeps

\* Submit inserts what it sealed.
LEMMA SubmitKeeps ==
    ASSUME OInv, NEW s \in sealing, Submit(s)
    PROVE  OInv'
<1>1. s.id \in Mail /\ s.key \in 1..MaxKey /\ s.at \in 0..MaxDay
  BY DEF OInv, OutboxTypeOK
<1>2. st[s.id] = "none" /\ \A r \in sealing' : r.id # s.id
  BY DEF Submit, OInv, ActiveInv
<1>3. /\ insert(s.id, s.key, s.at) /\ sealing' \subseteq sealing
      /\ UNCHANGED <<thrVars, edgeVars, linkVars, day, paired, newest, hot, histVars>>
  BY DEF Submit
<1> QED
  BY <1>1, <1>2, <1>3, InsertKeeps

\* The relay connection comes up.
LEMMA ConnectKeeps ==
    ASSUME OInv, connect
    PROVE  OInv'
<1> USE DEF OInv, rowVars, thrVars, envVars, histVars
<1>1. OutboxTypeOK'
  BY DEF connect, OutboxTypeOK, PCHook
<1>2. NoMissedEdge'
  BY OutboxConstants DEF connect, NoMissedEdge, HookPending, RecheckPending
<1>3. RowInv' /\ ActiveInv' /\ EdgeInv'
  BY RowSame, ActiveSame, EdgeSame DEF connect
<1> QED
  BY <1>1, <1>2, <1>3

\* OnReady counts the edge.
LEMMA OnReadyCountKeeps ==
    ASSUME OInv, onReadyCount
    PROVE  OInv'
<1> USE OutboxConstants DEF OInv, rowVars, thrVars, linkVars, envVars, histVars
<1>1. OutboxTypeOK'
  BY DEF onReadyCount, OutboxTypeOK, PCHook
<1>2. EdgeInv'
  BY DEF onReadyCount, OutboxTypeOK, EdgeInv, Busy, SameCounts, Cur
<1>3. NoMissedEdge'
  BY DEF onReadyCount, OutboxTypeOK, NoMissedEdge, HookPending, RecheckPending
<1>4. RowInv' /\ ActiveInv'
  BY RowSame, ActiveSame DEF onReadyCount
<1> QED
  BY <1>1, <1>2, <1>3, <1>4

\* OnReady makes the queued rows due.
LEMMA OnReadyKeeps ==
    ASSUME OInv, OnReady
    PROVE  OInv'
<1>1. /\ due' \in [Mail -> BOOLEAN] /\ hook' \in PCHook
      /\ \A m \in Mail : due[m] => due'[m]
      /\ \A m \in Mail : due'[m] # due[m] => st[m] \in Open
  BY DEF OInv, OutboxTypeOK, OnReady, sendNow, Open, PCHook
<1>2. \A m \in Mail : st[m] = "queued" => due'[m]
  BY ZenonT(30) DEF OnReady, sendNow
<1> QED
  BY <1>1, <1>2, DueKeeps DEF OnReady

\* The relay connection goes away.
LEMMA DisconnectKeeps ==
    ASSUME OInv, disconnect PROVE OInv'
<1>1. UNCHANGED <<rowVars, thrVars, edgeVars, sealing, histVars>>
  BY DEF disconnect, linkVars, envVars
<1>2. OutboxTypeOK'
  BY ZenonT(30), <1>1, OutboxConstants DEF disconnect,
     OInv, OutboxTypeOK, rowVars, thrVars, edgeVars, linkVars, envVars, histVars
<1> QED
  BY <1>1, <1>2, QuietKeeps

\* OnPeerOnline counts the peer's edge.
LEMMA OnlineCountKeeps ==
    ASSUME OInv, NEW p \in Peer, onlineCount(p)
    PROVE  OInv'
<1> USE OutboxConstants DEF OInv, rowVars, thrVars, linkVars, envVars, histVars
<1>1. OutboxTypeOK'
  BY DEF onlineCount, OutboxTypeOK, PCHook
<1>2. EdgeInv'
  BY DEF onlineCount, OutboxTypeOK, EdgeInv, Busy, SameCounts, Cur
<1>3. NoMissedEdge'
  BY DEF onlineCount, OutboxTypeOK, NoMissedEdge, HookPending, RecheckPending
<1>4. RowInv' /\ ActiveInv'
  BY RowSame, ActiveSame DEF onlineCount
<1> QED
  BY <1>1, <1>2, <1>3, <1>4

\* OnPeerOnline makes the peer's queued rows due.
LEMMA OnPeerOnlineKeeps ==
    ASSUME OInv, NEW p \in Peer, OnPeerOnline(p)
    PROVE  OInv'
<1>1. /\ due' \in [Mail -> BOOLEAN] /\ hook' \in PCHook
      /\ \A m \in Mail : due[m] => due'[m]
      /\ \A m \in Mail : due'[m] # due[m] => st[m] \in Open
  BY DEF OInv, OutboxTypeOK, OnPeerOnline, sendNow, Open, PCHook
<1>2. \A m \in Mail : st[m] = "queued" /\ HookPending(m) => due'[m]
  BY ZenonT(30), OutboxConstants DEF OnPeerOnline, sendNow, HookPending
<1> QED
  BY <1>1, <1>2, DueKeeps DEF OnPeerOnline

\* A relay error either fails the row or queues it again.
LEMMA HandleErrorKeeps ==
    ASSUME OInv, NEW m \in Mail, NEW permanent \in BOOLEAN, HandleError(m, permanent)
    PROVE  OInv'
<1>1. /\ UNCHANGED <<thrVars, edgeVars, connected, sent, day, sealing, paired, newest>>
      /\ wire' \in [Mail -> {"no", "sent", "refused"}]
  BY DEF HandleError, OInv, OutboxTypeOK
<1>2. CASE finish(m, "failed")
  BY <1>1, <1>2, FinishKeeps DEF Final
<1>3. CASE ~permanent
  <2> USE OutboxConstants DEF OInv, Open, Final, Thread, thrVars, edgeVars
  <2>0. /\ st' = [st EXCEPT ![m] = IF @ = "relayed" THEN "queued" ELSE @]
        /\ updated' = [updated EXCEPT ![m] = IF st[m] = "relayed" THEN day ELSE @]
        /\ settled' = [settled EXCEPT ![m] = @ \/ st[m] = "relayed"]
        /\ UNCHANGED <<due, keyId, frame, signed, created, hot, told>>
    BY <1>3 DEF HandleError
  <2>1. /\ st' \in [Mail -> RowState] /\ updated' \in [Mail -> 0..MaxDay]
        /\ settled' \in [Mail -> BOOLEAN]
    BY <2>0 DEF OutboxTypeOK, RowState
  <2>2. OutboxTypeOK'
    BY <1>1, <2>0, <2>1 DEF OutboxTypeOK, NoCur
  <2>3. /\ \A n \in Mail : st'[n] # st[n] => st[n] = "relayed" /\ st'[n] = "queued"
        /\ \A n \in Mail : st'[n] # st[n] => settled'[n]
        /\ \A n \in Mail : settled[n] => settled'[n]
    BY ZenonT(30), <2>0 DEF OutboxTypeOK
  <2>4. RowInv'
    BY <2>0, <2>3 DEF RowInv, FinalHoldsNothing, OpenRowIsSendable
  <2>5. ActiveInv'
    BY <1>1, <2>0, <2>3 DEF OutboxTypeOK, ActiveInv, Busy, Cur, Frame
  <2>6. EdgeInv'
    BY <1>1, <2>3 DEF OutboxTypeOK, EdgeInv, Busy, Cur, SameCounts
  <2>7. NoMissedEdge'
    BY <1>1, <2>0, <2>3 DEF NoMissedEdge, HookPending, RecheckPending
  <2> QED
    BY <2>2, <2>4, <2>5, <2>6, <2>7
<1> QED
  BY <1>2, <1>3 DEF HandleError

\* A day passes.
LEMMA TickKeeps ==
    ASSUME OInv, tick PROVE OInv'
<1>1. UNCHANGED <<rowVars, thrVars, edgeVars, sealing, histVars>>
  BY DEF tick, linkVars, envVars
<1>2. OutboxTypeOK'
  BY <1>1, OutboxConstants DEF tick,
     OInv, OutboxTypeOK, rowVars, thrVars, edgeVars, linkVars, envVars, histVars
<1> QED
  BY <1>1, <1>2, QuietKeeps

\* The backoff of a row ends.
LEMMA BackoffOverKeeps ==
    ASSUME OInv, NEW m \in Mail, backoffOver(m)
    PROVE  OInv'
<1>1. /\ due' \in [Mail -> BOOLEAN] /\ hook' \in PCHook
      /\ \A n \in Mail : due[n] => due'[n]
      /\ \A n \in Mail : due'[n] # due[n] => st[n] \in Open
  BY ZenonT(30) DEF OInv, OutboxTypeOK, backoffOver, edgeVars
<1>2. \A n \in Mail : HookPending(n)' = HookPending(n)
  BY DEF backoffOver, HookPending, edgeVars
<1> QED
  BY ZenonT(30), <1>1, <1>2, DueKeeps DEF backoffOver, edgeVars

\* ResealInterval of a row ends.
LEMMA HourOverKeeps ==
    ASSUME OInv, NEW m \in Mail, hourOver(m) PROVE OInv'
<1>1. UNCHANGED <<rowVars, thrVars, edgeVars, sealing, histVars>>
  BY DEF hourOver, linkVars, envVars
<1>2. OutboxTypeOK'
  BY <1>1, OutboxConstants DEF hourOver,
     OInv, OutboxTypeOK, rowVars, thrVars, edgeVars, linkVars, envVars, histVars
<1> QED
  BY <1>1, <1>2, QuietKeeps

\* Removing a peer fails its open rows.
LEMMA RemoveTxKeeps ==
    ASSUME OInv, NEW p \in Peer, removeTx(p)
    PROVE  OInv'
<1> USE OutboxConstants DEF OInv, Open, Final, Thread, thrVars, edgeVars, linkVars, histVars
<1>1. OutboxTypeOK'
  BY DEF removeTx, clear, OutboxTypeOK, RowState, NoFrame
<1>2. /\ \A n \in Mail : st'[n] # st[n] => st[n] \in Open /\ st'[n] = "failed"
      /\ \A n \in Mail : due'[n] # due[n] => st'[n] = "failed"
  BY DEF removeTx, clear, OutboxTypeOK
<1>3. RowInv'
  BY ZenonT(30) DEF removeTx, clear, OutboxTypeOK, RowInv, FinalHoldsNothing, OpenRowIsSendable
<1>4. ActiveInv'
  BY <1>2 DEF removeTx, OutboxTypeOK, ActiveInv, Frame, Cur, Busy
<1>5. EdgeInv'
  BY <1>2 DEF removeTx, OutboxTypeOK, EdgeInv, Cur, Busy, SameCounts
<1>6. NoMissedEdge'
  BY <1>2 DEF removeTx, NoMissedEdge, HookPending, RecheckPending
<1> QED
  BY <1>1, <1>3, <1>4, <1>5, <1>6

\* The peer is paired again.
LEMMA PairAgainKeeps ==
    ASSUME OInv, NEW p \in Peer, pairAgain(p) PROVE OInv'
<1>1. UNCHANGED <<rowVars, thrVars, edgeVars, sealing, histVars>>
  BY DEF pairAgain, linkVars, envVars
<1>2. OutboxTypeOK'
  BY <1>1, OutboxConstants DEF pairAgain,
     OInv, OutboxTypeOK, rowVars, thrVars, edgeVars, linkVars, envVars, histVars
<1> QED
  BY <1>1, <1>2, QuietKeeps

\* A keys mail replaces the peer's newest mailbox key.
LEMMA AnnounceKeeps ==
    ASSUME OInv, NEW p \in Peer, announce(p) PROVE OInv'
<1>1. UNCHANGED <<rowVars, thrVars, edgeVars, sealing, histVars>>
  BY DEF announce, linkVars, envVars
<1>2. OutboxTypeOK'
  BY <1>1, OutboxConstants DEF announce,
     OInv, OutboxTypeOK, rowVars, thrVars, edgeVars, linkVars, envVars, histVars
<1> QED
  BY <1>1, <1>2, QuietKeeps

\* An ack ends its row.
LEMMA OnAckKeeps ==
    ASSUME OInv, NEW m \in Mail, NEW final \in {"delivered", "failed"}, OnAck(m, final)
    PROVE  OInv'
<1>1. wire' \in [Mail -> {"no", "sent", "refused"}]
  BY DEF OInv, OutboxTypeOK, OnAck, linkVars
<1> QED
  BY <1>1, FinishKeeps DEF OnAck, linkVars, Final

\* A keys mail starts Retry on a set of ids.
LEMMA RetryKeeps ==
    ASSUME OInv, NEW p \in Peer, NEW S \in SUBSET {f.id : f \in sent}, Retry(p, S)
    PROVE  OInv'
<1> USE DEF OInv, Thread, ThreadPC, rowVars, edgeVars, linkVars, envVars, histVars
<1>1. S \subseteq Mail
  BY DEF OutboxTypeOK, Frame
<1>2. /\ pc' \in [Thread -> ThreadPC] /\ pc["receiver"] = "idle" /\ pc'["receiver"] = "pass"
      /\ pc'["worker"] = pc["worker"]
  BY DEF Retry, OutboxTypeOK
<1>3. OutboxTypeOK'
  <2>1. ids' \subseteq Frame
    BY <1>1 DEF Retry, OutboxTypeOK, Frame
  <2> QED
    BY <1>2, <2>1 DEF Retry, OutboxTypeOK
<1>4. ActiveInv' /\ EdgeInv'
  BY <1>2 DEF Retry, ActiveInv, EdgeInv, Busy, SameCounts
<1>5. NoMissedEdge'
  BY <1>2 DEF Retry, NoMissedEdge, HookPending, RecheckPending
<1>6. RowInv'
  BY RowSame DEF Retry
<1> QED
  BY <1>3, <1>4, <1>5, <1>6

\* The process restarts: only the table survives.
LEMMA CrashKeeps ==
    ASSUME OInv, crash
    PROVE  OInv'
<1> USE DEF OInv, Thread, rowVars
<1>1. OutboxTypeOK'
  BY ZenonT(30) DEF crash, OutboxTypeOK, ThreadPC, NoCur, PCHook
<1>2. ActiveInv'
  BY DEF crash, ActiveInv, Busy
<1>3. EdgeInv' /\ NoMissedEdge'
  BY DEF crash, EdgeInv, NoMissedEdge, Busy
<1>4. RowInv'
  BY RowSame DEF crash
<1> QED
  BY <1>1, <1>2, <1>3, <1>4

\* A stuttering step.
LEMMA StutterKeeps == ASSUME OInv, UNCHANGED outboxVars PROVE OInv'
<1>1. OutboxTypeOK'
  BY DEF OInv, OutboxTypeOK, outboxVars, rowVars, thrVars, edgeVars, linkVars, envVars, histVars
<1> QED
  BY <1>1, QuietKeeps DEF outboxVars, envVars

\* Every statement of every goroutine keeps the invariant; one lemma per action.
LEMMA OutboxNextInv == OInv /\ [OutboxNext]_outboxVars => OInv'
<1> SUFFICES ASSUME OInv, [OutboxNext]_outboxVars PROVE OInv'
  OBVIOUS
<1> USE DEF Thread
<1>1. CASE WorkerStep
  BY <1>1, MaintainKeeps, SendDueKeeps, SendRowKeeps, HandOffKeeps, RecordAttemptKeeps,
     RecheckKeeps DEF WorkerStep
<1>2. CASE RetryStep
  BY <1>2, RetrySelectKeeps, RetryUpdateKeeps, HandOffKeeps, RecordAttemptKeeps, RecheckKeeps
     DEF RetryStep
<1>3. CASE SubmitStep
  BY <1>3, SealKeeps, SubmitTxKeeps, SubmitKeeps DEF SubmitStep
<1>4. CASE LinkStep
  BY <1>4, ConnectKeeps, OnReadyCountKeeps, OnReadyKeeps, DisconnectKeeps, OnlineCountKeeps,
     OnPeerOnlineKeeps, HandleErrorKeeps DEF LinkStep
<1>5. CASE TimeStep \/ PeerStep
  BY <1>5, TickKeeps, BackoffOverKeeps, HourOverKeeps, RemoveTxKeeps, PairAgainKeeps,
     AnnounceKeeps DEF TimeStep, PeerStep
<1>6. CASE MailStep \/ crash \/ UNCHANGED outboxVars
  BY <1>6, OnAckKeeps, RetryKeeps, CrashKeeps, StutterKeeps DEF MailStep
<1> QED
  BY <1>1, <1>2, <1>3, <1>4, <1>5, <1>6 DEF OutboxNext

\* The inductive invariant holds in every reachable state of the outbox.
THEOREM OutboxInvariant == OutboxSpec => []OInv
BY OutboxInitInv, OutboxNextInv, PTL DEF OutboxSpec

\* Outbox.insert, finish, send, Retry and the hooks keep every column within its type.
THEOREM OutboxTypeCorrect == OutboxSpec => []OutboxTypeOK
BY OutboxInvariant, PTL DEF OInv

\* Whatever a snapshot or a re-seal in progress knew of it, a row that Outbox.finish,
\* maintain or removeTx ended holds no plaintext and no frame.
THEOREM NothingStaysAtRest == OutboxSpec => []FinalHoldsNothing
BY OutboxInvariant, PTL DEF OInv, RowInv

\* sendDue and Retry always find a frame and a plaintext that belong together.
THEOREM OpenRowsAreSendable == OutboxSpec => []OpenRowIsSendable
BY OutboxInvariant, PTL DEF OInv, RowInv

\* INV-4 of outbox.go: no interleaving of send with OnReady or OnPeerOnline loses an edge.
THEOREM NoEdgeIsMissed == OutboxSpec => []NoMissedEdge
BY OutboxInvariant, PTL DEF OInv

\* A step changes the state of a row that is not final yet, or purges it, and
\* OnFinal speaks only of a row that was open.
StepKeepsFinal ==
    \A n \in Mail :
        /\ told'[n] # told[n] => st[n] \in Open
        /\ st'[n] # st[n] => st[n] \in Open \cup {"none"} \/ st'[n] = "purged"

\* No statement of the outbox or of removeTx leaves a final state except maintain's purge.
LEMMA FinalIsFinal == OInv /\ OutboxNext => StepKeepsFinal
<1> SUFFICES ASSUME OInv, OutboxNext PROVE StepKeepsFinal
  OBVIOUS
<1> USE OutboxConstants DEF OInv, Open, Final, Thread, rowVars, thrVars, edgeVars, linkVars,
   envVars, histVars
<1>1. ASSUME maintain PROVE StepKeepsFinal
  BY <1>1 DEF maintain, report, OutboxTypeOK, ActiveInv, Cur, StepKeepsFinal
<1>2. ASSUME NEW f \in batch, sendRow(f) PROVE StepKeepsFinal
  <2>1. f.id \in Mail
    BY DEF OutboxTypeOK, Frame
  <2>2. CASE finish(f.id, "failed")
    BY <2>1, <2>2, FinishEndsOpenRow DEF StepKeepsFinal
  <2>3. CASE UNCHANGED <<rowVars, hot, histVars>>
    BY <2>3 DEF StepKeepsFinal
  <2> QED
    BY <1>2, <2>2, <2>3 DEF sendRow
<1>3. ASSUME NEW t \in Thread, recordAttempt(t) PROVE StepKeepsFinal
  BY <1>3 DEF recordAttempt, OutboxTypeOK, ActiveInv, Cur, StepKeepsFinal
<1>4. ASSUME NEW m \in Mail, SubmitTx(m) PROVE StepKeepsFinal
  BY <1>4 DEF SubmitTx, CanSubmit, insert, OutboxTypeOK, ActiveInv, Cur, StepKeepsFinal
<1>5. ASSUME NEW s \in sealing, Submit(s) PROVE StepKeepsFinal
  BY <1>5 DEF Submit, insert, OutboxTypeOK, ActiveInv, Cur, StepKeepsFinal
<1>6. ASSUME NEW m \in Mail, NEW permanent \in BOOLEAN, HandleError(m, permanent) PROVE StepKeepsFinal
  <2>1. CASE finish(m, "failed")
    BY <2>1, FinishEndsOpenRow DEF StepKeepsFinal
  <2>2. CASE UNCHANGED told /\ st' = [st EXCEPT ![m] = IF @ = "relayed" THEN "queued" ELSE @]
    BY <2>2 DEF OutboxTypeOK, StepKeepsFinal
  <2> QED
    BY <1>6, <2>1, <2>2 DEF HandleError
<1>7. ASSUME NEW p \in Peer, removeTx(p) PROVE StepKeepsFinal
  BY <1>7 DEF removeTx, OutboxTypeOK, ActiveInv, Cur, StepKeepsFinal
<1>8. ASSUME NEW m \in Mail, NEW final \in {"delivered", "failed"}, OnAck(m, final) PROVE StepKeepsFinal
  BY <1>8, FinishEndsOpenRow DEF OnAck, StepKeepsFinal
<1>9. CASE UNCHANGED <<st, told>>
  BY <1>9 DEF StepKeepsFinal
<1> QED
  BY ZenonT(30), <1>1, <1>2, <1>3, <1>4, <1>5, <1>6, <1>7, <1>8, <1>9
     DEF OutboxNext, WorkerStep, RetryStep, SubmitStep, LinkStep, TimeStep, PeerStep, MailStep,
         sendDue, handOff, recheck, retrySelect, retryUpdate, seal, connect, onReadyCount, OnReady,
         disconnect, onlineCount, OnPeerOnline, tick, backoffOver, hourOver, pairAgain, announce,
         Retry, crash

\* What OnFinal reported stays true: a late ack, expiry or refusal changes no final row.
THEOREM ReportsStand == OutboxSpec => ReportedStateStands
<1> DEFINE Kept == \A m \in Mail :
                      /\ told[m] # "none" => told'[m] = told[m]
                      /\ st[m] \in Final => st'[m] \in {st[m], "purged"}
<1>1. OInv /\ [OutboxNext]_outboxVars => [Kept]_outboxVars
  <2> SUFFICES ASSUME OInv, OutboxNext PROVE Kept
    OBVIOUS
  <2>1. StepKeepsFinal
    BY FinalIsFinal
  <2> QED
    BY <2>1 DEF StepKeepsFinal, OInv, ActiveInv, OutboxTypeOK, RowState, Open, Final
<1> QED
  BY <1>1, OutboxInvariant, PTL DEF OutboxSpec, ReportedStateStands

===============================================================================
