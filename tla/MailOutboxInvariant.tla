--------------------------- MODULE MailOutboxInvariant ------------------------
(***************************************************************************)
(* Proof of the outbox's invariants for every set of mails and peers.      *)
(*                                                                         *)
(* NoMissedEdge is not inductive by itself: a hand-off in its last step    *)
(* compares the counts it loaded with the present ones.  EdgeInv adds that *)
(* loaded counts are never ahead of the present ones, and that equal       *)
(* counts mean that the row was marked settled by the UPDATE before.       *)
(***************************************************************************)
EXTENDS MailOutbox, TLAPS

Busy(t) == pc[t] \notin {"idle", "pass"}

SameCounts(t) == cur[t].ready = ready /\ cur[t].online = online[To[cur[t].id]]

\* Which rows a goroutine may be working on, and what OnFinal may have said.
ActiveInv ==
    /\ pc["worker"] # "reseal"
    /\ \A t \in Thread : Busy(t) => st[cur[t].id] # "none"
    /\ \A f \in batch : st[f.id] # "none"
    /\ \A s \in sealing : st[s.id] = "none"
    /\ \A s, r \in sealing : s.id = r.id => s = r
    /\ \A m \in Mail : told[m] # "none" => st[m] \in {told[m], "purged"}

EdgeInv ==
    /\ \A t \in Thread : Busy(t) =>
          cur[t].ready <= ready /\ cur[t].online <= online[To[cur[t].id]]
    /\ \A t \in Thread :
          pc[t] = "recheck" /\ SameCounts(t) /\ st[cur[t].id] \in Open => settled[cur[t].id]

RowInv == FinalHoldsNothing /\ OpenRowIsSendable

OInv == OutboxTypeOK /\ RowInv /\ ActiveInv /\ EdgeInv /\ NoMissedEdge

-------------------------------------------------------------------------------
\* A fresh outbox satisfies the inductive invariant.
LEMMA OutboxInitInv == OutboxInit => OInv
<1> SUFFICES ASSUME OutboxInit PROVE OInv
  OBVIOUS
<1> USE OutboxConstants DEF OutboxInit, NoFrame, Open, Final, Thread, ThreadPC, NoCur
<1>1. /\ st \in [Mail -> RowState] /\ due \in [Mail -> BOOLEAN]
      /\ keyId \in [Mail -> 0..MaxKey] /\ frame \in [Mail -> 0..MaxKey]
      /\ signed \in [Mail -> BOOLEAN]
      /\ created \in [Mail -> 0..MaxDay] /\ updated \in [Mail -> 0..MaxDay]
      /\ day \in 0..MaxDay /\ newest \in [Peer -> 1..MaxKey]
  BY DEF RowState
<1>5. OutboxTypeOK
  BY ZenonT(30), <1>1 DEF OutboxTypeOK, PCHook
<1>2. RowInv
  BY DEF RowInv, FinalHoldsNothing, OpenRowIsSendable
<1>3. ActiveInv
  BY DEF ActiveInv, Busy
<1>4. EdgeInv /\ NoMissedEdge
  BY DEF EdgeInv, NoMissedEdge, Busy, SameCounts
<1> QED
  BY <1>2, <1>3, <1>4, <1>5 DEF OInv

\* The UPDATE of Outbox.finish ends an open row and leaves any other as it is.
LEMMA FinishEndsOpenRow ==
    ASSUME OInv, NEW m \in Mail, NEW final \in Final, finish(m, final)
    PROVE  /\ st' \in [Mail -> RowState] /\ due' \in [Mail -> BOOLEAN]
           /\ keyId' \in [Mail -> 0..MaxKey] /\ frame' \in [Mail -> 0..MaxKey]
           /\ signed' \in [Mail -> BOOLEAN]
           /\ created' \in [Mail -> 0..MaxDay] /\ updated' \in [Mail -> 0..MaxDay]
           /\ hot' \subseteq Mail /\ settled' = settled /\ told' \in [Mail -> {"none"} \cup Final]
           /\ \A n \in Mail : st'[n] # st[n] => n = m /\ st[n] \in Open /\ st'[n] = final
           /\ \A n \in Mail : told'[n] # told[n] => st[n] \in Open /\ st'[n] = told'[n]
           /\ \A n \in Mail : due'[n] # due[n] => st'[n] \in Final
           /\ RowInv'
<1> USE OutboxConstants DEF OInv, NoFrame, Open, Final
<1> DEFINE Ends == {m} \cap {n \in Mail : st[n] \in Open}
<1>1. /\ st' = [st EXCEPT ![m] = IF m \in Ends THEN final ELSE @]
      /\ clear(Ends) /\ report(Ends, final)
  BY DEF finish
<1>2. /\ st' \in [Mail -> RowState]
      /\ \A n \in Mail : st'[n] = IF n \in Ends THEN final ELSE st[n]
  BY <1>1 DEF OutboxTypeOK, RowState
<1> HIDE DEF Ends
<1>3. /\ due' \in [Mail -> BOOLEAN]
      /\ keyId' \in [Mail -> 0..MaxKey] /\ frame' \in [Mail -> 0..MaxKey]
      /\ signed' \in [Mail -> BOOLEAN]
      /\ created' \in [Mail -> 0..MaxDay] /\ updated' \in [Mail -> 0..MaxDay]
      /\ hot' \subseteq Mail /\ settled' = settled /\ told' \in [Mail -> {"none"} \cup Final]
  BY <1>1 DEF OutboxTypeOK, clear, report
<1>4. FinalHoldsNothing'
  BY ZenonT(30), <1>1, <1>2, <1>3 DEF OutboxTypeOK, RowInv, FinalHoldsNothing, clear
<1>5. OpenRowIsSendable'
  BY <1>1, <1>2, <1>3 DEF OutboxTypeOK, RowInv, OpenRowIsSendable, clear
<1>6. \A n \in Mail : told'[n] # told[n] => st[n] \in Open /\ st'[n] = told'[n]
  BY <1>1, <1>2 DEF OutboxTypeOK, report, Ends
<1>7. \A n \in Mail : due'[n] # due[n] => st'[n] \in Final
  BY <1>1, <1>2 DEF OutboxTypeOK, clear
<1>8. \A n \in Mail : st'[n] # st[n] => n = m /\ st[n] \in Open /\ st'[n] = final
  BY <1>2 DEF Ends
<1> QED
  BY <1>2, <1>3, <1>4, <1>5, <1>6, <1>7, <1>8 DEF RowInv

-------------------------------------------------------------------------------
\* Each conjunct of the invariant depends on some of the variables only.
LEMMA RowSame ==
    ASSUME RowInv, UNCHANGED <<st, due, keyId, frame, signed>> PROVE RowInv'
  BY DEF RowInv, FinalHoldsNothing, OpenRowIsSendable

\* What is known of the rows that goroutines hold, when neither changes.
LEMMA ActiveSame ==
    ASSUME ActiveInv, UNCHANGED <<st, pc, cur, batch, sealing, told>> PROVE ActiveInv'
  BY DEF ActiveInv, Busy

\* What is known of loaded edge counts, when no count changes.
LEMMA EdgeSame ==
    ASSUME EdgeInv, UNCHANGED <<st, pc, cur, ready, online, settled>> PROVE EdgeInv'
  BY DEF EdgeInv, Busy, SameCounts

\* INV-4, when no row, hand-off or hook changes.
LEMMA NoMissedEdgeSame ==
    ASSUME NoMissedEdge, UNCHANGED <<st, due, pc, cur, hook, settled>> PROVE NoMissedEdge'
  BY DEF NoMissedEdge, HookPending, RecheckPending

\* A step of the clock, the link or the peer table touches no row and no goroutine.
LEMMA QuietKeeps ==
    ASSUME OInv, UNCHANGED <<rowVars, thrVars, edgeVars, sealing, histVars>>, OutboxTypeOK'
    PROVE  OInv'
  BY RowSame, ActiveSame, EdgeSame, NoMissedEdgeSame
     DEF OInv, rowVars, thrVars, edgeVars, histVars

\* Outbox.finish keeps the invariant, whoever calls it.
LEMMA FinishKeeps ==
    ASSUME OInv, NEW m \in Mail, NEW final \in Final, finish(m, final),
           wire' \in [Mail -> {"no", "sent", "refused"}],
           UNCHANGED <<thrVars, edgeVars, connected, sent, day, sealing, paired, newest>>
    PROVE  OInv'
<1> USE OutboxConstants DEF OInv, Open, Final, Thread, thrVars, edgeVars
<1>1. /\ \A n \in Mail : st'[n] # st[n] => st[n] \in Open /\ st'[n] = final
      /\ \A n \in Mail : told'[n] # told[n] => st[n] \in Open /\ st'[n] = told'[n]
      /\ \A n \in Mail : due'[n] # due[n] => st'[n] \in Final
      /\ settled' = settled /\ RowInv'
  BY FinishEndsOpenRow
<1>2. OutboxTypeOK'
  BY FinishEndsOpenRow DEF OutboxTypeOK, NoCur
<1>3. ActiveInv'
  BY <1>1 DEF OutboxTypeOK, ActiveInv, Frame, Cur, Busy
<1>4. EdgeInv'
  BY <1>1 DEF OutboxTypeOK, EdgeInv, Cur, Busy, SameCounts
<1>5. NoMissedEdge'
  BY <1>1 DEF OutboxTypeOK, NoMissedEdge, HookPending, RecheckPending
<1> QED
  BY <1>1, <1>2, <1>3, <1>4, <1>5

\* A statement that only makes open rows due keeps the invariant, if the hook that
\* ends with it has made the queued rows due that it was pending for.
LEMMA DueKeeps ==
    ASSUME OInv, UNCHANGED <<st, keyId, frame, signed, created, updated>>,
           UNCHANGED <<thrVars, ready, online, linkVars, envVars, histVars>>,
           hook' \in PCHook, due' \in [Mail -> BOOLEAN],
           \A m \in Mail : due[m] => due'[m],
           \A m \in Mail : due'[m] # due[m] => st[m] \in Open,
           \A m \in Mail : st[m] = "queued" /\ HookPending(m) => HookPending(m)' \/ due'[m]
    PROVE  OInv'
<1> USE DEF thrVars, linkVars, envVars, histVars
<1>1. OutboxTypeOK'
  BY DEF OInv, OutboxTypeOK
<1>2. RowInv'
  BY DEF OInv, RowInv, FinalHoldsNothing, OpenRowIsSendable, OutboxTypeOK, Open, Final
<1>3. ActiveInv'
  BY ActiveSame DEF OInv
<1>4. EdgeInv'
  BY EdgeSame DEF OInv
<1>5. \A m \in Mail : RecheckPending(m)' = RecheckPending(m)
  BY DEF RecheckPending
<1>6. NoMissedEdge'
  BY <1>5 DEF OInv, NoMissedEdge
<1> QED
  BY <1>1, <1>2, <1>3, <1>4, <1>6 DEF OInv

\* A step in which one goroutine only moves on (sendDue, Retry, a SELECT, the hand-off)
\* keeps the invariant: it holds a stored row and counts that are not ahead.
LEMMA MoveKeeps ==
    ASSUME OInv, OutboxTypeOK', RowInv', NEW t \in Thread,
           UNCHANGED <<st, due, edgeVars, sealing, histVars>>,
           \A f \in batch' : st[f.id] # "none",
           pc'["worker"] # "reseal", pc[t] # "recheck", pc'[t] # "recheck",
           \A u \in Thread \ {t} : pc'[u] = pc[u] /\ cur'[u] = cur[u],
           Busy(t)' => /\ st[cur'[t].id] # "none"
                       /\ cur'[t].ready <= ready /\ cur'[t].online <= online[To[cur'[t].id]]
    PROVE  OInv'
<1> USE DEF OInv, edgeVars, histVars
<1>1. ActiveInv'
  BY DEF ActiveInv, Busy
<1>2. EdgeInv'
  BY DEF EdgeInv, Busy, SameCounts
<1>3. NoMissedEdge'
  BY DEF NoMissedEdge, HookPending, RecheckPending
<1> QED
  BY <1>1, <1>2, <1>3

\* maintain expires open rows and purges old final ones in two statements of one step.
LEMMA MaintainKeeps ==
    ASSUME OInv, maintain
    PROVE  OInv'
<1> USE OutboxConstants DEF OInv, Open, Final, Thread, thrVars, edgeVars, linkVars
<1>1. OutboxTypeOK'
  BY DEF maintain, clear, report, OutboxTypeOK, RowState, NoFrame, NoCur
<1>2. /\ \A n \in Mail : st'[n] # st[n] => \/ st[n] \in Open /\ st'[n] = "expired"
                                           \/ st[n] \in Final /\ st'[n] = "purged"
      /\ \A n \in Mail : told'[n] # told[n] => st[n] \in Open /\ st'[n] = told'[n]
      /\ \A n \in Mail : due'[n] # due[n] => st'[n] = "expired"
      /\ settled' = settled
  BY DEF maintain, clear, report, OutboxTypeOK
<1>3. RowInv'
  BY ZenonT(30) DEF maintain, clear, OutboxTypeOK, RowInv, FinalHoldsNothing, OpenRowIsSendable
<1>4. ActiveInv'
  BY <1>2 DEF maintain, OutboxTypeOK, ActiveInv, Frame, Cur, Busy
<1>5. EdgeInv'
  BY <1>2 DEF maintain, OutboxTypeOK, EdgeInv, Cur, Busy, SameCounts
<1>6. NoMissedEdge'
  BY <1>2 DEF maintain, NoMissedEdge, HookPending, RecheckPending
<1> QED
  BY <1>1, <1>3, <1>4, <1>5, <1>6

\* The SELECT of sendDue takes a snapshot of due rows.
LEMMA SendDueKeeps ==
    ASSUME OInv, sendDue
    PROVE  OInv'
<1> USE DEF OInv, Thread, rowVars, edgeVars, linkVars, envVars, histVars
<1>1. \A f \in batch' : f \in Frame /\ st[f.id] # "none"
  BY OutboxConstants DEF sendDue, OutboxTypeOK, RowInv, OpenRowIsSendable, Frame, Open, NoFrame
<1>2. /\ pc["worker"] = "idle" /\ pc'["worker"] = "pass" /\ pc'["receiver"] = pc["receiver"]
      /\ pc' \in [Thread -> ThreadPC]
  BY DEF sendDue, OutboxTypeOK, ThreadPC
<1>3. OutboxTypeOK'
  BY <1>1, <1>2 DEF sendDue, OutboxTypeOK
<1>4. RowInv'
  BY RowSame DEF sendDue
<1> QED
  BY <1>1, <1>2, <1>3, <1>4, MoveKeeps DEF sendDue, Busy

\* sendDue either fails a row of an unpaired peer or starts its hand-off.
LEMMA SendRowKeeps ==
    ASSUME OInv, NEW f \in batch, sendRow(f)
    PROVE  OInv'
<1> USE OutboxConstants DEF OInv, Thread, edgeVars, linkVars
<1>0. /\ pc["worker"] = "pass" /\ batch' = batch \ {f}
      /\ UNCHANGED <<ids, edgeVars, linkVars, day, sealing, paired, newest>>
  BY DEF sendRow
<1>1. f.id \in Mail /\ f.key \in 1..MaxKey /\ st[f.id] # "none"
  BY DEF OutboxTypeOK, Frame, ActiveInv
<1>2. CASE finish(f.id, "failed") /\ pc' = [pc EXCEPT !["worker"] = NextPC(batch')] /\ UNCHANGED cur
  <2>1. /\ pc' \in [Thread -> ThreadPC] /\ pc'["worker"] \in {"idle", "pass"}
        /\ pc'["receiver"] = pc["receiver"]
    BY <1>2 DEF OutboxTypeOK, NextPC, ThreadPC
  <2>2. /\ \A n \in Mail : st'[n] # st[n] => st[n] \in Open /\ st'[n] = "failed"
        /\ \A n \in Mail : told'[n] # told[n] => st'[n] = told'[n]
        /\ \A n \in Mail : due'[n] # due[n] => st'[n] \in Final
        /\ settled' = settled /\ RowInv'
    BY <1>1, <1>2, FinishEndsOpenRow DEF Final
  <2>3. OutboxTypeOK'
    BY <1>0, <1>1, <1>2, <2>1, FinishEndsOpenRow DEF OutboxTypeOK, Final
  <2>4. ActiveInv'
    <3>1. \A u \in Thread : Busy(u)' => Busy(u) /\ cur'[u] = cur[u] /\ cur[u].id \in Mail
      BY <1>0, <1>2, <2>1 DEF OutboxTypeOK, Busy, Cur
    <3>2. \A n \in Mail : st[n] # "none" => st'[n] # "none"
      BY <2>2
    <3>3. \A n \in Mail : st[n] = "none" => st'[n] = "none"
      BY <2>2 DEF Open
    <3>4. \A g \in batch' \cup batch : g.id \in Mail
      BY <1>0 DEF OutboxTypeOK, Frame
    <3>5. \A s \in sealing : s.id \in Mail
      BY DEF OutboxTypeOK
    <3>6. \A n \in Mail : told'[n] # "none" => st'[n] \in {told'[n], "purged"}
      BY <2>2 DEF OutboxTypeOK, ActiveInv, Open, Final
    <3>7. \A u \in Thread : Busy(u)' => st'[cur'[u].id] # "none"
      BY <3>1, <3>2 DEF ActiveInv
    <3>8. \A g \in batch' : st'[g.id] # "none"
      BY <1>0, <3>2, <3>4 DEF ActiveInv
    <3>9. /\ \A s \in sealing' : st'[s.id] = "none"
          /\ \A s, r \in sealing' : s.id = r.id => s = r
      BY <1>0, <3>3, <3>5 DEF ActiveInv
    <3>10. pc'["worker"] # "reseal"
      BY <2>1
    <3> QED
      BY <3>6, <3>7, <3>8, <3>9, <3>10 DEF ActiveInv
  <2>5. EdgeInv'
    BY <1>0, <1>2, <2>1, <2>2 DEF OutboxTypeOK, EdgeInv, Cur, Busy, SameCounts, Open
  <2>6. NoMissedEdge'
    <3>1. \A n \in Mail : RecheckPending(n)' = RecheckPending(n) /\ HookPending(n)' = HookPending(n)
      BY <1>0, <1>2, <2>1 DEF HookPending, RecheckPending
    <3> QED
      BY <2>2, <3>1 DEF NoMissedEdge, Final
  <2> QED
    BY <2>2, <2>3, <2>4, <2>5, <2>6
<1>3. CASE /\ cur' = [cur EXCEPT !["worker"] = Loaded(f, f.key)]
           /\ pc' = [pc EXCEPT !["worker"] = "send"]
           /\ UNCHANGED <<rowVars, hot, histVars>>
  <2> DEFINE L == Loaded(f, f.key)
  <2>1. L \in Cur /\ L.id = f.id /\ L.ready = ready /\ L.online = online[To[f.id]]
    BY <1>1 DEF Loaded, Cur, OutboxTypeOK
  <2> HIDE DEF L
  <2>2. /\ pc' \in [Thread -> ThreadPC] /\ pc'["worker"] = "send" /\ pc'["receiver"] = pc["receiver"]
        /\ DOMAIN cur' = Thread /\ cur'["worker"] = L /\ cur'["receiver"] = cur["receiver"]
    BY <1>3 DEF OutboxTypeOK, ThreadPC, L
  <2>3. OutboxTypeOK'
    BY <1>0, <1>3, <2>1, <2>2 DEF OutboxTypeOK, rowVars, histVars
  <2>4. RowInv'
    BY <1>3, RowSame DEF rowVars
  <2>5. online[To[f.id]] \in Nat /\ ready \in Nat /\ \A g \in batch' : st[g.id] # "none"
    BY <1>0, <1>1 DEF OutboxTypeOK, ActiveInv
  <2>6. /\ pc["worker"] # "recheck" /\ pc'["worker"] \notin {"recheck", "reseal"}
        /\ \A u \in Thread \ {"worker"} : pc'[u] = pc[u] /\ cur'[u] = cur[u]
    BY <1>0, <2>2 DEF Thread
  <2>7. /\ st[cur'["worker"].id] # "none" /\ cur'["worker"].ready <= ready
        /\ cur'["worker"].online <= online[To[cur'["worker"].id]]
    BY <1>1, <2>1, <2>2, <2>5
  <2>8. UNCHANGED <<st, due, edgeVars, sealing, histVars>>
    BY <1>0, <1>3 DEF rowVars, histVars
  <2> QED
    BY <2>3, <2>4, <2>5, <2>6, <2>7, <2>8, MoveKeeps DEF Thread
<1> QED
  BY <1>2, <1>3 DEF sendRow

-------------------------------------------------------------------------------
(* Outbox.send and Outbox.Retry: the hand-off, its UPDATE, the second look at *)
(* the edge counters, and the SELECT and UPDATE around a re-seal.             *)

\* The relay client accepts or refuses the frame.
LEMMA HandOffKeeps ==
    ASSUME OInv, NEW t \in Thread, NEW ok \in BOOLEAN, handOff(t, ok)
    PROVE  OInv'
<1> USE DEF OInv, rowVars, edgeVars, envVars, histVars
<1>1. pc[t] = "send" /\ cur[t] \in Cur
  BY DEF handOff, OutboxTypeOK
<1>2. /\ pc' \in [Thread -> ThreadPC] /\ pc'[t] = "update" /\ DOMAIN cur' = Thread
      /\ cur'[t] \in Cur /\ cur'[t].id = cur[t].id /\ cur'[t].ready = cur[t].ready
      /\ cur'[t].online = cur[t].online
      /\ \A u \in Thread \ {t} : pc'[u] = pc[u] /\ cur'[u] = cur[u]
  BY <1>1 DEF handOff, OutboxTypeOK, ThreadPC, Cur
<1>3. sent' \subseteq Frame /\ wire' \in [Mail -> {"no", "sent", "refused"}]
  BY <1>1 DEF handOff, OutboxTypeOK, Frame, Cur
<1>4. OutboxTypeOK'
  BY <1>1, <1>2, <1>3 DEF handOff, OutboxTypeOK
<1>5. RowInv'
  BY RowSame DEF handOff
<1>6. /\ st[cur[t].id] # "none" /\ cur[t].ready <= ready /\ cur[t].online <= online[To[cur[t].id]]
      /\ pc["worker"] # "reseal" /\ \A f \in batch : st[f.id] # "none"
  BY <1>1 DEF ActiveInv, EdgeInv, Busy, handOff
<1>7. pc'["worker"] # "reseal"
  BY <1>2, <1>6 DEF Thread
<1> QED
  BY <1>1, <1>2, <1>4, <1>5, <1>6, <1>7, MoveKeeps DEF handOff

\* The UPDATE after a hand-off, guarded by the state the row has by then.
LEMMA RecordAttemptKeeps ==
    ASSUME OInv, NEW t \in Thread, recordAttempt(t)
    PROVE  OInv'
<1> USE OutboxConstants DEF OInv, Open, Thread, edgeVars, linkVars, envVars, histVars
<1>0. /\ pc[t] = "update" /\ cur[t] \in Cur
      /\ UNCHANGED <<keyId, frame, signed, created, batch, ids, edgeVars, linkVars, envVars, told>>
  BY DEF recordAttempt, OutboxTypeOK
<1>1. /\ st' \in [Mail -> RowState] /\ due' \in [Mail -> BOOLEAN]
      /\ updated' \in [Mail -> 0..MaxDay] /\ settled' \in [Mail -> BOOLEAN]
  BY <1>0 DEF recordAttempt, OutboxTypeOK, RowState, Cur
<1>2. /\ \A n \in Mail : st'[n] # st[n] => n = cur[t].id /\ st[n] \in Open /\ st'[n] = "relayed"
      /\ \A n \in Mail : due'[n] # due[n] => n = cur[t].id /\ st[n] \in Open /\ ~due'[n]
      /\ \A n \in Mail : settled[n] => settled'[n]
      /\ st[cur[t].id] \in Open /\ SameCounts(t) => settled'[cur[t].id]
  <2> DEFINE c == cur[t]
  <2>1. /\ c.id \in Mail
        /\ st' = [st EXCEPT ![c.id] = IF st[c.id] \in Open /\ c.ok THEN "relayed" ELSE @]
        /\ due' = [due EXCEPT ![c.id] = @ /\ ~(st[c.id] \in Open)]
        /\ settled' = [settled EXCEPT ![c.id] = @ \/ (st[c.id] \in Open /\ c.ready = ready
                                                      /\ c.online = online[To[c.id]])]
    BY <1>0 DEF recordAttempt, Cur
  <2> HIDE DEF c
  <2>2. \A n \in Mail : st'[n] # st[n] => n = c.id /\ st[n] \in Open /\ st'[n] = "relayed"
    BY <2>1 DEF OutboxTypeOK
  <2>3. \A n \in Mail : due'[n] # due[n] => n = c.id /\ st[n] \in Open /\ ~due'[n]
    BY ZenonT(30), <2>1 DEF OutboxTypeOK
  <2>4. /\ \A n \in Mail : settled[n] => settled'[n]
        /\ st[c.id] \in Open /\ c.ready = ready /\ c.online = online[To[c.id]] => settled'[c.id]
    BY ZenonT(30), <2>1 DEF OutboxTypeOK
  <2> QED
    BY <2>2, <2>3, <2>4 DEF c, SameCounts
<1>3. /\ pc' \in [Thread -> ThreadPC] /\ DOMAIN cur' = Thread
      /\ \/ pc'[t] \in {"idle", "pass"} /\ cur'[t] = NoCur /\ cur[t].ok
         \/ pc'[t] = "recheck" /\ cur'[t] = cur[t] /\ ~cur[t].ok
      /\ \A u \in Thread \ {t} : pc'[u] = pc[u] /\ cur'[u] = cur[u]
  BY DEF recordAttempt, OutboxTypeOK, NextPC, Rest, ThreadPC
<1>4. OutboxTypeOK'
  BY <1>0, <1>1, <1>3 DEF OutboxTypeOK
<1>5. RowInv'
  BY <1>0, <1>1, <1>2 DEF RowInv, FinalHoldsNothing, OpenRowIsSendable, Final
<1>6. ActiveInv'
  BY <1>0, <1>1, <1>2, <1>3 DEF OutboxTypeOK, ActiveInv, Busy, Cur, Frame, Final
<1>7. EdgeInv'
  <2>1. \A u \in Thread : Busy(u)' => Busy(u) /\ cur'[u] = cur[u] /\ cur[u].id \in Mail
    BY <1>0, <1>3 DEF OutboxTypeOK, Busy, Cur
  <2>2. \A u \in Thread : pc'[u] = "recheck" => cur'[u] = cur[u] /\ (u = t \/ pc[u] = "recheck")
    BY <1>3
  <2>3. \A n \in Mail : st'[n] \in Open => st[n] \in Open
    BY <1>2
  <2>4. \A u \in Thread : SameCounts(u)' /\ cur'[u] = cur[u] => SameCounts(u)
    BY <1>0 DEF SameCounts
  <2>5. \A u \in Thread : pc'[u] = "recheck" => Busy(u)'
    BY DEF Busy
  <2>6. \A u \in Thread : pc'[u] = "recheck" /\ SameCounts(u)' /\ st'[cur'[u].id] \in Open
                         => settled'[cur'[u].id]
    BY <1>2, <2>1, <2>2, <2>3, <2>4, <2>5 DEF EdgeInv
  <2>7. \A u \in Thread : Busy(u)' =>
            cur'[u].ready <= ready' /\ cur'[u].online <= online'[To[cur'[u].id]]
    BY <1>0, <2>1 DEF EdgeInv
  <2> QED
    BY <2>6, <2>7 DEF EdgeInv
<1>8. ASSUME NEW n \in Mail, st'[n] = "queued", ~due'[n], ~HookPending(n)', ~RecheckPending(n)'
      PROVE  settled'[n]
  <2>1. CASE n # cur[t].id
    BY <1>0, <1>2, <1>3, <1>8, <2>1 DEF NoMissedEdge, HookPending, RecheckPending
  <2>2. CASE n = cur[t].id
    <3>1. pc'[t] # "recheck"
      BY <1>3, <1>8, <2>2 DEF RecheckPending
    <3>2. st'[n] = "relayed"
      BY <1>0, <1>2, <1>3, <1>8, <2>2, <3>1 DEF recordAttempt, OutboxTypeOK, Cur
    <3> QED
      BY <1>8, <3>2
  <2> QED
    BY <2>1, <2>2
<1> QED
  BY <1>4, <1>5, <1>6, <1>7, <1>8 DEF NoMissedEdge

\* The second look of a failed hand-off at the edge counters.
LEMMA RecheckKeeps ==
    ASSUME OInv, NEW t \in Thread, recheck(t)
    PROVE  OInv'
<1> USE OutboxConstants DEF OInv, Open, Thread, edgeVars, linkVars, envVars, histVars
<1>0. /\ pc[t] = "recheck" /\ cur[t] \in Cur
      /\ UNCHANGED <<st, keyId, frame, signed, created, updated, batch, ids>>
      /\ UNCHANGED <<edgeVars, linkVars, envVars, histVars>>
  BY DEF recheck, OutboxTypeOK
<1>1. /\ due' \in [Mail -> BOOLEAN]
      /\ \A n \in Mail : due'[n] # due[n] => st[n] = "queued" /\ due'[n]
      /\ st[cur[t].id] = "queued" /\ ~SameCounts(t) => due'[cur[t].id]
      /\ \A n \in Mail : due[n] => due'[n]
  <2> DEFINE c == cur[t]
             edge == c.ready # ready \/ c.online # online[To[c.id]]
  <2>1. c.id \in Mail /\ due' = [due EXCEPT ![c.id] = @ \/ (edge /\ st[c.id] = "queued")]
    BY <1>0 DEF recheck, Cur
  <2>2. ~SameCounts(t) <=> edge
    BY DEF SameCounts
  <2>3. edge \in BOOLEAN
    OBVIOUS
  <2> HIDE DEF c, edge
  <2>4. due' \in [Mail -> BOOLEAN]
    BY <2>1, <2>3 DEF OutboxTypeOK
  <2>5. /\ \A n \in Mail : due'[n] # due[n] => st[n] = "queued" /\ due'[n]
        /\ \A n \in Mail : due[n] => due'[n]
        /\ st[c.id] = "queued" /\ edge => due'[c.id]
    BY <2>1, <2>3 DEF OutboxTypeOK
  <2> QED
    BY <2>2, <2>4, <2>5 DEF c
<1>2. /\ pc' \in [Thread -> ThreadPC] /\ DOMAIN cur' = Thread
      /\ pc'[t] \in {"idle", "pass"} /\ cur'[t] = NoCur
      /\ \A u \in Thread \ {t} : pc'[u] = pc[u] /\ cur'[u] = cur[u]
  BY DEF recheck, OutboxTypeOK, NextPC, Rest, ThreadPC
<1>3. OutboxTypeOK'
  BY <1>0, <1>1, <1>2 DEF OutboxTypeOK
<1>4. RowInv'
  BY <1>0, <1>1 DEF RowInv, FinalHoldsNothing, OpenRowIsSendable, Final
<1>5. ActiveInv'
  BY <1>0, <1>2 DEF ActiveInv, Busy
<1>6. EdgeInv'
  BY <1>0, <1>2 DEF EdgeInv, Busy, SameCounts
<1>7. ASSUME NEW n \in Mail, st'[n] = "queued", ~due'[n], ~HookPending(n)', ~RecheckPending(n)'
      PROVE  settled'[n]
  <2>1. CASE n # cur[t].id
    BY <1>0, <1>1, <1>2, <1>7, <2>1 DEF NoMissedEdge, HookPending, RecheckPending
  <2>2. CASE n = cur[t].id
    BY <1>0, <1>1, <1>7, <2>2 DEF EdgeInv
  <2> QED
    BY <2>1, <2>2
<1> QED
  BY <1>3, <1>4, <1>5, <1>6, <1>7 DEF NoMissedEdge

\* Retry's SELECT of one row, and the re-seal that follows it.
LEMMA RetrySelectKeeps ==
    ASSUME OInv, NEW f \in ids, retrySelect(f)
    PROVE  OInv'
<1> USE OutboxConstants DEF OInv, Thread, edgeVars, linkVars, envVars, histVars
<1>0. /\ pc["receiver"] = "pass" /\ ids' = ids \ {f} /\ f.id \in Mail /\ f.key \in 1..MaxKey
      /\ UNCHANGED <<rowVars, batch, edgeVars, linkVars, envVars, histVars>>
  BY DEF retrySelect, OutboxTypeOK, Frame
<1>1. RowInv'
  BY <1>0, RowSame DEF rowVars
<1>2. pc["worker"] # "reseal" /\ \A g \in batch' : st[g.id] # "none"
  BY <1>0 DEF ActiveInv
<1>3. CASE pc' = [pc EXCEPT !["receiver"] = NextPC(ids')] /\ UNCHANGED cur
  <2>1. /\ pc' \in [Thread -> ThreadPC] /\ pc'["receiver"] \in {"idle", "pass"}
        /\ pc'["worker"] = pc["worker"]
    BY <1>3 DEF OutboxTypeOK, NextPC, ThreadPC
  <2>2. OutboxTypeOK'
    BY <1>0, <1>3, <2>1 DEF OutboxTypeOK, rowVars
  <2> QED
    BY <1>0, <1>1, <1>2, <1>3, <2>1, <2>2, MoveKeeps DEF rowVars, Busy
<1>4. CASE /\ st[f.id] \in Open
           /\ pc' = [pc EXCEPT !["receiver"] = "reseal"]
           /\ cur' = [cur EXCEPT !["receiver"] = Loaded(f, keyId[f.id])]
  <2> DEFINE L == Loaded(f, keyId[f.id])
  <2>1. keyId[f.id] \in 1..MaxKey
    BY <1>0, <1>4 DEF OutboxTypeOK, RowInv, OpenRowIsSendable, NoFrame
  <2>2. L \in Cur /\ L.id = f.id /\ L.ready = ready /\ L.online = online[To[f.id]]
    BY <1>0, <2>1 DEF Loaded, Cur, OutboxTypeOK
  <2> HIDE DEF L
  <2>3. /\ pc' \in [Thread -> ThreadPC] /\ pc'["receiver"] = "reseal" /\ pc'["worker"] = pc["worker"]
        /\ DOMAIN cur' = Thread /\ cur'["receiver"] = L /\ cur'["worker"] = cur["worker"]
    BY <1>4 DEF OutboxTypeOK, ThreadPC, L
  <2>4. OutboxTypeOK'
    BY <1>0, <2>2, <2>3 DEF OutboxTypeOK, rowVars
  <2>5. online[To[f.id]] \in Nat /\ ready \in Nat /\ st[f.id] # "none"
    BY <1>0, <1>4 DEF OutboxTypeOK, Open
  <2> QED
    <3>1. /\ UNCHANGED <<st, due, edgeVars, sealing, histVars>>
          /\ pc["receiver"] # "recheck" /\ pc'["receiver"] # "recheck" /\ pc'["worker"] # "reseal"
      BY <1>0, <1>2, <2>3 DEF rowVars
    <3>2. \A u \in Thread \ {"receiver"} : pc'[u] = pc[u] /\ cur'[u] = cur[u]
      BY <2>3
    <3>3. /\ st[cur'["receiver"].id] # "none" /\ cur'["receiver"].ready <= ready
          /\ cur'["receiver"].online <= online[To[cur'["receiver"].id]]
      BY <2>2, <2>3, <2>5
    <3> HIDE DEF OInv
    <3> QED
      BY <1>1, <1>2, <2>4, <3>1, <3>2, <3>3, MoveKeeps
<1> QED
  BY <1>3, <1>4 DEF retrySelect

\* Retry's UPDATE, guarded by the key the SELECT saw.
LEMMA RetryUpdateKeeps ==
    ASSUME OInv, retryUpdate
    PROVE  OInv'
<1> USE OutboxConstants DEF OInv, Thread, edgeVars, linkVars, histVars
<1> DEFINE c == cur["receiver"]
           L == Loaded([id |-> c.id, key |-> c.frame], c.was)
<1>0. /\ pc["receiver"] = "reseal" /\ c \in Cur /\ c.id \in Mail /\ c.frame \in 1..MaxKey
      /\ UNCHANGED <<st, due, signed, created, batch, ids, edgeVars, linkVars>>
      /\ UNCHANGED <<day, sealing, paired, newest, histVars>>
  BY DEF retryUpdate, OutboxTypeOK, Cur
<1>1. /\ pc["worker"] # "reseal" /\ \A g \in batch' : st[g.id] # "none"
      /\ st[c.id] # "none" /\ online[To[c.id]] \in Nat /\ ready \in Nat
  BY <1>0 DEF OutboxTypeOK, ActiveInv, Busy
<1>2. CASE /\ st[c.id] \in Open
           /\ frame' = [frame EXCEPT ![c.id] = c.frame]
           /\ keyId' = [keyId EXCEPT ![c.id] = c.frame]
           /\ updated' = [updated EXCEPT ![c.id] = day]
           /\ hot' = hot \cup {c.id}
           /\ cur' = [cur EXCEPT !["receiver"] = L]
           /\ pc' = [pc EXCEPT !["receiver"] = "send"]
  <2>1. L \in Cur /\ L.id = c.id /\ L.ready = ready /\ L.online = online[To[c.id]]
    BY <1>0 DEF Loaded, Cur, OutboxTypeOK
  <2> HIDE DEF L, c
  <2>2. /\ frame' \in [Mail -> 0..MaxKey] /\ keyId' \in [Mail -> 0..MaxKey]
        /\ updated' \in [Mail -> 0..MaxDay] /\ hot' \subseteq Mail
    <3>1. c.frame \in 0..MaxKey /\ frame \in [Mail -> 0..MaxKey] /\ keyId \in [Mail -> 0..MaxKey]
      BY <1>0 DEF OutboxTypeOK
    <3>2. updated \in [Mail -> 0..MaxDay] /\ day \in 0..MaxDay /\ hot \subseteq Mail
      BY DEF OutboxTypeOK
    <3> QED
      BY <1>0, <1>2, <3>1, <3>2
  <2>3. RowInv'
    <3>1. DOMAIN frame = Mail /\ DOMAIN keyId = Mail /\ c.frame # NoFrame
      BY <1>0 DEF OutboxTypeOK, NoFrame
    <3>2. \A n \in Mail : n # c.id => frame'[n] = frame[n] /\ keyId'[n] = keyId[n]
      BY <1>2, <3>1
    <3>3. frame'[c.id] = c.frame /\ keyId'[c.id] = c.frame
      BY <1>0, <1>2, <3>1
    <3>4. FinalHoldsNothing'
      BY <1>0, <1>2, <3>2 DEF RowInv, FinalHoldsNothing, Open, Final
    <3>5. OpenRowIsSendable'
      BY <1>0, <1>2, <3>1, <3>2, <3>3 DEF RowInv, OpenRowIsSendable
    <3> QED
      BY <3>4, <3>5 DEF RowInv
  <2>4. /\ pc' \in [Thread -> ThreadPC] /\ pc'["receiver"] = "send" /\ pc'["worker"] = pc["worker"]
        /\ DOMAIN cur' = Thread /\ cur'["receiver"] = L /\ cur'["worker"] = cur["worker"]
    BY <1>2 DEF OutboxTypeOK, ThreadPC
  <2>5. OutboxTypeOK'
    BY <1>0, <2>1, <2>2, <2>4 DEF OutboxTypeOK
  <2>6. /\ pc["receiver"] # "recheck" /\ pc'["receiver"] # "recheck" /\ pc'["worker"] # "reseal"
        /\ \A u \in Thread \ {"receiver"} : pc'[u] = pc[u] /\ cur'[u] = cur[u]
    BY <1>0, <1>1, <2>4 DEF Thread
  <2>7. /\ st[cur'["receiver"].id] # "none" /\ cur'["receiver"].ready <= ready
        /\ cur'["receiver"].online <= online[To[cur'["receiver"].id]]
    BY <1>1, <2>1, <2>4
  <2> QED
    BY <1>0, <1>1, <2>3, <2>5, <2>6, <2>7, MoveKeeps DEF Thread
<1>3. CASE /\ cur' = [cur EXCEPT !["receiver"] = NoCur]
           /\ pc' = [pc EXCEPT !["receiver"] = NextPC(ids)]
           /\ UNCHANGED <<frame, keyId, updated, hot>>
  <2>1. /\ pc' \in [Thread -> ThreadPC] /\ pc'["receiver"] \in {"idle", "pass"}
        /\ pc'["worker"] = pc["worker"]
        /\ DOMAIN cur' = Thread /\ cur'["receiver"] = NoCur /\ cur'["worker"] = cur["worker"]
    BY <1>3 DEF OutboxTypeOK, NextPC, ThreadPC
  <2>2. OutboxTypeOK'
    BY <1>0, <1>3, <2>1 DEF OutboxTypeOK
  <2>3. RowInv'
    BY <1>0, <1>3, RowSame
  <2> QED
    BY <1>0, <1>1, <2>1, <2>2, <2>3, MoveKeeps DEF Busy
<1> QED
  BY <1>2, <1>3 DEF retryUpdate
===============================================================================
