----------------------------- MODULE RelayTurns -----------------------------
(***************************************************************************)
(* Who may redeliver, and how much (internal/relay/limits.go): the token   *)
(* buckets of a recipient key and of a network prefix, the wait list of a   *)
(* prefix whose bucket ran short, and the turns the sweep gives to those    *)
(* waiting (relay.go redeliverStep, retrySkippedAt, retryRange).            *)
(*                                                                         *)
(* One prefix; each connection has a key of its own.  The rows a connection *)
(* has still to redeliver are the sizes in `todo', the ones skipped for     *)
(* want of budget those in `skipped'.  One step is what the code does under *)
(* limits.mu.  A sweep tick comes once a minute: by then every drain has    *)
(* run, except one that waits for a peer which reads slowly.                *)
(***************************************************************************)
EXTENDS Integers, Sequences, SequencesExt

CONSTANTS
    Waiters,   \* the connections of the prefix
    Cases      \* the instances

(* A case: rows (what each connection has to redeliver), keyBurst, keyRate, *)
(* prefixBurst, prefixRate (tokens, and tokens refilled in a tick), batch   *)
(* (drainBatchBytes), slow (connections that read slowly), acks, closes     *)
(* (bounds: rows acked, connections that end).                              *)
VARIABLES
    case, todo, skipped,
    task,        \* the drain goroutine of a connection
    draining,    \* conn.draining
    keyTokens, prefixTokens,                    \* the buckets
    redeliverWait, waiting, waitTicket, waitTickets, waitClosed,
    redeliverServed,                            \* the connections whose turn it is
    sent, refilled, acked, closed               \* history and bounds

bucketVars == <<keyTokens, prefixTokens>>
waitVars == <<redeliverWait, waiting, waitTicket, waitTickets, waitClosed, redeliverServed>>
turnVars == <<case, todo, skipped, task, draining, bucketVars, waitVars,
              sent, refilled, acked, closed>>

Resting == [pc |-> "idle", retry |-> FALSE, size |-> 0, paid |-> 0, rows |-> <<>>]
Sum(s) == FoldSeq(LAMBDA n, t : n + t, 0, s)
Least(m, n) == IF m < n THEN m ELSE n

\* Every connection starts its drain with rows it was sent before.
TurnsInit ==
    /\ case \in Cases
    /\ todo = case.rows /\ skipped = [c \in Waiters |-> <<>>]
    /\ task = [c \in Waiters |-> [Resting EXCEPT !.pc = "probe"]]
    /\ draining = [c \in Waiters |-> TRUE]
    /\ keyTokens = [c \in Waiters |-> case.keyBurst] /\ prefixTokens = case.prefixBurst
    /\ redeliverWait = <<>> /\ waiting = [c \in Waiters |-> FALSE]
    /\ waitTicket = [c \in Waiters |-> 0] /\ waitTickets = 0
    /\ waitClosed = [c \in Waiters |-> FALSE] /\ redeliverServed = {}
    /\ sent = 0 /\ refilled = 0 /\ acked = 0 /\ closed = 0

-----------------------------------------------------------------------------
(* The buckets and the wait list.                                           *)

\* bucketSet.take on both buckets.
takeBoth(c, n) ==
    /\ keyTokens' = [keyTokens EXCEPT ![c] = @ - n]
    /\ prefixTokens' = prefixTokens - n

\* bucketSet.refund on both, up to the burst.
redeliverRefund(c, n) ==
    /\ keyTokens' = [keyTokens EXCEPT ![c] = Least(case.keyBurst, @ + n)]
    /\ prefixTokens' = Least(case.prefixBurst, prefixTokens + n)

\* joinWaitLocked, where c goes: the tail, or back to its place by ticket.
joined(list, c, back, ticket) ==
    IF ~back THEN Append(list, c)
    ELSE LET before == SelectSeq(list, LAMBDA x : waitTicket[x] < ticket)
         IN before \o <<c>> \o SubSeq(list, Len(before) + 1, Len(list))

\* joinWaitLocked: unless c waits already or is closed.
joinWaitLocked(c, back) ==
    IF waiting[c] \/ waitClosed[c]
    THEN UNCHANGED <<redeliverWait, waiting, waitTicket, waitTickets>>
    ELSE LET again == back /\ waitTicket[c] # 0
             ticket == IF again THEN waitTicket[c] ELSE waitTickets + 1
         IN /\ waiting' = [waiting EXCEPT ![c] = TRUE]
            /\ waitTicket' = [waitTicket EXCEPT ![c] = ticket]
            /\ waitTickets' = IF again THEN waitTickets ELSE ticket
            /\ redeliverWait' = joined(redeliverWait, c, again, ticket)

\* redeliverAllowed: the limit that refuses n bytes, "" when both buckets pay.
\* While someone waits or is served, only the served ones may redeliver.
refusal(c, n) ==
    LET mine == c \in redeliverServed IN
    IF ~mine /\ (redeliverServed # {} \/ redeliverWait # <<>>) THEN "prefix"
    ELSE IF keyTokens[c] < n THEN "key"
    ELSE IF prefixTokens < n THEN "prefix" ELSE ""

\* redeliverAllowed, what a refusal does: one short of prefix tokens ends its
\* turn and keeps its place, any other refused by the prefix joins the tail.
refused(c, n) ==
    IF refusal(c, n) = "key" THEN UNCHANGED waitVars
    ELSE /\ joinWaitLocked(c, c \in redeliverServed)
         /\ redeliverServed' = redeliverServed \ {c}
         /\ UNCHANGED waitClosed

-----------------------------------------------------------------------------
(* The drain of a connection (redeliverStep).                               *)

\* Mutant: conn.draining stays set.
BugStaysDraining(c) == task' = [task EXCEPT ![c] = Resting] /\ UNCHANGED draining

\* The drain reached the end of its range: the connection goes on with first
\* deliveries and direct forwarding; a retry ends its turn (redeliverDone).
redeliverDone(c) ==
    /\ task' = [task EXCEPT ![c] = Resting]
    /\ draining' = [draining EXCEPT ![c] = FALSE]

\* skipRedelivery: the rest of the range waits for a retry.
skipRedelivery(c) ==
    /\ skipped' = [skipped EXCEPT ![c] = todo[c]] /\ todo' = [todo EXCEPT ![c] = <<>>]
    /\ UNCHANGED draining

Frame == UNCHANGED <<case, refilled, acked, closed>>

\* The first row is probed and paid, or refused; with none left the range is done.
probe(c) ==
    /\ task[c].pc = "probe"
    /\ \/ /\ todo[c] = <<>> /\ redeliverDone(c)
          /\ redeliverServed' = IF task[c].retry THEN redeliverServed \ {c} ELSE redeliverServed
          /\ UNCHANGED <<todo, skipped, bucketVars, redeliverWait, waiting, waitTicket,
                         waitTickets, waitClosed>>
       \/ /\ todo[c] # <<>> /\ refusal(c, todo[c][1]) = ""
          /\ takeBoth(c, todo[c][1])
          /\ task' = [task EXCEPT ![c].pc = "reserve", ![c].size = todo[c][1]]
          /\ UNCHANGED <<todo, skipped, draining, waitVars>>
       \/ /\ todo[c] # <<>> /\ refusal(c, todo[c][1]) # ""
          /\ refused(c, todo[c][1]) /\ skipRedelivery(c)
          /\ UNCHANGED <<task, bucketVars>>
    /\ Frame /\ UNCHANGED sent

\* redeliverReserve: what both buckets hold now, taken before the read.
redeliverReserve(c) ==
    LET n == Least(case.batch - task[c].size, Least(keyTokens[c], prefixTokens)) IN
    /\ task[c].pc = "reserve"
    /\ takeBoth(c, n)
    /\ task' = [task EXCEPT ![c].pc = "read", ![c].paid = task[c].size + n]
    /\ Frame /\ UNCHANGED <<todo, skipped, draining, waitVars, sent>>

\* nextRange: the oldest rows that hold at most `paid' bytes, the first always.
nextRange(c) ==
    LET fit == {i \in 1..Len(todo[c]) : i = 1 \/ Sum(SubSeq(todo[c], 1, i)) <= task[c].paid}
    IN SubSeq(todo[c], 1, CHOOSE i \in fit : \A j \in fit : j <= i)

\* redeliverStep reads the rows.  A first row larger than what was paid (the
\* probed one was acked meanwhile) is charged alone; the unused rest is refunded.
readRange(c) ==
    LET rows == nextRange(c)
        n == Sum(rows)
    IN
    /\ task[c].pc = "read"
    /\ \/ /\ todo[c] = <<>>
          /\ task' = [task EXCEPT ![c].pc = "refund"]
          /\ UNCHANGED <<todo, skipped, draining, bucketVars, waitVars>>
       \/ /\ todo[c] # <<>> /\ n <= task[c].paid
          /\ task' = [task EXCEPT ![c].pc = "refund", ![c].paid = @ - n, ![c].rows = rows]
          /\ todo' = [todo EXCEPT ![c] = SubSeq(@, Len(rows) + 1, Len(@))]
          /\ UNCHANGED <<skipped, draining, bucketVars, waitVars>>
       \/ /\ todo[c] # <<>> /\ n > task[c].paid /\ refusal(c, n) = ""
          /\ takeBoth(c, n)
          /\ task' = [task EXCEPT ![c].pc = "refund", ![c].rows = rows]
          /\ todo' = [todo EXCEPT ![c] = Tail(@)]
          /\ UNCHANGED <<skipped, draining, waitVars>>
       \/ /\ todo[c] # <<>> /\ n > task[c].paid /\ refusal(c, n) # ""
          /\ refused(c, n) /\ skipRedelivery(c)
          /\ task' = [task EXCEPT ![c].pc = "refund"]
          /\ UNCHANGED bucketVars
    /\ Frame /\ UNCHANGED sent

refund(c) ==
    /\ task[c].pc = "refund"
    /\ redeliverRefund(c, task[c].paid)
    /\ task' = [task EXCEPT ![c].pc = "send", ![c].paid = 0]
    /\ Frame /\ UNCHANGED <<todo, skipped, draining, waitVars, sent>>

\* sendBatch; then the next batch, if anything was sent.  After a refusal the
\* drain is over.
sendBatch(c) ==
    /\ task[c].pc = "send"
    /\ sent' = sent + Sum(task[c].rows)
    /\ task' = [task EXCEPT ![c].pc = "probe", ![c].rows = <<>>]
    /\ Frame /\ UNCHANGED <<todo, skipped, draining, bucketVars, waitVars>>

-----------------------------------------------------------------------------
(* The sweep tick, acks and connections that end.                           *)

\* A row the peer acks leaves the queue.
ack(c) ==
    /\ acked < case.acks /\ acked' = acked + 1
    /\ \/ todo[c] # <<>> /\ todo' = [todo EXCEPT ![c] = Tail(@)] /\ UNCHANGED skipped
       \/ skipped[c] # <<>> /\ skipped' = [skipped EXCEPT ![c] = Tail(@)] /\ UNCHANGED todo
    /\ UNCHANGED <<case, task, draining, bucketVars, waitVars, sent, refilled, closed>>

\* unregister: a closed connection leaves the lists, and its drain ends.
redeliverForget(c) ==
    /\ ~waitClosed[c] /\ closed < case.closes /\ closed' = closed + 1
    /\ waitClosed' = [waitClosed EXCEPT ![c] = TRUE]
    /\ waiting' = [waiting EXCEPT ![c] = FALSE]
    /\ redeliverWait' = SelectSeq(redeliverWait, LAMBDA x : x # c)
    /\ redeliverServed' = redeliverServed \ {c}
    /\ IF task[c].pc = "read" THEN redeliverRefund(c, task[c].paid) ELSE UNCHANGED bucketVars
    /\ task' = [task EXCEPT ![c] = IF @.pc = "refund" THEN @ ELSE Resting]
    /\ todo' = [todo EXCEPT ![c] = <<>>] /\ skipped' = [skipped EXCEPT ![c] = <<>>]
    /\ draining' = [draining EXCEPT ![c] = TRUE]
    /\ UNCHANGED <<case, waitTicket, waitTickets, sent, refilled, acked>>

\* nextServed: in list order, those that are not draining and whose key can pay
\* their first skipped row, while the prefix can pay it on top of the rows of
\* those picked before; the first the prefix cannot pay ends the walk.
nextServed(keys, prefix) ==
    FoldLeft(LAMBDA acc, c :
        LET n == IF skipped[c] = <<>> THEN 0 ELSE skipped[c][1] IN
        IF acc.over \/ n = 0 \/ keys[c] < n THEN acc
        ELSE IF prefix < acc.pending + n THEN [acc EXCEPT !.over = TRUE]
        ELSE IF draining[c] THEN acc
        ELSE [acc EXCEPT !.pending = @ + n, !.picked = @ \cup {c}],
        [over |-> FALSE, pending |-> 0, picked |-> {}], redeliverWait).picked

\* retryRange takes the skipped range over.
Retrying(C) ==
    /\ draining' = [c \in Waiters |-> draining[c] \/ c \in C]
    /\ todo' = [c \in Waiters |-> IF c \in C THEN skipped[c] ELSE todo[c]]
    /\ skipped' = [c \in Waiters |-> IF c \in C THEN <<>> ELSE skipped[c]]
    /\ task' = [c \in Waiters |-> IF c \in C THEN [Resting EXCEPT !.pc = "probe", !.retry = TRUE]
                                  ELSE task[c]]

\* retrySkippedAt: a minute has passed, the buckets refilled, every earlier turn
\* is over, and those waiting get theirs in order.
retrySkippedAt ==
    LET keys == [c \in Waiters |-> Least(case.keyBurst, keyTokens[c] + case.keyRate)]
        prefix == Least(case.prefixBurst, prefixTokens + case.prefixRate)
        picked == nextServed(keys, prefix)
    IN
    /\ \A c \in Waiters : task[c].pc = "idle" \/ (task[c].pc = "send" /\ c \in case.slow)
    /\ keyTokens' = keys /\ prefixTokens' = prefix
    /\ refilled' = refilled + (prefix - prefixTokens)
    /\ Retrying(picked)
    /\ redeliverServed' = picked
    /\ redeliverWait' = SelectSeq(redeliverWait, LAMBDA c : c \notin picked)
    /\ waiting' = [c \in Waiters |-> waiting[c] /\ c \notin picked]
    /\ UNCHANGED <<case, waitTicket, waitTickets, waitClosed, sent, acked, closed>>

\* retrySkippedAt, the connections skipped by their key bucket alone.
retryKey(c) ==
    /\ skipped[c] # <<>> /\ ~waiting[c] /\ c \notin redeliverServed /\ ~draining[c]
    /\ keyTokens[c] >= skipped[c][1] /\ prefixTokens >= skipped[c][1]
    /\ Retrying({c})
    /\ UNCHANGED <<case, bucketVars, waitVars, sent, refilled, acked, closed>>

DrainMoves(c) == probe(c) \/ redeliverReserve(c) \/ readRange(c) \/ refund(c) \/ sendBatch(c)
TurnStep == retrySkippedAt \/ \E c \in Waiters : DrainMoves(c) \/ retryKey(c)
TurnsNext == TurnStep \/ \E c \in Waiters : ack(c) \/ redeliverForget(c)

(* The sweep ticks and the drains run.                                      *)
TurnsFairness == WF_turnVars(TurnStep)

-----------------------------------------------------------------------------
\* The places in the wait list are kept: the list is in ticket order whoever
\* came back early, lists exactly the connections marked as waiting, and none
\* that is served or closed; and a turn is only held by a connection that is
\* open and draining (limits.go joinWaitLocked, removeWaitLocked, endTurnLocked).
PlacesAreKept ==
    /\ \A i, j \in 1..Len(redeliverWait) :
          i < j => waitTicket[redeliverWait[i]] < waitTicket[redeliverWait[j]]
    /\ {c \in Waiters : waiting[c]} = ToSet(redeliverWait)
    /\ \A c \in Waiters : waiting[c] => ~waitClosed[c] /\ c \notin redeliverServed
    /\ \A c \in redeliverServed : ~waitClosed[c] /\ draining[c]

\* Nobody redelivers on the same tokens twice: what the prefix was sent, what
\* its bucket holds and what running batches have reserved never pass the burst
\* and the refills (limits.go redeliverReserve, redeliverRefund).
WithinRedeliveryBudget ==
    sent + prefixTokens + Sum([i \in 1..Len(SetToSeq(Waiters)) |->
        LET t == task[SetToSeq(Waiters)[i]] IN
        t.paid + Sum(t.rows) + IF t.pc = "reserve" THEN t.size ELSE 0])
    <= case.prefixBurst + refilled

\* Everyone's turn comes: in the end no open connection has rows skipped for
\* want of budget, whatever slow readers and short buckets are ahead of it
\* (limits.go nextServedAt); and the two above hold all along.
TurnsComeRound ==
    /\ [](PlacesAreKept /\ WithinRedeliveryBudget)
    /\ <>[](\A c \in Waiters : skipped[c] = <<>>)
=============================================================================
