----------------------- MODULE ApprovalContractProofs -----------------------
(***************************************************************************)
(* The approval store implements ApprovalContract: each of its steps takes *)
(* some waiting approvals out of s.pending, grants or releases one, forgets*)
(* all of them, or is nothing to the actions that wait; and what the table *)
(* says of a decided approval stands.                                      *)
(***************************************************************************)
EXTENDS ApprovalProofs

-----------------------------------------------------------------------------
(* The contract                                                            *)

\* An approval is, for its action, what it was.
Stays(i) ==
    /\ hist'[i].performed = hist[i].performed /\ hist'[i].hooks = hist[i].hooks
    /\ (tail'[i] = "none" <=> tail[i] = "none")
    /\ (entry'[i].in = "live" <=> entry[i].in = "live")
    /\ (create'[i] = "made" <=> create[i] = "made")

\* It is taken out of s.pending and a tail has it.
Taken(i) ==
    /\ entry[i].in = "live" /\ tail'[i] # "none"
    /\ hist'[i].performed = hist[i].performed /\ hist'[i].hooks = hist[i].hooks

\* A decided row keeps its state or is pruned.
RowStands(i) == row[i].state \in Decided => row'[i].state \in {row[i].state, "none"}

ContractStep == (Contract!ContractNext \/ UNCHANGED Outcome) /\ \A i \in Approvals : RowStands(i)

\* An approval that stays as it was for its action has the same outcome.
LEMMA OutcomeStays == ASSUME NEW i \in Approvals, Stays(i) PROVE Outcome'[i] = Outcome[i]
BY DEF Outcome, Live, Stays

\* An entry of s.pending waits: nothing was performed or released and its row is pending.
LEMMA LiveIsWaiting ==
    ASSUME ApprovalInv, NEW i \in Approvals, entry[i].in = "live"
    PROVE  /\ hist[i].performed = 0 /\ hist[i].hooks = 0 /\ tail[i] = "none" /\ row[i].state = "pending"
           /\ create[i] = "made" /\ Outcome[i] = "waiting"
<1>1. /\ hist[i].performed = 0 /\ hist[i].hooks = 0 /\ tail[i] = "none" /\ row[i].state = "pending"
      /\ create[i] = "made"
  BY DEF ApprovalInv, OnePlace, Place, NotMade, LiveWaits
<1> QED
  BY <1>1 DEF Outcome, Live

\* Taking an entry out of s.pending ends its approval.
LEMMA OutcomeEnds == ASSUME ApprovalInv, NEW i \in Approvals, Taken(i) PROVE Outcome[i] = "waiting" /\ Outcome'[i] = "ending"
<1>1. hist'[i].performed = 0 /\ hist'[i].hooks = 0 /\ tail'[i] # "none"
  BY LiveIsWaiting DEF Taken
<1> QED
  BY <1>1, LiveIsWaiting DEF Outcome, Taken

\* The steps that take approvals, or none, out of s.pending.
LEMMA TakingIsEnding ==
    ASSUME ApprovalInv, NEW S \in SUBSET Approvals, \A i \in S : Taken(i), \A i \in Approvals \ S : Stays(i)
    PROVE  Contract!ContractNext
<1>1. \A i \in S : Outcome[i] = "waiting" /\ Outcome'[i] = "ending"
  BY OutcomeEnds
<1>2. \A i \in Approvals \ S : Outcome'[i] = Outcome[i]
  BY OutcomeStays
<1>3. Outcome' = [i \in Approvals |-> Outcome'[i]]
  BY DEF Outcome
<1>4. Outcome' = [i \in Approvals |-> IF i \in S THEN "ending" ELSE Outcome[i]]
  BY <1>1, <1>2, <1>3
<1>5. Contract!EndAll(S)
  BY <1>1, <1>4 DEF Contract!EndAll
<1> QED
  BY <1>5 DEF Contract!ContractNext

\* What happens to one approval alone.
LEMMA OneBecomes ==
    ASSUME NEW i \in Approvals, NEW from, NEW to, Outcome[i] \in from, Outcome'[i] = to,
           \A j \in Approvals : j # i => Stays(j)
    PROVE  Contract!Become(i, from, to)
<1>1. \A j \in Approvals : j # i => Outcome'[j] = Outcome[j]
  BY OutcomeStays
<1>2. Outcome' = [j \in Approvals |-> Outcome'[j]] /\ Outcome = [j \in Approvals |-> Outcome[j]]
  BY DEF Outcome
<1>3. Outcome' = [Outcome EXCEPT ![i] = to]
  BY <1>1, <1>2
<1> QED
  BY <1>3 DEF Contract!Become

\* Nothing happens to any approval.
LEMMA AllStay ==
    ASSUME ApprovalInv, \A i \in Approvals : Stays(i), \A i \in Approvals : RowStands(i) PROVE ContractStep
<1>1. {} \in SUBSET Approvals /\ (\A i \in {} : Taken(i)) /\ (\A i \in Approvals \ {} : Stays(i))
  OBVIOUS
<1>2. Contract!ContractNext
  BY <1>1, TakingIsEnding
<1> QED
  BY <1>2 DEF ContractStep

\* Steps that change neither rows, tails, histories nor what is made.
LEMMA QuietIsStutter ==
    ASSUME ApprovalInv, UNCHANGED <<row, tail, hist>>,
           \A i \in Approvals : entry'[i].in = "live" <=> entry[i].in = "live",
           \A i \in Approvals : create'[i] = "made" <=> create[i] = "made"
    PROVE  ContractStep
BY AllStay DEF Stays, RowStands

\* Time alone is nothing to the actions that wait.
LEMMA TimeSteps == ASSUME ApprovalInv, HourPasses \/ MonthPasses \/ UNCHANGED approvalVars PROVE ContractStep
BY QuietIsStutter DEF HourPasses, MonthPasses, approvalVars

\* The fact an action rests on may go without the store noticing.
LEMMA FactGoneSteps == ASSUME ApprovalInv, NEW i \in Approvals, FactGone(i) PROVE ContractStep
BY QuietIsStutter DEF FactGone

\* expireNow's first section only marks the entry.
LEMMA TimerFiresSteps == ASSUME ApprovalInv, NEW i \in Approvals, TimerFires(i) PROVE ContractStep
<1>1. \A j \in Approvals : entry'[j].in = entry[j].in
  BY Typed DEF TimerFires, ApprovalEntries
<1> QED
  BY <1>1, QuietIsStutter DEF TimerFires

\* Close stops the timers and leaves what waits.
LEMMA CloseSteps == ASSUME ApprovalInv, Close PROVE ContractStep
<1>1. \A j \in Approvals : entry'[j].in = entry[j].in
  BY Typed DEF Close, StopTimer, ApprovalEntries
<1> QED
  BY <1>1, QuietIsStutter DEF Close

\* Windows come, answer and are reopened without deciding anything.
LEMMA WindowSteps ==
    /\ \A i \in Approvals, h \in Nat, kind \in Answers : ApprovalInv /\ WindowAnswers(i, h, kind) => ContractStep
    /\ \A i \in Approvals : ApprovalInv /\ OpenWindow(i) => ContractStep
    /\ \A w \in work : ApprovalInv /\ (Reopen(w) \/ StartWindow(w) \/ AttachWindow(w)) => ContractStep
<1>1. ASSUME ApprovalInv, NEW i \in Approvals, NEW h \in Nat, NEW kind \in Answers, WindowAnswers(i, h, kind)
      PROVE  ContractStep
  <2>1. \A j \in Approvals : entry'[j].in = entry[j].in
    BY <1>1, Typed DEF WindowAnswers, ApprovalEntries
  <2> QED
    BY <1>1, <2>1, QuietIsStutter DEF WindowAnswers
<1>2. ASSUME ApprovalInv, NEW i \in Approvals, OpenWindow(i) PROVE ContractStep
  BY <1>2, QuietIsStutter DEF OpenWindow
<1>3. ASSUME ApprovalInv, NEW w \in work, Reopen(w) PROVE ContractStep
  <2>1. \A j \in Approvals : entry'[j].in = entry[j].in
    <3>1. CASE entry' = entry
      BY <3>1
    <3>2. CASE entry' = [entry EXCEPT ![w.id].opening = TRUE]
      BY <1>3, <3>2, WorkTyped, OpeningSet
    <3> QED
      BY <1>3, <3>1, <3>2 DEF Reopen
  <2> QED
    BY <1>3, <2>1, QuietIsStutter DEF Reopen
<1>4. ASSUME ApprovalInv, NEW w \in work, StartWindow(w) PROVE ContractStep
  <2>1. \A j \in Approvals : entry'[j].in = entry[j].in
    <3>1. CASE entry' = entry
      BY <3>1
    <3>2. CASE entry' = [entry EXCEPT ![w.id].opening = FALSE]
      BY <1>4, <3>2, WorkTyped, OpeningSet
    <3> QED
      BY <1>4, <3>1, <3>2 DEF StartWindow
  <2> QED
    BY <1>4, <2>1, QuietIsStutter DEF StartWindow
<1>5. ASSUME ApprovalInv, NEW w \in work, AttachWindow(w) PROVE ContractStep
  <2>1. \A j \in Approvals : entry'[j].in = entry[j].in
    <3>1. CASE entry' = [entry EXCEPT ![w.id] = [@ EXCEPT !.opening = FALSE, !.handle = w.h, !.watch = w.h]]
      BY <1>5, <3>1, Typed DEF ApprovalEntries
    <3>2. CASE entry' = [entry EXCEPT ![w.id].opening = FALSE]
      BY <1>5, <3>2, WorkTyped, OpeningSet
    <3> QED
      BY <1>5, <3>1, <3>2 DEF AttachWindow
  <2> QED
    BY <1>5, <2>1, QuietIsStutter DEF AttachWindow
<1> QED
  BY <1>1, <1>2, <1>3, <1>4, <1>5

\* What leaves s.pending with a tail: a rejection, an expiry, a sweep.
LEMMA DropIsEnding ==
    ASSUME ApprovalInv, NEW S \in SUBSET Live, drop(S), NEW what \in {"row", "hook", "expire"}, SetTail(S, what),
           row' = row \/ SetRows(S, "expired"), UNCHANGED <<create, hist>>
    PROVE  ContractStep
<1>1. S \in SUBSET Approvals /\ what \in Tails /\ (\A i \in S : entry[i].in = "live") /\ "expired" \in Decided
  BY LiveIn DEF Tails, Decided
<1>2. \A i \in S : Taken(i)
  BY <1>1, TailsSet DEF Taken
<1>3. \A i \in Approvals \ S : Stays(i)
  <2>1. \A i \in Approvals \ S : tail'[i] = tail[i]
    BY <1>1, TailsSet
  <2>2. \A i \in Approvals \ S : entry'[i] = entry[i]
    BY <1>1, Dropped
  <2> QED
    BY <2>1, <2>2 DEF Stays
<1>4. \A i \in Approvals : RowStands(i)
  <2>1. CASE row' = row
    BY <2>1 DEF RowStands
  <2>2. CASE SetRows(S, "expired")
    <3>1. \A i \in Approvals : i \notin S => row'[i] = row[i]
      BY <1>1, <2>2, RowsSet
    <3>2. \A i \in S : row[i].state = "pending"
      BY <1>1, LiveIsWaiting
    <3> QED
      BY <3>1, <3>2 DEF RowStands, Decided
  <2> QED
    BY <2>1, <2>2
<1> QED
  BY <1>1, <1>2, <1>3, <1>4, TakingIsEnding DEF ContractStep

\* takePending ends one approval.
LEMMA TakeSteps == ASSUME ApprovalInv, NEW i \in Approvals, takePending(i), UNCHANGED <<row, create, hist>> PROVE ContractStep
<1>1. {i} \in SUBSET Live /\ drop({i}) /\ SetTail({i}, "row")
  BY DEF takePending
<1> QED
  BY <1>1, DropIsEnding

\* Reject, RejectSubjects and expireNow end one approval.
LEMMA RejectSteps ==
    ASSUME ApprovalInv, NEW i \in Approvals, Reject(i) \/ RejectSubjects(i) \/ ExpireNow(i) PROVE ContractStep
<1>1. CASE Reject(i) \/ RejectSubjects(i)
  BY <1>1, TakeSteps DEF Reject, RejectSubjects
<1>2. CASE ExpireNow(i)
  <2>1. {i} \in SUBSET Live /\ drop({i}) /\ SetTail({i}, "expire") /\ UNCHANGED <<row, create, hist>>
    BY <1>2 DEF ExpireNow
  <2> QED
    BY <2>1, DropIsEnding
<1> QED
  BY <1>1, <1>2

\* The sweep of List ends the approvals that expired.
LEMMA ListSteps == ASSUME ApprovalInv, List PROVE ContractStep
<1>1. PICK S \in SUBSET Expired : SetRows(S, "expired") /\ drop(S) /\ SetTail(S, "hook")
  BY DEF List
<1>2. S \in SUBSET Live /\ UNCHANGED <<create, hist>>
  BY DEF List, Expired
<1> QED
  BY <1>1, <1>2, DropIsEnding

\* The right code: the action is performed, or the approval stays or is taken.
LEMMA ConfirmRightSteps ==
    ASSUME ApprovalInv, NEW i \in Live, ConfirmRight(i), UNCHANGED create PROVE ContractStep
<1>0. i \in Approvals /\ entry[i].in = "live" /\ entry[i] \in ApprovalEntries
  BY LiveIn, Typed
<1>1. ASSUME NEW timer,
             entry' = [entry EXCEPT ![i] = [StopTimer(@) EXCEPT !.handle = 0,
                                                !.timer = IF @ = "fired" THEN @ ELSE timer]],
             UNCHANGED <<row, tail, hist>>
      PROVE  ContractStep
  <2>1. \A j \in Approvals : entry'[j].in = entry[j].in
    BY <1>0, <1>1, Typed DEF StopTimer, ApprovalEntries
  <2> QED
    BY <1>1, <2>1, QuietIsStutter
<1>2. CASE drop({i}) /\ SetTail({i}, "row") /\ UNCHANGED <<row, hist>>
  BY <1>0, <1>2, TakeSteps DEF takePending
<1>3. CASE /\ SetRows({i}, "approved") /\ drop({i})
           /\ hist' = [hist EXCEPT ![i].performed = @ + 1]
           /\ UNCHANGED tail
  <2>1. "approved" \in Decided /\ {i} \in SUBSET Approvals
    BY <1>0 DEF Decided
  <2>2. /\ hist'[i].performed = 1
        /\ \A j \in Approvals : j # i => hist'[j] = hist[j]
    <3>1. hist[i] \in HistRows /\ hist[i].performed = 0
      BY <1>0, Typed, LiveIsWaiting
    <3>2. hist'[i] = [hist[i] EXCEPT !.performed = @ + 1]
      BY <1>0, <1>3, Typed
    <3> QED
      BY <1>0, <1>3, <3>1, <3>2, Typed DEF HistRows
  <2>3. \A j \in Approvals : j # i => Stays(j) /\ RowStands(j)
    BY <1>3, <2>1, <2>2, Dropped, RowsSet DEF Stays, RowStands
  <2>4. Outcome[i] = "waiting" /\ Outcome'[i] = "approved" /\ RowStands(i)
    <3>1. Outcome[i] = "waiting" /\ RowStands(i)
      BY <1>0, LiveIsWaiting DEF RowStands, Decided
    <3> QED
      BY <1>0, <2>2, <3>1 DEF Outcome
  <2>5. Contract!Grant(i)
    BY <1>0, <2>3, <2>4, OneBecomes DEF Contract!Grant
  <2>6. Contract!ContractNext
    BY <1>0, <2>5 DEF Contract!ContractNext
  <2> QED
    BY <2>3, <2>4, <2>6 DEF ContractStep
<1> QED
  BY <1>1, <1>2, <1>3 DEF ConfirmRight

\* A guess changes only the count of guesses.
LEMMA GuessCounted ==
    ASSUME ApprovalInv, NEW i \in Approvals, hist' = [hist EXCEPT ![i].guesses = @ + 1]
    PROVE  \A j \in Approvals : hist'[j].performed = hist[j].performed /\ hist'[j].hooks = hist[j].hooks
<1>1. hist[i] \in HistRows /\ hist'[i] = [hist[i] EXCEPT !.guesses = @ + 1]
  BY Typed
<1>2. hist'[i].performed = hist[i].performed /\ hist'[i].hooks = hist[i].hooks
  BY <1>1 DEF HistRows
<1>3. \A j \in Approvals : j # i => hist'[j] = hist[j]
  BY Typed
<1> QED
  BY <1>2, <1>3

\* A wrong code, counted.
LEMMA WrongSteps ==
    ASSUME ApprovalInv, NEW i \in Live, UNCHANGED create, NEW rejected \in BOOLEAN, NEW gone, NEW others,
           WrongStep(i, rejected, gone, others)
    PROVE  ContractStep
<1>0. i \in Approvals /\ entry[i].in = "live"
  BY LiveIn
<1> DEFINE S == others \cup (IF rejected THEN {i} ELSE {})
<1>1. /\ gone = (IF rejected THEN {i} ELSE {}) \cup (IF wrongCodes + 1 >= lim.wrong THEN Pending ELSE {})
      /\ others = gone \cap (Live \ (IF rejected THEN {i} ELSE {}))
  BY DEF WrongStep
<1>2. S \subseteq gone /\ S \subseteq Live /\ gone \subseteq Approvals /\ (\A j \in gone \ S : j \notin Live)
  BY <1>0, <1>1 DEF Pending
<1>3. /\ \A j \in S : tail'[j] # "none"
      /\ \A j \in Approvals \ S : tail'[j] = tail[j]
  <2>1. S \subseteq Approvals
    BY <1>2 DEF Live
  <2> QED
    BY <2>1 DEF WrongStep
<1>4. \A j \in Approvals \ S : entry'[j].in = "live" <=> entry[j].in = "live"
  <2> SUFFICES ASSUME NEW j \in Approvals \ S PROVE entry'[j].in = "live" <=> entry[j].in = "live"
    OBVIOUS
  <2>1. CASE j \in gone
    <3>1. entry'[j] = NoEntry /\ j \notin Live
      BY <1>2, <2>1 DEF WrongStep
    <3> QED
      BY <3>1, NoEntryIsTyped DEF Live
  <2>2. CASE j \notin gone /\ j # i
    BY <2>2 DEF WrongStep
  <2>3. CASE j \notin gone /\ j = i
    <3>1. entry'[i] = [entry[i] EXCEPT !.handle = 0, !.attempts = @ + 1] /\ entry[i] \in ApprovalEntries
      BY <1>0, <2>3, Typed DEF WrongStep
    <3> QED
      BY <2>3, <3>1, EntryFields
  <2> QED
    BY <2>1, <2>2, <2>3
<1>5. hist' = [hist EXCEPT ![i].guesses = @ + 1]
  BY DEF WrongStep
<1>6. \A j \in S : Taken(j)
  BY <1>0, <1>2, <1>3, <1>5, GuessCounted DEF Taken, Live
<1>7. \A j \in Approvals \ S : Stays(j)
  BY <1>0, <1>3, <1>4, <1>5, GuessCounted DEF Stays
<1>8. \A j \in Approvals : RowStands(j)
  <2>1. \A j \in Approvals : j # i => row'[j] = row[j]
    BY Typed DEF WrongStep
  <2>2. row[i].state = "pending"
    BY <1>0, LiveIsWaiting
  <2> QED
    BY <2>1, <2>2 DEF RowStands, Decided
<1>9. S \in SUBSET Approvals
  BY <1>2
<1> HIDE DEF S
<1> QED
  BY <1>6, <1>7, <1>8, <1>9, TakingIsEnding DEF ContractStep

\* A wrong code ends nothing, the approval it was for, or, at the limit, all of them (lockAll).
LEMMA ConfirmWrongSteps ==
    ASSUME ApprovalInv, NEW i \in Live, ConfirmWrong(i), UNCHANGED create PROVE ContractStep
<1>0. i \in Approvals /\ entry[i].in = "live" /\ hist' = [hist EXCEPT ![i].guesses = @ + 1]
  BY LiveIn DEF ConfirmWrong
<1>1. CASE Fault /\ drop({i}) /\ SetTail({i}, "row") /\ UNCHANGED <<row, wrongCodes>>
  <2>1. "row" \in Tails /\ {i} \in SUBSET Approvals
    BY <1>0 DEF Tails
  <2>2. Taken(i)
    BY <1>0, <1>1, <2>1, TailsSet, GuessCounted DEF Taken
  <2>3. \A j \in Approvals \ {i} : Stays(j)
    BY ZenonT(30), <1>0, <1>1, <2>1, TailsSet, Dropped, GuessCounted DEF Stays
  <2> QED
    BY <1>1, <2>1, <2>2, <2>3, TakingIsEnding DEF ContractStep, RowStands
<1>2. CASE ~(Fault /\ drop({i}) /\ SetTail({i}, "row") /\ UNCHANGED <<row, wrongCodes>>)
  <2> DEFINE rejected == row[i].attempts + 1 >= lim.attempts \/ entry[i].attempts + 1 >= lim.attempts
             gone == (IF rejected THEN {i} ELSE {}) \cup (IF wrongCodes + 1 >= lim.wrong THEN Pending ELSE {})
             others == gone \cap (Live \ (IF rejected THEN {i} ELSE {}))
  <2>1. WrongStep(i, rejected, gone, others)
    BY <1>2, Zenon DEF ConfirmWrong, recordBadCode, WrongStep
  <2>2. rejected \in BOOLEAN
    OBVIOUS
  <2> HIDE DEF rejected, gone, others
  <2> QED
    BY <2>1, <2>2, WrongSteps, Zenon
<1> QED
  BY <1>1, <1>2

\* confirm grants one approval, or is a wrong code, or changes nothing.
LEMMA ConfirmSteps ==
    ASSUME ApprovalInv, NEW i \in Approvals, NEW code, confirm(i, code), UNCHANGED create PROVE ContractStep
<1>1. CASE i \notin Live
  BY <1>1, QuietIsStutter DEF confirm
<1>2. CASE i \in Live /\ i \in time.aged
  <2>1. ConfirmExpired(i)
    BY <1>2 DEF confirm
  <2>2. CASE UNCHANGED <<row, entry, dialogs, watched, tail, wrongCodes, hist>>
    BY <2>2, QuietIsStutter
  <2>3. CASE SetRows({i}, "expired") /\ drop({i}) /\ SetTail({i}, "hook") /\ UNCHANGED <<wrongCodes, hist>>
    <3>1. {i} \in SUBSET Live
      BY <1>2
    <3> QED
      BY <2>3, <3>1, DropIsEnding
  <2> QED
    BY <2>1, <2>2, <2>3 DEF ConfirmExpired
<1>3. CASE i \in Live /\ i \notin time.aged
  BY <1>3, ConfirmRightSteps, ConfirmWrongSteps DEF confirm
<1> QED
  BY <1>1, <1>2, <1>3

\* A window's answer confirms or rejects.
LEMMA DecideAnswerSteps == ASSUME ApprovalInv, NEW w \in work, DecideAnswer(w) PROVE ContractStep
<1>0. w.id \in Approvals /\ UNCHANGED create
  BY WorkTyped DEF DecideAnswer
<1>1. CASE w.kind = "reject" /\ w.id \in Live
  BY <1>0, <1>1, TakeSteps DEF DecideAnswer
<1>2. CASE w.kind = "reject" /\ w.id \notin Live
  BY <1>0, <1>2, QuietIsStutter DEF DecideAnswer
<1>3. CASE w.kind # "reject"
  BY <1>0, <1>3, ConfirmSteps DEF DecideAnswer
<1> QED
  BY <1>1, <1>2, <1>3

\* The steps that follow a decision.
LEMMA TailRowSteps == ASSUME ApprovalInv, NEW i \in Approvals, TailRow(i) PROVE ContractStep
<1>0. /\ tail[i] = "row" /\ SetTail({i}, "hook") /\ (SetRows({i}, "rejected") \/ row' = row)
      /\ "hook" \in Tails /\ "rejected" \in Decided /\ {i} \in SUBSET Approvals /\ row[i].state = "pending"
  BY Tailing DEF TailRow, Tails, Decided, Place, TailOwns
<1>1. \A j \in Approvals : Stays(j)
  BY <1>0, TailsSet DEF Stays, TailRow
<1>2. \A j \in Approvals : j # i => row'[j] = row[j]
  <2>1. CASE row' = row
    BY <2>1
  <2>2. CASE SetRows({i}, "rejected")
    BY <1>0, <2>2, RowsSet
  <2> QED
    BY <1>0, <2>1, <2>2 DEF TailRow
<1>3. \A j \in Approvals : RowStands(j)
  BY <1>0, <1>2 DEF RowStands, Decided
<1> QED
  BY <1>1, <1>3, AllStay

\* The write of an expiry comes after the approval ended.
LEMMA TailExpireSteps == ASSUME ApprovalInv, NEW i \in Approvals, TailExpire(i) PROVE ContractStep
<1>0. tail[i] = "expire" /\ row[i].state = "pending" /\ "hook" \in Tails /\ {i} \in SUBSET Approvals
  BY Tailing DEF TailExpire, Place, TailOwns, Tails
<1>1. SetTail({i}, "hook")
  BY <1>0 DEF TailExpire
<1>2. \A j \in Approvals : Stays(j)
  BY <1>0, <1>1, TailsSet DEF Stays, TailExpire
<1>3. \A j \in Approvals : j # i => row'[j] = row[j]
  BY ExpiredWritten DEF TailExpire
<1>4. \A j \in Approvals : RowStands(j)
  BY <1>0, <1>3 DEF RowStands, Decided
<1> QED
  BY <1>2, <1>4, AllStay

\* retryExpired writes rows that are still pending.
LEMMA RetryExpiredSteps == ASSUME ApprovalInv, NEW i \in Approvals, RetryExpired(i) PROVE ContractStep
<1>1. \A j \in Approvals : RowStands(j)
  BY ExpiredWritten DEF RetryExpired, RowStands, Decided
<1>2. \A j \in Approvals : Stays(j)
  BY DEF Stays, RetryExpired
<1> QED
  BY <1>1, <1>2, AllStay

\* OnReject runs for an approval that ended.
LEMMA TailHookSteps == ASSUME ApprovalInv, NEW i \in Approvals, TailHook(i) PROVE ContractStep
<1>0. /\ tail[i] = "hook" /\ SetTail({i}, "none") /\ "none" \in Tails /\ {i} \in SUBSET Approvals
      /\ hist' = [hist EXCEPT ![i].hooks = @ + 1]
      /\ hist[i].performed = 0 /\ hist[i].hooks = 0 /\ UNCHANGED <<row, entry, create>>
  BY Tailing DEF TailHook, Tails, Place, TailOwns
<1>1. tail'[i] = "none" /\ (\A j \in Approvals : j # i => tail'[j] = tail[j])
  BY <1>0, TailsSet
<1>2. /\ hist'[i].hooks = 1 /\ hist'[i].performed = 0
      /\ \A j \in Approvals : j # i => hist'[j] = hist[j]
  <2>1. hist[i] \in HistRows /\ hist'[i] = [hist[i] EXCEPT !.hooks = @ + 1]
    BY <1>0, Typed
  <2> QED
    BY <1>0, <2>1, Typed DEF HistRows
<1>3. \A j \in Approvals : j # i => Stays(j)
  BY <1>0, <1>1, <1>2 DEF Stays
<1>4. Outcome[i] = "ending" /\ Outcome'[i] = "released"
  BY <1>0, <1>2 DEF Outcome
<1>5. Contract!Release(i)
  BY <1>3, <1>4, OneBecomes DEF Contract!Release
<1>6. Contract!ContractNext
  BY <1>5 DEF Contract!ContractNext
<1> QED
  BY <1>0, <1>6 DEF ContractStep, RowStands

-----------------------------------------------------------------------------
\* Create: nothing waits before the row is written.
LEMMA CreatingSteps ==
    ASSUME ApprovalInv, NEW i \in Approvals, create[i] # "made", NEW next \in CreateSteps \ {"made"},
           create' = [create EXCEPT ![i] = next],
           \A j \in Approvals : j # i => entry'[j] = entry[j], entry'[i].in # "live",
           UNCHANGED <<row, tail, hist>>
    PROVE  ContractStep
<1>1. \A j \in Approvals : create'[j] = "made" <=> create[j] = "made"
  BY Typed
<1>2. entry[i].in # "live"
  BY DEF ApprovalInv, OnePlace, Place, NotMade
<1> QED
  BY <1>1, <1>2, QuietIsStutter

\* Create's first dialog asks nobody yet.
LEMMA CreateWindowSteps == ASSUME ApprovalInv, NEW i \in Approvals, CreateWindow(i) PROVE ContractStep
<1>0. /\ create[i] # "made" /\ entry[i] \in ApprovalEntries /\ {"failed", "code"} \subseteq CreateSteps \ {"made"}
      /\ UNCHANGED <<row, tail, hist>>
  BY Typed DEF CreateWindow, CreateSteps
<1>1. CASE dropReserved(i) /\ create' = [create EXCEPT ![i] = "failed"]
  BY <1>0, <1>1, ReservedDropped, CreatingSteps
<1>2. CASE /\ entry' = [entry EXCEPT ![i].handle = IF entry[i].in = "none" THEN 0 ELSE NextHandle]
           /\ create' = [create EXCEPT ![i] = "code"]
  <2>1. (\A j \in Approvals : j # i => entry'[j] = entry[j]) /\ entry'[i].in = entry[i].in
    BY <1>0, <1>2, Typed DEF ApprovalEntries
  <2>2. entry[i].in # "live"
    BY <1>0 DEF ApprovalInv, OnePlace, Place, NotMade
  <2> QED
    BY <1>0, <1>2, <2>1, <2>2, CreatingSteps
<1> QED
  BY <1>1, <1>2 DEF CreateWindow

\* Create's code asks nobody yet.
LEMMA CreateCodeSteps == ASSUME ApprovalInv, NEW i \in Approvals, CreateCode(i) PROVE ContractStep
<1>0. /\ create[i] # "made" /\ {"failed", "store"} \subseteq CreateSteps \ {"made"}
      /\ UNCHANGED <<row, tail, hist>>
  BY DEF CreateCode, CreateSteps
<1>1. CASE dropReserved(i) /\ create' = [create EXCEPT ![i] = "failed"]
  BY <1>0, <1>1, ReservedDropped, CreatingSteps
<1>2. CASE create' = [create EXCEPT ![i] = "store"] /\ UNCHANGED entry
  <2>1. entry[i].in # "live"
    BY <1>0 DEF ApprovalInv, OnePlace, Place, NotMade
  <2> QED
    BY <1>0, <1>2, <2>1, CreatingSteps
<1> QED
  BY <1>1, <1>2 DEF CreateCode

\* Create's last section makes the approval wait, or nothing.
LEMMA CreateStoreSteps == ASSUME ApprovalInv, NEW i \in Approvals, CreateStore(i) PROVE ContractStep
<1>0. create[i] = "store" /\ "failed" \in CreateSteps \ {"made"} /\ UNCHANGED <<tail, hist>>
  BY DEF CreateStore, CreateSteps
<1>1. CASE create' = [create EXCEPT ![i] = "failed"] /\ entry' = [entry EXCEPT ![i] = NoEntry] /\ UNCHANGED row
  BY <1>0, <1>1, ReservedDropped, CreatingSteps
<1>2. CASE /\ create' = [create EXCEPT ![i] = "made"] /\ row' = [row EXCEPT ![i].state = "pending"]
           /\ entry' = [entry EXCEPT ![i] = [@ EXCEPT !.in = "live", !.timer = "armed", !.watch = entry[i].handle]]
  <2>1. /\ create'[i] = "made" /\ entry'[i].in = "live"
        /\ \A j \in Approvals : j # i => create'[j] = create[j] /\ entry'[j] = entry[j] /\ row'[j] = row[j]
    BY <1>2, Typed DEF ApprovalEntries
  <2>2. /\ row[i].state = "none" /\ tail[i] = "none" /\ entry[i].in # "live"
        /\ hist[i].performed = 0 /\ hist[i].hooks = 0
    BY <1>0 DEF ApprovalInv, OnePlace, Place, NotMade
  <2>3. Outcome[i] = "none" /\ Outcome'[i] = "waiting"
    BY <1>0, <2>1, <2>2 DEF Outcome, Live
  <2>4. \A j \in Approvals : j # i => Stays(j)
    BY <1>0, <2>1 DEF Stays
  <2>5. Contract!Ask(i)
    BY <2>3, <2>4, OneBecomes DEF Contract!Ask
  <2>6. Contract!ContractNext
    BY <2>5 DEF Contract!ContractNext
  <2> QED
    BY <2>1, <2>2, <2>6 DEF ContractStep, RowStands, Decided
<1> QED
  BY <1>1, <1>2 DEF CreateStore

\* The sweep that Create begins with ends what it finds expired.
LEMMA ReserveSteps ==
    ASSUME ApprovalInv, NEW i \in Approvals, create[i] = "idle", NEW S \in SUBSET Expired, NEW refused, NEW next,
           ReserveStep(i, S, refused, next), SweepRows(S), UNCHANGED hist
    PROVE  ContractStep
<1>0. i \notin S /\ (\A j \in S : j \in Approvals /\ entry[j].in = "live") /\ entry[i].in = "none"
  BY ReserveEffect
<1>1. \A j \in S : Taken(j)
  BY <1>0, ReserveEffect DEF Taken
<1>2. next \in {"failed", "window", "code"}
  BY DEF ReserveStep
<1>3. create'[i] = next /\ tail'[i] = tail[i] /\ entry'[i].in = IF next = "failed" THEN "none" ELSE "reserved"
  BY <1>0, ReserveEffect
<1>4. Stays(i)
  BY <1>0, <1>2, <1>3 DEF Stays
<1>5. ASSUME NEW j \in Approvals \ S, j # i PROVE Stays(j)
  <2>1. create'[j] = create[j] /\ entry'[j] = entry[j] /\ tail'[j] = tail[j]
    BY <1>5, ReserveEffect
  <2> QED
    BY <2>1 DEF Stays
<1>6. ASSUME NEW j \in Approvals PROVE RowStands(j)
  <2>1. CASE j \in S
    BY <2>1, <1>0, LiveIsWaiting DEF RowStands, Decided
  <2>2. CASE j \notin S /\ row'[j] = row[j]
    BY <2>2 DEF RowStands
  <2>3. CASE row'[j] = [row[j] EXCEPT !.state = "none"]
    <3>1. row[j] \in ApprovalRows
      BY Typed
    <3> QED
      BY <2>3, <3>1 DEF RowStands, ApprovalRows
  <2> QED
    BY <2>1, <2>2, <2>3 DEF SweepRows
<1>7. S \in SUBSET Approvals
  BY <1>0
<1> QED
  BY <1>1, <1>4, <1>5, <1>6, <1>7, TakingIsEnding DEF ContractStep

\* Create's first section sweeps what expired and reserves a slot.
LEMMA CreateReserveSteps == ASSUME ApprovalInv, NEW i \in Approvals, CreateReserve(i) PROVE ContractStep
<1>0. create[i] = "idle" /\ UNCHANGED hist
  BY DEF CreateReserve
<1>1. CASE wrongCodes >= lim.wrong
  <2>1. create' = [create EXCEPT ![i] = "failed"] /\ UNCHANGED <<row, entry, tail>>
    BY <1>1 DEF CreateReserve
  <2>2. "failed" \in CreateSteps \ {"made"} /\ entry[i].in # "live"
    BY <1>0 DEF CreateSteps, ApprovalInv, OnePlace, Place, NotMade
  <2> QED
    BY <1>0, <2>1, <2>2, CreatingSteps
<1>2. CASE ~(wrongCodes >= lim.wrong)
  <2>1. PICK S \in SUBSET Expired, refused \in BOOLEAN, next \in {"failed", "window", "code"} :
              ReserveStep(i, S, refused, next) /\ SweepRows(S)
    BY <1>2, ReserveIsStep
  <2> QED
    BY <1>0, <2>1, ReserveSteps, Zenon
<1> QED
  BY <1>1, <1>2

\* A restart forgets what waits and what was ending.
LEMMA RestartSteps == ASSUME ApprovalInv, Restart PROVE ContractStep
<1>1. \A i \in Approvals : entry'[i].in = "none" /\ tail'[i] = "none"
  BY NoEntryIsTyped DEF Restart
<1>2. \A i \in Approvals : create'[i] = "made" <=> create[i] = "made"
  BY Typed DEF Restart
<1>3. ASSUME NEW i \in Approvals
      PROVE  Outcome'[i] = IF Outcome[i] \in {"waiting", "ending"} THEN "forgotten" ELSE Outcome[i]
  <2>1. Outcome'[i] = IF hist[i].performed > 0 THEN "approved"
                      ELSE IF hist[i].hooks > 0 THEN "released"
                      ELSE IF create[i] = "made" THEN "forgotten" ELSE "none"
    BY <1>1, <1>2 DEF Outcome, Live, Restart
  <2>2. tail[i] # "none" \/ entry[i].in = "live" => create[i] = "made"
    BY DEF ApprovalInv, OnePlace, Place, NotMade
  <2> QED
    BY <2>1, <2>2 DEF Outcome, Live
<1>4. Outcome' = [i \in Approvals |-> Outcome'[i]]
  BY DEF Outcome
<1>5. Contract!Stop
  BY <1>3, <1>4 DEF Contract!Stop
<1>6. \A i \in Approvals : RowStands(i)
  <2> SUFFICES ASSUME NEW i \in Approvals, row[i].state \in Decided PROVE row'[i].state \in {row[i].state, "none"}
    BY DEF RowStands
  <2>1. row[i] \in ApprovalRows
    BY Typed
  <2> QED
    BY <2>1 DEF Restart, pruneDecided, ApprovalRows, Decided
<1> QED
  BY <1>5, <1>6 DEF ContractStep, Contract!ContractNext

\* Every step of the store is a step of its contract or invisible to it.
LEMMA ApprovalStepIsContractStep == ASSUME ApprovalInv, [ApprovalNext]_approvalVars PROVE ContractStep
<1>1. ASSUME NEW i \in Approvals,
             \/ FactGone(i)
             \/ CreateReserve(i) \/ CreateWindow(i) \/ CreateCode(i) \/ CreateStore(i)
      PROVE  ContractStep
  BY <1>1, FactGoneSteps, CreateReserveSteps, CreateWindowSteps, CreateCodeSteps, CreateStoreSteps
<1>2. ASSUME NEW i \in Approvals,
             \/ \E code \in {"right", "wrong"} : TerminalConfirm(i, code)
             \/ Reject(i) \/ RejectSubjects(i) \/ TailRow(i) \/ TailHook(i)
      PROVE  ContractStep
  BY <1>2, ConfirmSteps, RejectSteps, TailRowSteps, TailHookSteps DEF TerminalConfirm
<1>3. ASSUME NEW i \in Approvals,
             \/ TimerFires(i) \/ ExpireNow(i) \/ TailExpire(i) \/ RetryExpired(i)
             \/ OpenWindow(i)
             \/ \E h \in 1..lim.windows, kind \in Answers : WindowAnswers(i, h, kind)
      PROVE  ContractStep
  BY <1>3, TimerFiresSteps, RejectSteps, TailExpireSteps, RetryExpiredSteps, WindowSteps
<1>4. ASSUME NEW w \in work, DecideAnswer(w) \/ Reopen(w) \/ StartWindow(w) \/ AttachWindow(w)
      PROVE  ContractStep
  BY <1>4, DecideAnswerSteps, WindowSteps
<1>5. CASE HourPasses \/ MonthPasses \/ List \/ Close \/ Restart
  BY <1>5, TimeSteps, ListSteps, CloseSteps, RestartSteps
<1> QED
  BY <1>1, <1>2, <1>3, <1>4, <1>5, TimeSteps DEF ApprovalNext

\* The store implements ApprovalContract, the specification that the grant handlers
\* are built on (CapabilityGrants): each of its steps ends some waiting approvals,
\* grants or releases one, forgets all, or is invisible to the actions that wait; and
\* a decided row is never decided again, whatever rejectRow, retryExpired and the
\* sweeps still write.
THEOREM StoreKeepsContract == ApprovalSpec => KeepsContract
<1>1. ApprovalInit => Contract!ContractInit
  <2> SUFFICES ASSUME ApprovalInit PROVE Outcome = [i \in Approvals |-> "none"]
    BY DEF Contract!ContractInit
  <2>1. \A i \in Approvals : entry[i].in = "none"
    BY NoEntryIsTyped DEF ApprovalInit
  <2> QED
    BY <2>1 DEF ApprovalInit, Outcome, Live
<1>2. ApprovalInv /\ [ApprovalNext]_approvalVars => [Contract!ContractNext]_Outcome
  BY ApprovalStepIsContractStep DEF ContractStep
<1>3. ApprovalInv /\ [ApprovalNext]_approvalVars
        => [\A i \in Approvals : row[i].state \in {"approved", "rejected", "expired"}
                                   => row'[i].state \in {row[i].state, "none"}]_approvalVars
  BY ApprovalStepIsContractStep DEF ContractStep, RowStands, Decided
<1>4. ApprovalSpec => Contract!ContractSpec
  BY <1>1, <1>2, ApprovalAlways, PTL DEF ApprovalSpec, Contract!ContractSpec
<1>5. ApprovalSpec => DecisionsStand
  BY <1>3, ApprovalAlways, PTL DEF ApprovalSpec, DecisionsStand
<1> QED
  BY <1>4, <1>5 DEF KeepsContract
=============================================================================
