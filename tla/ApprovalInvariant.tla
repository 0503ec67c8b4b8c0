------------------------- MODULE ApprovalInvariant -------------------------
(***************************************************************************)
(* Proof that an approval is decided once, for every set of approvals and  *)
(* every limit of the store, and that the store implements                 *)
(* ApprovalContract.                                                       *)
(*                                                                         *)
(* The argument: an approval is in one place at a time (OnePlace).  It is  *)
(* not made yet, or live in s.pending, or taken out with a tail that       *)
(* somebody still has to run, or over.  Whoever takes it out of s.pending  *)
(* does so under s.mu, so nobody else has it, and the row it left behind   *)
(* stays as it is until its tail writes it.  The windows need an argument  *)
(* of their own (WindowsInOrder): a dialog that is started outside s.mu is *)
(* nobody's until the second section of reopen attaches it.                *)
(***************************************************************************)
EXTENDS Approval, FiniteSetTheorems, TLAPS

Decided == {"approved", "rejected", "expired"}

\* An approval that Create has not made: nothing of it exists but a slot.
NotMade(i) ==
    create[i] # "made" =>
        /\ tail[i] = "none" /\ row[i].state = "none" /\ row[i].attempts = 0 /\ entry[i].in # "live"
        /\ hist[i].performed = 0 /\ hist[i].hooks = 0 /\ hist[i].guesses = 0
        /\ i \notin unwritten /\ i \notin time.old

\* A live one waits, with as many attempts spent as its row says.
LiveWaits(i) ==
    entry[i].in = "live" =>
        /\ tail[i] = "none" /\ row[i].state = "pending" /\ i \notin unwritten
        /\ hist[i].performed = 0 /\ hist[i].hooks = 0
        /\ hist[i].guesses = row[i].attempts /\ hist[i].guesses < lim.attempts

\* One that was taken out belongs to its tail.
TailOwns(i) ==
    tail[i] # "none" =>
        /\ hist[i].performed = 0 /\ hist[i].hooks = 0
        /\ tail[i] \in {"row", "expire"} => row[i].state = "pending" /\ i \notin unwritten

\* What the table and the history say of it.
Recorded(i) ==
    /\ hist[i].performed + hist[i].hooks <= 1 /\ hist[i].guesses <= lim.attempts
    /\ row[i].state = "approved" => hist[i].performed = 1
    /\ hist[i].performed = 1 => row[i].state \in {"approved", "none"}
    /\ i \in time.old => row[i].state # "pending"
    /\ entry[i].in = "reserved" => create[i] \in {"window", "code", "store"}

Place(i) == NotMade(i) /\ LiveWaits(i) /\ TailOwns(i) /\ Recorded(i)
OnePlace == \A i \in Approvals : Place(i)

\* Goroutines between two sections of s.mu.
WorkItems == [id : Approvals, h : Nat, step : {"decide", "reopen", "start", "attach"}, kind : Answers \cup {"open"}]
Attaching == {w \in work : w.step = "attach"}

\* Handles are given out in order; a dialog is watched only for an approval that was
\* made; and one that waits to be attached runs, unwatched and known to nobody else.
WindowsInOrder ==
    /\ \A d \in dialogs : d \in Approvals \X Nat /\ d[2] <= used.windows
    /\ \A d \in watched : create[d[1]] = "made"
    /\ \A i \in Approvals : entry[i].handle <= used.windows
    /\ \A w \in work : create[w.id] = "made"
    /\ \A w \in Attaching : /\ <<w.id, w.h>> \in dialogs /\ <<w.id, w.h>> \notin watched
                            /\ entry[w.id].handle # w.h /\ w.h # 0
    /\ \A v, w \in Attaching : v.h = w.h => v = w

HistRows == [hooks : Nat, performed : Nat, guesses : Nat]

LimOK ==
    /\ lim.ids \subseteq Approvals /\ lim.attempts \in Nat \ {0}
    /\ lim.pending \in Nat /\ lim.wrong \in Nat /\ lim.windows \in Nat

Types ==
    /\ ApprovalTypeOK /\ LimOK
    /\ hist \in [Approvals -> HistRows]
    /\ wrongCodes \in Nat /\ used \in [windows : Nat, opens : Nat, faults : Nat]
    /\ work \subseteq WorkItems /\ unwritten \subseteq Approvals
    /\ time \in [aged : SUBSET Approvals, hour : SUBSET Approvals, old : SUBSET Approvals]

SlotsFinite == IsFiniteSet(Pending) /\ Cardinality(Pending) <= lim.pending

\* The inductive invariant.
ApprovalInv == Types /\ OnePlace /\ WindowsInOrder /\ NothingPendingWhileLocked /\ SlotsFinite

-----------------------------------------------------------------------------
(* Facts that many actions share                                           *)

\* What the invariant says of the types of table, entries and goroutines.
LEMMA Typed ==
    ASSUME ApprovalInv
    PROVE  /\ row \in [Approvals -> ApprovalRows] /\ entry \in [Approvals -> ApprovalEntries]
           /\ hist \in [Approvals -> HistRows] /\ create \in [Approvals -> CreateSteps]
           /\ tail \in [Approvals -> Tails]
           /\ watched \subseteq dialogs /\ work \subseteq WorkItems /\ unwritten \subseteq Approvals
BY DEF ApprovalInv, Types, ApprovalTypeOK

\* The fields of an approval's rows.
LEMMA Fields ==
    ASSUME ApprovalInv, NEW i \in Approvals
    PROVE  /\ row[i].attempts \in Nat /\ row[i].state \in Decided \cup {"none", "pending"}
           /\ hist[i].performed \in Nat /\ hist[i].hooks \in Nat /\ hist[i].guesses \in Nat
           /\ entry[i].in \in {"none", "reserved", "live"} /\ entry[i].handle \in Nat
           /\ entry[i].attempts \in Nat
<1>1. row[i] \in ApprovalRows /\ entry[i] \in ApprovalEntries /\ hist[i] \in HistRows
  BY Typed
<1> QED
  BY <1>1 DEF ApprovalRows, ApprovalEntries, HistRows, Decided

\* What a wrong code writes to an entry.
LEMMA EntryCounts ==
    ASSUME NEW e \in ApprovalEntries, NEW n \in Nat
    PROVE  [e EXCEPT !.handle = 0, !.attempts = n] \in ApprovalEntries
BY DEF ApprovalEntries

\* The fields of an entry of s.pending.
LEMMA EntryFields ==
    ASSUME NEW e \in ApprovalEntries
    PROVE  /\ [e EXCEPT !.handle = 0, !.attempts = @ + 1] \in ApprovalEntries
           /\ [e EXCEPT !.handle = 0, !.attempts = @ + 1].in = e.in
           /\ [e EXCEPT !.handle = 0, !.attempts = @ + 1].handle = 0
<1>1. [e EXCEPT !.handle = 0, !.attempts = @ + 1] = [e EXCEPT !.handle = 0, !.attempts = e.attempts + 1]
  BY DEF ApprovalEntries
<1>2. e.attempts \in Nat
  BY DEF ApprovalEntries
<1>3. e.attempts + 1 \in Nat
  BY <1>2
<1>4. [e EXCEPT !.handle = 0, !.attempts = e.attempts + 1] \in ApprovalEntries
  BY <1>3, EntryCounts
<1>5. /\ [e EXCEPT !.handle = 0, !.attempts = @ + 1].in = e.in
      /\ [e EXCEPT !.handle = 0, !.attempts = @ + 1].handle = 0
  BY DEF ApprovalEntries
<1> QED
  BY <1>1, <1>4, <1>5

\* An approval without an entry.
LEMMA NoEntryIsTyped == NoEntry \in ApprovalEntries /\ NoEntry.in = "none" /\ NoEntry.handle = 0
BY DEF NoEntry, ApprovalEntries

\* A step that does nothing to an approval leaves it in its place.
Untouched(i) ==
    /\ create'[i] = create[i] /\ entry'[i].in = entry[i].in /\ tail'[i] = tail[i]
    /\ row'[i] = row[i] /\ hist'[i] = hist[i]
    /\ (i \in unwritten' <=> i \in unwritten) /\ (i \in time'.old <=> i \in time.old)

\* An approval that a step leaves alone keeps its place.
LEMMA PlaceFrame ==
    ASSUME NEW i \in Approvals, Place(i), Untouched(i), lim' = lim PROVE Place(i)'
BY DEF Place, NotMade, LiveWaits, TailOwns, Recorded, Untouched

\* An approval leaves s.pending: a tail has it, or its action was performed.
Leaves(i) ==
    /\ entry[i].in = "live" /\ entry'[i].in = "none" /\ create'[i] = create[i]
    /\ hist'[i].hooks = hist[i].hooks /\ hist'[i].performed = hist[i].performed
    /\ hist'[i].guesses \in {hist[i].guesses, hist[i].guesses + 1}
    /\ tail'[i] \in {"row", "hook", "expire"}
    /\ tail'[i] \in {"row", "expire"} => row'[i].state = row[i].state
    /\ tail'[i] = "hook" => row'[i].state \in {"rejected", "expired"}
    /\ (i \in unwritten' <=> i \in unwritten) /\ (i \in time'.old <=> i \in time.old)

\* An entry that is dropped to a tail gives its place to it (takePending, lockAll).
LEMMA PlaceLeft ==
    ASSUME ApprovalInv, NEW i \in Approvals, Leaves(i), lim' = lim PROVE Place(i)'
<1>1. Place(i) /\ lim.attempts \in Nat
  BY DEF ApprovalInv, OnePlace, Types, LimOK
<1>2. create'[i] = "made"
  BY <1>1 DEF Place, NotMade, Leaves
<1>3. NotMade(i)' /\ LiveWaits(i)'
  BY <1>2 DEF NotMade, LiveWaits, Leaves
<1>4. TailOwns(i)'
  BY <1>1 DEF Place, LiveWaits, TailOwns, Leaves
<1>5. Recorded(i)'
  BY <1>1, <1>2, Fields DEF Place, LiveWaits, Recorded, Leaves
<1> QED
  BY <1>3, <1>4, <1>5 DEF Place

\* A row decided long ago is pruned.
LEMMA PlacePruned ==
    ASSUME ApprovalInv, NEW i \in Approvals, i \in time.old, lim' = lim,
           create'[i] = create[i], entry'[i].in = entry[i].in, tail'[i] = tail[i], hist'[i] = hist[i],
           row'[i] = [row[i] EXCEPT !.state = "none"],
           i \in unwritten' <=> i \in unwritten, i \in time'.old
    PROVE  Place(i)'
<1>1. Place(i) /\ row[i] \in ApprovalRows
  BY Typed DEF ApprovalInv, OnePlace
<1>2. row'[i].state = "none" /\ row'[i].attempts = row[i].attempts
  BY <1>1 DEF ApprovalRows
<1>3. create[i] = "made" /\ entry[i].in # "live" /\ tail[i] \notin {"row", "expire"}
  BY <1>1 DEF Place, NotMade, LiveWaits, TailOwns, Recorded
<1> QED
  BY <1>1, <1>2, <1>3 DEF Place, NotMade, LiveWaits, TailOwns, Recorded

\* The table of slots and the lock.
LEMMA SlotsFewer == ASSUME ApprovalInv, Pending' \subseteq Pending, lim' = lim PROVE SlotsFinite'
<1>1. IsFiniteSet(Pending') /\ Cardinality(Pending') <= Cardinality(Pending)
  BY FS_Subset DEF ApprovalInv, SlotsFinite
<1>2. Cardinality(Pending) \in Nat /\ Cardinality(Pending') \in Nat /\ lim.pending \in Nat
  BY <1>1, FS_CardinalityType DEF ApprovalInv, SlotsFinite, Types, LimOK
<1> QED
  BY <1>1, <1>2 DEF ApprovalInv, SlotsFinite

\* Freed slots keep the limit, and a locked store stays empty.
LEMMA SlotsShrink ==
    ASSUME ApprovalInv, Pending' \subseteq Pending, lim' = lim, wrongCodes' = wrongCodes
    PROVE  NothingPendingWhileLocked' /\ SlotsFinite'
<1>1. NothingPendingWhileLocked'
  BY DEF ApprovalInv, NothingPendingWhileLocked
<1> QED
  BY <1>1, SlotsFewer

\* Dialogs end, watches end and goroutines finish.
WorkShrinks ==
    /\ work' \subseteq WorkItems /\ Attaching' \subseteq Attaching
    /\ \A w \in work' : create[w.id] = "made"

\* Closing windows keeps the order of the others.
LEMMA WindowsShrink ==
    ASSUME ApprovalInv, WorkShrinks, dialogs' \subseteq dialogs, watched' \subseteq watched,
           \A d \in dialogs : d \notin dialogs' =>
               d[2] = entry[d[1]].handle \/ d \in watched \/ create[d[1]] # "made",
           used'.windows = used.windows,
           \A i \in Approvals : entry'[i].handle \in {0, entry[i].handle},
           \A i \in Approvals : create[i] = "made" => create'[i] = "made"
    PROVE  WindowsInOrder'
<1>0. used.windows \in Nat
  BY DEF ApprovalInv, Types
<1>1. \A d \in dialogs' : d \in Approvals \X Nat /\ d[2] <= used'.windows
  BY DEF ApprovalInv, WindowsInOrder
<1>2. \A d \in watched' : create'[d[1]] = "made"
  BY Typed DEF ApprovalInv, WindowsInOrder
<1>3. \A i \in Approvals : entry'[i].handle <= used'.windows
  BY <1>0 DEF ApprovalInv, WindowsInOrder
<1>4. \A w \in work' : w.id \in Approvals /\ create'[w.id] = "made"
  BY DEF WorkShrinks, WorkItems
<1>5. ASSUME NEW w \in Attaching'
      PROVE  /\ <<w.id, w.h>> \in dialogs' /\ <<w.id, w.h>> \notin watched'
             /\ entry'[w.id].handle # w.h /\ w.h # 0
  <2>1. w \in Attaching /\ w \in work /\ w.id \in Approvals
    BY <1>4 DEF WorkShrinks, Attaching
  <2>2. /\ <<w.id, w.h>> \in dialogs /\ <<w.id, w.h>> \notin watched
        /\ entry[w.id].handle # w.h /\ w.h # 0 /\ create[w.id] = "made"
    BY <2>1 DEF ApprovalInv, WindowsInOrder
  <2> QED
    BY <2>1, <2>2
<1>6. \A v, w \in Attaching' : v.h = w.h => v = w
  BY DEF ApprovalInv, WindowsInOrder, WorkShrinks
<1> QED
  BY <1>1, <1>2, <1>3, <1>4, <1>5, <1>6 DEF WindowsInOrder

\* A step that leaves the goroutines alone.
LEMMA WorkFrame == ASSUME ApprovalInv, work' = work PROVE WorkShrinks
BY Typed DEF ApprovalInv, WindowsInOrder, WorkShrinks, Attaching

\* What drop does to the entries of S and to their dialogs.
LEMMA Dropped ==
    ASSUME ApprovalInv, NEW S \in SUBSET Approvals, drop(S)
    PROVE  /\ entry' \in [Approvals -> ApprovalEntries]
           /\ \A i \in Approvals : /\ i \in S => entry'[i].in = "none" /\ entry'[i].handle = 0
                                   /\ i \notin S => entry'[i] = entry[i]
           /\ dialogs' \subseteq dialogs /\ watched' \subseteq watched /\ watched' \subseteq dialogs'
           /\ \A d \in dialogs : d \notin dialogs' => d[2] = entry[d[1]].handle
           /\ Pending' \subseteq Pending
<1>1. /\ entry' \in [Approvals -> ApprovalEntries]
      /\ \A i \in Approvals : /\ i \in S => entry'[i] = NoEntry
                              /\ i \notin S => entry'[i] = entry[i]
  BY Typed, NoEntryIsTyped DEF drop
<1>2. \A i \in Approvals : i \in S => entry'[i].in = "none" /\ entry'[i].handle = 0
  BY <1>1, NoEntryIsTyped
<1>3. dialogs' \subseteq dialogs /\ watched' \subseteq watched
  BY DEF drop
<1>4. ASSUME NEW d \in dialogs, d \notin dialogs' PROVE d[1] \in S /\ d[2] = entry[d[1]].handle
  BY <1>4 DEF drop
<1>5. watched' \subseteq dialogs'
  BY <1>4, Typed DEF drop, Watches
<1>6. Pending' \subseteq Pending
  BY <1>1, <1>2 DEF Pending
<1> QED
  BY <1>1, <1>2, <1>3, <1>4, <1>5, <1>6

\* A step that takes the approvals of S out of s.pending and leaves the others alone.
LEMMA TakingKeeps ==
    ASSUME ApprovalInv, NEW S \in SUBSET Approvals, drop(S), WorkShrinks,
           \A i \in S : Leaves(i) \/ Place(i)',
           \A i \in Approvals \ S : Place(i)',
           row' \in [Approvals -> ApprovalRows], hist' \in [Approvals -> HistRows], tail' \in [Approvals -> Tails],
           used' \in [windows : Nat, opens : Nat, faults : Nat], used'.windows = used.windows,
           UNCHANGED <<lim, create, unwritten, wrongCodes, time>>
    PROVE  ApprovalInv'
<1>1. Types'
  BY Dropped DEF ApprovalInv, Types, ApprovalTypeOK, LimOK, WorkShrinks
<1>2. OnePlace'
  BY PlaceLeft DEF OnePlace
<1>3. \A i \in Approvals : entry'[i].handle \in {0, entry[i].handle}
  BY Dropped
<1>4. WindowsInOrder'
  BY <1>3, WindowsShrink, Dropped
<1>5. NothingPendingWhileLocked' /\ SlotsFinite'
  BY Dropped, SlotsShrink
<1> QED
  BY <1>1, <1>2, <1>4, <1>5 DEF ApprovalInv

\* The counters of windows and failed writes keep their types.
LEMMA UsedKept ==
    ASSUME ApprovalInv, Ok \/ Fault
    PROVE  used' \in [windows : Nat, opens : Nat, faults : Nat] /\ used'.windows = used.windows
BY DEF ApprovalInv, Types, Ok, Fault

\* What SetRows leaves of the table.
LEMMA RowsSet ==
    ASSUME ApprovalInv, NEW S \in SUBSET Approvals, NEW state \in Decided, SetRows(S, state)
    PROVE  /\ row' \in [Approvals -> ApprovalRows]
           /\ \A i \in Approvals : /\ i \in S => row'[i].state = state
                                   /\ i \notin S => row'[i] = row[i]
BY Typed DEF SetRows, ApprovalRows, Decided

\* What SetTail leaves of the decisions under way.
LEMMA TailsSet ==
    ASSUME ApprovalInv, NEW S \in SUBSET Approvals, NEW what \in Tails, SetTail(S, what)
    PROVE  /\ tail' \in [Approvals -> Tails]
           /\ \A i \in Approvals : tail'[i] = IF i \in S THEN what ELSE tail[i]
BY Typed DEF SetTail

\* An approval that is no part of S stays in its place.
LEMMA OthersStay ==
    ASSUME ApprovalInv, NEW i \in Approvals, entry'[i].in = entry[i].in, tail'[i] = tail[i], row'[i] = row[i],
           hist'[i] = hist[i], UNCHANGED <<lim, create, unwritten, time>>
    PROVE  Place(i)'
BY PlaceFrame DEF ApprovalInv, OnePlace, Untouched

-----------------------------------------------------------------------------
(* Deciding                                                                *)

\* takePending: the row follows outside s.mu.
LEMMA TakePendingKeeps ==
    ASSUME ApprovalInv, NEW i \in Approvals, takePending(i), WorkShrinks,
           UNCHANGED <<lim, row, create, unwritten, wrongCodes, time, used, hist>>
    PROVE  ApprovalInv'
<1>1. drop({i}) /\ SetTail({i}, "row") /\ entry[i].in = "live" /\ "row" \in Tails
  BY DEF takePending, Live, Tails
<1>2. Leaves(i)
  BY <1>1, Dropped, TailsSet DEF Leaves
<1>3. \A j \in Approvals \ {i} : Place(j)'
  BY <1>1, Dropped, TailsSet, OthersStay
<1> QED
  BY <1>1, <1>2, <1>3, Typed, TailsSet, TakingKeeps, UsedKept DEF Ok

\* Reject and RejectSubjects keep the invariant.
LEMMA RejectKeeps == ASSUME ApprovalInv, NEW i \in Approvals, Reject(i) \/ RejectSubjects(i) PROVE ApprovalInv'
BY TakePendingKeeps, WorkFrame DEF Reject, RejectSubjects

\* expireNow's take keeps the invariant.
LEMMA ExpireNowKeeps == ASSUME ApprovalInv, NEW i \in Approvals, ExpireNow(i) PROVE ApprovalInv'
<1>1. drop({i}) /\ SetTail({i}, "expire") /\ entry[i].in = "live" /\ "expire" \in Tails
  BY DEF ExpireNow, Live, Tails
<1>2. Leaves(i)
  BY <1>1, Dropped, TailsSet DEF Leaves, ExpireNow
<1>3. \A j \in Approvals \ {i} : Place(j)'
  BY <1>1, Dropped, TailsSet, OthersStay DEF ExpireNow
<1> QED
  BY <1>1, <1>2, <1>3, Typed, TailsSet, TakingKeeps, UsedKept, WorkFrame DEF Ok, ExpireNow

\* A sweep: the rows are written before the approvals are forgotten.
LEMMA SweepKeeps ==
    ASSUME ApprovalInv, NEW S \in SUBSET Live, SetRows(S, "expired"), drop(S), SetTail(S, "hook"), Ok \/ Fault,
           WorkShrinks, UNCHANGED <<lim, create, unwritten, wrongCodes, time, hist>>
    PROVE  ApprovalInv'
<1>1. /\ S \in SUBSET Approvals /\ "hook" \in Tails /\ "expired" \in Decided
      /\ \A i \in S : i \in Approvals /\ entry[i].in = "live"
  BY DEF Live, Tails, Decided
<1>2. \A i \in S : Leaves(i)
  BY <1>1, Dropped, TailsSet, RowsSet DEF Leaves
<1>3. \A j \in Approvals \ S : Place(j)'
  BY <1>1, Dropped, TailsSet, RowsSet, OthersStay
<1> QED
  BY <1>1, <1>2, <1>3, Typed, TailsSet, RowsSet, TakingKeeps, UsedKept

\* List's sweep keeps the invariant.
LEMMA ListKeeps == ASSUME ApprovalInv, List PROVE ApprovalInv'
BY SweepKeeps, WorkFrame DEF List, sweepExpiredLocked, Expired

\* A step that decides nothing: entries keep their places, windows may close.
Times == [aged : SUBSET Approvals, hour : SUBSET Approvals, old : SUBSET Approvals]

\* A step that decides nothing and opens no window keeps the invariant.
LEMMA QuietKeeps ==
    ASSUME ApprovalInv, WorkShrinks, entry' \in [Approvals -> ApprovalEntries],
           \A i \in Approvals : entry'[i].in = entry[i].in /\ entry'[i].handle \in {0, entry[i].handle},
           used' \in [windows : Nat, opens : Nat, faults : Nat], used'.windows = used.windows,
           dialogs' \subseteq dialogs, watched' \subseteq watched, watched' \subseteq dialogs',
           \A d \in dialogs : d \notin dialogs' => d[2] = entry[d[1]].handle \/ d \in watched,
           time' \in Times, time'.old = time.old,
           UNCHANGED <<lim, row, create, tail, unwritten, wrongCodes, hist>>
    PROVE  ApprovalInv'
<1>1. Types'
  BY DEF ApprovalInv, Types, ApprovalTypeOK, LimOK, WorkShrinks, Times
<1>2. OnePlace'
  BY PlaceFrame DEF ApprovalInv, OnePlace, Untouched
<1>3. WindowsInOrder'
  BY WindowsShrink
<1>4. Pending' \subseteq Pending
  BY DEF Pending
<1> QED
  BY <1>1, <1>2, <1>3, <1>4, SlotsShrink DEF ApprovalInv

\* Nothing happens to the approvals and their windows.
LEMMA IdleKeeps ==
    ASSUME ApprovalInv, WorkShrinks, Ok \/ Fault, time' \in Times, time'.old = time.old,
           UNCHANGED <<lim, row, entry, create, dialogs, watched, tail, unwritten, wrongCodes, hist>>
    PROVE  ApprovalInv'
BY QuietKeeps, UsedKept, Typed

\* The clock's marks on approvals.
LEMMA TimeTyped == ASSUME ApprovalInv PROVE time \in Times
BY DEF ApprovalInv, Types, Times

\* Which approvals are live.
LEMMA LiveIn == \A i : i \in Live <=> i \in Approvals /\ entry[i].in = "live"
BY DEF Live

\* confirm with the right code.
LEMMA ConfirmRightKeeps ==
    ASSUME ApprovalInv, NEW i \in Live, ConfirmRight(i), WorkShrinks, UNCHANGED <<lim, create, unwritten, time>>
    PROVE  ApprovalInv'
<1>0. i \in Approvals /\ entry[i].in = "live" /\ entry[i] \in ApprovalEntries
  BY LiveIn, Typed
<1>1. ASSUME NEW timer \in {"off", "armed"}, Fault,
             entry' = [entry EXCEPT ![i] = [StopTimer(@) EXCEPT !.handle = 0,
                                                !.timer = IF @ = "fired" THEN @ ELSE timer]],
             UNCHANGED <<row, dialogs, watched, tail, hist, wrongCodes>>
      PROVE  ApprovalInv'
  <2>1. /\ entry' \in [Approvals -> ApprovalEntries]
        /\ \A j \in Approvals : entry'[j].in = entry[j].in /\ entry'[j].handle \in {0, entry[j].handle}
    BY <1>0, <1>1, Typed DEF StopTimer, ApprovalEntries
  <2> QED
    BY <1>1, <2>1, QuietKeeps, UsedKept, TimeTyped, Typed
<1>2. CASE Ok /\ drop({i}) /\ SetTail({i}, "row") /\ UNCHANGED <<row, hist, wrongCodes>>
  BY <1>0, <1>2, TakePendingKeeps DEF takePending, Ok
<1>3. CASE /\ Ok /\ SetRows({i}, "approved") /\ drop({i})
           /\ hist' = [hist EXCEPT ![i].performed = @ + 1]
           /\ UNCHANGED <<tail, wrongCodes>>
  <2>1. hist' \in [Approvals -> HistRows] /\ (\A j \in Approvals : j # i => hist'[j] = hist[j])
    <3>1. hist \in [Approvals -> HistRows] /\ [hist[i] EXCEPT !.performed = @ + 1] \in HistRows
      BY <1>0, Typed DEF HistRows
    <3> QED
      BY <1>3, <3>1
  <2>2. /\ hist'[i].performed = hist[i].performed + 1 /\ hist'[i].hooks = hist[i].hooks
        /\ hist'[i].guesses = hist[i].guesses
    BY <1>0, <1>3, Typed DEF HistRows
  <2>3. "approved" \in Decided /\ {i} \in SUBSET Approvals
    BY <1>0 DEF Decided
  <2>4. row'[i].state = "approved" /\ entry'[i].in = "none"
    BY <1>3, <2>3, RowsSet, Dropped
  <2>5. Place(i)'
    <3>1. Place(i)
      BY <1>0 DEF ApprovalInv, OnePlace
    <3>2. create[i] = "made" /\ hist'[i].performed = 1 /\ hist'[i].hooks = 0 /\ tail[i] = "none" /\ i \notin time.old
      BY <1>0, <2>2, <3>1 DEF Place, NotMade, LiveWaits, Recorded
    <3> QED
      BY <1>3, <2>2, <2>4, <3>1, <3>2 DEF Place, NotMade, LiveWaits, TailOwns, Recorded
  <2>6. \A j \in Approvals \ {i} : Place(j)'
    BY <1>3, <2>1, <2>3, Dropped, RowsSet, OthersStay
  <2> QED
    BY <1>3, <2>1, <2>3, <2>5, <2>6, Typed, RowsSet, TakingKeeps, UsedKept
<1> QED
  BY <1>1, <1>2, <1>3 DEF ConfirmRight

\* confirm with a wrong code, counted in the table: the last attempt takes the
\* approval, the last wrong code of the day takes everything that waits.
WrongStep(i, rejected, gone, others) ==
    /\ Ok /\ wrongCodes' = wrongCodes + 1
    /\ hist' = [hist EXCEPT ![i].guesses = @ + 1]
    /\ gone = (IF rejected THEN {i} ELSE {}) \cup (IF wrongCodes + 1 >= lim.wrong THEN Pending ELSE {})
    /\ others = gone \cap (Live \ (IF rejected THEN {i} ELSE {}))
    /\ row' = [row EXCEPT ![i] = [attempts |-> row[i].attempts + 1,
                                  state |-> IF rejected THEN "rejected" ELSE @.state]]
    /\ tail' = [j \in Approvals |-> IF j \in others THEN "row"
                                    ELSE IF j = i /\ rejected THEN "hook" ELSE tail[j]]
    /\ entry' = [j \in Approvals |->
                    IF j \in gone THEN NoEntry
                    ELSE IF j = i THEN [entry[i] EXCEPT !.handle = 0, !.attempts = @ + 1] ELSE entry[j]]
    /\ dialogs' = dialogs \ {<<j, entry[j].handle>> : j \in others \cup (IF rejected THEN {i} ELSE {})}
    /\ watched' = watched \ Watches(gone)

\* A wrong code is counted in the row and in the entry alike.
LEMMA WrongCounted ==
    ASSUME ApprovalInv, NEW i \in Live, WorkShrinks, UNCHANGED <<lim, create, unwritten, time>>,
           NEW rejected \in BOOLEAN, NEW gone, NEW others,
           ~rejected => row[i].attempts + 1 < lim.attempts,
           WrongStep(i, rejected, gone, others)
    PROVE  ApprovalInv'
<1> USE DEF WrongStep
<1>0. i \in Approvals /\ entry[i].in = "live" /\ i \in Pending
  BY LiveIn DEF Pending
<1>1. /\ gone \subseteq Pending /\ others \subseteq gone /\ gone \subseteq Approvals
      /\ (IF rejected THEN {i} ELSE {}) \subseteq gone
      /\ \A j \in others : j \in Live
  BY <1>0 DEF Pending
<1>2. /\ hist' \in [Approvals -> HistRows]
      /\ \A j \in Approvals : j # i => hist'[j] = hist[j]
      /\ hist'[i].guesses = hist[i].guesses + 1
      /\ hist'[i].performed = hist[i].performed /\ hist'[i].hooks = hist[i].hooks
  <2>1. hist \in [Approvals -> HistRows] /\ [hist[i] EXCEPT !.guesses = @ + 1] \in HistRows
    BY <1>0, Typed DEF HistRows
  <2>2. hist' \in [Approvals -> HistRows] /\ hist'[i] = [hist[i] EXCEPT !.guesses = @ + 1]
    BY <1>0, <2>1
  <2>3. hist[i] \in HistRows
    BY <1>0, <2>1
  <2> QED
    BY <1>0, <2>1, <2>2, <2>3 DEF HistRows
<1>3. /\ row' \in [Approvals -> ApprovalRows]
      /\ \A j \in Approvals : j # i => row'[j] = row[j]
      /\ row'[i].attempts = row[i].attempts + 1
      /\ row'[i].state = IF rejected THEN "rejected" ELSE row[i].state
  <2>1. row[i] \in ApprovalRows
    BY <1>0, Typed
  <2>2. [attempts |-> row[i].attempts + 1, state |-> IF rejected THEN "rejected" ELSE row[i].state] \in ApprovalRows
    BY <2>1 DEF ApprovalRows
  <2> QED
    BY <1>0, <2>2, Typed
<1>4. /\ entry' \in [Approvals -> ApprovalEntries]
      /\ \A j \in gone : entry'[j].in = "none" /\ entry'[j].handle = 0
      /\ \A j \in Approvals \ gone : entry'[j].in = entry[j].in /\ entry'[j].handle \in {0, entry[j].handle}
  <2>0. entry[i] \in ApprovalEntries
    BY <1>0, Typed
  <2>1. entry[i] \in ApprovalEntries /\ [entry[i] EXCEPT !.handle = 0, !.attempts = @ + 1] \in ApprovalEntries
    BY <1>0, <2>0, Fields, EntryFields
  <2>2. entry' \in [Approvals -> ApprovalEntries]
    BY <2>1, Typed, NoEntryIsTyped
  <2>3. \A j \in gone : entry'[j] = NoEntry
    BY <1>1
  <2>4. \A j \in Approvals \ gone :
           entry'[j] = entry[j] \/ (j = i /\ entry'[j] = [entry[i] EXCEPT !.handle = 0, !.attempts = @ + 1])
    OBVIOUS
  <2> QED
    BY <1>0, <2>0, <2>2, <2>3, <2>4, NoEntryIsTyped, Fields, EntryFields
<1>5. tail' \in [Approvals -> Tails]
  BY Typed DEF Tails
<1>6. dialogs' \subseteq dialogs /\ watched' \subseteq watched /\ watched' \subseteq dialogs'
  BY <1>1, Typed DEF Watches
<1>7. \A d \in dialogs : d \notin dialogs' => d[2] = entry[d[1]].handle
  OBVIOUS
<1>8. Types'
  <2>1. wrongCodes' \in Nat
    BY DEF ApprovalInv, Types
  <2> QED
    BY <1>2, <1>3, <1>4, <1>5, <1>6, <2>1, UsedKept DEF ApprovalInv, Types, ApprovalTypeOK, LimOK, WorkShrinks
<1>9. ASSUME NEW j \in Approvals PROVE Place(j)'
  <2>0. Place(j)
    BY DEF ApprovalInv, OnePlace
  <2>1. CASE j \in others \/ (j = i /\ rejected)
    <3>1. entry[j].in = "live" /\ j \in gone
      BY <1>0, <1>1, <2>1, LiveIn
    <3>2. Leaves(j)
      BY <1>0, <1>1, <1>2, <1>3, <1>4, <2>1, <3>1 DEF Leaves
    <3> QED
      BY <3>2, PlaceLeft
  <2>2. CASE j = i /\ ~rejected /\ j \notin others
    <3>1. j \notin gone /\ entry'[i].in = "live" /\ tail'[i] = tail[i]
      BY <1>0, <1>1, <1>4, <2>2
    <3>2. hist[i].guesses = row[i].attempts /\ hist[i].guesses + 1 < lim.attempts
      BY <1>0, <2>0, <2>2 DEF Place, LiveWaits
    <3>3. NotMade(i)' /\ LiveWaits(i)'
      BY <1>0, <1>2, <1>3, <2>0, <2>2, <3>1, <3>2 DEF Place, NotMade, LiveWaits
    <3>4. TailOwns(i)'
      BY <1>0, <2>0, <2>2, <3>1 DEF Place, LiveWaits, TailOwns
    <3>5. hist[i].guesses + 1 <= lim.attempts
      BY <1>0, <3>2, Fields DEF ApprovalInv, Types, LimOK
    <3>6. Recorded(i)'
      BY <1>0, <1>2, <1>3, <2>0, <2>2, <3>1, <3>5 DEF Place, LiveWaits, Recorded
    <3> QED
      BY <2>2, <3>3, <3>4, <3>6 DEF Place
  <2>3. CASE j # i /\ j \notin others /\ j \in gone
    <3>1. entry[j].in = "reserved" /\ entry'[j].in = "none"
      BY <1>1, <1>4, <2>3, Fields DEF Pending, Live
    <3> QED
      BY <1>2, <1>3, <2>0, <2>3, <3>1 DEF Place, NotMade, LiveWaits, TailOwns, Recorded
  <2>4. CASE j # i /\ j \notin gone
    BY <1>1, <1>2, <1>3, <1>4, <2>4, OthersStay
  <2> QED
    BY <1>1, <2>1, <2>2, <2>3, <2>4
<1>10. WindowsInOrder'
  BY <1>1, <1>4, <1>6, <1>7, UsedKept, WindowsShrink
<1>11. Pending' \subseteq Pending
  BY <1>1, <1>4 DEF Pending
<1>12. NothingPendingWhileLocked'
  <2>1. CASE wrongCodes + 1 >= lim.wrong
    BY ZenonT(30), <1>1, <1>4, <2>1 DEF Pending, NothingPendingWhileLocked
  <2>2. CASE ~(wrongCodes + 1 >= lim.wrong)
    BY <2>2 DEF NothingPendingWhileLocked
  <2> QED
    BY <2>1, <2>2
<1> QED
  BY <1>8, <1>9, <1>10, <1>11, <1>12, SlotsFewer DEF ApprovalInv, OnePlace

\* confirm with a wrong code that could not be counted drops the approval.
LEMMA ConfirmWrongKeeps ==
    ASSUME ApprovalInv, NEW i \in Live, ConfirmWrong(i), WorkShrinks, UNCHANGED <<lim, create, unwritten, time>>
    PROVE  ApprovalInv'
<1>0. i \in Approvals /\ entry[i].in = "live" /\ row[i].attempts \in Nat /\ lim.attempts \in Nat
  BY LiveIn, Fields DEF ApprovalInv, Types, LimOK
<1>1. CASE Fault /\ drop({i}) /\ SetTail({i}, "row") /\ UNCHANGED <<row, wrongCodes>>
  <2>1. hist' = [hist EXCEPT ![i].guesses = @ + 1] /\ "row" \in Tails /\ {i} \in SUBSET Approvals
    BY <1>0 DEF ConfirmWrong, Tails
  <2>2. /\ hist' \in [Approvals -> HistRows]
        /\ \A j \in Approvals : j # i => hist'[j] = hist[j]
        /\ hist'[i].guesses = hist[i].guesses + 1
        /\ hist'[i].performed = hist[i].performed /\ hist'[i].hooks = hist[i].hooks
    <3>1. hist \in [Approvals -> HistRows] /\ hist[i] \in HistRows
      BY <1>0, Typed
    <3>2. [hist[i] EXCEPT !.guesses = @ + 1] \in HistRows
      BY <3>1 DEF HistRows
    <3>3. hist' \in [Approvals -> HistRows] /\ hist'[i] = [hist[i] EXCEPT !.guesses = @ + 1]
      BY <1>0, <2>1, <3>1, <3>2
    <3> QED
      BY <1>0, <2>1, <3>1, <3>3 DEF HistRows
  <2>3. Leaves(i)
    BY <1>0, <1>1, <2>1, <2>2, Dropped, TailsSet DEF Leaves
  <2>4. \A j \in Approvals \ {i} : Place(j)'
    BY <1>1, <2>1, <2>2, Dropped, TailsSet, OthersStay
  <2> QED
    BY <1>1, <2>1, <2>2, <2>3, <2>4, Typed, TailsSet, TakingKeeps, UsedKept
<1>2. CASE ~(Fault /\ drop({i}) /\ SetTail({i}, "row") /\ UNCHANGED <<row, wrongCodes>>)
  <2> DEFINE rejected == row[i].attempts + 1 >= lim.attempts \/ entry[i].attempts + 1 >= lim.attempts
             gone == (IF rejected THEN {i} ELSE {}) \cup (IF wrongCodes + 1 >= lim.wrong THEN Pending ELSE {})
             others == gone \cap (Live \ (IF rejected THEN {i} ELSE {}))
  <2>1. WrongStep(i, rejected, gone, others)
    BY <1>2, Zenon DEF ConfirmWrong, recordBadCode, WrongStep
  <2>2. rejected \in BOOLEAN /\ (~rejected => row[i].attempts + 1 < lim.attempts)
    BY <1>0
  <2> HIDE DEF rejected, gone, others
  <2> QED
    BY <2>1, <2>2, WrongCounted, Zenon
<1> QED
  BY <1>1, <1>2

\* confirm, whatever the code and wherever the approval is.
LEMMA ConfirmKeeps ==
    ASSUME ApprovalInv, NEW i \in Approvals, NEW code, confirm(i, code), WorkShrinks,
           UNCHANGED <<lim, create, unwritten, time>>
    PROVE  ApprovalInv'
<1>1. CASE i \notin Live
  BY <1>1, IdleKeeps, TimeTyped DEF confirm
<1>2. CASE i \in Live /\ i \in time.aged
  <2>1. ConfirmExpired(i)
    BY <1>2 DEF confirm
  <2>2. CASE Fault /\ UNCHANGED <<row, entry, dialogs, watched, tail, wrongCodes, hist>>
    BY <2>2, IdleKeeps, TimeTyped
  <2>3. CASE Ok /\ SetRows({i}, "expired") /\ drop({i}) /\ SetTail({i}, "hook") /\ UNCHANGED <<wrongCodes, hist>>
    BY <1>2, <2>3, SweepKeeps
  <2> QED
    BY <2>1, <2>2, <2>3 DEF ConfirmExpired
<1>3. CASE i \in Live /\ i \notin time.aged
  BY <1>3, ConfirmRightKeeps, ConfirmWrongKeeps DEF confirm
<1> QED
  BY <1>1, <1>2, <1>3

\* Confirm from the terminal keeps the invariant.
LEMMA TerminalConfirmKeeps ==
    ASSUME ApprovalInv, NEW i \in Approvals, NEW code, TerminalConfirm(i, code) PROVE ApprovalInv'
BY ConfirmKeeps, WorkFrame DEF TerminalConfirm

-----------------------------------------------------------------------------
(* What follows a decision                                                 *)

\* A step of a tail keeps the invariant when every approval keeps its place.
LEMMA TailsKeep ==
    ASSUME ApprovalInv, Ok \/ Fault, \A i \in Approvals : Place(i)',
           row' \in [Approvals -> ApprovalRows], tail' \in [Approvals -> Tails], hist' \in [Approvals -> HistRows],
           unwritten' \subseteq Approvals, UNCHANGED <<lim, entry, create, dialogs, watched, work, wrongCodes, time>>
    PROVE  ApprovalInv'
<1>1. Types'
  BY UsedKept DEF ApprovalInv, Types, ApprovalTypeOK, LimOK
<1>2. WindowsInOrder'
  BY UsedKept, WorkFrame, WindowsShrink
<1>3. Pending' \subseteq Pending
  BY DEF Pending
<1> QED
  BY <1>1, <1>2, <1>3, SlotsShrink DEF ApprovalInv, OnePlace

\* An approval with a tail is nobody else's.
LEMMA Tailing ==
    ASSUME ApprovalInv, NEW i \in Approvals, tail[i] # "none"
    PROVE  create[i] = "made" /\ entry[i].in # "live" /\ Place(i)
BY DEF ApprovalInv, OnePlace, Place, NotMade, LiveWaits

\* rejectRow's write keeps the invariant, also when it fails.
LEMMA TailRowKeeps == ASSUME ApprovalInv, NEW i \in Approvals, TailRow(i) PROVE ApprovalInv'
<1>0. /\ tail[i] = "row" /\ SetTail({i}, "hook") /\ (Ok \/ Fault)
      /\ SetRows({i}, "rejected") \/ row' = row
      /\ "hook" \in Tails /\ "rejected" \in Decided /\ {i} \in SUBSET Approvals
  BY DEF TailRow, Tails, Decided
<1>1. /\ tail' \in [Approvals -> Tails] /\ tail'[i] = "hook" /\ \A j \in Approvals : j # i => tail'[j] = tail[j]
  BY <1>0, TailsSet
<1>2. /\ row' \in [Approvals -> ApprovalRows] /\ row'[i].state \in {"rejected", row[i].state}
      /\ \A j \in Approvals : j # i => row'[j] = row[j]
  <2>1. CASE row' = row
    BY <2>1, Typed
  <2>2. CASE SetRows({i}, "rejected")
    BY <1>0, <2>2, RowsSet
  <2> QED
    BY <1>0, <2>1, <2>2
<1>3. Place(i)'
  BY <1>0, <1>1, <1>2, Tailing DEF TailRow, Place, NotMade, LiveWaits, TailOwns, Recorded
<1>4. \A j \in Approvals \ {i} : Place(j)'
  BY <1>1, <1>2, OthersStay DEF TailRow
<1> QED
  BY <1>0, <1>1, <1>2, <1>3, <1>4, Typed, TailsKeep DEF TailRow

\* OnReject keeps the invariant: it has not run before.
LEMMA TailHookKeeps == ASSUME ApprovalInv, NEW i \in Approvals, TailHook(i) PROVE ApprovalInv'
<1>0. tail[i] = "hook" /\ SetTail({i}, "none") /\ "none" \in Tails /\ {i} \in SUBSET Approvals /\ Ok
  BY DEF TailHook, Tails, Ok
<1>1. /\ tail' \in [Approvals -> Tails] /\ tail'[i] = "none" /\ \A j \in Approvals : j # i => tail'[j] = tail[j]
  BY <1>0, TailsSet
<1>2. /\ hist' \in [Approvals -> HistRows]
      /\ \A j \in Approvals : j # i => hist'[j] = hist[j]
      /\ hist'[i].hooks = hist[i].hooks + 1
      /\ hist'[i].performed = hist[i].performed /\ hist'[i].guesses = hist[i].guesses
  <2>1. hist \in [Approvals -> HistRows] /\ hist[i] \in HistRows
    BY Typed
  <2>2. [hist[i] EXCEPT !.hooks = @ + 1] \in HistRows
    BY <2>1 DEF HistRows
  <2>3. hist' \in [Approvals -> HistRows] /\ hist'[i] = [hist[i] EXCEPT !.hooks = @ + 1]
    BY <2>1, <2>2 DEF TailHook
  <2> QED
    BY <2>1, <2>3 DEF HistRows, TailHook
<1>3. hist'[i].hooks = 1 /\ hist'[i].performed = 0
  BY <1>0, <1>2, Tailing DEF Place, TailOwns
<1>4. Place(i)'
  BY <1>0, <1>1, <1>2, <1>3, Tailing DEF TailHook, Place, NotMade, LiveWaits, TailOwns, Recorded
<1>5. \A j \in Approvals \ {i} : Place(j)'
  BY <1>1, <1>2, OthersStay DEF TailHook
<1> QED
  BY <1>0, <1>1, <1>2, <1>4, <1>5, Typed, TailsKeep DEF TailHook

\* What writeExpired leaves of the table and of the list of failed writes.
LEMMA ExpiredWritten ==
    ASSUME ApprovalInv, NEW i \in Approvals, writeExpired(i)
    PROVE  /\ row' \in [Approvals -> ApprovalRows]
           /\ \A j \in Approvals : j # i => row'[j] = row[j]
           /\ row[i].state = "pending" => row'[i].state = "expired"
           /\ row[i].state # "pending" => row'[i] = row[i]
<1>0. "expired" \in Decided /\ {i} \in SUBSET Approvals /\ {} \in SUBSET Approvals
  BY DEF Decided
<1>1. CASE row[i].state = "pending"
  <2>1. SetRows({i}, "expired")
    BY <1>1 DEF writeExpired
  <2> QED
    BY <1>0, <1>1, <2>1, RowsSet
<1>2. CASE row[i].state # "pending"
  <2>1. SetRows({}, "expired")
    BY <1>2 DEF writeExpired
  <2> QED
    BY <1>0, <1>2, <2>1, RowsSet
<1> QED
  BY <1>1, <1>2

\* The write after expireNow's take keeps the invariant.
LEMMA TailExpireKeeps == ASSUME ApprovalInv, NEW i \in Approvals, TailExpire(i) PROVE ApprovalInv'
<1>0. tail[i] = "expire" /\ row[i].state = "pending" /\ "hook" \in Tails /\ {i} \in SUBSET Approvals
  BY Tailing DEF TailExpire, Place, TailOwns, Tails
<1>1. SetTail({i}, "hook") /\ (Ok \/ Fault)
  BY <1>0 DEF TailExpire
<1>2. /\ tail' \in [Approvals -> Tails] /\ tail'[i] = "hook" /\ \A j \in Approvals : j # i => tail'[j] = tail[j]
  BY ZenonT(30), <1>0, <1>1, TailsSet
<1>3. /\ row' \in [Approvals -> ApprovalRows] /\ row'[i].state \in {"expired", row[i].state}
      /\ \A j \in Approvals : j # i => row'[j] = row[j]
  BY <1>0, ExpiredWritten, Typed DEF TailExpire
<1>4. unwritten' \subseteq Approvals /\ \A j \in Approvals : j # i => (j \in unwritten' <=> j \in unwritten)
  BY Typed DEF TailExpire
<1>5. Place(i)'
  BY <1>0, <1>2, <1>3, Tailing DEF TailExpire, Place, NotMade, LiveWaits, TailOwns, Recorded
<1>6. \A j \in Approvals \ {i} : Place(j)'
  BY <1>2, <1>3, <1>4, PlaceFrame DEF ApprovalInv, OnePlace, Untouched, TailExpire
<1> QED
  BY <1>1, <1>2, <1>3, <1>4, <1>5, <1>6, Typed, TailsKeep DEF TailExpire

\* retryExpired keeps the invariant.
LEMMA RetryExpiredKeeps == ASSUME ApprovalInv, NEW i \in Approvals, RetryExpired(i) PROVE ApprovalInv'
<1>0. i \in unwritten /\ (Ok \/ Fault) /\ Place(i)
  BY DEF RetryExpired, ApprovalInv, OnePlace
<1>1. /\ row' \in [Approvals -> ApprovalRows]
      /\ row'[i] = row[i] \/ (row[i].state = "pending" /\ row'[i].state = "expired")
      /\ \A j \in Approvals : j # i => row'[j] = row[j]
  BY ExpiredWritten, Typed DEF RetryExpired
<1>2. unwritten' \subseteq Approvals /\ \A j \in Approvals : j # i => (j \in unwritten' <=> j \in unwritten)
  BY Typed DEF RetryExpired
<1>3. create[i] = "made" /\ entry[i].in # "live" /\ tail[i] \notin {"row", "expire"}
  BY <1>0 DEF Place, NotMade, LiveWaits, TailOwns
<1>4. Place(i)'
  BY <1>0, <1>1, <1>3 DEF RetryExpired, Place, NotMade, LiveWaits, TailOwns, Recorded
<1>5. \A j \in Approvals \ {i} : Place(j)'
  BY <1>1, <1>2, PlaceFrame DEF ApprovalInv, OnePlace, Untouched, RetryExpired
<1> QED
  BY <1>0, <1>1, <1>2, <1>4, <1>5, Typed, TailsKeep DEF RetryExpired

-----------------------------------------------------------------------------
(* Time                                                                    *)

\* The end of an hour keeps the invariant.
LEMMA HourPassesKeeps == ASSUME ApprovalInv, HourPasses PROVE ApprovalInv'
<1>1. time' \in Times /\ time'.old = time.old
  BY TimeTyped DEF HourPasses, Times, Live
<1> QED
  BY <1>1, IdleKeeps, WorkFrame DEF HourPasses, Ok

\* The loss of a precondition keeps the invariant.
LEMMA FactGoneKeeps == ASSUME ApprovalInv, NEW i \in Approvals, FactGone(i) PROVE ApprovalInv'
BY IdleKeeps, WorkFrame, TimeTyped DEF FactGone, Ok

\* The expiry timer keeps the invariant.
LEMMA TimerFiresKeeps == ASSUME ApprovalInv, NEW i \in Approvals, TimerFires(i) PROVE ApprovalInv'
<1>1. /\ entry' \in [Approvals -> ApprovalEntries]
      /\ \A j \in Approvals : entry'[j].in = entry[j].in /\ entry'[j].handle = entry[j].handle
  BY Typed DEF TimerFires, ApprovalEntries
<1> QED
  BY <1>1, QuietKeeps, WorkFrame, TimeTyped, Typed, UsedKept DEF TimerFires, Ok

\* The retention passes: no row that waits is old.
LEMMA MonthPassesKeeps == ASSUME ApprovalInv, MonthPasses PROVE ApprovalInv'
<1>1. /\ time' \in Times
      /\ time'.old = {i \in Approvals : row[i].state \notin {"none", "pending"}}
  BY TimeTyped DEF MonthPasses, Times, Live
<1>2. Types'
  BY <1>1 DEF ApprovalInv, Types, ApprovalTypeOK, LimOK, MonthPasses, Times
<1>3. ASSUME NEW i \in Approvals PROVE Place(i)'
  <2>1. Place(i)
    BY DEF ApprovalInv, OnePlace
  <2>2. i \in time'.old <=> row[i].state \notin {"none", "pending"}
    BY <1>1
  <2>3. NotMade(i)' /\ Recorded(i)'
    BY <2>1, <2>2 DEF MonthPasses, Place, NotMade, Recorded
  <2>4. LiveWaits(i)' /\ TailOwns(i)'
    BY <2>1 DEF MonthPasses, Place, LiveWaits, TailOwns
  <2> QED
    BY <2>3, <2>4 DEF Place
<1>4. WindowsInOrder'
  BY WindowsShrink, WorkFrame DEF MonthPasses
<1>5. Pending' = Pending
  BY DEF Pending, MonthPasses
<1>6. NothingPendingWhileLocked'
  BY <1>5 DEF ApprovalInv, Types, LimOK, NothingPendingWhileLocked, MonthPasses
<1> QED
  BY <1>2, <1>3, <1>4, <1>5, <1>6, SlotsFewer DEF ApprovalInv, OnePlace, MonthPasses

\* Close keeps the invariant.
LEMMA CloseKeeps == ASSUME ApprovalInv, Close PROVE ApprovalInv'
<1>1. /\ entry' \in [Approvals -> ApprovalEntries]
      /\ \A j \in Approvals : entry'[j].in = entry[j].in /\ entry'[j].handle = 0
  BY Typed DEF Close, StopTimer, ApprovalEntries
<1>2. dialogs' \subseteq dialogs /\ watched' \subseteq watched
  BY DEF Close
<1>3. \A d \in dialogs : d \notin dialogs' => d[1] \in Approvals /\ d[2] = entry[d[1]].handle
  BY DEF Close, Pending
<1>4. watched' \subseteq dialogs'
  BY <1>3, Typed DEF Close, Watches
<1> QED
  BY <1>1, <1>2, <1>3, <1>4, QuietKeeps, WorkFrame, TimeTyped, UsedKept DEF Close, Ok

\* A restart: what waited is expired and forgotten.
LEMMA RestartKeeps == ASSUME ApprovalInv, Restart PROVE ApprovalInv'
<1>1. \A i \in Approvals : entry'[i].in = "none" /\ entry'[i].handle = 0 /\ tail'[i] = "none"
  BY NoEntryIsTyped DEF Restart
<1>2. /\ row' \in [Approvals -> ApprovalRows]
      /\ \A i \in Approvals : /\ row'[i].attempts = row[i].attempts /\ row'[i].state # "pending"
                              /\ row'[i].state \in {row[i].state, "expired", "none"}
                              /\ row'[i].state = "expired" => row[i].state \in {"pending", "expired"}
                              /\ row[i].state = "none" => row'[i].state = "none"
  BY Typed DEF Restart, pruneDecided, ApprovalRows
<1>3. /\ create' \in [Approvals -> CreateSteps]
      /\ \A i \in Approvals : create'[i] = "made" <=> create[i] = "made"
  BY Typed DEF Restart, CreateSteps
<1>4. Types'
  <2>1. entry' \in [Approvals -> ApprovalEntries] /\ tail' \in [Approvals -> Tails]
    BY NoEntryIsTyped DEF Restart, Tails
  <2> QED
    BY <1>2, <1>3, <2>1 DEF ApprovalInv, Types, ApprovalTypeOK, LimOK, Restart
<1>5. ASSUME NEW i \in Approvals PROVE Place(i)'
  <2>1. Place(i)
    BY DEF ApprovalInv, OnePlace
  <2>2. NotMade(i)' /\ LiveWaits(i)' /\ TailOwns(i)'
    BY <1>1, <1>2, <1>3, <2>1 DEF Restart, Place, NotMade, LiveWaits, TailOwns
  <2>3. Recorded(i)'
    BY <1>1, <1>2, <2>1 DEF Restart, Place, Recorded
  <2> QED
    BY <2>2, <2>3 DEF Place
<1>6. WindowsInOrder'
  <2>1. used.windows \in Nat
    BY DEF ApprovalInv, Types
  <2> QED
    BY <1>1, <2>1 DEF WindowsInOrder, Attaching, Restart
<1>7. Pending' = {}
  BY <1>1 DEF Pending
<1>8. SlotsFinite' /\ NothingPendingWhileLocked'
  BY <1>7, SlotsFewer DEF NothingPendingWhileLocked, Restart
<1> QED
  BY <1>4, <1>5, <1>6, <1>8 DEF ApprovalInv, OnePlace
=============================================================================
