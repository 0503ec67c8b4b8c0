--------------------------- MODULE ApprovalProofs ---------------------------
(***************************************************************************)
(* Create and the windows keep the invariant of ApprovalInvariant, so every*)
(* step does; and an approval is decided once.                             *)
(***************************************************************************)
EXTENDS ApprovalInvariant

-----------------------------------------------------------------------------
(* Create                                                                  *)

\* The Create call of i goes on, or fails and gives its slot back.
LEMMA CreatingKeeps ==
    ASSUME ApprovalInv, NEW i \in Approvals, create[i] # "made", NEW next \in CreateSteps \ {"made"},
           create' = [create EXCEPT ![i] = next],
           entry' \in [Approvals -> ApprovalEntries], \A j \in Approvals : j # i => entry'[j] = entry[j],
           entry'[i].in \in {"none", entry[i].in}, entry'[i].handle \in {0, entry[i].handle},
           entry'[i].in = "reserved" => next \in {"window", "code", "store"},
           dialogs' \subseteq dialogs, \A d \in dialogs : d \notin dialogs' => d[1] = i,
           Ok \/ Fault,
           UNCHANGED <<lim, row, watched, work, tail, unwritten, wrongCodes, time, hist>>
    PROVE  ApprovalInv'
<1>1. /\ create' \in [Approvals -> CreateSteps] /\ create'[i] = next
      /\ \A j \in Approvals : j # i => create'[j] = create[j]
  BY Typed
<1>2. watched' \subseteq dialogs'
  BY Typed DEF ApprovalInv, WindowsInOrder
<1>3. Types'
  BY <1>1, <1>2, UsedKept DEF ApprovalInv, Types, ApprovalTypeOK, LimOK
<1>4. Place(i)'
  <2>1. Place(i)
    BY DEF ApprovalInv, OnePlace
  <2> QED
    BY <1>1, <2>1 DEF Place, NotMade, LiveWaits, TailOwns, Recorded
<1>5. \A j \in Approvals \ {i} : Place(j)'
  BY <1>1, PlaceFrame DEF ApprovalInv, OnePlace, Untouched
<1>6. WindowsInOrder'
  BY <1>1, WindowsShrink, WorkFrame, UsedKept
<1>7. Pending' \subseteq Pending
  BY DEF Pending
<1> QED
  BY <1>3, <1>4, <1>5, <1>6, <1>7, SlotsShrink DEF ApprovalInv, OnePlace

\* dropReserved gives back the slot of a Create that failed.
LEMMA ReservedDropped ==
    ASSUME ApprovalInv, NEW i \in Approvals, create[i] # "made",
           dropReserved(i) \/ entry' = [entry EXCEPT ![i] = NoEntry]
    PROVE  /\ entry' \in [Approvals -> ApprovalEntries] /\ (\A j \in Approvals : j # i => entry'[j] = entry[j])
           /\ entry'[i].in = "none" /\ entry'[i].handle \in {0, entry[i].handle}
<1>1. Place(i) /\ entry[i] \in ApprovalEntries
  BY Typed DEF ApprovalInv, OnePlace
<1>2. entry[i].in # "reserved" => entry[i].in = "none"
  BY <1>1 DEF Place, NotMade, ApprovalEntries
<1> QED
  BY <1>1, <1>2, NoEntryIsTyped, Typed DEF dropReserved

\* A new dialog gets a handle that nobody has yet.
LEMMA FreshHandle ==
    ASSUME ApprovalInv, NEW i \in Approvals, OpensDialog(i)
    PROVE  /\ NextHandle \in Nat \ {0} /\ NextHandle > used.windows
           /\ used' \in [windows : Nat, opens : Nat, faults : Nat] /\ used'.windows = NextHandle
           /\ dialogs' = dialogs \cup {<<i, NextHandle>>}
           /\ \A d \in dialogs' : d \in Approvals \X Nat /\ d[2] <= NextHandle
           /\ \A j \in Approvals : entry[j].handle <= NextHandle /\ entry[j].handle # NextHandle
           /\ \A w \in Attaching : w.h # NextHandle
<1>1. used.windows \in Nat /\ used \in [windows : Nat, opens : Nat, faults : Nat]
  BY DEF ApprovalInv, Types
<1>2. NextHandle \in Nat \ {0} /\ NextHandle > used.windows /\ NextHandle = used.windows + 1
  BY <1>1 DEF NextHandle
<1>3. used' \in [windows : Nat, opens : Nat, faults : Nat] /\ used'.windows = NextHandle
  BY <1>1, <1>2 DEF OpensDialog
<1>4. dialogs' = dialogs \cup {<<i, NextHandle>>}
  BY DEF OpensDialog
<1>5. \A d \in dialogs : d \in Approvals \X Nat /\ d[2] <= used.windows
  BY DEF ApprovalInv, WindowsInOrder
<1>6. \A d \in dialogs' : d \in Approvals \X Nat /\ d[2] <= NextHandle
  BY <1>1, <1>2, <1>4, <1>5
<1>7. \A j \in Approvals : entry[j].handle <= used.windows /\ entry[j].handle \in Nat
  BY Fields DEF ApprovalInv, WindowsInOrder
<1>8. \A w \in Attaching : w.h # NextHandle
  <2> SUFFICES ASSUME NEW w \in Attaching PROVE w.h # NextHandle
    OBVIOUS
  <2>1. <<w.id, w.h>> \in dialogs
    BY DEF ApprovalInv, WindowsInOrder
  <2>2. w.h <= used.windows /\ w.h \in Nat
    BY <1>5, <2>1
  <2> QED
    BY <1>1, <1>2, <2>2
<1>9. \A j \in Approvals : entry[j].handle <= NextHandle /\ entry[j].handle # NextHandle
  BY <1>1, <1>2, <1>7
<1> QED
  BY <1>2, <1>3, <1>4, <1>6, <1>8, <1>9

\* Create's first dialog keeps the invariant.
LEMMA CreateWindowKeeps == ASSUME ApprovalInv, NEW i \in Approvals, CreateWindow(i) PROVE ApprovalInv'
<1>0. create[i] # "made" /\ entry[i] \in ApprovalEntries
  BY Typed DEF CreateWindow
<1>1. CASE dropReserved(i) /\ create' = [create EXCEPT ![i] = "failed"] /\ UNCHANGED <<dialogs, used>>
  <2>1. "failed" \in CreateSteps \ {"made"}
    BY DEF CreateSteps
  <2> QED
    BY <1>0, <1>1, <2>1, ReservedDropped, CreatingKeeps DEF CreateWindow, Ok
<1>2. CASE /\ OpensDialog(i)
           /\ entry' = [entry EXCEPT ![i].handle = IF entry[i].in = "none" THEN 0 ELSE NextHandle]
           /\ create' = [create EXCEPT ![i] = "code"]
  <2>1. /\ entry' \in [Approvals -> ApprovalEntries] /\ (\A j \in Approvals : j # i => entry'[j] = entry[j])
        /\ entry'[i].in = entry[i].in /\ entry'[i].handle \in {0, NextHandle}
    <3>1. \A n \in Nat : [entry[i] EXCEPT !.handle = n] \in ApprovalEntries
      BY <1>0 DEF ApprovalEntries
    <3>2. NextHandle \in Nat
      BY <1>2, FreshHandle
    <3> QED
      BY <1>0, <1>2, <3>1, <3>2, Typed DEF ApprovalEntries
  <2>2. /\ create' \in [Approvals -> CreateSteps] /\ create'[i] = "code"
        /\ \A j \in Approvals : j # i => create'[j] = create[j]
    BY <1>2, Typed DEF CreateSteps
  <2>3. UNCHANGED <<lim, row, watched, work, tail, unwritten, tries, wrongCodes, time, fact, closed, hist>>
    BY DEF CreateWindow
  <2>4. watched' \subseteq dialogs'
    BY <1>2, <2>3, Typed, FreshHandle
  <2>5. Types'
    BY <1>2, <2>1, <2>2, <2>3, <2>4, FreshHandle DEF ApprovalInv, Types, ApprovalTypeOK, LimOK
  <2>6. Place(i)'
    <3>1. Place(i)
      BY DEF ApprovalInv, OnePlace
    <3> QED
      BY <1>0, <2>1, <2>2, <2>3, <3>1 DEF Place, NotMade, LiveWaits, TailOwns, Recorded
  <2>7. \A j \in Approvals \ {i} : Place(j)'
    BY <2>1, <2>2, <2>3, PlaceFrame DEF ApprovalInv, OnePlace, Untouched
  <2>8. WindowsInOrder'
    <3>1. \A d \in watched' : create'[d[1]] = "made"
      <4> SUFFICES ASSUME NEW d \in watched PROVE create'[d[1]] = "made"
        BY <2>3
      <4>1. d \in dialogs /\ create[d[1]] = "made" /\ d[1] \in Approvals
        BY Typed DEF ApprovalInv, WindowsInOrder
      <4> QED
        BY <4>1, <1>0, <2>2
    <3>2. \A j \in Approvals : entry'[j].handle <= NextHandle
      BY <1>2, <2>1, FreshHandle
    <3>3. \A w \in work' : create'[w.id] = "made"
      BY <1>0, <2>2, <2>3, Typed DEF ApprovalInv, WindowsInOrder, WorkItems
    <3>4. Attaching' = Attaching
      BY <2>3 DEF Attaching
    <3>5. ASSUME NEW w \in Attaching
          PROVE  /\ <<w.id, w.h>> \in dialogs' /\ <<w.id, w.h>> \notin watched'
                 /\ entry'[w.id].handle # w.h /\ w.h # 0
      <4>1. /\ <<w.id, w.h>> \in dialogs /\ <<w.id, w.h>> \notin watched
            /\ entry[w.id].handle # w.h /\ w.h # 0 /\ w.id \in Approvals
        BY Typed DEF ApprovalInv, WindowsInOrder, Attaching, WorkItems
      <4> QED
        BY <4>1, <1>2, <2>1, <2>3, FreshHandle
    <3> QED
      BY <1>2, <3>1, <3>2, <3>3, <3>4, <3>5, FreshHandle DEF ApprovalInv, WindowsInOrder
  <2>9. Pending' \subseteq Pending
    BY <2>1 DEF Pending
  <2> QED
    BY <2>3, <2>5, <2>6, <2>7, <2>8, <2>9, SlotsShrink DEF ApprovalInv, OnePlace
<1> QED
  BY <1>1, <1>2 DEF CreateWindow

\* Create's code keeps the invariant.
LEMMA CreateCodeKeeps == ASSUME ApprovalInv, NEW i \in Approvals, CreateCode(i) PROVE ApprovalInv'
<1>0. create[i] # "made" /\ {"store", "failed"} \subseteq CreateSteps \ {"made"}
  BY DEF CreateCode, CreateSteps
<1>1. CASE create' = [create EXCEPT ![i] = "store"] /\ UNCHANGED <<entry, dialogs, used>>
  BY <1>0, <1>1, CreatingKeeps, Typed DEF CreateCode, Ok
<1>2. CASE Fault /\ dropReserved(i) /\ dialogs' = dialogs \ Mine(i) /\ create' = [create EXCEPT ![i] = "failed"]
  <2>1. dialogs' \subseteq dialogs /\ (\A d \in dialogs : d \notin dialogs' => d[1] = i)
    BY <1>2 DEF Mine
  <2> QED
    BY <1>0, <1>2, <2>1, ReservedDropped, CreatingKeeps DEF CreateCode
<1> QED
  BY <1>1, <1>2 DEF CreateCode

\* The row is written: the approval waits.
LEMMA StoredKeeps ==
    ASSUME ApprovalInv, NEW i \in Approvals, create[i] = "store", entry[i].in # "none",
           create' = [create EXCEPT ![i] = "made"], row' = [row EXCEPT ![i].state = "pending"],
           entry' = [entry EXCEPT ![i] = [@ EXCEPT !.in = "live", !.timer = "armed", !.watch = entry[i].handle]],
           watched' = watched \cup Mine(i), time' = [time EXCEPT !.hour = @ \cup {i}],
           UNCHANGED <<lim, dialogs, used, work, tail, unwritten, wrongCodes, hist>>
    PROVE  ApprovalInv'
<1>1. /\ create' \in [Approvals -> CreateSteps] /\ create'[i] = "made"
      /\ \A j \in Approvals : j # i => create'[j] = create[j]
  BY Typed DEF CreateSteps
<1>2. /\ row' \in [Approvals -> ApprovalRows] /\ row'[i].state = "pending" /\ row'[i].attempts = row[i].attempts
      /\ \A j \in Approvals : j # i => row'[j] = row[j]
  BY Typed DEF ApprovalRows
<1>3. /\ entry' \in [Approvals -> ApprovalEntries] /\ entry'[i].in = "live" /\ entry'[i].handle = entry[i].handle
      /\ \A j \in Approvals : j # i => entry'[j] = entry[j]
  BY Typed DEF ApprovalEntries
<1>4. time' \in Times /\ time'.old = time.old
  BY TimeTyped DEF Times
<1>5. watched' \subseteq dialogs'
  BY Typed DEF Mine
<1>6. Types'
  BY <1>1, <1>2, <1>3, <1>4, <1>5 DEF ApprovalInv, Types, ApprovalTypeOK, LimOK, Times
<1>7. Place(i)'
  <2>1. Place(i) /\ lim.attempts \in Nat \ {0}
    BY DEF ApprovalInv, OnePlace, Types, LimOK
  <2>2. NotMade(i) /\ Recorded(i)
    BY <2>1 DEF Place
  <2> QED
    BY <1>1, <1>2, <1>3, <1>4, <2>1, <2>2 DEF Place, NotMade, LiveWaits, TailOwns, Recorded
<1>8. \A j \in Approvals \ {i} : Place(j)'
  BY <1>1, <1>2, <1>3, <1>4, PlaceFrame DEF ApprovalInv, OnePlace, Untouched
<1>9. WindowsInOrder'
  <2>1. \A d \in watched' : create'[d[1]] = "made"
    <3> SUFFICES ASSUME NEW d \in watched' PROVE create'[d[1]] = "made"
      OBVIOUS
    <3>1. CASE d \in Mine(i)
      BY <1>1, <3>1 DEF Mine
    <3>2. CASE d \in watched
      BY <1>1, <3>2, Typed DEF ApprovalInv, WindowsInOrder
    <3> QED
      BY <3>1, <3>2
  <2>2. \A j \in Approvals : entry'[j].handle <= used'.windows
    BY <1>3 DEF ApprovalInv, WindowsInOrder
  <2>3. \A w \in work' : w.id \in Approvals /\ w.id # i /\ create'[w.id] = "made"
    BY <1>1, Typed DEF ApprovalInv, WindowsInOrder, WorkItems
  <2>4. Attaching' = Attaching /\ (\A w \in Attaching : w \in work')
    BY DEF Attaching
  <2>5. ASSUME NEW w \in Attaching
        PROVE  /\ <<w.id, w.h>> \in dialogs' /\ <<w.id, w.h>> \notin watched'
               /\ entry'[w.id].handle # w.h /\ w.h # 0
    <3>1. w.id \in Approvals /\ w.id # i
      BY <2>3, <2>4
    <3> QED
      BY <1>3, <3>1 DEF ApprovalInv, WindowsInOrder, Mine
  <2> QED
    BY <2>1, <2>2, <2>3, <2>4, <2>5 DEF ApprovalInv, WindowsInOrder
<1>10. Pending' \subseteq Pending
  BY <1>3 DEF Pending
<1> QED
  BY <1>6, <1>7, <1>8, <1>9, <1>10, SlotsShrink DEF ApprovalInv, OnePlace

\* Create's last section, the row and the live entry, keeps the invariant.
LEMMA CreateStoreKeeps == ASSUME ApprovalInv, NEW i \in Approvals, CreateStore(i) PROVE ApprovalInv'
<1>0. create[i] = "store" /\ "failed" \in CreateSteps \ {"made"}
  BY DEF CreateStore, CreateSteps
<1>1. CASE /\ Ok \/ Fault
           /\ create' = [create EXCEPT ![i] = "failed"]
           /\ entry' = [entry EXCEPT ![i] = NoEntry] /\ dialogs' = dialogs \ Mine(i)
           /\ UNCHANGED <<row, watched, time>>
  <2>1. dialogs' \subseteq dialogs /\ (\A d \in dialogs : d \notin dialogs' => d[1] = i)
    BY <1>1 DEF Mine
  <2> QED
    BY <1>0, <1>1, <2>1, ReservedDropped, CreatingKeeps DEF CreateStore
<1>2. CASE /\ entry[i].in # "none"
           /\ create' = [create EXCEPT ![i] = "made"] /\ row' = [row EXCEPT ![i].state = "pending"]
           /\ entry' = [entry EXCEPT ![i] = [@ EXCEPT !.in = "live", !.timer = "armed", !.watch = entry[i].handle]]
           /\ watched' = watched \cup Mine(i) /\ time' = [time EXCEPT !.hour = @ \cup {i}]
           /\ UNCHANGED <<dialogs, used>>
  BY <1>0, <1>2, StoredKeeps DEF CreateStore
<1> QED
  BY <1>1, <1>2 DEF CreateStore, Ok

\* What a sweep within Create does to the rows: the swept ones expire, the old ones go.
LEMMA SweptRows ==
    ASSUME ApprovalInv, NEW S \in SUBSET Expired, NEW swept,
           swept = [j \in Approvals |-> IF j \in S THEN [row[j] EXCEPT !.state = "expired"] ELSE row[j]],
           row' = swept \/ row' = pruneDecided(swept)
    PROVE  /\ row' \in [Approvals -> ApprovalRows]
           /\ \A j \in S : row'[j].state = "expired"
           /\ \A j \in Approvals \ S : \/ row'[j] = row[j]
                                       \/ j \in time.old /\ row'[j] = [row[j] EXCEPT !.state = "none"]
<1>1. \A j \in S : j \in Approvals /\ entry[j].in = "live" /\ j \notin time.old
  BY DEF Expired, Live, ApprovalInv, OnePlace, Place, LiveWaits, Recorded
<1>2. /\ swept \in [Approvals -> ApprovalRows] /\ (\A j \in S : swept[j].state = "expired")
      /\ \A j \in Approvals \ S : swept[j] = row[j]
  BY <1>1, Typed DEF ApprovalRows
<1>3. CASE row' = swept
  BY <1>2, <1>3
<1>4. CASE row' = pruneDecided(swept)
  <2>1. \A r \in ApprovalRows : [r EXCEPT !.state = "none"] \in ApprovalRows
    BY DEF ApprovalRows
  <2> QED
    BY <1>1, <1>2, <1>4, <2>1 DEF pruneDecided
<1> QED
  BY <1>3, <1>4

\* One more slot than what a sweep left, below the limit.
LEMMA SlotsReserved ==
    ASSUME ApprovalInv, NEW S, NEW i, ~(Cardinality(Pending \ S) >= lim.pending),
           Pending' \subseteq (Pending \ S) \cup {i}, lim' = lim
    PROVE  SlotsFinite'
<1> DEFINE rest == Pending \ S
<1>1. IsFiniteSet(rest)
  BY FS_Subset DEF ApprovalInv, SlotsFinite
<1>2. Cardinality(rest) \in Nat /\ lim.pending \in Nat
  BY <1>1, FS_CardinalityType DEF ApprovalInv, Types, LimOK
<1>3. IsFiniteSet(rest \cup {i}) /\ Cardinality(rest \cup {i}) <= Cardinality(rest) + 1
  <2>1. CASE i \in rest
    <3>1. rest \cup {i} = rest
      BY <2>1
    <3>2. Cardinality(rest) <= Cardinality(rest) + 1
      BY <1>2
    <3> HIDE DEF rest
    <3> QED
      BY <1>1, <3>1, <3>2, Zenon
  <2>2. CASE i \notin rest
    BY <1>1, <1>2, <2>2, FS_AddElement
  <2> QED
    BY <2>1, <2>2
<1>4. IsFiniteSet(Pending') /\ Cardinality(Pending') <= Cardinality(rest \cup {i})
  BY <1>3, FS_Subset
<1>5. Cardinality(Pending') \in Nat /\ Cardinality(rest \cup {i}) \in Nat
  BY <1>3, <1>4, FS_CardinalityType
<1>6. Cardinality(rest) + 1 <= lim.pending
  BY <1>2
<1> HIDE DEF rest
<1>7. Cardinality(Pending') <= lim.pending
  BY <1>2, <1>3, <1>4, <1>5, <1>6
<1> QED
  BY <1>4, <1>7 DEF SlotsFinite

\* The sweep of S, and perhaps the slot of i, as one step.
ReserveStep(i, S, refused, next) ==
    /\ entry' = [j \in Approvals |->
          IF j \in S THEN NoEntry
          ELSE IF j = i /\ ~refused THEN [NoEntry EXCEPT !.in = "reserved"] ELSE entry[j]]
    /\ dialogs' = dialogs \ {<<j, entry[j].handle>> : j \in S}
    /\ watched' = watched \ Watches(S)
    /\ SetTail(S, "hook")
    /\ create' = [create EXCEPT ![i] = next]
    /\ next \in {"failed", "window", "code"} /\ (refused <=> next = "failed")

\* What it does to the entries and the dialogs.
LEMMA ReserveEffect ==
    ASSUME ApprovalInv, NEW i \in Approvals, create[i] = "idle", NEW S \in SUBSET Expired, NEW refused, NEW next,
           ReserveStep(i, S, refused, next)
    PROVE  /\ i \notin S /\ (\A j \in S : j \in Approvals /\ entry[j].in = "live")
           /\ entry' \in [Approvals -> ApprovalEntries]
           /\ \A j \in S : entry'[j].in = "none" /\ entry'[j].handle = 0
           /\ \A j \in Approvals \ S : j # i => entry'[j] = entry[j]
           /\ entry[i].in = "none" /\ entry'[i].handle \in {0, entry[i].handle}
           /\ entry'[i].in = (IF next = "failed" THEN "none" ELSE "reserved")
           /\ dialogs' \subseteq dialogs /\ watched' \subseteq watched /\ watched' \subseteq dialogs'
           /\ \A d \in dialogs : d \notin dialogs' => d[2] = entry[d[1]].handle
           /\ tail' \in [Approvals -> Tails] /\ (\A j \in Approvals : tail'[j] = IF j \in S THEN "hook" ELSE tail[j])
           /\ create' \in [Approvals -> CreateSteps] /\ create'[i] = next
           /\ \A j \in Approvals : j # i => create'[j] = create[j]
<1>1. \A j \in S : j \in Approvals /\ entry[j].in = "live" /\ create[j] = "made"
  BY DEF Expired, Live, ApprovalInv, OnePlace, Place, NotMade
<1>2. i \notin S
  BY <1>1
<1>3. entry[i].in = "none"
  BY Fields DEF ApprovalInv, OnePlace, Place, NotMade, Recorded
<1>4. /\ [NoEntry EXCEPT !.in = "reserved"] \in ApprovalEntries
      /\ [NoEntry EXCEPT !.in = "reserved"].in = "reserved" /\ [NoEntry EXCEPT !.in = "reserved"].handle = 0
  BY DEF NoEntry, ApprovalEntries
<1>5. entry' \in [Approvals -> ApprovalEntries]
  BY <1>4, Typed, NoEntryIsTyped DEF ReserveStep
<1>6. /\ \A j \in S : entry'[j].in = "none" /\ entry'[j].handle = 0
      /\ \A j \in Approvals \ S : j # i => entry'[j] = entry[j]
  BY <1>1, NoEntryIsTyped DEF ReserveStep
<1>7. entry'[i].handle \in {0, entry[i].handle} /\ entry'[i].in = (IF next = "failed" THEN "none" ELSE "reserved")
  BY <1>2, <1>3, <1>4 DEF ReserveStep
<1>8. dialogs' \subseteq dialogs /\ watched' \subseteq watched
  BY DEF ReserveStep
<1>9. ASSUME NEW d \in dialogs, d \notin dialogs' PROVE d[1] \in S /\ d[2] = entry[d[1]].handle
  BY <1>9 DEF ReserveStep
<1>10. watched' \subseteq dialogs'
  BY <1>9, Typed DEF ReserveStep, Watches
<1>11. tail' \in [Approvals -> Tails] /\ (\A j \in Approvals : tail'[j] = IF j \in S THEN "hook" ELSE tail[j])
  BY Typed DEF ReserveStep, SetTail, Tails
<1>12. /\ create' \in [Approvals -> CreateSteps] /\ create'[i] = next
       /\ \A j \in Approvals : j # i => create'[j] = create[j]
  BY Typed DEF ReserveStep, CreateSteps
<1> QED
  BY <1>1, <1>2, <1>3, <1>5, <1>6, <1>7, <1>8, <1>9, <1>10, <1>11, <1>12

\* The rows of a sweep, and the slots.
SweepRows(S) ==
    /\ row' \in [Approvals -> ApprovalRows]
    /\ \A j \in S : row'[j].state = "expired"
    /\ \A j \in Approvals \ S : \/ row'[j] = row[j]
                                \/ j \in time.old /\ row'[j] = [row[j] EXCEPT !.state = "none"]

\* A sweep and a reservation in one section keep the invariant.
LEMMA ReserveKeeps ==
    ASSUME ApprovalInv, NEW i \in Approvals, create[i] = "idle", NEW S \in SUBSET Expired, NEW refused, NEW next,
           ReserveStep(i, S, refused, next), SweepRows(S), Ok \/ Fault, ~(wrongCodes >= lim.wrong),
           ~refused => ~(Cardinality(Pending \ S) >= lim.pending),
           UNCHANGED <<lim, work, unwritten, wrongCodes, time, hist>>
    PROVE  ApprovalInv'
<1>1. Types'
  BY ReserveEffect, UsedKept DEF ApprovalInv, Types, ApprovalTypeOK, LimOK, SweepRows
<1>2. ASSUME NEW j \in S PROVE Place(j)'
  <2>1. j \in Approvals /\ j # i /\ Leaves(j)
    BY ReserveEffect DEF Leaves, SweepRows
  <2> QED
    BY <2>1, PlaceLeft
<1>3. Place(i)'
  <2>1. Place(i) /\ i \notin S
    BY ReserveEffect DEF ApprovalInv, OnePlace
  <2>2. row'[i] = row[i]
    BY <2>1 DEF SweepRows, Place, NotMade
  <2>3. next \in {"failed", "window", "code"}
    BY DEF ReserveStep
  <2>4. /\ create'[i] = next /\ tail'[i] = tail[i] /\ entry[i].in = "none"
        /\ entry'[i].in = IF next = "failed" THEN "none" ELSE "reserved"
    BY <2>1, ReserveEffect
  <2> QED
    BY <2>1, <2>2, <2>3, <2>4 DEF Place, NotMade, LiveWaits, TailOwns, Recorded
<1>4. ASSUME NEW j \in Approvals \ S, j # i PROVE Place(j)'
  <2>1. create'[j] = create[j] /\ entry'[j] = entry[j] /\ tail'[j] = tail[j]
    BY <1>4, ReserveEffect
  <2>2. CASE row'[j] = row[j]
    BY <2>1, <2>2, PlaceFrame DEF ApprovalInv, OnePlace, Untouched
  <2>3. CASE j \in time.old /\ row'[j] = [row[j] EXCEPT !.state = "none"]
    BY <2>1, <2>3, PlacePruned
  <2> QED
    BY <2>2, <2>3 DEF SweepRows
<1>5. OnePlace'
  BY <1>2, <1>3, <1>4 DEF OnePlace
<1>6. WindowsInOrder'
  <2>1. \A j \in Approvals : entry'[j].handle \in {0, entry[j].handle}
    BY ReserveEffect
  <2>2. \A j \in Approvals : create[j] = "made" => create'[j] = "made"
    <3>1. \A j \in Approvals : j # i => create'[j] = create[j]
      BY Typed DEF ReserveStep
    <3> QED
      BY <3>1
  <2>3. WorkShrinks /\ used'.windows = used.windows
    BY WorkFrame, UsedKept
  <2>4. /\ dialogs' \subseteq dialogs /\ watched' \subseteq watched
        /\ \A d \in dialogs : d \notin dialogs' => d[2] = entry[d[1]].handle
    BY ReserveEffect
  <2> QED
    BY <2>1, <2>2, <2>3, <2>4, WindowsShrink
<1>7. NothingPendingWhileLocked'
  BY DEF NothingPendingWhileLocked
<1>8. Pending' \subseteq (Pending \ S) \cup (IF refused THEN {} ELSE {i})
  <2>1. refused <=> next = "failed"
    BY DEF ReserveStep
  <2>2. ASSUME NEW j \in Approvals, entry'[j].in # "none"
        PROVE  j \notin S /\ (entry[j].in # "none" \/ (j = i /\ ~refused))
    <3>1. \A k \in S : entry'[k].in = "none"
      BY ReserveEffect
    <3>2. j # i => j \in S \/ entry'[j] = entry[j]
      BY ReserveEffect
    <3>3. next = "failed" => entry'[i].in = "none"
      BY ReserveEffect
    <3> QED
      BY <2>1, <2>2, <3>1, <3>2, <3>3
  <2> QED
    BY <2>2 DEF Pending
<1>9. SlotsFinite'
  <2>1. CASE refused
    <3>1. Pending' \subseteq Pending
      BY <1>8, <2>1
    <3> QED
      BY <3>1, SlotsFewer
  <2>2. CASE ~refused
    <3>1. Pending' \subseteq (Pending \ S) \cup {i}
      BY <1>8, <2>2
    <3> QED
      BY <2>2, <3>1, SlotsReserved
  <2> QED
    BY <2>1, <2>2
<1> QED
  BY <1>1, <1>5, <1>6, <1>7, <1>9 DEF ApprovalInv

\* What Create does up to its reservation, with the choices it made.
LEMMA ReserveIsStep ==
    ASSUME ApprovalInv, NEW i \in Approvals, CreateReserve(i), ~(wrongCodes >= lim.wrong)
    PROVE  \E S \in SUBSET Expired, refused \in BOOLEAN, next \in {"failed", "window", "code"} :
              /\ ReserveStep(i, S, refused, next) /\ SweepRows(S) /\ (Ok \/ Fault)
              /\ ~refused => ~(Cardinality(Pending \ S) >= lim.pending)
<1>1. PICK S \in SUBSET Expired :
        /\ sweepExpiredLocked(S)
        /\ LET swept == [j \in Approvals |-> IF j \in S THEN [row[j] EXCEPT !.state = "expired"] ELSE row[j]]
               refused == \/ S # Expired
                          \/ Cardinality(Pending \ S) >= lim.pending
                          \/ Cardinality(time.hour) >= lim.hourly
                          \/ closed
           IN /\ row' = IF S = Expired THEN pruneDecided(swept) ELSE swept
              /\ create' = [create EXCEPT ![i] = IF refused THEN "failed" ELSE IF lim.desktop THEN "window" ELSE "code"]
              /\ SetTail(S, "hook")
              /\ dialogs' = dialogs \ {<<j, entry[j].handle>> : j \in S}
              /\ watched' = watched \ Watches(S)
              /\ entry' = [j \in Approvals |->
                    IF j \in S THEN NoEntry
                    ELSE IF j = i /\ ~refused THEN [NoEntry EXCEPT !.in = "reserved"] ELSE entry[j]]
  BY DEF CreateReserve
<1> DEFINE swept == [j \in Approvals |-> IF j \in S THEN [row[j] EXCEPT !.state = "expired"] ELSE row[j]]
           refused == \/ S # Expired
                      \/ Cardinality(Pending \ S) >= lim.pending
                      \/ Cardinality(time.hour) >= lim.hourly
                      \/ closed
           next == IF refused THEN "failed" ELSE IF lim.desktop THEN "window" ELSE "code"
<1>2. SweepRows(S)
  BY <1>1, SweptRows DEF SweepRows
<1>3. create' = [create EXCEPT ![i] = next]
  BY <1>1
<1>4. next \in {"failed", "window", "code"} /\ (refused <=> next = "failed")
  OBVIOUS
<1>5. ~refused => ~(Cardinality(Pending \ S) >= lim.pending)
  OBVIOUS
<1>6. Ok \/ Fault
  BY <1>1 DEF sweepExpiredLocked
<1>7. ReserveStep(i, S, refused, next)
  BY <1>1, <1>3, <1>4 DEF ReserveStep
<1>8. refused \in BOOLEAN
  OBVIOUS
<1> HIDE DEF refused, next
<1> QED
  BY <1>2, <1>4, <1>5, <1>6, <1>7, <1>8, Zenon

\* Create's first section keeps the invariant.
LEMMA CreateReserveKeeps == ASSUME ApprovalInv, NEW i \in Approvals, CreateReserve(i) PROVE ApprovalInv'
<1>0. create[i] = "idle" /\ UNCHANGED <<lim, work, unwritten, tries, wrongCodes, time, fact, closed, hist>>
  BY DEF CreateReserve
<1>1. CASE wrongCodes >= lim.wrong
  <2>1. create' = [create EXCEPT ![i] = "failed"] /\ UNCHANGED <<row, entry, dialogs, watched, tail, used>>
    BY <1>1 DEF CreateReserve
  <2>2. "failed" \in CreateSteps \ {"made"} /\ entry[i].in # "reserved"
    BY <1>0 DEF CreateSteps, ApprovalInv, OnePlace, Place, Recorded
  <2> QED
    BY <1>0, <2>1, <2>2, Typed, CreatingKeeps DEF Ok
<1>2. CASE ~(wrongCodes >= lim.wrong)
  <2>1. PICK S \in SUBSET Expired, refused \in BOOLEAN, next \in {"failed", "window", "code"} :
              /\ ReserveStep(i, S, refused, next) /\ SweepRows(S) /\ (Ok \/ Fault)
              /\ ~refused => ~(Cardinality(Pending \ S) >= lim.pending)
    BY <1>2, ReserveIsStep
  <2> QED
    BY <1>0, <1>2, <2>1, ReserveKeeps, Zenon
<1> QED
  BY <1>1, <1>2

-----------------------------------------------------------------------------
(* Windows                                                                 *)

\* The mark of a window that is being opened.
LEMMA OpeningSet ==
    ASSUME ApprovalInv, NEW i \in Approvals, NEW b \in BOOLEAN, entry' = [entry EXCEPT ![i].opening = b]
    PROVE  /\ entry' \in [Approvals -> ApprovalEntries]
           /\ \A j \in Approvals : entry'[j].in = entry[j].in /\ entry'[j].handle = entry[j].handle
<1>1. entry \in [Approvals -> ApprovalEntries] /\ entry[i] \in ApprovalEntries
  BY Typed
<1>2. /\ [entry[i] EXCEPT !.opening = b] \in ApprovalEntries
      /\ [entry[i] EXCEPT !.opening = b].in = entry[i].in /\ [entry[i] EXCEPT !.opening = b].handle = entry[i].handle
  BY <1>1 DEF ApprovalEntries
<1> QED
  BY <1>1, <1>2

\* A goroutine goes on to a step other than attaching a window.
LEMMA WorkGoesOn ==
    ASSUME ApprovalInv, NEW w \in WorkItems, create[w.id] = "made", w.step # "attach",
           work' \subseteq work \cup {w}
    PROVE  WorkShrinks
<1>1. work' \subseteq WorkItems
  BY Typed
<1>2. Attaching' \subseteq Attaching
  BY DEF Attaching
<1>3. \A v \in work' : create[v.id] = "made"
  BY DEF ApprovalInv, WindowsInOrder
<1> QED
  BY <1>1, <1>2, <1>3 DEF WorkShrinks

\* A goroutine that ends leaves the others in order.
LEMMA WorkLess == ASSUME ApprovalInv, work' \subseteq work PROVE WorkShrinks
BY Typed DEF ApprovalInv, WindowsInOrder, WorkShrinks, Attaching

\* A window's answer, taken by its watcher, keeps the invariant.
LEMMA WindowAnswersKeeps ==
    ASSUME ApprovalInv, NEW i \in Approvals, NEW h, NEW kind \in Answers, WindowAnswers(i, h, kind) PROVE ApprovalInv'
<1>1. /\ <<i, h>> \in dialogs /\ <<i, h>> \in watched /\ <<i, h>> \in Approvals \X Nat /\ h \in Nat
      /\ create[i] = "made"
  BY Typed DEF WindowAnswers, ApprovalInv, WindowsInOrder
<1>2. /\ entry' \in [Approvals -> ApprovalEntries]
      /\ \A j \in Approvals : entry'[j].in = entry[j].in /\ entry'[j].handle \in {0, entry[j].handle}
  BY ZenonT(30), Typed DEF WindowAnswers, ApprovalEntries
<1>3. WorkShrinks
  <2> DEFINE w == [id |-> i, h |-> h, step |-> IF kind = "malformed" THEN "reopen" ELSE "decide", kind |-> kind]
  <2>1. w \in WorkItems /\ create[w.id] = "made" /\ w.step # "attach"
    BY <1>1 DEF WorkItems
  <2>2. work' \subseteq work \cup {w}
    BY DEF WindowAnswers
  <2> HIDE DEF w
  <2> QED
    BY <2>1, <2>2, WorkGoesOn
<1>4. /\ dialogs' \subseteq dialogs /\ watched' \subseteq watched /\ watched' \subseteq dialogs'
      /\ \A d \in dialogs : d \notin dialogs' => d \in watched
  BY <1>1, Typed DEF WindowAnswers
<1> QED
  BY <1>2, <1>3, <1>4, QuietKeeps, UsedKept, TimeTyped DEF WindowAnswers, Ok

\* The fields of a goroutine under way.
LEMMA WorkTyped ==
    ASSUME ApprovalInv, NEW w \in work
    PROVE  /\ w \in WorkItems /\ w.id \in Approvals /\ w.h \in Nat /\ create[w.id] = "made"
           /\ \A s \in {"decide", "reopen", "start", "attach"} :
                 LET v == [w EXCEPT !.step = s] IN v \in WorkItems /\ v.id = w.id /\ v.step = s /\ v.h = w.h
<1>1. w \in WorkItems /\ create[w.id] = "made"
  BY Typed DEF ApprovalInv, WindowsInOrder
<1> QED
  BY <1>1 DEF WorkItems

\* Acting on a window's answer keeps the invariant.
LEMMA DecideAnswerKeeps == ASSUME ApprovalInv, NEW w \in work, DecideAnswer(w) PROVE ApprovalInv'
<1>0. w.id \in Approvals /\ UNCHANGED <<lim, create, unwritten, tries, time, fact, closed>>
  BY WorkTyped DEF DecideAnswer
<1>1. CASE w.kind = "reject"
  <2>1. WorkShrinks /\ UNCHANGED <<row, wrongCodes, used, hist>>
    BY <1>1, WorkLess DEF DecideAnswer
  <2>2. CASE w.id \in Live
    BY <1>0, <1>1, <2>1, <2>2, TakePendingKeeps DEF DecideAnswer
  <2>3. CASE w.id \notin Live
    BY <1>0, <1>1, <2>1, <2>3, IdleKeeps, TimeTyped DEF DecideAnswer, Ok
  <2> QED
    BY <2>2, <2>3
<1>2. CASE w.kind # "reject"
  <2>1. confirm(w.id, w.kind) /\ work' = (work \ {w}) \cup {[w EXCEPT !.step = "reopen"]}
    BY <1>2 DEF DecideAnswer
  <2> DEFINE v == [w EXCEPT !.step = "reopen"]
  <2>2. v \in WorkItems /\ create[v.id] = "made" /\ v.step # "attach"
    BY WorkTyped
  <2>3. work' \subseteq work \cup {v}
    BY <2>1
  <2> HIDE DEF v
  <2>4. WorkShrinks
    BY <2>2, <2>3, WorkGoesOn
  <2> QED
    BY <1>0, <2>1, <2>4, ConfirmKeeps
<1> QED
  BY <1>1, <1>2

\* The user's call for one more window keeps the invariant.
LEMMA OpenWindowKeeps == ASSUME ApprovalInv, NEW i \in Approvals, OpenWindow(i) PROVE ApprovalInv'
<1> DEFINE w == [id |-> i, h |-> 0, step |-> "reopen", kind |-> "open"]
<1>1. w \in WorkItems /\ w.id = i /\ w.step # "attach"
  BY DEF WorkItems, Answers
<1>2. create[i] = "made"
  BY DEF OpenWindow, Live, ApprovalInv, OnePlace, Place, NotMade
<1>3. work' \subseteq work \cup {w}
  BY DEF OpenWindow
<1> HIDE DEF w
<1>4. WorkShrinks
  BY <1>1, <1>2, <1>3, WorkGoesOn
<1>5. used' \in [windows : Nat, opens : Nat, faults : Nat] /\ used'.windows = used.windows
  BY DEF OpenWindow, ApprovalInv, Types
<1> QED
  BY <1>4, <1>5, QuietKeeps, TimeTyped, Typed DEF OpenWindow

\* reopen's first section keeps the invariant.
LEMMA ReopenKeeps == ASSUME ApprovalInv, NEW w \in work, Reopen(w) PROVE ApprovalInv'
<1>1. /\ entry' \in [Approvals -> ApprovalEntries]
      /\ \A j \in Approvals : entry'[j].in = entry[j].in /\ entry'[j].handle = entry[j].handle
  <2>1. w.id \in Approvals /\ entry \in [Approvals -> ApprovalEntries]
    BY WorkTyped, Typed
  <2>2. CASE entry' = entry
    BY <2>1, <2>2
  <2>3. CASE entry' = [entry EXCEPT ![w.id].opening = TRUE]
    BY <2>1, <2>3, OpeningSet
  <2> QED
    BY <2>2, <2>3 DEF Reopen
<1> DEFINE v == [w EXCEPT !.step = "start"]
<1>2. v \in WorkItems /\ create[v.id] = "made" /\ v.step # "attach"
  BY WorkTyped
<1>3. work' \subseteq work \cup {v}
  BY DEF Reopen
<1> HIDE DEF v
<1>4. WorkShrinks
  BY <1>2, <1>3, WorkGoesOn
<1> QED
  BY <1>1, <1>4, QuietKeeps, UsedKept, TimeTyped, Typed DEF Reopen, Ok

\* A step that leaves every approval in its place, in s.pending and out of it.
LEMMA WindowKeeps ==
    ASSUME ApprovalInv, WindowsInOrder', entry' \in [Approvals -> ApprovalEntries],
           \A j \in Approvals : entry'[j].in = entry[j].in,
           used' \in [windows : Nat, opens : Nat, faults : Nat], watched' \subseteq dialogs', work' \subseteq WorkItems,
           UNCHANGED <<lim, row, create, tail, unwritten, wrongCodes, time, hist>>
    PROVE  ApprovalInv'
<1>1. Types'
  BY DEF ApprovalInv, Types, ApprovalTypeOK, LimOK
<1>2. OnePlace'
  BY PlaceFrame DEF ApprovalInv, OnePlace, Untouched
<1>3. Pending' \subseteq Pending
  BY DEF Pending
<1> QED
  BY <1>1, <1>2, <1>3, SlotsShrink DEF ApprovalInv

\* Starting a dialog outside s.mu keeps the invariant.
LEMMA StartWindowKeeps == ASSUME ApprovalInv, NEW w \in work, StartWindow(w) PROVE ApprovalInv'
<1>0. /\ w.step = "start" /\ w.id \in Approvals /\ create[w.id] = "made"
      /\ UNCHANGED <<lim, row, create, watched, tail, unwritten, tries, wrongCodes, time, fact, closed, hist>>
  BY WorkTyped DEF StartWindow
<1>1. CASE work' = work \ {w} /\ entry' = [entry EXCEPT ![w.id].opening = FALSE] /\ UNCHANGED <<dialogs, used>>
  <2>1. /\ entry' \in [Approvals -> ApprovalEntries]
        /\ \A j \in Approvals : entry'[j].in = entry[j].in /\ entry'[j].handle = entry[j].handle
    BY <1>0, <1>1, OpeningSet
  <2>2. WorkShrinks
    BY <1>1, WorkLess
  <2> QED
    BY <1>0, <1>1, <2>1, <2>2, QuietKeeps, UsedKept, TimeTyped, Typed DEF Ok
<1>2. CASE /\ OpensDialog(w.id) /\ UNCHANGED entry
           /\ work' = (work \ {w}) \cup {[w EXCEPT !.step = "attach", !.h = NextHandle]}
  <2> DEFINE v == [w EXCEPT !.step = "attach", !.h = NextHandle]
  <2>1. v \in WorkItems /\ v.id = w.id /\ v.h = NextHandle /\ v.step = "attach"
    <3>1. w \in WorkItems /\ NextHandle \in Nat
      BY <1>0, <1>2, WorkTyped, FreshHandle
    <3> QED
      BY <3>1 DEF WorkItems
  <2>2. work' = (work \ {w}) \cup {v}
    BY <1>2
  <2> HIDE DEF v
  <2>3. Attaching' = Attaching \cup {v} /\ work' \subseteq WorkItems
    BY <1>0, <2>1, <2>2, Typed DEF Attaching
  <2>4. WindowsInOrder'
    <3>1. \A d \in watched' : create'[d[1]] = "made"
      BY <1>0 DEF ApprovalInv, WindowsInOrder
    <3>2. \A j \in Approvals : entry'[j].handle <= used'.windows
      BY <1>0, <1>2, FreshHandle
    <3>3. \A u \in work' : create'[u.id] = "made"
      BY <1>0, <2>1, <2>2 DEF ApprovalInv, WindowsInOrder
    <3>4. ASSUME NEW u \in Attaching'
          PROVE  /\ <<u.id, u.h>> \in dialogs' /\ <<u.id, u.h>> \notin watched'
                 /\ entry'[u.id].handle # u.h /\ u.h # 0
      <4>1. CASE u = v
        <5>1. /\ <<w.id, NextHandle>> \in dialogs' /\ NextHandle # 0 /\ entry[w.id].handle # NextHandle
              /\ NextHandle > used.windows /\ NextHandle \in Nat
          BY <1>0, <1>2, FreshHandle
        <5>2. <<w.id, NextHandle>> \notin dialogs
          <6>1. \A d \in dialogs : d[2] <= used.windows /\ d \in Approvals \X Nat /\ used.windows \in Nat
            BY DEF ApprovalInv, WindowsInOrder, Types
          <6> QED
            BY <5>1, <6>1
        <5> QED
          BY <1>0, <1>2, <2>1, <4>1, <5>1, <5>2, Typed
      <4>2. CASE u \in Attaching
        <5>1. /\ <<u.id, u.h>> \in dialogs /\ <<u.id, u.h>> \notin watched
              /\ entry[u.id].handle # u.h /\ u.h # 0
          BY <4>2 DEF ApprovalInv, WindowsInOrder
        <5> QED
          BY <1>0, <1>2, <5>1, FreshHandle
      <4> QED
        BY <2>3, <4>1, <4>2
    <3>5. \A t, u \in Attaching' : t.h = u.h => t = u
      <4>1. \A u \in Attaching : u.h # v.h
        BY <1>0, <1>2, <2>1, FreshHandle
      <4>2. \A t, u \in Attaching : t.h = u.h => t = u
        BY DEF ApprovalInv, WindowsInOrder
      <4> QED
        BY <2>3, <4>1, <4>2
    <3>6. \A d \in dialogs' : d \in Approvals \X Nat /\ d[2] <= used'.windows
      BY <1>0, <1>2, FreshHandle
    <3> QED
      BY <3>1, <3>2, <3>3, <3>4, <3>5, <3>6 DEF WindowsInOrder
  <2>5. watched' \subseteq dialogs' /\ used' \in [windows : Nat, opens : Nat, faults : Nat]
    BY <1>0, <1>2, FreshHandle, Typed
  <2> QED
    BY <1>0, <1>2, <2>3, <2>4, <2>5, Typed, WindowKeeps
<1> QED
  BY <1>1, <1>2 DEF StartWindow

\* reopen's second section keeps the invariant.
LEMMA AttachWindowKeeps == ASSUME ApprovalInv, NEW w \in work, AttachWindow(w) PROVE ApprovalInv'
<1>0. /\ w \in Attaching /\ work' = work \ {w}
      /\ UNCHANGED <<lim, row, create, tail, unwritten, tries, wrongCodes, time, used, fact, closed, hist>>
  BY DEF AttachWindow, Attaching
<1>1. /\ w.id \in Approvals /\ w.h \in Nat /\ create[w.id] = "made" /\ <<w.id, w.h>> \in dialogs
      /\ <<w.id, w.h>> \notin watched /\ w.h <= used.windows
  <2>1. /\ <<w.id, w.h>> \in dialogs /\ <<w.id, w.h>> \notin watched
        /\ \A d \in dialogs : d \in Approvals \X Nat /\ d[2] <= used.windows
    BY <1>0 DEF ApprovalInv, WindowsInOrder
  <2>2. <<w.id, w.h>>[2] <= used.windows
    BY <2>1
  <2> QED
    BY <2>1, <2>2, WorkTyped
<1>2. /\ entry' \in [Approvals -> ApprovalEntries]
      /\ \A j \in Approvals : entry'[j].in = entry[j].in
      /\ \A j \in Approvals : entry'[j].handle = entry[j].handle \/ (j = w.id /\ entry'[j].handle = w.h)
  <2>1. entry \in [Approvals -> ApprovalEntries] /\ entry[w.id] \in ApprovalEntries
    BY <1>1, Typed
  <2>2. CASE entry' = [entry EXCEPT ![w.id].opening = FALSE]
    BY <1>1, <2>2, OpeningSet
  <2>3. CASE entry' = [entry EXCEPT ![w.id] = [@ EXCEPT !.opening = FALSE, !.handle = w.h, !.watch = w.h]]
    <3> DEFINE e == [entry[w.id] EXCEPT !.opening = FALSE, !.handle = w.h, !.watch = w.h]
    <3>1. e \in ApprovalEntries /\ e.in = entry[w.id].in /\ e.handle = w.h
      BY <1>1, <2>1 DEF ApprovalEntries
    <3>2. entry' = [entry EXCEPT ![w.id] = e]
      BY <2>3
    <3> HIDE DEF e
    <3> QED
      BY <1>1, <2>1, <3>1, <3>2
  <2> QED
    BY <2>2, <2>3 DEF AttachWindow
<1>3. /\ dialogs' \subseteq dialogs /\ (\A d \in dialogs : d \notin dialogs' => d = <<w.id, w.h>>)
      /\ \A d \in watched' : d \in watched \/ d = <<w.id, w.h>>
      /\ watched' \subseteq dialogs'
  BY <1>1, Typed DEF AttachWindow
<1>4. Attaching' = Attaching \ {w} /\ work' \subseteq WorkItems
  BY <1>0, Typed DEF Attaching
<1>5. \A u \in Attaching' : u \in Attaching /\ u.h # w.h
  BY <1>0, <1>4 DEF ApprovalInv, WindowsInOrder
<1>6. WindowsInOrder'
  <2>1. \A d \in dialogs' : d \in Approvals \X Nat /\ d[2] <= used'.windows
    BY <1>0, <1>3 DEF ApprovalInv, WindowsInOrder
  <2>2. \A d \in watched' : create'[d[1]] = "made"
    BY <1>0, <1>1, <1>3 DEF ApprovalInv, WindowsInOrder
  <2>3. \A j \in Approvals : entry'[j].handle <= used'.windows
    BY <1>0, <1>1, <1>2 DEF ApprovalInv, WindowsInOrder
  <2>4. \A u \in work' : create'[u.id] = "made"
    BY <1>0 DEF ApprovalInv, WindowsInOrder
  <2>5. ASSUME NEW u \in Attaching'
        PROVE  /\ <<u.id, u.h>> \in dialogs' /\ <<u.id, u.h>> \notin watched'
               /\ entry'[u.id].handle # u.h /\ u.h # 0
    <3>1. u \in Attaching /\ u.h # w.h /\ u.id \in Approvals
      BY <1>5, WorkTyped DEF Attaching
    <3>2. /\ <<u.id, u.h>> \in dialogs /\ <<u.id, u.h>> \notin watched
          /\ entry[u.id].handle # u.h /\ u.h # 0
      BY <3>1 DEF ApprovalInv, WindowsInOrder
    <3>3. <<u.id, u.h>> # <<w.id, w.h>>
      BY <3>1
    <3> QED
      BY <1>2, <1>3, <3>1, <3>2, <3>3
  <2>6. \A t, u \in Attaching' : t.h = u.h => t = u
    BY <1>5 DEF ApprovalInv, WindowsInOrder
  <2> QED
    BY <2>1, <2>2, <2>3, <2>4, <2>5, <2>6 DEF WindowsInOrder
<1>7. used' \in [windows : Nat, opens : Nat, faults : Nat]
  BY <1>0 DEF ApprovalInv, Types
<1> QED
  BY <1>0, <1>2, <1>3, <1>4, <1>6, <1>7, WindowKeeps

-----------------------------------------------------------------------------
(* The invariant                                                           *)

\* An empty store satisfies the invariant.
LEMMA ApprovalInitInv == ASSUME ApprovalInit PROVE ApprovalInv
<1>1. LimOK
  BY ApprovalConstants DEF ApprovalInit, LimOK
<1>2. \A i \in Approvals : entry[i].in = "none" /\ entry[i].handle = 0
  BY NoEntryIsTyped DEF ApprovalInit
<1>3. Types
  <2>1. row \in [Approvals -> ApprovalRows] /\ create \in [Approvals -> CreateSteps] /\ tail \in [Approvals -> Tails]
    BY DEF ApprovalInit, ApprovalRows, CreateSteps, Tails
  <2>2. entry \in [Approvals -> ApprovalEntries] /\ hist \in [Approvals -> HistRows]
    BY NoEntryIsTyped DEF ApprovalInit, HistRows
  <2>3. time \in [aged : SUBSET Approvals, hour : SUBSET Approvals, old : SUBSET Approvals]
    BY DEF ApprovalInit
  <2> QED
    BY <1>1, <2>1, <2>2, <2>3 DEF ApprovalInit, Types, ApprovalTypeOK
<1>4. OnePlace
  <2>1. lim.attempts \in Nat /\ unwritten = {} /\ time.old = {}
    BY <1>1 DEF ApprovalInit, LimOK
  <2>2. ASSUME NEW i \in Approvals PROVE Place(i)
    <3>1. /\ row[i].state = "none" /\ row[i].attempts = 0 /\ create[i] = "idle" /\ tail[i] = "none"
          /\ hist[i].hooks = 0 /\ hist[i].performed = 0 /\ hist[i].guesses = 0
      BY DEF ApprovalInit
    <3> QED
      BY <1>2, <2>1, <3>1 DEF Place, NotMade, LiveWaits, TailOwns, Recorded
  <2> QED
    BY <2>2 DEF OnePlace
<1>5. WindowsInOrder
  BY <1>2 DEF ApprovalInit, WindowsInOrder, Attaching
<1>6. Pending = {}
  BY <1>2 DEF Pending
<1>7. SlotsFinite
  BY <1>1, <1>6, FS_EmptySet DEF SlotsFinite, LimOK
<1> QED
  BY <1>3, <1>4, <1>5, <1>6, <1>7 DEF ApprovalInv, NothingPendingWhileLocked

\* Stuttering keeps the invariant.
LEMMA StutterKeeps == ASSUME ApprovalInv, UNCHANGED approvalVars PROVE ApprovalInv'
BY IdleKeeps, WorkFrame, TimeTyped DEF approvalVars, Ok

\* Every step of the store keeps the invariant.
LEMMA ApprovalStepKeeps == ASSUME ApprovalInv, [ApprovalNext]_approvalVars PROVE ApprovalInv'
<1>1. ASSUME NEW i \in Approvals,
             \/ FactGone(i)
             \/ CreateReserve(i) \/ CreateWindow(i) \/ CreateCode(i) \/ CreateStore(i)
      PROVE  ApprovalInv'
  BY <1>1, FactGoneKeeps, CreateReserveKeeps, CreateWindowKeeps, CreateCodeKeeps, CreateStoreKeeps
<1>2. ASSUME NEW i \in Approvals,
             \/ \E code \in {"right", "wrong"} : TerminalConfirm(i, code)
             \/ Reject(i) \/ RejectSubjects(i) \/ TailRow(i) \/ TailHook(i)
      PROVE  ApprovalInv'
  BY <1>2, TerminalConfirmKeeps, RejectKeeps, TailRowKeeps, TailHookKeeps
<1>3. ASSUME NEW i \in Approvals,
             \/ TimerFires(i) \/ ExpireNow(i) \/ TailExpire(i) \/ RetryExpired(i)
             \/ OpenWindow(i)
             \/ \E h \in 1..lim.windows, kind \in Answers : WindowAnswers(i, h, kind)
      PROVE  ApprovalInv'
  BY <1>3, TimerFiresKeeps, ExpireNowKeeps, TailExpireKeeps, RetryExpiredKeeps, OpenWindowKeeps, WindowAnswersKeeps
<1>4. ASSUME NEW w \in work, DecideAnswer(w) \/ Reopen(w) \/ StartWindow(w) \/ AttachWindow(w)
      PROVE  ApprovalInv'
  BY <1>4, DecideAnswerKeeps, ReopenKeeps, StartWindowKeeps, AttachWindowKeeps
<1>5. CASE HourPasses \/ MonthPasses \/ List \/ Close \/ Restart
  BY <1>5, HourPassesKeeps, MonthPassesKeeps, ListKeeps, CloseKeeps, RestartKeeps
<1> QED
  BY <1>1, <1>2, <1>3, <1>4, <1>5, StutterKeeps DEF ApprovalNext

\* The inductive invariant holds in every reachable state of the store.
LEMMA ApprovalAlways == ApprovalSpec => []ApprovalInv
BY ApprovalInitInv, ApprovalStepKeeps, PTL DEF ApprovalSpec

-----------------------------------------------------------------------------
\* Whoever reaches an approval first decides it, and nobody decides it again: its
\* action is performed or its hook runs, once; its row agrees; the lockout leaves
\* nothing to guess at; guesses and slots keep their bounds (store.go confirm,
\* expireNow, lockAll, dropReserved).
THEOREM ApprovalDecidedOnce == ApprovalSpec => []DecidedOnce
<1>1. ASSUME ApprovalInv PROVE DecidedOnce
  <2>1. \A i \in Approvals : Recorded(i) /\ hist[i].performed \in Nat
    BY <1>1, Fields DEF ApprovalInv, OnePlace, Place
  <2>2. OneOutcome /\ ApprovedMeansPerformed /\ GuessesBounded
    BY <2>1 DEF OneOutcome, ApprovedMeansPerformed, GuessesBounded, Recorded
  <2>3. SlotsAreBounded
    BY <1>1, <2>1 DEF SlotsAreBounded, Recorded, ApprovalInv, SlotsFinite
  <2> QED
    BY <1>1, <2>2, <2>3 DEF DecidedOnce, ApprovalInv, Types
<1> QED
  BY <1>1, ApprovalAlways, PTL
=============================================================================
