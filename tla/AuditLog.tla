------------------------------ MODULE AuditLog ------------------------------
(***************************************************************************)
(* The audit log (internal/audit): hash-chained rows in audit_events,      *)
(* written in a transaction of their own (Append), with a change that must *)
(* not happen without them (AppendTx) or with a removal that must happen   *)
(* anyway (AppendTxSoft, RunSoft); Verify, which walks the chain page by   *)
(* page while rows are added; and Query, which lists it by batches.        *)
(*                                                                         *)
(* The daemon has one database connection; another process (agentnetd      *)
(* install) appends to the same file.  SQLite (external) gives the write   *)
(* lock to one transaction, refuses a write on a snapshot that another     *)
(* commit has overtaken, and drops what was not committed.  A hash is the  *)
(* sequence of what it commits to, so it is injective as SHA-256 is taken  *)
(* to be; a row without one (from before migration 18) has the empty one.  *)
(***************************************************************************)
EXTENDS Integers, Sequences, FiniteSets, SequencesExt

CONSTANTS verifyPage, queryBatch, listLimit,
          Logs          \* the instances

VARIABLES alog,         \* the instance, an element of Logs
          audit_events, \* the committed rows, in id order
          changed,      \* the writers whose change is committed
          tx,           \* writer -> its transaction
          writeLock,    \* the writer that holds SQLite's write lock
          anchors,      \* heads recorded earlier
          vrun,         \* Verify
          lister,       \* a reader of audit_list that follows next_after_id
          aused         \* the bounds used up

dbVars   == <<audit_events, changed, tx, writeLock>>
auditVars == <<alog, dbVars, anchors, vrun, lister, aused>>

-----------------------------------------------------------------------------
(* The chain. *)

genesis == <<>>
NoHash == <<>>
chainHash(prev, r) == Append(prev, [id |-> r.id, action |-> r.action, legacy |-> r.legacy])
ChainStart == "audit.chain_start"
bare(i, a) == [id |-> i, action |-> a, legacy |-> <<0, 0>>]
stored(r, h) == [id |-> r.id, action |-> r.action, legacy |-> r.legacy, hash |-> h]

headId(rows) == IF rows = <<>> THEN 0 ELSE Last(rows).id
insertRow(rows, prev, r) == Append(rows, stored(r, chainHash(prev, r)))

\* Mutant: the chain starts without the rows that are already there.
BugFreshChain(rows) ==
    insertRow(rows, genesis, [bare(headId(rows) + 1, ChainStart) EXCEPT
                                 !.legacy = <<Len(rows), headId(rows)>>])

\* startChain: the rows from before are chained virtually, and sealed by a row
\* that counts them and names the last.
startChain(rows) ==
    insertRow(rows, FoldLeft(chainHash, genesis, rows),
              [bare(headId(rows) + 1, ChainStart) EXCEPT !.legacy = <<Len(rows), headId(rows)>>])

\* appendChained: the row after the head, after the chain's start if need be.
appendChained(rows, action) ==
    LET chain == IF rows = <<>> \/ Last(rows).hash = NoHash THEN startChain(rows) ELSE rows
    IN  insertRow(chain, Last(chain).hash, bare(headId(chain) + 1, action))

-----------------------------------------------------------------------------
(* Transactions.  A writer of kind "own" is Append, "hard" a change with    *)
(* AppendTx, "soft" a removal under RunSoft; `reads` says that its change   *)
(* reads before it writes.                                                  *)

NoTx == [pc |-> "none", rows |-> <<>>, seen |-> 0, skip |-> FALSE]
kind(w) == alog.writers[w].kind
sameProcess(v, w) == alog.writers[v].proc = alog.writers[w].proc
open(w) == tx[w].pc \in {"begun", "changed", "rowed"}

goto(w, r) == tx' = [tx EXCEPT ![w] = r]
drop(w) == writeLock' = IF writeLock = w THEN "free" ELSE writeLock

\* Only one transaction of a process is open: it has one connection.  An
\* Append takes the write lock with it, another transaction the lock later.
begin(w) ==
    /\ tx[w].pc \in {"none", "retry"}
    /\ \A v \in DOMAIN tx : sameProcess(v, w) => ~open(v)
    /\ kind(w) = "own" => writeLock = "free"
    /\ writeLock' = IF kind(w) = "own" THEN w ELSE writeLock
    /\ goto(w, [NoTx EXCEPT !.pc = IF kind(w) = "own" THEN "changed" ELSE "begun",
                            !.rows = audit_events,
                            !.seen = IF kind(w) = "own" \/ alog.writers[w].reads
                                     THEN Len(audit_events) ELSE -1,
                            !.skip = tx[w].pc = "retry"])
    /\ UNCHANGED <<alog, audit_events, changed, anchors, vrun, lister, aused>>

rollback(w, pc) == drop(w) /\ goto(w, [NoTx EXCEPT !.pc = pc])

\* The change itself: the first write takes the lock, on a snapshot that is
\* still the newest; a transaction overtaken by another commit is refused.
change(w) ==
    /\ tx[w].pc = "begun" /\ writeLock = "free"
    /\ IF tx[w].seen \in {-1, Len(audit_events)}
       THEN /\ writeLock' = w
            /\ goto(w, [tx[w] EXCEPT !.pc = "changed", !.rows = audit_events])
       ELSE rollback(w, "error")
    /\ UNCHANGED <<alog, audit_events, changed, anchors, vrun, lister, aused>>

\* The row of Append and AppendTx: its failure is the caller's, who rolls back.
appendHard(w, fails) ==
    /\ tx[w].pc = "changed" /\ kind(w) \in {"own", "hard"}
    /\ IF fails = "no"
       THEN /\ goto(w, [tx[w] EXCEPT !.pc = "rowed", !.rows = appendChained(@, w)])
            /\ UNCHANGED writeLock
       ELSE rollback(w, "error")

\* Mutant: a lost transaction is given up as if its row alone had failed.
BugLostIsSoft(w, fails) ==
    /\ tx[w].pc = "changed" /\ kind(w) = "soft"
    /\ CASE tx[w].skip -> goto(w, [tx[w] EXCEPT !.pc = "rowed"]) /\ UNCHANGED writeLock
         [] ~tx[w].skip /\ fails = "no" ->
               /\ goto(w, [tx[w] EXCEPT !.pc = "rowed", !.rows = appendChained(@, w)])
               /\ UNCHANGED writeLock
         [] ~tx[w].skip /\ fails = "row" ->
               goto(w, [tx[w] EXCEPT !.pc = "rowed"]) /\ UNCHANGED writeLock
         [] ~tx[w].skip /\ fails = "lost" -> rollback(w, "ok")

\* AppendTxSoft: the savepoint keeps the change when only the row fails; when
\* SQLite ended the transaction RunSoft runs the change again without rows.
AppendTxSoft(w, fails) ==
    /\ tx[w].pc = "changed" /\ kind(w) = "soft"
    /\ CASE tx[w].skip -> goto(w, [tx[w] EXCEPT !.pc = "rowed"]) /\ UNCHANGED writeLock
         [] ~tx[w].skip /\ fails = "no" ->
               /\ goto(w, [tx[w] EXCEPT !.pc = "rowed", !.rows = appendChained(@, w)])
               /\ UNCHANGED writeLock
         [] ~tx[w].skip /\ fails = "row" ->
               goto(w, [tx[w] EXCEPT !.pc = "rowed"]) /\ UNCHANGED writeLock
         [] ~tx[w].skip /\ fails = "lost" -> rollback(w, "retry")

writeRow(w, fails) ==
    /\ fails = "no" \/ aused.faults < alog.faults
    /\ appendHard(w, fails) \/ AppendTxSoft(w, fails)
    /\ aused' = IF fails = "no" THEN aused ELSE [aused EXCEPT !.faults = @ + 1]
    /\ UNCHANGED <<alog, audit_events, changed, anchors, vrun, lister>>

\* Commit, or its failure, which RunSoft does not retry.
commit(w) ==
    /\ tx[w].pc = "rowed"
    /\ audit_events' = tx[w].rows
    /\ changed' = changed \cup {w}
    /\ drop(w) /\ goto(w, [NoTx EXCEPT !.pc = "ok"])
    /\ UNCHANGED <<alog, anchors, vrun, lister, aused>>

commitFails(w) ==
    /\ tx[w].pc = "rowed" /\ aused.faults < alog.faults
    /\ rollback(w, "error")
    /\ aused' = [aused EXCEPT !.faults = @ + 1]
    /\ UNCHANGED <<alog, audit_events, changed, anchors, vrun, lister>>

\* A process ends: SQLite drops its open transaction.
processDies(w) ==
    /\ open(w) /\ aused.faults < alog.faults
    /\ rollback(w, "lost")
    /\ aused' = [aused EXCEPT !.faults = @ + 1]
    /\ UNCHANGED <<alog, audit_events, changed, anchors, vrun, lister>>

-----------------------------------------------------------------------------
(* Verify: the head is read once, then pages up to it. *)

\* Head: somebody notes the head, to be given to Verify as an anchor.
noteHead ==
    /\ Cardinality(anchors) < alog.anchors
    /\ audit_events # <<>> /\ Last(audit_events).hash # NoHash
    /\ anchors' = anchors \cup {[id |-> headId(audit_events), hash |-> Last(audit_events).hash]}
    /\ anchors' # anchors
    /\ UNCHANGED <<alog, dbVars, vrun, lister, aused>>

NoRun == [pc |-> "none", status |-> "ok", head |-> 0, after |-> 0, prev |-> genesis,
          lastID |-> 0, legacy |-> 0, started |-> FALSE, anchors |-> {}, seen |-> {}]

Verify ==
    /\ vrun.pc = "none"
    /\ vrun' = [NoRun EXCEPT !.pc = IF audit_events = <<>> THEN "end" ELSE "page",
                             !.head = headId(audit_events), !.anchors = anchors]
    /\ UNCHANGED <<alog, dbVars, anchors, lister, aused>>

fail(s, reason) == [s EXCEPT !.status = reason]

\* isChainStart: the first stored row counts the legacy rows before it.
isChainStart(s, r) ==
    r.action = ChainStart /\ r.legacy = <<s.legacy, IF s.legacy > 0 THEN s.lastID ELSE 0>>

\* check: one row, in the order of the checks.
check(s, r) ==
    LET h == chainHash(s.prev, r)
        wants == {a \in s.anchors : a.id = r.id}
        next == [s EXCEPT !.prev = h, !.lastID = r.id, !.seen = @ \cup {r.id}]
    IN  CASE s.status # "ok" -> s
          [] s.status = "ok" /\ ~s.started /\ r.hash = NoHash -> [next EXCEPT !.legacy = @ + 1]
          [] s.status = "ok" /\ ~s.started /\ r.hash # NoHash /\ ~isChainStart(s, r) ->
                fail(s, "chain_start")
          [] s.status = "ok" /\ s.started /\ r.id # s.lastID + 1 -> fail(s, "gap")
          [] s.status = "ok" /\ s.started /\ r.id = s.lastID + 1 /\ r.hash = NoHash ->
                fail(s, "unchained")
          [] OTHER -> IF h # r.hash THEN fail(s, "hash_mismatch")
                      ELSE IF \E a \in wants : a.hash # r.hash THEN fail(s, "anchor_mismatch")
                      ELSE [next EXCEPT !.started = TRUE]

checkAnchorsMissing(s) ==
    IF s.status = "ok" /\ \E a \in s.anchors : a.id \notin s.seen
    THEN fail(s, "anchor_missing") ELSE s

firstOf(rows, n) == SubSeq(rows, 1, IF Len(rows) < n THEN Len(rows) ELSE n)

\* readPage and the checks of its rows; a short page is the last one.
readPage ==
    /\ vrun.pc = "page"
    /\ LET page == firstOf(SelectSeq(audit_events,
                               LAMBDA r : vrun.after < r.id /\ r.id <= vrun.head), verifyPage)
           s == FoldLeft(check, vrun, page)
       IN  vrun' = IF s.status # "ok" THEN [s EXCEPT !.pc = "end"]
                   ELSE IF Len(page) < verifyPage THEN [checkAnchorsMissing(s) EXCEPT !.pc = "end"]
                   ELSE [s EXCEPT !.after = Last(page).id]
    /\ UNCHANGED <<alog, dbVars, anchors, lister, aused>>

-----------------------------------------------------------------------------
(* Query: audit_list, at most listLimit rows a call, in reads of queryBatch. *)
(* A row may pass the filter of the query and fail the exact window.         *)

passes(r) == r.action \in DOMAIN alog.writers => alog.writers[r.action].match # "no"
inWindow(r) == r.action \in DOMAIN alog.writers => alog.writers[r.action].match = "yes"

Query ==
    /\ lister.pc = "none"
    /\ lister' = [lister EXCEPT !.pc = "batch", !.call = <<>>, !.start = audit_events]
    /\ UNCHANGED <<alog, dbVars, anchors, vrun, aused>>

\* Mutant: the caller is told to go on after the last row that was read.
BugAfterRead(batch, call) == Last(batch).id

\* next_after_id is the last row of the answer.
nextAfterID(batch, call) == Last(call).id

\* readEntries and the filter; a full call names the row to go on after, and
\* the reader goes on with its next call.
readEntries ==
    /\ lister.pc = "batch"
    /\ LET batch == firstOf(SelectSeq(audit_events, LAMBDA r : lister.after < r.id /\ passes(r)),
                            queryBatch)
           kept == SelectSeq(batch, inWindow)
           room == listLimit - Len(lister.call)
           call == lister.call \o firstOf(kept, room)
       IN  lister' = IF Len(kept) > room
                     THEN [lister EXCEPT !.got = @ \o call, !.call = <<>>,
                                         !.after = nextAfterID(batch, call)]
                     ELSE IF Len(batch) < queryBatch
                     THEN [lister EXCEPT !.got = @ \o call, !.call = <<>>, !.pc = "end"]
                     ELSE [lister EXCEPT !.call = call, !.after = Last(batch).id]
    /\ UNCHANGED <<alog, dbVars, anchors, vrun, aused>>

-----------------------------------------------------------------------------
AuditInit ==
    /\ alog \in Logs
    /\ audit_events = [i \in 1 .. Len(alog.legacy) |->
                          stored(bare(alog.legacy[i], "old"), NoHash)]
    /\ changed = {}
    /\ tx = [w \in DOMAIN alog.writers |-> NoTx]
    /\ writeLock = "free" /\ anchors = {} /\ vrun = NoRun
    /\ lister = [pc |-> "none", after |-> 0, call |-> <<>>, got |-> <<>>, start |-> <<>>]
    /\ aused = [faults |-> 0]

AuditNext ==
    \/ \E w \in DOMAIN tx :
          \/ begin(w) \/ change(w) \/ commit(w) \/ commitFails(w) \/ processDies(w)
          \/ \E f \in {"no", "row", "lost"} : writeRow(w, f)
    \/ noteHead \/ Verify \/ readPage \/ Query \/ readEntries

AuditSpec == AuditInit /\ [][AuditNext]_auditVars

-----------------------------------------------------------------------------
(* Properties *)

\* A log that only this package wrote verifies, with every head noted before:
\* rows of two processes, transactions that were refused, lost or rolled back
\* around the chain's start, gaps among the legacy rows and rows added during
\* the walk never make Verify report a broken chain.
HonestLogVerifies == vrun.status = "ok"

\* A row and its change go together: no row without its change, no change of
\* the kind that needs its row without it, and a removal that was reported
\* done is done although its row, or the whole transaction, was lost.
RowGoesWithChange ==
    /\ \A i \in 1 .. Len(audit_events) :
          audit_events[i].action \in DOMAIN tx => audit_events[i].action \in changed
    /\ \A w \in changed : kind(w) # "soft" =>
          \E i \in 1 .. Len(audit_events) : audit_events[i].action = w
    /\ \A w \in DOMAIN tx : tx[w].pc = "ok" => w \in changed
    /\ \A w \in DOMAIN tx : tx[w].pc \in {"error", "lost"} => w \notin changed

\* Following next_after_id lists every matching row that was there when the
\* listing started, once and in order, whatever batches and calls it takes
\* and whatever is appended meanwhile (Query).
ListedOnce ==
    /\ \A i, j \in 1 .. Len(lister.got) : i < j => lister.got[i].id < lister.got[j].id
    /\ lister.pc = "end" =>
          \A r \in Range(SelectSeq(lister.start, inWindow)) : r \in Range(lister.got)

\* The log is whole: the three above.
LogIsWhole == HonestLogVerifies /\ RowGoesWithChange /\ ListedOnce
=============================================================================
