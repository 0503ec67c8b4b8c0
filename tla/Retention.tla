------------------------------ MODULE Retention ------------------------------
(***************************************************************************)
(* agentnet prune (internal/retention, internal/daemon/prune.go): a call   *)
(* counts what is finished and older than a cutoff and asks the human, and *)
(* once it is approved further calls remove it, one bounded batch and one  *)
(* transaction per call, never more of a table than was shown.             *)
(*                                                                         *)
(* Calls of several callers interleave with each other, with the decision  *)
(* and with the daemon's other work, which changes rows and receives mail  *)
(* between the batches.  Ids are numbers; a request stands for its         *)
(* direction, peer and id, and a session or debate names it in `req`.  The  *)
(* text of an inbox row counts as one unit of content.                     *)
(***************************************************************************)
EXTENDS Integers, Sequences, FiniteSets, SequencesExt, FiniteSetsExt

CONSTANTS Asks,           \* the removing calls that create an approval
          Runners,        \* the callers that repeat the call with it
          MinOlderThan, MaxRequests, MaxRows, MaxContentBytes,
          SeenRetention, pruneAuthTTL,
          Stores          \* the instances

VARIABLES kept,           \* the instance, an element of Stores
          rtime,          \* the clock
          tables,         \* table -> its rows, by id
          asking,         \* where each removing call is
          decided,        \* ask -> the state of its approval
          auths,          \* pruneAuths.m
          runLock,        \* pruneAuths.run
          runners,        \* where each runPrune is
          ended,          \* ask -> what was removed for it, and whether it is over
          rused           \* the bounds used up

callVars   == <<asking, decided, auths, runLock, runners, ended>>
pruneVars == <<kept, rtime, tables, callVars, rused>>

-----------------------------------------------------------------------------
(* What is finished and older than a cutoff. *)

ids(t) == DOMAIN tables[t]
at(t, i) == tables[t][i]

sessionsOf(r) == {w \in ids("work_sessions") : at("work_sessions", w).req = r}
debatesOf(r) == {d \in ids("debates") : at("debates", d).req = r}
overAt(t, i, cut) == at(t, i).closed /\ at(t, i).updated < cut

\* Mutant: the request's own state and age decide.
BugOwnAgeOnly(cut) == {r \in ids("requests") : overAt("requests", r, cut)}

\* finishedRequests: with every session and debate of theirs.
finishedRequests(cut) ==
    {r \in ids("requests") :
        /\ overAt("requests", r, cut)
        /\ \A w \in sessionsOf(r) : overAt("work_sessions", w, cut)
        /\ \A d \in debatesOf(r) : overAt("debates", d, cut)}

orphans(t, cut) == {i \in ids(t) : overAt(t, i, cut) /\ at(t, i).req \notin ids("requests")}
orphanGrants(cut) ==
    {g \in ids("grants") :
        LET gr == at("grants", g) IN
        \/ gr.held /\ (gr.exp < cut \/ gr.revoked < cut)
        \/ ~gr.held /\ gr.exp < cut /\ gr.session \notin ids("work_sessions")}
orphanExperience(cut) ==
    {x \in ids("experience_records") :
        LET e == at("experience_records", x) IN
        e.created < cut /\ e.session \notin ids("work_sessions") \cup ids("debates")}

\* SeenCutoff: ages by the earlier of the clock and the newest stamp.
SeenBasis(now) == Min({now, Max({at("mail_seen", i).at : i \in ids("mail_seen")})})
SeenCutoff(now) == IF ids("mail_seen") = {} THEN 0 ELSE SeenBasis(now) - SeenRetention
stillSeen(i, now) == i \in ids("mail_seen") /\ at("mail_seen", i).at >= SeenCutoff(now)

\* Mutant: an old row goes although its id is still in mail_seen.
BugAgeOnly(cut, now) == {i \in ids("mail_inbox") : at("mail_inbox", i).at < cut}

oldInbox(cut, now) ==
    {i \in ids("mail_inbox") : at("mail_inbox", i).at < cut /\ ~stillSeen(i, now)}

\* The rows to blank: those with text that this prune does not delete.
blankable(cut, now) ==
    {i \in ids("mail_inbox") : at("mail_inbox", i).full /\ i \notin oldInbox(cut, now)}

-----------------------------------------------------------------------------
(* Counts and plans. *)

Removed == {"requests", "work_sessions", "debates", "grants", "experience_records",
            "mail_inbox", "blank"}
noRows == [t \in Removed |-> {}]
counts(p) == [t \in Removed \cup {"debate_entries"} |->
                 IF t = "debate_entries" THEN MapThenSumSet(LAMBDA d : at("debates", d).entries,
                                                            p["debates"])
                 ELSE Cardinality(p[t])]
Zero == [t \in Removed \cup {"debate_entries"} |-> 0]
Add(c, o) == [t \in DOMAIN c |-> c[t] + o[t]]
Sub(c, o) == [t \in DOMAIN c |-> c[t] - o[t]]
within(c, a) == \A t \in DOMAIN c : c[t] <= a[t]

grantsOf(w) == {g \in ids("grants") : at("grants", g).session = w}
experienceOf(s) == {x \in ids("experience_records") : at("experience_records", x).session = s}

\* A group: an item with everything that is removed with it.
sessionGroup(ws) ==
    [noRows EXCEPT !["work_sessions"] = ws, !["grants"] = UNION {grantsOf(w) : w \in ws},
                   !["experience_records"] = UNION {experienceOf(w) : w \in ws}]
debateGroup(ds) ==
    [noRows EXCEPT !["debates"] = ds,
                   !["experience_records"] = UNION {experienceOf(d) : d \in ds}]
join(p, q) == [t \in Removed |-> p[t] \cup q[t]]
requestGroup(r) ==
    [join(sessionGroup(sessionsOf(r)), debateGroup(debatesOf(r))) EXCEPT !["requests"] = {r}]

\* DryRun (countAll): all of it, without the bounds of a call.
DryRun(cut, now) ==
    LET fin == finishedRequests(cut)
        ws == UNION {sessionsOf(r) : r \in fin} \cup orphans("work_sessions", cut)
        db == UNION {debatesOf(r) : r \in fin} \cup orphans("debates", cut)
    IN  counts(join(join(sessionGroup(ws), debateGroup(db)),
                    [noRows EXCEPT !["requests"] = fin, !["grants"] = orphanGrants(cut),
                                   !["experience_records"] = orphanExperience(cut),
                                   !["mail_inbox"] = oldInbox(cut, now),
                                   !["blank"] = blankable(cut, now)]))

inOrder(S, key(_)) ==
    SetToSortSeq(S, LAMBDA a, b : key(a) < key(b) \/ (key(a) = key(b) /\ a < b))
firstN(s, n) == SubSeq(s, 1, IF Len(s) < n THEN Len(s) ELSE n)

\* take: a group that no longer fits ends its loop and marks the plan capped.
take(p, g, allow) ==
    LET more == join(p.rows, g)
    IN  IF p.stop THEN p
        ELSE IF within(counts(more), allow) THEN [p EXCEPT !.rows = more]
        ELSE [p EXCEPT !.stop = TRUE, !.capped = TRUE]

\* One loop of makePlan over its rows, MaxRows of them at most.
loop(p, s, max, group(_), allow) ==
    [FoldLeft(LAMBDA q, i : take(q, group(i), allow), p, firstN(s, max))
        EXCEPT !.stop = FALSE, !.more = @ \/ Len(s) > max]

sizeOf(s) == FoldLeft(LAMBDA n, r : n + at("requests", r).size, 0, s)
\* How many of the oldest requests a call takes: one at least, no more than
\* MaxRequests, and no further once their content reaches the bound.
requestsTaken(s) ==
    Max({0} \cup {n \in 1 .. Len(s) : n <= MaxRequests
                     /\ (n = 1 \/ sizeOf(SubSeq(s, 1, n - 1)) < MaxContentBytes)})

one(t) == [i \in ids(IF t = "blank" THEN "mail_inbox" ELSE t) |-> [noRows EXCEPT ![t] = {i}]]

planOrphans(p1, cut, allow) ==
    LET p2 == loop(p1, inOrder(orphans("work_sessions", cut),
                               LAMBDA w : at("work_sessions", w).updated),
                   MaxRows, LAMBDA w : sessionGroup({w}), allow)
        p3 == loop(p2, inOrder(orphans("debates", cut), LAMBDA d : at("debates", d).updated),
                   MaxRows, LAMBDA d : debateGroup({d}), allow)
        p4 == loop(p3, inOrder(orphanGrants(cut), LAMBDA g : at("grants", g).exp),
                   MaxRows, LAMBDA g : one("grants")[g], allow)
    IN  loop(p4, inOrder(orphanExperience(cut), LAMBDA x : at("experience_records", x).created),
             MaxRows, LAMBDA x : one("experience_records")[x], allow)

planInbox(p5, cut, now, allow) ==
    LET p6 == loop(p5, inOrder(oldInbox(cut, now), LAMBDA i : at("mail_inbox", i).at),
                   MaxRows, LAMBDA i : one("mail_inbox")[i], allow)
    IN  loop(p6, inOrder(blankable(cut, now), LAMBDA i : i),
             Min({MaxRows, MaxContentBytes}), LAMBDA i : one("blank")[i], allow)

makePlan(cut, now, allow) ==
    LET fin == inOrder(finishedRequests(cut), LAMBDA r : at("requests", r).updated)
        p0 == [rows |-> noRows, more |-> FALSE, capped |-> FALSE, stop |-> FALSE]
        p1 == loop(p0, fin, requestsTaken(fin), requestGroup, allow)
    IN  planInbox(planOrphans(p1, cut, allow), cut, now, allow)

without(t, is) == [i \in ids(t) \ is |-> at(t, i)]
expiredSeen(now) == {i \in ids("mail_seen") : at("mail_seen", i).at < SeenCutoff(now)}

\* pruneTx: the plan's rows, and in the same transaction the mail_seen prune.
pruneTx(p, now) ==
    tables' = [t \in DOMAIN tables |->
        IF t = "mail_seen" THEN without(t, expiredSeen(now))
        ELSE IF t = "mail_inbox"
        THEN [i \in ids(t) \ p.rows[t] |-> IF i \in p.rows["blank"]
                                           THEN [at(t, i) EXCEPT !.full = FALSE] ELSE at(t, i)]
        ELSE without(t, p.rows[t])]

-----------------------------------------------------------------------------
(* createPruneApproval *)

\* The cutoff is fixed and the rows are counted; too young an age, or nothing
\* to remove, ends it.
askPrune(a) ==
    /\ asking[a].pc = "new"
    /\ LET cut == rtime - kept.asks[a]
           c == DryRun(cut, rtime)
       IN  asking' = [asking EXCEPT ![a] =
              [pc |-> IF kept.asks[a] < MinOlderThan \/ c = Zero THEN "done" ELSE "counted", cutoff |-> cut, counts |-> c]]
    /\ UNCHANGED <<kept, rtime, tables, decided, auths, runLock, runners, ended, rused>>

createPruneApproval(a) ==
    /\ asking[a].pc = "counted"
    /\ asking' = [asking EXCEPT ![a].pc = "created"]
    /\ decided' = [decided EXCEPT ![a] = "pending"]
    /\ UNCHANGED <<kept, rtime, tables, auths, runLock, runners, ended, rused>>

NoAuth == [there |-> FALSE, cutoff |-> 0, counts |-> Zero, removed |-> Zero,
           approved |-> FALSE, until |-> 0]

setAuth(a) ==
    /\ asking[a].pc = "created"
    /\ asking' = [asking EXCEPT ![a].pc = "done"]
    /\ auths' = [auths EXCEPT ![a] = [NoAuth EXCEPT !.there = TRUE, !.cutoff = asking[a].cutoff,
                                                    !.counts = asking[a].counts]]
    /\ UNCHANGED <<kept, rtime, tables, decided, runLock, runners, ended, rused>>

\* The human confirms, and after that commit the auth is approved, if it is
\* there; or rejects, or lets the approval expire.
confirmPrune(a) ==
    /\ decided[a] = "pending"
    /\ decided' = [decided EXCEPT ![a] = "approving"]
    /\ UNCHANGED <<kept, rtime, tables, asking, auths, runLock, runners, ended, rused>>

approve(a) ==
    /\ decided[a] = "approving"
    /\ decided' = [decided EXCEPT ![a] = "approved"]
    /\ auths' = IF auths[a].there
                THEN [auths EXCEPT ![a].approved = TRUE, ![a].until = rtime + pruneAuthTTL]
                ELSE auths
    /\ UNCHANGED <<kept, rtime, tables, asking, runLock, runners, ended, rused>>

dropAuth(a) == auths' = [auths EXCEPT ![a] = NoAuth]

rejectPrune(a) ==
    /\ decided[a] = "pending" /\ rused.rejects < kept.rejects
    /\ decided' = [decided EXCEPT ![a] = "rejected"]
    /\ dropAuth(a)
    /\ rused' = [rused EXCEPT !.rejects = @ + 1]
    /\ UNCHANGED <<kept, rtime, tables, asking, runLock, runners, ended>>

-----------------------------------------------------------------------------
(* runPrune *)

target(k) == kept.runs[k]
moveRunner(k, pc) == runners' = [runners EXCEPT ![k].pc = pc]

\* The first look: an unknown, undecided or lapsed prune answers at once; a
\* caller asks again while it is undecided.
runPrune(k) ==
    LET a == target(k) IN
    /\ runners[k].pc = "new" /\ asking[a].pc = "done" /\ decided[a] # "none"
    /\ CASE ~auths[a].there -> moveRunner(k, "done") /\ UNCHANGED auths
         [] auths[a].there /\ ~auths[a].approved ->
               /\ decided[a] \in {"rejected", "expired"}
               /\ moveRunner(k, "done") /\ dropAuth(a)
         [] auths[a].there /\ auths[a].approved /\ rtime > auths[a].until ->
               moveRunner(k, "done") /\ dropAuth(a)
         [] OTHER -> /\ runners' = [runners EXCEPT ![k] = [@ EXCEPT !.pc = "lock", !.t = rtime,
                                                                     !.auth = auths[a]]]
                     /\ UNCHANGED auths
    /\ UNCHANGED <<kept, rtime, tables, asking, decided, runLock, ended, rused>>

\* Mutant: the batch uses what was read before it had the lock.
BugStaleAuth(k) == runners[k].auth

\* The auth is read again under the run lock.
authUnderLock(k) == auths[target(k)]

\* pruneBatch, under the lock: one transaction; what it removed is booked in
\* the next step.  A prune that ended meanwhile answers that it is unknown.
pruneBatch(k) ==
    LET auth == authUnderLock(k)
        p == makePlan(auth.cutoff, runners[k].t, Sub(auth.counts, auth.removed)) IN
    /\ runners[k].pc = "lock" /\ runLock = "free"
    /\ IF auths[target(k)].there
       THEN /\ pruneTx(p, runners[k].t)
            /\ runners' = [runners EXCEPT ![k].pc = "removed", ![k].c = counts(p.rows),
                                          ![k].more = p.more /\ ~p.capped]
            /\ runLock' = k
            /\ ended' = [ended EXCEPT ![target(k)].removed = Add(@, counts(p.rows))]
       ELSE moveRunner(k, "done") /\ UNCHANGED <<tables, runLock, ended>>
    /\ UNCHANGED <<kept, rtime, asking, decided, auths, rused>>

\* The batch fails as a whole: nothing of this call is removed.
batchFails(k) ==
    /\ runners[k].pc = "lock" /\ runLock = "free" /\ auths[target(k)].there
    /\ rused.faults < kept.faults
    /\ rused' = [rused EXCEPT !.faults = @ + 1]
    /\ moveRunner(k, "new")
    /\ UNCHANGED <<kept, rtime, tables, asking, decided, auths, runLock, ended>>

\* addRemoved, and drop when nothing more remains; the caller calls again.
addRemoved(k) ==
    LET a == target(k)
        sum == Add(auths[a].removed, runners[k].c) IN
    /\ runners[k].pc = "removed"
    /\ auths' = IF ~auths[a].there THEN auths
                ELSE IF runners[k].more THEN [auths EXCEPT ![a].removed = sum]
                ELSE [auths EXCEPT ![a] = NoAuth]
    /\ ended' = [ended EXCEPT ![a].over = @ \/ ~runners[k].more]
    /\ moveRunner(k, IF runners[k].more THEN "new" ELSE "done")
    /\ runLock' = "free"
    /\ UNCHANGED <<kept, rtime, tables, asking, decided, rused>>

-----------------------------------------------------------------------------
(* The daemon's other work. *)

\* A late mail or a local call changes a row that is finished: its updated is
\* now, whatever the row says.
touch(t, i) ==
    /\ rused.touches < kept.touches /\ i \in ids(t)
    /\ rused' = [rused EXCEPT !.touches = @ + 1]
    /\ tables' = [tables EXCEPT ![t][i].updated = rtime]
    /\ UNCHANGED <<kept, rtime, callVars>>

\* A mail is stored: both halves of the dedupe set, in one transaction.
mailStored(i) ==
    /\ i \in kept.mails \ (ids("mail_inbox") \cup ids("mail_seen"))
    /\ rused.mails < Cardinality(kept.mails)
    /\ rused' = [rused EXCEPT !.mails = @ + 1]
    /\ tables' = [tables EXCEPT
          !["mail_inbox"] = [j \in DOMAIN @ \cup {i} |->
                                IF j = i THEN [at |-> rtime, full |-> FALSE] ELSE @[j]],
          !["mail_seen"] = [j \in DOMAIN @ \cup {i} |-> IF j = i THEN [at |-> rtime] ELSE @[j]]]
    /\ UNCHANGED <<kept, rtime, callVars>>

\* Prune: the daily prune of mail_seen.
PruneSeen ==
    /\ expiredSeen(rtime) # {}
    /\ tables' = [tables EXCEPT !["mail_seen"] = without("mail_seen", expiredSeen(rtime))]
    /\ UNCHANGED <<kept, rtime, callVars, rused>>

timeRuns ==
    /\ rtime < kept.time
    /\ rtime' = rtime + 1
    /\ UNCHANGED <<kept, tables, callVars, rused>>

\* A restart: the auths are in memory, and pending approvals expire.
restartDaemon ==
    /\ rused.restarts < kept.restarts
    /\ rused' = [rused EXCEPT !.restarts = @ + 1]
    /\ auths' = [a \in Asks |-> NoAuth] /\ runLock' = "free"
    /\ decided' = [a \in Asks |-> IF decided[a] = "pending" THEN "expired" ELSE
                                   IF decided[a] = "approving" THEN "approved" ELSE decided[a]]
    /\ asking' = [a \in Asks |-> IF asking[a].pc = "new" THEN asking[a]
                                  ELSE [asking[a] EXCEPT !.pc = "done"]]
    /\ runners' = [k \in Runners |-> [runners[k] EXCEPT
                        !.pc = IF @ \in {"lock", "removed"} THEN "new" ELSE @]]
    /\ UNCHANGED <<kept, rtime, tables, ended>>

-----------------------------------------------------------------------------
RetentionInit ==
    /\ kept \in Stores
    /\ rtime = kept.now /\ tables = kept.tables
    /\ asking = [a \in Asks |-> [pc |-> IF a \in DOMAIN kept.asks THEN "new" ELSE "done",
                                  cutoff |-> 0, counts |-> Zero]]
    /\ decided = [a \in Asks |-> "none"]
    /\ auths = [a \in Asks |-> NoAuth] /\ runLock = "free"
    /\ runners = [k \in Runners |-> [pc |-> IF k \in DOMAIN kept.runs THEN "new" ELSE "done",
                                      t |-> 0, auth |-> NoAuth, c |-> Zero, more |-> FALSE]]
    /\ ended = [a \in Asks |-> [removed |-> Zero, over |-> FALSE]]
    /\ rused = [rejects |-> 0, faults |-> 0, touches |-> 0, mails |-> 0, restarts |-> 0]

RetentionNext ==
    \/ \E a \in Asks : askPrune(a) \/ createPruneApproval(a) \/ setAuth(a) \/ confirmPrune(a)
                        \/ approve(a) \/ rejectPrune(a)
    \/ \E k \in Runners : runPrune(k) \/ pruneBatch(k) \/ batchFails(k) \/ addRemoved(k)
    \/ \E t \in {"requests", "work_sessions", "debates"} : \E i \in ids(t) : touch(t, i)
    \/ \E i \in kept.mails : mailStored(i)
    \/ PruneSeen \/ timeRuns \/ restartDaemon

RetentionSpec == RetentionInit /\ [][RetentionNext]_pruneVars

-----------------------------------------------------------------------------
(* Properties *)

\* "Never more than shown": over all the batches of an approval, run by any
\* number of callers at once, no more of a table is removed or blanked than
\* the human was shown; and a prune that nothing disturbed has, when it ends,
\* removed exactly that, although each call takes only its bounded share
\* (fits, makePlan, "a dry run's counts equal the sum of the calls'").
RemovesWhatWasShown ==
    \A a \in Asks :
        /\ within(ended[a].removed, asking[a].counts)
        /\ (ended[a].over /\ kept.calm) => ended[a].removed = asking[a].counts

\* An id never leaves mail_inbox while mail_seen holds it: the two stay one
\* dedupe set, so a repeated mail is never applied again (pruneTx).
InboxOutlivesSeen == ids("mail_seen") \subseteq ids("mail_inbox")

\* Only what is finished and older than the cutoff the human saw is removed,
\* though rows change between counting, approval and batch: a request goes
\* only together with all its sessions and debates, and nothing of it after
\* one of them was touched (finishedRequests); and the two above hold all along.
PrunesWhatWasShown ==
    [][/\ RemovesWhatWasShown' /\ InboxOutlivesSeen'
       /\ \A t \in {"requests", "work_sessions", "debates"} : \A i \in ids(t) \ DOMAIN tables'[t] :
             \E a \in Asks : /\ auths[a].approved /\ overAt(t, i, auths[a].cutoff)
                             /\ t = "requests" => (sessionsOf(i) \cap DOMAIN tables'["work_sessions"])
                                                  \cup (debatesOf(i) \cap DOMAIN tables'["debates"]) = {}
      ]_pruneVars
=============================================================================
