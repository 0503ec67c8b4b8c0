--------------------------- MODULE RelayAccounts ---------------------------
(***************************************************************************)
(* The hosted relay's admission and accounts (src/internal/relay:          *)
(* accounts.go, accounts_store.go, admin.go, journal.go, backup.go, the    *)
(* connection lifecycle of relay.go and the counters of limits.go).        *)
(*                                                                         *)
(* A connection is counted in four places, each under its own lock, on its *)
(* way from the upgrade to the read loop, and counted out again on every   *)
(* path.  The bindings of keys to accounts live in the database; the relay *)
(* keeps a cache of them, and brings the cache and its live connections in *)
(* line after each change it makes itself, and when the watcher sees that  *)
(* another process (relay admin) committed.  A change is written to the    *)
(* security journal after it is committed; a restore replays the entries   *)
(* that are newer than the backup file.                                    *)
(*                                                                         *)
(* A key's network prefix, an account's quota group and the order of rows  *)
(* are constants; times are reduced to "the bind has expired" and to the   *)
(* length of the journal at the moment a file was last written.            *)
(***************************************************************************)
EXTENDS Naturals, Sequences, FiniteSets, SequencesExt

CONSTANTS HKeys, Accounts, Groups, HConns,
          hostPrefix,  \* the network prefix of each key
          groupOf,     \* the quota group of each account, or None
          Hostings     \* the instances: see hosting

None == "none"
Servers == {"page", "loop", "watch"}  \* goroutines of the relay
Threads == Servers \cup {"admin"}     \* and the relay admin process
HPrefixes == {hostPrefix[k] : k \in HKeys}

VARIABLES
  hosting,     \* [conns, caps, ops, binds, bound, changes, backups, faults]
  db,          \* [keys, acct, gstate, binds]: the tables
  cache,       \* accounts.keys
  fresh,       \* data_version still is the version the watcher acted on
  missed,      \* the last reload failed
  ops,         \* per thread: pc, the change it makes, its error
  reconcileMu, \* the thread that holds it, or None
  up,          \* "up", "closing" (Close began) or "down"
  con,         \* per connection: phase, key and account fields
  reg,         \* Server.conns
  unbound,     \* Server.unbound: per prefix, oldest first
  unauth, prefixConns, authed, prefixKeys, \* the admission counters
  told,        \* per bind: the last answer to its bind_poll
  journal,     \* the security journal
  snap,        \* the backup file: its rows, and the journal's length at its mtime
  revoked,     \* keys whose unbinding was reported done, and not bound since
  left         \* [changes, backups]: what may still happen (a bound)

accountVars == <<db, cache, fresh, missed, ops, reconcileMu, told>>
hconnVars == <<con, reg, unbound, unauth, prefixConns, authed, prefixKeys>>
safeVars == <<journal, snap, revoked>>
hostVars == <<hosting, accountVars, hconnVars, safeVars, up, left>>

-----------------------------------------------------------------------------
(* The tables *)

Unbound == [account |-> None, group |-> None, suspended |-> FALSE]

\* accountStore.loadBindings: the join of account_keys, accounts and quota_groups
groupState(d, a) == IF groupOf[a] = None THEN None ELSE d.gstate[groupOf[a]]

isSuspended(d, a) == d.acct[a] = "suspended" \/ groupState(d, a) = "suspended"

loadBindings(d) ==
  [k \in HKeys |->
     IF d.keys[k] = None THEN Unbound
     ELSE [account |-> d.keys[k], suspended |-> isSuspended(d, d.keys[k]),
           group |-> IF groupState(d, d.keys[k]) = "active" THEN groupOf[d.keys[k]] ELSE None]]

\* execAccountState, execGroupState (a closed group stays closed), execDeleteAccount
execAccountState(d, a, s) ==
  [d EXCEPT !.acct[a] = IF @ = "gone" THEN @ ELSE IF s THEN "suspended" ELSE "active"]

execGroupState(d, g, s) ==
  [d EXCEPT !.gstate[g] =
     IF @ # (IF s THEN "active" ELSE "suspended") THEN @
     ELSE IF s THEN "suspended" ELSE "active"]

lastMember(d, a) ==
  \A b \in Accounts : groupOf[b] = groupOf[a] /\ b # a => d.acct[b] = "gone"

execDeleteAccount(d, a) ==
  IF d.acct[a] = "gone" THEN d
  ELSE [d EXCEPT
          !.keys = [k \in HKeys |-> IF @[k] = a THEN None ELSE @[k]],
          !.binds = [i \in DOMAIN @ |-> IF @[i].account = a THEN [@[i] EXCEPT !.state = "gone"] ELSE @[i]],
          !.acct[a] = "gone",
          !.gstate = [g \in Groups |-> IF g = groupOf[a] /\ lastMember(d, a) THEN "closed" ELSE @[g]]]

unbindKey(d, k) == [d EXCEPT !.keys[k] = None]

-----------------------------------------------------------------------------
(* The changes an operator, an account page or a device makes *)

Change(op, key, account, group) ==
  [op |-> op, key |-> key, account |-> account, group |-> group]
NoChange == Change("none", None, None, None)

\* every change the public operations of Server and Admin make
Changes ==
  {Change("unbind", k, None, None) : k \in HKeys}
    \cup {Change(op, None, a, None) : op \in {"suspend", "unsuspend", "account_delete"}, a \in Accounts}
    \cup {Change(op, None, None, g) : op \in {"suspend", "unsuspend"}, g \in Groups}

\* whether the row the change is about exists (else ErrNoAccount)
exists(d, x) ==
  CASE x.op = "unbind" -> d.keys[x.key] # None
    [] x.group # None -> TRUE
    [] OTHER -> d.acct[x.account] # "gone"

apply(d, x) ==
  CASE x.op = "unbind" -> unbindKey(d, x.key)
    [] x.op = "account_delete" -> execDeleteAccount(d, x.account)
    [] x.group # None -> execGroupState(d, x.group, x.op = "suspend")
    [] OTHER -> execAccountState(d, x.account, x.op = "suspend")

\* the entry journalled for x: an unbind names the account the key was bound to
entry(d, x) == IF x.op = "unbind" THEN [x EXCEPT !.account = d.keys[x.key]] ELSE x

\* the journal handlers: an unbind is undone only for that account's key
replayed(d, e) ==
  IF e.op = "unbind"
  THEN IF d.keys[e.key] = e.account THEN unbindKey(d, e.key) ELSE d
  ELSE apply(d, e)

\* the keys a change takes from their account
taken(d, x) == {k \in HKeys : d.keys[k] # None /\ apply(d, x).keys[k] = None}

-----------------------------------------------------------------------------
(* Admission *)

\* newConn, with the account fields register sets
NewConn == [phase |-> "none", key |-> None, acctSeen |-> None, acctClosing |-> FALSE,
            drains |-> 0, bound |-> FALSE, served |-> FALSE]

Phase(c) == con[c].phase

goes(c, phase) == con' = [con EXCEPT ![c].phase = phase]

\* limits.admitUpgrade (its rate limits only refuse more)
admitUpgrade(c, k) ==
  LET p == hostPrefix[k] IN
  /\ Phase(c) = "none" /\ up # "down" /\ k \in hosting.conns[c]
  /\ prefixConns[p] < hosting.caps.prefix /\ unauth < hosting.caps.unauth
  /\ con' = [con EXCEPT ![c].phase = "auth", ![c].key = k]
  /\ prefixConns' = [prefixConns EXCEPT ![p] = @ + 1]
  /\ unauth' = unauth + 1
  /\ UNCHANGED <<hosting, accountVars, safeVars, reg, unbound, authed, prefixKeys, up, left>>

\* limits.authDone: a failed upgrade or authentication, a refused reconnect and
\* an accepted key all end the unauthenticated phase
authDone(c, ok) ==
  /\ unauth' = unauth - 1
  /\ goes(c, IF ok THEN "authed" ELSE "out")

authenticate(c) ==
  /\ Phase(c) = "auth"
  /\ \E ok \in BOOLEAN : authDone(c, ok)
  /\ UNCHANGED <<hosting, accountVars, safeVars, reg, unbound, prefixConns, authed, prefixKeys, up, left>>

\* the mutant releases only connections whose authentication went well
BugReleaseLate(c) ==
  /\ Phase(c) = "out"
  /\ con' = [con EXCEPT ![c] = [NewConn EXCEPT !.phase = "gone"]]
  /\ prefixConns' = [prefixConns EXCEPT ![hostPrefix[con[c].key]] =
                       IF con[c].served THEN @ - 1 ELSE @]
  /\ UNCHANGED <<hosting, accountVars, safeVars, reg, unbound, unauth, authed, prefixKeys, up, left>>

\* limits.release, the first deferred call of ServeHTTP
releaseConn(c) ==
  /\ Phase(c) = "out"
  /\ con' = [con EXCEPT ![c] = [NewConn EXCEPT !.phase = "gone"]]
  /\ prefixConns' = [prefixConns EXCEPT ![hostPrefix[con[c].key]] = @ - 1]
  /\ UNCHANGED <<hosting, accountVars, safeVars, reg, unbound, unauth, authed, prefixKeys, up, left>>

keysOf(p) == {k \in HKeys : prefixKeys[p][k] > 0}

\* Server.admit: a key that is connected replaces its connection, so it is
\* neither a new connection nor a new key
admitted(c) ==
  LET k == con[c].key p == hostPrefix[k] IN
  /\ reg[k] # None \/ authed < hosting.caps.conns
  /\ prefixKeys[p][k] > 0 \/ Cardinality(keysOf(p)) < hosting.caps.keys

admit(c) ==
  LET k == con[c].key IN
  /\ Phase(c) = "authed"
  /\ IF admitted(c)
     THEN /\ goes(c, "admitted")
          /\ authed' = authed + 1
          /\ prefixKeys' = [prefixKeys EXCEPT ![hostPrefix[k]][k] = @ + 1]
     ELSE goes(c, "out") /\ UNCHANGED <<authed, prefixKeys>>
  /\ UNCHANGED <<hosting, accountVars, safeVars, reg, unbound, unauth, prefixConns, up, left>>

\* Server.dismiss
dismiss(c) ==
  LET k == con[c].key IN
  /\ Phase(c) = "dismiss"
  /\ goes(c, "out")
  /\ authed' = authed - 1
  /\ prefixKeys' = [prefixKeys EXCEPT ![hostPrefix[k]][k] = @ - 1]
  /\ UNCHANGED <<hosting, accountVars, safeVars, reg, unbound, unauth, prefixConns, up, left>>

\* Server.beginServe: no read loop starts once Close has begun
beginServe(c) ==
  /\ Phase(c) = "admitted"
  /\ goes(c, IF up = "closing" THEN "dismiss" ELSE "begun")
  /\ UNCHANGED <<hosting, accountVars, safeVars, reg, unbound, unauth, prefixConns, authed, prefixKeys, up, left>>

-----------------------------------------------------------------------------
(* Registration *)

\* Server.listUnbound: the oldest unbound connection makes room for c, and its
\* read loop ends (unregister)
listed(p, c) ==
  LET list == Append(unbound[p], c) IN
  IF Len(list) > hosting.caps.unbound THEN Tail(list) ELSE list

\* Server.unlistUnbound
unlisted(cs) ==
  [p \in HPrefixes |-> SelectSeq(unbound[p], LAMBDA c : c \notin cs)]

\* the mutant looks the binding up before it takes the registry's lock: the
\* connection keeps what the cache held when it was admitted
BugStaleBinding(c) ==
  LET k == con[c].key p == hostPrefix[k] IN
  /\ Phase(c) = "begun"
  /\ reg' = [reg EXCEPT ![k] = c]
  /\ \E b \in {cache[k], Unbound} :
       /\ con' = [con EXCEPT ![c].phase = "ready", ![c].acctSeen = b.account, ![c].served = TRUE,
                             ![c].bound = (b.account # None)]
       /\ unbound' = IF b.account = None THEN [unbound EXCEPT ![p] = listed(p, c)] ELSE unbound
  /\ UNCHANGED <<hosting, accountVars, safeVars, unauth, prefixConns, authed, prefixKeys, up, left>>

\* Server.register: the check and the registration are one step
register(c) ==
  LET k == con[c].key p == hostPrefix[k] IN
  /\ Phase(c) = "begun"
  /\ IF cache[k].suspended
     THEN goes(c, "dismiss") /\ UNCHANGED <<reg, unbound>>
     ELSE /\ reg' = [reg EXCEPT ![k] = c]
          /\ con' = [con EXCEPT ![c].phase = "ready", ![c].acctSeen = cache[k].account, ![c].served = TRUE,
                               ![c].bound = (cache[k].account # None)]
          /\ unbound' = IF cache[k].account = None THEN [unbound EXCEPT ![p] = listed(p, c)] ELSE unbound
  /\ UNCHANGED <<hosting, accountVars, safeVars, unauth, prefixConns, authed, prefixKeys, up, left>>

\* Server.serve after register: the queue of a key that was bound then is
\* drained; what register saw is not looked up again
serve(c) ==
  /\ Phase(c) = "ready"
  /\ con' = [con EXCEPT ![c].phase = "serving",
                        ![c].drains = IF con[c].bound THEN @ + 1 ELSE @]
  /\ UNCHANGED <<hosting, accountVars, safeVars, reg, unbound, unauth, prefixConns, authed, prefixKeys, up, left>>

\* Server.unregister: the read loop ended, for whatever reason
unregister(c) ==
  LET k == con[c].key IN
  /\ Phase(c) = "serving"
  /\ goes(c, "dismiss")
  /\ unbound' = unlisted({c})
  /\ reg' = IF reg[k] = c THEN [reg EXCEPT ![k] = None] ELSE reg
  /\ UNCHANGED <<hosting, accountVars, safeVars, unauth, prefixConns, authed, prefixKeys, up, left>>

-----------------------------------------------------------------------------
(* Changes, and bringing the relay in line with them *)

Idle(t) == ops[t].pc = "idle"

steps(t, pc) == ops' = [ops EXCEPT ![t].pc = pc]

\* the commit of a change; another process's commit moves data_version
commit(t, x) ==
  /\ x \in Changes
  /\ db' = apply(db, x)
  /\ fresh' = (fresh /\ t # "admin")
  /\ ops' = [ops EXCEPT ![t] =
       IF exists(db, x)
       THEN [pc |-> "record", change |-> entry(db, x), took |-> taken(db, x)]
       ELSE [pc |-> IF t = "admin" THEN "idle" ELSE "changed", change |-> NoChange, took |-> {}]]

\* Server.accountOp and the methods of Admin: one change
accountOp(t, x) ==
  /\ t \in {"page", "admin"} /\ Idle(t) /\ left.changes > 0 /\ x \in hosting.ops
  /\ t = "page" => up = "up"
  /\ commit(t, x)
  /\ left' = [left EXCEPT !.changes = @ - 1]
  /\ UNCHANGED <<hosting, cache, missed, reconcileMu, told, hconnVars, safeVars, up>>

\* accountStore.record: the security journal, after the commit; an error is
\* returned to the caller and the change is not reported done
record(t) ==
  LET next == IF t = "admin" THEN "idle" ELSE "changed" IN
  /\ ops[t].pc = "record"
  /\ \E ok \in {TRUE} \cup {~hosting.faults} :
       /\ journal' = IF ok THEN Append(journal, ops[t].change) ELSE journal
       /\ revoked' = IF ok THEN revoked \cup {k \in ops[t].took : db.keys[k] = None} ELSE revoked
  /\ steps(t, next)
  /\ UNCHANGED <<hosting, db, cache, fresh, missed, reconcileMu, told, hconnVars, snap, up, left>>

\* Server.watchAccounts: the version is noted before the reload
watchAccounts ==
  /\ Idle("watch") /\ ~fresh /\ up = "up"
  /\ fresh' = TRUE
  /\ steps("watch", "changed")
  /\ UNCHANGED <<hosting, db, cache, missed, reconcileMu, told, hconnVars, safeVars, up, left>>

\* Server.accountsChanged takes reconcileMu and reloads the bindings
reload(t) ==
  /\ ops[t].pc = "changed" /\ reconcileMu = None
  /\ reconcileMu' = t
  /\ cache' = loadBindings(db)
  /\ missed' = FALSE
  /\ steps(t, "reloaded")
  /\ UNCHANGED <<hosting, db, fresh, told, hconnVars, safeVars, up, left>>

\* ... or logs that the database could not be read
reloadFails(t) ==
  /\ ops[t].pc = "changed" /\ reconcileMu = None /\ hosting.faults
  /\ missed' = TRUE
  /\ steps(t, "idle")
  /\ UNCHANGED <<hosting, db, cache, fresh, reconcileMu, told, hconnVars, safeVars, up, left>>

live == {c \in HConns : \E k \in HKeys : reg[k] = c /\ ~con[c].acctClosing}

\* the connections account_suspended or account_revoked closes
closes ==
  {c \in live : LET b == cache[con[c].key] IN
     b.suspended \/ (con[c].acctSeen # None /\ b.account # con[c].acctSeen)}

\* the connections that become bound without reconnecting
becomeBound ==
  {c \in live \ closes : con[c].acctSeen = None /\ cache[con[c].key].account # None}

\* accountsChanged's pass over the registry, under Server.mu
reconcile(t) ==
  /\ ops[t].pc = "reloaded"
  /\ con' = [c \in HConns |->
       IF c \in closes THEN [con[c] EXCEPT !.acctClosing = TRUE]
       ELSE IF c \in becomeBound
       THEN [con[c] EXCEPT !.acctSeen = cache[con[c].key].account, !.drains = @ + 1]
       ELSE con[c]]
  /\ unbound' = unlisted(becomeBound)
  /\ reconcileMu' = None
  /\ steps(t, "idle")
  /\ UNCHANGED <<hosting, db, cache, fresh, missed, told, reg, unauth, prefixConns, authed, prefixKeys, safeVars, up, left>>

-----------------------------------------------------------------------------
(* Binding a key *)

\* Server.accountAllows
accountAllows(c, op) ==
  LET b == cache[con[c].key] IN
  \/ op \in {"bind_start", "bind_poll", "bind_cancel"}
  \/ b.account # None /\ ~b.suspended /\ (b.group # None \/ op \in {"ack", "pair_redeem", "unbind"})

Serving(c) == Phase(c) = "serving"
frameVars == <<hosting, cache, missed, reconcileMu, hconnVars, safeVars, up>>

\* accountStore.createBind: at most one pending bind per key
createBind(d, k) ==
  [d EXCEPT !.binds =
     Append([i \in DOMAIN @ |-> IF @[i].key = k /\ @[i].state = "pending"
                                THEN [@[i] EXCEPT !.state = "cancelled"] ELSE @[i]],
            [key |-> k, state |-> "pending", late |-> FALSE, account |-> None])]

bindStart(c) ==
  LET k == con[c].key IN
  /\ Serving(c) /\ accountAllows(c, "bind_start") /\ cache[k].account = None
  /\ Len(db.binds) < hosting.binds
  /\ db' = createBind(db, k)
  /\ told' = Append(told, "pending")
  /\ UNCHANGED <<frameVars, fresh, ops, left>>

\* accountStore.bindStatus and the answer of Server.bindPoll
bindStatus(b) == IF b.state = "pending" /\ b.late THEN "expired" ELSE b.state

answer(b) ==
  CASE bindStatus(b) \in {"pending", "denied"} -> bindStatus(b)
    [] bindStatus(b) = "confirmed" /\ cache[b.key].account # None -> "done"
    [] OTHER -> "expired"

bindPoll(c, i) ==
  LET b == db.binds[i] IN
  /\ Serving(c) /\ accountAllows(c, "bind_poll") /\ b.key = con[c].key
  /\ told' = [told EXCEPT ![i] = answer(b)]
  /\ db' = [db EXCEPT !.binds[i].state = bindStatus(b)]
  /\ UNCHANGED <<frameVars, fresh, ops, left>>

cancelBind(c, i) ==
  /\ Serving(c) /\ db.binds[i].key = con[c].key /\ db.binds[i].state = "pending"
  /\ db' = [db EXCEPT !.binds[i].state = "cancelled"]
  /\ UNCHANGED <<frameVars, fresh, ops, told, left>>

\* Server.unbindSelf: the read loop makes the change and reconciles
unbindSelf(c) ==
  /\ Serving(c) /\ accountAllows(c, "unbind") /\ Idle("loop") /\ left.changes > 0
  /\ commit("loop", Change("unbind", con[c].key, None, None))
  /\ left' = [left EXCEPT !.changes = @ - 1]
  /\ UNCHANGED <<frameVars, told>>

handleAccountOp(c) ==
  \/ bindStart(c) \/ unbindSelf(c)
  \/ \E i \in DOMAIN db.binds : bindPoll(c, i) \/ cancelBind(c, i)

\* accountStore.confirmBind: pending and not expired, an account that stands
\* and has room, a key that is not bound
confirmable(b, a) ==
  /\ b.state = "pending" /\ ~b.late
  /\ db.acct[a] # "gone" /\ ~isSuspended(db, a) /\ db.keys[b.key] = None
  /\ Cardinality({k \in HKeys : db.keys[k] = a}) < hosting.caps.bound

\* Server.ConfirmBind: commits, then accountsChanged
ConfirmBind(i, a) ==
  LET k == db.binds[i].key IN
  /\ Idle("page") /\ up = "up" /\ confirmable(db.binds[i], a)
  /\ db' = [db EXCEPT !.keys[k] = a, !.binds[i].state = "confirmed", !.binds[i].account = a]
  /\ revoked' = revoked \ {k}
  /\ steps("page", "changed")
  /\ UNCHANGED <<hosting, cache, fresh, missed, reconcileMu, told, hconnVars, journal, snap, up, left>>

denyBind(i) ==
  /\ db.binds[i].state = "pending"
  /\ db' = [db EXCEPT !.binds[i].state = "denied"]
  /\ UNCHANGED <<frameVars, fresh, ops, told, left>>

\* bindTTL passes
bindExpires(i) ==
  /\ ~db.binds[i].late
  /\ db' = [db EXCEPT !.binds[i].late = TRUE]
  /\ UNCHANGED <<frameVars, fresh, ops, told, left>>

\* accountStore.prune: bindKeep after its expiry the row is deleted
prune(i) ==
  /\ db.binds[i].late /\ db.binds[i].state # "gone"
  /\ db' = [db EXCEPT !.binds[i].state = "gone"]
  /\ UNCHANGED <<frameVars, fresh, ops, told, left>>

-----------------------------------------------------------------------------
(* Stopping, backing up and restoring *)

\* Server.Close: the watcher is stopped first; then no read loop begins, and
\* the registered connections are closed
closeRelay ==
  /\ up = "up" /\ left.backups > 0 /\ Idle("watch")
  /\ up' = "closing"
  /\ UNCHANGED <<hosting, accountVars, hconnVars, safeVars, left>>

stopped ==
  /\ up = "closing"
  /\ \A c \in HConns : Phase(c) \in {"none", "gone"}
  /\ \A t \in Servers : Idle(t)
  /\ up' = "down"
  /\ UNCHANGED <<hosting, accountVars, hconnVars, safeVars, left>>

\* Backup: VACUUM INTO copies one consistent snapshot ...
vacuumInto ==
  /\ snap.state = "none" /\ left.backups > 0
  /\ snap' = [state |-> "writing", db |-> db, mtime |-> 0]
  /\ UNCHANGED <<hosting, accountVars, hconnVars, journal, revoked, up, left>>

\* ... while the relay goes on writing; the file's time is that of its last write
backupDone ==
  /\ snap.state = "writing"
  /\ snap' = [snap EXCEPT !.state = "file", !.mtime = Len(journal)]
  /\ UNCHANGED <<hosting, accountVars, hconnVars, journal, revoked, up, left>>

\* Restore: the backup is copied, checked and moved into place, as it is
Restore == snap.db

\* ReplayJournal: the entries that are not older than since
replayJournal(d, since) ==
  FoldLeft(replayed, d, SubSeq(journal, since + 1, Len(journal)))

\* relay restore --replay-journal: since is the backup file's modification time
runRestore ==
  /\ up = "down" /\ snap.state = "file" /\ Idle("admin") /\ left.backups > 0
  /\ db' = replayJournal(Restore, snap.mtime)
  /\ told' = SubSeq(told, 1, Len(Restore.binds))
  /\ left' = [left EXCEPT !.backups = @ - 1]
  /\ UNCHANGED <<hosting, cache, fresh, missed, ops, reconcileMu, hconnVars, safeVars, up>>

\* newAccounts: the watcher's baseline, then the first load
newAccounts ==
  /\ up = "down"
  /\ up' = "up" /\ fresh' = TRUE /\ missed' = FALSE
  /\ cache' = loadBindings(db)
  /\ UNCHANGED <<hosting, db, ops, reconcileMu, told, hconnVars, safeVars, left>>

-----------------------------------------------------------------------------
HostInit ==
  /\ hosting \in Hostings
  /\ db = [keys |-> hosting.bound, acct |-> [a \in Accounts |-> "active"],
           gstate |-> [g \in Groups |-> "active"], binds |-> <<>>]
  /\ cache = loadBindings(db) /\ fresh = TRUE /\ missed = FALSE
  /\ ops = [t \in Threads |-> [pc |-> "idle", change |-> NoChange, took |-> {}]]
  /\ reconcileMu = None /\ up = "up"
  /\ con = [c \in HConns |-> NewConn]
  /\ reg = [k \in HKeys |-> None] /\ unbound = [p \in HPrefixes |-> <<>>]
  /\ unauth = 0 /\ prefixConns = [p \in HPrefixes |-> 0]
  /\ authed = 0 /\ prefixKeys = [p \in HPrefixes |-> [k \in HKeys |-> 0]]
  /\ told = <<>> /\ journal = <<>> /\ revoked = {}
  /\ snap = [state |-> "none", db |-> db, mtime |-> 0]
  /\ left = [changes |-> hosting.changes, backups |-> hosting.backups]

ConnStep(c) ==
  \/ \E k \in HKeys : admitUpgrade(c, k)
  \/ authenticate(c) \/ admit(c) \/ beginServe(c) \/ register(c) \/ serve(c)
  \/ unregister(c) \/ dismiss(c) \/ releaseConn(c)
  \/ handleAccountOp(c)

ThreadStep(t) ==
  \/ \E x \in Changes : accountOp(t, x)
  \/ record(t) \/ reload(t) \/ reloadFails(t) \/ reconcile(t)

HostNext ==
  \/ \E c \in HConns : ConnStep(c)
  \/ \E t \in Threads : ThreadStep(t)
  \/ \E i \in DOMAIN db.binds : \/ \E a \in Accounts : ConfirmBind(i, a)
                                \/ denyBind(i) \/ bindExpires(i) \/ prune(i)
  \/ watchAccounts \/ closeRelay \/ stopped \/ vacuumInto \/ backupDone \/ runRestore \/ newAccounts

-----------------------------------------------------------------------------
(* Properties *)

Between(phases) == {c \in HConns : Phase(c) \in phases}

\* The admission counters are exact at every moment, whatever path a connection
\* took out: connections still authenticating, open connections of a prefix,
\* admitted connections, and admitted connections of a key (limits.admitUpgrade,
\* authDone, release; Server.admit, dismiss).  A counter that is left high
\* refuses honest clients for good.
AdmissionCounts ==
  LET inside == {"admitted", "begun", "ready", "serving", "dismiss"} IN
  /\ unauth = Cardinality(Between({"auth"}))
  /\ authed = Cardinality(Between(inside))
  /\ \A p \in HPrefixes :
       /\ prefixConns[p] = Cardinality({c \in Between(inside \cup {"auth", "authed", "out"}) :
                                          hostPrefix[con[c].key] = p})
       /\ \A k \in HKeys : hostPrefix[k] = p =>
            prefixKeys[p][k] = Cardinality({c \in Between(inside) : con[c].key = k})

\* nobody is between a change and the end of its reconcile pass
AtRest == fresh /\ ~missed /\ up = "up" /\ \A t \in Servers : Idle(t)

\* Once every change has been reconciled, whichever goroutines and processes made
\* them and whatever connections came and went meanwhile, the cache is the
\* database's, and each registered connection that is not being closed carries its
\* key's account, has its queue drained exactly once if the key is bound and not
\* at all if it is not, and is within the unbound list's cap (Server.register,
\* accountsChanged, listUnbound).
AccountsAgree ==
  AtRest =>
    /\ cache = loadBindings(db)
    /\ \A c \in live :
         LET b == cache[con[c].key] IN
         /\ con[c].acctSeen = b.account /\ ~b.suspended
         /\ Serving(c) => con[c].drains = IF b.account = None THEN 0 ELSE 1
    /\ \A p \in HPrefixes :
         /\ Len(unbound[p]) <= hosting.caps.unbound
         /\ \A j \in DOMAIN unbound[p] : con[unbound[p][j]].acctSeen = None
                                         /\ Phase(unbound[p][j]) \in {"ready", "serving"}

\* The relay's view of its clients is right: the two above.
HostingAgrees == AdmissionCounts /\ AccountsAgree

\* A key whose unbinding was reported done, and that was not bound again, is not
\* bound in the database a restore with the journal leaves (runRestore,
\* ReplayJournal, Backup).
RevocationsSurviveRestore == \A k \in revoked : db.keys[k] = None
=============================================================================
