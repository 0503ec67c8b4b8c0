-------------------------------- MODULE Team --------------------------------
(***************************************************************************)
(* One team: its owner, who alone changes the roster, and the members that *)
(* follow it by mail (internal/team, internal/daemon/team.go).  Mail may   *)
(* arrive in any order and may expire; the owner may restart between a     *)
(* change and its broadcast; a member's heartbeat tells the owner which    *)
(* epoch it holds, and the owner resends the roster to one that is behind  *)
(* (internal/presence, MaybeResync).                                       *)
(*                                                                         *)
(* The clock counts the operations of users.  A message carries the time   *)
(* it was made.                                                            *)
(***************************************************************************)
EXTENDS Integers, FiniteSets, Sequences, TLC

CONSTANTS
    Owner,
    Members,    \* the daemons that may be invited
    MaxSkew,    \* how far two clocks may differ
    MaxMembers, \* largest roster
    Lives       \* the instances: who is in the team, which operations, how many, which faults

VARIABLES
    life,     \* the instance of this behaviour
    own,      \* the owner's row of the team and its members, with when they were added
    invites,  \* team_invites: <<lookup, peer>>, unused and not expired
    half,     \* pairings complete at the owner but not yet at the invitee
    mem,      \* each member's row of the team, with its roster
    joins,    \* team_pending_joins of each member
    rows,     \* the peers table of every daemon: key to trust and introducer
    mailed,   \* team mail under way
    owed,     \* broadcasts the owner has still to make, by the removed keys they go to as well
    tnow,     \* the clock
    faults,   \* restarts and losses so far
    gates,    \* inviteGates: the approvals that may still release a code
    calls,    \* the approval each waiting team_invite call has found approved
    released  \* codes released for each approval

teamVars == <<life, own, invites, half, mem, joins, rows, mailed, owed, tnow, faults, gates, calls, released>>

Callers == {1, 2}

-----------------------------------------------------------------------------
(* Rosters and peers rows                                                  *)

Put(f, k, v) == (k :> v) @@ f
Minus(f, k) == [x \in DOMAIN f \ {k} |-> f[x]]

\* rosterSnapshot and rosterBody: a member without a peers row is left out.
listed == {k \in DOMAIN own.members : k = Owner \/ k \in DOMAIN rows[Owner]}
rosterBody(full) ==
    [epoch |-> own.epoch, state |-> own.state, members |-> IF full THEN listed ELSE {Owner}]

Roster(to, full) == [kind |-> "team.roster", to |-> to, team |-> rosterBody(full)]
Join(from, lookup) == [kind |-> "team.join", from |-> from, lookup |-> lookup]
LeaveMail(from, created) == [kind |-> "team.leave", from |-> from, created |-> created]

Code == [trust |-> "code", direct |-> TRUE]
Introduced == [trust |-> "team", direct |-> FALSE]

\* Introduce: a directly paired peer keeps its row; a new one is introduced.
introduce(table, keys) ==
    [k \in DOMAIN table \union keys |->
        IF k \in DOMAIN table THEN table[k] ELSE Introduced]

\* GCIntroduced: an introduced peer in no active team goes.
gcIntroduced(table, row) ==
    [k \in {x \in DOMAIN table : table[x].direct \/ (row.state = "active" /\ x \in row.members)} |-> table[k]]

Paired(a, b) == b \in DOMAIN rows[a]

-----------------------------------------------------------------------------
(* Operations of the owner                                                 *)

\* A user's operation, of the kinds and up to the number of this instance.
Tick(op) == op \in life.kinds /\ tnow < life.ops /\ tnow' = tnow + 1
bumpEpochTx(t) == [t EXCEPT !.epoch = @ + 1]
requireActive == own.state = "active"

\* The row after Rename, Delete and leave.
renamed(t) == bumpEpochTx(t)
deleted(t) == [bumpEpochTx(t) EXCEPT !.state = "dissolved"]
left(row) == [row EXCEPT !.state = "left"]

\* removeMemberOwnedTx
dropMember(t, key) == bumpEpochTx([t EXCEPT !.members = Minus(@, key)])
\* addMemberOwnedTx
addMember(t, key, at) == bumpEpochTx([t EXCEPT !.members = Put(@, key, at)])

\* team_invite, first call: an approval is asked for and its gate recorded.
AskInvite ==
    /\ Tick("invite") /\ requireActive
    /\ Cardinality(DOMAIN own.members) < MaxMembers
    /\ gates' = gates \union {tnow}
    /\ UNCHANGED <<life, own, invites, half, mem, joins, rows, mailed, owed, faults, calls, released>>

\* team_invite, a later call: has, then the approval is found approved, or settled
\* otherwise, and the gate is dropped.
HasGate(c) ==
    /\ calls[c] = {} /\ c <= life.callers /\ requireActive
    /\ \E id \in gates : \/ calls' = [calls EXCEPT ![c] = {id}] /\ UNCHANGED gates
                         \/ gates' = gates \ {id} /\ UNCHANGED calls
    /\ UNCHANGED <<life, own, invites, half, mem, joins, rows, mailed, owed, tnow, faults, released>>

\* inviteGates.take: a compare-and-delete.
takes(id) == id \in gates

\* team_invite, end of that call: the gate is spent and a pairing started, which a
\* member of the set completes at the owner (InviteTag.Completed, RecordInvite) or
\* nobody does.
TakeGate(c) ==
    /\ calls[c] # {}
    /\ calls' = [calls EXCEPT ![c] = {}]
    /\ LET id == CHOOSE x \in calls[c] : TRUE IN
       IF takes(id)
       THEN /\ gates' = gates \ {id}
            /\ released' = Put(released, id, IF id \in DOMAIN released THEN released[id] + 1 ELSE 1)
            /\ \/ UNCHANGED <<rows, invites, half>>
               \/ \E m \in Members :
                    /\ rows' = [rows EXCEPT ![Owner] = Put(@, m, Code)]
                    /\ invites' = invites \union {<<id, m>>}
                    /\ half' = half \union {<<id, m>>}
       ELSE UNCHANGED <<gates, released, rows, invites, half>>
    /\ UNCHANGED <<life, own, mem, joins, mailed, owed, tnow, faults>>

\* RemoveMember, and the broadcast owed to the removed member too.
RemoveMember(m) ==
    /\ Tick("remove") /\ requireActive /\ m \in DOMAIN own.members /\ Paired(Owner, m)
    /\ own' = dropMember(own, m)
    /\ owed' = owed \union {{m}}
    /\ UNCHANGED <<life, invites, half, mem, joins, rows, mailed, faults, gates, calls, released>>

Rename ==
    /\ Tick("rename") /\ requireActive
    /\ own' = renamed(own)
    /\ owed' = owed \union {{}}
    /\ UNCHANGED <<life, invites, half, mem, joins, rows, mailed, faults, gates, calls, released>>

Delete ==
    /\ Tick("delete") /\ requireActive
    /\ own' = deleted(own)
    /\ owed' = owed \union {{}}
    /\ UNCHANGED <<life, invites, half, mem, joins, rows, mailed, faults, gates, calls, released>>

\* Broadcast: the full roster to every listed member, the owner-only one to the
\* removed keys that are still paired.
Broadcasts(removed) ==
    {Roster(m, TRUE) : m \in listed \ {Owner}} \union {Roster(m, FALSE) : m \in removed \cap DOMAIN rows[Owner]}

Broadcast ==
    \E removed \in owed :
        /\ mailed' = mailed \union Broadcasts(removed)
        /\ owed' = owed \ {removed}
        /\ UNCHANGED <<life, own, invites, half, mem, joins, rows, tnow, faults, gates, calls, released>>

\* peers_remove of a member: the cascade removes it from the team and broadcasts,
\* then its row goes, and mail to it that has not been delivered fails.
cascadeTeamRemoval(m) ==
    /\ Tick("forget_member") /\ Paired(Owner, m)
    /\ own' = IF requireActive /\ m \in DOMAIN own.members THEN dropMember(own, m) ELSE own
    /\ rows' = [rows EXCEPT ![Owner] = Minus(@, m)]
    /\ \E kept \in {{}, {m}} :
         mailed' = {x \in mailed : x.kind = "team.roster" /\ x.to = m => m \in kept}
    /\ owed' = IF own' = own THEN owed ELSE owed \union {{}}
    /\ UNCHANGED <<life, invites, half, mem, joins, faults, gates, calls, released>>

-----------------------------------------------------------------------------
(* Operations of a member                                                  *)

\* JoinTag.Completed: the pending join is recorded and team.join submitted.
JoinCompleted ==
    \E x \in half :
        LET m == x[2] IN
        /\ half' = half \ {x}
        /\ rows' = [rows EXCEPT ![m] = Put(@, Owner, Code)]
        /\ joins' = [joins EXCEPT ![m] = @ \union {x[1]}]
        /\ mailed' = mailed \union {Join(m, x[1])}
        /\ UNCHANGED <<life, own, invites, mem, owed, tnow, faults, gates, calls, released>>

\* leave: the state, the mail and the collection in one transaction.
LeaveNotify(m) ==
    LET row == left(mem[m]) IN
    /\ Tick("leave") /\ mem[m].state = "active"
    /\ mem' = [mem EXCEPT ![m] = row]
    /\ mailed' = IF Paired(m, Owner) THEN mailed \union {LeaveMail(m, tnow)} ELSE mailed
    /\ rows' = [rows EXCEPT ![m] = gcIntroduced(@, row)]
    /\ UNCHANGED <<life, own, invites, half, joins, owed, faults, gates, calls, released>>

\* peers_remove of the owner: OwnerRemoved, then the row goes.
OwnerRemoved(m) ==
    LET row == IF mem[m].state = "active" THEN left(mem[m]) ELSE mem[m] IN
    /\ Tick("forget_owner") /\ Paired(m, Owner)
    /\ mem' = [mem EXCEPT ![m] = row]
    /\ rows' = [rows EXCEPT ![m] = Minus(gcIntroduced(@, row), Owner)]
    /\ \E kept \in {{}, {m}} :
         mailed' = {x \in mailed : x.kind # "team.roster" /\ x.from = m => m \in kept}
    /\ UNCHANGED <<life, own, invites, half, joins, owed, faults, gates, calls, released>>

-----------------------------------------------------------------------------
(* Mail kinds                                                              *)

Acked(x) == mailed' = mailed \ {x}

\* consumePendingJoin: the oldest pending join of that owner.
oldestJoin(m) == CHOOSE l \in joins[m] : \A k \in joins[m] : l <= k

\* applyRoster: whether the roster is applied, and whether it uses up a pending join.
joinable(m, t) == m \in t.members /\ t.state = "active" /\ joins[m] # {}
admits(m, t) ==
    /\ rows[m][Owner].trust \in {"code", "fingerprint"}
    /\ IF mem[m].state = "none" THEN joinable(m, t)
       ELSE /\ t.epoch > mem[m].epoch
            /\ mem[m].state # "active" => joinable(m, t)
consumes(m) == mem[m].state # "active"

localState(m, t) ==
    CASE t.state = "dissolved" -> "dissolved"
      [] t.state # "dissolved" /\ m \in t.members -> "active"
      [] OTHER -> "removed"

\* applyRoster: the row and its members first, then the introductions, then the
\* collection, in one transaction.  Mail of a sender that is not paired is refused.
applyRoster(x) ==
    LET m == x.to
        row == [epoch |-> x.team.epoch, state |-> localState(m, x.team), members |-> x.team.members]
    IN /\ x.kind = "team.roster" /\ Acked(x)
       /\ IF Paired(m, Owner) /\ admits(m, x.team)
          THEN /\ joins' = IF consumes(m) THEN [joins EXCEPT ![m] = @ \ {oldestJoin(m)}] ELSE joins
               /\ mem' = [mem EXCEPT ![m] = row]
               /\ rows' = [rows EXCEPT ![m] = gcIntroduced(introduce(@, x.team.members \ {m}), row)]
          ELSE UNCHANGED <<joins, mem, rows>>
       /\ UNCHANGED <<life, own, invites, half, owed, tnow, faults, gates, calls, released>>

\* applyJoin: a member still on the roster only bumps the epoch.
joined(t, key) == IF key \in DOMAIN t.members THEN bumpEpochTx(t) ELSE addMember(t, key, tnow)

applyJoin(x) ==
    LET ok == requireActive /\ (x.from \in DOMAIN own.members \/ Cardinality(DOMAIN own.members) < MaxMembers) IN
    /\ x.kind = "team.join" /\ Acked(x)
    /\ IF <<x.lookup, x.from>> \in invites /\ Paired(Owner, x.from)
       THEN /\ invites' = invites \ {<<x.lookup, x.from>>}
            /\ own' = IF ok THEN joined(own, x.from) ELSE own
            /\ owed' = IF ok THEN owed \union {{}} ELSE owed
       ELSE UNCHANGED <<invites, own, owed>>
    /\ UNCHANGED <<life, half, mem, joins, rows, tnow, faults, gates, calls, released>>

\* applyLeave: a leave older than the membership, by more than the skew, is stale.
staleLeave(x) == x.created + MaxSkew < own.members[x.from]

applyLeave(x) ==
    LET ok == requireActive /\ x.from \in DOMAIN own.members /\ Paired(Owner, x.from) IN
    /\ x.kind = "team.leave" /\ Acked(x)
    /\ IF ok /\ ~staleLeave(x)
       THEN /\ own' = dropMember(own, x.from)
            /\ owed' = owed \union {{}}
       ELSE UNCHANGED <<own, owed>>
    /\ UNCHANGED <<life, invites, half, mem, joins, rows, tnow, faults, gates, calls, released>>

-----------------------------------------------------------------------------
(* Heartbeats, expiry and faults                                           *)

\* A resync that serves members only.
BugResyncMembers(m) == mem[m].state = "active" /\ Paired(m, Owner) /\ m \in listed /\ mem[m].epoch < own.epoch

\* epochsFor and MaybeResync: a member's heartbeat shows an epoch behind the
\* owner's.  The cooldown only spaces the resends.
behind(m) == mem[m].state = "active" /\ Paired(m, Owner) /\ Paired(Owner, m) /\ mem[m].epoch < own.epoch

\* ResyncMember: the full roster to a member, the owner-only one to a former one.
resyncBody(m) == Roster(m, m \in listed)

MaybeResync(m) ==
    /\ behind(m) /\ resyncBody(m) \notin mailed
    /\ mailed' = mailed \union {resyncBody(m)}
    /\ UNCHANGED <<life, own, invites, half, mem, joins, rows, owed, tnow, faults, gates, calls, released>>

\* pruneInvites, prunePendingJoins: rows live for 24 hours.
ExpireInvites ==
    /\ life.expire
    /\ \/ \E i \in invites : invites' = invites \ {i} /\ UNCHANGED joins
       \/ \E m \in Members : \E l \in joins[m] : joins' = [joins EXCEPT ![m] = @ \ {l}] /\ UNCHANGED invites
    /\ UNCHANGED <<life, own, half, mem, rows, mailed, owed, tnow, faults, gates, calls, released>>

\* Mail expires undelivered, or the owner restarts before it broadcast.
Fault ==
    /\ faults < life.faults /\ faults' = faults + 1
    /\ \/ \E x \in mailed : mailed' = mailed \ {x} /\ UNCHANGED <<owed, gates, calls>>
       \/ owed # {} /\ owed' = {} /\ gates' = {} /\ calls' = [c \in Callers |-> {}] /\ UNCHANGED mailed
    /\ UNCHANGED <<life, own, invites, half, mem, joins, rows, tnow, released>>

\* The team with the members of this instance, after their rosters arrived.
TeamInit ==
    /\ life \in Lives
    /\ own = [epoch |-> 1 + Cardinality(life.in), state |-> "active", members |-> [k \in life.in \union {Owner} |-> 0]]
    /\ invites = {} /\ half = {} /\ mailed = {} /\ owed = {} /\ gates = {}
    /\ mem = [m \in Members |->
                IF m \in life.in THEN [epoch |-> own.epoch, state |-> "active", members |-> DOMAIN own.members]
                ELSE [epoch |-> 0, state |-> "none", members |-> {}]]
    /\ joins = [m \in Members |-> {}]
    /\ rows = [d \in Members \union {Owner} |->
                CASE d = Owner -> [k \in life.in |-> Code]
                  [] d \in life.in -> [k \in DOMAIN own.members \ {d} |-> IF k = Owner THEN Code ELSE Introduced]
                  [] OTHER -> <<>>]
    /\ tnow = 0 /\ faults = 0
    /\ calls = [c \in Callers |-> {}]
    /\ released = <<>>

TeamOp(m) == RemoveMember(m) \/ cascadeTeamRemoval(m) \/ LeaveNotify(m) \/ OwnerRemoved(m)
Deliver == \E x \in mailed : applyRoster(x) \/ applyJoin(x) \/ applyLeave(x)

TeamNext ==
    \/ AskInvite \/ JoinCompleted \/ Rename \/ Delete \/ Broadcast \/ Deliver \/ ExpireInvites \/ Fault
    \/ \E c \in Callers : HasGate(c) \/ TakeGate(c)
    \/ \E m \in Members : TeamOp(m) \/ MaybeResync(m)

\* Mail is delivered, an owed broadcast is made and members keep sending
\* heartbeats, whenever any of that is possible.
teamMoving == mailed # {} \/ owed # {} \/ \E m \in Members : behind(m) /\ resyncBody(m) \notin mailed
TeamFairness ==
    []<>~teamMoving \/ []<><<Deliver \/ Broadcast \/ \E m \in Members : MaybeResync(m)>>_teamVars

-----------------------------------------------------------------------------
(* Properties                                                              *)

\* Trust by introduction ends with the team: whatever order rosters, leaves and
\* removals come in, a peer that was only introduced is in the roster of a team
\* that is active here (Introduce, GCIntroduced and the states of applyRoster).
IntroducedShareTheTeam ==
    \A m \in Members : \A k \in DOMAIN rows[m] :
        rows[m][k].direct \/ (mem[m].state = "active" /\ k \in mem[m].members)

\* One approval of team_invite releases at most one code, also when two callers
\* both found it approved (inviteGates).
OneCodePerApproval == \A id \in DOMAIN released : released[id] <= 1

\* Nobody is trusted, and no code released, beyond what the team stands for.
TeamTrustIsBounded == IntroducedShareTheTeam /\ OneCodePerApproval

\* m's view is the owner's, if both are paired and m takes itself for a member.
Agrees(m) ==
    mem[m].state = "active" /\ Paired(m, Owner) /\ Paired(Owner, m) =>
        /\ m \in listed /\ own.state = "active"
        /\ mem[m].epoch = own.epoch /\ mem[m].members = listed

\* With mail delivered in any order, some of it lost, and broadcasts lost in a
\* restart, every daemon that takes itself for a member ends up with the owner's
\* roster: it is on it, at its epoch.  A member removed as a peer is not reached.
\* Meanwhile trust stays bounded as above.
TeamConverges == []TeamTrustIsBounded /\ <>[](\A m \in Members : Agrees(m))
=============================================================================
