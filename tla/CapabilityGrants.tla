-------------------------- MODULE CapabilityGrants --------------------------
(***************************************************************************)
(* Grants and standing policies of one daemon, the grantor, towards one    *)
(* peer, the holder (internal/capability/store.go, internal/daemon/        *)
(* grant.go, grant_kinds.go, quarantine.go).  grant_create reads session,  *)
(* peer, debates and policies outside any transaction and then either      *)
(* issues in one transaction under a policy, or stores a pending row and   *)
(* asks the approval store, whose promise is ApprovalContract.  Sessions   *)
(* close, the peer is removed and paired again, debates start, policies    *)
(* end and the clock moves between any two of these steps.  Mail is        *)
(* delivered in any order (RelayQueue, MailOutbox), each mail applied once *)
(* (MailReceiver).                                                         *)
(***************************************************************************)
EXTENDS ApprovalContract, Naturals, Sequences, FiniteSets

CONSTANTS
    GrantOf,      \* would-be grants: id -> [session, path, scope, sensitive, expires]
    PolicyOf,     \* would-be policies: id -> [path, scope, public, max]
    Sessions,
    MaxPolicies,  \* capability.MaxPolicies
    MaxHeldLive,  \* capability.MaxHeldLivePerSession
    GrantPlans    \* instances: [asks, moves], the grants asked for and the moves
                  \* left to the surroundings

VARIABLES
    grant,   \* grants table, issued rows: [state, by, age]
    call,    \* where each grant_create call is, and the policy it matched
    policy,  \* grant_policies table: "none", "live" or "ended"
    session, \* the grantor's row of each work session
    peer,    \* the peers row of the holder: "paired", "relay" (trust) or "gone"
    debate,  \* a debate with the peer is in an open phase
    disk,    \* grants whose resource no longer passes recheckResource
    after,   \* sessions whose OnClosed hook has still to run
    mail,    \* undelivered mail
    held,    \* the holder's rows
    mirror,  \* the holder's row of each work session
    moves    \* moves left to the surroundings

grantVars == <<grant, call, policy, session, peer, debate, disk, after, mail,
               held, mirror, moves>>

Grants == DOMAIN GrantOf
Policies == DOMAIN PolicyOf

ASSUME GrantConstants ==
    /\ Ids = Grants \cup Policies /\ Grants \cap Policies = {} /\ "none" \notin Ids
    /\ \A g \in Grants : /\ GrantOf[g].session \in Sessions /\ GrantOf[g].scope \in Seq(STRING)
                         /\ GrantOf[g].sensitive \in BOOLEAN
    /\ \A p \in Policies : PolicyOf[p].scope \in Seq(STRING) /\ PolicyOf[p].public \in BOOLEAN
    /\ MaxPolicies \in Nat
    /\ \A plan \in GrantPlans : plan.moves \in Nat

GrantInit ==
    /\ ContractInit
    /\ grant = [g \in Grants |-> [state |-> "none", by |-> "none", age |-> 0]]
    /\ \E plan \in GrantPlans :
          /\ call = [g \in Grants |-> [at |-> IF g \in plan.asks THEN "idle" ELSE "done", pol |-> "none"]]
          /\ moves = plan.moves
    /\ policy = [p \in Policies |-> "none"]
    /\ session = [s \in Sessions |-> "open"]
    /\ peer = "paired" /\ debate = FALSE /\ disk = {} /\ after = {} /\ mail = {}
    /\ held = [g \in Grants |-> "none"]
    /\ mirror = [s \in Sessions |-> "open"]

Spend == moves > 0 /\ moves' = moves - 1

-----------------------------------------------------------------------------
(* The rules that decide an issue                                          *)

Sensitive(g) == GrantOf[g].sensitive

BugActiveOnly(g) == grant[g].state = "active"

\* A row that gave access at some time: active, or revoked with the
\* approval or the policy it was issued under.
EverActive(g) ==
    \/ grant[g].state = "active"
    \/ grant[g].state = "revoked" /\ grant[g].by # "none"

\* age 0: before exp; 1: past exp by less than 7 days; 2: later.
PeerQuarantineHoldsTx == \E g \in Grants : Sensitive(g) /\ EverActive(g) /\ grant[g].age < 2

QuarantineHolds(s) ==
    \E g \in Grants : Sensitive(g) /\ EverActive(g) /\ (GrantOf[g].session = s \/ grant[g].age < 2)

CheckSensitiveGrant(g) == Sensitive(g) => ~debate

BugSessionOnly(g) == session[GrantOf[g].session] = "open"

recheckIssuanceTx(g) == session[GrantOf[g].session] = "open" /\ peer = "paired"

BugMatchedOnce(p) == TRUE

recheckPolicyTx(p) == policy[p] = "live"

recheckResource(g) == g \notin disk

\* Scopes are sequences of path segments, <<>> the whole resource.
scopeWithin(child, parent) ==
    /\ Len(child) >= Len(parent)
    /\ \A i \in 1..Len(parent) : child[i] = parent[i]

BugIgnoresPublic(p, g) ==
    /\ PolicyOf[p].path = GrantOf[g].path
    /\ scopeWithin(GrantOf[g].scope, PolicyOf[p].scope)
    /\ GrantOf[g].expires <= PolicyOf[p].max
    /\ policy[p] = "live"

policyCovers(p, g) ==
    LET P == PolicyOf[p]
        G == GrantOf[g]
    IN  /\ P.path = G.path
        /\ scopeWithin(G.scope, P.scope)
        /\ P.public = ~G.sensitive
        /\ G.expires <= P.max
        /\ policy[p] = "live"

\* Match prunes the ended policies and returns one that covers the grant.
pruneExpiredPolicies == [p \in Policies |-> IF policy[p] = "ended" THEN "none" ELSE policy[p]]
Match(g) == {p \in Policies : policyCovers(p, g)}

BugDeclines(row) == [row EXCEPT !.state = "rejected"]

\* What the statements of the store do to their tables.
PolicyCount == Cardinality({q \in Policies : policy[q] # "none"})
PolicyCountTx == Cardinality({q \in Policies : policy[q] = "live"})
PolicyInsertTx(p) == policy' = [policy EXCEPT ![p] = "live"]
PolicyDeleteTx(p) == policy' = [policy EXCEPT ![p] = "none"]
PolicyDeleteForPeerTx == policy' = [p \in Policies |-> "none"]
ActivateTx(g) == grant' = [grant EXCEPT ![g].state = "active", ![g].by = g]
InsertActiveTx(g, p) == grant' = [grant EXCEPT ![g] = [state |-> "active", by |-> p, age |-> 0]]
Delete(g) == grant' = [grant EXCEPT ![g].state = "none"]

Revoked(row) == IF row.state \in {"pending_approval", "active"}
                THEN [row EXCEPT !.state = "revoked"] ELSE row

-----------------------------------------------------------------------------
(* grant_create                                                            *)

\* Everything read before the first transaction, and the policy match.
GrantCreate(g) ==
    /\ call[g].at = "idle"
    /\ recheckIssuanceTx(g) /\ recheckResource(g) /\ CheckSensitiveGrant(g)
    /\ policy' = pruneExpiredPolicies
    /\ \/ /\ Match(g) = {}
          /\ call' = [call EXCEPT ![g] = [at |-> "insert", pol |-> "none"]]
       \/ \E p \in Match(g) : call' = [call EXCEPT ![g] = [at |-> "issue", pol |-> p]]
    /\ UNCHANGED <<outcome, grant, session, peer, debate, disk, after, mail, held, mirror, moves>>

\* The policy path: one transaction that checks everything again.
PolicyIssue(g) ==
    /\ call[g].at = "issue"
    /\ call' = [call EXCEPT ![g].at = "done"]
    /\ IF recheckIssuanceTx(g) /\ recheckPolicyTx(call[g].pol) /\ CheckSensitiveGrant(g)
       THEN /\ InsertActiveTx(g, call[g].pol)
            /\ mail' = mail \cup {<<"grant", g>>}
       ELSE UNCHANGED <<grant, mail>>
    /\ UNCHANGED <<outcome, policy, session, peer, debate, disk, after, held, mirror, moves>>

\* InsertPending: no transaction, nothing is checked again.
InsertPending(g) ==
    /\ call[g].at = "insert"
    /\ call' = [call EXCEPT ![g].at = "ask"]
    /\ grant' = [grant EXCEPT ![g] = [state |-> "pending_approval", by |-> "none", age |-> 0]]
    /\ UNCHANGED <<outcome, policy, session, peer, debate, disk, after, mail, held, mirror, moves>>

\* approval.Create shows the code, or fails and the row is deleted.
AskForGrant(g) ==
    /\ call[g].at = "ask"
    /\ call' = [call EXCEPT ![g].at = "done"]
    /\ \/ Ask(g) /\ UNCHANGED grant
       \/ UNCHANGED outcome /\ Delete(g)
    /\ UNCHANGED <<policy, session, peer, debate, disk, after, mail, held, mirror, moves>>

BugNoDebateCheck(g) ==
    recheckIssuanceTx(g) /\ grant[g].state = "pending_approval" /\ grant[g].age = 0 /\ recheckResource(g)

BugAnyState(g) == recheckIssuanceTx(g) /\ CheckSensitiveGrant(g) /\ grant[g].age = 0 /\ recheckResource(g)

\* approval_confirm with the right code: Precondition and Perform run in the
\* transaction that marks the approval; a failing check ends the approval.
GrantPrecondition(g) ==
    /\ recheckIssuanceTx(g) /\ CheckSensitiveGrant(g)
    /\ grant[g].state = "pending_approval"
    /\ grant[g].age = 0
    /\ recheckResource(g)

ConfirmGrant(g) ==
    /\ g \in Grants
    /\ IF GrantPrecondition(g)
       THEN /\ Grant(g)
            /\ ActivateTx(g)
            /\ mail' = mail \cup {<<"grant", g>>}
       ELSE End(g) /\ UNCHANGED <<grant, mail>>
    /\ UNCHANGED <<call, policy, session, peer, debate, disk, after, held, mirror, moves>>

\* The human declines, or the code expires.  A grant has no OnReject hook.
RejectApproval(i) ==
    /\ Spend /\ End(i)
    /\ UNCHANGED <<grant, call, policy, session, peer, debate, disk, after, mail, held, mirror>>

-----------------------------------------------------------------------------
(* grant_revoke and the ends of a session or a peer                        *)

\* The handler answers "duplicate" for a revoked row; the transaction then
\* revokes and tells the holder.
RevokeTx(S) == grant' = [g \in Grants |-> IF g \in S THEN Revoked(grant[g]) ELSE grant[g]]

GrantRevoke(g) ==
    /\ Spend
    /\ grant[g].state \in {"pending_approval", "active"}
    /\ RevokeTx({g})
    /\ mail' = mail \cup {<<"grant.revoke", g>>}
    /\ UNCHANGED <<outcome, call, policy, session, peer, debate, disk, after, held, mirror>>

\* The closing transaction revokes the session's rows (wsStore.RevokeGrants)
\* and the mirror is told by ws.state; OnClosed runs after the commit.
RevokeForSessionTx(s) == RevokeTx({g \in Grants : GrantOf[g].session = s})

CloseSession(s) ==
    /\ Spend /\ session[s] # "closed"
    /\ session' = [session EXCEPT ![s] = "closed"]
    /\ RevokeForSessionTx(s)
    /\ after' = after \cup {s}
    /\ mail' = mail \cup {<<"ws.state", s>>}
    /\ UNCHANGED <<outcome, call, policy, peer, debate, disk, held, mirror>>

\* OnClosed lists the session's grants and rejects their approvals, as far
\* as they wait already.
OnClosed(s) ==
    /\ s \in after
    /\ after' = after \ {s}
    /\ EndAll({g \in Grants : GrantOf[g].session = s /\ grant[g].state # "none" /\ outcome[g] = "waiting"})
    /\ UNCHANGED <<grant, call, policy, session, peer, debate, disk, mail, held, mirror, moves>>

\* A result arrives, or changes are asked for.
SessionMoves(s) ==
    /\ Spend /\ session[s] # "closed"
    /\ session' = [session EXCEPT ![s] = IF @ = "open" THEN "awaiting_result" ELSE "open"]
    /\ UNCHANGED <<outcome, grant, call, policy, peer, debate, disk, after, mail, held, mirror>>

RevokeForPeerTx == RevokeTx(Grants)

\* peers remove: revokeForRemovedPeer runs in the removal's transaction.
RemovePeer ==
    /\ Spend /\ peer # "gone"
    /\ peer' = "gone"
    /\ RevokeForPeerTx
    /\ PolicyDeleteForPeerTx
    /\ UNCHANGED <<outcome, call, session, debate, disk, after, mail, held, mirror>>

\* Pairing again, trusted or through the relay only; peers verify.
PairPeer ==
    /\ Spend
    /\ \/ peer = "gone" /\ peer' \in {"paired", "relay"}
       \/ peer = "relay" /\ peer' = "paired"
    /\ UNCHANGED <<outcome, grant, call, policy, session, debate, disk, after, mail, held, mirror>>

\* Submitting or accepting a debate reads the quarantine rule in its
\* transaction (debate/start.go).
StartDebate ==
    /\ Spend /\ ~debate /\ peer # "gone"
    /\ ~PeerQuarantineHoldsTx
    /\ debate' = TRUE
    /\ UNCHANGED <<outcome, grant, call, policy, session, peer, disk, after, mail, held, mirror>>

EndDebate ==
    /\ debate /\ debate' = FALSE
    /\ UNCHANGED <<outcome, grant, call, policy, session, peer, disk, after, mail, held, mirror, moves>>

-----------------------------------------------------------------------------
(* Policies                                                                *)

\* grant_policy_add counts every row, the ended ones too.
PolicyAdd(p) ==
    /\ Ask(p)
    /\ peer # "gone"
    /\ PolicyCount < MaxPolicies
    /\ UNCHANGED <<grant, call, policy, session, peer, debate, disk, after, mail, held, mirror, moves>>

BugPeerOnly == peer # "gone"

PolicyPrecondition ==
    /\ peer # "gone"
    /\ PolicyCountTx < MaxPolicies

ConfirmPolicy(p) ==
    /\ p \in Policies
    /\ IF PolicyPrecondition
       THEN Grant(p) /\ PolicyInsertTx(p)
       ELSE End(p) /\ UNCHANGED policy
    /\ UNCHANGED <<grant, call, session, peer, debate, disk, after, mail, held, mirror, moves>>

PolicyRemove(p) ==
    /\ Spend /\ policy[p] # "none"
    /\ PolicyDeleteTx(p)
    /\ UNCHANGED <<outcome, grant, call, session, peer, debate, disk, after, mail, held, mirror>>

PolicyList ==
    /\ \E p \in Policies : policy[p] = "ended"
    /\ policy' = pruneExpiredPolicies
    /\ UNCHANGED <<outcome, grant, call, session, peer, debate, disk, after, mail, held, mirror, moves>>

-----------------------------------------------------------------------------
(* Time, the disk and a restart                                            *)

\* Enough time for a grant to reach exp, or 7 days past it.
GrantAges(g) ==
    /\ Spend /\ grant[g].state # "none" /\ grant[g].age < 2
    /\ grant' = [grant EXCEPT ![g].age = @ + 1]
    /\ UNCHANGED <<outcome, call, policy, session, peer, debate, disk, after, mail, held, mirror>>

PolicyEnds(p) ==
    /\ Spend /\ policy[p] = "live"
    /\ policy' = [policy EXCEPT ![p] = "ended"]
    /\ UNCHANGED <<outcome, grant, call, session, peer, debate, disk, after, mail, held, mirror>>

ResourceChanges(g) ==
    /\ Spend /\ disk' = disk \cup {g} /\ g \notin disk
    /\ UNCHANGED <<outcome, grant, call, policy, session, peer, debate, after, mail, held, mirror>>

\* A restart loses the calls, the hooks and everything that waits.
GrantRestart ==
    /\ Spend /\ Stop
    /\ call' = [g \in Grants |-> IF call[g].at = "idle" THEN call[g] ELSE [call[g] EXCEPT !.at = "done"]]
    /\ after' = {}
    /\ UNCHANGED <<grant, policy, session, peer, debate, disk, mail, held, mirror>>

-----------------------------------------------------------------------------
(* The holder                                                              *)

\* grantKind: a session that is not open refuses the mail for good; caps
\* count every row before exp, revoked ones too.
HeldLive(s) == {g \in Grants : GrantOf[g].session = s /\ held[g] # "none" /\ grant[g].age = 0}

ApplyGrant(g) ==
    /\ <<"grant", g>> \in mail
    /\ mail' = mail \ {<<"grant", g>>}
    /\ held' = IF /\ grant[g].age = 0
                  /\ mirror[GrantOf[g].session] = "open"
                  /\ Cardinality(HeldLive(GrantOf[g].session)) < MaxHeldLive
               THEN [held EXCEPT ![g] = "active"] ELSE held
    /\ UNCHANGED <<outcome, grant, call, policy, session, peer, debate, disk, after, mirror, moves>>

\* grantRevokeKind ignores a grant it does not hold.
ApplyRevoke(g) ==
    /\ <<"grant.revoke", g>> \in mail
    /\ mail' = mail \ {<<"grant.revoke", g>>}
    /\ held' = [held EXCEPT ![g] = IF @ = "none" THEN @ ELSE "revoked"]
    /\ UNCHANGED <<outcome, grant, call, policy, session, peer, debate, disk, after, mirror, moves>>

BugMirrorOnly(s) ==
    /\ <<"ws.state", s>> \in mail
    /\ mail' = mail \ {<<"ws.state", s>>}
    /\ mirror' = [mirror EXCEPT ![s] = "closed"]
    /\ UNCHANGED <<outcome, grant, call, policy, session, peer, debate, disk, after, held, moves>>

\* The mirror step of ws.state closed revokes the holder's rows with it.
ApplyClosed(s) ==
    /\ <<"ws.state", s>> \in mail
    /\ mail' = mail \ {<<"ws.state", s>>}
    /\ mirror' = [mirror EXCEPT ![s] = "closed"]
    /\ held' = [g \in Grants |-> IF GrantOf[g].session = s /\ held[g] = "active" THEN "revoked" ELSE held[g]]
    /\ UNCHANGED <<outcome, grant, call, policy, session, peer, debate, disk, after, moves>>

HolderMoves(s) ==
    /\ Spend /\ mirror[s] # "closed"
    /\ mirror' = [mirror EXCEPT ![s] = IF @ = "open" THEN "awaiting_result" ELSE "open"]
    /\ UNCHANGED <<outcome, grant, call, policy, session, peer, debate, disk, after, mail, held>>

-----------------------------------------------------------------------------
GrantNext ==
    \/ \E g \in Grants :
          \/ GrantCreate(g) \/ PolicyIssue(g) \/ InsertPending(g) \/ AskForGrant(g)
          \/ ConfirmGrant(g) \/ GrantRevoke(g) \/ GrantAges(g) \/ ResourceChanges(g)
          \/ ApplyGrant(g) \/ ApplyRevoke(g)
    \/ \E p \in Policies : PolicyAdd(p) \/ ConfirmPolicy(p) \/ PolicyRemove(p) \/ PolicyEnds(p)
    \/ \E i \in Ids : RejectApproval(i)
    \/ \E s \in Sessions :
          CloseSession(s) \/ OnClosed(s) \/ SessionMoves(s) \/ ApplyClosed(s) \/ HolderMoves(s)
    \/ RemovePeer \/ PairPeer \/ StartDebate \/ EndDebate \/ PolicyList \/ GrantRestart

GrantSpec == GrantInit /\ [][GrantNext]_<<outcome, grantVars>>

-----------------------------------------------------------------------------
(* Properties                                                              *)

GrantRows == [state : {"none", "pending_approval", "active", "revoked"}, by : Ids \cup {"none"}, age : 0..2]
CallRows == [at : {"idle", "insert", "issue", "ask", "done"}, pol : Policies \cup {"none"}]

GrantTypeOK ==
    /\ outcome \in [Ids -> Outcomes]
    /\ grant \in [Grants -> GrantRows]
    /\ call \in [Grants -> CallRows]
    /\ policy \in [Policies -> {"none", "live", "ended"}]
    /\ session \in [Sessions -> {"open", "awaiting_result", "closed"}]
    /\ peer \in {"paired", "relay", "gone"} /\ debate \in BOOLEAN
    /\ disk \subseteq Grants /\ after \subseteq Sessions
    /\ held \in [Grants -> {"none", "active", "revoked"}]
    /\ mirror \in [Sessions -> {"open", "awaiting_result", "closed"}]
    /\ moves \in Nat

\* No active grant for a closed session or a removed peer, and no policy of
\* a removed peer, whatever the checks before the transaction saw
\* (grant.go, review 28 M1-M3; a policy that outlived its peer would come
\* back to life when the peer pairs again).
AccessEndsWithItsGround ==
    /\ \A g \in Grants : grant[g].state = "active" =>
          session[GrantOf[g].session] # "closed" /\ peer # "gone"
    /\ peer = "gone" => \A p \in Policies : policy[p] = "none"

\* An active grant was confirmed by the human, or issued under a policy the
\* human confirmed that covers it in scope, sensitivity and lifetime.
AccessWasApproved ==
    \A g \in Grants : EverActive(g) =>
        \/ grant[g].by = g /\ outcome[g] = "approved"
        \/ /\ grant[g].by \in Policies /\ outcome[grant[g].by] = "approved"
           /\ LET P == PolicyOf[grant[g].by]
              IN  P.public = ~Sensitive(g) /\ SubSeq(GrantOf[g].scope, 1, Len(P.scope)) = P.scope

\* A debate and sensitive access exclude each other for 7 days past exp,
\* whichever of the two began while the other was being set up
\* (debate.md, quarantine interplay; review 43 M5).
NoDebateBesideSensitiveAccess == debate => ~PeerQuarantineHoldsTx

\* Approvals confirmed one after another never exceed the policy limit,
\* although the limit is first read long before the human answers.
PoliciesAreBounded == PolicyCountTx <= MaxPolicies

\* A grant becomes active only under authority that stands in that very
\* step: an open session, a paired and verified peer, and an approval that
\* commits with it or a policy that has neither ended nor been removed
\* (review 55 R55-104).
IssuedUnderStandingAuthority ==
    \A g \in Grants : grant[g].state # "active" /\ grant'[g].state = "active" =>
        /\ session[GrantOf[g].session] = "open" /\ peer = "paired"
        /\ \/ outcome[g] = "waiting" /\ outcome'[g] = "approved"
           \/ grant'[g].by \in Policies /\ policy[grant'[g].by] = "live"

\* What the grantor ended stays ended: a revoked row is never revived, not
\* by a confirm that was under way, and keeps the record of having been
\* active that the quarantine rule reads.
RevokedForGood ==
    \A g \in Grants : grant[g].state = "revoked" =>
        /\ grant'[g].state = "revoked" \/ (call[g].at = "ask" /\ ~EverActive(g))
        /\ grant'[g].by = grant[g].by

\* The result of a session in which sensitive data was readable is held back
\* at every later time (QuarantineHolds is read when the result arrives).
QuarantineIsSticky ==
    \A s \in Sessions : \A g \in Grants :
        (GrantOf[g].session = s /\ Sensitive(g) /\ grant[g].state = "active")
           => QuarantineHolds(s)'

\* The holder never holds a usable row in a session it knows to be closed,
\* and holds only what the grantor once issued.
HolderFollows ==
    \A g \in Grants :
        /\ held[g] = "active" => mirror[GrantOf[g].session] # "closed"
        /\ held[g] # "none" => EverActive(g)

\* Access is approved, bounded and mirrored as it should be in every state.
AccessHasGround ==
    /\ GrantTypeOK /\ AccessWasApproved /\ NoDebateBesideSensitiveAccess
    /\ PoliciesAreBounded /\ HolderFollows

\* Access begins under standing authority and what it left behind stays.
GrantsFollowAuthority ==
    [][IssuedUnderStandingAuthority /\ RevokedForGood /\ QuarantineIsSticky]_<<outcome, grantVars>>
=============================================================================
