----------------------- MODULE CapabilityGrantsProofs -----------------------
(***************************************************************************)
(* Proof that access has its ground in every state and begins only under   *)
(* authority that stands, for every set of grants, policies and sessions   *)
(* and every limit, and that the grant handlers use the approval store as  *)
(* ApprovalContract allows.                                                *)
(*                                                                         *)
(* The argument: a grant row without an issuer (by = "none") never gave    *)
(* access, and as long as its grant_create call has not ended the row has  *)
(* none (CallsInOrder); so neither InsertPending nor the Delete after a    *)
(* failed approval.Create can erase a row the quarantine rule still reads. *)
(* An issuer, once written, is an approval that was given or a policy      *)
(* whose approval was given (RowsHaveIssuers), and approvals stay given.   *)
(***************************************************************************)
EXTENDS CapabilityGrants, FiniteSetTheorems, TLAPS

\* What policyCovers compares that never changes.
Covering ==
    {pg \in Policies \X Grants :
        /\ PolicyOf[pg[1]].public = ~Sensitive(pg[2])
        /\ scopeWithin(GrantOf[pg[2]].scope, PolicyOf[pg[1]].scope)}

\* A call that has not ended: nothing was asked, and its row gave no access.
CallsInOrder ==
    \A g \in Grants :
        /\ call[g].at # "done" => outcome[g] = "none" /\ grant[g].by = "none"
        /\ call[g].at \in {"idle", "insert", "issue"} => grant[g].state = "none"
        /\ call[g].at = "issue" => <<call[g].pol, g>> \in Covering

\* Who issued a row, and that a human agreed to it.
RowsHaveIssuers ==
    \A g \in Grants :
        /\ grant[g].state = "active" => grant[g].by # "none"
        /\ grant[g].by # "none" =>
              /\ grant[g].state \in {"active", "revoked"}
              /\ outcome[grant[g].by] = "approved"
              /\ grant[g].by = g \/ <<grant[g].by, g>> \in Covering

PoliciesWereApproved == \A p \in Policies : policy[p] # "none" => outcome[p] = "approved"

LivePolicies == {q \in Policies : policy[q] = "live"}

\* The limit holds of a finite set.
LiveIsBounded == IsFiniteSet(LivePolicies) /\ Cardinality(LivePolicies) <= MaxPolicies

\* A grant mail is about a row that gave access.
MailIsIssued == \A g \in Grants : <<"grant", g>> \in mail => grant[g].by # "none"

HeldIsIssued ==
    \A g \in Grants : /\ held[g] = "active" => mirror[GrantOf[g].session] # "closed"
                      /\ held[g] # "none" => grant[g].by # "none"

\* The quarantine rule, in terms of the issuer.
DebateIsApart ==
    debate => \A g \in Grants : Sensitive(g) /\ grant[g].by # "none" => grant[g].age = 2

Books == CallsInOrder /\ RowsHaveIssuers /\ PoliciesWereApproved
Sides == LiveIsBounded /\ MailIsIssued /\ HeldIsIssued /\ DebateIsApart

\* The inductive invariant.
GrantInv == GrantTypeOK /\ AccessEndsWithItsGround /\ Books /\ Sides

-----------------------------------------------------------------------------
\* Grants and policies have ids of their own.
LEMMA IdFacts ==
    /\ Grants \subseteq Ids /\ Policies \subseteq Ids /\ "none" \notin Ids
    /\ \A g \in Grants : g \notin Policies
BY GrantConstants

\* A step that leaves the tables of a conjunct alone keeps it.
LEMMA BooksFrame ==
    ASSUME Books, UNCHANGED <<outcome, grant, call, policy>> PROVE Books'
BY DEF Books, CallsInOrder, RowsHaveIssuers, PoliciesWereApproved

\* Access keeps its ground while neither moves.
LEMMA GroundFrame ==
    ASSUME AccessEndsWithItsGround, UNCHANGED <<grant, policy, session, peer>>
    PROVE  AccessEndsWithItsGround'
BY DEF AccessEndsWithItsGround

\* The policy limit depends on the policies alone.
LEMMA BoundFrame == ASSUME LiveIsBounded, UNCHANGED policy PROVE LiveIsBounded'
BY DEF LiveIsBounded, LivePolicies

\* Grant mails stay about issued rows.
LEMMA MailFrame == ASSUME MailIsIssued, UNCHANGED <<grant, mail>> PROVE MailIsIssued'
BY DEF MailIsIssued

\* The holder's rows stay about issued ones.
LEMMA HeldFrame == ASSUME HeldIsIssued, UNCHANGED <<grant, held, mirror>> PROVE HeldIsIssued'
BY DEF HeldIsIssued

\* The quarantine rule depends on grants and debates alone.
LEMMA DebateFrame == ASSUME DebateIsApart, UNCHANGED <<grant, debate>> PROVE DebateIsApart'
BY DEF DebateIsApart

\* Policies that end or are removed leave no more of them live.
LEMMA FewerLive ==
    ASSUME LiveIsBounded, GrantTypeOK', LivePolicies' \subseteq LivePolicies PROVE LiveIsBounded'
<1>1. /\ IsFiniteSet(LivePolicies') /\ Cardinality(LivePolicies') <= Cardinality(LivePolicies)
  BY FS_Subset DEF LiveIsBounded
<1>2. Cardinality(LivePolicies) \in Nat /\ Cardinality(LivePolicies') \in Nat
  BY <1>1, FS_CardinalityType DEF LiveIsBounded
<1> QED
  BY <1>1, <1>2, GrantConstants DEF LiveIsBounded

\* The quarantine rule reads a row exactly when it has an issuer.
LEMMA EverActiveIsIssued ==
    ASSUME GrantTypeOK, RowsHaveIssuers, NEW g \in Grants
    PROVE  EverActive(g) <=> grant[g].by # "none"
BY DEF GrantTypeOK, RowsHaveIssuers, EverActive

-----------------------------------------------------------------------------
\* A daemon without grants, policies and closed sessions satisfies the invariant.
LEMMA GrantInitInv == GrantInit => GrantInv
<1> SUFFICES ASSUME GrantInit PROVE GrantInv
  OBVIOUS
<1> USE DEF GrantInit, ContractInit
<1>0. PICK plan \in GrantPlans :
          /\ call = [g \in Grants |-> [at |-> IF g \in plan.asks THEN "idle" ELSE "done", pol |-> "none"]]
          /\ moves = plan.moves
  OBVIOUS
<1>1. GrantTypeOK
  <2>1. outcome \in [Ids -> Outcomes] /\ grant \in [Grants -> GrantRows]
    BY DEF Outcomes, GrantRows
  <2>3. call \in [Grants -> CallRows]
    BY <1>0 DEF CallRows
  <2>4. moves \in Nat
    BY <1>0, GrantConstants
  <2> QED
    BY <2>1, <2>3, <2>4 DEF GrantTypeOK
<1>2. AccessEndsWithItsGround
  BY DEF AccessEndsWithItsGround
<1>3. Books
  <2>1. \A g \in Grants : call[g].at \in {"idle", "done"}
    BY <1>0
  <2> QED
    BY <2>1, IdFacts DEF Books, CallsInOrder, RowsHaveIssuers, PoliciesWereApproved
<1>4. LivePolicies = {}
  BY DEF LivePolicies
<1>5. LiveIsBounded
  BY <1>4, FS_EmptySet, GrantConstants DEF LiveIsBounded
<1>6. MailIsIssued /\ HeldIsIssued /\ DebateIsApart
  BY DEF MailIsIssued, HeldIsIssued, DebateIsApart
<1> QED
  BY <1>1, <1>2, <1>3, <1>5, <1>6 DEF GrantInv, Sides

-----------------------------------------------------------------------------
(* Steps that several actions share.                                       *)

\* What the types say, without the fields of the rows.
LEMMA Typed ==
    ASSUME GrantInv
    PROVE  /\ outcome \in [Ids -> Outcomes] /\ grant \in [Grants -> GrantRows] /\ call \in [Grants -> CallRows]
           /\ \A g \in Grants : grant[g].by \in Ids \cup {"none"}
<1>1. outcome \in [Ids -> Outcomes] /\ grant \in [Grants -> GrantRows] /\ call \in [Grants -> CallRows]
  BY DEF GrantInv, GrantTypeOK
<1> QED
  BY <1>1 DEF GrantRows

\* An approval that is not the one of a call under way changes, and none that was
\* given is taken back.
OutcomeMoves ==
    /\ outcome' \in [Ids -> Outcomes]
    /\ \A i \in Ids : outcome[i] = "approved" => outcome'[i] = "approved"
    /\ \A g \in Grants : call'[g].at # "done" => outcome'[g] = outcome[g]

\* A step of the approval contract alone keeps the books.
LEMMA OutcomeKeepsBooks ==
    ASSUME GrantInv, OutcomeMoves, UNCHANGED <<grant, call>>,
           \A p \in Policies : policy'[p] # "none" => policy[p] # "none" \/ outcome'[p] = "approved"
    PROVE  Books'
<1>1. CallsInOrder'
  BY DEF GrantInv, Books, CallsInOrder, OutcomeMoves
<1>2. RowsHaveIssuers'
  BY Typed DEF GrantInv, Books, RowsHaveIssuers, OutcomeMoves
<1>3. PoliciesWereApproved'
  BY IdFacts DEF GrantInv, Books, PoliciesWereApproved, OutcomeMoves
<1> QED
  BY <1>1, <1>2, <1>3 DEF Books

\* What Revoke does to a row.
LEMMA RevokedRows ==
    ASSUME GrantInv, NEW S, RevokeTx(S)
    PROVE  /\ grant' \in [Grants -> GrantRows]
           /\ \A g \in Grants :
                /\ grant'[g].by = grant[g].by /\ grant'[g].age = grant[g].age
                /\ \/ grant'[g].state = grant[g].state
                   \/ grant[g].state \in {"pending_approval", "active"} /\ grant'[g].state = "revoked"
                /\ g \in S => grant'[g].state # "active"
<1>1. grant' \in [Grants -> GrantRows]
  BY Typed DEF RevokeTx, Revoked, GrantRows
<1>2. ASSUME NEW g \in Grants
      PROVE  /\ grant'[g].by = grant[g].by /\ grant'[g].age = grant[g].age
             /\ \/ grant'[g].state = grant[g].state
                \/ grant[g].state \in {"pending_approval", "active"} /\ grant'[g].state = "revoked"
             /\ g \in S => grant'[g].state # "active"
  BY Typed DEF RevokeTx, Revoked, GrantRows
<1> QED
  BY <1>1, <1>2

\* A revocation keeps everything but the ground, which its session or peer loses.
LEMMA RevokeKeeps ==
    ASSUME GrantInv, NEW S, RevokeTx(S), UNCHANGED <<outcome, call, debate, held, mirror>>,
           \A g \in Grants : <<"grant", g>> \in mail' => <<"grant", g>> \in mail
    PROVE  /\ grant' \in [Grants -> GrantRows]
           /\ CallsInOrder' /\ RowsHaveIssuers' /\ MailIsIssued' /\ HeldIsIssued' /\ DebateIsApart'
<1>1. CallsInOrder'
  BY RevokedRows DEF GrantInv, Books, CallsInOrder
<1>2. RowsHaveIssuers'
  BY RevokedRows DEF GrantInv, Books, RowsHaveIssuers
<1>3. MailIsIssued' /\ HeldIsIssued' /\ DebateIsApart'
  BY RevokedRows DEF GrantInv, Sides, MailIsIssued, HeldIsIssued, DebateIsApart
<1> QED
  BY <1>1, <1>2, <1>3, RevokedRows

-----------------------------------------------------------------------------
(* grant_create                                                            *)

\* GrantCreate: the policy it matched covers the grant, whatever becomes of it later.
LEMMA GrantCreateKeeps == ASSUME GrantInv, NEW g \in Grants, GrantCreate(g) PROVE GrantInv'
<1>1. /\ policy' \in [Policies -> {"none", "live", "ended"}]
      /\ \A p \in Policies : policy'[p] # "none" => policy'[p] = policy[p]
  BY DEF GrantInv, GrantTypeOK, GrantCreate, pruneExpiredPolicies
<1>2. /\ call' \in [Grants -> CallRows]
      /\ \A h \in Grants : h # g => call'[h] = call[h]
      /\ call'[g].at \in {"insert", "issue"}
      /\ call'[g].at = "issue" => call'[g].pol \in Match(g)
  BY Typed DEF GrantCreate, Match, CallRows
<1>3. GrantTypeOK'
  BY <1>1, <1>2 DEF GrantInv, GrantTypeOK, GrantCreate
<1>4. AccessEndsWithItsGround'
  BY <1>1 DEF GrantInv, AccessEndsWithItsGround, GrantCreate
<1>5. \A p \in Match(g) : <<p, g>> \in Covering
  BY DEF Match, policyCovers, Covering, Sensitive
<1>6. CallsInOrder'
  BY <1>2, <1>5 DEF GrantInv, Books, CallsInOrder, GrantCreate
<1>7. RowsHaveIssuers' /\ PoliciesWereApproved'
  BY <1>1 DEF GrantInv, Books, RowsHaveIssuers, PoliciesWereApproved, GrantCreate
<1>8. LivePolicies' \subseteq LivePolicies
  BY <1>1 DEF LivePolicies
<1> QED
  BY <1>3, <1>4, <1>6, <1>7, <1>8, FewerLive, MailFrame, HeldFrame, DebateFrame
     DEF GrantInv, Books, Sides, GrantCreate

\* PolicyIssue: the row is made under a policy that stands and covers it.
LEMMA PolicyIssueKeeps == ASSUME GrantInv, NEW g \in Grants, PolicyIssue(g) PROVE GrantInv'
<1>1. /\ call' \in [Grants -> CallRows] /\ call[g].at = "issue" /\ call'[g].at = "done"
      /\ \A h \in Grants : h # g => call'[h] = call[h]
  BY Typed DEF PolicyIssue, CallRows
<1>2. <<call[g].pol, g>> \in Covering /\ call[g].pol \in Policies
  BY <1>1 DEF GrantInv, Books, CallsInOrder, Covering
<1>3. CASE UNCHANGED <<grant, mail>>
  <2>1. GrantTypeOK'
    BY <1>1, <1>3 DEF GrantInv, GrantTypeOK, PolicyIssue
  <2>2. Books'
    BY <1>1, <1>3 DEF GrantInv, Books, CallsInOrder, RowsHaveIssuers, PoliciesWereApproved, PolicyIssue
  <2> QED
    BY <1>3, <2>1, <2>2, GroundFrame, BoundFrame, MailFrame, HeldFrame, DebateFrame
       DEF GrantInv, Sides, PolicyIssue
<1>4. CASE /\ recheckIssuanceTx(g) /\ recheckPolicyTx(call[g].pol) /\ CheckSensitiveGrant(g)
           /\ InsertActiveTx(g, call[g].pol) /\ mail' = mail \cup {<<"grant", g>>}
  <2>1. /\ grant' \in [Grants -> GrantRows] /\ grant'[g].state = "active" /\ grant'[g].by = call[g].pol
        /\ \A h \in Grants : h # g => grant'[h] = grant[h]
    BY <1>2, <1>4, Typed, IdFacts DEF InsertActiveTx, GrantRows
  <2>2. GrantTypeOK'
    BY <1>1, <2>1 DEF GrantInv, GrantTypeOK, PolicyIssue
  <2>3. AccessEndsWithItsGround'
    BY <1>4, <2>1 DEF GrantInv, AccessEndsWithItsGround, PolicyIssue, recheckIssuanceTx
  <2>4. CallsInOrder'
    BY <1>1, <2>1 DEF GrantInv, Books, CallsInOrder, PolicyIssue
  <2>5. outcome[call[g].pol] = "approved" /\ call[g].pol # "none"
    BY <1>2, <1>4, IdFacts DEF GrantInv, Books, PoliciesWereApproved, recheckPolicyTx
  <2>6. RowsHaveIssuers' /\ PoliciesWereApproved'
    BY <1>2, <2>1, <2>5 DEF GrantInv, Books, RowsHaveIssuers, PoliciesWereApproved, PolicyIssue
  <2>7. MailIsIssued' /\ HeldIsIssued'
    BY <1>4, <2>1, <2>5 DEF GrantInv, Sides, MailIsIssued, HeldIsIssued, PolicyIssue
  <2>8. DebateIsApart'
    BY <1>4, <2>1 DEF GrantInv, Sides, DebateIsApart, PolicyIssue, CheckSensitiveGrant
  <2> QED
    BY <2>2, <2>3, <2>4, <2>6, <2>7, <2>8, BoundFrame DEF GrantInv, Books, Sides, PolicyIssue
<1> QED
  BY <1>3, <1>4 DEF PolicyIssue

\* InsertPending: the row it writes replaces none that gave access.
LEMMA InsertPendingKeeps == ASSUME GrantInv, NEW g \in Grants, InsertPending(g) PROVE GrantInv'
<1>1. /\ call' \in [Grants -> CallRows] /\ call[g].at = "insert" /\ call'[g].at = "ask"
      /\ \A h \in Grants : h # g => call'[h] = call[h]
  BY Typed DEF InsertPending, CallRows
<1>2. /\ grant' \in [Grants -> GrantRows] /\ grant'[g].state = "pending_approval" /\ grant'[g].by = "none"
      /\ \A h \in Grants : h # g => grant'[h] = grant[h]
  BY Typed DEF InsertPending, GrantRows
<1>3. grant[g].by = "none" /\ outcome[g] = "none"
  BY <1>1 DEF GrantInv, Books, CallsInOrder
<1>4. GrantTypeOK'
  BY <1>1, <1>2 DEF GrantInv, GrantTypeOK, InsertPending
<1>5. AccessEndsWithItsGround'
  BY <1>2 DEF GrantInv, AccessEndsWithItsGround, InsertPending
<1>6. CallsInOrder'
  BY <1>1, <1>2, <1>3 DEF GrantInv, Books, CallsInOrder, InsertPending
<1>7. RowsHaveIssuers' /\ PoliciesWereApproved'
  BY <1>2 DEF GrantInv, Books, RowsHaveIssuers, PoliciesWereApproved, InsertPending
<1>8. MailIsIssued' /\ HeldIsIssued' /\ DebateIsApart'
  BY <1>2, <1>3 DEF GrantInv, Sides, MailIsIssued, HeldIsIssued, DebateIsApart, InsertPending
<1> QED
  BY <1>4, <1>5, <1>6, <1>7, <1>8, BoundFrame DEF GrantInv, Books, Sides, InsertPending

\* AskForGrant: the row that Delete removes never gave access.
LEMMA AskForGrantKeeps == ASSUME GrantInv, NEW g \in Grants, AskForGrant(g) PROVE GrantInv'
<1>1. /\ outcome' \in [Ids -> Outcomes]
      /\ \A i \in Ids : outcome'[i] = outcome[i] \/ (i = g /\ outcome[i] = "none")
  BY Typed, IdFacts DEF AskForGrant, Ask, Become, Outcomes
<1>2. /\ grant' \in [Grants -> GrantRows]
      /\ \A h \in Grants : /\ grant'[h].by = grant[h].by /\ grant'[h].age = grant[h].age
                           /\ grant'[h].state = grant[h].state \/ (h = g /\ grant'[h].state = "none")
  BY Typed DEF AskForGrant, Delete, GrantRows
<1>3. /\ call' \in [Grants -> CallRows] /\ call[g].at = "ask" /\ call'[g].at = "done"
      /\ \A h \in Grants : h # g => call'[h] = call[h]
  BY Typed, Zenon DEF AskForGrant, CallRows
<1>4. GrantTypeOK'
  BY <1>1, <1>2, <1>3 DEF GrantInv, GrantTypeOK, AskForGrant
<1>5. AccessEndsWithItsGround'
  BY <1>2 DEF GrantInv, AccessEndsWithItsGround, AskForGrant
<1>6. CallsInOrder'
  BY <1>1, <1>2, <1>3, IdFacts DEF GrantInv, Books, CallsInOrder
<1>7. RowsHaveIssuers'
  <2>1. \A h \in Grants : grant[h].by # "none" => outcome'[grant[h].by] = "approved"
    BY <1>1, Typed DEF GrantInv, Books, RowsHaveIssuers
  <2>2. grant[g].by = "none"
    BY <1>3 DEF GrantInv, Books, CallsInOrder
  <2> QED
    BY <1>2, <2>1, <2>2 DEF GrantInv, Books, RowsHaveIssuers
<1>8. PoliciesWereApproved'
  BY <1>1, IdFacts DEF GrantInv, Books, PoliciesWereApproved, AskForGrant
<1>9. MailIsIssued' /\ HeldIsIssued' /\ DebateIsApart'
  BY <1>2 DEF GrantInv, Sides, MailIsIssued, HeldIsIssued, DebateIsApart, AskForGrant
<1> QED
  BY <1>4, <1>5, <1>6, <1>7, <1>8, <1>9, BoundFrame DEF GrantInv, Books, Sides, AskForGrant

\* ConfirmGrant: GrantPrecondition holds in the transaction that activates.
LEMMA ConfirmGrantKeeps == ASSUME GrantInv, NEW g \in Grants, ConfirmGrant(g) PROVE GrantInv'
<1>1. outcome[g] = "waiting" /\ OutcomeMoves
  <2>1. outcome[g] = "waiting"
    BY DEF ConfirmGrant, Grant, End, Become
  <2>2. /\ outcome' \in [Ids -> Outcomes]
        /\ \A i \in Ids : i # g => outcome'[i] = outcome[i]
    BY Typed, IdFacts DEF ConfirmGrant, Grant, End, Become, Outcomes
  <2>3. call[g].at = "done"
    BY <2>1 DEF GrantInv, Books, CallsInOrder
  <2> QED
    BY <2>1, <2>2, <2>3, IdFacts DEF OutcomeMoves, ConfirmGrant
<1>2. CASE UNCHANGED <<grant, mail>>
  <2>1. GrantTypeOK'
    BY <1>1, <1>2 DEF GrantInv, GrantTypeOK, ConfirmGrant, OutcomeMoves
  <2>2. Books'
    BY <1>1, <1>2, OutcomeKeepsBooks DEF ConfirmGrant
  <2> QED
    BY <1>2, <2>1, <2>2, GroundFrame, BoundFrame, MailFrame, HeldFrame, DebateFrame
       DEF GrantInv, Sides, ConfirmGrant
<1>3. CASE GrantPrecondition(g) /\ Grant(g) /\ ActivateTx(g) /\ mail' = mail \cup {<<"grant", g>>}
  <2>1. /\ grant' \in [Grants -> GrantRows] /\ grant'[g].state = "active" /\ grant'[g].by = g
        /\ grant'[g].age = grant[g].age
        /\ \A h \in Grants : h # g => grant'[h] = grant[h]
    BY <1>3, Typed, IdFacts DEF ActivateTx, GrantRows
  <2>2. outcome'[g] = "approved" /\ g # "none"
    BY <1>3, Typed, IdFacts DEF Grant, Become
  <2>3. GrantTypeOK'
    BY <1>1, <2>1 DEF GrantInv, GrantTypeOK, ConfirmGrant, OutcomeMoves
  <2>4. AccessEndsWithItsGround'
    BY <1>3, <2>1 DEF GrantInv, AccessEndsWithItsGround, ConfirmGrant, GrantPrecondition, recheckIssuanceTx
  <2>5. CallsInOrder'
    BY <1>1, <2>1 DEF GrantInv, Books, CallsInOrder, OutcomeMoves, ConfirmGrant
  <2>6. \A h \in Grants : grant[h].by # "none" => outcome'[grant[h].by] = "approved"
    BY <1>1, Typed DEF GrantInv, Books, RowsHaveIssuers, OutcomeMoves
  <2>7. RowsHaveIssuers'
    BY <2>1, <2>2, <2>6 DEF GrantInv, Books, RowsHaveIssuers
  <2>8. PoliciesWereApproved'
    BY <1>1, IdFacts DEF GrantInv, Books, PoliciesWereApproved, OutcomeMoves, ConfirmGrant
  <2>9. MailIsIssued' /\ HeldIsIssued'
    BY <1>3, <2>1, <2>2 DEF GrantInv, Sides, MailIsIssued, HeldIsIssued, ConfirmGrant
  <2>10. DebateIsApart'
    BY <1>3, <2>1 DEF GrantInv, Sides, DebateIsApart, ConfirmGrant, GrantPrecondition, CheckSensitiveGrant
  <2> QED
    BY <2>3, <2>4, <2>5, <2>7, <2>8, <2>9, <2>10, BoundFrame DEF GrantInv, Books, Sides, ConfirmGrant
<1> QED
  BY <1>2, <1>3 DEF ConfirmGrant

-----------------------------------------------------------------------------
(* Approvals that end, policies, and the daemon's restart                  *)

\* A step that only ends or forgets approvals keeps the invariant.
LEMMA EndingKeeps ==
    ASSUME GrantInv, OutcomeMoves, GrantTypeOK',
           UNCHANGED <<grant, call, policy, session, peer, debate, mail, held, mirror>>
    PROVE  GrantInv'
BY OutcomeKeepsBooks, GroundFrame, BoundFrame, MailFrame, HeldFrame, DebateFrame DEF GrantInv, Sides

\* A rejected or expired approval keeps the invariant.
LEMMA RejectApprovalKeeps == ASSUME GrantInv, NEW i \in Ids, RejectApproval(i) PROVE GrantInv'
<1>1. OutcomeMoves
  BY Typed, IdFacts DEF GrantInv, Books, CallsInOrder, OutcomeMoves, RejectApproval, End, Become, Outcomes
<1>2. GrantTypeOK'
  BY <1>1 DEF GrantInv, GrantTypeOK, OutcomeMoves, RejectApproval, Spend
<1> QED
  BY <1>1, <1>2, EndingKeeps DEF RejectApproval

\* The hook after a session's close keeps the invariant.
LEMMA OnClosedKeeps == ASSUME GrantInv, NEW s \in Sessions, OnClosed(s) PROVE GrantInv'
<1>1. OutcomeMoves
  BY Typed, IdFacts DEF GrantInv, Books, CallsInOrder, OutcomeMoves, OnClosed, EndAll, Outcomes
<1>2. GrantTypeOK'
  BY <1>1 DEF GrantInv, GrantTypeOK, OutcomeMoves, OnClosed
<1> QED
  BY <1>1, <1>2, EndingKeeps DEF OnClosed

\* grant_policy_add keeps the invariant.
LEMMA PolicyAddKeeps == ASSUME GrantInv, NEW p \in Policies, PolicyAdd(p) PROVE GrantInv'
<1>1. OutcomeMoves
  BY Typed, IdFacts DEF OutcomeMoves, PolicyAdd, Ask, Become, Outcomes
<1>2. GrantTypeOK'
  BY <1>1 DEF GrantInv, GrantTypeOK, OutcomeMoves, PolicyAdd
<1> QED
  BY <1>1, <1>2, EndingKeeps DEF PolicyAdd

\* ConfirmPolicy: PolicyPrecondition counts the live rows in the inserting transaction.
LEMMA ConfirmPolicyKeeps == ASSUME GrantInv, NEW p \in Policies, ConfirmPolicy(p) PROVE GrantInv'
<1>1. OutcomeMoves
  BY Typed, IdFacts DEF OutcomeMoves, ConfirmPolicy, Grant, End, Become, Outcomes
<1>2. CASE UNCHANGED policy
  <2>1. GrantTypeOK'
    BY <1>1, <1>2 DEF GrantInv, GrantTypeOK, OutcomeMoves, ConfirmPolicy
  <2> QED
    BY <1>1, <1>2, <2>1, EndingKeeps DEF ConfirmPolicy
<1>3. CASE PolicyPrecondition /\ Grant(p) /\ PolicyInsertTx(p)
  <2>1. /\ policy' \in [Policies -> {"none", "live", "ended"}]
        /\ \A q \in Policies : q # p => policy'[q] = policy[q]
        /\ policy'[p] = "live" /\ outcome'[p] = "approved"
    BY <1>3, Typed, IdFacts DEF GrantInv, GrantTypeOK, PolicyInsertTx, Grant, Become
  <2>2. GrantTypeOK'
    BY <1>1, <2>1 DEF GrantInv, GrantTypeOK, OutcomeMoves, ConfirmPolicy
  <2>3. Books'
    BY <1>1, <2>1, OutcomeKeepsBooks DEF ConfirmPolicy
  <2>4. AccessEndsWithItsGround'
    BY <1>3, <2>1 DEF GrantInv, AccessEndsWithItsGround, ConfirmPolicy, PolicyPrecondition
  <2>5. LivePolicies' = LivePolicies \cup {p}
    BY <2>1 DEF LivePolicies
  <2>6. /\ IsFiniteSet(LivePolicies) /\ Cardinality(LivePolicies) \in Nat
        /\ Cardinality(LivePolicies) < MaxPolicies
    BY <1>3, FS_CardinalityType DEF GrantInv, Sides, LiveIsBounded, PolicyPrecondition, PolicyCountTx, LivePolicies
  <2>7. /\ IsFiniteSet(LivePolicies \cup {p})
        /\ Cardinality(LivePolicies \cup {p}) \in {Cardinality(LivePolicies), Cardinality(LivePolicies) + 1}
    BY <2>6, FS_AddElement
  <2>8. LiveIsBounded'
    BY <2>5, <2>6, <2>7, GrantConstants DEF LiveIsBounded
  <2> QED
    BY <2>2, <2>3, <2>4, <2>8, MailFrame, HeldFrame, DebateFrame DEF GrantInv, Sides, ConfirmPolicy
<1> QED
  BY <1>2, <1>3 DEF ConfirmPolicy

\* Policies that end, are removed or are pruned.
LEMMA PoliciesGo ==
    ASSUME GrantInv, policy' \in [Policies -> {"none", "live", "ended"}], moves' \in Nat,
           \A p \in Policies : /\ policy'[p] # "none" => policy[p] # "none"
                               /\ policy'[p] = "live" => policy[p] = "live",
           UNCHANGED <<outcome, grant, call, session, peer, debate, disk, after, mail, held, mirror>>
    PROVE  GrantInv'
<1>1. GrantTypeOK'
  BY DEF GrantInv, GrantTypeOK
<1>2. AccessEndsWithItsGround'
  BY DEF GrantInv, AccessEndsWithItsGround
<1>3. Books'
  BY DEF GrantInv, Books, CallsInOrder, RowsHaveIssuers, PoliciesWereApproved
<1>4. LivePolicies' \subseteq LivePolicies
  BY DEF LivePolicies
<1> QED
  BY <1>1, <1>2, <1>3, <1>4, FewerLive, MailFrame, HeldFrame, DebateFrame DEF GrantInv, Sides

\* Removing, expiring and listing policies keep the invariant.
LEMMA PolicyStepsKeep ==
    ASSUME GrantInv, PolicyList \/ \E p \in Policies : PolicyRemove(p) \/ PolicyEnds(p) PROVE GrantInv'
<1>0. policy \in [Policies -> {"none", "live", "ended"}] /\ moves \in Nat
  BY DEF GrantInv, GrantTypeOK
<1>1. CASE PolicyList
  BY <1>0, <1>1, PoliciesGo DEF PolicyList, pruneExpiredPolicies
<1>2. ASSUME NEW p \in Policies, PolicyRemove(p) PROVE GrantInv'
  BY <1>0, <1>2, PoliciesGo DEF PolicyRemove, PolicyDeleteTx, Spend
<1>3. ASSUME NEW p \in Policies, PolicyEnds(p) PROVE GrantInv'
  BY <1>0, <1>3, PoliciesGo DEF PolicyEnds, Spend
<1> QED
  BY <1>1, <1>2, <1>3

\* A restart forgets calls and waiting approvals, never one that was given.
LEMMA GrantRestartKeeps == ASSUME GrantInv, GrantRestart PROVE GrantInv'
<1>1. /\ call' \in [Grants -> CallRows]
      /\ \A g \in Grants : call'[g] = call[g] \/ call'[g].at = "done"
  BY Typed DEF GrantRestart, CallRows
<1>2. /\ outcome' \in [Ids -> Outcomes]
      /\ \A i \in Ids : outcome[i] \in {"none", "approved"} => outcome'[i] = outcome[i]
  BY Typed DEF GrantRestart, Stop, Outcomes
<1>3. GrantTypeOK'
  BY <1>1, <1>2 DEF GrantInv, GrantTypeOK, GrantRestart, Spend
<1>4. CallsInOrder'
  BY <1>1, <1>2, IdFacts DEF GrantInv, Books, CallsInOrder, GrantRestart
<1>5. RowsHaveIssuers'
  BY <1>2, Typed DEF GrantInv, Books, RowsHaveIssuers, GrantRestart
<1>6. PoliciesWereApproved'
  BY <1>2, IdFacts DEF GrantInv, Books, PoliciesWereApproved, GrantRestart
<1> QED
  BY <1>3, <1>4, <1>5, <1>6, GroundFrame, BoundFrame, MailFrame, HeldFrame, DebateFrame
     DEF GrantInv, Books, Sides, GrantRestart

-----------------------------------------------------------------------------
(* Revocations                                                             *)

\* grant_revoke keeps the invariant.
LEMMA GrantRevokeKeeps == ASSUME GrantInv, NEW g \in Grants, GrantRevoke(g) PROVE GrantInv'
<1>1. RevokeTx({g}) /\ (\A h \in Grants : <<"grant", h>> \in mail' => <<"grant", h>> \in mail)
  BY DEF GrantRevoke
<1>2. /\ grant' \in [Grants -> GrantRows]
      /\ CallsInOrder' /\ RowsHaveIssuers' /\ MailIsIssued' /\ HeldIsIssued' /\ DebateIsApart'
  BY <1>1, RevokeKeeps DEF GrantRevoke
<1>3. GrantTypeOK'
  BY <1>2 DEF GrantInv, GrantTypeOK, GrantRevoke, Spend
<1>4. AccessEndsWithItsGround'
  BY <1>1, RevokedRows DEF GrantInv, AccessEndsWithItsGround, GrantRevoke
<1>5. PoliciesWereApproved'
  BY DEF GrantInv, Books, PoliciesWereApproved, GrantRevoke
<1> QED
  BY <1>2, <1>3, <1>4, <1>5, BoundFrame DEF GrantInv, Books, Sides, GrantRevoke

\* CloseSession: the closing transaction leaves no active row of the session.
LEMMA CloseSessionKeeps == ASSUME GrantInv, NEW s \in Sessions, CloseSession(s) PROVE GrantInv'
<1> DEFINE S == {g \in Grants : GrantOf[g].session = s}
<1>1. RevokeTx(S) /\ (\A h \in Grants : <<"grant", h>> \in mail' => <<"grant", h>> \in mail)
  BY DEF CloseSession, RevokeForSessionTx
<1>2. /\ grant' \in [Grants -> GrantRows]
      /\ CallsInOrder' /\ RowsHaveIssuers' /\ MailIsIssued' /\ HeldIsIssued' /\ DebateIsApart'
  BY <1>1, RevokeKeeps DEF CloseSession
<1>3. /\ session' \in [Sessions -> {"open", "awaiting_result", "closed"}]
      /\ \A t \in Sessions : t # s => session'[t] = session[t]
  BY DEF GrantInv, GrantTypeOK, CloseSession
<1>4. GrantTypeOK'
  BY <1>2, <1>3 DEF GrantInv, GrantTypeOK, CloseSession, Spend
<1>5. \A g \in Grants : GrantOf[g].session \in Sessions
  BY GrantConstants
<1>6. AccessEndsWithItsGround'
  <2>1. peer' = peer /\ policy' = policy
    BY DEF CloseSession
  <2>2. ASSUME NEW g \in Grants, grant'[g].state = "active"
        PROVE  session'[GrantOf[g].session] # "closed" /\ peer # "gone"
    <3>1. g \notin S /\ grant[g].state = "active"
      BY <1>1, <2>2, RevokedRows
    <3>2. GrantOf[g].session # s /\ GrantOf[g].session \in Sessions
      BY <3>1, <1>5 DEF S
    <3>3. session[GrantOf[g].session] # "closed" /\ peer # "gone"
      BY <3>1 DEF GrantInv, AccessEndsWithItsGround
    <3> QED
      BY <3>2, <3>3, <1>3
  <2> QED
    BY <2>1, <2>2 DEF GrantInv, AccessEndsWithItsGround
<1>7. PoliciesWereApproved'
  BY DEF GrantInv, Books, PoliciesWereApproved, CloseSession
<1> QED
  BY <1>2, <1>4, <1>6, <1>7, BoundFrame DEF GrantInv, Books, Sides, CloseSession

\* RemovePeer: rows and policies go in the transaction that removes the peer.
LEMMA RemovePeerKeeps == ASSUME GrantInv, RemovePeer PROVE GrantInv'
<1>1. RevokeTx(Grants) /\ (\A h \in Grants : <<"grant", h>> \in mail' => <<"grant", h>> \in mail)
  BY DEF RemovePeer, RevokeForPeerTx
<1>2. /\ grant' \in [Grants -> GrantRows]
      /\ CallsInOrder' /\ RowsHaveIssuers' /\ MailIsIssued' /\ HeldIsIssued' /\ DebateIsApart'
  BY <1>1, RevokeKeeps DEF RemovePeer
<1>3. policy' = [p \in Policies |-> "none"]
  BY DEF RemovePeer, PolicyDeleteForPeerTx
<1>4. GrantTypeOK'
  BY <1>2, <1>3 DEF GrantInv, GrantTypeOK, RemovePeer, Spend
<1>5. AccessEndsWithItsGround'
  BY <1>1, <1>3, RevokedRows DEF AccessEndsWithItsGround
<1>6. PoliciesWereApproved'
  BY <1>3 DEF PoliciesWereApproved
<1>7. LivePolicies' \subseteq LivePolicies
  BY <1>3 DEF LivePolicies
<1> QED
  BY <1>2, <1>4, <1>5, <1>6, <1>7, FewerLive DEF GrantInv, Books, Sides

-----------------------------------------------------------------------------
(* Time, peers, debates and the holder                                     *)

\* A grant's expiry keeps the invariant.
LEMMA GrantAgesKeeps == ASSUME GrantInv, NEW g \in Grants, GrantAges(g) PROVE GrantInv'
<1>1. /\ grant' \in [Grants -> GrantRows]
      /\ \A h \in Grants : grant'[h].state = grant[h].state /\ grant'[h].by = grant[h].by
      /\ \A h \in Grants : grant[h].age = 2 => grant'[h].age = 2
  BY Typed DEF GrantAges, GrantRows
<1>2. GrantTypeOK'
  BY <1>1 DEF GrantInv, GrantTypeOK, GrantAges, Spend
<1>3. AccessEndsWithItsGround'
  BY <1>1 DEF GrantInv, AccessEndsWithItsGround, GrantAges
<1>4. Books'
  BY <1>1 DEF GrantInv, Books, CallsInOrder, RowsHaveIssuers, PoliciesWereApproved, GrantAges
<1>5. MailIsIssued' /\ HeldIsIssued' /\ DebateIsApart'
  BY <1>1 DEF GrantInv, Sides, MailIsIssued, HeldIsIssued, DebateIsApart, GrantAges
<1> QED
  BY <1>2, <1>3, <1>4, <1>5, BoundFrame DEF GrantInv, Sides, GrantAges

\* Steps of the session, the peer or the disk that leave every table of grants alone.
LEMMA QuietSteps ==
    ASSUME GrantInv, GrantTypeOK', UNCHANGED <<outcome, grant, call, policy, debate, mail, held>>,
           \A s \in Sessions : session'[s] = "closed" => session[s] = "closed",
           peer' = "gone" => peer = "gone",
           \A s \in Sessions : mirror'[s] = "closed" => mirror[s] = "closed"
    PROVE  GrantInv'
<1>1. \A g \in Grants : GrantOf[g].session \in Sessions
  BY GrantConstants
<1>2. AccessEndsWithItsGround'
  BY <1>1 DEF GrantInv, AccessEndsWithItsGround
<1>3. HeldIsIssued'
  BY <1>1 DEF GrantInv, Sides, HeldIsIssued
<1> QED
  BY <1>2, <1>3, BooksFrame, BoundFrame, MailFrame, DebateFrame DEF GrantInv, Sides

\* A step that changes neither rows, policies nor approvals keeps the invariant.
LEMMA QuietKeep ==
    ASSUME GrantInv,
           \/ PairPeer
           \/ \E g \in Grants : ResourceChanges(g)
           \/ \E s \in Sessions : SessionMoves(s) \/ HolderMoves(s)
    PROVE  GrantInv'
<1>1. CASE PairPeer
  <2>1. GrantTypeOK'
    BY <1>1 DEF GrantInv, GrantTypeOK, PairPeer, Spend
  <2> QED
    BY <1>1, <2>1, QuietSteps DEF PairPeer
<1>2. ASSUME NEW g \in Grants, ResourceChanges(g) PROVE GrantInv'
  <2>1. GrantTypeOK'
    BY <1>2 DEF GrantInv, GrantTypeOK, ResourceChanges, Spend
  <2> QED
    BY <1>2, <2>1, QuietSteps DEF ResourceChanges
<1>3. ASSUME NEW s \in Sessions, SessionMoves(s) PROVE GrantInv'
  <2>1. /\ session' \in [Sessions -> {"open", "awaiting_result", "closed"}]
        /\ \A t \in Sessions : session'[t] = "closed" => session[t] = "closed"
    BY <1>3 DEF GrantInv, GrantTypeOK, SessionMoves
  <2>2. GrantTypeOK'
    BY <1>3, <2>1 DEF GrantInv, GrantTypeOK, SessionMoves, Spend
  <2> QED
    BY <1>3, <2>1, <2>2, QuietSteps DEF SessionMoves
<1>4. ASSUME NEW s \in Sessions, HolderMoves(s) PROVE GrantInv'
  <2>1. /\ mirror' \in [Sessions -> {"open", "awaiting_result", "closed"}]
        /\ \A t \in Sessions : mirror'[t] = "closed" => mirror[t] = "closed"
    BY <1>4 DEF GrantInv, GrantTypeOK, HolderMoves
  <2>2. GrantTypeOK'
    BY <1>4, <2>1 DEF GrantInv, GrantTypeOK, HolderMoves, Spend
  <2> QED
    BY <1>4, <2>1, <2>2, QuietSteps DEF HolderMoves
<1> QED
  BY <1>1, <1>2, <1>3, <1>4

\* StartDebate reads the quarantine rule in the transaction that starts it.
LEMMA DebateStepsKeep == ASSUME GrantInv, StartDebate \/ EndDebate PROVE GrantInv'
<1>0. debate' \in BOOLEAN
  BY DEF StartDebate, EndDebate
<1>1. GrantTypeOK'
  <2>1. CASE StartDebate
    BY <1>0, <2>1 DEF GrantInv, GrantTypeOK, StartDebate, Spend
  <2>2. CASE EndDebate
    BY <1>0, <2>2 DEF GrantInv, GrantTypeOK, EndDebate
  <2> QED
    BY <2>1, <2>2
<1>2. \A g \in Grants : grant[g].age \in 0..2
  BY Typed DEF GrantRows
<1>3. DebateIsApart'
  <2>1. CASE EndDebate
    BY <2>1 DEF DebateIsApart, EndDebate
  <2>2. CASE StartDebate
    <3>1. \A g \in Grants : Sensitive(g) /\ grant[g].by # "none" => ~(grant[g].age < 2)
      BY <2>2, EverActiveIsIssued DEF GrantInv, Books, StartDebate, PeerQuarantineHoldsTx
    <3> QED
      BY <1>2, <2>2, <3>1 DEF DebateIsApart, StartDebate
  <2> QED
    BY <2>1, <2>2
<1> QED
  BY <1>1, <1>3, BooksFrame, GroundFrame, BoundFrame, MailFrame, HeldFrame
     DEF GrantInv, Sides, StartDebate, EndDebate

\* The holder: a row it holds was issued, and a closed mirror leaves none usable.
LEMMA HolderKeeps ==
    ASSUME GrantInv, GrantTypeOK', HeldIsIssued',
           \A g \in Grants : <<"grant", g>> \in mail' => <<"grant", g>> \in mail,
           UNCHANGED <<outcome, grant, call, policy, session, peer, debate>>
    PROVE  GrantInv'
<1>1. MailIsIssued'
  BY DEF GrantInv, Sides, MailIsIssued
<1> QED
  BY <1>1, BooksFrame, GroundFrame, BoundFrame, DebateFrame DEF GrantInv, Sides

\* The holder's grant handler keeps the invariant.
LEMMA ApplyGrantKeeps == ASSUME GrantInv, NEW g \in Grants, ApplyGrant(g) PROVE GrantInv'
<1>1. /\ held' \in [Grants -> {"none", "active", "revoked"}]
      /\ \A h \in Grants : h # g => held'[h] = held[h]
      /\ held'[g] = held[g] \/ (held'[g] = "active" /\ mirror[GrantOf[g].session] = "open")
  BY DEF GrantInv, GrantTypeOK, ApplyGrant
<1>2. GrantTypeOK'
  BY <1>1 DEF GrantInv, GrantTypeOK, ApplyGrant
<1>3. grant[g].by # "none"
  BY DEF GrantInv, Sides, MailIsIssued, ApplyGrant
<1>4. HeldIsIssued'
  BY <1>1, <1>3 DEF GrantInv, Sides, HeldIsIssued, ApplyGrant
<1> QED
  BY <1>2, <1>4, HolderKeeps DEF ApplyGrant

\* The holder's grant.revoke handler keeps the invariant.
LEMMA ApplyRevokeKeeps == ASSUME GrantInv, NEW g \in Grants, ApplyRevoke(g) PROVE GrantInv'
<1>1. /\ held' \in [Grants -> {"none", "active", "revoked"}]
      /\ \A h \in Grants : held'[h] = held[h] \/ (held[h] # "none" /\ held'[h] = "revoked")
  BY DEF GrantInv, GrantTypeOK, ApplyRevoke
<1>2. GrantTypeOK'
  BY <1>1 DEF GrantInv, GrantTypeOK, ApplyRevoke
<1>3. HeldIsIssued'
  BY <1>1 DEF GrantInv, Sides, HeldIsIssued, ApplyRevoke
<1> QED
  BY <1>2, <1>3, HolderKeeps DEF ApplyRevoke

\* The holder's closed session keeps the invariant.
LEMMA ApplyClosedKeeps == ASSUME GrantInv, NEW s \in Sessions, ApplyClosed(s) PROVE GrantInv'
<1>1. /\ held' \in [Grants -> {"none", "active", "revoked"}]
      /\ \A h \in Grants : \/ held'[h] = held[h] /\ (held[h] = "active" => GrantOf[h].session # s)
                           \/ held[h] # "none" /\ held'[h] = "revoked"
  BY DEF GrantInv, GrantTypeOK, ApplyClosed
<1>2. /\ mirror' \in [Sessions -> {"open", "awaiting_result", "closed"}]
      /\ \A t \in Sessions : t # s => mirror'[t] = mirror[t]
  BY DEF GrantInv, GrantTypeOK, ApplyClosed
<1>3. GrantTypeOK'
  BY <1>1, <1>2 DEF GrantInv, GrantTypeOK, ApplyClosed
<1>4. \A g \in Grants : GrantOf[g].session \in Sessions
  BY GrantConstants
<1>5. HeldIsIssued'
  BY <1>1, <1>2, <1>4 DEF GrantInv, Sides, HeldIsIssued, ApplyClosed
<1> QED
  BY <1>3, <1>5, HolderKeeps DEF ApplyClosed

-----------------------------------------------------------------------------
\* Every step of the grant handlers keeps the invariant.
LEMMA GrantNextInv == GrantInv /\ [GrantNext]_<<outcome, grantVars>> => GrantInv'
<1> SUFFICES ASSUME GrantInv, [GrantNext]_<<outcome, grantVars>> PROVE GrantInv'
  OBVIOUS
<1>1. CASE UNCHANGED <<outcome, grantVars>>
  <2>1. GrantTypeOK'
    BY <1>1 DEF GrantInv, GrantTypeOK, grantVars
  <2> QED
    BY <1>1, <2>1, BooksFrame, GroundFrame, BoundFrame, MailFrame, HeldFrame, DebateFrame
       DEF GrantInv, Sides, grantVars
<1>2. ASSUME NEW g \in Grants,
             \/ GrantCreate(g) \/ PolicyIssue(g) \/ InsertPending(g) \/ AskForGrant(g) \/ ConfirmGrant(g)
             \/ GrantRevoke(g) \/ GrantAges(g) \/ ResourceChanges(g) \/ ApplyGrant(g) \/ ApplyRevoke(g)
      PROVE  GrantInv'
  BY <1>2, GrantCreateKeeps, PolicyIssueKeeps, InsertPendingKeeps, AskForGrantKeeps, ConfirmGrantKeeps,
     GrantRevokeKeeps, GrantAgesKeeps, QuietKeep, ApplyGrantKeeps, ApplyRevokeKeeps
<1>3. ASSUME NEW p \in Policies, PolicyAdd(p) \/ ConfirmPolicy(p) \/ PolicyRemove(p) \/ PolicyEnds(p)
      PROVE  GrantInv'
  BY <1>3, PolicyAddKeeps, ConfirmPolicyKeeps, PolicyStepsKeep
<1>4. ASSUME NEW i \in Ids, RejectApproval(i) PROVE GrantInv'
  BY <1>4, RejectApprovalKeeps
<1>5. ASSUME NEW s \in Sessions,
             CloseSession(s) \/ OnClosed(s) \/ SessionMoves(s) \/ ApplyClosed(s) \/ HolderMoves(s)
      PROVE  GrantInv'
  BY <1>5, CloseSessionKeeps, OnClosedKeeps, QuietKeep, ApplyClosedKeeps
<1>6. CASE RemovePeer \/ PairPeer \/ StartDebate \/ EndDebate \/ PolicyList \/ GrantRestart
  BY <1>6, RemovePeerKeeps, QuietKeep, DebateStepsKeep, PolicyStepsKeep, GrantRestartKeeps
<1> QED
  BY <1>1, <1>2, <1>3, <1>4, <1>5, <1>6 DEF GrantNext

\* The inductive invariant holds in every state.
LEMMA GrantsAlwaysInv == GrantSpec => []GrantInv
BY GrantInitInv, GrantNextInv, PTL DEF GrantSpec

\* Closing a session and removing a peer end every access that rests on them, at
\* once and whatever a handler under way has already checked: the transactions of
\* CloseSession and RemovePeer revoke, and those that issue check again.
THEOREM AccessEnds == GrantSpec => []AccessEndsWithItsGround
<1>1. GrantInv => AccessEndsWithItsGround
  BY DEF GrantInv
<1> QED
  BY <1>1, GrantsAlwaysInv, PTL

\* scopeWithin accepts exactly the extensions of the parent's path.
LEMMA WithinIsPrefix ==
    ASSUME NEW child \in Seq(STRING), NEW parent \in Seq(STRING), scopeWithin(child, parent)
    PROVE  SubSeq(child, 1, Len(parent)) = parent
BY DEF scopeWithin

\* Every access was approved by the human, directly or through a policy that covers
\* it; debates and sensitive access stay apart; the policy limit holds; and the
\* holder's rows follow the grantor's.
THEOREM AccessGrounded == GrantSpec => []AccessHasGround
<1>1. GrantInv => AccessHasGround
  <2> SUFFICES ASSUME GrantInv PROVE AccessHasGround
    OBVIOUS
  <2>1. AccessWasApproved
    <3> SUFFICES ASSUME NEW g \in Grants, grant[g].by # "none", grant[g].by # g
                 PROVE  /\ grant[g].by \in Policies
                        /\ PolicyOf[grant[g].by].public = ~Sensitive(g)
                        /\ SubSeq(GrantOf[g].scope, 1, Len(PolicyOf[grant[g].by].scope)) = PolicyOf[grant[g].by].scope
      BY EverActiveIsIssued DEF GrantInv, Books, RowsHaveIssuers, AccessWasApproved
    <3>1. <<grant[g].by, g>> \in Covering
      BY DEF GrantInv, Books, RowsHaveIssuers
    <3>2. /\ grant[g].by \in Policies
          /\ PolicyOf[grant[g].by].public = ~Sensitive(g)
          /\ scopeWithin(GrantOf[g].scope, PolicyOf[grant[g].by].scope)
      BY <3>1 DEF Covering
    <3>3. GrantOf[g].scope \in Seq(STRING) /\ PolicyOf[grant[g].by].scope \in Seq(STRING)
      BY <3>2, GrantConstants
    <3> QED
      BY <3>2, <3>3, WithinIsPrefix
  <2>2. NoDebateBesideSensitiveAccess
    BY EverActiveIsIssued DEF GrantInv, Books, Sides, DebateIsApart, NoDebateBesideSensitiveAccess, PeerQuarantineHoldsTx
  <2>3. PoliciesAreBounded
    BY DEF GrantInv, Sides, LiveIsBounded, LivePolicies, PoliciesAreBounded, PolicyCountTx
  <2>4. HolderFollows
    BY EverActiveIsIssued DEF GrantInv, Books, Sides, HeldIsIssued, HolderFollows
  <2> QED
    BY <2>1, <2>2, <2>3, <2>4 DEF GrantInv, AccessHasGround
<1> QED
  BY <1>1, GrantsAlwaysInv, PTL

-----------------------------------------------------------------------------
(* What a step may do to a row                                             *)

\* The action properties, for one row and in terms of its issuer.
RowFollows(g) ==
    /\ grant[g].state # "active" /\ grant'[g].state = "active" =>
          /\ session[GrantOf[g].session] = "open" /\ peer = "paired"
          /\ \/ outcome[g] = "waiting" /\ outcome'[g] = "approved"
             \/ grant'[g].by \in Policies /\ policy[grant'[g].by] = "live"
    /\ grant[g].state = "revoked" =>
          /\ grant'[g].state = "revoked" \/ (call[g].at = "ask" /\ grant[g].by = "none")
          /\ grant'[g].by = grant[g].by
    /\ grant[g].state = "active" =>
          grant'[g].state \in {"active", "revoked"} /\ grant'[g].by = grant[g].by

\* A revocation revives nothing and erases no issuer.
LEMMA RevokedFollow ==
    ASSUME GrantInv, NEW S, RevokeTx(S), NEW h \in Grants PROVE RowFollows(h)
BY RevokedRows DEF RowFollows

\* Issuing under a policy follows its authority.
LEMMA IssueFollows == ASSUME GrantInv, NEW g \in Grants, PolicyIssue(g), NEW h \in Grants PROVE RowFollows(h)
<1>1. CASE grant' = grant
  BY <1>1 DEF RowFollows
<1>2. CASE recheckIssuanceTx(g) /\ recheckPolicyTx(call[g].pol) /\ InsertActiveTx(g, call[g].pol)
  <2>1. grant[g].state = "none" /\ call[g].pol \in Policies
    BY DEF GrantInv, Books, CallsInOrder, Covering, PolicyIssue
  <2>2. /\ grant'[g].state = "active" /\ grant'[g].by = call[g].pol
        /\ h # g => grant'[h] = grant[h]
    BY <1>2, Typed DEF InsertActiveTx
  <2> QED
    BY <1>2, <2>1, <2>2 DEF RowFollows, recheckIssuanceTx, recheckPolicyTx
<1> QED
  BY <1>1, <1>2 DEF PolicyIssue

\* A pending row gives no access.
LEMMA InsertFollows == ASSUME GrantInv, NEW g \in Grants, InsertPending(g), NEW h \in Grants PROVE RowFollows(h)
<1>1. grant[g].state = "none"
  BY DEF GrantInv, Books, CallsInOrder, InsertPending
<1>2. grant'[g].state = "pending_approval" /\ (h # g => grant'[h] = grant[h])
  BY Typed DEF InsertPending
<1> QED
  BY <1>1, <1>2 DEF RowFollows

\* Asking the human gives no access.
LEMMA AskFollows == ASSUME GrantInv, NEW g \in Grants, AskForGrant(g), NEW h \in Grants PROVE RowFollows(h)
<1>1. CASE grant' = grant
  BY <1>1 DEF RowFollows
<1>2. CASE Delete(g)
  <2>1. grant[g].by = "none" /\ grant[g].state # "active" /\ call[g].at = "ask"
    BY DEF GrantInv, Books, CallsInOrder, RowsHaveIssuers, AskForGrant
  <2>2. grant'[g].state = "none" /\ grant'[g].by = grant[g].by /\ (h # g => grant'[h] = grant[h])
    BY <1>2, Typed DEF Delete, GrantRows
  <2> QED
    BY <2>1, <2>2 DEF RowFollows
<1> QED
  BY <1>1, <1>2 DEF AskForGrant

\* Issuing on approval follows its authority.
LEMMA ConfirmFollows == ASSUME GrantInv, NEW g \in Grants, ConfirmGrant(g), NEW h \in Grants PROVE RowFollows(h)
<1>1. CASE grant' = grant
  BY <1>1 DEF RowFollows
<1>2. CASE GrantPrecondition(g) /\ Grant(g) /\ ActivateTx(g)
  <2>1. grant'[g].state = "active" /\ (h # g => grant'[h] = grant[h])
    BY <1>2, Typed DEF ActivateTx, GrantRows
  <2>2. outcome[g] = "waiting" /\ outcome'[g] = "approved"
    BY <1>2, Typed, IdFacts DEF Grant, Become
  <2> QED
    BY <1>2, <2>1, <2>2 DEF RowFollows, GrantPrecondition, recheckIssuanceTx
<1> QED
  BY <1>1, <1>2 DEF ConfirmGrant

\* Expiry gives no access.
LEMMA AgesFollows == ASSUME GrantInv, NEW g \in Grants, GrantAges(g), NEW h \in Grants PROVE RowFollows(h)
<1>1. grant'[h].state = grant[h].state /\ grant'[h].by = grant[h].by
  BY Typed DEF GrantAges, GrantRows
<1> QED
  BY <1>1 DEF RowFollows

\* Every step of the grant handlers treats every row as it should.
LEMMA RowsFollow ==
    ASSUME GrantInv, [GrantNext]_<<outcome, grantVars>>, NEW h \in Grants PROVE RowFollows(h)
<1>1. CASE grant' = grant
  BY <1>1 DEF RowFollows
<1>2. ASSUME NEW g \in Grants,
             \/ GrantCreate(g) \/ PolicyIssue(g) \/ InsertPending(g) \/ AskForGrant(g) \/ ConfirmGrant(g)
             \/ GrantRevoke(g) \/ GrantAges(g) \/ ResourceChanges(g) \/ ApplyGrant(g) \/ ApplyRevoke(g)
      PROVE  RowFollows(h)
  <2>1. CASE PolicyIssue(g) \/ InsertPending(g) \/ AskForGrant(g) \/ ConfirmGrant(g) \/ GrantAges(g)
    BY <2>1, IssueFollows, InsertFollows, AskFollows, ConfirmFollows, AgesFollows
  <2>2. CASE GrantRevoke(g)
    BY <2>2, RevokedFollow DEF GrantRevoke
  <2>3. CASE GrantCreate(g) \/ ResourceChanges(g) \/ ApplyGrant(g) \/ ApplyRevoke(g)
    BY <1>1, <2>3 DEF GrantCreate, ResourceChanges, ApplyGrant, ApplyRevoke
  <2> QED
    BY <1>2, <2>1, <2>2, <2>3
<1>3. ASSUME NEW p \in Policies, PolicyAdd(p) \/ ConfirmPolicy(p) \/ PolicyRemove(p) \/ PolicyEnds(p)
      PROVE  RowFollows(h)
  BY <1>1, <1>3 DEF PolicyAdd, ConfirmPolicy, PolicyRemove, PolicyEnds
<1>4. ASSUME NEW i \in Ids, RejectApproval(i) PROVE RowFollows(h)
  BY <1>1, <1>4 DEF RejectApproval
<1>5. ASSUME NEW s \in Sessions,
             CloseSession(s) \/ OnClosed(s) \/ SessionMoves(s) \/ ApplyClosed(s) \/ HolderMoves(s)
      PROVE  RowFollows(h)
  <2>1. CASE CloseSession(s)
    BY <2>1, RevokedFollow DEF CloseSession, RevokeForSessionTx
  <2>2. CASE OnClosed(s) \/ SessionMoves(s) \/ ApplyClosed(s) \/ HolderMoves(s)
    BY <1>1, <2>2 DEF OnClosed, SessionMoves, ApplyClosed, HolderMoves
  <2> QED
    BY <1>5, <2>1, <2>2
<1>6. CASE RemovePeer
  BY <1>6, RevokedFollow DEF RemovePeer, RevokeForPeerTx
<1>7. CASE PairPeer \/ StartDebate \/ EndDebate \/ PolicyList \/ GrantRestart
  BY <1>1, <1>7 DEF PairPeer, StartDebate, EndDebate, PolicyList, GrantRestart
<1> QED
  BY <1>1, <1>2, <1>3, <1>4, <1>5, <1>6, <1>7 DEF GrantNext, grantVars

\* A grant begins only under authority that stands in that very step, what was
\* revoked stays revoked with its record, and a session in which sensitive data was
\* readable stays quarantined.
THEOREM GrantsFollow == GrantSpec => GrantsFollowAuthority
<1>1. GrantInv /\ [GrantNext]_<<outcome, grantVars>>
        => [IssuedUnderStandingAuthority /\ RevokedForGood /\ QuarantineIsSticky]_<<outcome, grantVars>>
  <2> SUFFICES ASSUME GrantInv, [GrantNext]_<<outcome, grantVars>>
               PROVE  IssuedUnderStandingAuthority /\ RevokedForGood /\ QuarantineIsSticky
    OBVIOUS
  <2>1. IssuedUnderStandingAuthority
    BY RowsFollow DEF RowFollows, IssuedUnderStandingAuthority
  <2>2. RevokedForGood
    BY RowsFollow, EverActiveIsIssued DEF GrantInv, Books, RowFollows, RevokedForGood
  <2>3. QuarantineIsSticky
    <3> SUFFICES ASSUME NEW s \in Sessions, NEW g \in Grants, GrantOf[g].session = s, Sensitive(g),
                        grant[g].state = "active"
                 PROVE  QuarantineHolds(s)'
      BY DEF QuarantineIsSticky
    <3>1. grant'[g].state \in {"active", "revoked"} /\ grant'[g].by # "none"
      BY RowsFollow DEF GrantInv, Books, RowsHaveIssuers, RowFollows
    <3>2. EverActive(g)'
      BY <3>1 DEF EverActive
    <3> QED
      BY <3>2 DEF QuarantineHolds, Sensitive
  <2> QED
    BY <2>1, <2>2, <2>3
<1> QED
  BY <1>1, GrantsAlwaysInv, PTL DEF GrantSpec, GrantsFollowAuthority

-----------------------------------------------------------------------------
\* The grant handlers use the approval store as its contract allows: each of their
\* steps is a step of ApprovalContract or leaves every approval alone.
THEOREM GrantsKeepContract == GrantSpec => ContractSpec
<1>1. GrantInit => ContractInit
  BY DEF GrantInit
<1>2. ASSUME NEW i \in Ids, End(i), outcome \in [Ids -> Outcomes] PROVE EndAll({i})
  BY <1>2 DEF End, Become, EndAll
<1>3. GrantInv /\ [GrantNext]_<<outcome, grantVars>> => [ContractNext]_outcome
  <2> SUFFICES ASSUME GrantInv, [GrantNext]_<<outcome, grantVars>> PROVE ContractNext \/ outcome' = outcome
    OBVIOUS
  <2>0. /\ \A i \in Ids : Ask(i) \/ Grant(i) => ContractNext
        /\ \A i \in Ids : End(i) => ContractNext
    BY <1>2, Typed DEF ContractNext
  <2>1. ASSUME NEW g \in Grants, AskForGrant(g) \/ ConfirmGrant(g) PROVE ContractNext \/ outcome' = outcome
    BY <2>0, <2>1, IdFacts DEF AskForGrant, ConfirmGrant
  <2>2. ASSUME NEW g \in Grants,
               \/ GrantCreate(g) \/ PolicyIssue(g) \/ InsertPending(g) \/ GrantRevoke(g) \/ GrantAges(g)
               \/ ResourceChanges(g) \/ ApplyGrant(g) \/ ApplyRevoke(g)
        PROVE  outcome' = outcome
    BY <2>2 DEF GrantCreate, PolicyIssue, InsertPending, GrantRevoke, GrantAges, ResourceChanges,
                ApplyGrant, ApplyRevoke
  <2>3. ASSUME NEW p \in Policies, PolicyAdd(p) \/ ConfirmPolicy(p) PROVE ContractNext
    BY <2>0, <2>3, IdFacts DEF PolicyAdd, ConfirmPolicy
  <2>4. ASSUME NEW p \in Policies, PolicyRemove(p) \/ PolicyEnds(p) PROVE outcome' = outcome
    BY <2>4 DEF PolicyRemove, PolicyEnds
  <2>5. ASSUME NEW i \in Ids, RejectApproval(i) PROVE ContractNext
    BY <2>0, <2>5 DEF RejectApproval
  <2>6. ASSUME NEW s \in Sessions, OnClosed(s) PROVE ContractNext
    BY <2>6, IdFacts DEF OnClosed, ContractNext
  <2>7. ASSUME NEW s \in Sessions, CloseSession(s) \/ SessionMoves(s) \/ ApplyClosed(s) \/ HolderMoves(s)
        PROVE  outcome' = outcome
    BY <2>7 DEF CloseSession, SessionMoves, ApplyClosed, HolderMoves
  <2>8. CASE RemovePeer \/ PairPeer \/ StartDebate \/ EndDebate \/ PolicyList
    BY <2>8 DEF RemovePeer, PairPeer, StartDebate, EndDebate, PolicyList
  <2>9. CASE GrantRestart
    BY <2>9 DEF GrantRestart, ContractNext
  <2> QED
    BY <2>1, <2>2, <2>3, <2>4, <2>5, <2>6, <2>7, <2>8, <2>9 DEF GrantNext
<1> QED
  BY <1>1, <1>3, GrantsAlwaysInv, PTL DEF GrantSpec, ContractSpec
=============================================================================
