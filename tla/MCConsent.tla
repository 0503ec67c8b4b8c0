------------------------------ MODULE MCConsent ------------------------------
(***************************************************************************)
(* What a human agrees to and what follows from it: approvals, and the     *)
(* grants and policies they allow.  A behaviour is one of Approval or one  *)
(* of CapabilityGrants.                                                    *)
(***************************************************************************)
EXTENDS Approval, CapabilityGrants

VARIABLE part

consentVars == <<part, approvalVars, outcome, grantVars>>

-----------------------------------------------------------------------------
MCApprovals == {"p", "q"}
\* Two approvals on the terminal, a failing write and a lockout.
Terminal == [ids |-> MCApprovals, attempts |-> 2, pending |-> 2, hourly |-> 2, wrong |-> 2, retries |-> 1,
             windows |-> 0, opens |-> 0, faults |-> 1, desktop |-> FALSE]
\* One approval, windows that come and go, a user who opens one more.
Desktop == [Terminal EXCEPT !.ids = {"p"}, !.pending = 1, !.windows = 2, !.opens = 1, !.desktop = TRUE]
\* Two windows; the first wrong code locks the store.
Lockout == [Terminal EXCEPT !.attempts = 1, !.wrong = 1, !.windows = 1, !.faults = 0, !.desktop = TRUE]
MCApprovalLimits == {Terminal, Desktop, Lockout}

-----------------------------------------------------------------------------
MCGrantOf == [g |-> [session |-> "s", path |-> "/a", scope |-> <<"x", "y">>, sensitive |-> TRUE, expires |-> 1],
              h |-> [session |-> "s", path |-> "/a", scope |-> <<"x">>, sensitive |-> FALSE, expires |-> 1]]
MCPolicyOf == [p |-> [path |-> "/a", scope |-> <<"x">>, public |-> FALSE, max |-> 1],
               q |-> [path |-> "/a", scope |-> <<>>, public |-> TRUE, max |-> 1]]
MCIds == {"g", "h", "p", "q"}
MCSessions == {"s"}
MCGrantPlans == {[asks |-> {"g"}, moves |-> 3], [asks |-> {"h"}, moves |-> 3], [asks |-> {"g", "h"}, moves |-> 1]}

-----------------------------------------------------------------------------
ConsentInit ==
    /\ part \in {"approval", "grants"}
    /\ ApprovalInit /\ GrantInit
    /\ part # "approval" => lim = Lockout
    /\ part # "grants" => call["g"].at = "idle" /\ call["h"].at = "done"

ConsentNext ==
    \/ part = "approval" /\ ApprovalNext /\ UNCHANGED <<part, outcome, grantVars>>
    \/ part = "grants" /\ GrantNext /\ UNCHANGED <<part, approvalVars>>

\* No step fairness speaks of is enabled before the first one of Approval.
ConsentSpec == ConsentInit /\ [][ConsentNext]_consentVars /\ ApprovalFairness
=============================================================================
