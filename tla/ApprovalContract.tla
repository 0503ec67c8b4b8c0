-------------------------- MODULE ApprovalContract --------------------------
(***************************************************************************)
(* What the approval store promises to the action that waits on it         *)
(* (internal/approval, type Action): the action is performed at most once  *)
(* and only while its approval waits, or its OnReject hook runs at most    *)
(* once after the approval ended in any other way, never both.  A restart  *)
(* forgets what waits.  Approval implements this specification and         *)
(* CapabilityGrants is built on it.                                        *)
(***************************************************************************)
CONSTANT Ids

VARIABLE outcome   \* what each approval has come to

Outcomes == {"none", "waiting", "approved", "ending", "released", "forgotten"}

ContractInit == outcome = [i \in Ids |-> "none"]

Become(i, from, to) ==
    /\ outcome[i] \in from
    /\ outcome' = [outcome EXCEPT ![i] = to]

\* Create stored the row and showed the code.
Ask(i) == Become(i, {"none"}, "waiting")

\* Confirm committed the approval together with the action.
Grant(i) == Become(i, {"waiting"}, "approved")

\* The approval ended: a decision, an expiry or a lockout took it.
End(i) == Become(i, {"waiting"}, "ending")

\* Several approvals end in one step: a sweep or a lockout.
EndAll(S) ==
    /\ \A i \in S : outcome[i] = "waiting"
    /\ outcome' = [i \in Ids |-> IF i \in S THEN "ending" ELSE outcome[i]]

\* OnReject ran.
Release(i) == Become(i, {"ending"}, "released")

\* The process stopped: no code, no action and no hook survive it.
Stop ==
    outcome' = [i \in Ids |-> IF outcome[i] \in {"waiting", "ending"}
                              THEN "forgotten" ELSE outcome[i]]

ContractNext ==
    \/ \E i \in Ids : Ask(i) \/ Grant(i) \/ Release(i)
    \/ \E S \in SUBSET Ids : EndAll(S)
    \/ Stop

ContractSpec == ContractInit /\ [][ContractNext]_outcome
=============================================================================
