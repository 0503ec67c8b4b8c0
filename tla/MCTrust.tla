------------------------------- MODULE MCTrust -------------------------------
(***************************************************************************)
(* How daemons come to trust each other: pairing by code, the teams built  *)
(* on it, the links between a human's own devices and the commands that    *)
(* run over them.  A behaviour is one of Pairing, Team, DeviceLink or      *)
(* HelperRun.                                                              *)
(***************************************************************************)
EXTENDS Pairing, Team, DeviceLink, HelperRun

CONSTANTS m1, m2

VARIABLE part

trustVars == <<part, pairVars, teamVars, linkVars, helperVars>>

\* Two redemptions at B; failing disks, drops and restarts; a bad card and a wrong
\* secret; lookups that collide.
Start(host, role, codes) == [at |-> host, role |-> role, codes |-> codes]
c1 == <<"l1", "s1">>
Issuer1 == "i1" :> Start("A", "issuer", {c1})
Redeemer(id, host) == id :> Start(host, "redeemer", {c1})
Base == [badCards |-> {}, maxOutstanding |-> 2, maxPending |-> 2, limited |-> 0, disk |-> 0, drops |-> 0, restarts |-> 0]

MCPlans == {
    Base @@ [starts |-> Issuer1 @@ Redeemer("r1", "B") @@ Redeemer("r2", "B")],
    [disk |-> 1, drops |-> 1, restarts |-> 1] @@ Base @@ [starts |-> Issuer1 @@ Redeemer("r1", "B")],
    [badCards |-> {"C"}] @@ Base @@
        [starts |-> Issuer1 @@ ("r1" :> Start("B", "redeemer", {c1, <<"l1", "s9">>})) @@ Redeemer("r2", "C")],
    [limited |-> 1, maxOutstanding |-> 1] @@ Base @@
        [starts |-> Issuer1 @@ ("i2" :> Start("B", "issuer", {<<"l1", "s2">>, <<"l2", "s3">>}))
                    @@ ("i3" :> Start("B", "issuer", {<<"l3", "s4">>})) @@ Redeemer("r1", "B")]}

Life(in, kinds, n, faulty, expiry, c) ==
    [in |-> in, kinds |-> kinds, ops |-> n, faults |-> faulty, expire |-> expiry, callers |-> c]

\* Operations racing their rosters with one fault; peers removed on either side;
\* a leave and a new invitation; two callers for one approval.
MCLives == {Life({m1, m2}, {"leave", "remove", "rename", "delete"}, 2, 1, FALSE, 1),
            Life({m1, m2}, {"forget_member", "forget_owner", "remove"}, 2, 0, FALSE, 1),
            Life({m1}, {"leave", "invite"}, 3, 0, TRUE, 1),
            Life({}, {"invite", "rename"}, 2, 0, FALSE, 2)}

\* Two devices that offer each other complementary roles, around an unlink; a
\* clock that differs, a removed peer and a failing write; three devices that would
\* close a cycle; a helper asked by two controllers; a controller at its limit.
LinkCall(d, p, role) == [device |-> d, peer |-> p, role |-> role]
Linking == [calls |-> << >>, skew |-> [d \in Devices |-> 0], time |-> 0, unlinks |-> 0, removals |-> 0, failures |-> 0]
Both == "c1" :> LinkCall("a", "b", "controller") @@ "c2" :> LinkCall("b", "a", "helper")
MCLinkings == {
    [Linking EXCEPT !.calls = Both @@ "c3" :> LinkCall("a", "b", "controller"), !.unlinks = 1],
    [Linking EXCEPT !.calls = Both, !.unlinks = 1, !.time = 1],
    [Linking EXCEPT !.calls = Both, !.skew["b"] = 1, !.time = 2, !.removals = 1, !.failures = 1],
    [Linking EXCEPT !.calls = Both @@ "c3" :> LinkCall("a", "c", "helper"), !.time = 2],
    [Linking EXCEPT !.calls = "c1" :> LinkCall("a", "b", "helper") @@ "c2" :> LinkCall("a", "c", "helper")
                              @@ "c3" :> LinkCall("c", "a", "controller"), !.time = 1],
    [Linking EXCEPT !.calls = "c1" :> LinkCall("a", "b", "controller") @@ "c2" :> LinkCall("a", "c", "controller")]}

\* One command, or two or three, against each thing that ends it: a replaced scope, an
\* unlink, a crash, a failing write, an expiry, a stop.
Asks(rs) == [r \in rs |-> [ctl |-> "k", type |-> "task"]]
ScopeSet(prog, ttl) == [ctl |-> "k", prog |-> prog, types |-> {"task"}, ttl |-> ttl]
Until(t) == [prog |-> "p", types |-> {"task"}, exp |-> t]
OneRun == [asks |-> Asks({"r1"}), sets |-> << >>, ctl |-> "k", scope |-> Until(9), steps |-> {},
           outcomes |-> {"pass"}, links |-> 1, time |-> 0, faults |-> 0, stops |-> 0, crashes |-> 0]
Stopped == [OneRun EXCEPT !.stops = 1]
MCDuties == {
    [OneRun EXCEPT !.sets = "s1" :> ScopeSet("q", 9), !.steps = {"unlink", "minutes"}],
    [OneRun EXCEPT !.steps = {"clear", "remove"}, !.outcomes = {"pass", "fail", "timed out", "could not start"}],
    [OneRun EXCEPT !.asks = Asks({"r1", "r2"}), !.steps = {"unlink"}, !.crashes = 1],
    [OneRun EXCEPT !.steps = {"unlink", "closes"}, !.faults = 1],
    [OneRun EXCEPT !.faults = 2, !.crashes = 1],
    [OneRun EXCEPT !.asks = << >>, !.scope = NoScope, !.links = 2,
                   !.sets = "s1" :> ScopeSet("p", 9) @@ "s2" :> ScopeSet("q", 1), !.steps = {"unlink", "clear"}],
    [OneRun EXCEPT !.scope = Until(1), !.sets = "s1" :> ScopeSet("p", 2), !.time = 2, !.steps = {"minutes"}],
    [OneRun EXCEPT !.asks = Asks({"r1", "r2"}), !.stops = 1, !.steps = {"clear"}],
    [OneRun EXCEPT !.asks = Asks({"r1", "r2", "r3"}), !.time = 1]}
OnlyStopped == {Stopped}

TrustInit ==
    /\ part \in {"pairing", "team", "link", "run"}
    /\ PairInit /\ TeamInit /\ LinkInit /\ HelperInit
    /\ part # "pairing" => plan = CHOOSE p \in Plans : TRUE
    /\ part # "team" => life = CHOOSE l \in Lives : TRUE
    /\ part # "link" => linking = CHOOSE l \in Linkings : TRUE
    /\ part # "run" => duty = CHOOSE d \in Duties : TRUE

TrustNext ==
    \/ part = "pairing" /\ PairNext /\ UNCHANGED <<part, teamVars, linkVars, helperVars>>
    \/ part = "team" /\ TeamNext /\ UNCHANGED <<part, pairVars, linkVars, helperVars>>
    \/ part = "link" /\ LinkNext /\ UNCHANGED <<part, pairVars, teamVars, helperVars>>
    \/ part = "run" /\ HelperNext /\ UNCHANGED <<part, pairVars, teamVars, linkVars>>

\* HelperFairness, owed where commands are the part that moves: the runner's loop
\* could step from the start.  Of the other parts no fair step is enabled at rest.
RunFairness == WF_helperVars(part = "run" /\ sweepSteps) /\ WF_helperVars(part = "run" /\ loopSteps)

TrustSpec ==
    /\ TrustInit /\ [][TrustNext]_trustVars
    /\ PairFairness /\ TeamFairness /\ RunFairness

\* The same, of commands alone.
OnlyRunSpec == TrustInit /\ part = "run" /\ [][TrustNext]_trustVars
=============================================================================
