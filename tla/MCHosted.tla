------------------------------- MODULE MCHosted -------------------------------
(***************************************************************************)
(* What a hosted relay keeps for its clients: the bytes it has charged to  *)
(* them, and their admission and accounts.  A behaviour is one of          *)
(* RelayLedger or one of RelayAccounts.                                    *)
(***************************************************************************)
EXTENDS RelayLedger, RelayAccounts, TLC

CONSTANTS n1, n2, n3

VARIABLE part

hostedVars == <<part, ledgerVars, hostVars>>

MCPeers == {n1, n2, n3}
MCprefixOf == (n1 :> "p") @@ (n2 :> "p") @@ (n3 :> "q")

\* Pools of two or three frames: two drains that wait for each other's writes, reads
\* that fill the pool, ephemeral frames that evict a slow reader.
Load == [max |-> [k \in Kinds |-> 4], share |-> [k \in Kinds |-> 3],
         cap |-> 2, maxBytes |-> 3, reserve |-> 2, frames |-> 2, drains |-> {n3}, late |-> 2,
         sizes |-> {2}, types |-> {"mail"}, fails |-> {}, ready |-> {}, pairs |-> {<<n1, n2>>}]
MCLoads == {
    Load,
    [Load EXCEPT !.drains = {n2, n3}, !.frames = 1, !.fails = {n2}],
    [Load EXCEPT !.drains = {}, !.max["read"] = 3, !.pairs = {<<n1, n3>>, <<n2, n3>>, <<n3, n1>>}, !.frames = 3, !.late = 1],
    [Load EXCEPT !.drains = {}, !.max["ephemeral"] = 2, !.sizes = {1}, !.types = {"mail", "presence"},
                 !.ready = {n1, n2}, !.fails = {n1}, !.pairs = {<<n1, n2>>, <<n3, n2>>}, !.frames = 2]}

MChostPrefix == [k \in HKeys |-> "p"]
MCgroupOf == [x \in Accounts |-> IF x = "A" THEN "g" ELSE None]

Of(c1, c2, c3) == [x \in HConns |-> CASE x = "c1" -> c1 [] x = "c2" -> c2 [] OTHER -> c3]
BoundTo(k, x) == [j \in HKeys |-> IF j = k THEN x ELSE None]
Hosting == [conns |-> Of({"k1"}, {"k1"}, {"k2"}), ops |-> {}, binds |-> 0, bound |-> BoundTo("k1", None),
            caps |-> [prefix |-> 3, unauth |-> 2, conns |-> 2, keys |-> 2, unbound |-> 1, bound |-> 1],
            changes |-> 0, backups |-> 0, faults |-> FALSE]
Admissions == [Hosting EXCEPT !.bound = BoundTo("k1", "B")]
\* The page and relay admin change a bound key's account while it reconnects.
Races == [Hosting EXCEPT !.conns = Of({"k1"}, {"k1"}, {}), !.bound = BoundTo("k1", "A"), !.changes = 2,
            !.ops = {Change("unbind", "k1", None, None), Change("suspend", None, None, "g")}]
Failing == [Races EXCEPT !.changes = 1, !.faults = TRUE,
              !.ops = {Change("suspend", None, "A", None), Change("unsuspend", None, "A", None)}]
\* Two keys want the one place an account has.
Binding == [Hosting EXCEPT !.conns = Of({"k1"}, {}, {"k2"}), !.binds = 1, !.changes = 1,
              !.ops = {Change("account_delete", None, "A", None), Change("suspend", None, "A", None)}]
\* A key is unbound around a backup, and the backup restored.
Restoring == [Hosting EXCEPT !.conns = Of({"k1"}, {}, {}), !.bound = BoundTo("k1", "A"), !.binds = 1,
                !.changes = 1, !.backups = 1, !.ops = {Change("unbind", "k1", None, None)}]
MCHostings == {Hosting, Admissions, Races, Failing, Binding, Restoring}

HostedInit ==
    /\ part \in {"ledger", "accounts"}
    /\ LedgerInit /\ HostInit
    /\ part # "ledger" => load = CHOOSE x \in Loads : TRUE
    /\ part # "accounts" => hosting = CHOOSE x \in Hostings : TRUE

HostedNext ==
    \/ part = "ledger" /\ LedgerNext /\ UNCHANGED <<part, hostVars>>
    \/ part = "accounts" /\ HostNext /\ UNCHANGED <<part, ledgerVars>>

HostedSpec == HostedInit /\ [][HostedNext]_hostedVars /\ (part = "ledger" => LedgerFairness)

\* The same, of accounts alone.
AccountsSpec == HostedInit /\ part = "accounts" /\ [][HostedNext]_hostedVars
=============================================================================
