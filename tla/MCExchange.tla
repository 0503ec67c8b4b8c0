------------------------------ MODULE MCExchange ------------------------------
(***************************************************************************)
(* How two daemons exchange work: the relay's queue that carries their     *)
(* mail, and the request and its session.  A behaviour is one of           *)
(* RelayQueue or one of WorkRequest.                                       *)
(***************************************************************************)
EXTENDS RelayQueue, WorkRequest, TLC

VARIABLE part

exchangeVars == <<part, queueVars, workVars>>

\* The relay compares envelope ids for equality only.
IdSymmetry == Permutations(Ids)

Base == [tries |-> 1, cancels |-> 0, rounds |-> 1, seqs |-> 0, made |-> 1, stops |-> 0,
         days |-> 0, full |-> FALSE, caps |-> FALSE, run |-> FALSE, grants |-> FALSE,
         sensitive |-> FALSE, oldA |-> FALSE, oldB |-> FALSE]

\* The request alone: cancels, resends, defers and ages.
Requests == [Base EXCEPT !.tries = 2, !.cancels = 2, !.seqs = 1, !.days = 4, !.made = 0,
                         !.full = TRUE, !.caps = TRUE]
\* Two rounds of results, quarantine and approvals.
Rounds == [Base EXCEPT !.rounds = 2, !.made = 2, !.grants = TRUE]
\* The worker cancels and cancels again.
Stops == [Base EXCEPT !.stops = 2, !.grants = TRUE]
\* A run that B's own runner answers.
Runs == [Base EXCEPT !.rounds = 2, !.made = 2, !.run = TRUE]
\* A Phase 1 daemon on either side that is upgraded on the way.
Mixed == [Base EXCEPT !.made = 2, !.stops = 1, !.oldA = TRUE, !.oldB = TRUE]
OldRequester == [Base EXCEPT !.rounds = 2, !.made = 1, !.stops = 1, !.oldA = TRUE]
MCLimits == {Requests, Rounds, Stops, Runs, Mixed, OldRequester}

\* For liveness, smaller ones: no full inbox (it drops cancels for good).
LiveRequests == [Base EXCEPT !.tries = 2, !.cancels = 2, !.seqs = 1, !.days = 1, !.made = 0,
                             !.caps = TRUE]
LiveStops == [Base EXCEPT !.stops = 1]
LiveRuns == [Base EXCEPT !.rounds = 2, !.run = TRUE]
LiveMixed == [Base EXCEPT !.stops = 1, !.oldA = TRUE, !.oldB = TRUE]
MCLiveLimits == {LiveRequests, LiveStops, LiveRuns, LiveMixed}

ExchangeInit ==
    /\ part \in {"queue", "work"}
    /\ QueueInit /\ WorkInit
    /\ part # "work" => limit = CHOOSE l \in Limits : TRUE

ExchangeNext ==
    \/ part = "queue" /\ QueueNext /\ UNCHANGED <<part, workVars>>
    \/ part = "work" /\ WorkNext /\ UNCHANGED <<part, queueVars>>

ExchangeSpec == ExchangeInit /\ [][ExchangeNext]_exchangeVars

\* No step fairness speaks of is enabled before the first one of its module.
FairExchangeSpec == ExchangeSpec /\ QueueFairness /\ WorkFairness
===============================================================================
