------------------------------ MODULE MCSession ------------------------------
(***************************************************************************)
(* What goes on inside a work session: reading through a grant, and        *)
(* debates with the gate in front of their sweep.  A behaviour is one of   *)
(* Fetch, of Debate or of DebateGate.                                      *)
(***************************************************************************)
EXTENDS Fetch, Debate, DebateGate

VARIABLE part

sessionVars == <<part, fetchVars, debateVars, gateVars>>

-----------------------------------------------------------------------------
MCFetches == {"a", "b", "c"}
Calm == [fetches |-> {"a", "b"}, perPeer |-> 2, perGrant |-> 2, rejects |-> 1, queue |-> 2, workers |-> 2,
         perSecond |-> 3, bytes |-> 9, buckets |-> 2, frags |-> 2, past |-> 0, future |-> 0,
         remember |-> 1, retries |-> 0, rows |-> 1, ticks |-> 0, hours |-> 0, faults |-> 0, dups |-> 0,
         close |-> FALSE, kinds |-> {TRUE}, changes |-> FALSE]
\* Time stamps ahead of the clock, a duplicate, and pruning.
Ahead == [Calm EXCEPT !.fetches = {"a"}, !.kinds = {FALSE}, !.future = 1, !.ticks = 2, !.dups = 1]
\* Two reads at once, at the end of the byte budget and over an hour's end.
Spending == [Calm EXCEPT !.bytes = 1, !.hours = 1]
\* A read that loses fragments, is sent again and is revoked meanwhile.
Lossy == [Calm EXCEPT !.fetches = {"a"}, !.faults = 1, !.retries = 1, !.changes = TRUE]
\* More work than the queue and the limits take, then a shutdown.
Crowded == [Calm EXCEPT !.kinds = {FALSE}, !.perPeer = 1, !.queue = 1, !.workers = 1, !.perSecond = 1,
                        !.faults = 1, !.dups = 1, !.close = TRUE]
\* Three short reads after one another and at once.
Daily == [Calm EXCEPT !.fetches = MCFetches, !.frags = 1, !.bytes = 1, !.hours = 1, !.perPeer = 1, !.workers = 1]
MCFetchLimits == {Ahead, Spending, Lossy, Crowded, Daily}

-----------------------------------------------------------------------------
OneRound == [rounds |-> 1, positions |-> {Position(1)}, moves |-> {Move({}, None)},
             points |-> {<<>>}, accepts |-> {TRUE}, constraints |-> {},
             active |-> 1, stored |-> 2, clocks |-> {2}, loses |-> 0, echoes |-> 0,
             cancels |-> FALSE]
c(by, n) == [by |-> by, n |-> n]
MCConstraints == {c(Initiator, 1), c(Respondent, 1), c(Respondent, 2)}

\* One round with every text, deadline and clock; two rounds with a revision and mail
\* in any order; constraints at the limit of one active and two stored; lost and
\* echoed mail.
EveryText == [OneRound EXCEPT !.moves = {Move({-1}, None), Move({0}, None), Move({}, <<0>>)},
                 !.points = {<<>>, <<"p">>}, !.accepts = BOOLEAN, !.clocks = {0, 2}, !.cancels = TRUE]
TwoRounds == [OneRound EXCEPT !.rounds = 2, !.moves = {Move({-1}, <<0>>), Move({0}, <<2>>), Move({}, None)}]
Constrained == [OneRound EXCEPT !.constraints = MCConstraints]
Unreliable == [OneRound EXCEPT !.loses = 2, !.echoes = 1, !.cancels = TRUE]
MCDebateLimits == {EveryText, TwoRounds, Constrained, Unreliable}

-----------------------------------------------------------------------------
SessionInit ==
    /\ part \in {"fetch", "debate", "gate"}
    /\ FetchInit /\ DebateInit /\ GateInit
    /\ part # "fetch" => fl = Ahead
    /\ part # "debate" => dlim = Unreliable
    /\ part # "gate" => noRelay

SessionNext ==
    \/ part = "fetch" /\ FetchNext /\ UNCHANGED <<part, debateVars, gateVars>>
    \/ part = "debate" /\ DebateNext /\ UNCHANGED <<part, fetchVars, gateVars>>
    \/ part = "gate" /\ GateNext /\ UNCHANGED <<part, fetchVars, debateVars>>

\* No step fairness speaks of is enabled before the first one of its module.
SessionSpec ==
    /\ SessionInit /\ [][SessionNext]_sessionVars
    /\ FetchFairness /\ DebateFairness
=============================================================================
