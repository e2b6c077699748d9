------------------------------- MODULE MCFleet -------------------------------
(***************************************************************************)
(* A hub, a second relay and the home node of two commands.                *)
(***************************************************************************)
EXTENDS Fleet, TLC

CONSTANTS home, hub, relay, good, stuck

MCNode == {home, hub, relay}
MCRoutes ==
    {[direct |-> FALSE, via |-> <<relay, hub>>], [direct |-> TRUE, via |-> <<>>],
     [direct |-> FALSE, via |-> <<hub>>]}
=============================================================================
