------------------------------ MODULE MCWorker ------------------------------
(***************************************************************************)
(* One item, its children, and what owners and agents do to them.          *)
(***************************************************************************)
EXTENDS Worker, TLC

Passes == [kind |-> "check", pass |-> "pass", score |-> 1]
Fails == [kind |-> "check", pass |-> "fail", score |-> 0]

MCReadings == {Passes, Fails}
MCMoves == {<<"item", "running">>, <<"item", "failed">>, <<"review", "running">>}
=============================================================================
