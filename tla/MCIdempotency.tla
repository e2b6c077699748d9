---------------------------- MODULE MCIdempotency ----------------------------
(* Small instances of Idempotency for TLC.                                  *)
EXTENDS Idempotency, TLC

\* Requests differ only in what they are sent with, and Init gives them every
\* combination of that.
Symmetry == Permutations(Req)
=============================================================================
