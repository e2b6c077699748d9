------------------------------ MODULE MCSignals ------------------------------
(***************************************************************************)
(* Four signals of one token: two share a dedupe key, two have none.        *)
(***************************************************************************)
EXTENDS Signals, TLC

CONSTANTS r1, r2, s1, s2, s3, s4, key, none, token

MCKeyOf == s1 :> key @@ s2 :> key @@ s3 :> none @@ s4 :> none
MCTokenOf == s1 :> token @@ s2 :> token @@ s3 :> token @@ s4 :> token
Symmetry == Permutations({r1, r2}) \union Permutations({s3, s4})
MCBudget == "steady" :> 2 @@ "bring-up" :> 1
=============================================================================
