----------------------------- MODULE Selections -----------------------------
(***************************************************************************)
(* What a filtering loop or a query with an order keeps of a list.         *)
(***************************************************************************)
EXTENDS Naturals, Sequences

\* The elements of s that are in T, in their order.
Keep(s, T) ==
    LET keep[n \in 0..Len(s)] ==
            IF n = 0 THEN <<>>
            ELSE IF s[n] \in T THEN Append(keep[n - 1], s[n]) ELSE keep[n - 1]
    IN  keep[Len(s)]
=============================================================================
