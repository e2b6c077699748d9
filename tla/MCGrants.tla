------------------------------ MODULE MCGrants ------------------------------
(***************************************************************************)
(* Three work items, an agent with write access to the whole tree, and two  *)
(* grants, so that the second may be asked for with the token that the       *)
(* first one made.  The children are interchangeable, and so are the grants. *)
(***************************************************************************)
EXTENDS Grants, TLC

CONSTANTS i1, i2, i3, agent, g1, g2, root

MCMintedAs ==
    agent :> [source |-> "agent", scopes |-> {"read", "write", "assigned", i1}]
MCAsks ==
    {[template |-> "same_tree_read_progress", scopes |-> {}],
     [template |-> "same_tree_worker", scopes |-> {}],
     [template |-> "other", scopes |-> {"read_all"}]}
MCMaxDepth == i1 :> 1 @@ i2 :> 1 @@ i3 :> 1
Symmetry == Permutations({g1, g2}) \union Permutations({i2, i3})
=============================================================================
