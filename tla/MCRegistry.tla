----------------------------- MODULE MCRegistry -----------------------------
(***************************************************************************)
(* One name of each kind.  The cultivar has two competing first versions,    *)
(* one of them rootstock; the tropism two competing second ones.             *)
(***************************************************************************)
EXTENDS Registry, TLC

Def(name, version, rootstock, tropismVersion, body) ==
    [name |-> name, version |-> version, rootstock |-> rootstock,
     tropism |-> [name |-> "tropism", version |-> tropismVersion], body |-> body]

T1 == Def("tropism", 1, FALSE, 0, "a")
C1 == Def("cultivar", 1, FALSE, 1, "a")
C1root == Def("cultivar", 1, TRUE, 1, "b")
P1 == Def("projection", 1, TRUE, 0, "a")
MCDefinitions ==
    {T1, Def("tropism", 2, FALSE, 0, "a"), Def("tropism", 2, FALSE, 0, "b"),
     C1, C1root, Def("cultivar", 2, FALSE, 2, "a"),
     P1, Def("projection", 2, FALSE, 0, "b"), Def("projection", 1, FALSE, 0, "malformed")}
MCSeedOrder == <<T1, C1root>>
MCProposer == "activation" :> "agent"
Symmetry == Permutations(Writers)
=============================================================================
