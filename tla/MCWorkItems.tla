----------------------------- MODULE MCWorkItems -----------------------------
(* Small instances of WorkItems for TLC.                                    *)
EXTENDS WorkItems, TLC

CONSTANTS a, b, c, x, y

Plain == [checks |-> TRUE, review |-> "waved_through"]

New(i, s) == [kind |-> "create", item |-> i, state |-> s, meta |-> Plain, actor |-> x]
Child(i, j) == [kind |-> "spawn", item |-> i, child |-> j, state |-> "planned",
                meta |-> Plain, actor |-> x]
Move(i, s, k) == [kind |-> "transition", item |-> i, to |-> s, actor |-> x, tag |-> k]
Note(i, k) == [kind |-> "append", item |-> i, actor |-> x, tag |-> k]
Wave(i, k) == [kind |-> "metadata", item |-> i, to |-> Plain, actor |-> x, tag |-> k]

\* Two items to run, one of them by two tokens; one spawns children, is finished and annotated.
MCRequests ==
    {New(a, "planned"), New(b, "planned"), New(b, "running"), Child(a, b), Child(a, c),
     Move(a, "running", ""), Move(b, "running", ""), Move(a, "done", ""),
     [Move(b, "running", "k") EXCEPT !.actor = y],
     Note(a, ""), Note(a, "k"), Wave(a, "k")}

MCMaxRate == [d \in Class |-> IF d = "lifecycle" THEN 2 ELSE 1]

Symmetry == Permutations(Conn)
=============================================================================
