-------------------------- MODULE MCHTTPConnector --------------------------
(* Small instances of HTTPConnector for TLC: two approvals about one item,  *)
(* each requested by a human the other of whom may decide it.               *)
EXTENDS HTTPConnector

CONSTANTS p1, p2, h1, h2, item

MCItemOf == [p \in {p1, p2} |-> item]
MCRequester == [p \in {p1, p2} |-> IF p = p1 THEN h1 ELSE h2]
=============================================================================
