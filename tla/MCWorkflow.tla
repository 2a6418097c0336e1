----------------------------- MODULE MCWorkflow -----------------------------
(* b runs beside the gate, y waits for both, n runs when the gate is denied. *)
EXTENDS Workflow

CONSTANTS b, y, n, g, p1, p2

MCDeps == [s \in {b, y, n, g} |-> IF s = y THEN {b, g} ELSE {}]

\* The processes differ in nothing but their names, so p1 may be the one that begins.
MCInit == Init /\ owner = p1

MCSpec == MCInit /\ [][Next]_vars /\ Fairness
=============================================================================
