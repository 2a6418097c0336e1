----------------------------- MODULE MCDecision -----------------------------
(* Instances of Decision for TLC: two processes, an approver on the first  *)
(* and an approver or a rejecter on the second, and a sweep on each.       *)
EXTENDS Decision

CONSTANTS p1, p2, d1, d2, j1, j2

MCProcOf == [f \in Finishers |-> IF f \in {d2, j2} THEN p2 ELSE p1]
MCVerdictOf == [d \in Deciders |-> IF d = d2 THEN "rejected" ELSE "approved"]

=============================================================================
