------------------------------ MODULE MCOutbox ------------------------------
(* Two steps of a workflow, b after a, and one process with two goroutines *)
(* beside one with a single goroutine.                                     *)
EXTENDS Outbox

CONSTANTS a, b, p1, p2, s1, s2

MCFollows == [x \in Steps |-> IF x = b THEN Steps \ {b} ELSE {}]
MCOwnerOf == [s \in Slots |-> IF s = s1 \/ s = s2 THEN p1 ELSE p2]
=============================================================================
