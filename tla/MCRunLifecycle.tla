--------------------------- MODULE MCRunLifecycle ---------------------------
(* Instance of RunLifecycle for TLC: two processes, the first with two     *)
(* worker slots, so a run can be claimed twice by one process.             *)
EXTENDS RunLifecycle

CONSTANTS p1, p2, s1, s2, s3, l1, r1

MCOwnerOf == [e \in Executors |-> IF e = s3 THEN p2 ELSE p1]

=============================================================================
