---------------------------- MODULE MCAuditChain ----------------------------
(* Two writers on one chain. *)
EXTENDS AuditChain

CONSTANTS w1, w2, r1, n1
=============================================================================
