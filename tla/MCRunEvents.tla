---------------------------- MODULE MCRunEvents ----------------------------
(* Two processes move the run and one sweeps the ledgers.                  *)
EXTENDS RunEvents
=============================================================================
