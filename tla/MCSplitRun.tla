----------------------------- MODULE MCSplitRun -----------------------------
(* A split in two shards.                                                  *)
EXTENDS SplitRun
=============================================================================
