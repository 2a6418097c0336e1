---------------------------- MODULE ApprovalGate ----------------------------
(***************************************************************************)
(* What the decision protocol promises of a run held for approval: one     *)
(* decision claims it, that decision is recorded, and only then is the run *)
(* released or refused; a run nobody has decided may be closed by a        *)
(* cancel.  A claimed run is always decided in the end.                    *)
(***************************************************************************)
CONSTANTS Deciders, VerdictOf

VARIABLES gate, winner, recorded

NoWinner == "no decision"

gateVars == <<gate, winner, recorded>>

Init == gate = "waiting" /\ winner = NoWinner /\ recorded = FALSE

Decide(d) == gate = "waiting" /\ gate' = "claimed" /\ winner' = d /\ UNCHANGED recorded

Record == gate = "claimed" /\ ~recorded /\ recorded' = TRUE /\ UNCHANGED <<gate, winner>>

Settle ==
  /\ gate = "claimed" /\ recorded
  /\ gate' = IF VerdictOf[winner] = "approved" THEN "released" ELSE "refused"
  /\ UNCHANGED <<winner, recorded>>

Close == gate = "waiting" /\ gate' = "closed" /\ UNCHANGED <<winner, recorded>>

Next == (\E d \in Deciders : Decide(d)) \/ Record \/ Settle \/ Close

Spec == Init /\ [][Next]_gateVars

FairSpec == Spec /\ WF_gateVars(Record) /\ WF_gateVars(Settle)
=============================================================================
