-------------------------- MODULE SchedulerProofs --------------------------
(***************************************************************************)
(* Proofs about Scheduler, for every set of servers, every number of       *)
(* occurrences and every number of faults and changes.                     *)
(***************************************************************************)
EXTENDS Scheduler, TLAPS

\* A server about to clear a mark has recorded the occurrence, or gave it up the one way or the other.
SettleInv ==
  \A s \in Servers :
    /\ pc[s] = "settle" => due[s] \in recorded \cup handedBack \cup unrecorded
    /\ pc[s] = "note" => due[s] \in handedBack

\* A server that fires, records or hands back an occurrence, as against one still to claim it.
Firing(s) == pc[s] \notin {"idle", "list", "overlap", "own", "pass", "claim", "claimRun"}

\* A tick is never ahead of the clock, so neither is what it lists; what it fires was claimed.
TickInv ==
  \A s \in Servers : tnow[s] <= now /\ due[s] <= now /\ (Firing(s) => due[s] \in claimed)

\* The inductive invariant.
IndInv == TypeOK /\ KeepsToRecurrence /\ TickInv /\ ClaimedIsKept /\ SettleInv

\* NextFireAfter stays on the recurrence.
LEMMA NextFireType == ASSUME NEW t \in 0..N PROVE NextFireAfter(t) \in Times
  BY ConstantsAssumption DEF NextFireAfter, Times, Occurrences, Never

\* A stored schedule no server has looked at satisfies the inductive invariant.
LEMMA InitInv == Init => IndInv
<1> SUFFICES ASSUME Init PROVE IndInv
  OBVIOUS
<1>1. HandOK
  BY ConstantsAssumption DEF Init, HandOK, Times, Never, Steps
<1>2. now \in 0..N /\ faults \in Nat
  BY ConstantsAssumption DEF Init
<1>3. next \in Times /\ mark \in Times
  BY ConstantsAssumption DEF Init, Times, Occurrences, Never
<1>4. KeepsToRecurrence /\ TickInv
  BY ConstantsAssumption DEF Init, KeepsToRecurrence, TickInv, Firing, Never
<1>5. TypeOK
  BY <1>1, <1>2, <1>3 DEF Init, TypeOK
<1> QED
  BY <1>4, <1>5 DEF Init, IndInv, ClaimedIsKept, SettleInv

\* The budget of faults stays a natural number.
LEMMA FaultType == ASSUME faults \in Nat, Fault PROVE faults' \in Nat
  BY DEF Fault

\* A tick that ends leaves a server with nothing in hand.
LEMMA EndTickHand == ASSUME HandOK, NEW s \in Servers, EndTick(s) PROVE HandOK'
<1>1. 0 \in 0..N
  BY ConstantsAssumption
<1> QED
  BY <1>1 DEF HandOK, EndTick, Goto, Steps, Times, Never

\* So does the end of the work on one occurrence.
LEMMA DoneHand == ASSUME HandOK, NEW s \in Servers, Done(s) PROVE HandOK'
<1>1. CASE swept[s]
  BY <1>1 DEF HandOK, Done, Goto, Steps, Times, Never
<1> QED
  BY <1>1, EndTickHand DEF Done

\* A server with an occurrence in hand keeps it from step to step.
LEMMA GotoHand ==
  ASSUME HandOK, NEW s \in Servers, NEW l \in Steps \ {"idle", "list"},
         pc[s] \notin {"idle", "list"}, Goto(s, l), Hold(s)
  PROVE  HandOK'
  BY DEF HandOK, Goto, Hold

\* What a server has in hand is an occurrence.
LEMMA InHand ==
  ASSUME HandOK, NEW s \in Servers, pc[s] \notin {"idle", "list"}
  PROVE  due[s] \in Occurrences
  BY DEF HandOK, Times

\* No step of a server breaks a type.
LEMMA ServerTypeStep ==
  ASSUME IndInv, NEW s \in Servers, ServerStep(s) \/ ServerFault(s)
  PROVE  TypeOK'
<1> USE DEF IndInv, TypeOK
<1>a. Never \in Times /\ Occurrences \subseteq Times
  BY DEF Times
<1>1. CASE Tick(s)
  <2>1. HandOK'
    BY <1>1, <1>a DEF Tick, Goto, HandOK, Steps, Times
  <2> QED
    BY <1>1, <2>1 DEF Tick, runVars, hist
<1>2. CASE TakeUp(s)
  <2>1. HandOK'
    BY <1>2, DoneHand, GotoHand DEF TakeUp, Steps
  <2>2. faults' \in Nat
    BY <1>2, FaultType DEF TakeUp
  <2> QED
    BY <1>2, <2>1, <2>2 DEF TakeUp, rowVars, runVars, hist
<1>3. CASE FindRun(s)
  <2>1. HandOK'
    BY <1>3, DoneHand, GotoHand DEF FindRun, Steps
  <2>2. faults' \in Nat
    BY <1>3, FaultType DEF FindRun
  <2> QED
    BY <1>3, <2>1, <2>2 DEF FindRun, rowVars, runVars, hist
<1>4. CASE List(s)
  <2>1. HandOK'
    BY <1>4, EndTickHand DEF List, Goto, HandOK, Steps
  <2>2. faults' \in Nat
    BY <1>4, FaultType DEF List
  <2> QED
    BY <1>4, <2>1, <2>2 DEF List, rowVars, runVars, hist
<1>5. CASE Overlap(s)
  <2>1. HandOK'
    BY <1>5, GotoHand DEF Overlap, Steps
  <2>2. faults' \in Nat
    BY <1>5, FaultType DEF Overlap
  <2> QED
    BY <1>5, <2>1, <2>2 DEF Overlap, rowVars, runVars, hist
<1>6. CASE OwnRun(s)
  <2>1. HandOK'
    BY <1>6, GotoHand DEF OwnRun, Steps
  <2>2. faults' \in Nat
    BY <1>6, FaultType DEF OwnRun
  <2> QED
    BY <1>6, <2>1, <2>2 DEF OwnRun, rowVars, runVars, hist
<1>7. CASE PassOver(s)
  <2>1. HandOK'
    BY <1>7, EndTickHand DEF PassOver, Steps
  <2>2. faults' \in Nat
    BY <1>7, FaultType DEF PassOver
  <2>3. next' \in Times /\ mark' \in Times
    BY <1>7, <1>a, NextFireType DEF PassOver, ClaimDue, HandOK
  <2> QED
    BY <1>7, <2>1, <2>2, <2>3 DEF PassOver, runVars, hist
<1>8. CASE ClaimFire(s)
  <2>1. HandOK'
    BY <1>8, GotoHand DEF ClaimFire, Steps
  <2>2. next' \in Times /\ mark' \in Times
    BY <1>8, <1>a, NextFireType DEF ClaimFire, TakeClaim, HandOK
  <2>3. claimed' \in SUBSET Occurrences /\ recorded' \in SUBSET Occurrences /\ handedBack' \in
     SUBSET Occurrences /\ unrecorded' \in SUBSET Occurrences
    BY <1>8, InHand DEF ClaimFire, TakeClaim
  <2> QED
    BY <1>8, <2>1, <2>2, <2>3 DEF ClaimFire, TakeClaim, runVars
<1>9. CASE ClaimLost(s)
  <2>1. HandOK'
    BY <1>9, EndTickHand DEF ClaimLost, Steps
  <2> QED
    BY <1>9, <2>1 DEF ClaimLost, rowVars, runVars, hist
<1>10. CASE FireFails(s)
  <2>1. HandOK'
    BY <1>10, GotoHand DEF FireFails, Steps
  <2> QED
    BY <1>10, <2>1 DEF FireFails, rowVars, runVars, hist
<1>11. CASE IdempotentLookup(s)
  <2>1. HandOK'
    BY <1>11, GotoHand DEF IdempotentLookup, Steps
  <2> QED
    BY <1>11, <2>1 DEF IdempotentLookup, rowVars, runVars, hist
<1>12. CASE IdempotentSave(s)
  <2>1. HandOK'
    BY <1>12, GotoHand DEF IdempotentSave, Steps
  <2>2. saved' \in SUBSET Occurrences /\ active' \in SUBSET Occurrences
    BY <1>12, InHand DEF IdempotentSave, SaveRun, runVars
  <2> QED
    BY <1>12, <2>1, <2>2 DEF IdempotentSave, runVars, rowVars, hist
<1>13. CASE Failed(s)
  <2>1. HandOK'
    BY <1>13, DoneHand, GotoHand DEF Failed, Steps
  <2> QED
    BY <1>13, <2>1 DEF Failed, rowVars, runVars, hist
<1>14. CASE RecordFire(s)
  <2>1. HandOK'
    BY <1>14, DoneHand, GotoHand DEF RecordFire, Steps
  <2>2. faults' \in Nat
    BY <1>14, FaultType DEF RecordFire
  <2>3. claimed' \in SUBSET Occurrences /\ recorded' \in SUBSET Occurrences /\ handedBack' \in
     SUBSET Occurrences /\ unrecorded' \in SUBSET Occurrences
    BY <1>14, InHand DEF RecordFire
  <2> QED
    BY <1>14, <2>1, <2>2, <2>3 DEF RecordFire, rowVars, runVars
<1>15. CASE Skip(s)
  <2>1. HandOK'
    BY <1>15, GotoHand DEF Skip, Steps
  <2>2. faults' \in Nat
    BY <1>15, FaultType DEF Skip
  <2>3. claimed' \in SUBSET Occurrences /\ recorded' \in SUBSET Occurrences /\ handedBack' \in
     SUBSET Occurrences /\ unrecorded' \in SUBSET Occurrences
    BY <1>15, InHand DEF Skip
  <2> QED
    BY <1>15, <2>1, <2>2, <2>3 DEF Skip, rowVars, runVars
<1>16. CASE Settle(s)
  <2>1. HandOK'
    BY <1>16, DoneHand DEF Settle, Steps
  <2>2. faults' \in Nat
    BY <1>16, FaultType DEF Settle
  <2>3. next' \in Times /\ mark' \in Times
    BY <1>16, <1>a, NextFireType DEF Settle, HandOK
  <2> QED
    BY <1>16, <2>1, <2>2, <2>3 DEF Settle, runVars, hist
<1>17. CASE Release(s)
  <2>1. HandOK'
    BY <1>17, GotoHand DEF Release, Steps
  <2>2. faults' \in Nat
    BY <1>17, FaultType DEF Release
  <2>3. next' \in Times /\ mark' \in Times
    BY <1>17, <1>a, NextFireType DEF Release, HandOK
  <2>4. claimed' \in SUBSET Occurrences /\ recorded' \in SUBSET Occurrences /\ handedBack' \in
     SUBSET Occurrences /\ unrecorded' \in SUBSET Occurrences
    BY <1>17, InHand DEF Release
  <2> QED
    BY <1>17, <2>1, <2>2, <2>3, <2>4 DEF Release, runVars
<1>18. CASE Note(s)
  <2>1. HandOK'
    BY <1>18, DoneHand, GotoHand DEF Note, Steps
  <2>2. faults' \in Nat
    BY <1>18, FaultType DEF Note
  <2> QED
    BY <1>18, <2>1, <2>2 DEF Note, rowVars, runVars, hist
<1>19. CASE Restart(s)
  <2> QED
    BY <1>19 DEF Restart, rowVars, runVars, hist, HandOK
<1>20. CASE TickSweepFails(s)
  <2>1. HandOK'
    BY <1>20, <1>a DEF TickSweepFails, Goto, HandOK, Steps, Times
  <2>2. faults' \in Nat
    BY <1>20, FaultType DEF TickSweepFails
  <2> QED
    BY <1>20, <2>1, <2>2 DEF TickSweepFails, runVars, hist
<1>21. CASE ClaimFails(s)
  <2>1. HandOK'
    BY <1>21, EndTickHand DEF ClaimFails, Steps
  <2>2. faults' \in Nat
    BY <1>21, FaultType DEF ClaimFails
  <2>3. next' \in Times /\ mark' \in Times
    BY <1>21, <1>a, NextFireType DEF ClaimFails, TakeClaim, HandOK
  <2>4. claimed' \in SUBSET Occurrences /\ recorded' \in SUBSET Occurrences /\ handedBack' \in
     SUBSET Occurrences /\ unrecorded' \in SUBSET Occurrences
    BY <1>21, InHand DEF ClaimFails, TakeClaim
  <2> QED
    BY <1>21, <2>1, <2>2, <2>3, <2>4 DEF ClaimFails, TakeClaim, runVars
<1>22. CASE SaveAnswerLost(s)
  <2>1. HandOK'
    BY <1>22, GotoHand DEF SaveAnswerLost, Steps
  <2>2. faults' \in Nat
    BY <1>22, FaultType DEF SaveAnswerLost
  <2>3. saved' \in SUBSET Occurrences /\ active' \in SUBSET Occurrences
    BY <1>22, InHand DEF SaveAnswerLost, SaveRun, runVars
  <2> QED
    BY <1>22, <2>1, <2>2, <2>3 DEF SaveAnswerLost, runVars, rowVars, hist
<1>23. CASE Stop(s)
  <2>1. faults' \in Nat
    BY <1>23, FaultType DEF Stop
  <2> QED
    BY <1>23, <2>1 DEF Stop, rowVars, runVars, hist, HandOK
<1>24. CASE Crash(s)
  <2>1. HandOK'
    BY <1>24, EndTickHand DEF Crash, Steps
  <2>2. faults' \in Nat
    BY <1>24, FaultType DEF Crash
  <2> QED
    BY <1>24, <2>1, <2>2 DEF Crash, rowVars, runVars, hist
<1> QED
  BY <1>1, <1>2, <1>3, <1>4, <1>5, <1>6, <1>7, <1>8, <1>9, <1>10, <1>11, <1>12, <1>13, <1>14,
     <1>15, <1>16, <1>17, <1>18, <1>19, <1>20, <1>21, <1>22, <1>23, <1>24 DEF ServerStep,
     ServerFault

\* A server clears a mark only when the occurrence is settled, and replaces none.
LEMMA ServerSafetyStep ==
  ASSUME IndInv, TypeOK', NEW s \in Servers, ServerStep(s) \/ ServerFault(s)
  PROVE  ClaimedIsKept' /\ SettleInv'
<1> USE DEF IndInv, TypeOK, HandOK, ClaimedIsKept, SettleInv, Accounted
<1>a. Never \notin Occurrences
  BY DEF Never, Occurrences
<1>1. CASE Tick(s)
  BY <1>1 DEF Tick, Goto, runVars, hist
<1>2. CASE TakeUp(s)
  BY <1>2 DEF TakeUp, Goto, Done, EndTick, Hold, Fault, rowVars, runVars, hist
<1>3. CASE FindRun(s)
  BY <1>3 DEF FindRun, Goto, Done, EndTick, Hold, Fault, rowVars, runVars, hist
<1>4. CASE List(s)
  BY <1>4 DEF List, Goto, EndTick, Fault, rowVars, runVars, hist
<1>5. CASE Overlap(s)
  BY <1>5 DEF Overlap, Goto, Hold, Fault, rowVars, runVars, hist
<1>6. CASE OwnRun(s)
  BY <1>6 DEF OwnRun, Goto, Hold, Fault, rowVars, runVars, hist
<1>7. CASE PassOver(s)
  BY <1>7 DEF PassOver, EndTick, Goto, Fault, ClaimDue, runVars, hist
<1>8. CASE ClaimFire(s)
  BY <1>8, <1>a DEF ClaimFire, Goto, Hold, ClaimWins, TakeClaim, runVars
<1>9. CASE ClaimLost(s)
  BY <1>9 DEF ClaimLost, EndTick, Goto, ClaimWins, rowVars, runVars, hist
<1>10. CASE FireFails(s)
  BY <1>10 DEF FireFails, Goto, Hold, rowVars, runVars, hist
<1>11. CASE IdempotentLookup(s)
  BY <1>11 DEF IdempotentLookup, Goto, Hold, rowVars, runVars, hist
<1>12. CASE IdempotentSave(s)
  BY <1>12 DEF IdempotentSave, Goto, Hold, SaveRun, runVars, rowVars, hist
<1>13. CASE Failed(s)
  BY <1>13 DEF Failed, Goto, Done, EndTick, Hold, rowVars, runVars, hist
<1>14. CASE RecordFire(s)
  BY <1>14 DEF RecordFire, Goto, Done, EndTick, Hold, Fault, rowVars, runVars
<1>15. CASE Skip(s)
  BY <1>15 DEF Skip, Goto, Hold, Fault, rowVars, runVars
<1>16. CASE Settle(s)
  BY <1>16 DEF Settle, Done, Goto, EndTick, Fault, runVars, hist
<1>17. CASE Release(s)
  BY <1>17 DEF Release, Goto, Hold, Fault, Releasable, runVars
<1>18. CASE Note(s)
  BY <1>18 DEF Note, Goto, Done, EndTick, Hold, Fault, rowVars, runVars, hist
<1>19. CASE Restart(s)
  BY <1>19 DEF Restart, rowVars, runVars, hist
<1>20. CASE TickSweepFails(s)
  BY <1>20 DEF TickSweepFails, Goto, Fault, runVars, hist
<1>21. CASE ClaimFails(s)
  BY <1>21, <1>a DEF ClaimFails, EndTick, Goto, Fault, ClaimWins, TakeClaim, runVars
<1>22. CASE SaveAnswerLost(s)
  BY <1>22 DEF SaveAnswerLost, Goto, Hold, Fault, SaveRun, runVars, rowVars, hist
<1>23. CASE Stop(s)
  BY <1>23 DEF Stop, Fault, rowVars, runVars, hist
<1>24. CASE Crash(s)
  BY <1>24 DEF Crash, EndTick, Goto, Fault, rowVars, runVars, hist
<1> QED
  BY <1>1, <1>2, <1>3, <1>4, <1>5, <1>6, <1>7, <1>8, <1>9, <1>10, <1>11, <1>12, <1>13, <1>14,
     <1>15, <1>16, <1>17, <1>18, <1>19, <1>20, <1>21, <1>22, <1>23, <1>24 DEF ServerStep,
     ServerFault

\* The first occurrence after a tick is due, or the next to come due; none is left only at the end.
LEMMA NextFireBound ==
  ASSUME NEW t \in 0..N, now \in 0..N, t <= now
  PROVE  IF NextFireAfter(t) = Never THEN now = N ELSE NextFireAfter(t) <= now + 1
  BY ConstantsAssumption DEF NextFireAfter, Never

\* A server fires what it claimed, claims what it listed, and lists what its tick found due; a claim
\* moves the schedule by the tick's time and a hand back to what was claimed.
LEMMA ServerTimeStep ==
  ASSUME IndInv, TypeOK', NEW s \in Servers, ServerStep(s) \/ ServerFault(s)
  PROVE  KeepsToRecurrence' /\ TickInv'
<1> USE DEF IndInv, TypeOK, HandOK, KeepsToRecurrence, TickInv, Firing
<1>a. Never \notin Occurrences /\ (\A o \in Occurrences : o \in Nat) /\ Never = 0 /\ N \in Nat
  BY ConstantsAssumption DEF Never, Occurrences
<1>b. IF NextFireAfter(tnow[s]) = Never THEN now = N ELSE NextFireAfter(tnow[s]) <= now + 1
  BY NextFireBound
<1>1. CASE Tick(s)
  BY <1>1, <1>a DEF Tick, Goto, runVars, hist
<1>2. CASE TakeUp(s)
  BY <1>2, <1>a DEF TakeUp, Goto, Done, EndTick, Hold, Fault, rowVars, runVars, hist
<1>3. CASE FindRun(s)
  BY <1>3, <1>a DEF FindRun, Goto, Done, EndTick, Hold, Fault, rowVars, runVars, hist
<1>4. CASE List(s)
  <2>1. CASE next <= tnow[s] /\ due' = [due EXCEPT ![s] = next] /\ Goto(s, "overlap")
             /\ UNCHANGED tnow
    <3>1. next <= now
      BY <2>1, <1>a DEF Times
    <3> QED
      BY <1>4, <2>1, <3>1 DEF List, Goto, rowVars, runVars, hist
  <2>2. CASE EndTick(s)
    BY <1>4, <2>2, <1>a DEF List, Goto, EndTick, rowVars, runVars, hist
  <2> QED
    BY <1>4, <2>1, <2>2 DEF List
<1>5. CASE Overlap(s)
  BY <1>5, <1>a DEF Overlap, Goto, Hold, Fault, rowVars, runVars, hist
<1>6. CASE OwnRun(s)
  BY <1>6, <1>a DEF OwnRun, Goto, Hold, Fault, rowVars, runVars, hist
<1>7. CASE PassOver(s)
  BY <1>7, <1>a, <1>b DEF PassOver, EndTick, Goto, Fault, ClaimDue, runVars, hist
<1>8. CASE ClaimFire(s)
  BY <1>8, <1>a, <1>b DEF ClaimFire, Goto, Hold, ClaimWins, TakeClaim, runVars
<1>9. CASE ClaimLost(s)
  BY <1>9, <1>a DEF ClaimLost, EndTick, Goto, ClaimWins, rowVars, runVars, hist
<1>10. CASE FireFails(s)
  BY <1>10, <1>a DEF FireFails, Goto, Hold, rowVars, runVars, hist
<1>11. CASE IdempotentLookup(s)
  BY <1>11, <1>a DEF IdempotentLookup, Goto, Hold, rowVars, runVars, hist
<1>12. CASE IdempotentSave(s)
  BY <1>12, <1>a DEF IdempotentSave, Goto, Hold, SaveRun, rowVars, hist
<1>13. CASE Failed(s)
  BY <1>13, <1>a DEF Failed, Goto, Done, EndTick, Hold, rowVars, runVars, hist
<1>14. CASE RecordFire(s)
  BY <1>14, <1>a DEF RecordFire, Goto, Done, EndTick, Hold, Fault, rowVars, runVars
<1>15. CASE Skip(s)
  BY <1>15, <1>a DEF Skip, Goto, Hold, Fault, rowVars, runVars
<1>16. CASE Settle(s)
  BY <1>16, <1>a DEF Settle, Done, Goto, EndTick, Fault, runVars, hist
<1>17. CASE Release(s)
  BY <1>17, <1>a DEF Release, Goto, Hold, Fault, Releasable, runVars
<1>18. CASE Note(s)
  BY <1>18, <1>a DEF Note, Goto, Done, EndTick, Hold, Fault, rowVars, runVars, hist
<1>19. CASE Restart(s)
  BY <1>19, <1>a DEF Restart, rowVars, runVars, hist
<1>20. CASE TickSweepFails(s)
  BY <1>20, <1>a DEF TickSweepFails, Goto, Fault, runVars, hist
<1>21. CASE ClaimFails(s)
  BY <1>21, <1>a, <1>b DEF ClaimFails, EndTick, Goto, Fault, ClaimWins, TakeClaim, runVars
<1>22. CASE SaveAnswerLost(s)
  BY <1>22, <1>a DEF SaveAnswerLost, Goto, Hold, Fault, SaveRun, rowVars, hist
<1>23. CASE Stop(s)
  BY <1>23, <1>a DEF Stop, Fault, rowVars, runVars, hist
<1>24. CASE Crash(s)
  BY <1>24, <1>a DEF Crash, EndTick, Goto, Fault, rowVars, runVars, hist
<1> QED
  BY <1>1, <1>2, <1>3, <1>4, <1>5, <1>6, <1>7, <1>8, <1>9, <1>10, <1>11, <1>12, <1>13, <1>14,
     <1>15, <1>16, <1>17, <1>18, <1>19, <1>20, <1>21, <1>22, <1>23, <1>24 DEF ServerStep,
     ServerFault

\* Nothing outside the servers breaks the invariant: a deleted schedule owes nothing.
LEMMA WorldStep ==
  ASSUME IndInv, TimePasses \/ MarkAges \/ (\E o \in Occurrences : RunEnds(o)) \/ Edit \/ Delete
  PROVE  TypeOK' /\ ClaimedIsKept' /\ SettleInv'
<1> USE DEF IndInv, TypeOK, HandOK, ClaimedIsKept, SettleInv, Accounted
<1>1. CASE TimePasses
  <2>1. now' \in 0..N
    BY <1>1, ConstantsAssumption DEF TimePasses
  <2> QED
    BY <1>1, <2>1 DEF TimePasses, rowVars, runVars, srvVars, hist
<1>2. CASE MarkAges
  BY <1>2 DEF MarkAges, runVars, srvVars, hist
<1>3. CASE \E o \in Occurrences : RunEnds(o)
  BY <1>3 DEF RunEnds, rowVars, srvVars, hist
<1>4. CASE Edit
  <2>1. next' \in Times
    <3>1. PICK t \in 0..now : next' = NextFireAfter(t)
      BY <1>4 DEF Edit
    <3>2. t \in 0..N
      BY <3>1, ConstantsAssumption
    <3> QED
      BY <3>1, <3>2, NextFireType
  <2>2. faults' \in Nat
    BY <1>4, FaultType DEF Edit
  <2> QED
    BY <1>4, <2>1, <2>2 DEF Edit, runVars, srvVars, hist
<1>5. CASE Delete
  <2>1. faults' \in Nat
    BY <1>5, FaultType DEF Delete
  <2>2. Never \in Times
    BY DEF Times
  <2> QED
    BY <1>5, <2>1, <2>2 DEF Delete, runVars, srvVars, hist
<1> QED
  BY <1>1, <1>2, <1>3, <1>4, <1>5

\* An edit moves the schedule by a clock that was right when it was read; time passing makes nothing
\* early.
LEMMA WorldTimeStep ==
  ASSUME IndInv, TimePasses \/ MarkAges \/ (\E o \in Occurrences : RunEnds(o)) \/ Edit \/ Delete
  PROVE  KeepsToRecurrence' /\ TickInv'
<1> USE DEF IndInv, TypeOK, HandOK, KeepsToRecurrence, TickInv, Firing
<1>a. N \in Nat /\ Never = 0 /\ (\A o \in Occurrences \cup {Never} : o \in Nat /\ o <= N)
  BY ConstantsAssumption DEF Never, Occurrences
<1>1. CASE TimePasses
  BY <1>1, <1>a DEF TimePasses, rowVars, runVars, srvVars, hist, Times
<1>2. CASE MarkAges
  BY <1>2 DEF MarkAges, runVars, srvVars, hist
<1>3. CASE \E o \in Occurrences : RunEnds(o)
  BY <1>3 DEF RunEnds, rowVars, srvVars, hist
<1>4. CASE Edit
  <2>1. PICK t \in 0..now : next' = NextFireAfter(t) /\ next' # Never
    BY <1>4 DEF Edit
  <2>2. t \in 0..N /\ t <= now
    BY <2>1, <1>a
  <2>3. next' <= now + 1
    BY <2>1, <2>2, NextFireBound
  <2> QED
    BY <1>4, <2>1, <2>3 DEF Edit, runVars, srvVars, hist
<1>5. CASE Delete
  BY <1>5 DEF Delete, runVars, srvVars, hist
<1> QED
  BY <1>1, <1>2, <1>3, <1>4, <1>5

\* The invariant is inductive.
LEMMA NextInv == ASSUME IndInv, [Next]_vars PROVE IndInv'
<1>1. ASSUME NEW s \in Servers, ServerStep(s) \/ ServerFault(s) PROVE IndInv'
  BY <1>1, ServerTypeStep, ServerSafetyStep, ServerTimeStep DEF IndInv
<1>2. CASE UNCHANGED vars
  BY <1>2 DEF vars, rowVars, runVars, srvVars, hist, IndInv, TypeOK, HandOK,
     KeepsToRecurrence, TickInv, Firing, ClaimedIsKept, SettleInv, Accounted
<1> QED
  BY <1>1, <1>2, WorldStep, WorldTimeStep DEF Next, IndInv

\* Every state of the scheduler satisfies the inductive invariant.
THEOREM Invariance == Spec => []IndInv
  BY InitInv, NextInv, PTL DEF Spec

\* The variables keep their types (Schedule rows, marks and servers' ticks).
THEOREM TypeCorrect == Spec => []TypeOK
<1>1. IndInv => TypeOK
  BY DEF IndInv
<1> QED
  BY Invariance, <1>1, PTL

\* No run, record or mark is of an occurrence that has not come due or that nobody claimed, and no
\* server moves the schedule past one that has not (fireDue, handBack, updateScheduleHandler).
THEOREM OnTime == Spec => []KeepsToRecurrence
<1>1. IndInv => KeepsToRecurrence
  BY DEF IndInv
<1> QED
  BY Invariance, <1>1, PTL

\* A claimed occurrence is recorded or marked until it is: nothing that stops a server between the
\* claim and the record loses it, a hand back and an unrecorded skip apart (fireDue).
THEOREM ClaimedKept == Spec => []ClaimedIsKept
<1>1. IndInv => ClaimedIsKept
  BY DEF IndInv
<1> QED
  BY Invariance, <1>1, PTL

\* No claim pushes the mark of another occurrence out (ClaimFire).
THEOREM MarkKept == Spec => MarkNotReplaced
<1>1. ASSUME [Next]_vars, mark # Never PROVE mark' \in {mark, Never}
  <2> USE <1>1 DEF rowVars
  <2>1. ASSUME NEW s \in Servers, ClaimFire(s) \/ ClaimFails(s) PROVE mark' = mark
    BY <2>1 DEF ClaimFire, ClaimFails, ClaimWins, TakeClaim
  <2>2. ASSUME NEW s \in Servers, ServerStep(s) \/ ServerFault(s) PROVE mark' \in {mark, Never}
    BY <2>1, <2>2 DEF ServerStep, ServerFault, Tick, TakeUp, FindRun, List, Overlap, OwnRun,
       PassOver, ClaimLost, FireFails, IdempotentLookup, IdempotentSave, Failed, RecordFire, Skip,
       Settle, Release, Note, Restart, TickSweepFails, SaveAnswerLost, Stop, Crash
  <2> QED
    BY <2>2 DEF Next, TimePasses, MarkAges, RunEnds, Edit, Delete, vars
<1>2. ASSUME [Next]_vars PROVE [mark # Never => mark' \in {mark, Never}]_vars
  BY <1>1, <1>2
<1> QED
  BY <1>2, PTL DEF Spec, MarkNotReplaced
=============================================================================
