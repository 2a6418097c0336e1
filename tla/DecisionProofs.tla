--------------------------- MODULE DecisionProofs ---------------------------
(***************************************************************************)
(* Proofs about Decision, for every set of deciders, janitors and          *)
(* processes, for plain and split runs and any number of faults.           *)
(***************************************************************************)
EXTENDS Decision, TLAPS

\* A goroutine past the claim, inside finishDecision or what follows it.
Finishing(f) == pc[f] \in {"appending", "stamping", "settling", "confirming", "reading", "releasing",
                           "rejecting", "finalizing", "committing"}

\* The decision id is on the row from the claim on, and a run that left the decision was moved by a
\* decision the chain holds, or was canceled undecided.
RowInv ==
  /\ status = "held" => decisionID = NoDecision
  /\ status = "deciding" => decisionID \in Deciders
  /\ status \in {"pending", "running", "succeeded", "failed", "interrupted", "rejected"}
       => decisionID \in Deciders
  /\ status \notin {"held", "deciding"} /\ decisionID # NoDecision => decisionID \in chainDecisions
  /\ RecordedBeforeItTakesEffect

\* Whoever finishes a decision finishes the one on the row, and each step of finishDecision finds the
\* work of the steps before it done.
WorkInv ==
  /\ \A d \in Deciders : claim[d] = d
  /\ \A f \in Finishers : Finishing(f) => decisionID \in Deciders /\ claim[f] = decisionID
  /\ \A f \in Finishers : Finishing(f) /\ pc[f] # "appending" => claim[f] \in chainDecisions
  /\ \A f \in Finishers : Finishing(f) /\ pc[f] \notin {"appending", "stamping"}
                            /\ VerdictOf[claim[f]] = "approved" => stamp = claim[f]
  /\ \A f \in Finishers : pc[f] \in {"reading", "releasing", "rejecting", "finalizing", "committing"}
                            => status \notin {"held", "deciding"}
  /\ \A f \in Finishers : pc[f] \in {"rejecting", "finalizing", "committing"}
                            => VerdictOf[claim[f]] = "rejected"
  /\ \A j \in Janitors : pc[j] = "idle" \/ Finishing(j)

\* A decider that has not claimed the run is not on the row, and its record is there from before the
\* claim until the row says it lost.
RecordInv ==
  /\ \A d \in Deciders : pc[d] \in {"idle", "keeping", "claiming", "withdrawing"} => decisionID # d
  /\ \A d \in Deciders : pc[d] \in {"claiming", "verifying"} => d \in records
  /\ WinnerKeepsItsRecord

\* Only an ended run is owed or has an outcome, and nothing is recorded after it.
ChainInv ==
  /\ owed \/ outcome.made => status \in Terminal
  /\ OnlyTheWinnerIsRecorded
  /\ DecisionBeforeOutcome

\* The inductive invariant.
IndInv == TypeOK /\ RowInv /\ WorkInv /\ RecordInv /\ ChainInv

\* A held run nobody has decided satisfies the inductive invariant.
LEMMA InitInv == Init => IndInv
<1> SUFFICES ASSUME Init PROVE IndInv
  OBVIOUS
<1> USE ConstantsAssumption DEF Init, Finishers
<1>1. TypeOK
  BY DEF TypeOK, Terminal, NoOutcome
<1>2. RowInv
  BY DEF RowInv, RecordedBeforeItTakesEffect
<1>3. WorkInv
  BY DEF WorkInv, Finishing
<1>4. RecordInv
  BY DEF RecordInv, WinnerKeepsItsRecord
<1>5. ChainInv
  BY DEF ChainInv, OnlyTheWinnerIsRecorded, DecisionBeforeOutcome, NoOutcome
<1> QED
  BY <1>1, <1>2, <1>3, <1>4, <1>5 DEF IndInv

\* No step of a decision, a sweep, a coordinator or a cancel breaks a variable's type.
LEMMA TypeOKStep == ASSUME IndInv, [Next]_vars PROVE TypeOK'
<1> USE ConstantsAssumption DEF IndInv, TypeOK, WorkInv, Finishing, Finishers, Terminal
<1>1. ASSUME NEW d \in Deciders, ReadHeld(d) PROVE TypeOK'
  BY <1>1 DEF ReadHeld, Goto, rowVars, chainVars, apiVars
<1>2. ASSUME NEW d \in Deciders, KeepRecord(d) PROVE TypeOK'
  BY <1>2 DEF KeepRecord, Goto, rowVars, chainVars, apiVars
<1>3. ASSUME NEW d \in Deciders, KeepFails(d) PROVE TypeOK'
  BY <1>3 DEF KeepFails, Fault, Return, rowVars, chainVars, apiVars, Goto
<1>4. ASSUME NEW d \in Deciders, ClaimDecision(d) PROVE TypeOK'
  BY <1>4 DEF ClaimDecision, ClaimLands, Goto, chainVars, apiVars, CanClaim
<1>5. ASSUME NEW d \in Deciders, ClaimLost(d) PROVE TypeOK'
  BY <1>5 DEF ClaimLost, CanClaim, Goto, rowVars, chainVars, apiVars
<1>6. ASSUME NEW d \in Deciders, ClaimFails(d) PROVE TypeOK'
  BY <1>6 DEF ClaimFails, Fault, ClaimLands, Goto, chainVars, apiVars, CanClaim
<1>7. ASSUME NEW d \in Deciders, VerifyClaim(d) PROVE TypeOK'
  BY <1>7 DEF VerifyClaim, Goto, rowVars, chainVars, apiVars
<1>8. ASSUME NEW d \in Deciders, VerifyFails(d) PROVE TypeOK'
  BY <1>8 DEF VerifyFails, Fault, Return, rowVars, chainVars, apiVars, Goto
<1>9. ASSUME NEW d \in Deciders, Withdraw(d) PROVE TypeOK'
  BY <1>9 DEF Withdraw, Return, rowVars, chainVars, apiVars, Goto
<1>10. ASSUME NEW d \in Deciders, WithdrawFails(d) PROVE TypeOK'
  BY <1>10 DEF WithdrawFails, Fault, Return, rowVars, chainVars, apiVars, Goto
<1>11. ASSUME NEW j \in Janitors, TakeClaim(j) PROVE TypeOK'
  BY <1>11 DEF TakeClaim, Goto, rowVars, chainVars, apiVars
<1>12. ASSUME NEW f \in Finishers, AppendEntry(f) PROVE TypeOK'
  BY <1>12 DEF AppendEntry, Goto, Approves, rowVars, apiVars
<1>13. ASSUME NEW f \in Finishers, AppendFails(f) PROVE TypeOK'
  BY <1>13 DEF AppendFails, Fault, Return, rowVars, apiVars, Goto
<1>14. ASSUME NEW f \in Finishers, Stamp(f) PROVE TypeOK'
  BY <1>14 DEF Stamp, Goto, chainVars, apiVars
<1>15. ASSUME NEW f \in Finishers, StampFails(f) PROVE TypeOK'
  BY <1>15 DEF StampFails, Fault, Return, chainVars, apiVars, Goto
<1>16. ASSUME NEW f \in Finishers, Settle(f) PROVE TypeOK'
  BY <1>16 DEF Settle, SettleLands, Goto, chainVars, apiVars, CanSettle, Approves
<1>17. ASSUME NEW f \in Finishers, SettleLost(f) PROVE TypeOK'
  BY <1>17 DEF SettleLost, CanSettle, Return, rowVars, chainVars, apiVars, Goto
<1>18. ASSUME NEW f \in Finishers, SettleFails(f) PROVE TypeOK'
  <2>1. status' \in Terminal \cup {"held", "deciding", "pending", "running"} /\ owed' \in BOOLEAN
    BY <1>18 DEF SettleFails, SettleLands, Approves
  <2>2. claimedBy' \in Procs \cup {NoProc}
    BY <1>18 DEF SettleFails, SettleLands
  <2>3. faults' \in Nat
    BY <1>18 DEF SettleFails, Fault
  <2> QED
    BY <1>18, <2>1, <2>2, <2>3 DEF SettleFails, Goto, chainVars, apiVars
<1>19. ASSUME NEW f \in Finishers, Confirm(f) PROVE TypeOK'
  BY <1>19 DEF Confirm, Goto, Return, rowVars, chainVars, apiVars
<1>20. ASSUME NEW f \in Finishers, ReadSettled(f) PROVE TypeOK'
  BY <1>20 DEF ReadSettled, Goto, Approves, rowVars, chainVars, apiVars
<1>21. ASSUME NEW f \in Finishers, ReadFails(f) PROVE TypeOK'
  BY <1>21 DEF ReadFails, Fault, Return, rowVars, chainVars, apiVars, Goto
<1>22. ASSUME NEW f \in Finishers, ReleasePlain(f) PROVE TypeOK'
  BY <1>22 DEF ReleasePlain, Return, rowVars, chainVars, apiVars, Goto
<1>23. ASSUME NEW f \in Finishers, HonorCancel(f) PROVE TypeOK'
  BY <1>23 DEF HonorCancel, CancelLands, Return, chainVars, apiVars, CanCancel, End, Goto
<1>24. ASSUME NEW f \in Finishers, HonorCancelLost(f) PROVE TypeOK'
  BY <1>24 DEF HonorCancelLost, CanCancel, Fault, Return, rowVars, chainVars, apiVars, Goto
<1>25. ASSUME NEW f \in Finishers, StartSplit(f) PROVE TypeOK'
  BY <1>25 DEF StartSplit, Return, chainVars, apiVars, Goto
<1>26. ASSUME NEW f \in Finishers, StartSplitFails(f) PROVE TypeOK'
  BY <1>26 DEF StartSplitFails, Fault, Holds, End, Return, chainVars, apiVars, Goto
<1>27. ASSUME NEW f \in Finishers, StartSplitLost(f) PROVE TypeOK'
  BY <1>27 DEF StartSplitLost, Fault, Holds, Return, rowVars, chainVars, apiVars, Goto
<1>28. ASSUME NEW f \in Finishers, RejectShards(f) PROVE TypeOK'
  BY <1>28 DEF RejectShards, Fault, Goto, chainVars, apiVars
<1>29. ASSUME NEW f \in Finishers, FinalizeRejected(f) PROVE TypeOK'
  BY <1>29 DEF FinalizeRejected, Goto, chainVars, apiVars
<1>30. ASSUME NEW f \in Finishers, CommitOutcome(f) PROVE TypeOK'
  <2>1. outcome' \in [made : BOOLEAN, after : SUBSET Deciders]
    BY <1>30 DEF CommitOutcome, Record
  <2>2. pc' \in [Finishers -> {"idle", "keeping", "claiming", "verifying", "withdrawing", "appending",
                               "stamping", "settling", "confirming", "reading", "releasing",
                               "rejecting", "finalizing", "committing", "done"}]
    BY <1>30 DEF CommitOutcome, Return, Goto
  <2>3. owed' \in BOOLEAN /\ UNCHANGED <<status, decisionID, cancelRequested, claimedBy, endedAt, stamp, shards,
                                    records, chainDecisions, claim, seen, coords, releases, handler, cancelCalls, faults>>
    BY <1>30 DEF CommitOutcome, apiVars
  <2>4. TypeOK
    OBVIOUS
  <2> HIDE DEF Terminal, Finishers, WorkInv, IndInv
  <2> QED
    BY <2>1, <2>2, <2>3, <2>4
<1>31. ASSUME NEW f \in Finishers, Coordinate(f) PROVE TypeOK'
  BY <1>31 DEF Coordinate, Executed, Holds, End, chainVars, apiVars
<1>32. ASSUME NEW f \in Finishers, CoordinatorStops(f) PROVE TypeOK'
  BY <1>32 DEF CoordinatorStops, Holds, rowVars, chainVars, apiVars
<1>33. ASSUME Execute PROVE TypeOK'
  BY <1>33 DEF Execute, Executed, End, chainVars, workVars, apiVars
<1>34. ASSUME Sweep PROVE TypeOK'
  BY <1>34 DEF Sweep, Fault, End, chainVars, workVars, apiVars
<1>35. ASSUME CommitOwed PROVE TypeOK'
  <2>1. outcome' \in [made : BOOLEAN, after : SUBSET Deciders]
    BY <1>35 DEF CommitOwed, Record
  <2>2. faults' \in Nat
    BY <1>35 DEF CommitOwed, Fault
  <2>3. owed' \in BOOLEAN /\ UNCHANGED <<status, decisionID, cancelRequested, claimedBy, endedAt, stamp, shards,
                                    records, chainDecisions, pc, claim, seen, coords, releases, handler, cancelCalls>>
    BY <1>35 DEF CommitOwed, workVars, apiVars
  <2>4. TypeOK
    OBVIOUS
  <2> HIDE DEF Terminal, Finishers, WorkInv, IndInv
  <2> QED
    BY <2>1, <2>2, <2>3, <2>4
<1>36. ASSUME CancelRead PROVE TypeOK'
  BY <1>36 DEF CancelRead, rowVars, chainVars, workVars
<1>37. ASSUME CancelWaiting PROVE TypeOK'
  BY <1>37 DEF CancelWaiting, CancelLands, chainVars, workVars, CanCancel, End
<1>38. ASSUME CancelWaitingLost PROVE TypeOK'
  BY <1>38 DEF CancelWaitingLost, CanCancel, rowVars, chainVars, workVars
<1>39. ASSUME CancelChildren PROVE TypeOK'
  BY <1>39 DEF CancelChildren, chainVars, workVars
<1>40. ASSUME CancelFlag PROVE TypeOK'
  BY <1>40 DEF CancelFlag, chainVars, workVars
<1>41. ASSUME NEW p \in Procs, Crash(p) PROVE TypeOK'
  BY <1>41 DEF Crash, Fault, rowVars, chainVars
<1>42. CASE UNCHANGED vars
  BY <1>42 DEF vars, rowVars, chainVars, workVars, apiVars
<1> QED
  BY <1>1, <1>2, <1>3, <1>4, <1>5, <1>6, <1>7, <1>8, <1>9, <1>10, <1>11, <1>12, <1>13, <1>14,
       <1>15, <1>16, <1>17, <1>18, <1>19, <1>20, <1>21, <1>22, <1>23, <1>24, <1>25, <1>26, <1>27,
       <1>28, <1>29, <1>30, <1>31, <1>32, <1>33, <1>34, <1>35, <1>36, <1>37, <1>38, <1>39, <1>40,
       <1>41, <1>42 DEF Next, DecideStep, FinishStep, CancelStep

\* No step moves the run without a recorded decision, or gives a decided run another's id.
LEMMA RowInvStep == ASSUME IndInv, [Next]_vars PROVE RowInv'
<1> USE ConstantsAssumption DEF IndInv, TypeOK, RowInv, WorkInv, RecordedBeforeItTakesEffect,
     Finishing, Finishers, Terminal
<1>1. ASSUME NEW d \in Deciders, ReadHeld(d) PROVE RowInv'
  BY <1>1 DEF ReadHeld, Goto, rowVars, chainVars, apiVars
<1>2. ASSUME NEW d \in Deciders, KeepRecord(d) PROVE RowInv'
  BY <1>2 DEF KeepRecord, Goto, rowVars, chainVars, apiVars
<1>3. ASSUME NEW d \in Deciders, KeepFails(d) PROVE RowInv'
  BY <1>3 DEF KeepFails, Fault, Return, rowVars, chainVars, apiVars, Goto
<1>4. ASSUME NEW d \in Deciders, ClaimDecision(d) PROVE RowInv'
  BY <1>4 DEF ClaimDecision, ClaimLands, Goto, chainVars, apiVars, CanClaim
<1>5. ASSUME NEW d \in Deciders, ClaimLost(d) PROVE RowInv'
  BY <1>5 DEF ClaimLost, CanClaim, Goto, rowVars, chainVars, apiVars
<1>6. ASSUME NEW d \in Deciders, ClaimFails(d) PROVE RowInv'
  BY <1>6 DEF ClaimFails, Fault, ClaimLands, Goto, chainVars, apiVars, CanClaim
<1>7. ASSUME NEW d \in Deciders, VerifyClaim(d) PROVE RowInv'
  BY <1>7 DEF VerifyClaim, Goto, rowVars, chainVars, apiVars
<1>8. ASSUME NEW d \in Deciders, VerifyFails(d) PROVE RowInv'
  BY <1>8 DEF VerifyFails, Fault, Return, rowVars, chainVars, apiVars, Goto
<1>9. ASSUME NEW d \in Deciders, Withdraw(d) PROVE RowInv'
  BY <1>9 DEF Withdraw, Return, rowVars, chainVars, apiVars, Goto
<1>10. ASSUME NEW d \in Deciders, WithdrawFails(d) PROVE RowInv'
  BY <1>10 DEF WithdrawFails, Fault, Return, rowVars, chainVars, apiVars, Goto
<1>11. ASSUME NEW j \in Janitors, TakeClaim(j) PROVE RowInv'
  BY <1>11 DEF TakeClaim, Goto, rowVars, chainVars, apiVars
<1>12. ASSUME NEW f \in Finishers, AppendEntry(f) PROVE RowInv'
  BY <1>12 DEF AppendEntry, Goto, Approves, rowVars, apiVars
<1>13. ASSUME NEW f \in Finishers, AppendFails(f) PROVE RowInv'
  BY <1>13 DEF AppendFails, Fault, Return, rowVars, apiVars, Goto
<1>14. ASSUME NEW f \in Finishers, Stamp(f) PROVE RowInv'
  BY <1>14 DEF Stamp, Goto, chainVars, apiVars
<1>15. ASSUME NEW f \in Finishers, StampFails(f) PROVE RowInv'
  BY <1>15 DEF StampFails, Fault, Return, chainVars, apiVars, Goto
<1>16. ASSUME NEW f \in Finishers, Settle(f) PROVE RowInv'
  <2>1. /\ claim[f] = decisionID /\ decisionID \in Deciders /\ decisionID \in chainDecisions
        /\ VerdictOf[decisionID] = "approved" => stamp = decisionID
    BY <1>16 DEF Settle
  <2>2. UNCHANGED <<decisionID, chainDecisions, stamp>>
    BY <1>16 DEF Settle, chainVars
  <2>3. CASE VerdictOf[decisionID] = "approved"
    <3>1. status' \in {"running", "pending"}
      BY <1>16, <2>1, <2>3 DEF Settle, SettleLands, Approves
    <3> QED
      BY <2>1, <2>2, <2>3, <3>1
  <2>4. CASE VerdictOf[decisionID] = "rejected"
    <3>1. status' = "rejected"
      BY <1>16, <2>1, <2>4 DEF Settle, SettleLands, Approves
    <3> QED
      BY <2>1, <2>2, <2>4, <3>1
  <2> QED
    BY <2>1, <2>3, <2>4
<1>17. ASSUME NEW f \in Finishers, SettleLost(f) PROVE RowInv'
  BY <1>17 DEF SettleLost, CanSettle, Return, rowVars, chainVars, apiVars, Goto
<1>18. ASSUME NEW f \in Finishers, SettleFails(f) PROVE RowInv'
  <2>1. /\ claim[f] = decisionID /\ decisionID \in Deciders /\ decisionID \in chainDecisions
        /\ VerdictOf[decisionID] = "approved" => stamp = decisionID
    BY <1>18 DEF SettleFails
  <2>2. UNCHANGED <<decisionID, chainDecisions, stamp>>
    BY <1>18 DEF SettleFails, chainVars
  <2>3. CASE SettleLands(f) /\ VerdictOf[decisionID] = "approved"
    <3>1. status' \in {"running", "pending"}
      BY <2>1, <2>3 DEF SettleLands, Approves
    <3> QED
      BY <2>1, <2>2, <2>3, <3>1
  <2>4. CASE SettleLands(f) /\ VerdictOf[decisionID] = "rejected"
    <3>1. status' = "rejected"
      BY <2>1, <2>4 DEF SettleLands, Approves
    <3> QED
      BY <2>1, <2>2, <2>4, <3>1
  <2>5. CASE UNCHANGED <<status, claimedBy, owed>>
    BY <2>2, <2>5
  <2> QED
    BY <1>18, <2>1, <2>3, <2>4, <2>5 DEF SettleFails
<1>19. ASSUME NEW f \in Finishers, Confirm(f) PROVE RowInv'
  BY <1>19 DEF Confirm, Goto, Return, rowVars, chainVars, apiVars
<1>20. ASSUME NEW f \in Finishers, ReadSettled(f) PROVE RowInv'
  BY <1>20 DEF ReadSettled, Goto, Approves, rowVars, chainVars, apiVars
<1>21. ASSUME NEW f \in Finishers, ReadFails(f) PROVE RowInv'
  BY <1>21 DEF ReadFails, Fault, Return, rowVars, chainVars, apiVars, Goto
<1>22. ASSUME NEW f \in Finishers, ReleasePlain(f) PROVE RowInv'
  BY <1>22 DEF ReleasePlain, Return, rowVars, chainVars, apiVars, Goto
<1>23. ASSUME NEW f \in Finishers, HonorCancel(f) PROVE RowInv'
  BY <1>23 DEF HonorCancel, CancelLands, Return, chainVars, apiVars, CanCancel, End, Goto
<1>24. ASSUME NEW f \in Finishers, HonorCancelLost(f) PROVE RowInv'
  BY <1>24 DEF HonorCancelLost, CanCancel, Fault, Return, rowVars, chainVars, apiVars, Goto
<1>25. ASSUME NEW f \in Finishers, StartSplit(f) PROVE RowInv'
  BY <1>25 DEF StartSplit, Return, chainVars, apiVars, Goto
<1>26. ASSUME NEW f \in Finishers, StartSplitFails(f) PROVE RowInv'
  BY <1>26 DEF StartSplitFails, Fault, Holds, End, Return, chainVars, apiVars, Goto
<1>27. ASSUME NEW f \in Finishers, StartSplitLost(f) PROVE RowInv'
  BY <1>27 DEF StartSplitLost, Fault, Holds, Return, rowVars, chainVars, apiVars, Goto
<1>28. ASSUME NEW f \in Finishers, RejectShards(f) PROVE RowInv'
  BY <1>28 DEF RejectShards, Fault, Goto, chainVars, apiVars
<1>29. ASSUME NEW f \in Finishers, FinalizeRejected(f) PROVE RowInv'
  BY <1>29 DEF FinalizeRejected, Goto, chainVars, apiVars
<1>30. ASSUME NEW f \in Finishers, CommitOutcome(f) PROVE RowInv'
  BY <1>30 DEF CommitOutcome, Record, Return, apiVars, Goto
<1>31. ASSUME NEW f \in Finishers, Coordinate(f) PROVE RowInv'
  BY <1>31 DEF Coordinate, Executed, Holds, End, chainVars, apiVars
<1>32. ASSUME NEW f \in Finishers, CoordinatorStops(f) PROVE RowInv'
  BY <1>32 DEF CoordinatorStops, Holds, rowVars, chainVars, apiVars
<1>33. ASSUME Execute PROVE RowInv'
  BY <1>33 DEF Execute, Executed, End, chainVars, workVars, apiVars
<1>34. ASSUME Sweep PROVE RowInv'
  BY <1>34 DEF Sweep, Fault, End, chainVars, workVars, apiVars
<1>35. ASSUME CommitOwed PROVE RowInv'
  BY <1>35 DEF CommitOwed, Fault, Record, workVars, apiVars
<1>36. ASSUME CancelRead PROVE RowInv'
  BY <1>36 DEF CancelRead, rowVars, chainVars, workVars
<1>37. ASSUME CancelWaiting PROVE RowInv'
  BY <1>37 DEF CancelWaiting, CancelLands, chainVars, workVars, CanCancel, End
<1>38. ASSUME CancelWaitingLost PROVE RowInv'
  BY <1>38 DEF CancelWaitingLost, CanCancel, rowVars, chainVars, workVars
<1>39. ASSUME CancelChildren PROVE RowInv'
  BY <1>39 DEF CancelChildren, chainVars, workVars
<1>40. ASSUME CancelFlag PROVE RowInv'
  BY <1>40 DEF CancelFlag, chainVars, workVars
<1>41. ASSUME NEW p \in Procs, Crash(p) PROVE RowInv'
  BY <1>41 DEF Crash, Fault, rowVars, chainVars
<1>42. CASE UNCHANGED vars
  BY <1>42 DEF vars, rowVars, chainVars, workVars, apiVars
<1> QED
  BY <1>1, <1>2, <1>3, <1>4, <1>5, <1>6, <1>7, <1>8, <1>9, <1>10, <1>11, <1>12, <1>13, <1>14,
       <1>15, <1>16, <1>17, <1>18, <1>19, <1>20, <1>21, <1>22, <1>23, <1>24, <1>25, <1>26, <1>27,
       <1>28, <1>29, <1>30, <1>31, <1>32, <1>33, <1>34, <1>35, <1>36, <1>37, <1>38, <1>39, <1>40,
       <1>41, <1>42 DEF Next, DecideStep, FinishStep, CancelStep

\* Every step leaves each finisher working on the decision the row holds.
LEMMA WorkInvStep == ASSUME IndInv, [Next]_vars PROVE WorkInv'
<1> USE ConstantsAssumption DEF IndInv, TypeOK, WorkInv, RowInv, RecordedBeforeItTakesEffect,
     Finishing, Finishers, Terminal
<1>1. ASSUME NEW d \in Deciders, ReadHeld(d) PROVE WorkInv'
  BY <1>1 DEF ReadHeld, Goto, rowVars, chainVars, apiVars
<1>2. ASSUME NEW d \in Deciders, KeepRecord(d) PROVE WorkInv'
  BY <1>2 DEF KeepRecord, Goto, rowVars, chainVars, apiVars
<1>3. ASSUME NEW d \in Deciders, KeepFails(d) PROVE WorkInv'
  BY <1>3 DEF KeepFails, Fault, Return, rowVars, chainVars, apiVars, Goto
<1>4. ASSUME NEW d \in Deciders, ClaimDecision(d) PROVE WorkInv'
  BY <1>4 DEF ClaimDecision, ClaimLands, Goto, chainVars, apiVars, CanClaim
<1>5. ASSUME NEW d \in Deciders, ClaimLost(d) PROVE WorkInv'
  BY <1>5 DEF ClaimLost, CanClaim, Goto, rowVars, chainVars, apiVars
<1>6. ASSUME NEW d \in Deciders, ClaimFails(d) PROVE WorkInv'
  BY <1>6 DEF ClaimFails, Fault, ClaimLands, Goto, chainVars, apiVars, CanClaim
<1>7. ASSUME NEW d \in Deciders, VerifyClaim(d) PROVE WorkInv'
  BY <1>7 DEF VerifyClaim, Goto, rowVars, chainVars, apiVars
<1>8. ASSUME NEW d \in Deciders, VerifyFails(d) PROVE WorkInv'
  BY <1>8 DEF VerifyFails, Fault, Return, rowVars, chainVars, apiVars, Goto
<1>9. ASSUME NEW d \in Deciders, Withdraw(d) PROVE WorkInv'
  BY <1>9 DEF Withdraw, Return, rowVars, chainVars, apiVars, Goto
<1>10. ASSUME NEW d \in Deciders, WithdrawFails(d) PROVE WorkInv'
  BY <1>10 DEF WithdrawFails, Fault, Return, rowVars, chainVars, apiVars, Goto
<1>11. ASSUME NEW j \in Janitors, TakeClaim(j) PROVE WorkInv'
  BY <1>11 DEF TakeClaim, Goto, rowVars, chainVars, apiVars
<1>12. ASSUME NEW f \in Finishers, AppendEntry(f) PROVE WorkInv'
  BY <1>12 DEF AppendEntry, Goto, Approves, rowVars, apiVars
<1>13. ASSUME NEW f \in Finishers, AppendFails(f) PROVE WorkInv'
  BY <1>13 DEF AppendFails, Fault, Return, rowVars, apiVars, Goto
<1>14. ASSUME NEW f \in Finishers, Stamp(f) PROVE WorkInv'
  BY <1>14 DEF Stamp, Goto, chainVars, apiVars
<1>15. ASSUME NEW f \in Finishers, StampFails(f) PROVE WorkInv'
  BY <1>15 DEF StampFails, Fault, Return, chainVars, apiVars, Goto
<1>16. ASSUME NEW f \in Finishers, Settle(f) PROVE WorkInv'
  BY <1>16 DEF Settle, SettleLands, Goto, chainVars, apiVars, CanSettle, Approves
<1>17. ASSUME NEW f \in Finishers, SettleLost(f) PROVE WorkInv'
  BY <1>17 DEF SettleLost, CanSettle, Return, rowVars, chainVars, apiVars, Goto
<1>18. ASSUME NEW f \in Finishers, SettleFails(f) PROVE WorkInv'
  BY <1>18 DEF SettleFails, Fault, SettleLands, Goto, chainVars, apiVars, CanSettle, Approves
<1>19. ASSUME NEW f \in Finishers, Confirm(f) PROVE WorkInv'
  BY <1>19 DEF Confirm, Goto, Return, rowVars, chainVars, apiVars
<1>20. ASSUME NEW f \in Finishers, ReadSettled(f) PROVE WorkInv'
  BY <1>20 DEF ReadSettled, Goto, Approves, rowVars, chainVars, apiVars
<1>21. ASSUME NEW f \in Finishers, ReadFails(f) PROVE WorkInv'
  BY <1>21 DEF ReadFails, Fault, Return, rowVars, chainVars, apiVars, Goto
<1>22. ASSUME NEW f \in Finishers, ReleasePlain(f) PROVE WorkInv'
  BY <1>22 DEF ReleasePlain, Return, rowVars, chainVars, apiVars, Goto
<1>23. ASSUME NEW f \in Finishers, HonorCancel(f) PROVE WorkInv'
  BY <1>23 DEF HonorCancel, CancelLands, Return, chainVars, apiVars, CanCancel, End, Goto
<1>24. ASSUME NEW f \in Finishers, HonorCancelLost(f) PROVE WorkInv'
  BY <1>24 DEF HonorCancelLost, CanCancel, Fault, Return, rowVars, chainVars, apiVars, Goto
<1>25. ASSUME NEW f \in Finishers, StartSplit(f) PROVE WorkInv'
  BY <1>25 DEF StartSplit, Return, chainVars, apiVars, Goto
<1>26. ASSUME NEW f \in Finishers, StartSplitFails(f) PROVE WorkInv'
  BY <1>26 DEF StartSplitFails, Fault, Holds, End, Return, chainVars, apiVars, Goto
<1>27. ASSUME NEW f \in Finishers, StartSplitLost(f) PROVE WorkInv'
  BY <1>27 DEF StartSplitLost, Fault, Holds, Return, rowVars, chainVars, apiVars, Goto
<1>28. ASSUME NEW f \in Finishers, RejectShards(f) PROVE WorkInv'
  BY <1>28 DEF RejectShards, Fault, Goto, chainVars, apiVars
<1>29. ASSUME NEW f \in Finishers, FinalizeRejected(f) PROVE WorkInv'
  BY <1>29 DEF FinalizeRejected, Goto, chainVars, apiVars
<1>30. ASSUME NEW f \in Finishers, CommitOutcome(f) PROVE WorkInv'
  BY <1>30 DEF CommitOutcome, Record, Return, apiVars, Goto
<1>31. ASSUME NEW f \in Finishers, Coordinate(f) PROVE WorkInv'
  BY <1>31 DEF Coordinate, Executed, Holds, End, chainVars, apiVars
<1>32. ASSUME NEW f \in Finishers, CoordinatorStops(f) PROVE WorkInv'
  BY <1>32 DEF CoordinatorStops, Holds, rowVars, chainVars, apiVars
<1>33. ASSUME Execute PROVE WorkInv'
  BY <1>33 DEF Execute, Executed, End, chainVars, workVars, apiVars
<1>34. ASSUME Sweep PROVE WorkInv'
  BY <1>34 DEF Sweep, Fault, End, chainVars, workVars, apiVars
<1>35. ASSUME CommitOwed PROVE WorkInv'
  BY <1>35 DEF CommitOwed, Fault, Record, workVars, apiVars
<1>36. ASSUME CancelRead PROVE WorkInv'
  BY <1>36 DEF CancelRead, rowVars, chainVars, workVars
<1>37. ASSUME CancelWaiting PROVE WorkInv'
  BY <1>37 DEF CancelWaiting, CancelLands, chainVars, workVars, CanCancel, End
<1>38. ASSUME CancelWaitingLost PROVE WorkInv'
  BY <1>38 DEF CancelWaitingLost, CanCancel, rowVars, chainVars, workVars
<1>39. ASSUME CancelChildren PROVE WorkInv'
  BY <1>39 DEF CancelChildren, chainVars, workVars
<1>40. ASSUME CancelFlag PROVE WorkInv'
  BY <1>40 DEF CancelFlag, chainVars, workVars
<1>41. ASSUME NEW p \in Procs, Crash(p) PROVE WorkInv'
  BY <1>41 DEF Crash, Fault, rowVars, chainVars
<1>42. CASE UNCHANGED vars
  BY <1>42 DEF vars, rowVars, chainVars, workVars, apiVars
<1> QED
  BY <1>1, <1>2, <1>3, <1>4, <1>5, <1>6, <1>7, <1>8, <1>9, <1>10, <1>11, <1>12, <1>13, <1>14,
       <1>15, <1>16, <1>17, <1>18, <1>19, <1>20, <1>21, <1>22, <1>23, <1>24, <1>25, <1>26, <1>27,
       <1>28, <1>29, <1>30, <1>31, <1>32, <1>33, <1>34, <1>35, <1>36, <1>37, <1>38, <1>39, <1>40,
       <1>41, <1>42 DEF Next, DecideStep, FinishStep, CancelStep

\* No step withdraws the record of the decision the row holds.
LEMMA RecordInvStep == ASSUME IndInv, [Next]_vars PROVE RecordInv'
<1> USE ConstantsAssumption DEF IndInv, TypeOK, RecordInv, RowInv, WorkInv, WinnerKeepsItsRecord,
     Finishing, Finishers, Terminal
<1>1. ASSUME NEW d \in Deciders, ReadHeld(d) PROVE RecordInv'
  BY <1>1 DEF ReadHeld, Goto, rowVars, chainVars, apiVars
<1>2. ASSUME NEW d \in Deciders, KeepRecord(d) PROVE RecordInv'
  BY <1>2 DEF KeepRecord, Goto, rowVars, chainVars, apiVars
<1>3. ASSUME NEW d \in Deciders, KeepFails(d) PROVE RecordInv'
  BY <1>3 DEF KeepFails, Fault, Return, rowVars, chainVars, apiVars, Goto
<1>4. ASSUME NEW d \in Deciders, ClaimDecision(d) PROVE RecordInv'
  BY <1>4 DEF ClaimDecision, ClaimLands, Goto, chainVars, apiVars, CanClaim
<1>5. ASSUME NEW d \in Deciders, ClaimLost(d) PROVE RecordInv'
  BY <1>5 DEF ClaimLost, CanClaim, Goto, rowVars, chainVars, apiVars
<1>6. ASSUME NEW d \in Deciders, ClaimFails(d) PROVE RecordInv'
  BY <1>6 DEF ClaimFails, Fault, ClaimLands, Goto, chainVars, apiVars, CanClaim
<1>7. ASSUME NEW d \in Deciders, VerifyClaim(d) PROVE RecordInv'
  BY <1>7 DEF VerifyClaim, Goto, rowVars, chainVars, apiVars
<1>8. ASSUME NEW d \in Deciders, VerifyFails(d) PROVE RecordInv'
  BY <1>8 DEF VerifyFails, Fault, Return, rowVars, chainVars, apiVars, Goto
<1>9. ASSUME NEW d \in Deciders, Withdraw(d) PROVE RecordInv'
  BY <1>9 DEF Withdraw, Return, rowVars, chainVars, apiVars, Goto
<1>10. ASSUME NEW d \in Deciders, WithdrawFails(d) PROVE RecordInv'
  BY <1>10 DEF WithdrawFails, Fault, Return, rowVars, chainVars, apiVars, Goto
<1>11. ASSUME NEW j \in Janitors, TakeClaim(j) PROVE RecordInv'
  BY <1>11 DEF TakeClaim, Goto, rowVars, chainVars, apiVars
<1>12. ASSUME NEW f \in Finishers, AppendEntry(f) PROVE RecordInv'
  BY <1>12 DEF AppendEntry, Goto, Approves, rowVars, apiVars
<1>13. ASSUME NEW f \in Finishers, AppendFails(f) PROVE RecordInv'
  BY <1>13 DEF AppendFails, Fault, Return, rowVars, apiVars, Goto
<1>14. ASSUME NEW f \in Finishers, Stamp(f) PROVE RecordInv'
  BY <1>14 DEF Stamp, Goto, chainVars, apiVars
<1>15. ASSUME NEW f \in Finishers, StampFails(f) PROVE RecordInv'
  BY <1>15 DEF StampFails, Fault, Return, chainVars, apiVars, Goto
<1>16. ASSUME NEW f \in Finishers, Settle(f) PROVE RecordInv'
  BY <1>16 DEF Settle, SettleLands, Goto, chainVars, apiVars, CanSettle, Approves
<1>17. ASSUME NEW f \in Finishers, SettleLost(f) PROVE RecordInv'
  BY <1>17 DEF SettleLost, CanSettle, Return, rowVars, chainVars, apiVars, Goto
<1>18. ASSUME NEW f \in Finishers, SettleFails(f) PROVE RecordInv'
  BY <1>18 DEF SettleFails, Fault, SettleLands, Goto, chainVars, apiVars, CanSettle, Approves
<1>19. ASSUME NEW f \in Finishers, Confirm(f) PROVE RecordInv'
  BY <1>19 DEF Confirm, Goto, Return, rowVars, chainVars, apiVars
<1>20. ASSUME NEW f \in Finishers, ReadSettled(f) PROVE RecordInv'
  BY <1>20 DEF ReadSettled, Goto, Approves, rowVars, chainVars, apiVars
<1>21. ASSUME NEW f \in Finishers, ReadFails(f) PROVE RecordInv'
  BY <1>21 DEF ReadFails, Fault, Return, rowVars, chainVars, apiVars, Goto
<1>22. ASSUME NEW f \in Finishers, ReleasePlain(f) PROVE RecordInv'
  BY <1>22 DEF ReleasePlain, Return, rowVars, chainVars, apiVars, Goto
<1>23. ASSUME NEW f \in Finishers, HonorCancel(f) PROVE RecordInv'
  BY <1>23 DEF HonorCancel, CancelLands, Return, chainVars, apiVars, CanCancel, End, Goto
<1>24. ASSUME NEW f \in Finishers, HonorCancelLost(f) PROVE RecordInv'
  BY <1>24 DEF HonorCancelLost, CanCancel, Fault, Return, rowVars, chainVars, apiVars, Goto
<1>25. ASSUME NEW f \in Finishers, StartSplit(f) PROVE RecordInv'
  BY <1>25 DEF StartSplit, Return, chainVars, apiVars, Goto
<1>26. ASSUME NEW f \in Finishers, StartSplitFails(f) PROVE RecordInv'
  BY <1>26 DEF StartSplitFails, Fault, Holds, End, Return, chainVars, apiVars, Goto
<1>27. ASSUME NEW f \in Finishers, StartSplitLost(f) PROVE RecordInv'
  BY <1>27 DEF StartSplitLost, Fault, Holds, Return, rowVars, chainVars, apiVars, Goto
<1>28. ASSUME NEW f \in Finishers, RejectShards(f) PROVE RecordInv'
  BY <1>28 DEF RejectShards, Fault, Goto, chainVars, apiVars
<1>29. ASSUME NEW f \in Finishers, FinalizeRejected(f) PROVE RecordInv'
  BY <1>29 DEF FinalizeRejected, Goto, chainVars, apiVars
<1>30. ASSUME NEW f \in Finishers, CommitOutcome(f) PROVE RecordInv'
  BY <1>30 DEF CommitOutcome, Record, Return, apiVars, Goto
<1>31. ASSUME NEW f \in Finishers, Coordinate(f) PROVE RecordInv'
  BY <1>31 DEF Coordinate, Executed, Holds, End, chainVars, apiVars
<1>32. ASSUME NEW f \in Finishers, CoordinatorStops(f) PROVE RecordInv'
  BY <1>32 DEF CoordinatorStops, Holds, rowVars, chainVars, apiVars
<1>33. ASSUME Execute PROVE RecordInv'
  BY <1>33 DEF Execute, Executed, End, chainVars, workVars, apiVars
<1>34. ASSUME Sweep PROVE RecordInv'
  BY <1>34 DEF Sweep, Fault, End, chainVars, workVars, apiVars
<1>35. ASSUME CommitOwed PROVE RecordInv'
  BY <1>35 DEF CommitOwed, Fault, Record, workVars, apiVars
<1>36. ASSUME CancelRead PROVE RecordInv'
  BY <1>36 DEF CancelRead, rowVars, chainVars, workVars
<1>37. ASSUME CancelWaiting PROVE RecordInv'
  BY <1>37 DEF CancelWaiting, CancelLands, chainVars, workVars, CanCancel, End
<1>38. ASSUME CancelWaitingLost PROVE RecordInv'
  BY <1>38 DEF CancelWaitingLost, CanCancel, rowVars, chainVars, workVars
<1>39. ASSUME CancelChildren PROVE RecordInv'
  BY <1>39 DEF CancelChildren, chainVars, workVars
<1>40. ASSUME CancelFlag PROVE RecordInv'
  BY <1>40 DEF CancelFlag, chainVars, workVars
<1>41. ASSUME NEW p \in Procs, Crash(p) PROVE RecordInv'
  BY <1>41 DEF Crash, Fault, rowVars, chainVars
<1>42. CASE UNCHANGED vars
  BY <1>42 DEF vars, rowVars, chainVars, workVars, apiVars
<1> QED
  BY <1>1, <1>2, <1>3, <1>4, <1>5, <1>6, <1>7, <1>8, <1>9, <1>10, <1>11, <1>12, <1>13, <1>14,
       <1>15, <1>16, <1>17, <1>18, <1>19, <1>20, <1>21, <1>22, <1>23, <1>24, <1>25, <1>26, <1>27,
       <1>28, <1>29, <1>30, <1>31, <1>32, <1>33, <1>34, <1>35, <1>36, <1>37, <1>38, <1>39, <1>40,
       <1>41, <1>42 DEF Next, DecideStep, FinishStep, CancelStep

\* No step appends a loser's decision, or any decision after the outcome.
LEMMA ChainInvStep == ASSUME IndInv, [Next]_vars PROVE ChainInv'
<1> USE ConstantsAssumption DEF IndInv, TypeOK, ChainInv, RowInv, WorkInv, DecisionBeforeOutcome,
     OnlyTheWinnerIsRecorded, Finishing, Finishers, Terminal
<1>1. ASSUME NEW d \in Deciders, ReadHeld(d) PROVE ChainInv'
  BY <1>1 DEF ReadHeld, Goto, rowVars, chainVars, apiVars
<1>2. ASSUME NEW d \in Deciders, KeepRecord(d) PROVE ChainInv'
  BY <1>2 DEF KeepRecord, Goto, rowVars, chainVars, apiVars
<1>3. ASSUME NEW d \in Deciders, KeepFails(d) PROVE ChainInv'
  BY <1>3 DEF KeepFails, Fault, Return, rowVars, chainVars, apiVars, Goto
<1>4. ASSUME NEW d \in Deciders, ClaimDecision(d) PROVE ChainInv'
  BY <1>4 DEF ClaimDecision, ClaimLands, Goto, chainVars, apiVars, CanClaim
<1>5. ASSUME NEW d \in Deciders, ClaimLost(d) PROVE ChainInv'
  BY <1>5 DEF ClaimLost, CanClaim, Goto, rowVars, chainVars, apiVars
<1>6. ASSUME NEW d \in Deciders, ClaimFails(d) PROVE ChainInv'
  BY <1>6 DEF ClaimFails, Fault, ClaimLands, Goto, chainVars, apiVars, CanClaim
<1>7. ASSUME NEW d \in Deciders, VerifyClaim(d) PROVE ChainInv'
  BY <1>7 DEF VerifyClaim, Goto, rowVars, chainVars, apiVars
<1>8. ASSUME NEW d \in Deciders, VerifyFails(d) PROVE ChainInv'
  BY <1>8 DEF VerifyFails, Fault, Return, rowVars, chainVars, apiVars, Goto
<1>9. ASSUME NEW d \in Deciders, Withdraw(d) PROVE ChainInv'
  BY <1>9 DEF Withdraw, Return, rowVars, chainVars, apiVars, Goto
<1>10. ASSUME NEW d \in Deciders, WithdrawFails(d) PROVE ChainInv'
  BY <1>10 DEF WithdrawFails, Fault, Return, rowVars, chainVars, apiVars, Goto
<1>11. ASSUME NEW j \in Janitors, TakeClaim(j) PROVE ChainInv'
  BY <1>11 DEF TakeClaim, Goto, rowVars, chainVars, apiVars
<1>12. ASSUME NEW f \in Finishers, AppendEntry(f) PROVE ChainInv'
  BY <1>12 DEF AppendEntry, Goto, Approves, rowVars, apiVars
<1>13. ASSUME NEW f \in Finishers, AppendFails(f) PROVE ChainInv'
  <2>1. claim[f] = decisionID /\ decisionID \in Deciders
    BY <1>13 DEF AppendFails
  <2>2. outcome.made => decisionID \in chainDecisions
    BY <2>1
  <2>3. outcome.made => chainDecisions' = chainDecisions
    <3>1. decisionID \in chainDecisions => chainDecisions \cup {decisionID} = chainDecisions
      OBVIOUS
    <3> QED
      BY <1>13, <2>1, <2>2, <3>1 DEF AppendFails
  <2>4. chainDecisions' \subseteq {decisionID}
    BY <1>13, <2>1 DEF AppendFails
  <2> QED
    BY <1>13, <2>3, <2>4 DEF AppendFails, rowVars
<1>14. ASSUME NEW f \in Finishers, Stamp(f) PROVE ChainInv'
  BY <1>14 DEF Stamp, Goto, chainVars, apiVars
<1>15. ASSUME NEW f \in Finishers, StampFails(f) PROVE ChainInv'
  BY <1>15 DEF StampFails, Fault, Return, chainVars, apiVars, Goto
<1>16. ASSUME NEW f \in Finishers, Settle(f) PROVE ChainInv'
  <2>1. ~outcome.made /\ UNCHANGED <<outcome, decisionID, chainDecisions>>
    BY <1>16 DEF Settle, SettleLands, CanSettle, chainVars
  <2>2. owed' => status' = "rejected"
    BY <1>16 DEF Settle, SettleLands
  <2> QED
    BY <2>1, <2>2
<1>17. ASSUME NEW f \in Finishers, SettleLost(f) PROVE ChainInv'
  BY <1>17 DEF SettleLost, CanSettle, Return, rowVars, chainVars, apiVars, Goto
<1>18. ASSUME NEW f \in Finishers, SettleFails(f) PROVE ChainInv'
  <2>1. UNCHANGED <<outcome, decisionID, chainDecisions>>
    BY <1>18 DEF SettleFails, chainVars
  <2>2. CASE SettleLands(f)
    <3>1. ~outcome.made
      BY <2>2 DEF SettleLands, CanSettle
    <3>2. owed' => status' = "rejected"
      BY <2>2 DEF SettleLands
    <3> QED
      BY <2>1, <3>1, <3>2
  <2>3. CASE UNCHANGED <<status, claimedBy, owed>>
    BY <2>1, <2>3
  <2> QED
    BY <1>18, <2>2, <2>3 DEF SettleFails
<1>19. ASSUME NEW f \in Finishers, Confirm(f) PROVE ChainInv'
  BY <1>19 DEF Confirm, Goto, Return, rowVars, chainVars, apiVars
<1>20. ASSUME NEW f \in Finishers, ReadSettled(f) PROVE ChainInv'
  BY <1>20 DEF ReadSettled, Goto, Approves, rowVars, chainVars, apiVars
<1>21. ASSUME NEW f \in Finishers, ReadFails(f) PROVE ChainInv'
  BY <1>21 DEF ReadFails, Fault, Return, rowVars, chainVars, apiVars, Goto
<1>22. ASSUME NEW f \in Finishers, ReleasePlain(f) PROVE ChainInv'
  BY <1>22 DEF ReleasePlain, Return, rowVars, chainVars, apiVars, Goto
<1>23. ASSUME NEW f \in Finishers, HonorCancel(f) PROVE ChainInv'
  BY <1>23 DEF HonorCancel, CancelLands, Return, chainVars, apiVars, CanCancel, End, Goto
<1>24. ASSUME NEW f \in Finishers, HonorCancelLost(f) PROVE ChainInv'
  BY <1>24 DEF HonorCancelLost, CanCancel, Fault, Return, rowVars, chainVars, apiVars, Goto
<1>25. ASSUME NEW f \in Finishers, StartSplit(f) PROVE ChainInv'
  BY <1>25 DEF StartSplit, Return, chainVars, apiVars, Goto
<1>26. ASSUME NEW f \in Finishers, StartSplitFails(f) PROVE ChainInv'
  BY <1>26 DEF StartSplitFails, Fault, Holds, End, Return, chainVars, apiVars, Goto
<1>27. ASSUME NEW f \in Finishers, StartSplitLost(f) PROVE ChainInv'
  BY <1>27 DEF StartSplitLost, Fault, Holds, Return, rowVars, chainVars, apiVars, Goto
<1>28. ASSUME NEW f \in Finishers, RejectShards(f) PROVE ChainInv'
  BY <1>28 DEF RejectShards, Fault, Goto, chainVars, apiVars
<1>29. ASSUME NEW f \in Finishers, FinalizeRejected(f) PROVE ChainInv'
  BY <1>29 DEF FinalizeRejected, Goto, chainVars, apiVars
<1>30. ASSUME NEW f \in Finishers, CommitOutcome(f) PROVE ChainInv'
  <2>1. status' \in Terminal /\ UNCHANGED <<decisionID, chainDecisions>>
    <3>1. status \notin {"held", "deciding"} /\ VerdictOf[decisionID] = "rejected"
      BY <1>30 DEF CommitOutcome
    <3>2. status = "rejected" \/ status = "canceled"
      BY <3>1 DEF RecordedBeforeItTakesEffect
    <3> QED
      BY <1>30, <3>2 DEF CommitOutcome
  <2>2. outcome'.after = chainDecisions
    BY <1>30 DEF CommitOutcome, Record
  <2> QED
    BY <1>30, <2>1, <2>2 DEF CommitOutcome
<1>31. ASSUME NEW f \in Finishers, Coordinate(f) PROVE ChainInv'
  BY <1>31 DEF Coordinate, Executed, Holds, End, chainVars, apiVars
<1>32. ASSUME NEW f \in Finishers, CoordinatorStops(f) PROVE ChainInv'
  BY <1>32 DEF CoordinatorStops, Holds, rowVars, chainVars, apiVars
<1>33. ASSUME Execute PROVE ChainInv'
  BY <1>33 DEF Execute, Executed, End, chainVars, workVars, apiVars
<1>34. ASSUME Sweep PROVE ChainInv'
  BY <1>34 DEF Sweep, Fault, End, chainVars, workVars, apiVars
<1>35. ASSUME CommitOwed PROVE ChainInv'
  BY <1>35 DEF CommitOwed, Fault, Record, workVars, apiVars
<1>36. ASSUME CancelRead PROVE ChainInv'
  BY <1>36 DEF CancelRead, rowVars, chainVars, workVars
<1>37. ASSUME CancelWaiting PROVE ChainInv'
  BY <1>37 DEF CancelWaiting, CancelLands, chainVars, workVars, CanCancel, End
<1>38. ASSUME CancelWaitingLost PROVE ChainInv'
  BY <1>38 DEF CancelWaitingLost, CanCancel, rowVars, chainVars, workVars
<1>39. ASSUME CancelChildren PROVE ChainInv'
  BY <1>39 DEF CancelChildren, chainVars, workVars
<1>40. ASSUME CancelFlag PROVE ChainInv'
  BY <1>40 DEF CancelFlag, chainVars, workVars
<1>41. ASSUME NEW p \in Procs, Crash(p) PROVE ChainInv'
  BY <1>41 DEF Crash, Fault, rowVars, chainVars
<1>42. CASE UNCHANGED vars
  BY <1>42 DEF vars, rowVars, chainVars, workVars, apiVars
<1> QED
  BY <1>1, <1>2, <1>3, <1>4, <1>5, <1>6, <1>7, <1>8, <1>9, <1>10, <1>11, <1>12, <1>13, <1>14,
       <1>15, <1>16, <1>17, <1>18, <1>19, <1>20, <1>21, <1>22, <1>23, <1>24, <1>25, <1>26, <1>27,
       <1>28, <1>29, <1>30, <1>31, <1>32, <1>33, <1>34, <1>35, <1>36, <1>37, <1>38, <1>39, <1>40,
       <1>41, <1>42 DEF Next, DecideStep, FinishStep, CancelStep

\* Every step, and so every reachable state, keeps the whole inductive invariant.
LEMMA NextInv == IndInv /\ [Next]_vars => IndInv'
BY TypeOKStep, RowInvStep, WorkInvStep, RecordInvStep, ChainInvStep DEF IndInv

\* The inductive invariant holds in every state the decision protocol reaches.
THEOREM Invariance == Spec => []IndInv
BY InitInv, NextInv, PTL DEF Spec

\* Every variable of the protocol keeps its type, in every execution of finishDecision and its callers.
THEOREM TypeCorrect == Spec => []TypeOK
<1>1. IndInv => TypeOK
  BY DEF IndInv
<1> QED
  BY Invariance, <1>1, PTL

\* However many deciders, janitors, retries and cancels meet on one run, decide and finishDecision put
\* no decision on the chain but the one whose claim the row holds.
THEOREM OneDecisionRecorded == Spec => []OnlyTheWinnerIsRecorded
<1>1. IndInv => OnlyTheWinnerIsRecorded
  BY DEF IndInv, ChainInv
<1> QED
  BY Invariance, <1>1, PTL

\* finishDecision's order, append before stamp before settle, holds against every failure and every
\* concurrent finisher: what was released or refused is on the chain, and what was released is stamped.
THEOREM EffectsAreRecorded == Spec => []RecordedBeforeItTakesEffect
<1>1. IndInv => RecordedBeforeItTakesEffect
  BY DEF IndInv, RowInv
<1> QED
  BY Invariance, <1>1, PTL

\* commitOwed, finalize and the appends of slow finishers never put a decision after the outcome.
THEOREM DecisionsPrecedeOutcome == Spec => []DecisionBeforeOutcome
<1>1. IndInv => DecisionBeforeOutcome
  BY DEF IndInv, ChainInv
<1> QED
  BY Invariance, <1>1, PTL

\* withdrawRecord never removes the record of the decision whose claim landed.
THEOREM WinnersRecordStays == Spec => []WinnerKeepsItsRecord
<1>1. IndInv => WinnerKeepsItsRecord
  BY DEF IndInv, RecordInv
<1> QED
  BY Invariance, <1>1, PTL

-----------------------------------------------------------------------------
(* The protocol implements ApprovalGate.                                   *)

\* What a step may do to the gate's variables: nothing, claim the run, record the decision on it,
\* settle a recorded one, cancel the undecided run, or end a decided one.
GateStep ==
  \/ UNCHANGED <<status, decisionID, chainDecisions>>
  \/ /\ status = "held" /\ status' = "deciding" /\ decisionID' \in Deciders
     /\ UNCHANGED chainDecisions
  \/ /\ decisionID \in Deciders /\ chainDecisions' = chainDecisions \cup {decisionID}
     /\ UNCHANGED <<status, decisionID>>
  \/ /\ status = "deciding" /\ decisionID \in Deciders /\ decisionID \in chainDecisions
     /\ status' \in {"rejected", "running", "pending"} /\ UNCHANGED <<decisionID, chainDecisions>>
  \/ /\ status \in {"held", "pending", "running"} /\ status' \in Terminal
     /\ UNCHANGED <<decisionID, chainDecisions>>

\* Each handler, sweep and coordinator step does one of those things.
LEMMA StepsOfTheGate == ASSUME IndInv, [Next]_vars PROVE GateStep
<1> USE ConstantsAssumption DEF IndInv, TypeOK, WorkInv, Finishing, Finishers, Terminal, GateStep
<1>1. ASSUME NEW d \in Deciders, ReadHeld(d) PROVE GateStep
  BY <1>1 DEF ReadHeld, Goto, rowVars, chainVars, apiVars
<1>2. ASSUME NEW d \in Deciders, KeepRecord(d) PROVE GateStep
  BY <1>2 DEF KeepRecord, Goto, rowVars, chainVars, apiVars
<1>3. ASSUME NEW d \in Deciders, KeepFails(d) PROVE GateStep
  BY <1>3 DEF KeepFails, Fault, Return, rowVars, chainVars, apiVars, Goto
<1>4. ASSUME NEW d \in Deciders, ClaimDecision(d) PROVE GateStep
  BY <1>4 DEF ClaimDecision, ClaimLands, Goto, chainVars, apiVars, CanClaim
<1>5. ASSUME NEW d \in Deciders, ClaimLost(d) PROVE GateStep
  BY <1>5 DEF ClaimLost, CanClaim, Goto, rowVars, chainVars, apiVars
<1>6. ASSUME NEW d \in Deciders, ClaimFails(d) PROVE GateStep
  BY <1>6 DEF ClaimFails, Fault, ClaimLands, Goto, chainVars, apiVars, CanClaim
<1>7. ASSUME NEW d \in Deciders, VerifyClaim(d) PROVE GateStep
  BY <1>7 DEF VerifyClaim, Goto, rowVars, chainVars, apiVars
<1>8. ASSUME NEW d \in Deciders, VerifyFails(d) PROVE GateStep
  BY <1>8 DEF VerifyFails, Fault, Return, rowVars, chainVars, apiVars, Goto
<1>9. ASSUME NEW d \in Deciders, Withdraw(d) PROVE GateStep
  BY <1>9 DEF Withdraw, Return, rowVars, chainVars, apiVars, Goto
<1>10. ASSUME NEW d \in Deciders, WithdrawFails(d) PROVE GateStep
  BY <1>10 DEF WithdrawFails, Fault, Return, rowVars, chainVars, apiVars, Goto
<1>11. ASSUME NEW j \in Janitors, TakeClaim(j) PROVE GateStep
  BY <1>11 DEF TakeClaim, Goto, rowVars, chainVars, apiVars
<1>12. ASSUME NEW f \in Finishers, AppendEntry(f) PROVE GateStep
  BY <1>12 DEF AppendEntry, Goto, Approves, rowVars, apiVars
<1>13. ASSUME NEW f \in Finishers, AppendFails(f) PROVE GateStep
  BY <1>13 DEF AppendFails, Fault, Return, rowVars, apiVars, Goto
<1>14. ASSUME NEW f \in Finishers, Stamp(f) PROVE GateStep
  BY <1>14 DEF Stamp, Goto, chainVars, apiVars
<1>15. ASSUME NEW f \in Finishers, StampFails(f) PROVE GateStep
  BY <1>15 DEF StampFails, Fault, Return, chainVars, apiVars, Goto
<1>16. ASSUME NEW f \in Finishers, Settle(f) PROVE GateStep
  BY <1>16 DEF Settle, SettleLands, Goto, chainVars, apiVars, CanSettle, Approves
<1>17. ASSUME NEW f \in Finishers, SettleLost(f) PROVE GateStep
  BY <1>17 DEF SettleLost, CanSettle, Return, rowVars, chainVars, apiVars, Goto
<1>18. ASSUME NEW f \in Finishers, SettleFails(f) PROVE GateStep
  BY <1>18 DEF SettleFails, Fault, SettleLands, Goto, chainVars, apiVars, CanSettle, Approves
<1>19. ASSUME NEW f \in Finishers, Confirm(f) PROVE GateStep
  BY <1>19 DEF Confirm, Goto, Return, rowVars, chainVars, apiVars
<1>20. ASSUME NEW f \in Finishers, ReadSettled(f) PROVE GateStep
  BY <1>20 DEF ReadSettled, Goto, Approves, rowVars, chainVars, apiVars
<1>21. ASSUME NEW f \in Finishers, ReadFails(f) PROVE GateStep
  BY <1>21 DEF ReadFails, Fault, Return, rowVars, chainVars, apiVars, Goto
<1>22. ASSUME NEW f \in Finishers, ReleasePlain(f) PROVE GateStep
  BY <1>22 DEF ReleasePlain, Return, rowVars, chainVars, apiVars, Goto
<1>23. ASSUME NEW f \in Finishers, HonorCancel(f) PROVE GateStep
  BY <1>23 DEF HonorCancel, CancelLands, Return, chainVars, apiVars, CanCancel, End, Goto
<1>24. ASSUME NEW f \in Finishers, HonorCancelLost(f) PROVE GateStep
  BY <1>24 DEF HonorCancelLost, CanCancel, Fault, Return, rowVars, chainVars, apiVars, Goto
<1>25. ASSUME NEW f \in Finishers, StartSplit(f) PROVE GateStep
  BY <1>25 DEF StartSplit, Return, chainVars, apiVars, Goto
<1>26. ASSUME NEW f \in Finishers, StartSplitFails(f) PROVE GateStep
  BY <1>26 DEF StartSplitFails, Fault, Holds, End, Return, chainVars, apiVars, Goto
<1>27. ASSUME NEW f \in Finishers, StartSplitLost(f) PROVE GateStep
  BY <1>27 DEF StartSplitLost, Fault, Holds, Return, rowVars, chainVars, apiVars, Goto
<1>28. ASSUME NEW f \in Finishers, RejectShards(f) PROVE GateStep
  BY <1>28 DEF RejectShards, Fault, Goto, chainVars, apiVars
<1>29. ASSUME NEW f \in Finishers, FinalizeRejected(f) PROVE GateStep
  BY <1>29 DEF FinalizeRejected, Goto, chainVars, apiVars
<1>30. ASSUME NEW f \in Finishers, CommitOutcome(f) PROVE GateStep
  BY <1>30 DEF CommitOutcome, Record, Return, apiVars, Goto
<1>31. ASSUME NEW f \in Finishers, Coordinate(f) PROVE GateStep
  BY <1>31 DEF Coordinate, Executed, Holds, End, chainVars, apiVars
<1>32. ASSUME NEW f \in Finishers, CoordinatorStops(f) PROVE GateStep
  BY <1>32 DEF CoordinatorStops, Holds, rowVars, chainVars, apiVars
<1>33. ASSUME Execute PROVE GateStep
  BY <1>33 DEF Execute, Executed, End, chainVars, workVars, apiVars
<1>34. ASSUME Sweep PROVE GateStep
  BY <1>34 DEF Sweep, Fault, End, chainVars, workVars, apiVars
<1>35. ASSUME CommitOwed PROVE GateStep
  BY <1>35 DEF CommitOwed, Fault, Record, workVars, apiVars
<1>36. ASSUME CancelRead PROVE GateStep
  BY <1>36 DEF CancelRead, rowVars, chainVars, workVars
<1>37. ASSUME CancelWaiting PROVE GateStep
  BY <1>37 DEF CancelWaiting, CancelLands, chainVars, workVars, CanCancel, End
<1>38. ASSUME CancelWaitingLost PROVE GateStep
  BY <1>38 DEF CancelWaitingLost, CanCancel, rowVars, chainVars, workVars
<1>39. ASSUME CancelChildren PROVE GateStep
  BY <1>39 DEF CancelChildren, chainVars, workVars
<1>40. ASSUME CancelFlag PROVE GateStep
  BY <1>40 DEF CancelFlag, chainVars, workVars
<1>41. ASSUME NEW p \in Procs, Crash(p) PROVE GateStep
  BY <1>41 DEF Crash, Fault, rowVars, chainVars
<1>42. CASE UNCHANGED vars
  BY <1>42 DEF vars, rowVars, chainVars
<1> QED
  BY <1>1, <1>2, <1>3, <1>4, <1>5, <1>6, <1>7, <1>8, <1>9, <1>10, <1>11, <1>12, <1>13, <1>14,
       <1>15, <1>16, <1>17, <1>18, <1>19, <1>20, <1>21, <1>22, <1>23, <1>24, <1>25, <1>26, <1>27,
       <1>28, <1>29, <1>30, <1>31, <1>32, <1>33, <1>34, <1>35, <1>36, <1>37, <1>38, <1>39, <1>40,
       <1>41, <1>42 DEF Next, DecideStep, FinishStep, CancelStep

\* The initial row is a gate nobody has claimed.
LEMMA GateInit == Init => Gate!Init
BY DEF Init, Gate!Init, GateState, Gate!NoWinner, NoDecision

\* Each of those steps is a step of the gate, or stutters in it.
LEMMA GateNext == ASSUME IndInv, GateStep PROVE [Gate!Next]_(Gate!gateVars)
<1> USE ConstantsAssumption DEF GateState
<1>1. CASE UNCHANGED <<status, decisionID, chainDecisions>>
  BY <1>1 DEF Gate!gateVars
<1>2. CASE /\ status = "held" /\ status' = "deciding" /\ decisionID' \in Deciders
           /\ UNCHANGED chainDecisions
  BY <1>2 DEF Gate!Next, Gate!Decide
<1>3. CASE /\ decisionID \in Deciders /\ chainDecisions' = chainDecisions \cup {decisionID}
           /\ UNCHANGED <<status, decisionID>>
  <2>1. CASE status = "deciding" /\ chainDecisions = {}
    <3>1. GateState = "claimed" /\ chainDecisions' # {} /\ UNCHANGED <<GateState, decisionID>>
      BY <1>3, <2>1
    <3> QED
      BY <2>1, <3>1 DEF Gate!Next, Gate!Record
  <2>2. CASE decisionID \in chainDecisions \/ chainDecisions # {}
    <3>1. chainDecisions # {} /\ chainDecisions' # {} /\ UNCHANGED <<GateState, decisionID>>
      BY <1>3, <2>2
    <3> QED
      BY <3>1 DEF Gate!gateVars
  <2>3. status # "deciding" => decisionID \in chainDecisions
    BY <1>3 DEF IndInv, RowInv
  <2> QED
    BY <2>1, <2>2, <2>3
<1>4. CASE /\ status = "deciding" /\ decisionID \in Deciders /\ decisionID \in chainDecisions
           /\ status' \in {"rejected", "running", "pending"} /\ UNCHANGED <<decisionID, chainDecisions>>
  BY <1>4 DEF Gate!Next, Gate!Settle
<1>5. CASE /\ status \in {"held", "pending", "running"} /\ status' \in Terminal
           /\ UNCHANGED <<decisionID, chainDecisions>>
  <2>1. status' \notin {"held", "deciding"}
    BY <1>5 DEF Terminal
  <2>2. CASE status = "held"
    <3>1. GateState = "waiting" /\ GateState' = "closed" /\ UNCHANGED <<decisionID, chainDecisions>>
      BY <1>5, <2>1, <2>2 DEF IndInv, RowInv
    <3> QED
      BY <3>1 DEF Gate!Next, Gate!Close
  <2>3. CASE status # "held"
    <3>1. UNCHANGED <<GateState, decisionID, chainDecisions>>
      BY <1>5, <2>1, <2>3
    <3> QED
      BY <3>1 DEF Gate!gateVars
  <2> QED
    BY <2>2, <2>3
<1> QED
  BY <1>1, <1>2, <1>3, <1>4, <1>5 DEF GateStep

\* The decision protocol of decide.go implements the gate, whatever the number of deciders, janitors,
\* processes, faults and cancels, for plain and split runs.
THEOREM Refinement == Spec => ImplementsGate
<1>1. IndInv /\ [Next]_vars => [Gate!Next]_(Gate!gateVars)
  BY StepsOfTheGate, GateNext
<1> QED
  BY Invariance, GateInit, <1>1, PTL DEF Spec, ImplementsGate, Gate!Spec
=============================================================================
