------------------------- MODULE RunLifecycleProofs -------------------------
(***************************************************************************)
(* Proofs about RunLifecycle, for every set of runs, processes and slots   *)
(* and every number of faults.                                             *)
(***************************************************************************)
EXTENDS RunLifecycle, TLAPS

\* What a goroutine holds while it is not idle: a run, a status to record from finalize on, and, for
\* a slot, a secret minted for that run.
HandsInv ==
  /\ \A e \in Executors : pc[e] # "idle" => job[e] \in Runs
  /\ \A e \in Executors : pc[e] \in {"finalizing", "reading", "saving", "committing"}
                            => fin[e] \in Terminal
  /\ \A o \in Owners, r \in Runs : owes[o][r] # NoEnd => owes[o][r].fin \in Terminal
  /\ \A e \in Slots : pc[e] # "idle" => held[e] # 0 /\ held[e] <= minted[job[e]]
  /\ \A l \in Landers : pc[l] \in {"idle", "finalizing", "reading", "saving", "committing"}

\* No two slots hold the same claim.
ClaimInv ==
  \A e1, e2 \in Slots : pc[e1] # "idle" /\ pc[e2] # "idle" /\ job[e1] = job[e2]
                          /\ held[e1] = held[e2] => e1 = e2

\* A run's start belongs to the claim of the slot executing it, and it never reads pending again.
StartInv ==
  /\ \A e \in Slots : Executing(e) => started[job[e]] = held[e]
  /\ \A r \in Runs : status[r] = "pending" => started[r] = 0
  /\ RunsUnderItsClaim

\* A run the ledger or the chain knows of has ended, unless a whole-row save wrote over its end.
KnownHasEnded ==
  \A r \in Runs : r \notin rewritten /\ (r \in owed \/ outcome[r] # NoStatus) => status[r] \in Terminal

\* A goroutine about to commit an outcome commits the one the row shows, unless a whole-row save
\* wrote over the end.
CommitsTheRow ==
  \A e \in Executors : pc[e] = "committing" /\ job[e] \notin rewritten => status[job[e]] = fin[e]

\* The ledger, the chain and the rows agree.
RecordInv == KnownHasEnded /\ CommitsTheRow /\ ChainAgrees /\ EndOwedOrRecorded

\* The inductive invariant.
IndInv == TypeOK /\ HandsInv /\ ClaimInv /\ StartInv /\ RecordInv

\* The marker for "the chain holds no outcome of this run" is no status of a run.
LEMMA NoStatusIsNone == NoStatus \notin Statuses
BY DEF NoStatus, Statuses, Terminal

\* The initial rows, idle goroutines and empty chain satisfy the inductive invariant.
LEMMA InitInv == Init => IndInv
<1> SUFFICES ASSUME Init PROVE IndInv
  OBVIOUS
<1> USE ConstantsAssumption DEF Init, Executors
<1>1. TypeOK
  BY DEF TypeOK, Statuses, Terminal, NoEnd
<1>2. HandsInv
  BY DEF HandsInv
<1>3. ClaimInv
  BY DEF ClaimInv
<1>4. StartInv
  BY DEF StartInv, RunsUnderItsClaim, Executing
<1>5. RecordInv
  BY DEF RecordInv, KnownHasEnded, CommitsTheRow, ChainAgrees, EndOwedOrRecorded, Terminal
<1> QED
  BY <1>1, <1>2, <1>3, <1>4, <1>5 DEF IndInv

\* A run that has not ended has nothing on the ledger or the chain and nobody about to commit it.
LEMMA LiveIsUnrecorded ==
  ASSUME IndInv, NEW r \in Runs, status[r] \notin Terminal, r \notin rewritten
  PROVE  /\ r \notin owed /\ outcome[r] = NoStatus
         /\ \A x \in Executors : ~(pc[x] = "committing" /\ job[x] = r)
BY DEF IndInv, HandsInv, RecordInv, KnownHasEnded, CommitsTheRow

\* No step of a slot, a sweep, a watch or a cancel breaks a variable's type.
LEMMA TypeOKStep == ASSUME IndInv, [Next]_vars PROVE TypeOK'
<1> USE ConstantsAssumption DEF IndInv, TypeOK, HandsInv, Executors, Statuses, Terminal, NoEnd
<1>1. ASSUME NEW e \in Slots, NEW r \in Runs, Claim(e, r) PROVE TypeOK'
  BY <1>1 DEF Claim, Unclaimed, SetRow, Goto, memVars, apiVars, histVars
<1>2. ASSUME NEW e \in Slots, Enter(e) PROVE TypeOK'
  BY <1>2 DEF Enter, HoldsLease, Goto, chainVars, apiVars, histVars
<1>3. ASSUME NEW e \in Slots, Refuse(e) PROVE TypeOK'
  BY <1>3 DEF Refuse, BeginEnd, rowVars, chainVars, memVars, apiVars, histVars, Goto
<1>4. ASSUME NEW e \in Slots, Start(e) PROVE TypeOK'
  BY <1>4 DEF Start, StartLands, Goto, memVars, apiVars, CanStart, SetRow
<1>5. ASSUME NEW e \in Slots, StartRefused(e) PROVE TypeOK'
  BY <1>5 DEF StartRefused, CanStart, Leave, rowVars, chainVars, apiVars, histVars, Goto
<1>6. ASSUME NEW e \in Slots, StartFails(e) PROVE TypeOK'
  <2>1. CASE StartLands(e)
    BY <1>6, <2>1 DEF StartFails, Fault, StartLands, Leave, apiVars, CanStart, SetRow, Goto
  <2>2. CASE UNCHANGED <<status, claimedBy, claimSecret, stale, owed, started>>
    BY <1>6, <2>2 DEF StartFails, Fault, StartLands, Leave, apiVars, CanStart, SetRow, Goto
  <2> QED
    BY <1>6, <2>1, <2>2 DEF StartFails
<1>7. ASSUME NEW e \in Slots, StartUnrecorded(e) PROVE TypeOK'
  BY <1>7 DEF StartUnrecorded, BeginEnd, rowVars, chainVars, memVars, apiVars, histVars, Goto
<1>8. ASSUME NEW e \in Slots, OpenEvents(e) PROVE TypeOK'
  BY <1>8 DEF OpenEvents, Goto, rowVars, chainVars, memVars, apiVars, histVars
<1>9. ASSUME NEW e \in Slots, OpenEventsFails(e) PROVE TypeOK'
  BY <1>9 DEF OpenEventsFails, SaveCopy, Goto, memVars, apiVars, SetRow
<1>10. ASSUME NEW e \in Slots, Reread(e) PROVE TypeOK'
  BY <1>10 DEF Reread, Goto, rowVars, chainVars, memVars, apiVars, histVars
<1>11. ASSUME NEW e \in Slots, RereadCanceled(e) PROVE TypeOK'
  BY <1>11 DEF RereadCanceled, BeginEnd, rowVars, chainVars, memVars, apiVars, histVars, Goto
<1>12. ASSUME NEW e \in Slots, RereadFails(e) PROVE TypeOK'
  BY <1>12 DEF RereadFails, Fault, Leave, rowVars, chainVars, apiVars, histVars, Goto
<1>13. ASSUME NEW e \in Slots, ToolEnds(e) PROVE TypeOK'
  BY <1>13 DEF ToolEnds, EndsAs, BeginEnd, rowVars, chainVars, memVars, apiVars, histVars, Goto
<1>14. ASSUME NEW e \in Slots, WatchRenews(e) PROVE TypeOK'
  BY <1>14 DEF WatchRenews, Watches, HoldsLease, chainVars, exVars, memVars, apiVars, histVars
<1>15. ASSUME NEW e \in Slots, WatchCancels(e) PROVE TypeOK'
  BY <1>15 DEF WatchCancels, Watches, HoldsLease, Stop, chainVars, memVars, apiVars, histVars
<1>16. ASSUME NEW e \in Slots, WatchLoses(e) PROVE TypeOK'
  BY <1>16 DEF WatchLoses, Watches, HoldsLease, Fault, Stop, rowVars, chainVars, memVars, apiVars,
       histVars
<1>17. ASSUME NEW e \in Slots, TimesOut(e) PROVE TypeOK'
  BY <1>17 DEF TimesOut, Fault, rowVars, chainVars, memVars, apiVars, histVars
<1>18. ASSUME NEW e \in Executors, Finalize(e) PROVE TypeOK'
  BY <1>18 DEF Finalize, CanFinalize, FinalizeRunning, Settle, Goto, apiVars, histVars, SetRow
<1>19. ASSUME NEW e \in Executors, FinalizeRefused(e) PROVE TypeOK'
  BY <1>19 DEF FinalizeRefused, CanFinalize, Goto, rowVars, chainVars, memVars, apiVars, histVars
<1>20. ASSUME NEW e \in Executors, FinalizeFails(e) PROVE TypeOK'
  <2>1. CASE UNCHANGED <<status, claimedBy, claimSecret, stale, owed>>
    BY <1>20, <2>1 DEF FinalizeFails, Fault, CanFinalize, FinalizeRunning, Goto, memVars, apiVars,
         histVars, SetRow
  <2>2. CASE CanFinalize(OwnerOf[e], job[e]) /\ FinalizeRunning(job[e], fin[e])
    BY <1>20, <2>2 DEF FinalizeFails, Fault, CanFinalize, FinalizeRunning, Goto, memVars, apiVars,
         histVars, SetRow
  <2> QED
    BY <1>20, <2>1, <2>2 DEF FinalizeFails
<1>21. ASSUME NEW e \in Executors, ReadBack(e) PROVE TypeOK'
  BY <1>21 DEF ReadBack, MayOverwrite, Goto, rowVars, chainVars, memVars, apiVars, histVars
<1>22. ASSUME NEW e \in Executors, YieldEnd(e) PROVE TypeOK'
  BY <1>22 DEF YieldEnd, MayOverwrite, Settle, Leave, rowVars, chainVars, apiVars, histVars, Goto
<1>23. ASSUME NEW e \in Executors, ReadBackFails(e) PROVE TypeOK'
  BY <1>23 DEF ReadBackFails, Fault, Owe, Leave, rowVars, chainVars, apiVars, histVars, Goto
<1>24. ASSUME NEW e \in Executors, SaveEnd(e) PROVE TypeOK'
  BY <1>24 DEF SaveEnd, SaveCopy, Settle, Goto, apiVars, SetRow
<1>25. ASSUME NEW e \in Executors, SaveEndFails(e) PROVE TypeOK'
  BY <1>25 DEF SaveEndFails, Fault, Owe, Leave, rowVars, chainVars, apiVars, histVars, Goto
<1>26. ASSUME NEW e \in Executors, CommitOutcome(e) PROVE TypeOK'
  BY <1>26 DEF CommitOutcome, Record, Leave, rowVars, apiVars, histVars, Goto
<1>27. ASSUME NEW e \in Executors, CommitFails(e) PROVE TypeOK'
  BY <1>27 DEF CommitFails, Fault, Record, Leave, rowVars, apiVars, histVars, Goto
<1>28. ASSUME NEW l \in Landers, NEW r \in Runs, LandOwed(l, r) PROVE TypeOK'
  BY <1>28 DEF LandOwed, HoldsLease, BeginEnd, chainVars, memVars, apiVars, histVars, Goto
<1>29. ASSUME NEW r \in Runs, CancelRead(r) PROVE TypeOK'
  BY <1>29 DEF CancelRead, Unclaimed, rowVars, chainVars, exVars, memVars, histVars
<1>30. ASSUME NEW r \in Runs, CancelWaiting(r) PROVE TypeOK'
  BY <1>30 DEF CancelWaiting, Unclaimed, Record, exVars, memVars, histVars
<1>31. ASSUME NEW r \in Runs, CancelWaitingLost(r) PROVE TypeOK'
  BY <1>31 DEF CancelWaitingLost, Unclaimed, rowVars, chainVars, exVars, memVars, histVars
<1>32. ASSUME NEW r \in Runs, CancelFlag(r) PROVE TypeOK'
  BY <1>32 DEF CancelFlag, Stop, chainVars, memVars, histVars
<1>33. ASSUME NEW r \in Runs, SettleOverrunning(r) PROVE TypeOK'
  BY <1>33 DEF SettleOverrunning, FinalizeRunning, exVars, memVars, apiVars, histVars, SetRow
<1>34. ASSUME NEW r \in Runs, CommitOwed(r) PROVE TypeOK'
  BY <1>34 DEF CommitOwed, Record, rowVars, exVars, memVars, apiVars, histVars
<1>35. ASSUME NEW r \in Runs, Expire(r) PROVE TypeOK'
  BY <1>35 DEF Expire, HoldsLease, Attended, Fault, chainVars, exVars, memVars, apiVars, histVars,
       Watches
<1>36. ASSUME Sweep PROVE TypeOK'
  BY <1>36 DEF Sweep, Stale, Swept, exVars, memVars, apiVars, histVars
<1>37. ASSUME NEW o \in Owners, Crash(o) PROVE TypeOK'
  <2>1. owes' \in [Owners -> [Runs -> [secret : Nat, fin : Terminal \cup {NoStatus}]]]
    BY <1>37 DEF Crash
  <2>2. cancels' \in [Owners -> [Runs -> Slots \cup {NoSlot}]]
    BY <1>37 DEF Crash
  <2>3. pc' \in [Executors -> {"idle", "claimed", "checking", "started", "rereading", "executing",
                          "finalizing", "reading", "saving", "committing"}]
    BY <1>37 DEF Crash
  <2>4. /\ job' \in [Executors -> Runs \cup {NoRun}] /\ held' \in [Executors -> Nat]
        /\ fin' \in [Executors -> Terminal \cup {NoStatus}]
        /\ ctx' \in [Executors -> {"live", "canceled", "lost", "timeout"}]
        /\ watching' \in [Executors -> BOOLEAN]
    BY <1>37 DEF Crash
  <2>5. faults' \in Nat
    BY <1>37 DEF Crash, Fault
  <2>6. UNCHANGED <<rowVars, chainVars, apiVars, minted, histVars>>
    BY <1>37 DEF Crash
  <2> QED
    BY <2>1, <2>2, <2>3, <2>4, <2>5, <2>6 DEF rowVars, chainVars, apiVars, histVars
<1>38. CASE UNCHANGED vars
  BY <1>38 DEF vars, rowVars, chainVars, exVars, memVars, apiVars, histVars, Stale, Watches
<1> QED
  BY <1>1, <1>2, <1>3, <1>4, <1>5, <1>6, <1>7, <1>8, <1>9, <1>10, <1>11, <1>12, <1>13, <1>14,
       <1>15, <1>16, <1>17, <1>18, <1>19, <1>20, <1>21, <1>22, <1>23, <1>24, <1>25, <1>26, <1>27,
       <1>28, <1>29, <1>30, <1>31, <1>32, <1>33, <1>34, <1>35, <1>36, <1>37, <1>38 DEF Next,
       SlotStep, EndStep, RunStep

\* Every step leaves each busy goroutine with a run, its claim and the status it records.
LEMMA HandsInvStep == ASSUME IndInv, [Next]_vars PROVE HandsInv'
<1> USE ConstantsAssumption DEF IndInv, TypeOK, HandsInv, Executors, Statuses, Terminal, NoEnd
<1>1. ASSUME NEW e \in Slots, NEW r \in Runs, Claim(e, r) PROVE HandsInv'
  BY <1>1 DEF Claim, Unclaimed, SetRow, Goto, memVars, apiVars, histVars
<1>2. ASSUME NEW e \in Slots, Enter(e) PROVE HandsInv'
  BY <1>2 DEF Enter, HoldsLease, Goto, chainVars, apiVars, histVars
<1>3. ASSUME NEW e \in Slots, Refuse(e) PROVE HandsInv'
  BY <1>3 DEF Refuse, BeginEnd, rowVars, chainVars, memVars, apiVars, histVars, Goto
<1>4. ASSUME NEW e \in Slots, Start(e) PROVE HandsInv'
  BY <1>4 DEF Start, StartLands, Goto, memVars, apiVars, CanStart, SetRow
<1>5. ASSUME NEW e \in Slots, StartRefused(e) PROVE HandsInv'
  BY <1>5 DEF StartRefused, CanStart, Leave, rowVars, chainVars, apiVars, histVars, Goto
<1>6. ASSUME NEW e \in Slots, StartFails(e) PROVE HandsInv'
  BY <1>6 DEF StartFails, Fault, StartLands, Leave, apiVars, CanStart, SetRow, Goto
<1>7. ASSUME NEW e \in Slots, StartUnrecorded(e) PROVE HandsInv'
  BY <1>7 DEF StartUnrecorded, BeginEnd, rowVars, chainVars, memVars, apiVars, histVars, Goto
<1>8. ASSUME NEW e \in Slots, OpenEvents(e) PROVE HandsInv'
  BY <1>8 DEF OpenEvents, Goto, rowVars, chainVars, memVars, apiVars, histVars
<1>9. ASSUME NEW e \in Slots, OpenEventsFails(e) PROVE HandsInv'
  BY <1>9 DEF OpenEventsFails, SaveCopy, Goto, memVars, apiVars, SetRow
<1>10. ASSUME NEW e \in Slots, Reread(e) PROVE HandsInv'
  BY <1>10 DEF Reread, Goto, rowVars, chainVars, memVars, apiVars, histVars
<1>11. ASSUME NEW e \in Slots, RereadCanceled(e) PROVE HandsInv'
  BY <1>11 DEF RereadCanceled, BeginEnd, rowVars, chainVars, memVars, apiVars, histVars, Goto
<1>12. ASSUME NEW e \in Slots, RereadFails(e) PROVE HandsInv'
  BY <1>12 DEF RereadFails, Fault, Leave, rowVars, chainVars, apiVars, histVars, Goto
<1>13. ASSUME NEW e \in Slots, ToolEnds(e) PROVE HandsInv'
  BY <1>13 DEF ToolEnds, EndsAs, BeginEnd, rowVars, chainVars, memVars, apiVars, histVars, Goto
<1>14. ASSUME NEW e \in Slots, WatchRenews(e) PROVE HandsInv'
  BY <1>14 DEF WatchRenews, Watches, HoldsLease, chainVars, exVars, memVars, apiVars, histVars
<1>15. ASSUME NEW e \in Slots, WatchCancels(e) PROVE HandsInv'
  BY <1>15 DEF WatchCancels, Watches, HoldsLease, Stop, chainVars, memVars, apiVars, histVars
<1>16. ASSUME NEW e \in Slots, WatchLoses(e) PROVE HandsInv'
  BY <1>16 DEF WatchLoses, Watches, HoldsLease, Fault, Stop, rowVars, chainVars, memVars, apiVars,
       histVars
<1>17. ASSUME NEW e \in Slots, TimesOut(e) PROVE HandsInv'
  BY <1>17 DEF TimesOut, Fault, rowVars, chainVars, memVars, apiVars, histVars
<1>18. ASSUME NEW e \in Executors, Finalize(e) PROVE HandsInv'
  BY <1>18 DEF Finalize, CanFinalize, FinalizeRunning, Settle, Goto, apiVars, histVars, SetRow
<1>19. ASSUME NEW e \in Executors, FinalizeRefused(e) PROVE HandsInv'
  BY <1>19 DEF FinalizeRefused, CanFinalize, Goto, rowVars, chainVars, memVars, apiVars, histVars
<1>20. ASSUME NEW e \in Executors, FinalizeFails(e) PROVE HandsInv'
  BY <1>20 DEF FinalizeFails, Fault, CanFinalize, FinalizeRunning, Goto, memVars, apiVars,
       histVars, SetRow
<1>21. ASSUME NEW e \in Executors, ReadBack(e) PROVE HandsInv'
  BY <1>21 DEF ReadBack, MayOverwrite, Goto, rowVars, chainVars, memVars, apiVars, histVars
<1>22. ASSUME NEW e \in Executors, YieldEnd(e) PROVE HandsInv'
  BY <1>22 DEF YieldEnd, MayOverwrite, Settle, Leave, rowVars, chainVars, apiVars, histVars, Goto
<1>23. ASSUME NEW e \in Executors, ReadBackFails(e) PROVE HandsInv'
  BY <1>23 DEF ReadBackFails, Fault, Owe, Leave, rowVars, chainVars, apiVars, histVars, Goto
<1>24. ASSUME NEW e \in Executors, SaveEnd(e) PROVE HandsInv'
  BY <1>24 DEF SaveEnd, SaveCopy, Settle, Goto, apiVars, SetRow
<1>25. ASSUME NEW e \in Executors, SaveEndFails(e) PROVE HandsInv'
  BY <1>25 DEF SaveEndFails, Fault, Owe, Leave, rowVars, chainVars, apiVars, histVars, Goto
<1>26. ASSUME NEW e \in Executors, CommitOutcome(e) PROVE HandsInv'
  BY <1>26 DEF CommitOutcome, Record, Leave, rowVars, apiVars, histVars, Goto
<1>27. ASSUME NEW e \in Executors, CommitFails(e) PROVE HandsInv'
  BY <1>27 DEF CommitFails, Fault, Record, Leave, rowVars, apiVars, histVars, Goto
<1>28. ASSUME NEW l \in Landers, NEW r \in Runs, LandOwed(l, r) PROVE HandsInv'
  BY <1>28 DEF LandOwed, HoldsLease, BeginEnd, chainVars, memVars, apiVars, histVars, Goto
<1>29. ASSUME NEW r \in Runs, CancelRead(r) PROVE HandsInv'
  BY <1>29 DEF CancelRead, Unclaimed, rowVars, chainVars, exVars, memVars, histVars
<1>30. ASSUME NEW r \in Runs, CancelWaiting(r) PROVE HandsInv'
  BY <1>30 DEF CancelWaiting, Unclaimed, Record, exVars, memVars, histVars
<1>31. ASSUME NEW r \in Runs, CancelWaitingLost(r) PROVE HandsInv'
  BY <1>31 DEF CancelWaitingLost, Unclaimed, rowVars, chainVars, exVars, memVars, histVars
<1>32. ASSUME NEW r \in Runs, CancelFlag(r) PROVE HandsInv'
  BY <1>32 DEF CancelFlag, Stop, chainVars, memVars, histVars
<1>33. ASSUME NEW r \in Runs, SettleOverrunning(r) PROVE HandsInv'
  BY <1>33 DEF SettleOverrunning, FinalizeRunning, exVars, memVars, apiVars, histVars, SetRow
<1>34. ASSUME NEW r \in Runs, CommitOwed(r) PROVE HandsInv'
  BY <1>34 DEF CommitOwed, Record, rowVars, exVars, memVars, apiVars, histVars
<1>35. ASSUME NEW r \in Runs, Expire(r) PROVE HandsInv'
  BY <1>35 DEF Expire, HoldsLease, Attended, Fault, chainVars, exVars, memVars, apiVars, histVars,
       Watches
<1>36. ASSUME Sweep PROVE HandsInv'
  BY <1>36 DEF Sweep, Stale, Swept, exVars, memVars, apiVars, histVars
<1>37. ASSUME NEW o \in Owners, Crash(o) PROVE HandsInv'
  BY <1>37 DEF Crash, Fault, rowVars, chainVars, apiVars, histVars
<1>38. CASE UNCHANGED vars
  BY <1>38 DEF vars, rowVars, chainVars, exVars, memVars, apiVars, histVars, Stale, Watches
<1> QED
  BY <1>1, <1>2, <1>3, <1>4, <1>5, <1>6, <1>7, <1>8, <1>9, <1>10, <1>11, <1>12, <1>13, <1>14,
       <1>15, <1>16, <1>17, <1>18, <1>19, <1>20, <1>21, <1>22, <1>23, <1>24, <1>25, <1>26, <1>27,
       <1>28, <1>29, <1>30, <1>31, <1>32, <1>33, <1>34, <1>35, <1>36, <1>37, <1>38 DEF Next,
       SlotStep, EndStep, RunStep

\* No step hands one claim to two slots: Claim mints a fresh secret each time.
LEMMA ClaimInvStep == ASSUME IndInv, [Next]_vars PROVE ClaimInv'
<1> USE ConstantsAssumption DEF IndInv, TypeOK, ClaimInv, HandsInv, Executors, Statuses, Terminal
<1>1. ASSUME NEW e \in Slots, NEW r \in Runs, Claim(e, r) PROVE ClaimInv'
  BY <1>1 DEF Claim, Unclaimed, SetRow, Goto, memVars, apiVars, histVars
<1>2. ASSUME NEW e \in Slots, Enter(e) PROVE ClaimInv'
  BY <1>2 DEF Enter, HoldsLease, Goto, chainVars, apiVars, histVars
<1>3. ASSUME NEW e \in Slots, Refuse(e) PROVE ClaimInv'
  BY <1>3 DEF Refuse, BeginEnd, rowVars, chainVars, memVars, apiVars, histVars, Goto
<1>4. ASSUME NEW e \in Slots, Start(e) PROVE ClaimInv'
  BY <1>4 DEF Start, StartLands, Goto, memVars, apiVars, CanStart, SetRow
<1>5. ASSUME NEW e \in Slots, StartRefused(e) PROVE ClaimInv'
  BY <1>5 DEF StartRefused, CanStart, Leave, rowVars, chainVars, apiVars, histVars, Goto
<1>6. ASSUME NEW e \in Slots, StartFails(e) PROVE ClaimInv'
  BY <1>6 DEF StartFails, Fault, StartLands, Leave, apiVars, CanStart, SetRow, Goto
<1>7. ASSUME NEW e \in Slots, StartUnrecorded(e) PROVE ClaimInv'
  BY <1>7 DEF StartUnrecorded, BeginEnd, rowVars, chainVars, memVars, apiVars, histVars, Goto
<1>8. ASSUME NEW e \in Slots, OpenEvents(e) PROVE ClaimInv'
  BY <1>8 DEF OpenEvents, Goto, rowVars, chainVars, memVars, apiVars, histVars
<1>9. ASSUME NEW e \in Slots, OpenEventsFails(e) PROVE ClaimInv'
  BY <1>9 DEF OpenEventsFails, SaveCopy, Goto, memVars, apiVars, SetRow
<1>10. ASSUME NEW e \in Slots, Reread(e) PROVE ClaimInv'
  BY <1>10 DEF Reread, Goto, rowVars, chainVars, memVars, apiVars, histVars
<1>11. ASSUME NEW e \in Slots, RereadCanceled(e) PROVE ClaimInv'
  BY <1>11 DEF RereadCanceled, BeginEnd, rowVars, chainVars, memVars, apiVars, histVars, Goto
<1>12. ASSUME NEW e \in Slots, RereadFails(e) PROVE ClaimInv'
  BY <1>12 DEF RereadFails, Fault, Leave, rowVars, chainVars, apiVars, histVars, Goto
<1>13. ASSUME NEW e \in Slots, ToolEnds(e) PROVE ClaimInv'
  BY <1>13 DEF ToolEnds, EndsAs, BeginEnd, rowVars, chainVars, memVars, apiVars, histVars, Goto
<1>14. ASSUME NEW e \in Slots, WatchRenews(e) PROVE ClaimInv'
  BY <1>14 DEF WatchRenews, Watches, HoldsLease, chainVars, exVars, memVars, apiVars, histVars
<1>15. ASSUME NEW e \in Slots, WatchCancels(e) PROVE ClaimInv'
  BY <1>15 DEF WatchCancels, Watches, HoldsLease, Stop, chainVars, memVars, apiVars, histVars
<1>16. ASSUME NEW e \in Slots, WatchLoses(e) PROVE ClaimInv'
  BY <1>16 DEF WatchLoses, Watches, HoldsLease, Fault, Stop, rowVars, chainVars, memVars, apiVars,
       histVars
<1>17. ASSUME NEW e \in Slots, TimesOut(e) PROVE ClaimInv'
  BY <1>17 DEF TimesOut, Fault, rowVars, chainVars, memVars, apiVars, histVars
<1>18. ASSUME NEW e \in Executors, Finalize(e) PROVE ClaimInv'
  BY <1>18 DEF Finalize, CanFinalize, FinalizeRunning, Settle, Goto, apiVars, histVars, SetRow
<1>19. ASSUME NEW e \in Executors, FinalizeRefused(e) PROVE ClaimInv'
  BY <1>19 DEF FinalizeRefused, CanFinalize, Goto, rowVars, chainVars, memVars, apiVars, histVars
<1>20. ASSUME NEW e \in Executors, FinalizeFails(e) PROVE ClaimInv'
  BY <1>20 DEF FinalizeFails, Fault, CanFinalize, FinalizeRunning, Goto, memVars, apiVars,
       histVars, SetRow
<1>21. ASSUME NEW e \in Executors, ReadBack(e) PROVE ClaimInv'
  BY <1>21 DEF ReadBack, MayOverwrite, Goto, rowVars, chainVars, memVars, apiVars, histVars
<1>22. ASSUME NEW e \in Executors, YieldEnd(e) PROVE ClaimInv'
  BY <1>22 DEF YieldEnd, MayOverwrite, Settle, Leave, rowVars, chainVars, apiVars, histVars, Goto
<1>23. ASSUME NEW e \in Executors, ReadBackFails(e) PROVE ClaimInv'
  BY <1>23 DEF ReadBackFails, Fault, Owe, Leave, rowVars, chainVars, apiVars, histVars, Goto
<1>24. ASSUME NEW e \in Executors, SaveEnd(e) PROVE ClaimInv'
  BY <1>24 DEF SaveEnd, SaveCopy, Settle, Goto, apiVars, SetRow
<1>25. ASSUME NEW e \in Executors, SaveEndFails(e) PROVE ClaimInv'
  BY <1>25 DEF SaveEndFails, Fault, Owe, Leave, rowVars, chainVars, apiVars, histVars, Goto
<1>26. ASSUME NEW e \in Executors, CommitOutcome(e) PROVE ClaimInv'
  BY <1>26 DEF CommitOutcome, Record, Leave, rowVars, apiVars, histVars, Goto
<1>27. ASSUME NEW e \in Executors, CommitFails(e) PROVE ClaimInv'
  BY <1>27 DEF CommitFails, Fault, Record, Leave, rowVars, apiVars, histVars, Goto
<1>28. ASSUME NEW l \in Landers, NEW r \in Runs, LandOwed(l, r) PROVE ClaimInv'
  BY <1>28 DEF LandOwed, HoldsLease, BeginEnd, chainVars, memVars, apiVars, histVars, Goto
<1>29. ASSUME NEW r \in Runs, CancelRead(r) PROVE ClaimInv'
  BY <1>29 DEF CancelRead, Unclaimed, rowVars, chainVars, exVars, memVars, histVars
<1>30. ASSUME NEW r \in Runs, CancelWaiting(r) PROVE ClaimInv'
  BY <1>30 DEF CancelWaiting, Unclaimed, Record, exVars, memVars, histVars
<1>31. ASSUME NEW r \in Runs, CancelWaitingLost(r) PROVE ClaimInv'
  BY <1>31 DEF CancelWaitingLost, Unclaimed, rowVars, chainVars, exVars, memVars, histVars
<1>32. ASSUME NEW r \in Runs, CancelFlag(r) PROVE ClaimInv'
  BY <1>32 DEF CancelFlag, Stop, chainVars, memVars, histVars
<1>33. ASSUME NEW r \in Runs, SettleOverrunning(r) PROVE ClaimInv'
  BY <1>33 DEF SettleOverrunning, FinalizeRunning, exVars, memVars, apiVars, histVars, SetRow
<1>34. ASSUME NEW r \in Runs, CommitOwed(r) PROVE ClaimInv'
  BY <1>34 DEF CommitOwed, Record, rowVars, exVars, memVars, apiVars, histVars
<1>35. ASSUME NEW r \in Runs, Expire(r) PROVE ClaimInv'
  BY <1>35 DEF Expire, HoldsLease, Attended, Fault, chainVars, exVars, memVars, apiVars, histVars,
       Watches
<1>36. ASSUME Sweep PROVE ClaimInv'
  BY <1>36 DEF Sweep, Stale, Swept, exVars, memVars, apiVars, histVars
<1>37. ASSUME NEW o \in Owners, Crash(o) PROVE ClaimInv'
  BY <1>37 DEF Crash, Fault, rowVars, chainVars, apiVars, histVars
<1>38. CASE UNCHANGED vars
  BY <1>38 DEF vars, rowVars, chainVars, exVars, memVars, apiVars, histVars, Stale, Watches
<1> QED
  BY <1>1, <1>2, <1>3, <1>4, <1>5, <1>6, <1>7, <1>8, <1>9, <1>10, <1>11, <1>12, <1>13, <1>14,
       <1>15, <1>16, <1>17, <1>18, <1>19, <1>20, <1>21, <1>22, <1>23, <1>24, <1>25, <1>26, <1>27,
       <1>28, <1>29, <1>30, <1>31, <1>32, <1>33, <1>34, <1>35, <1>36, <1>37, <1>38 DEF Next,
       SlotStep, EndStep, RunStep

\* No step starts a started run again or takes a start from the claim that made it.
LEMMA StartInvStep == ASSUME IndInv, [Next]_vars PROVE StartInv'
<1> USE ConstantsAssumption DEF IndInv, TypeOK, StartInv, HandsInv, ClaimInv, RunsUnderItsClaim,
     Executing, Executors, Statuses, Terminal
<1>1. ASSUME NEW e \in Slots, NEW r \in Runs, Claim(e, r) PROVE StartInv'
  BY <1>1 DEF Claim, Unclaimed, SetRow, Goto, memVars, apiVars, histVars
<1>2. ASSUME NEW e \in Slots, Enter(e) PROVE StartInv'
  BY <1>2 DEF Enter, HoldsLease, Goto, chainVars, apiVars, histVars
<1>3. ASSUME NEW e \in Slots, Refuse(e) PROVE StartInv'
  BY <1>3 DEF Refuse, BeginEnd, rowVars, chainVars, memVars, apiVars, histVars, Goto
<1>4. ASSUME NEW e \in Slots, Start(e) PROVE StartInv'
  BY <1>4 DEF Start, StartLands, Goto, memVars, apiVars, CanStart, SetRow
<1>5. ASSUME NEW e \in Slots, StartRefused(e) PROVE StartInv'
  BY <1>5 DEF StartRefused, CanStart, Leave, rowVars, chainVars, apiVars, histVars, Goto
<1>6. ASSUME NEW e \in Slots, StartFails(e) PROVE StartInv'
  <2>1. CASE StartLands(e)
    BY <1>6, <2>1 DEF StartFails, Fault, StartLands, Leave, apiVars, CanStart, SetRow, Goto
  <2>2. CASE UNCHANGED <<status, claimedBy, claimSecret, stale, owed, started>>
    BY <1>6, <2>2 DEF StartFails, Fault, StartLands, Leave, apiVars, CanStart, SetRow, Goto
  <2> QED
    BY <1>6, <2>1, <2>2 DEF StartFails
<1>7. ASSUME NEW e \in Slots, StartUnrecorded(e) PROVE StartInv'
  BY <1>7 DEF StartUnrecorded, BeginEnd, rowVars, chainVars, memVars, apiVars, histVars, Goto
<1>8. ASSUME NEW e \in Slots, OpenEvents(e) PROVE StartInv'
  BY <1>8 DEF OpenEvents, Goto, rowVars, chainVars, memVars, apiVars, histVars
<1>9. ASSUME NEW e \in Slots, OpenEventsFails(e) PROVE StartInv'
  BY <1>9 DEF OpenEventsFails, SaveCopy, Goto, memVars, apiVars, SetRow
<1>10. ASSUME NEW e \in Slots, Reread(e) PROVE StartInv'
  BY <1>10 DEF Reread, Goto, rowVars, chainVars, memVars, apiVars, histVars
<1>11. ASSUME NEW e \in Slots, RereadCanceled(e) PROVE StartInv'
  BY <1>11 DEF RereadCanceled, BeginEnd, rowVars, chainVars, memVars, apiVars, histVars, Goto
<1>12. ASSUME NEW e \in Slots, RereadFails(e) PROVE StartInv'
  BY <1>12 DEF RereadFails, Fault, Leave, rowVars, chainVars, apiVars, histVars, Goto
<1>13. ASSUME NEW e \in Slots, ToolEnds(e) PROVE StartInv'
  BY <1>13 DEF ToolEnds, EndsAs, BeginEnd, rowVars, chainVars, memVars, apiVars, histVars, Goto
<1>14. ASSUME NEW e \in Slots, WatchRenews(e) PROVE StartInv'
  BY <1>14 DEF WatchRenews, Watches, HoldsLease, chainVars, exVars, memVars, apiVars, histVars
<1>15. ASSUME NEW e \in Slots, WatchCancels(e) PROVE StartInv'
  BY <1>15 DEF WatchCancels, Watches, HoldsLease, Stop, chainVars, memVars, apiVars, histVars
<1>16. ASSUME NEW e \in Slots, WatchLoses(e) PROVE StartInv'
  BY <1>16 DEF WatchLoses, Watches, HoldsLease, Fault, Stop, rowVars, chainVars, memVars, apiVars,
       histVars
<1>17. ASSUME NEW e \in Slots, TimesOut(e) PROVE StartInv'
  BY <1>17 DEF TimesOut, Fault, rowVars, chainVars, memVars, apiVars, histVars
<1>18. ASSUME NEW e \in Executors, Finalize(e) PROVE StartInv'
  BY <1>18 DEF Finalize, CanFinalize, FinalizeRunning, Settle, Goto, apiVars, histVars, SetRow
<1>19. ASSUME NEW e \in Executors, FinalizeRefused(e) PROVE StartInv'
  BY <1>19 DEF FinalizeRefused, CanFinalize, Goto, rowVars, chainVars, memVars, apiVars, histVars
<1>20. ASSUME NEW e \in Executors, FinalizeFails(e) PROVE StartInv'
  BY <1>20 DEF FinalizeFails, Fault, CanFinalize, FinalizeRunning, Goto, memVars, apiVars,
       histVars, SetRow
<1>21. ASSUME NEW e \in Executors, ReadBack(e) PROVE StartInv'
  BY <1>21 DEF ReadBack, MayOverwrite, Goto, rowVars, chainVars, memVars, apiVars, histVars
<1>22. ASSUME NEW e \in Executors, YieldEnd(e) PROVE StartInv'
  BY <1>22 DEF YieldEnd, MayOverwrite, Settle, Leave, rowVars, chainVars, apiVars, histVars, Goto
<1>23. ASSUME NEW e \in Executors, ReadBackFails(e) PROVE StartInv'
  BY <1>23 DEF ReadBackFails, Fault, Owe, Leave, rowVars, chainVars, apiVars, histVars, Goto
<1>24. ASSUME NEW e \in Executors, SaveEnd(e) PROVE StartInv'
  BY <1>24 DEF SaveEnd, SaveCopy, Settle, Goto, apiVars, SetRow
<1>25. ASSUME NEW e \in Executors, SaveEndFails(e) PROVE StartInv'
  BY <1>25 DEF SaveEndFails, Fault, Owe, Leave, rowVars, chainVars, apiVars, histVars, Goto
<1>26. ASSUME NEW e \in Executors, CommitOutcome(e) PROVE StartInv'
  BY <1>26 DEF CommitOutcome, Record, Leave, rowVars, apiVars, histVars, Goto
<1>27. ASSUME NEW e \in Executors, CommitFails(e) PROVE StartInv'
  BY <1>27 DEF CommitFails, Fault, Record, Leave, rowVars, apiVars, histVars, Goto
<1>28. ASSUME NEW l \in Landers, NEW r \in Runs, LandOwed(l, r) PROVE StartInv'
  BY <1>28 DEF LandOwed, HoldsLease, BeginEnd, chainVars, memVars, apiVars, histVars, Goto
<1>29. ASSUME NEW r \in Runs, CancelRead(r) PROVE StartInv'
  BY <1>29 DEF CancelRead, Unclaimed, rowVars, chainVars, exVars, memVars, histVars
<1>30. ASSUME NEW r \in Runs, CancelWaiting(r) PROVE StartInv'
  BY <1>30 DEF CancelWaiting, Unclaimed, Record, exVars, memVars, histVars
<1>31. ASSUME NEW r \in Runs, CancelWaitingLost(r) PROVE StartInv'
  BY <1>31 DEF CancelWaitingLost, Unclaimed, rowVars, chainVars, exVars, memVars, histVars
<1>32. ASSUME NEW r \in Runs, CancelFlag(r) PROVE StartInv'
  BY <1>32 DEF CancelFlag, Stop, chainVars, memVars, histVars
<1>33. ASSUME NEW r \in Runs, SettleOverrunning(r) PROVE StartInv'
  BY <1>33 DEF SettleOverrunning, FinalizeRunning, exVars, memVars, apiVars, histVars, SetRow
<1>34. ASSUME NEW r \in Runs, CommitOwed(r) PROVE StartInv'
  BY <1>34 DEF CommitOwed, Record, rowVars, exVars, memVars, apiVars, histVars
<1>35. ASSUME NEW r \in Runs, Expire(r) PROVE StartInv'
  BY <1>35 DEF Expire, HoldsLease, Attended, Fault, chainVars, exVars, memVars, apiVars, histVars,
       Watches
<1>36. ASSUME Sweep PROVE StartInv'
  BY <1>36 DEF Sweep, Stale, Swept, exVars, memVars, apiVars, histVars
<1>37. ASSUME NEW o \in Owners, Crash(o) PROVE StartInv'
  BY <1>37 DEF Crash, Fault, rowVars, chainVars, apiVars, histVars
<1>38. CASE UNCHANGED vars
  BY <1>38 DEF vars, rowVars, chainVars, exVars, memVars, apiVars, histVars, Stale, Watches
<1> QED
  BY <1>1, <1>2, <1>3, <1>4, <1>5, <1>6, <1>7, <1>8, <1>9, <1>10, <1>11, <1>12, <1>13, <1>14,
       <1>15, <1>16, <1>17, <1>18, <1>19, <1>20, <1>21, <1>22, <1>23, <1>24, <1>25, <1>26, <1>27,
       <1>28, <1>29, <1>30, <1>31, <1>32, <1>33, <1>34, <1>35, <1>36, <1>37, <1>38 DEF Next,
       SlotStep, EndStep, RunStep

\* No step ends a run without owing its outcome, or records what the row does not show.
LEMMA RecordInvStep == ASSUME IndInv, [Next]_vars PROVE RecordInv'
<1> USE ConstantsAssumption DEF IndInv, TypeOK, RecordInv, HandsInv, KnownHasEnded, CommitsTheRow,
     ChainAgrees, EndOwedOrRecorded, Executors, Statuses, Terminal
<1>1. ASSUME NEW e \in Slots, NEW r \in Runs, Claim(e, r) PROVE RecordInv'
  BY <1>1 DEF Claim, Unclaimed, SetRow, Goto, memVars, apiVars, histVars
<1>2. ASSUME NEW e \in Slots, Enter(e) PROVE RecordInv'
  BY <1>2 DEF Enter, HoldsLease, Goto, chainVars, apiVars, histVars
<1>3. ASSUME NEW e \in Slots, Refuse(e) PROVE RecordInv'
  BY <1>3 DEF Refuse, BeginEnd, rowVars, chainVars, memVars, apiVars, histVars, Goto
<1>4. ASSUME NEW e \in Slots, Start(e) PROVE RecordInv'
  <2>1. KnownHasEnded'
    BY <1>4, NoStatusIsNone DEF Start, StartLands, Goto, memVars, apiVars, CanStart, SetRow
  <2>2. CommitsTheRow'
    <3> SUFFICES ASSUME NEW x \in Executors, pc'[x] = "committing", job'[x] \notin rewritten'
                 PROVE  status'[job'[x]] = fin'[x]
      BY DEF CommitsTheRow
    <3>1. /\ pc' = [pc EXCEPT ![e] = "started"] /\ job' = job /\ fin' = fin
          /\ rewritten' = rewritten /\ status[job[e]] = "pending"
          /\ status' = [status EXCEPT ![job[e]] = "running"]
      BY <1>4 DEF Start, StartLands, Goto, CanStart, SetRow
    <3>2. pc[x] = "committing" /\ job[x] \notin rewritten
      BY <3>1
    <3>3. status[job[x]] = fin[x] /\ fin[x] \in Terminal /\ job[x] \in Runs
      BY <3>2 DEF CommitsTheRow, HandsInv
    <3>4. job[x] # job[e]
      BY <3>1, <3>3
    <3> QED
      BY <3>1, <3>3, <3>4
  <2>3. ChainAgrees'
    BY <1>4, NoStatusIsNone DEF Start, StartLands, Goto, memVars, apiVars, CanStart, SetRow
  <2>4. EndOwedOrRecorded'
    BY <1>4, NoStatusIsNone DEF Start, StartLands, Goto, memVars, apiVars, CanStart, SetRow
  <2> QED
    BY <2>1, <2>2, <2>3, <2>4
<1>5. ASSUME NEW e \in Slots, StartRefused(e) PROVE RecordInv'
  BY <1>5 DEF StartRefused, CanStart, Leave, rowVars, chainVars, apiVars, histVars, Goto
<1>6. ASSUME NEW e \in Slots, StartFails(e) PROVE RecordInv'
  <2>1. CASE StartLands(e)
    BY <1>6, <2>1 DEF StartFails, Fault, StartLands, Leave, apiVars, CanStart, SetRow, Goto
  <2>2. CASE UNCHANGED <<status, claimedBy, claimSecret, stale, owed, started>>
    BY <1>6, <2>2 DEF StartFails, Fault, StartLands, Leave, apiVars, CanStart, SetRow, Goto
  <2> QED
    BY <1>6, <2>1, <2>2 DEF StartFails
<1>7. ASSUME NEW e \in Slots, StartUnrecorded(e) PROVE RecordInv'
  BY <1>7 DEF StartUnrecorded, BeginEnd, rowVars, chainVars, memVars, apiVars, histVars, Goto
<1>8. ASSUME NEW e \in Slots, OpenEvents(e) PROVE RecordInv'
  BY <1>8 DEF OpenEvents, Goto, rowVars, chainVars, memVars, apiVars, histVars
<1>9. ASSUME NEW e \in Slots, OpenEventsFails(e) PROVE RecordInv'
  BY <1>9 DEF OpenEventsFails, SaveCopy, Goto, memVars, apiVars, SetRow
<1>10. ASSUME NEW e \in Slots, Reread(e) PROVE RecordInv'
  BY <1>10 DEF Reread, Goto, rowVars, chainVars, memVars, apiVars, histVars
<1>11. ASSUME NEW e \in Slots, RereadCanceled(e) PROVE RecordInv'
  BY <1>11 DEF RereadCanceled, BeginEnd, rowVars, chainVars, memVars, apiVars, histVars, Goto
<1>12. ASSUME NEW e \in Slots, RereadFails(e) PROVE RecordInv'
  BY <1>12 DEF RereadFails, Fault, Leave, rowVars, chainVars, apiVars, histVars, Goto
<1>13. ASSUME NEW e \in Slots, ToolEnds(e) PROVE RecordInv'
  BY <1>13 DEF ToolEnds, EndsAs, BeginEnd, rowVars, chainVars, memVars, apiVars, histVars, Goto
<1>14. ASSUME NEW e \in Slots, WatchRenews(e) PROVE RecordInv'
  BY <1>14 DEF WatchRenews, Watches, HoldsLease, chainVars, exVars, memVars, apiVars, histVars
<1>15. ASSUME NEW e \in Slots, WatchCancels(e) PROVE RecordInv'
  BY <1>15 DEF WatchCancels, Watches, HoldsLease, Stop, chainVars, memVars, apiVars, histVars
<1>16. ASSUME NEW e \in Slots, WatchLoses(e) PROVE RecordInv'
  BY <1>16 DEF WatchLoses, Watches, HoldsLease, Fault, Stop, rowVars, chainVars, memVars, apiVars,
       histVars
<1>17. ASSUME NEW e \in Slots, TimesOut(e) PROVE RecordInv'
  BY <1>17 DEF TimesOut, Fault, rowVars, chainVars, memVars, apiVars, histVars
<1>18. ASSUME NEW e \in Executors, Finalize(e) PROVE RecordInv'
  <2> job[e] \in Runs /\ status[job[e]] \notin Terminal
    BY <1>18 DEF Finalize, CanFinalize
  <2>1. KnownHasEnded'
    BY <1>18, NoStatusIsNone, LiveIsUnrecorded DEF Finalize, CanFinalize, FinalizeRunning, Settle, Goto, apiVars,
         histVars, SetRow
  <2>2. CommitsTheRow'
    <3> SUFFICES ASSUME NEW x \in Executors, pc'[x] = "committing", job'[x] \notin rewritten'
                 PROVE  status'[job'[x]] = fin'[x]
      BY DEF CommitsTheRow
    <3>1. /\ pc' = [pc EXCEPT ![e] = "committing"] /\ job' = job /\ fin' = fin
          /\ rewritten' = rewritten
          /\ status' = [status EXCEPT ![job[e]] = fin[e]]
      BY <1>18 DEF Finalize, FinalizeRunning, Goto, histVars, SetRow
    <3>2. CASE x = e
      BY <3>1, <3>2
    <3>3. CASE x # e
      <4>1. pc[x] = "committing" /\ job[x] \notin rewritten
        BY <3>1, <3>3
      <4>2. status[job[x]] = fin[x] /\ fin[x] \in Terminal /\ job[x] \in Runs
        BY <4>1 DEF CommitsTheRow, HandsInv
      <4>3. job[x] # job[e]
        BY <4>2
      <4> QED
        BY <3>1, <4>2, <4>3
    <3> QED
      BY <3>2, <3>3
  <2>3. ChainAgrees'
    <3> SUFFICES ASSUME NEW q \in Runs, q \notin rewritten', outcome'[q] # NoStatus
                 PROVE  outcome'[q] = status'[q]
      BY DEF ChainAgrees
    <3>1. /\ outcome' = outcome /\ rewritten' = rewritten
          /\ status' = [status EXCEPT ![job[e]] = fin[e]]
      BY <1>18 DEF Finalize, FinalizeRunning, SetRow, histVars
    <3>2. q # job[e]
      BY <3>1, LiveIsUnrecorded
    <3> QED
      BY <3>1, <3>2 DEF ChainAgrees
  <2>4. EndOwedOrRecorded'
    BY <1>18, NoStatusIsNone, LiveIsUnrecorded DEF Finalize, CanFinalize, FinalizeRunning, Settle, Goto, apiVars,
         histVars, SetRow
  <2> QED
    BY <2>1, <2>2, <2>3, <2>4
<1>19. ASSUME NEW e \in Executors, FinalizeRefused(e) PROVE RecordInv'
  BY <1>19 DEF FinalizeRefused, CanFinalize, Goto, rowVars, chainVars, memVars, apiVars, histVars
<1>20. ASSUME NEW e \in Executors, FinalizeFails(e) PROVE RecordInv'
  <2>1. KnownHasEnded'
    BY <1>20, NoStatusIsNone DEF FinalizeFails, Fault, CanFinalize, FinalizeRunning, Goto,
         memVars, apiVars, histVars, SetRow
  <2>2. CommitsTheRow'
    BY <1>20, NoStatusIsNone DEF FinalizeFails, Fault, CanFinalize, FinalizeRunning, Goto,
         memVars, apiVars, histVars, SetRow
  <2>3. ChainAgrees'
    BY <1>20, NoStatusIsNone DEF FinalizeFails, Fault, CanFinalize, FinalizeRunning, Goto,
         memVars, apiVars, histVars, SetRow
  <2>4. EndOwedOrRecorded'
    BY <1>20, NoStatusIsNone DEF FinalizeFails, Fault, CanFinalize, FinalizeRunning, Goto,
         memVars, apiVars, histVars, SetRow
  <2> QED
    BY <2>1, <2>2, <2>3, <2>4
<1>21. ASSUME NEW e \in Executors, ReadBack(e) PROVE RecordInv'
  BY <1>21 DEF ReadBack, MayOverwrite, Goto, rowVars, chainVars, memVars, apiVars, histVars
<1>22. ASSUME NEW e \in Executors, YieldEnd(e) PROVE RecordInv'
  BY <1>22 DEF YieldEnd, MayOverwrite, Settle, Leave, rowVars, chainVars, apiVars, histVars, Goto
<1>23. ASSUME NEW e \in Executors, ReadBackFails(e) PROVE RecordInv'
  BY <1>23 DEF ReadBackFails, Fault, Owe, Leave, rowVars, chainVars, apiVars, histVars, Goto
<1>24. ASSUME NEW e \in Executors, SaveEnd(e) PROVE RecordInv'
  BY <1>24 DEF SaveEnd, SaveCopy, Settle, Goto, apiVars, SetRow
<1>25. ASSUME NEW e \in Executors, SaveEndFails(e) PROVE RecordInv'
  BY <1>25 DEF SaveEndFails, Fault, Owe, Leave, rowVars, chainVars, apiVars, histVars, Goto
<1>26. ASSUME NEW e \in Executors, CommitOutcome(e) PROVE RecordInv'
  <2>1. KnownHasEnded'
    BY <1>26, NoStatusIsNone DEF CommitOutcome, Record, Leave, rowVars, apiVars, histVars, Goto
  <2>2. CommitsTheRow'
    BY <1>26, NoStatusIsNone DEF CommitOutcome, Record, Leave, rowVars, apiVars, histVars, Goto
  <2>3. ChainAgrees'
    BY <1>26, NoStatusIsNone DEF CommitOutcome, Record, Leave, rowVars, apiVars, histVars, Goto
  <2>4. EndOwedOrRecorded'
    BY <1>26, NoStatusIsNone DEF CommitOutcome, Record, Leave, rowVars, apiVars, histVars, Goto
  <2> QED
    BY <2>1, <2>2, <2>3, <2>4
<1>27. ASSUME NEW e \in Executors, CommitFails(e) PROVE RecordInv'
  BY <1>27 DEF CommitFails, Fault, Record, Leave, rowVars, apiVars, histVars, Goto
<1>28. ASSUME NEW l \in Landers, NEW r \in Runs, LandOwed(l, r) PROVE RecordInv'
  BY <1>28 DEF LandOwed, HoldsLease, BeginEnd, chainVars, memVars, apiVars, histVars, Goto
<1>29. ASSUME NEW r \in Runs, CancelRead(r) PROVE RecordInv'
  BY <1>29 DEF CancelRead, Unclaimed, rowVars, chainVars, exVars, memVars, histVars
<1>30. ASSUME NEW r \in Runs, CancelWaiting(r) PROVE RecordInv'
  <2> status[r] \notin Terminal
    BY <1>30 DEF CancelWaiting, Unclaimed
  <2>1. KnownHasEnded'
    BY <1>30, NoStatusIsNone, LiveIsUnrecorded DEF CancelWaiting, Unclaimed, Record, exVars, memVars, histVars
  <2>2. CommitsTheRow'
    BY <1>30, NoStatusIsNone, LiveIsUnrecorded DEF CancelWaiting, Unclaimed, Record, exVars, memVars, histVars
  <2>3. ChainAgrees'
    <3> SUFFICES ASSUME NEW q \in Runs, q \notin rewritten', outcome'[q] # NoStatus
                 PROVE  outcome'[q] = status'[q]
      BY DEF ChainAgrees
    <3>1. rewritten' = rewritten /\ status' = [status EXCEPT ![r] = "canceled"]
      BY <1>30 DEF CancelWaiting, histVars
    <3>2. CASE q = r
      <4>1. outcome[r] = NoStatus
        BY <3>1, <3>2, LiveIsUnrecorded
      <4>2. outcome' = [outcome EXCEPT ![r] = "canceled"]
        BY <1>30, <3>2, <4>1 DEF CancelWaiting, Record
      <4> QED
        BY <3>1, <3>2, <4>2
    <3>3. CASE q # r
      <4>1. outcome'[q] = outcome[q]
        BY <1>30, <3>3 DEF CancelWaiting, Record
      <4> QED
        BY <3>1, <3>3, <4>1 DEF ChainAgrees
    <3> QED
      BY <3>2, <3>3
  <2>4. EndOwedOrRecorded'
    BY <1>30, NoStatusIsNone, LiveIsUnrecorded DEF CancelWaiting, Unclaimed, Record, exVars, memVars, histVars
  <2> QED
    BY <2>1, <2>2, <2>3, <2>4
<1>31. ASSUME NEW r \in Runs, CancelWaitingLost(r) PROVE RecordInv'
  BY <1>31 DEF CancelWaitingLost, Unclaimed, rowVars, chainVars, exVars, memVars, histVars
<1>32. ASSUME NEW r \in Runs, CancelFlag(r) PROVE RecordInv'
  BY <1>32 DEF CancelFlag, Stop, chainVars, memVars, histVars
<1>33. ASSUME NEW r \in Runs, SettleOverrunning(r) PROVE RecordInv'
  <2> status[r] \notin Terminal
    BY <1>33 DEF SettleOverrunning
  <2>1. KnownHasEnded'
    BY <1>33, NoStatusIsNone, LiveIsUnrecorded DEF SettleOverrunning, FinalizeRunning, exVars, memVars, apiVars,
         histVars, SetRow
  <2>2. CommitsTheRow'
    BY <1>33, NoStatusIsNone, LiveIsUnrecorded DEF SettleOverrunning, FinalizeRunning, exVars, memVars, apiVars,
         histVars, SetRow
  <2>3. ChainAgrees'
    BY <1>33, NoStatusIsNone, LiveIsUnrecorded DEF SettleOverrunning, FinalizeRunning, exVars, memVars, apiVars,
         histVars, SetRow
  <2>4. EndOwedOrRecorded'
    BY <1>33, NoStatusIsNone, LiveIsUnrecorded DEF SettleOverrunning, FinalizeRunning, exVars, memVars, apiVars,
         histVars, SetRow
  <2> QED
    BY <2>1, <2>2, <2>3, <2>4
<1>34. ASSUME NEW r \in Runs, CommitOwed(r) PROVE RecordInv'
  <2>1. KnownHasEnded'
    BY <1>34, NoStatusIsNone DEF CommitOwed, Record, rowVars, exVars, memVars, apiVars, histVars
  <2>2. CommitsTheRow'
    BY <1>34, NoStatusIsNone DEF CommitOwed, Record, rowVars, exVars, memVars, apiVars, histVars
  <2>3. ChainAgrees'
    BY <1>34, NoStatusIsNone DEF CommitOwed, Record, rowVars, exVars, memVars, apiVars, histVars
  <2>4. EndOwedOrRecorded'
    BY <1>34, NoStatusIsNone DEF CommitOwed, Record, rowVars, exVars, memVars, apiVars, histVars
  <2> QED
    BY <2>1, <2>2, <2>3, <2>4
<1>35. ASSUME NEW r \in Runs, Expire(r) PROVE RecordInv'
  BY <1>35 DEF Expire, HoldsLease, Attended, Fault, chainVars, exVars, memVars, apiVars, histVars,
       Watches
<1>36. ASSUME Sweep PROVE RecordInv'
  BY <1>36 DEF Sweep, Stale, Swept, exVars, memVars, apiVars, histVars
<1>37. ASSUME NEW o \in Owners, Crash(o) PROVE RecordInv'
  BY <1>37 DEF Crash, Fault, rowVars, chainVars, apiVars, histVars
<1>38. CASE UNCHANGED vars
  BY <1>38 DEF vars, rowVars, chainVars, exVars, memVars, apiVars, histVars, Stale, Watches
<1> QED
  BY <1>1, <1>2, <1>3, <1>4, <1>5, <1>6, <1>7, <1>8, <1>9, <1>10, <1>11, <1>12, <1>13, <1>14,
       <1>15, <1>16, <1>17, <1>18, <1>19, <1>20, <1>21, <1>22, <1>23, <1>24, <1>25, <1>26, <1>27,
       <1>28, <1>29, <1>30, <1>31, <1>32, <1>33, <1>34, <1>35, <1>36, <1>37, <1>38 DEF Next,
       SlotStep, EndStep, RunStep

\* Every step keeps the inductive invariant.
LEMMA NextInv == ASSUME IndInv, [Next]_vars PROVE IndInv'
BY TypeOKStep, HandsInvStep, ClaimInvStep, StartInvStep, RecordInvStep DEF IndInv

\* The inductive invariant holds of every state the processes reach.
THEOREM Invariance == Spec => []IndInv
<1>1. IndInv /\ [Next]_vars => IndInv'
  BY NextInv
<1> QED
  BY InitInv, <1>1, PTL DEF Spec

\* Every column and every goroutine's state keeps its type.
THEOREM TypeCorrect == Spec => []TypeOK
<1>1. IndInv => TypeOK
  BY DEF IndInv
<1> QED
  BY Invariance, <1>1, PTL

\* No run is ever executed by two slots at once, in however many processes: the fenced start of
\* StartClaimed lets one claim through, and a started run never returns to the queue.
THEOREM ExecutesOnce == Spec => []OneExecution
<1>1. IndInv => OneExecution
  BY DEF IndInv, HandsInv, ClaimInv, StartInv, OneExecution, Executing
<1> QED
  BY Invariance, <1>1, PTL

\* A running row carries the secret of the claim that started it.
THEOREM RunsUnderClaim == Spec => []RunsUnderItsClaim
<1>1. IndInv => RunsUnderItsClaim
  BY DEF IndInv, StartInv
<1> QED
  BY Invariance, <1>1, PTL

\* What the chain says of an end is what the row says, unless a whole-row save wrote over it.
THEOREM ChainAgreesWithRows == Spec => []ChainAgrees
<1>1. IndInv => ChainAgrees
  BY DEF IndInv, RecordInv
<1> QED
  BY Invariance, <1>1, PTL

\* An ended run is owed its outcome until the chain holds one.
THEOREM NoEndIsLost == Spec => []EndOwedOrRecorded
<1>1. IndInv => EndOwedOrRecorded
  BY DEF IndInv, RecordInv
<1> QED
  BY Invariance, <1>1, PTL

\* StartClaimed is the only write that starts a run.
LEMMA OnlyStartWritesStarted == Next => UNCHANGED started \/ \E e \in Slots : StartLands(e)
<1>1. ASSUME NEW e \in Slots, SlotStep(e) PROVE UNCHANGED started \/ StartLands(e)
  BY <1>1 DEF SlotStep, Claim, Enter, Refuse, Start, StartRefused, StartFails, StartUnrecorded,
     OpenEvents, OpenEventsFails, Reread, RereadCanceled, RereadFails, ToolEnds, WatchRenews,
     WatchCancels, WatchLoses, TimesOut, histVars
<1>2. ASSUME NEW e \in Executors, EndStep(e) PROVE UNCHANGED started
  BY <1>2 DEF EndStep, Finalize, FinalizeRefused, FinalizeFails, ReadBack, YieldEnd, ReadBackFails,
     SaveEnd, SaveEndFails, CommitOutcome, CommitFails, histVars
<1>3. ASSUME NEW r \in Runs, RunStep(r) PROVE UNCHANGED started
  BY <1>3 DEF RunStep, CancelRead, CancelWaiting, CancelWaitingLost, CancelFlag, SettleOverrunning,
     CommitOwed, Expire, histVars
<1> QED
  BY <1>1, <1>2, <1>3 DEF Next, LandOwed, Sweep, Crash, histVars

\* A run is started by one claim only: a started run never reads pending again, and only a pending
\* row can be started.
THEOREM StartsOnce == Spec => StartedOnce
<1>1. ASSUME IndInv, [Next]_vars
      PROVE  [\A r \in Runs : started[r] # 0 => started'[r] = started[r]]_vars
  <2>1. ASSUME NEW e \in Slots, StartLands(e), NEW r \in Runs, started[r] # 0
        PROVE  started'[r] = started[r]
    BY <1>1, <2>1 DEF IndInv, TypeOK, StartInv, StartLands, CanStart
  <2> QED
    BY <1>1, <2>1, OnlyStartWritesStarted DEF vars
<1> QED
  BY Invariance, <1>1, PTL DEF Spec, StartedOnce

\* An end stands against every fenced write: apart from the two whole-row saves of a copy, a step
\* writes a row's status only while the row is pending or running.
LEMMA FencedWrites ==
  ASSUME IndInv, Next, NEW r \in Runs, status[r] \in Terminal, status'[r] # status[r]
  PROVE  \E e \in Executors : WholeRowSave(e, r)
<1> USE DEF Terminal
<1>1. ASSUME NEW e \in Slots, SlotStep(e) PROVE WholeRowSave(e, r)
  <2>1. OpenEventsFails(e)
    BY <1>1 DEF IndInv, TypeOK, SlotStep, Claim, Enter, Refuse, Start, StartRefused, StartFails,
       StartUnrecorded, OpenEvents, Reread, RereadCanceled, RereadFails, ToolEnds, WatchRenews,
       WatchCancels, WatchLoses, TimesOut, rowVars, StartLands, CanStart, SetRow, Unclaimed
  <2> QED
    BY <2>1 DEF IndInv, TypeOK, OpenEventsFails, SaveCopy, SetRow, Goto, WholeRowSave, Executors
<1>2. ASSUME NEW e \in Executors, EndStep(e) PROVE WholeRowSave(e, r)
  <2>1. SaveEnd(e)
    BY <1>2 DEF IndInv, TypeOK, EndStep, Finalize, FinalizeRefused, FinalizeFails, ReadBack, YieldEnd,
       ReadBackFails, SaveEndFails, CommitOutcome, CommitFails, rowVars, CanFinalize,
       FinalizeRunning, SetRow
  <2> QED
    BY <2>1 DEF IndInv, TypeOK, SaveEnd, SaveCopy, SetRow, Goto, WholeRowSave
<1>3. ASSUME NEW q \in Runs, RunStep(q) PROVE FALSE
  BY <1>3 DEF IndInv, TypeOK, RunStep, CancelRead, CancelWaiting, CancelWaitingLost, CancelFlag,
     SettleOverrunning, CommitOwed, Expire, rowVars, Unclaimed, FinalizeRunning, SetRow
<1>4. ~Sweep
  BY DEF IndInv, TypeOK, Sweep
<1> QED
  BY <1>1, <1>2, <1>3, <1>4 DEF Next, LandOwed, Crash, rowVars, Executors

\* A recorded end stands against everything but recordTerminal's and streamSpec's whole-row saves:
\* FinalizeRunning, StartClaimed, CancelPending, the sweeps and the claim never change a terminal row.
THEOREM EndsStand == Spec => OnlyASaveRewritesAnEnd
<1>1. ASSUME IndInv, [Next]_vars
      PROVE  [\A r \in Runs : status[r] \in Terminal /\ status'[r] # status[r]
                => \E e \in Executors : WholeRowSave(e, r)]_vars
  BY <1>1, FencedWrites DEF vars, rowVars
<1> QED
  BY Invariance, <1>1, PTL DEF Spec, OnlyASaveRewritesAnEnd
=============================================================================
