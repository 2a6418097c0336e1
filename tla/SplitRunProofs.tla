--------------------------- MODULE SplitRunProofs ---------------------------
(***************************************************************************)
(* Proofs about SplitRun, for every number of shards, of faults and of     *)
(* cancels.                                                                *)
(***************************************************************************)
EXTENDS SplitRun, TLAPS

\* The coordinator's results are the ones the shards recorded, and the success it ends the parent
\* with, or has ended it with, is theirs.
ResultsInv ==
  /\ \A s \in Shards : seen[s] # NoEnd => cStatus[s] = seen[s]
  /\ fin = "succeeded" => \A s \in Shards : cStatus[s] = "succeeded"
  /\ SucceedsOnlyWhole

\* The shard a coordinator is canceling is one it holds no result of, and none is being canceled by
\* a coordinator that ends its parent as a success, or has: the blind save can spoil neither.
LoopInv ==
  /\ at # NoShard => pc \in {"canceling", "settling", "saving"} /\ seen[at] = NoEnd
  /\ pc \in {"settling", "saving"} => at # NoShard
  /\ fin = "succeeded" => pc \in {"ending", "rewriting"}
  /\ pStatus = "succeeded" => pc = "done"

\* Between its claim and its save a parent can only be interrupted: a cancel finds it claimed.
StartingInv == pc = "starting" => pStatus \in {"running", "interrupted"}

\* A coordinator about to end its parent has a status to end it with.
EndingInv == pc \in {"ending", "rewriting"} => fin \in Terminal

\* No shard has an executor, and none has run.
NothingRan ==
  \A s \in Shards : exec[s] = "none" /\ cStatus[s] \notin {"running", "succeeded", "failed"}

\* A cancel request has ended the parent in place.
CanceledInPlace == answered \/ handler = "children"

\* The submit or the coordinator has not come to the fence, and the one that abandoned it never will.
Unfenced == pc \in {"storing", "abandoning", "abandoned", "claiming"}

\* A parent canceled in place, or one that is not yet fenced, does not run and nothing of it has.
UnstartedInv ==
  /\ CanceledInPlace => pStatus \in Terminal /\ pc # "starting"
  /\ Unfenced => pStatus # "running"
  /\ CanceledInPlace \/ Unfenced \/ pStatus = "pending" => NothingRan

\* The inductive invariant.
IndInv == TypeOK /\ EndingInv /\ LoopInv /\ ResultsInv /\ StartingInv /\ UnstartedInv

\* The stored parent, no shard and a submit about to store them satisfy the inductive invariant.
LEMMA InitInv == Init => IndInv
<1> SUFFICES ASSUME Init PROVE IndInv
  OBVIOUS
<1> USE ConstantsAssumption DEF Init
<1>1. TypeOK
  BY DEF TypeOK, Terminal
<1>2. ResultsInv
  BY DEF ResultsInv, SucceedsOnlyWhole, NoEnd
<1>3. LoopInv
  BY DEF LoopInv, NoEnd
<1>4. UnstartedInv
  BY DEF UnstartedInv, CanceledInPlace, Unfenced, NothingRan, Terminal
<1> QED
  BY <1>1, <1>2, <1>3, <1>4 DEF IndInv, StartingInv, EndingInv

\* No step of the submit, the coordinator, an executor, the API or a sweep breaks a type.
LEMMA TypeOKStep == ASSUME IndInv, [Next]_vars PROVE TypeOK'
<1> USE ConstantsAssumption DEF IndInv, EndingInv, TypeOK
<1>1. CASE AbandonParent
  BY <1>1 DEF AbandonParent, Leave, apiVars, Terminal
<1>2. CASE BeginCoordination
  BY <1>2 DEF BeginCoordination, Stored, rowVars, apiVars, Terminal
<1>3. CASE ClaimParent
  BY <1>3 DEF ClaimParent, ParentCanStart, apiVars, Terminal
<1>4. CASE ClaimParentLost
  BY <1>4 DEF ClaimParentLost, Fault, CancelThenEnd, ParentCanStart, rowVars, apiVars, Terminal
<1>5. CASE ClaimParentRepeated
  BY <1>5 DEF ClaimParentRepeated, Fault, CancelThenEnd, ParentCanStart, apiVars, Terminal
<1>6. CASE ClaimParentFails
  <2>1. pStatus' \in Terminal \cup {"pending", "running"}
    BY <1>6 DEF ClaimParentFails, Fault, CancelThenEnd, ParentCanStart, apiVars, Terminal
  <2>2. pHeld' \in BOOLEAN /\ pCancel' \in BOOLEAN
    BY <1>6 DEF ClaimParentFails, Fault, CancelThenEnd, ParentCanStart, apiVars, Terminal
  <2>3. cStatus' \in [Shards -> Terminal \cup {"absent", "pending", "running"}]
    BY <1>6 DEF ClaimParentFails, Fault, CancelThenEnd, ParentCanStart, apiVars, Terminal
  <2>4. cHeld' \in [Shards -> BOOLEAN] /\ cCancel' \in [Shards -> BOOLEAN]
    BY <1>6 DEF ClaimParentFails, Fault, CancelThenEnd, ParentCanStart, apiVars, Terminal
  <2>5. todo' \subseteq Shards /\ at' \in Shards \cup {NoShard} /\ copy' \in BOOLEAN
    BY <1>6 DEF ClaimParentFails, Fault, CancelThenEnd, ParentCanStart, apiVars, Terminal
  <2>6. seen' \in [Shards -> Terminal \cup {NoEnd}] /\ fin' \in Terminal \cup {NoEnd}
    BY <1>6 DEF ClaimParentFails, Fault, CancelThenEnd, ParentCanStart, apiVars, Terminal
  <2>7. own' \in BOOLEAN /\ pctx' \in {"live", "canceled", "shutdown"}
    BY <1>6 DEF ClaimParentFails, Fault, CancelThenEnd, ParentCanStart, apiVars, Terminal
  <2>8. faults' \in Nat
    BY <1>6 DEF ClaimParentFails, Fault, CancelThenEnd, ParentCanStart, apiVars, Terminal
  <2> QED
    BY <1>6, <2>1, <2>2, <2>3, <2>4, <2>5, <2>6, <2>7, <2>8 DEF ClaimParentFails, Fault, CancelThenEnd, ParentCanStart, apiVars
<1>7. CASE RefuseParent
  BY <1>7 DEF RefuseParent, CancelThenEnd, rowVars, apiVars, Terminal
<1>8. CASE StartParentRow
  <2>1. pStatus' \in Terminal \cup {"pending", "running"}
    BY <1>8 DEF StartParentRow, Fault, apiVars, Terminal
  <2>2. pHeld' \in BOOLEAN /\ pCancel' \in BOOLEAN
    BY <1>8 DEF StartParentRow, Fault, apiVars, Terminal
  <2>3. cStatus' \in [Shards -> Terminal \cup {"absent", "pending", "running"}]
    BY <1>8 DEF StartParentRow, Fault, apiVars, Terminal
  <2>4. cHeld' \in [Shards -> BOOLEAN] /\ cCancel' \in [Shards -> BOOLEAN]
    BY <1>8 DEF StartParentRow, Fault, apiVars, Terminal
  <2>5. todo' \subseteq Shards /\ at' \in Shards \cup {NoShard} /\ copy' \in BOOLEAN
    BY <1>8 DEF StartParentRow, Fault, apiVars, Terminal
  <2>6. seen' \in [Shards -> Terminal \cup {NoEnd}] /\ fin' \in Terminal \cup {NoEnd}
    BY <1>8 DEF StartParentRow, Fault, apiVars, Terminal
  <2>7. own' \in BOOLEAN /\ pctx' \in {"live", "canceled", "shutdown"}
    BY <1>8 DEF StartParentRow, Fault, apiVars, Terminal
  <2>8. faults' \in Nat
    BY <1>8 DEF StartParentRow, Fault, apiVars, Terminal
  <2> QED
    BY <1>8, <2>1, <2>2, <2>3, <2>4, <2>5, <2>6, <2>7, <2>8 DEF StartParentRow, Fault, apiVars
<1>9. CASE Poll
  BY <1>9 DEF Poll, ReadResults, Rollup, rowVars, apiVars, Terminal
<1>10. CASE StopWaiting
  BY <1>10 DEF StopWaiting, CancelThenEnd, ReadResults, rowVars, apiVars, Terminal
<1>11. CASE CancelFlag
  <2>1. pStatus' \in Terminal \cup {"pending", "running"}
    BY <1>11 DEF CancelFlag, Fault, apiVars
  <2>2. pHeld' \in BOOLEAN /\ pCancel' \in BOOLEAN
    BY <1>11 DEF CancelFlag, Fault, apiVars
  <2>3. cStatus' \in [Shards -> Terminal \cup {"absent", "pending", "running"}]
    BY <1>11 DEF CancelFlag, Fault, apiVars
  <2>4. cHeld' \in [Shards -> BOOLEAN] /\ cCancel' \in [Shards -> BOOLEAN]
    BY <1>11 DEF CancelFlag, Fault, apiVars
  <2>5. todo' \subseteq Shards /\ at' \in Shards \cup {NoShard} /\ copy' \in BOOLEAN
    BY <1>11 DEF CancelFlag, Fault, apiVars
  <2>6. seen' \in [Shards -> Terminal \cup {NoEnd}] /\ fin' \in Terminal \cup {NoEnd}
    BY <1>11 DEF CancelFlag, Fault, apiVars
  <2>7. own' \in BOOLEAN /\ pctx' \in {"live", "canceled", "shutdown"}
    BY <1>11 DEF CancelFlag, Fault, apiVars
  <2>8. faults' \in Nat
    BY <1>11 DEF CancelFlag, Fault, apiVars
  <2> QED
    BY <1>11, <2>1, <2>2, <2>3, <2>4, <2>5, <2>6, <2>7, <2>8 DEF CancelFlag, Fault, apiVars
<1>12. CASE CancelSettle
  <2>1. pStatus' \in Terminal \cup {"pending", "running"}
    BY <1>12 DEF CancelSettle, Stopped, apiVars, Terminal
  <2>2. pHeld' \in BOOLEAN /\ pCancel' \in BOOLEAN
    BY <1>12 DEF CancelSettle, Stopped, apiVars, Terminal
  <2>3. cStatus' \in [Shards -> Terminal \cup {"absent", "pending", "running"}]
    BY <1>12 DEF CancelSettle, Stopped, apiVars, Terminal
  <2>4. cHeld' \in [Shards -> BOOLEAN] /\ cCancel' \in [Shards -> BOOLEAN]
    BY <1>12 DEF CancelSettle, Stopped, apiVars, Terminal
  <2>5. todo' \subseteq Shards /\ at' \in Shards \cup {NoShard} /\ copy' \in BOOLEAN
    BY <1>12 DEF CancelSettle, Stopped, apiVars, Terminal
  <2>6. seen' \in [Shards -> Terminal \cup {NoEnd}] /\ fin' \in Terminal \cup {NoEnd}
    BY <1>12 DEF CancelSettle, Stopped, apiVars, Terminal
  <2>7. own' \in BOOLEAN /\ pctx' \in {"live", "canceled", "shutdown"}
    BY <1>12 DEF CancelSettle, Stopped, apiVars, Terminal
  <2>8. faults' \in Nat
    BY <1>12 DEF CancelSettle, Stopped, apiVars, Terminal
  <2> QED
    BY <1>12, <2>1, <2>2, <2>3, <2>4, <2>5, <2>6, <2>7, <2>8 DEF CancelSettle, Stopped, apiVars
<1>13. CASE CancelSave
  <2>1. pStatus' \in Terminal \cup {"pending", "running"}
    BY <1>13 DEF CancelSave, Stopped, apiVars, Terminal
  <2>2. pHeld' \in BOOLEAN /\ pCancel' \in BOOLEAN
    BY <1>13 DEF CancelSave, Stopped, apiVars, Terminal
  <2>3. cStatus' \in [Shards -> Terminal \cup {"absent", "pending", "running"}]
    BY <1>13 DEF CancelSave, Stopped, apiVars, Terminal
  <2>4. cHeld' \in [Shards -> BOOLEAN] /\ cCancel' \in [Shards -> BOOLEAN]
    BY <1>13 DEF CancelSave, Stopped, apiVars, Terminal
  <2>5. todo' \subseteq Shards /\ at' \in Shards \cup {NoShard} /\ copy' \in BOOLEAN
    BY <1>13 DEF CancelSave, Stopped, apiVars, Terminal
  <2>6. seen' \in [Shards -> Terminal \cup {NoEnd}] /\ fin' \in Terminal \cup {NoEnd}
    BY <1>13 DEF CancelSave, Stopped, apiVars, Terminal
  <2>7. own' \in BOOLEAN /\ pctx' \in {"live", "canceled", "shutdown"}
    BY <1>13 DEF CancelSave, Stopped, apiVars, Terminal
  <2>8. faults' \in Nat
    BY <1>13 DEF CancelSave, Stopped, apiVars, Terminal
  <2> QED
    BY <1>13, <2>1, <2>2, <2>3, <2>4, <2>5, <2>6, <2>7, <2>8 DEF CancelSave, Stopped, apiVars
<1>14. CASE CancelDone
  BY <1>14 DEF CancelDone, Rollup, Stopped, rowVars, apiVars, Terminal
<1>15. CASE CancelOnly
  BY <1>15 DEF CancelOnly, Leave, rowVars, apiVars, Terminal
<1>16. CASE EndParent
  BY <1>16 DEF EndParent, Leave, ParentCanEnd, apiVars, Terminal
<1>17. CASE YieldParent
  BY <1>17 DEF YieldParent, Leave, ParentCanEnd, rowVars, apiVars, Terminal
<1>18. CASE ReadParent
  <2>1. pStatus' \in Terminal \cup {"pending", "running"}
    BY <1>18 DEF ReadParent, Fault, rowVars, apiVars, Terminal
  <2>2. pHeld' \in BOOLEAN /\ pCancel' \in BOOLEAN
    BY <1>18 DEF ReadParent, Fault, rowVars, apiVars, Terminal
  <2>3. cStatus' \in [Shards -> Terminal \cup {"absent", "pending", "running"}]
    BY <1>18 DEF ReadParent, Fault, rowVars, apiVars, Terminal
  <2>4. cHeld' \in [Shards -> BOOLEAN] /\ cCancel' \in [Shards -> BOOLEAN]
    BY <1>18 DEF ReadParent, Fault, rowVars, apiVars, Terminal
  <2>5. todo' \subseteq Shards /\ at' \in Shards \cup {NoShard} /\ copy' \in BOOLEAN
    BY <1>18 DEF ReadParent, Fault, rowVars, apiVars, Terminal
  <2>6. seen' \in [Shards -> Terminal \cup {NoEnd}] /\ fin' \in Terminal \cup {NoEnd}
    BY <1>18 DEF ReadParent, Fault, rowVars, apiVars, Terminal
  <2>7. own' \in BOOLEAN /\ pctx' \in {"live", "canceled", "shutdown"}
    BY <1>18 DEF ReadParent, Fault, rowVars, apiVars, Terminal
  <2>8. faults' \in Nat
    BY <1>18 DEF ReadParent, Fault, rowVars, apiVars, Terminal
  <2> QED
    BY <1>18, <2>1, <2>2, <2>3, <2>4, <2>5, <2>6, <2>7, <2>8 DEF ReadParent, Fault, rowVars, apiVars
<1>19. CASE SaveParent
  BY <1>19 DEF SaveParent, Leave, apiVars, Terminal
<1>20. CASE Watch
  BY <1>20 DEF Watch, rowVars, apiVars, Terminal
<1>21. CASE Shutdown
  BY <1>21 DEF Shutdown, rowVars, apiVars, Terminal
<1>22. CASE CoordinatorCrash
  <2>1. pStatus' \in Terminal \cup {"pending", "running"}
    BY <1>22 DEF CoordinatorCrash, Fault, Leave, rowVars, apiVars
  <2>2. pHeld' \in BOOLEAN /\ pCancel' \in BOOLEAN
    BY <1>22 DEF CoordinatorCrash, Fault, Leave, rowVars, apiVars
  <2>3. cStatus' \in [Shards -> Terminal \cup {"absent", "pending", "running"}]
    BY <1>22 DEF CoordinatorCrash, Fault, Leave, rowVars, apiVars
  <2>4. cHeld' \in [Shards -> BOOLEAN] /\ cCancel' \in [Shards -> BOOLEAN]
    BY <1>22 DEF CoordinatorCrash, Fault, Leave, rowVars, apiVars
  <2>5. todo' \subseteq Shards /\ at' \in Shards \cup {NoShard} /\ copy' \in BOOLEAN
    BY <1>22 DEF CoordinatorCrash, Fault, Leave, rowVars, apiVars
  <2>6. seen' \in [Shards -> Terminal \cup {NoEnd}] /\ fin' \in Terminal \cup {NoEnd}
    BY <1>22 DEF CoordinatorCrash, Fault, Leave, rowVars, apiVars
  <2>7. own' \in BOOLEAN /\ pctx' \in {"live", "canceled", "shutdown"}
    BY <1>22 DEF CoordinatorCrash, Fault, Leave, rowVars, apiVars
  <2>8. faults' \in Nat
    BY <1>22 DEF CoordinatorCrash, Fault, Leave, rowVars, apiVars
  <2> QED
    BY <1>22, <2>1, <2>2, <2>3, <2>4, <2>5, <2>6, <2>7, <2>8 DEF CoordinatorCrash, Fault, Leave, rowVars, apiVars
<1>23. CASE HandlerRead
  BY <1>23 DEF HandlerRead, rowVars, coVars, Terminal
<1>24. CASE HandlerCancels
  BY <1>24 DEF HandlerCancels, Fault, Stored, coVars, Terminal
<1>25. CASE HandlerLost
  BY <1>25 DEF HandlerLost, Fault, rowVars, coVars, Terminal
<1>26. CASE HandlerAnswers
  BY <1>26 DEF HandlerAnswers, rowVars, coVars, Terminal
<1>27. CASE HandlerFlag
  BY <1>27 DEF HandlerFlag, Terminal
<1>29. ASSUME NEW s \in Shards, StoreShard(s) PROVE TypeOK'
  BY <1>29 DEF StoreShard, coVars, apiVars, Terminal
<1>30. ASSUME NEW s \in Shards, StoreShardFails(s) PROVE TypeOK'
  BY <1>30 DEF StoreShardFails, Fault, Stored, apiVars, Terminal
<1>31. ASSUME NEW s \in Shards, AbandonShard(s) PROVE TypeOK'
  BY <1>31 DEF AbandonShard, Fault, CancelPending, Waiting, apiVars, Terminal
<1>32. ASSUME NEW s \in Shards, CancelRead(s) PROVE TypeOK'
  <2>1. pStatus' \in Terminal \cup {"pending", "running"}
    BY <1>32 DEF CancelRead, Waiting, rowVars, apiVars
  <2>2. pHeld' \in BOOLEAN /\ pCancel' \in BOOLEAN
    BY <1>32 DEF CancelRead, Waiting, rowVars, apiVars
  <2>3. cStatus' \in [Shards -> Terminal \cup {"absent", "pending", "running"}]
    BY <1>32 DEF CancelRead, Waiting, rowVars, apiVars
  <2>4. cHeld' \in [Shards -> BOOLEAN] /\ cCancel' \in [Shards -> BOOLEAN]
    BY <1>32 DEF CancelRead, Waiting, rowVars, apiVars
  <2>5. todo' \subseteq Shards /\ at' \in Shards \cup {NoShard} /\ copy' \in BOOLEAN
    BY <1>32 DEF CancelRead, Waiting, rowVars, apiVars
  <2>6. seen' \in [Shards -> Terminal \cup {NoEnd}] /\ fin' \in Terminal \cup {NoEnd}
    BY <1>32 DEF CancelRead, Waiting, rowVars, apiVars
  <2>7. own' \in BOOLEAN /\ pctx' \in {"live", "canceled", "shutdown"}
    BY <1>32 DEF CancelRead, Waiting, rowVars, apiVars
  <2>8. faults' \in Nat
    BY <1>32 DEF CancelRead, Waiting, rowVars, apiVars
  <2> QED
    BY <1>32, <2>1, <2>2, <2>3, <2>4, <2>5, <2>6, <2>7, <2>8 DEF CancelRead, Waiting, rowVars, apiVars
<1>33. ASSUME NEW s \in Shards, CancelReadFails(s) PROVE TypeOK'
  BY <1>33 DEF CancelReadFails, Fault, rowVars, apiVars, Terminal
<1>34. ASSUME NEW s \in Shards, HandlerChild(s) PROVE TypeOK'
  BY <1>34 DEF HandlerChild, Waiting, CancelPending, coVars, Terminal
<1>35. ASSUME NEW s \in Shards, HandlerChildFails(s) PROVE TypeOK'
  BY <1>35 DEF HandlerChildFails, Fault, rowVars, coVars, Terminal
<1>36. ASSUME NEW s \in Shards, Claim(s) PROVE TypeOK'
  BY <1>36 DEF Claim, Waiting, coVars, apiVars, Terminal
<1>37. ASSUME NEW s \in Shards, Start(s) PROVE TypeOK'
  BY <1>37 DEF Start, ShardCanStart, coVars, apiVars, Terminal
<1>38. ASSUME NEW s \in Shards, StartRefused(s) PROVE TypeOK'
  BY <1>38 DEF StartRefused, ShardCanStart, rowVars, coVars, apiVars, Terminal
<1>39. ASSUME NEW s \in Shards, Finish(s) PROVE TypeOK'
  BY <1>39 DEF Finish, coVars, apiVars, Terminal
<1>40. ASSUME NEW s \in Shards, Yield(s) PROVE TypeOK'
  BY <1>40 DEF Yield, rowVars, coVars, apiVars, Terminal
<1>41. ASSUME NEW s \in Shards, ExecutorDies(s) PROVE TypeOK'
  BY <1>41 DEF ExecutorDies, Fault, rowVars, coVars, apiVars, Terminal
<1>42. ASSUME NEW parent \in BOOLEAN, NEW stale \in SUBSET Shards, Sweep(parent, stale)
      PROVE  TypeOK'
  BY <1>42 DEF Sweep, Terminal, Fault, Attended, SweptStatus, Orphaned, coVars, apiVars
<1>43. CASE UNCHANGED vars
  BY <1>43 DEF vars, rowVars, coVars, apiVars
<1> QED
  BY <1>1, <1>2, <1>3, <1>4, <1>5, <1>6, <1>7, <1>8, <1>9, <1>10, <1>11, <1>12, <1>13, <1>14,
     <1>15, <1>16, <1>17, <1>18, <1>19, <1>20, <1>21, <1>22, <1>23, <1>24, <1>25, <1>26, <1>27,
     <1>29, <1>30, <1>31, <1>32, <1>33, <1>34, <1>35, <1>36, <1>37, <1>38, <1>39, <1>40,
     <1>41, <1>42, <1>43 DEF Next, SubmitStep, CoordinatorStep, ShardStep,
     HandlerStep

\* A shard that ended keeps its end: finalize, CancelPending, the fenced start and the sweeps all
\* leave a terminal row alone, and only the save of a copy read before does not.
LEMMA ShardEndsStand ==
  ASSUME TypeOK, [Next]_vars, ~CancelSave, NEW x \in Shards, cStatus[x] \in Terminal
  PROVE  cStatus'[x] = cStatus[x]
<1> USE DEF TypeOK, Terminal
<1>1. CASE AbandonParent
  BY <1>1 DEF AbandonParent, Leave, apiVars
<1>2. CASE BeginCoordination
  BY <1>2 DEF BeginCoordination, Stored, rowVars, apiVars
<1>3. CASE ClaimParent
  BY <1>3 DEF ClaimParent, ParentCanStart, apiVars
<1>4. CASE ClaimParentLost
  BY <1>4 DEF ClaimParentLost, Fault, CancelThenEnd, ParentCanStart, rowVars, apiVars
<1>5. CASE ClaimParentRepeated
  BY <1>5 DEF ClaimParentRepeated, Fault, CancelThenEnd, ParentCanStart, apiVars
<1>6. CASE ClaimParentFails
  BY <1>6 DEF ClaimParentFails, Fault, CancelThenEnd, ParentCanStart, apiVars
<1>7. CASE RefuseParent
  BY <1>7 DEF RefuseParent, CancelThenEnd, rowVars, apiVars
<1>8. CASE StartParentRow
  BY <1>8 DEF StartParentRow, Fault, apiVars
<1>9. CASE Poll
  BY <1>9 DEF Poll, ReadResults, Rollup, rowVars, apiVars
<1>10. CASE StopWaiting
  BY <1>10 DEF StopWaiting, CancelThenEnd, ReadResults, rowVars, apiVars
<1>11. CASE CancelFlag
  BY <1>11 DEF CancelFlag, Fault, apiVars
<1>12. CASE CancelSettle
  BY <1>12 DEF CancelSettle, Stopped, apiVars
<1>13. CASE CancelDone
  BY <1>13 DEF CancelDone, Rollup, Stopped, rowVars, apiVars
<1>14. CASE CancelOnly
  BY <1>14 DEF CancelOnly, Leave, rowVars, apiVars
<1>15. CASE EndParent
  BY <1>15 DEF EndParent, Leave, ParentCanEnd, apiVars
<1>16. CASE YieldParent
  BY <1>16 DEF YieldParent, Leave, ParentCanEnd, rowVars, apiVars
<1>17. CASE ReadParent
  BY <1>17 DEF ReadParent, Fault, rowVars, apiVars
<1>18. CASE SaveParent
  BY <1>18 DEF SaveParent, Leave, apiVars
<1>19. CASE Watch
  BY <1>19 DEF Watch, rowVars, apiVars
<1>20. CASE Shutdown
  BY <1>20 DEF Shutdown, rowVars, apiVars
<1>21. CASE CoordinatorCrash
  BY <1>21 DEF CoordinatorCrash, Fault, Leave, rowVars, apiVars
<1>22. CASE HandlerRead
  BY <1>22 DEF HandlerRead, rowVars, coVars
<1>23. CASE HandlerCancels
  BY <1>23 DEF HandlerCancels, Fault, Stored, coVars
<1>24. CASE HandlerLost
  BY <1>24 DEF HandlerLost, Fault, rowVars, coVars
<1>25. CASE HandlerAnswers
  BY <1>25 DEF HandlerAnswers, rowVars, coVars
<1>26. CASE HandlerFlag
  BY <1>26 DEF HandlerFlag
<1>28. ASSUME NEW s \in Shards, StoreShard(s) PROVE cStatus'[x] = cStatus[x]
  BY <1>28 DEF StoreShard, First, Stored, coVars, apiVars
<1>29. ASSUME NEW s \in Shards, StoreShardFails(s) PROVE cStatus'[x] = cStatus[x]
  BY <1>29 DEF StoreShardFails, Fault, First, Stored, apiVars
<1>30. ASSUME NEW s \in Shards, AbandonShard(s) PROVE cStatus'[x] = cStatus[x]
  BY <1>30 DEF AbandonShard, Fault, CancelPending, Waiting, apiVars
<1>31. ASSUME NEW s \in Shards, CancelRead(s) PROVE cStatus'[x] = cStatus[x]
  BY <1>31 DEF CancelRead, Waiting, rowVars, apiVars
<1>32. ASSUME NEW s \in Shards, CancelReadFails(s) PROVE cStatus'[x] = cStatus[x]
  BY <1>32 DEF CancelReadFails, Fault, rowVars, apiVars
<1>33. ASSUME NEW s \in Shards, HandlerChild(s) PROVE cStatus'[x] = cStatus[x]
  BY <1>33 DEF HandlerChild, Waiting, CancelPending, coVars
<1>34. ASSUME NEW s \in Shards, HandlerChildFails(s) PROVE cStatus'[x] = cStatus[x]
  BY <1>34 DEF HandlerChildFails, Fault, rowVars, coVars
<1>35. ASSUME NEW s \in Shards, Claim(s) PROVE cStatus'[x] = cStatus[x]
  BY <1>35 DEF Claim, Waiting, coVars, apiVars
<1>36. ASSUME NEW s \in Shards, Start(s) PROVE cStatus'[x] = cStatus[x]
  BY <1>36 DEF Start, ShardCanStart, coVars, apiVars
<1>37. ASSUME NEW s \in Shards, StartRefused(s) PROVE cStatus'[x] = cStatus[x]
  BY <1>37 DEF StartRefused, ShardCanStart, rowVars, coVars, apiVars
<1>38. ASSUME NEW s \in Shards, Finish(s) PROVE cStatus'[x] = cStatus[x]
  BY <1>38 DEF Finish, coVars, apiVars
<1>39. ASSUME NEW s \in Shards, Yield(s) PROVE cStatus'[x] = cStatus[x]
  BY <1>39 DEF Yield, rowVars, coVars, apiVars
<1>40. ASSUME NEW s \in Shards, ExecutorDies(s) PROVE cStatus'[x] = cStatus[x]
  BY <1>40 DEF ExecutorDies, Fault, rowVars, coVars, apiVars
<1>41. ASSUME NEW parent \in BOOLEAN, NEW stale \in SUBSET Shards, Sweep(parent, stale)
      PROVE  cStatus'[x] = cStatus[x]
  BY <1>41 DEF Sweep, Fault, Attended, SweptStatus, Orphaned, coVars, apiVars
<1>42. CASE UNCHANGED vars
  BY <1>42 DEF vars, rowVars, coVars, apiVars
<1> QED
  BY <1>1, <1>2, <1>3, <1>4, <1>5, <1>6, <1>7, <1>8, <1>9, <1>10, <1>11, <1>12, <1>13, <1>14,
     <1>15, <1>16, <1>17, <1>18, <1>19, <1>20, <1>21, <1>22, <1>23, <1>24, <1>25, <1>26, <1>28, <1>29, <1>30, <1>31, <1>32, <1>33, <1>34, <1>35, <1>36, <1>37, <1>38, <1>39, <1>40,
     <1>41, <1>42 DEF Next, SubmitStep, CoordinatorStep, ShardStep,
     HandlerStep

\* A coordinator only cancels shards it has no result of, and only before it ends its parent.
LEMMA LoopStep == ASSUME IndInv, [Next]_vars PROVE LoopInv'
<1> USE ConstantsAssumption DEF IndInv, TypeOK, LoopInv
<1>1. CASE AbandonParent
  BY <1>1 DEF AbandonParent, Leave, apiVars, NoEnd, ResultsInv, Terminal, EndingInv
<1>2. CASE BeginCoordination
  BY <1>2 DEF BeginCoordination, Stored, rowVars, apiVars
<1>3. CASE ClaimParent
  BY <1>3 DEF ClaimParent, ParentCanStart, apiVars
<1>4. CASE ClaimParentLost
  BY <1>4 DEF ClaimParentLost, Fault, CancelThenEnd, ParentCanStart, rowVars, apiVars, NoEnd,
     ResultsInv, Terminal, EndingInv
<1>5. CASE ClaimParentRepeated
  BY <1>5 DEF ClaimParentRepeated, Fault, CancelThenEnd, ParentCanStart, apiVars, NoEnd,
     ResultsInv, Terminal, EndingInv
<1>6. CASE ClaimParentFails
  BY <1>6 DEF ClaimParentFails, Fault, CancelThenEnd, ParentCanStart, apiVars, NoEnd, ResultsInv,
     Terminal, EndingInv
<1>7. CASE RefuseParent
  BY <1>7 DEF RefuseParent, CancelThenEnd, rowVars, apiVars, NoEnd, ResultsInv, Terminal,
     EndingInv
<1>8. CASE StartParentRow
  BY <1>8 DEF StartParentRow, Fault, apiVars
<1>9. CASE Poll
  BY <1>9 DEF Poll, ReadResults, Rollup, rowVars, apiVars, NoEnd, ResultsInv, Terminal, EndingInv
<1>10. CASE StopWaiting
  BY <1>10 DEF StopWaiting, CancelThenEnd, ReadResults, rowVars, apiVars, NoEnd, ResultsInv,
     Terminal, EndingInv
<1>11. CASE CancelFlag
  BY <1>11 DEF CancelFlag, Fault, apiVars
<1>12. CASE CancelSettle
  BY <1>12 DEF CancelSettle, Stopped, apiVars, NoEnd, ResultsInv, Terminal, EndingInv
<1>13. CASE CancelSave
  BY <1>13 DEF CancelSave, Stopped, apiVars, NoEnd, ResultsInv, Terminal, EndingInv
<1>14. CASE CancelDone
  BY <1>14 DEF CancelDone, Rollup, Stopped, rowVars, apiVars, NoEnd, ResultsInv, Terminal,
     EndingInv
<1>15. CASE CancelOnly
  BY <1>15 DEF CancelOnly, Leave, rowVars, apiVars, NoEnd, ResultsInv, Terminal, EndingInv
<1>16. CASE EndParent
  BY <1>16 DEF EndParent, Leave, ParentCanEnd, apiVars, NoEnd, ResultsInv, Terminal, EndingInv
<1>17. CASE YieldParent
  BY <1>17 DEF YieldParent, Leave, ParentCanEnd, rowVars, apiVars, NoEnd, ResultsInv, Terminal,
     EndingInv
<1>18. CASE ReadParent
  BY <1>18 DEF ReadParent, Fault, rowVars, apiVars
<1>19. CASE SaveParent
  BY <1>19 DEF SaveParent, Leave, apiVars, NoEnd, ResultsInv, Terminal, EndingInv
<1>20. CASE Watch
  BY <1>20 DEF Watch, rowVars, apiVars
<1>21. CASE Shutdown
  BY <1>21 DEF Shutdown, rowVars, apiVars
<1>22. CASE CoordinatorCrash
  BY <1>22 DEF CoordinatorCrash, Fault, Leave, rowVars, apiVars, NoEnd, ResultsInv, Terminal,
     EndingInv
<1>23. CASE HandlerRead
  BY <1>23 DEF HandlerRead, rowVars, coVars
<1>24. CASE HandlerCancels
  BY <1>24 DEF HandlerCancels, Fault, Stored, coVars
<1>25. CASE HandlerLost
  BY <1>25 DEF HandlerLost, Fault, rowVars, coVars
<1>26. CASE HandlerAnswers
  BY <1>26 DEF HandlerAnswers, rowVars, coVars
<1>27. CASE HandlerFlag
  BY <1>27 DEF HandlerFlag
<1>29. ASSUME NEW s \in Shards, StoreShard(s) PROVE LoopInv'
  BY <1>29 DEF StoreShard, coVars, apiVars
<1>30. ASSUME NEW s \in Shards, StoreShardFails(s) PROVE LoopInv'
  BY <1>30 DEF StoreShardFails, Fault, Stored, apiVars
<1>31. ASSUME NEW s \in Shards, AbandonShard(s) PROVE LoopInv'
  BY <1>31 DEF AbandonShard, Fault, CancelPending, Waiting, apiVars
<1>32. ASSUME NEW s \in Shards, CancelRead(s) PROVE LoopInv'
  BY <1>32 DEF CancelRead, Waiting, rowVars, apiVars, NoEnd, ResultsInv, Terminal, EndingInv
<1>33. ASSUME NEW s \in Shards, CancelReadFails(s) PROVE LoopInv'
  BY <1>33 DEF CancelReadFails, Fault, rowVars, apiVars
<1>34. ASSUME NEW s \in Shards, HandlerChild(s) PROVE LoopInv'
  BY <1>34 DEF HandlerChild, Waiting, CancelPending, coVars
<1>35. ASSUME NEW s \in Shards, HandlerChildFails(s) PROVE LoopInv'
  BY <1>35 DEF HandlerChildFails, Fault, rowVars, coVars
<1>36. ASSUME NEW s \in Shards, Claim(s) PROVE LoopInv'
  BY <1>36 DEF Claim, Waiting, coVars, apiVars
<1>37. ASSUME NEW s \in Shards, Start(s) PROVE LoopInv'
  BY <1>37 DEF Start, ShardCanStart, coVars, apiVars
<1>38. ASSUME NEW s \in Shards, StartRefused(s) PROVE LoopInv'
  BY <1>38 DEF StartRefused, ShardCanStart, rowVars, coVars, apiVars
<1>39. ASSUME NEW s \in Shards, Finish(s) PROVE LoopInv'
  BY <1>39 DEF Finish, coVars, apiVars
<1>40. ASSUME NEW s \in Shards, Yield(s) PROVE LoopInv'
  BY <1>40 DEF Yield, rowVars, coVars, apiVars
<1>41. ASSUME NEW s \in Shards, ExecutorDies(s) PROVE LoopInv'
  BY <1>41 DEF ExecutorDies, Fault, rowVars, coVars, apiVars
<1>42. ASSUME NEW parent \in BOOLEAN, NEW stale \in SUBSET Shards, Sweep(parent, stale)
      PROVE  LoopInv'
  BY <1>42 DEF Sweep, Fault, Attended, SweptStatus, Orphaned, coVars, apiVars
<1>43. CASE UNCHANGED vars
  BY <1>43 DEF vars, rowVars, coVars, apiVars
<1> QED
  BY <1>1, <1>2, <1>3, <1>4, <1>5, <1>6, <1>7, <1>8, <1>9, <1>10, <1>11, <1>12, <1>13, <1>14,
     <1>15, <1>16, <1>17, <1>18, <1>19, <1>20, <1>21, <1>22, <1>23, <1>24, <1>25, <1>26, <1>27,
     <1>29, <1>30, <1>31, <1>32, <1>33, <1>34, <1>35, <1>36, <1>37, <1>38, <1>39, <1>40,
     <1>41, <1>42, <1>43 DEF Next, SubmitStep, CoordinatorStep, ShardStep,
     HandlerStep

\* The coordinator never holds a result the store does not, nor a success of anything less than all.
LEMMA ResultsStep == ASSUME IndInv, [Next]_vars PROVE ResultsInv'
<1> USE ConstantsAssumption DEF IndInv, TypeOK, ResultsInv, SucceedsOnlyWhole, Terminal
<1>save. ASSUME CancelSave PROVE ResultsInv'
  <2>1. at \in Shards /\ \A s \in Shards : s # at => cStatus'[s] = cStatus[s]
    BY <1>save DEF CancelSave, LoopInv
  <2>2. fin' = fin /\ fin # "succeeded" /\ pStatus' = pStatus /\ pStatus # "succeeded"
    BY <1>save DEF CancelSave, LoopInv
  <2>3. seen' = seen /\ seen[at] = NoEnd
    BY <1>save, <2>1 DEF CancelSave, LoopInv
  <2> QED
    BY <2>1, <2>2, <2>3
<1>other. SUFFICES ASSUME ~CancelSave PROVE ResultsInv'
  BY <1>save
<1>0. \A x \in Shards : cStatus[x] \in Terminal => cStatus'[x] = cStatus[x]
  BY <1>other, ShardEndsStand
<1>1. CASE AbandonParent
  BY <1>0, <1>1 DEF AbandonParent, Leave, apiVars, NoEnd
<1>2. CASE BeginCoordination
  BY <1>0, <1>2 DEF BeginCoordination, Stored, rowVars, apiVars
<1>3. CASE ClaimParent
  BY <1>0, <1>3 DEF ClaimParent, ParentCanStart, apiVars
<1>4. CASE ClaimParentLost
  BY <1>0, <1>4 DEF ClaimParentLost, Fault, CancelThenEnd, ParentCanStart, rowVars, apiVars, NoEnd
<1>5. CASE ClaimParentRepeated
  BY <1>0, <1>5 DEF ClaimParentRepeated, Fault, CancelThenEnd, ParentCanStart, apiVars, NoEnd
<1>6. CASE ClaimParentFails
  BY <1>0, <1>6 DEF ClaimParentFails, Fault, CancelThenEnd, ParentCanStart, apiVars, NoEnd
<1>7. CASE RefuseParent
  BY <1>0, <1>7 DEF RefuseParent, CancelThenEnd, rowVars, apiVars, NoEnd
<1>8. CASE StartParentRow
  BY <1>0, <1>8 DEF StartParentRow, Fault, apiVars
<1>9. CASE Poll
  <2>1. \A s \in Shards : seen'[s] # NoEnd => cStatus'[s] = seen'[s]
    BY <1>9 DEF Poll, ReadResults, rowVars
  <2>2. ASSUME fin' # fin, fin' = "succeeded" PROVE \A s \in Shards : seen'[s] = "succeeded"
    BY <1>9, <2>2 DEF Poll, ReadResults, Rollup
  <2> QED
    BY <1>9, <2>1, <2>2 DEF Poll, rowVars, NoEnd
<1>10. CASE StopWaiting
  <2>1. \A s \in Shards : seen'[s] # NoEnd => cStatus'[s] = seen'[s]
    BY <1>10 DEF StopWaiting, ReadResults, rowVars
  <2> QED
    BY <1>10, <2>1 DEF StopWaiting, CancelThenEnd, rowVars, NoEnd
<1>11. CASE CancelFlag
  BY <1>0, <1>11 DEF CancelFlag, Fault, apiVars
<1>12. CASE CancelSettle
  BY <1>0, <1>12 DEF CancelSettle, Stopped, apiVars
<1>13. CASE CancelDone
  <2>1. ASSUME own, fin' = "succeeded" PROVE \A s \in Shards : seen[s] = "succeeded"
    BY <1>13, <2>1 DEF CancelDone, Rollup, Stopped
  <2>2. ASSUME fin' = "succeeded" PROVE \A s \in Shards : cStatus[s] = "succeeded"
    BY <1>13, <2>1, <2>2 DEF CancelDone, NoEnd
  <2> QED
    BY <1>13, <2>2 DEF CancelDone, rowVars
<1>14. CASE CancelOnly
  BY <1>0, <1>14 DEF CancelOnly, Leave, rowVars, apiVars, NoEnd
<1>15. CASE EndParent
  BY <1>0, <1>15 DEF EndParent, Leave, ParentCanEnd, apiVars, NoEnd
<1>16. CASE YieldParent
  BY <1>0, <1>16 DEF YieldParent, Leave, ParentCanEnd, rowVars, apiVars, NoEnd
<1>17. CASE ReadParent
  BY <1>0, <1>17 DEF ReadParent, Fault, rowVars, apiVars
<1>18. CASE SaveParent
  BY <1>0, <1>18 DEF SaveParent, Leave, apiVars, NoEnd
<1>19. CASE Watch
  BY <1>0, <1>19 DEF Watch, rowVars, apiVars
<1>20. CASE Shutdown
  BY <1>0, <1>20 DEF Shutdown, rowVars, apiVars
<1>21. CASE CoordinatorCrash
  BY <1>0, <1>21 DEF CoordinatorCrash, Fault, Leave, rowVars, apiVars, NoEnd
<1>22. CASE HandlerRead
  BY <1>0, <1>22 DEF HandlerRead, rowVars, coVars
<1>23. CASE HandlerCancels
  BY <1>0, <1>23 DEF HandlerCancels, Fault, Stored, coVars
<1>24. CASE HandlerLost
  BY <1>0, <1>24 DEF HandlerLost, Fault, rowVars, coVars
<1>25. CASE HandlerAnswers
  BY <1>0, <1>25 DEF HandlerAnswers, rowVars, coVars
<1>26. CASE HandlerFlag
  BY <1>0, <1>26 DEF HandlerFlag
<1>28. ASSUME NEW s \in Shards, StoreShard(s) PROVE ResultsInv'
  BY <1>0, <1>28 DEF StoreShard, coVars, apiVars
<1>29. ASSUME NEW s \in Shards, StoreShardFails(s) PROVE ResultsInv'
  BY <1>0, <1>29 DEF StoreShardFails, Fault, Stored, apiVars
<1>30. ASSUME NEW s \in Shards, AbandonShard(s) PROVE ResultsInv'
  BY <1>0, <1>30 DEF AbandonShard, Fault, CancelPending, Waiting, apiVars
<1>31. ASSUME NEW s \in Shards, CancelRead(s) PROVE ResultsInv'
  BY <1>0, <1>31 DEF CancelRead, Waiting, rowVars, apiVars
<1>32. ASSUME NEW s \in Shards, CancelReadFails(s) PROVE ResultsInv'
  BY <1>0, <1>32 DEF CancelReadFails, Fault, rowVars, apiVars
<1>33. ASSUME NEW s \in Shards, HandlerChild(s) PROVE ResultsInv'
  BY <1>0, <1>33 DEF HandlerChild, Waiting, CancelPending, coVars
<1>34. ASSUME NEW s \in Shards, HandlerChildFails(s) PROVE ResultsInv'
  BY <1>0, <1>34 DEF HandlerChildFails, Fault, rowVars, coVars
<1>35. ASSUME NEW s \in Shards, Claim(s) PROVE ResultsInv'
  BY <1>0, <1>35 DEF Claim, Waiting, coVars, apiVars
<1>36. ASSUME NEW s \in Shards, Start(s) PROVE ResultsInv'
  BY <1>0, <1>36 DEF Start, ShardCanStart, coVars, apiVars
<1>37. ASSUME NEW s \in Shards, StartRefused(s) PROVE ResultsInv'
  BY <1>0, <1>37 DEF StartRefused, ShardCanStart, rowVars, coVars, apiVars
<1>38. ASSUME NEW s \in Shards, Finish(s) PROVE ResultsInv'
  BY <1>0, <1>38 DEF Finish, coVars, apiVars
<1>39. ASSUME NEW s \in Shards, Yield(s) PROVE ResultsInv'
  BY <1>0, <1>39 DEF Yield, rowVars, coVars, apiVars
<1>40. ASSUME NEW s \in Shards, ExecutorDies(s) PROVE ResultsInv'
  BY <1>0, <1>40 DEF ExecutorDies, Fault, rowVars, coVars, apiVars
<1>41. ASSUME NEW parent \in BOOLEAN, NEW stale \in SUBSET Shards, Sweep(parent, stale)
      PROVE  ResultsInv'
  BY <1>0, <1>41 DEF Sweep, Fault, Attended, SweptStatus, Orphaned, coVars, apiVars
<1>42. CASE UNCHANGED vars
  BY <1>0, <1>42 DEF vars, rowVars, coVars, apiVars
<1> QED
  BY <1>other, <1>1, <1>2, <1>3, <1>4, <1>5, <1>6, <1>7, <1>8, <1>9, <1>10, <1>11, <1>12, <1>13,
     <1>14, <1>15, <1>16, <1>17, <1>18, <1>19, <1>20, <1>21, <1>22, <1>23, <1>24, <1>25, <1>26,
     <1>28, <1>29, <1>30, <1>31, <1>32, <1>33, <1>34, <1>35, <1>36, <1>37, <1>38, <1>39,
     <1>40, <1>41, <1>42 DEF Next, SubmitStep, CoordinatorStep, ShardStep,
     HandlerStep

\* The rollup and the causes of an early end are terminal statuses.
LEMMA EndingStep == ASSUME IndInv, [Next]_vars PROVE EndingInv'
<1> USE DEF IndInv, EndingInv
<1>1. ASSUME Poll PROVE EndingInv'
  BY <1>1 DEF Poll, Rollup, Terminal
<1>2. ASSUME CancelDone PROVE EndingInv'
  BY <1>2 DEF CancelDone, Rollup, Terminal, TypeOK
<1>3. ASSUME pc' \in {"ending", "rewriting"}, ~Poll, ~CancelDone
      PROVE  pc \in {"ending", "rewriting"} /\ fin' = fin
  BY <1>3 DEF Next, SubmitStep, StoreShard, StoreShardFails, AbandonShard, AbandonParent,
     BeginCoordination, CoordinatorStep, ClaimParent, ClaimParentLost, ClaimParentRepeated,
     ClaimParentFails, RefuseParent, StartParentRow, StopWaiting, CancelRead, CancelReadFails,
     CancelFlag, CancelSettle, CancelSave, CancelOnly, EndParent, YieldParent, ReadParent,
     SaveParent, Watch, Shutdown, CoordinatorCrash, HandlerStep,
     HandlerRead, HandlerCancels, HandlerLost, HandlerChild, HandlerChildFails,
     HandlerAnswers, HandlerFlag, Sweep, ShardStep, Claim, Start, StartRefused, Finish, Yield,
     ExecutorDies, CancelThenEnd, Leave, vars, coVars
<1> QED
  BY <1>1, <1>2, <1>3

\* While a coordinator is between its claim and its save, nobody ends its parent but the sweep.
LEMMA StartingStep == ASSUME IndInv, [Next]_vars PROVE StartingInv'
<1> USE DEF IndInv, TypeOK, StartingInv
<1>1. CASE AbandonParent
  BY <1>1 DEF AbandonParent, Leave, apiVars
<1>2. CASE BeginCoordination
  BY <1>2 DEF BeginCoordination, Stored, rowVars, apiVars
<1>3. CASE ClaimParent
  BY <1>3 DEF ClaimParent, ParentCanStart, apiVars
<1>4. CASE ClaimParentLost
  BY <1>4 DEF ClaimParentLost, Fault, CancelThenEnd, ParentCanStart, rowVars, apiVars
<1>5. CASE ClaimParentRepeated
  BY <1>5 DEF ClaimParentRepeated, Fault, CancelThenEnd, ParentCanStart, apiVars
<1>6. CASE ClaimParentFails
  BY <1>6 DEF ClaimParentFails, Fault, CancelThenEnd, ParentCanStart, apiVars
<1>7. CASE RefuseParent
  BY <1>7 DEF RefuseParent, CancelThenEnd, rowVars, apiVars
<1>8. CASE StartParentRow
  BY <1>8 DEF StartParentRow, Fault, apiVars
<1>9. CASE Poll
  BY <1>9 DEF Poll, ReadResults, Rollup, rowVars, apiVars
<1>10. CASE StopWaiting
  BY <1>10 DEF StopWaiting, CancelThenEnd, ReadResults, rowVars, apiVars
<1>11. CASE CancelFlag
  BY <1>11 DEF CancelFlag, Fault, apiVars
<1>12. CASE CancelSettle
  BY <1>12 DEF CancelSettle, Stopped, apiVars
<1>13. CASE CancelSave
  BY <1>13 DEF CancelSave, Stopped, apiVars
<1>14. CASE CancelDone
  BY <1>14 DEF CancelDone, Rollup, Stopped, rowVars, apiVars
<1>15. CASE CancelOnly
  BY <1>15 DEF CancelOnly, Leave, rowVars, apiVars
<1>16. CASE EndParent
  BY <1>16 DEF EndParent, Leave, ParentCanEnd, apiVars
<1>17. CASE YieldParent
  BY <1>17 DEF YieldParent, Leave, ParentCanEnd, rowVars, apiVars
<1>18. CASE ReadParent
  BY <1>18 DEF ReadParent, Fault, rowVars, apiVars
<1>19. CASE SaveParent
  BY <1>19 DEF SaveParent, Leave, apiVars
<1>20. CASE Watch
  BY <1>20 DEF Watch, rowVars, apiVars
<1>21. CASE Shutdown
  BY <1>21 DEF Shutdown, rowVars, apiVars
<1>22. CASE CoordinatorCrash
  BY <1>22 DEF CoordinatorCrash, Fault, Leave, rowVars, apiVars
<1>23. CASE HandlerRead
  BY <1>23 DEF HandlerRead, rowVars, coVars
<1>24. CASE HandlerCancels
  BY <1>24 DEF HandlerCancels, Fault, Stored, coVars
<1>25. CASE HandlerLost
  BY <1>25 DEF HandlerLost, Fault, rowVars, coVars
<1>26. CASE HandlerAnswers
  BY <1>26 DEF HandlerAnswers, rowVars, coVars
<1>27. CASE HandlerFlag
  BY <1>27 DEF HandlerFlag
<1>29. ASSUME NEW s \in Shards, StoreShard(s) PROVE StartingInv'
  BY <1>29 DEF StoreShard, coVars, apiVars
<1>30. ASSUME NEW s \in Shards, StoreShardFails(s) PROVE StartingInv'
  BY <1>30 DEF StoreShardFails, Fault, Stored, apiVars
<1>31. ASSUME NEW s \in Shards, AbandonShard(s) PROVE StartingInv'
  BY <1>31 DEF AbandonShard, Fault, CancelPending, Waiting, apiVars
<1>32. ASSUME NEW s \in Shards, CancelRead(s) PROVE StartingInv'
  BY <1>32 DEF CancelRead, Waiting, rowVars, apiVars
<1>33. ASSUME NEW s \in Shards, CancelReadFails(s) PROVE StartingInv'
  BY <1>33 DEF CancelReadFails, Fault, rowVars, apiVars
<1>34. ASSUME NEW s \in Shards, HandlerChild(s) PROVE StartingInv'
  BY <1>34 DEF HandlerChild, Waiting, CancelPending, coVars
<1>35. ASSUME NEW s \in Shards, HandlerChildFails(s) PROVE StartingInv'
  BY <1>35 DEF HandlerChildFails, Fault, rowVars, coVars
<1>36. ASSUME NEW s \in Shards, Claim(s) PROVE StartingInv'
  BY <1>36 DEF Claim, Waiting, coVars, apiVars
<1>37. ASSUME NEW s \in Shards, Start(s) PROVE StartingInv'
  BY <1>37 DEF Start, ShardCanStart, coVars, apiVars
<1>38. ASSUME NEW s \in Shards, StartRefused(s) PROVE StartingInv'
  BY <1>38 DEF StartRefused, ShardCanStart, rowVars, coVars, apiVars
<1>39. ASSUME NEW s \in Shards, Finish(s) PROVE StartingInv'
  BY <1>39 DEF Finish, coVars, apiVars
<1>40. ASSUME NEW s \in Shards, Yield(s) PROVE StartingInv'
  BY <1>40 DEF Yield, rowVars, coVars, apiVars
<1>41. ASSUME NEW s \in Shards, ExecutorDies(s) PROVE StartingInv'
  BY <1>41 DEF ExecutorDies, Fault, rowVars, coVars, apiVars
<1>42. ASSUME NEW parent \in BOOLEAN, NEW stale \in SUBSET Shards, Sweep(parent, stale)
      PROVE  StartingInv'
  BY <1>42 DEF Sweep, Fault, Attended, SweptStatus, Orphaned, coVars, apiVars
<1>43. CASE UNCHANGED vars
  BY <1>43 DEF vars, rowVars, coVars, apiVars
<1> QED
  BY <1>1, <1>2, <1>3, <1>4, <1>5, <1>6, <1>7, <1>8, <1>9, <1>10, <1>11, <1>12, <1>13, <1>14,
     <1>15, <1>16, <1>17, <1>18, <1>19, <1>20, <1>21, <1>22, <1>23, <1>24, <1>25, <1>26, <1>27,
     <1>29, <1>30, <1>31, <1>32, <1>33, <1>34, <1>35, <1>36, <1>37, <1>38, <1>39, <1>40,
     <1>41, <1>42, <1>43 DEF Next, SubmitStep, CoordinatorStep, ShardStep,
     HandlerStep

\* Claim is the only way to an executor and it asks for a running parent: while the parent does not
\* run, what has not run does not.
LEMMA NothingRanStep ==
  ASSUME TypeOK, [Next]_vars, NothingRan, pStatus # "running"
  PROVE  NothingRan'
<1> USE DEF TypeOK, NothingRan
<1>1. ASSUME SubmitStep PROVE NothingRan'
  BY <1>1 DEF SubmitStep, StoreShard, StoreShardFails, AbandonShard, AbandonParent,
     BeginCoordination, CancelPending, rowVars
<1>2. ASSUME CoordinatorStep PROVE NothingRan'
  <2>1. CASE CancelSettle \/ CancelSave
    BY <2>1 DEF CancelSettle, CancelSave, Stopped
  <2>2. CASE UNCHANGED <<cStatus, exec>>
    BY <2>2
  <2> QED
    BY <1>2, <2>1, <2>2 DEF CoordinatorStep, ClaimParent, ClaimParentLost, ClaimParentRepeated, ClaimParentFails,
       RefuseParent, StartParentRow, Poll, StopWaiting, CancelRead, CancelReadFails, CancelFlag,
       CancelSettle, CancelSave, CancelDone, CancelOnly, EndParent, YieldParent, ReadParent,
       SaveParent, Watch, Shutdown, CoordinatorCrash, rowVars
<1>3. ASSUME HandlerStep PROVE NothingRan'
  BY <1>3 DEF HandlerStep, HandlerRead, HandlerCancels, HandlerLost, HandlerChild,
     HandlerChildFails, HandlerAnswers, HandlerFlag, CancelPending, rowVars
<1>4. ASSUME NEW parent \in BOOLEAN, NEW stale \in SUBSET Shards, Sweep(parent, stale)
      PROVE  NothingRan'
  BY <1>4 DEF Sweep, SweptStatus
<1>5. ASSUME NEW s \in Shards, ShardStep(s) PROVE NothingRan'
  BY <1>5 DEF ShardStep, Claim, Start, StartRefused, Finish, Yield, ExecutorDies
<1>6. CASE UNCHANGED vars
  BY <1>6 DEF vars, rowVars
<1> QED
  BY <1>1, <1>2, <1>3, <1>4, <1>5, <1>6 DEF Next

\* Nobody unfences a submit, and nobody returns a parent to pending or cancels one in place but where
\* it was pending.
LEMMA UnstartedBefore ==
  ASSUME IndInv, [Next]_vars, (CanceledInPlace \/ Unfenced \/ pStatus = "pending")'
  PROVE  CanceledInPlace \/ Unfenced \/ pStatus = "pending"
<1> USE DEF IndInv, EndingInv, CanceledInPlace, Unfenced, Terminal
<1>1. ASSUME SubmitStep PROVE CanceledInPlace \/ Unfenced \/ pStatus = "pending"
  BY <1>1 DEF SubmitStep, StoreShard, StoreShardFails, AbandonShard, AbandonParent,
     BeginCoordination, rowVars, apiVars
<1>2. ASSUME CoordinatorStep PROVE CanceledInPlace \/ Unfenced \/ pStatus = "pending"
  BY <1>2 DEF CoordinatorStep, ClaimParent, ClaimParentLost, ClaimParentRepeated, ClaimParentFails,
       RefuseParent, StartParentRow, Poll, StopWaiting, CancelRead, CancelReadFails, CancelFlag,
       CancelSettle, CancelSave, CancelDone, CancelOnly, EndParent, YieldParent, ReadParent,
       SaveParent, Watch, Shutdown, CoordinatorCrash, CancelThenEnd, Leave, rowVars, apiVars
<1>3. ASSUME HandlerStep PROVE CanceledInPlace \/ Unfenced \/ pStatus = "pending"
  BY <1>3 DEF HandlerStep, HandlerRead, HandlerCancels, HandlerLost, HandlerChild,
     HandlerChildFails, HandlerAnswers, HandlerFlag, rowVars, coVars
<1>4. ASSUME NEW parent \in BOOLEAN, NEW stale \in SUBSET Shards, Sweep(parent, stale)
      PROVE  CanceledInPlace \/ Unfenced \/ pStatus = "pending"
  BY <1>4 DEF Sweep, coVars, apiVars
<1>5. ASSUME NEW s \in Shards, ShardStep(s)
      PROVE  CanceledInPlace \/ Unfenced \/ pStatus = "pending"
  BY <1>5 DEF ShardStep, Claim, Start, StartRefused, Finish, Yield, ExecutorDies, rowVars, coVars,
     apiVars
<1>6. CASE UNCHANGED vars
  BY <1>6 DEF vars, rowVars, coVars, apiVars
<1> QED
  BY <1>1, <1>2, <1>3, <1>4, <1>5, <1>6 DEF Next

\* A split stopped before its fence stays stopped: the claim of the parent asks for a pending one, and
\* the save after it only follows a claim.
LEMMA UnstartedStep == ASSUME IndInv, [Next]_vars PROVE UnstartedInv'
<1> DEFINE Kept == /\ CanceledInPlace' => pStatus' \in Terminal /\ pc' # "starting"
                   /\ Unfenced' => pStatus' # "running"
<1>1. ASSUME SubmitStep PROVE Kept
  BY <1>1 DEF SubmitStep, StoreShard, StoreShardFails, AbandonShard, AbandonParent,
     BeginCoordination, Leave, rowVars, coVars, apiVars, IndInv, UnstartedInv, CanceledInPlace,
     Unfenced, Terminal
<1>2. ASSUME CoordinatorStep PROVE Kept
  BY <1>2 DEF CoordinatorStep, ClaimParent, ClaimParentLost, ClaimParentRepeated, ClaimParentFails,
       RefuseParent, StartParentRow, Poll, StopWaiting, CancelRead, CancelReadFails, CancelFlag,
       CancelSettle, CancelSave, CancelDone, CancelOnly, EndParent, YieldParent, ReadParent,
       SaveParent, Watch, Shutdown, CoordinatorCrash, ParentCanStart, ParentCanEnd, CancelThenEnd, Leave,
     rowVars, apiVars, IndInv, UnstartedInv, EndingInv, CanceledInPlace, Unfenced, Terminal
<1>3. ASSUME HandlerStep PROVE Kept
  BY <1>3 DEF HandlerStep, HandlerRead, HandlerCancels, HandlerLost, HandlerChild,
     HandlerChildFails, HandlerAnswers, HandlerFlag, rowVars, coVars, IndInv, UnstartedInv,
     StartingInv, CanceledInPlace, Unfenced, Terminal
<1>4. ASSUME NEW parent \in BOOLEAN, NEW stale \in SUBSET Shards, Sweep(parent, stale) PROVE Kept
  BY <1>4 DEF Sweep, coVars, apiVars, IndInv, UnstartedInv, CanceledInPlace, Unfenced, Terminal
<1>5. ASSUME NEW s \in Shards, ShardStep(s) PROVE Kept
  BY <1>5 DEF ShardStep, Claim, Start, StartRefused, Finish, Yield, ExecutorDies, rowVars, coVars,
     apiVars, IndInv, UnstartedInv, CanceledInPlace, Unfenced, Terminal
<1>6. ASSUME UNCHANGED vars PROVE Kept
  BY <1>6 DEF vars, rowVars, coVars, apiVars, IndInv, UnstartedInv, CanceledInPlace, Unfenced
<1>7. Kept
  BY <1>1, <1>2, <1>3, <1>4, <1>5, <1>6 DEF Next
<1>8. ASSUME (CanceledInPlace \/ Unfenced \/ pStatus = "pending")' PROVE NothingRan'
  <2>1. CanceledInPlace \/ Unfenced \/ pStatus = "pending"
    BY <1>8, UnstartedBefore
  <2>2. NothingRan /\ pStatus # "running"
    BY <2>1 DEF IndInv, UnstartedInv, Terminal
  <2> QED
    BY <2>2, NothingRanStep DEF IndInv
<1> QED
  BY <1>7, <1>8 DEF UnstartedInv

\* Every reachable state satisfies the inductive invariant.
THEOREM Invariance == Spec => []IndInv
<1>1. ASSUME IndInv, [Next]_vars PROVE IndInv'
  BY <1>1, TypeOKStep, EndingStep, LoopStep, ResultsStep, StartingStep, UnstartedStep DEF IndInv
<1> QED
  BY InitInv, <1>1, PTL DEF Spec

\* The submit, the coordinator, the executors, the API and the sweeps only write values of the right
\* kind.
THEOREM TypeCorrect == Spec => []TypeOK
BY Invariance, PTL DEF IndInv

\* A split of any width is recorded succeeded only when every shard is: coordinate rolls up results it
\* read terminal, and a terminal shard keeps its result.
THEOREM SuccessIsWhole == Spec => []SucceedsOnlyWhole
BY Invariance, PTL DEF IndInv, ResultsInv

\* Of a split canceled in place, or abandoned before all its shards were stored, none of any number of
\* shards ever runs: Claim asks for a running parent.
THEOREM UnstartedStaysUnrun == Spec => []UnstartedRunsNothing
<1>1. IndInv => UnstartedRunsNothing
  BY DEF IndInv, UnstartedInv, CanceledInPlace, Unfenced, NothingRan, UnstartedRunsNothing
<1> QED
  BY Invariance, <1>1, PTL

\* An ended parent never starts, the sweep's ends apart: TransitionStatusAndClaim takes a pending one
\* only, and startParentRow's blind save follows a claim no cancel in place can get past.
THEOREM CanceledStaysUnstarted == Spec => CanceledNeverStarts
<1>1. ASSUME IndInv, [Next]_vars, pStatus' = "running"
      PROVE  pStatus \notin Terminal \ {"interrupted"}
  <2> USE <1>1 DEF IndInv, Terminal
  <2>1. ASSUME SubmitStep PROVE pStatus = "running"
    BY <2>1 DEF SubmitStep, StoreShard, StoreShardFails, AbandonShard, AbandonParent,
       BeginCoordination, rowVars
  <2>2. ASSUME CoordinatorStep PROVE pStatus \in {"pending", "running", "interrupted"}
    BY <2>2 DEF CoordinatorStep, ClaimParent, ClaimParentLost, ClaimParentRepeated, ClaimParentFails,
       RefuseParent, StartParentRow, StartingInv, EndingInv, Poll, StopWaiting, CancelRead,
       CancelReadFails, CancelFlag, CancelSettle, CancelSave, CancelDone, CancelOnly, EndParent,
       YieldParent, ReadParent, SaveParent, ParentCanStart, ParentCanEnd, Watch, Shutdown,
       CoordinatorCrash, rowVars
  <2>3. ASSUME HandlerStep PROVE pStatus = "running"
    BY <2>3 DEF HandlerStep, HandlerRead, HandlerCancels, HandlerLost, HandlerChild,
       HandlerChildFails, HandlerAnswers, HandlerFlag, rowVars
  <2>4. ASSUME NEW parent \in BOOLEAN, NEW stale \in SUBSET Shards, Sweep(parent, stale)
        PROVE  pStatus = "running"
    BY <2>4 DEF Sweep
  <2>5. ASSUME NEW s \in Shards, ShardStep(s) PROVE pStatus = "running"
    BY <2>5 DEF ShardStep, Claim, Start, StartRefused, Finish, Yield, ExecutorDies, rowVars
  <2> QED
    BY <2>1, <2>2, <2>3, <2>4, <2>5 DEF Next, vars, rowVars
<1>2. ASSUME IndInv, [Next]_vars
      PROVE  [pStatus' = "running" => pStatus \notin Terminal \ {"interrupted"}]_vars
  BY <1>1, <1>2
<1> QED
  BY Invariance, <1>2, PTL DEF Spec, CanceledNeverStarts

\* A shard flagged before its start never starts: StartClaimed is the only step that begins an
\* execution and it refuses a flagged row.
THEOREM FlagFencesTheStart == Spec => FlaggedNeverStarts
<1>1. ASSUME IndInv, [Next]_vars, NEW s \in Shards, cCancel[s], exec'[s] = "running"
      PROVE  exec[s] = "running"
  <2> USE <1>1 DEF IndInv
  <2>1. ASSUME SubmitStep \/ CoordinatorStep \/ HandlerStep PROVE exec' = exec
    BY <2>1 DEF SubmitStep, StoreShard, StoreShardFails, AbandonShard, AbandonParent,
       BeginCoordination, CoordinatorStep, ClaimParent, ClaimParentLost, ClaimParentRepeated,
       ClaimParentFails, RefuseParent, StartParentRow, Poll, StopWaiting, CancelRead,
       CancelReadFails, CancelFlag, CancelSettle, CancelSave, CancelDone, CancelOnly, EndParent,
       YieldParent, ReadParent, SaveParent, Watch, Shutdown,
       CoordinatorCrash, HandlerStep, HandlerRead, HandlerCancels, HandlerLost, HandlerChild,
       HandlerChildFails, HandlerAnswers, HandlerFlag
  <2>2. ASSUME NEW parent \in BOOLEAN, NEW stale \in SUBSET Shards, Sweep(parent, stale)
        PROVE  exec' = exec
    BY <2>2 DEF Sweep
  <2>3. ASSUME NEW x \in Shards, ShardStep(x) PROVE exec[s] = "running"
    <3>1. CASE Start(x)
      BY <3>1 DEF Start, ShardCanStart, TypeOK
    <3> QED
      BY <2>3, <3>1 DEF ShardStep, Claim, StartRefused, Finish, Yield, ExecutorDies, TypeOK
  <2> QED
    BY <2>1, <2>2, <2>3 DEF Next, vars
<1>2. ASSUME IndInv, [Next]_vars
      PROVE  [\A s \in Shards : cCancel[s] /\ exec'[s] = "running" => exec[s] = "running"]_vars
  BY <1>1, <1>2
<1> QED
  BY Invariance, <1>2, PTL DEF Spec, FlaggedNeverStarts
=============================================================================
