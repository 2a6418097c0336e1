------------------------------ MODULE SplitRun ------------------------------
(***************************************************************************)
(* A split that needs no approval, from SubmitSplit to its rolled-up end:  *)
(* the parent row is stored, then its shards one at a time; a coordinator  *)
(* goroutine claims the parent, which lets claim loops take the shards,    *)
(* polls them, and ends the parent from what they recorded.  Shards are    *)
(* executed by any process (module RunLifecycle, reduced here to one       *)
(* executor a shard), somebody may cancel the split, the janitor sweeps    *)
(* what nobody renews, and the coordinator's process may stop or die.      *)
(***************************************************************************)
EXTENDS Integers, FiniteSets

CONSTANTS
  N,           \* how many shards the split has
  MaxFaults,   \* bound on crashes, stalls and store errors
  MaxCancels   \* bound on cancel requests for the split

Shards == 1..N   \* by shard_index
NoShard == 0
NoEnd == "no end"
Terminal == {"succeeded", "failed", "canceled", "interrupted"}

ASSUME ConstantsAssumption == N \in Nat /\ MaxFaults \in Nat /\ MaxCancels \in Nat

VARIABLES
  pStatus, pHeld, pCancel,  \* the parent's status, whether it is leased, its cancel flag
  cStatus, cHeld, cCancel,  \* the same of each shard, absent until it is stored
  exec,        \* the executor of each shard: none, claimed or running its tool
  pc,          \* where the submit and then the coordinator is
  todo,        \* shards its loop has left to cancel
  at, copy,    \* the shard that loop is at, and whether its copy reads pending and unclaimed
  seen,        \* the shard results the coordinator holds
  fin,         \* the status it ends the parent with
  own,         \* its copy of the parent carries the lease owner
  pctx,        \* why the parent's context ended, "live" while it has not
  handler, hTodo,  \* the cancel request, and the shards it has left to cancel
  cancelCalls,
  answered,    \* history: the cancel was answered with the split canceled in place
  faults

rowVars == <<pStatus, pHeld, pCancel, cStatus, cHeld, cCancel>>
coVars == <<pc, todo, at, copy, seen, fin, own, pctx>>
apiVars == <<handler, hTodo, cancelCalls, answered>>
vars == <<rowVars, exec, coVars, apiVars, faults>>

Init ==
  /\ pStatus = "pending" /\ pHeld = FALSE /\ pCancel = FALSE
  /\ cStatus = [s \in Shards |-> "absent"]
  /\ cHeld = [s \in Shards |-> FALSE] /\ cCancel = [s \in Shards |-> FALSE]
  /\ exec = [s \in Shards |-> "none"]
  /\ pc = "storing" /\ todo = {} /\ at = NoShard /\ copy = FALSE
  /\ seen = [s \in Shards |-> NoEnd] /\ fin = NoEnd /\ own = FALSE /\ pctx = "live"
  /\ handler = "idle" /\ hTodo = {} /\ cancelCalls = 0 /\ answered = FALSE
  /\ faults = MaxFaults

Fault == faults > 0 /\ faults' = faults - 1

Stored == {s \in Shards : cStatus[s] # "absent"}

\* Every loop over shards takes them by index.
First(S, s) == s \in S /\ \A t \in S : s <= t

\* A shard no executor holds: what CancelPending takes.
Waiting(s) == cStatus[s] = "pending" /\ ~cHeld[s]

\* The goroutine returns, or dies, and its state goes with it.
Leave(end) ==
  /\ pc' = end /\ todo' = {} /\ at' = NoShard /\ copy' = FALSE
  /\ seen' = [s \in Shards |-> NoEnd] /\ fin' = NoEnd /\ own' = FALSE /\ pctx' = "live"

CancelPending(s) == cStatus' = IF Waiting(s) THEN [cStatus EXCEPT ![s] = "canceled"] ELSE cStatus

-----------------------------------------------------------------------------
(* SubmitSplit.                                                            *)

StoreShard(s) ==
  /\ pc = "storing" /\ First(Shards \ Stored, s)
  /\ cStatus' = [cStatus EXCEPT ![s] = "pending"]
  /\ UNCHANGED <<pStatus, pHeld, pCancel, cHeld, cCancel, exec, coVars, apiVars, faults>>

\* A shard cannot be stored, or is stored and the answer lost: abandonSplit over the ones before it.
StoreShardFails(s) ==
  /\ pc = "storing" /\ First(Shards \ Stored, s) /\ Fault
  /\ cStatus' = [cStatus EXCEPT ![s] = "pending"] \/ UNCHANGED cStatus
  /\ pc' = "abandoning" /\ todo' = Stored
  /\ UNCHANGED <<pStatus, pHeld, pCancel, cHeld, cCancel, exec, at, copy, seen, fin, own, pctx, apiVars>>

\* abandonSplit: a stored shard is canceled only where no executor holds it; a failure is logged.
AbandonShard(s) ==
  /\ pc = "abandoning" /\ First(todo, s)
  /\ (CancelPending(s) /\ UNCHANGED faults) \/ (Fault /\ UNCHANGED cStatus)
  /\ todo' = todo \ {s}
  /\ UNCHANGED <<pStatus, pHeld, pCancel, cHeld, cCancel, exec, pc, at, copy, seen, fin, own, pctx,
                 apiVars>>

AbandonParent ==
  /\ pc = "abandoning" /\ todo = {}
  /\ pStatus' = IF pStatus = "pending" THEN "failed" ELSE pStatus
  /\ Leave("abandoned")
  /\ UNCHANGED <<pHeld, pCancel, cStatus, cHeld, cCancel, exec, apiVars, faults>>

BeginCoordination ==
  /\ pc = "storing" /\ Stored = Shards
  /\ pc' = "claiming"
  /\ UNCHANGED <<rowVars, exec, todo, at, copy, seen, fin, own, pctx, apiVars, faults>>

-----------------------------------------------------------------------------
(* parentMayStart and startParentRow.                                      *)

\* The shards are canceled, then the parent ends as s, or is left as it is.
CancelThenEnd(s) == pc' = "canceling" /\ todo' = Shards /\ fin' = s

\* Mutant: the cancel in place is not seen by the fence.
ParentCanStartAnyStatus == ~pCancel

\* TransitionStatusAndClaim's condition.
ParentCanStart == pStatus = "pending" /\ ~pCancel

ClaimParent ==
  /\ pc = "claiming" /\ ParentCanStart
  /\ pStatus' = "running" /\ pHeld' = TRUE
  /\ pc' = "starting"
  /\ UNCHANGED <<pCancel, cStatus, cHeld, cCancel, exec, todo, at, copy, seen, fin, own, pctx, apiVars,
                 faults>>

\* The parent moved on: canceled in place, swept, or flagged.  If it cannot be read it is left alone.
ClaimParentLost ==
  /\ pc = "claiming" /\ ~ParentCanStart
  /\ \/ CancelThenEnd(IF pStatus \in Terminal THEN NoEnd ELSE "canceled") /\ UNCHANGED faults
     \/ Fault /\ CancelThenEnd(NoEnd)
  /\ UNCHANGED <<rowVars, exec, at, copy, seen, own, pctx, apiVars>>

\* The claim lands, its answer is lost, and the retry finds the parent running: moved on.
ClaimParentRepeated ==
  /\ pc = "claiming" /\ ParentCanStart /\ Fault
  /\ pStatus' = "running" /\ pHeld' = TRUE
  /\ CancelThenEnd("canceled")
  /\ UNCHANGED <<pCancel, cStatus, cHeld, cCancel, exec, at, copy, seen, own, pctx, apiVars>>

\* The store cannot be reached, whether the claim landed or not.
ClaimParentFails ==
  /\ pc = "claiming" /\ Fault
  /\ \/ ParentCanStart /\ pStatus' = "running" /\ pHeld' = TRUE
     \/ UNCHANGED <<pStatus, pHeld>>
  /\ CancelThenEnd("failed")
  /\ UNCHANGED <<pCancel, cStatus, cHeld, cCancel, exec, at, copy, seen, own, pctx, apiVars>>

\* The parent does not match its seal.
RefuseParent ==
  /\ pc = "claiming"
  /\ CancelThenEnd("failed")
  /\ UNCHANGED <<rowVars, exec, at, copy, seen, own, pctx, apiVars, faults>>

\* The whole row is saved running under this owner, over whatever it has become; a save that fails
\* is ignored.
StartParentRow ==
  /\ pc = "starting"
  /\ \/ pStatus' = "running" /\ pHeld' = TRUE /\ UNCHANGED faults
     \/ Fault /\ UNCHANGED <<pStatus, pHeld>>
  /\ own' = TRUE /\ pc' = "waiting"
  /\ UNCHANGED <<pCancel, cStatus, cHeld, cCancel, exec, todo, at, copy, seen, fin, pctx, apiVars>>

-----------------------------------------------------------------------------
(* waitChildren.                                                           *)

\* Mutant: a shard that is not stored running any more counts as a success.
ReadResultsLoose == [s \in Shards |-> IF seen[s] # NoEnd THEN seen[s]
                                      ELSE IF cStatus[s] \in Terminal \cup {"running"} THEN "succeeded"
                                      ELSE NoEnd]

\* Mutant: only a shard that finished by itself counts as ended.
ReadResultsFinished == [s \in Shards |-> IF seen[s] = NoEnd /\ cStatus[s] \in {"succeeded", "failed"}
                                         THEN cStatus[s] ELSE seen[s]]

\* childStatuses: the terminal results the store holds, added to those held already.
ReadResults == [s \in Shards |-> IF seen[s] = NoEnd /\ cStatus[s] \in Terminal
                                 THEN cStatus[s] ELSE seen[s]]

\* coordinate: what the results roll up to.
Rollup(results) ==
  LET ends == {results[s] : s \in Shards} IN
  IF ends \subseteq {"succeeded"} THEN "succeeded"
  ELSE IF "interrupted" \in ends THEN "interrupted"
  ELSE IF "canceled" \in ends THEN "canceled"
  ELSE "failed"

\* stoppedStatus.
Stopped == IF pctx = "shutdown" THEN "interrupted" ELSE "canceled"

\* A tick finds every shard ended, or more of them than the last.
Poll ==
  /\ pc = "waiting" /\ pctx = "live"
  /\ seen' = ReadResults
  /\ IF \A s \in Shards : seen'[s] # NoEnd
       THEN pc' = "ending" /\ fin' = Rollup(seen')
       ELSE seen' # seen /\ UNCHANGED <<pc, fin>>
  /\ UNCHANGED <<rowVars, exec, todo, at, copy, own, pctx, apiVars, faults>>

\* The context ended: in the wait between two ticks, where nothing is read again, or before a read,
\* which may then answer nothing.
StopWaiting ==
  /\ pc = "waiting" /\ pctx # "live"
  /\ seen' \in {seen, ReadResults}
  /\ CancelThenEnd(NoEnd)
  /\ UNCHANGED <<rowVars, exec, at, copy, own, pctx, apiVars, faults>>

-----------------------------------------------------------------------------
(* cancelChildren: a read, a flag, and for a copy read waiting an end.     *)

CancelRead(s) ==
  /\ pc = "canceling" /\ at = NoShard /\ First(todo, s)
  /\ todo' = todo \ {s}
  /\ IF cStatus[s] \in Terminal
       THEN UNCHANGED <<at, copy>>
       ELSE at' = s /\ copy' = Waiting(s)
  /\ UNCHANGED <<rowVars, exec, pc, seen, fin, own, pctx, apiVars, faults>>

\* A shard that cannot be read is passed over.
CancelReadFails(s) ==
  /\ pc = "canceling" /\ at = NoShard /\ First(todo, s) /\ Fault
  /\ todo' = todo \ {s}
  /\ UNCHANGED <<rowVars, exec, pc, at, copy, seen, fin, own, pctx, apiVars>>

\* RequestCancel, whose failure is only logged.
CancelFlag ==
  /\ pc = "canceling" /\ at # NoShard
  /\ \/ cCancel' = [cCancel EXCEPT ![at] = TRUE] /\ UNCHANGED faults
     \/ Fault /\ UNCHANGED cCancel
  /\ pc' = IF copy THEN "settling" ELSE "canceling"
  /\ at' = IF copy THEN at ELSE NoShard
  /\ UNCHANGED <<pStatus, pHeld, pCancel, cStatus, cHeld, exec, todo, copy, seen, fin, own, pctx,
                 apiVars>>

\* finalize of a copy without an owner: a row found running is ended as it is, one found ended is
\* left, and one found waiting is ended by a save of the copy.
CancelSettle ==
  /\ pc = "settling"
  /\ cStatus' = IF cStatus[at] = "running" THEN [cStatus EXCEPT ![at] = Stopped] ELSE cStatus
  /\ IF cStatus[at] = "pending"
       THEN pc' = "saving" /\ UNCHANGED at
       ELSE pc' = "canceling" /\ at' = NoShard
  /\ UNCHANGED <<pStatus, pHeld, pCancel, cHeld, cCancel, exec, todo, copy, seen, fin, own, pctx,
                 apiVars, faults>>

\* The whole copy, unclaimed and ended, is written over whatever the row has become.
CancelSave ==
  /\ pc = "saving"
  /\ cStatus' = [cStatus EXCEPT ![at] = Stopped]
  /\ cHeld' = [cHeld EXCEPT ![at] = FALSE]
  /\ pc' = "canceling" /\ at' = NoShard
  /\ UNCHANGED <<pStatus, pHeld, pCancel, cCancel, exec, todo, copy, seen, fin, own, pctx, apiVars,
                 faults>>

\* A coordinator that was waiting counts a shard without a result as stopped.
CancelDone ==
  /\ pc = "canceling" /\ at = NoShard /\ todo = {}
  /\ own \/ fin # NoEnd
  /\ fin' = IF own THEN Rollup([s \in Shards |-> IF seen[s] = NoEnd THEN Stopped ELSE seen[s]])
                   ELSE fin
  /\ pc' = "ending"
  /\ UNCHANGED <<rowVars, exec, todo, at, copy, seen, own, pctx, apiVars, faults>>

\* One that did not start leaves a parent that already ended alone.
CancelOnly ==
  /\ pc = "canceling" /\ at = NoShard /\ todo = {}
  /\ ~own /\ fin = NoEnd
  /\ Leave("done")
  /\ UNCHANGED <<rowVars, exec, apiVars, faults>>

-----------------------------------------------------------------------------
(* finalize of the parent, and its watch.                                  *)

\* FinalizeRunning: the row runs and, for a copy that has an owner, under its lease.
ParentCanEnd == pStatus = "running" /\ (own => pHeld)

EndParent ==
  /\ pc = "ending" /\ ParentCanEnd
  /\ pStatus' = fin
  /\ Leave("done")
  /\ UNCHANGED <<pHeld, pCancel, cStatus, cHeld, cCancel, exec, apiVars, faults>>

\* Somebody else ended it, or took it: the coordinator's end is dropped.
YieldParent ==
  /\ pc = "ending" /\ ~ParentCanEnd
  /\ own \/ pStatus \in Terminal
  /\ Leave("done")
  /\ UNCHANGED <<rowVars, exec, apiVars, faults>>

\* A row that still waits, or one the store would not update, is read and then saved from the copy.
ReadParent ==
  /\ pc = "ending"
  /\ (~own /\ pStatus = "pending" /\ UNCHANGED faults) \/ (pStatus \notin Terminal /\ Fault)
  /\ pc' = "rewriting"
  /\ UNCHANGED <<rowVars, exec, todo, at, copy, seen, fin, own, pctx, apiVars>>

SaveParent ==
  /\ pc = "rewriting"
  /\ pStatus' = fin /\ pHeld' = own
  /\ Leave("done")
  /\ UNCHANGED <<pCancel, cStatus, cHeld, cCancel, exec, apiVars, faults>>

\* watch: the renewal brings a cancel, or is refused because the lease is gone.
Watch ==
  /\ pc = "waiting" /\ pctx = "live"
  /\ pCancel \/ ~(pStatus = "running" /\ pHeld)
  /\ pctx' = "canceled"
  /\ UNCHANGED <<rowVars, exec, pc, todo, at, copy, seen, fin, own, apiVars, faults>>

\* Close: the coordinator's process shuts down.
Shutdown ==
  /\ pc \in {"claiming", "starting", "waiting", "canceling", "settling", "saving"}
  /\ pctx # "shutdown"
  /\ pctx' = "shutdown"
  /\ UNCHANGED <<rowVars, exec, pc, todo, at, copy, seen, fin, own, apiVars, faults>>

CoordinatorCrash ==
  /\ pc \notin {"done", "dead", "abandoned"} /\ Fault
  /\ Leave("dead")
  /\ UNCHANGED <<rowVars, exec, apiVars>>

-----------------------------------------------------------------------------
(* The executors of the shards.                                            *)

\* Mutant: a shard can be claimed from the moment it is stored.
ClaimOnceStored(s) ==
  /\ exec[s] = "none" /\ Waiting(s) /\ ~cCancel[s]
  /\ exec' = [exec EXCEPT ![s] = "claimed"]
  /\ cHeld' = [cHeld EXCEPT ![s] = TRUE]
  /\ UNCHANGED <<pStatus, pHeld, pCancel, cStatus, cCancel, coVars, apiVars, faults>>

\* Claim takes a child only while its parent runs and no cancel was asked of it.
Claim(s) ==
  /\ exec[s] = "none" /\ Waiting(s) /\ ~cCancel[s]
  /\ pStatus = "running" /\ ~pCancel
  /\ exec' = [exec EXCEPT ![s] = "claimed"]
  /\ cHeld' = [cHeld EXCEPT ![s] = TRUE]
  /\ UNCHANGED <<pStatus, pHeld, pCancel, cStatus, cCancel, coVars, apiVars, faults>>

\* StartClaimed's condition.
ShardCanStart(s) == cStatus[s] = "pending" /\ cHeld[s] /\ ~cCancel[s]

Start(s) ==
  /\ exec[s] = "claimed" /\ ShardCanStart(s)
  /\ exec' = [exec EXCEPT ![s] = "running"]
  /\ cStatus' = [cStatus EXCEPT ![s] = "running"]
  /\ UNCHANGED <<pStatus, pHeld, pCancel, cHeld, cCancel, coVars, apiVars, faults>>

StartRefused(s) ==
  /\ exec[s] = "claimed" /\ ~ShardCanStart(s)
  /\ exec' = [exec EXCEPT ![s] = "none"]
  /\ UNCHANGED <<rowVars, coVars, apiVars, faults>>

\* The tool ends and its row, if still running under the executor, is ended with it.
Finish(s) ==
  /\ exec[s] = "running" /\ cStatus[s] = "running" /\ cHeld[s]
  /\ \E end \in {"succeeded", "failed", "interrupted"} \cup (IF cCancel[s] THEN {"canceled"} ELSE {}) :
       cStatus' = [cStatus EXCEPT ![s] = end]
  /\ exec' = [exec EXCEPT ![s] = "none"]
  /\ UNCHANGED <<pStatus, pHeld, pCancel, cHeld, cCancel, coVars, apiVars, faults>>

\* The row is not its executor's any more: the tool is stopped and its end dropped.
Yield(s) ==
  /\ exec[s] = "running" /\ ~(cStatus[s] = "running" /\ cHeld[s])
  /\ exec' = [exec EXCEPT ![s] = "none"]
  /\ UNCHANGED <<rowVars, coVars, apiVars, faults>>

ExecutorDies(s) ==
  /\ exec[s] # "none" /\ Fault
  /\ exec' = [exec EXCEPT ![s] = "none"]
  /\ UNCHANGED <<rowVars, coVars, apiVars>>

-----------------------------------------------------------------------------
(* cancelRunHandler on the split.                                          *)

HandlerRead ==
  /\ handler = "idle" /\ cancelCalls < MaxCancels
  /\ pStatus \notin Terminal
  /\ cancelCalls' = cancelCalls + 1
  /\ handler' = IF pStatus = "pending" /\ ~pHeld THEN "waiting" ELSE "flag"
  /\ UNCHANGED <<rowVars, exec, coVars, hTodo, answered, faults>>

\* The parent is canceled in place, and the shards stored by now are listed, if they can be.
HandlerCancels ==
  /\ handler = "waiting" /\ pStatus = "pending" /\ ~pHeld
  /\ pStatus' = "canceled"
  /\ handler' = "children"
  /\ (hTodo' = Stored /\ UNCHANGED faults) \/ (Fault /\ hTodo' = {})
  /\ UNCHANGED <<pHeld, pCancel, cStatus, cHeld, cCancel, exec, coVars, cancelCalls, answered>>

\* It was claimed or ended first, or the store cannot answer.
HandlerLost ==
  /\ handler = "waiting"
  /\ (~(pStatus = "pending" /\ ~pHeld) /\ UNCHANGED faults) \/ Fault
  /\ handler' = "flag"
  /\ UNCHANGED <<rowVars, exec, coVars, hTodo, cancelCalls, answered>>

\* cancelChildrenOf: a listed shard is canceled where it waits.  One found claimed would be flagged,
\* but none is, since the parent never ran; on one that ended since, the flag says nothing.
HandlerChild(s) ==
  /\ handler = "children" /\ First(hTodo, s)
  /\ CancelPending(s)
  /\ hTodo' = hTodo \ {s}
  /\ UNCHANGED <<pStatus, pHeld, pCancel, cHeld, cCancel, exec, coVars, handler, cancelCalls, answered,
                 faults>>

\* The store cannot answer: the shard is logged and left.
HandlerChildFails(s) ==
  /\ handler = "children" /\ First(hTodo, s) /\ Fault
  /\ hTodo' = hTodo \ {s}
  /\ UNCHANGED <<rowVars, exec, coVars, handler, cancelCalls, answered>>

HandlerAnswers ==
  /\ handler = "children" /\ hTodo = {}
  /\ handler' = "idle" /\ answered' = TRUE
  /\ UNCHANGED <<rowVars, exec, coVars, hTodo, cancelCalls, faults>>

\* RequestCancel, and a coordinator on the process serving the request is stopped at once.
HandlerFlag ==
  /\ handler = "flag"
  /\ pCancel' = TRUE
  /\ pctx' \in {pctx, IF pctx = "live" /\ pc \notin {"storing", "abandoning", "abandoned", "done", "dead"}
                        THEN "canceled" ELSE pctx}
  /\ handler' = "idle"
  /\ UNCHANGED <<pStatus, pHeld, cStatus, cHeld, cCancel, exec, pc, todo, at, copy, seen, fin, own, hTodo,
                 cancelCalls, answered, faults>>

-----------------------------------------------------------------------------
(* reclaimStale: one transaction.                                          *)

\* The submit or the coordinator would have moved on in time.
Attended == pc \notin {"done", "dead", "abandoned"}

\* The lease sweep over stale shards: a start that ran is interrupted, a claim canceled or requeued.
SweptStatus(stale) ==
  [s \in Shards |-> IF s \notin stale THEN cStatus[s]
                    ELSE IF cStatus[s] = "running" THEN "interrupted"
                    ELSE IF cCancel[s] THEN "canceled" ELSE cStatus[s]]

\* resolveOrphans takes the shards of every interrupted parent, whenever it was interrupted.
Orphaned(parent) == IF parent \/ pStatus = "interrupted" THEN Shards ELSE {}

\* One sweep: perhaps the parent (running on a stale lease, or old and without one) is interrupted,
\* the stale shards are swept, then the shards of an interrupted parent are canceled or flagged.
Sweep(parent, stale) ==
  LET status == SweptStatus(stale)
      orphaned == Orphaned(parent) IN
  /\ parent => pStatus = "running" \/ (pStatus = "pending" /\ ~pHeld)
  /\ \A s \in stale : cHeld[s] /\ cStatus[s] \in {"pending", "running"}
  /\ IF (parent /\ Attended) \/ \E s \in stale : exec[s] # "none" THEN Fault ELSE UNCHANGED faults
  /\ pStatus' = IF parent THEN "interrupted" ELSE pStatus
  /\ pHeld' = (pHeld /\ ~parent)
  /\ cStatus' = [s \in Shards |-> IF s \in orphaned /\ status[s] = "pending" THEN "canceled"
                                  ELSE status[s]]
  /\ cHeld' = [s \in Shards |-> cHeld[s] /\ s \notin stale
                                /\ ~(s \in orphaned /\ status[s] = "pending")]
  /\ cCancel' = [s \in Shards |-> cCancel[s] \/ (s \in orphaned /\ status[s] = "running")]
  /\ UNCHANGED <<pCancel, exec, coVars, apiVars>>

-----------------------------------------------------------------------------
SubmitStep ==
  \/ \E s \in Shards : StoreShard(s) \/ StoreShardFails(s) \/ AbandonShard(s)
  \/ AbandonParent \/ BeginCoordination

CoordinatorStep ==
  \/ ClaimParent \/ ClaimParentLost \/ ClaimParentRepeated \/ ClaimParentFails \/ RefuseParent
  \/ StartParentRow
  \/ Poll \/ StopWaiting \/ CancelFlag \/ CancelSettle \/ CancelSave \/ CancelDone
  \/ CancelOnly \/ EndParent \/ YieldParent \/ ReadParent \/ SaveParent \/ Watch
  \/ Shutdown \/ CoordinatorCrash
  \/ \E s \in Shards : CancelRead(s) \/ CancelReadFails(s)

ShardStep(s) ==
  \/ Claim(s) \/ Start(s) \/ StartRefused(s) \/ Finish(s) \/ Yield(s) \/ ExecutorDies(s)

HandlerStep ==
  \/ HandlerRead \/ HandlerCancels \/ HandlerLost \/ HandlerAnswers \/ HandlerFlag
  \/ \E s \in Shards : HandlerChild(s) \/ HandlerChildFails(s)

Next ==
  \/ SubmitStep \/ CoordinatorStep \/ HandlerStep
  \/ \E parent \in BOOLEAN, stale \in SUBSET Shards : Sweep(parent, stale)
  \/ \E s \in Shards : ShardStep(s)

Spec == Init /\ [][Next]_vars

\* The submit, the coordinator and a request being served go on; claim loops, executors, watches and
\* janitors run on their intervals; nothing is owed to a fault.
Fairness ==
  /\ WF_vars(\/ AbandonParent \/ BeginCoordination
             \/ \E s \in Shards : StoreShard(s) \/ (AbandonShard(s) /\ UNCHANGED faults))
  /\ WF_vars((\/ ClaimParent \/ ClaimParentLost \/ StartParentRow \/ Poll \/ StopWaiting \/ CancelFlag
              \/ CancelSettle \/ CancelSave \/ CancelDone \/ CancelOnly \/ EndParent
              \/ YieldParent \/ ReadParent \/ SaveParent \/ Watch
              \/ \E s \in Shards : CancelRead(s)) /\ UNCHANGED faults)
  /\ \A s \in Shards : WF_vars(Claim(s) \/ Start(s) \/ StartRefused(s) \/ Finish(s) \/ Yield(s))
  /\ WF_vars(\E parent \in BOOLEAN, stale \in SUBSET Shards : Sweep(parent, stale) /\ UNCHANGED faults)
  /\ WF_vars((\/ HandlerCancels \/ HandlerLost \/ HandlerAnswers \/ HandlerFlag
              \/ \E s \in Shards : HandlerChild(s)) /\ UNCHANGED faults)

FairSpec == Spec /\ Fairness

-----------------------------------------------------------------------------
(* Properties.                                                             *)

\* Every variable keeps its type.
TypeOK ==
  /\ pStatus \in Terminal \cup {"pending", "running"}
  /\ pHeld \in BOOLEAN /\ pCancel \in BOOLEAN
  /\ cStatus \in [Shards -> Terminal \cup {"absent", "pending", "running"}]
  /\ cHeld \in [Shards -> BOOLEAN] /\ cCancel \in [Shards -> BOOLEAN]
  /\ exec \in [Shards -> {"none", "claimed", "running"}]
  /\ pc \in {"storing", "abandoning", "abandoned", "claiming", "starting", "waiting", "canceling",
             "settling", "saving", "ending", "rewriting", "done", "dead"}
  /\ todo \subseteq Shards /\ at \in Shards \cup {NoShard} /\ copy \in BOOLEAN
  /\ seen \in [Shards -> Terminal \cup {NoEnd}]
  /\ fin \in Terminal \cup {NoEnd}
  /\ own \in BOOLEAN /\ pctx \in {"live", "canceled", "shutdown"}
  /\ handler \in {"idle", "waiting", "children", "flag"}
  /\ hTodo \subseteq Shards
  /\ cancelCalls \in Nat /\ answered \in BOOLEAN
  /\ faults \in Nat

\* A split reads succeeded only when every one of its shards does: no missing, stopped, swept or
\* still running shard is rolled up as a success.
SucceedsOnlyWhole == pStatus = "succeeded" => \A s \in Shards : cStatus[s] = "succeeded"

\* A split canceled in place, or ended any other way but by the sweep, never starts: the claim that
\* starts it and the save after it never find an ended parent.
CanceledNeverStarts == [][pStatus' = "running" => pStatus \notin Terminal \ {"interrupted"}]_vars

\* A shard the split canceled before it started never starts: the cancel flag fences the start.
FlaggedNeverStarts ==
  [][\A s \in Shards : cCancel[s] /\ exec'[s] = "running" => exec[s] = "running"]_vars

\* Nothing runs of a split that was stopped before it started: canceled in place and answered so
\* (reliability.md: "Canceling a split cancels its shards"), or abandoned half stored (abandonSplit:
\* "stopped before any of it ran").  Its shards were stored before the parent was fenced, and some
\* after the cancel listed them; only the parent's status in Claim keeps claim loops off these.
UnstartedRunsNothing ==
  answered \/ pc \in {"abandoning", "abandoned"} =>
    \A s \in Shards : exec[s] = "none" /\ cStatus[s] \notin {"running", "succeeded", "failed"}

\* Nobody is left to claim, end or sweep a shard: it waits under an ended parent, which keeps claim
\* loops off it, and the sweep of orphans takes the shards of an interrupted parent only.
Stranded(s) == Waiting(s) /\ pStatus \in Terminal \ {"interrupted"}

\* Every split comes to rest: its parent ends and every shard ends.  Canceling it and shutting down
\* strand nothing; only a failure may leave a shard unstored or stranded.
SplitRests ==
  <>[](/\ pStatus \in Terminal
       /\ \A s \in Shards :
            \/ cStatus[s] \in Terminal
            \/ faults < MaxFaults /\ (cStatus[s] = "absent" \/ Stranded(s)))

-----------------------------------------------------------------------------
(* Claims of the code's comments and documentation that its steps refute.  *)

\* waitChildren: a shard that already ended keeps its own result when the coordinator is stopped.
KeepsResults ==
  [][pc = "waiting" /\ pc' = "canceling" =>
       \A s \in Shards : cStatus[s] \in Terminal => seen'[s] = cStatus[s]]_vars
=============================================================================
