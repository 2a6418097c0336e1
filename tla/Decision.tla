------------------------------ MODULE Decision ------------------------------
(***************************************************************************)
(* The decision on a run held for approval.  Several people may decide it  *)
(* at once, on several processes, while somebody cancels it.  A decision   *)
(* claims the run first (the row reads deciding), is then recorded on the  *)
(* audit chain, stamped, and settles the run; the process that settled it  *)
(* starts what it released.  A claimed decision whose process died is      *)
(* finished by any process's janitor.                                      *)
(*                                                                         *)
(* One held run: nothing in the protocol relates two runs.  Split says     *)
(* whether it is a split with held shards, coordinated by the process that *)
(* settled its approval, or a plain run released to the claim loop.        *)
(***************************************************************************)
EXTENDS Integers, FiniteSets

CONSTANTS
  Deciders,   \* approve and reject requests; the decision each makes has the decider as its id
  Janitors,   \* one sweep per process
  Procs,
  ProcOf,     \* the process serving each request and running each sweep
  VerdictOf,  \* what each decider decides
  Split,      \* the run is a split
  MaxFaults,  \* bound on crashes, stalls and store or chain errors
  MaxCancels  \* bound on cancel requests

NoDecision == "no decision"
NoProc == "no process"
NoOutcome == [made |-> FALSE, after |-> {}]

Finishers == Deciders \cup Janitors
Terminal == {"rejected", "canceled", "succeeded", "failed", "interrupted"}

ASSUME ConstantsAssumption ==
  /\ Deciders \cap Janitors = {}
  /\ NoDecision \notin Deciders
  /\ NoProc \notin Procs
  /\ ProcOf \in [Finishers -> Procs]
  /\ VerdictOf \in [Deciders -> {"approved", "rejected"}]
  /\ Split \in BOOLEAN
  /\ MaxFaults \in Nat /\ MaxCancels \in Nat

VARIABLES
  status,          \* held is pending_approval; deciding is the row a decision has claimed
  decisionID, cancelRequested, claimedBy, endedAt, stamp, owed, \* the run's other columns
  shards,          \* what the split's stored shards are: held, released, canceled or ended
  records,         \* decision records kept
  chainDecisions,  \* decisions the chain holds
  outcome,         \* the outcome entry, with the decisions on the chain before it
  pc,              \* where each decider and janitor is
  claim,           \* the decision it is finishing
  seen,            \* the cancel flag on the copy it read once the run settled
  coords,          \* finishers whose coordinator goroutine runs
  releases,        \* history: finishers that started what the decision released
  handler, cancelCalls, faults

rowVars == <<status, decisionID, cancelRequested, claimedBy, endedAt, stamp, owed, shards>>
chainVars == <<chainDecisions, outcome>>
workVars == <<pc, claim, seen, coords, releases>>
apiVars == <<handler, cancelCalls>>
vars == <<rowVars, records, chainVars, workVars, apiVars, faults>>

Init ==
  /\ status = "held" /\ decisionID = NoDecision /\ cancelRequested = FALSE /\ claimedBy = NoProc
  /\ endedAt = FALSE /\ stamp = NoDecision /\ owed = FALSE
  /\ shards = IF Split THEN "held" ELSE "ended"
  /\ records = {} /\ chainDecisions = {} /\ outcome = NoOutcome
  /\ pc = [f \in Finishers |-> "idle"]
  /\ claim = [f \in Finishers |-> IF f \in Deciders THEN f ELSE NoDecision]
  /\ seen = [f \in Finishers |-> FALSE]
  /\ coords = {} /\ releases = {}
  /\ handler = "idle" /\ cancelCalls = 0 /\ faults = MaxFaults

Fault == faults > 0 /\ faults' = faults - 1
Goto(f, l) == pc' = [pc EXCEPT ![f] = l]

\* A request is answered; a sweep goes on to its next tick.
Return(f) == Goto(f, IF f \in Deciders THEN "done" ELSE "idle")

-----------------------------------------------------------------------------
(* decide: the decision claims the run before anything is recorded.        *)

\* approveRun and rejectRun: a row that reads pending_approval, and for an approval no cancel.
ReadHeld(d) ==
  /\ pc[d] = "idle"
  /\ status \in {"held", "deciding"}
  /\ VerdictOf[d] = "approved" => ~cancelRequested
  /\ Goto(d, "keeping")
  /\ UNCHANGED <<rowVars, records, chainVars, claim, seen, coords, releases, apiVars, faults>>

\* The decision's record is kept first, so its reason exists before anything commits to it.
KeepRecord(d) ==
  /\ pc[d] = "keeping"
  /\ records' = records \cup {d}
  /\ Goto(d, "claiming")
  /\ UNCHANGED <<rowVars, chainVars, claim, seen, coords, releases, apiVars, faults>>

\* The record cannot be kept, or is kept and the answer lost: nothing is claimed.
KeepFails(d) ==
  /\ pc[d] = "keeping" /\ Fault
  /\ records' = records \cup {d} \/ UNCHANGED records
  /\ Return(d)
  /\ UNCHANGED <<rowVars, chainVars, claim, seen, coords, releases, apiVars>>

\* Mutant: the claim is fenced on the status a reader sees, which a claimed row still shows.
CanClaimAsRead == status \in {"held", "deciding"} /\ claimedBy = NoProc /\ ~cancelRequested

\* ClaimDecision's condition.
CanClaim == status = "held" /\ claimedBy = NoProc /\ ~cancelRequested

ClaimLands(d) == CanClaim /\ status' = "deciding" /\ decisionID' = d

ClaimDecision(d) ==
  /\ pc[d] = "claiming"
  /\ ClaimLands(d)
  /\ Goto(d, "appending")
  /\ UNCHANGED <<cancelRequested, claimedBy, endedAt, stamp, owed, shards, records, chainVars, claim,
                 seen, coords, releases, apiVars, faults>>

\* Mutant: the decision is recorded although it lost the claim.
ClaimLostRecorded(d) ==
  /\ pc[d] = "claiming" /\ ~CanClaim
  /\ chainDecisions' = chainDecisions \cup {d}
  /\ Goto(d, "withdrawing")
  /\ UNCHANGED <<rowVars, records, outcome, claim, seen, coords, releases, apiVars, faults>>

ClaimLost(d) ==
  /\ pc[d] = "claiming" /\ ~CanClaim
  /\ Goto(d, "withdrawing")
  /\ UNCHANGED <<rowVars, records, chainVars, claim, seen, coords, releases, apiVars, faults>>

\* The claim is answered with an error, whether it landed or not.
ClaimFails(d) ==
  /\ pc[d] = "claiming" /\ Fault
  /\ ClaimLands(d) \/ UNCHANGED <<status, decisionID>>
  /\ Goto(d, "verifying")
  /\ UNCHANGED <<cancelRequested, claimedBy, endedAt, stamp, owed, shards, records, chainVars, claim,
                 seen, coords, releases, apiVars>>

\* Mutant: an error is read as a lost claim.
VerifyClaimLost(d) ==
  /\ pc[d] = "verifying"
  /\ Goto(d, "withdrawing")
  /\ UNCHANGED <<rowVars, records, chainVars, claim, seen, coords, releases, apiVars, faults>>

\* The row says whether the claim landed.
VerifyClaim(d) ==
  /\ pc[d] = "verifying"
  /\ Goto(d, IF decisionID = d THEN "appending" ELSE "withdrawing")
  /\ UNCHANGED <<rowVars, records, chainVars, claim, seen, coords, releases, apiVars, faults>>

VerifyFails(d) ==
  /\ pc[d] = "verifying" /\ Fault
  /\ Return(d)
  /\ UNCHANGED <<rowVars, records, chainVars, claim, seen, coords, releases, apiVars>>

\* withdrawRecord: the record of a decision known to have lost is removed.
Withdraw(d) ==
  /\ pc[d] = "withdrawing"
  /\ records' = records \ {d}
  /\ Return(d)
  /\ UNCHANGED <<rowVars, chainVars, claim, seen, coords, releases, apiVars, faults>>

WithdrawFails(d) ==
  /\ pc[d] = "withdrawing" /\ Fault
  /\ Return(d)
  /\ UNCHANGED <<rowVars, records, chainVars, claim, seen, coords, releases, apiVars>>

-----------------------------------------------------------------------------
(* finishDecision, by the decider or by a janitor.                         *)

\* Mutant: a decision already on the chain is taken for finished.
TakeUnrecordedClaim(j) ==
  /\ pc[j] = "idle" /\ status = "deciding" /\ decisionID \notin chainDecisions
  /\ claim' = [claim EXCEPT ![j] = decisionID]
  /\ Goto(j, "appending")
  /\ UNCHANGED <<rowVars, records, chainVars, seen, coords, releases, apiVars, faults>>

\* sweepApprovalSteps, finishClaimed: the claim is read back from a row a decision holds.
TakeClaim(j) ==
  /\ pc[j] = "idle" /\ status = "deciding"
  /\ claim' = [claim EXCEPT ![j] = decisionID]
  /\ Goto(j, "appending")
  /\ UNCHANGED <<rowVars, records, chainVars, seen, coords, releases, apiVars, faults>>

Approves(f) == VerdictOf[claim[f]] = "approved"

\* The entry is appended under the decision's id; one already there is success.
AppendEntry(f) ==
  /\ pc[f] = "appending"
  /\ chainDecisions' = chainDecisions \cup {claim[f]}
  /\ Goto(f, IF Approves(f) THEN "stamping" ELSE "settling")
  /\ UNCHANGED <<rowVars, records, outcome, claim, seen, coords, releases, apiVars, faults>>

\* Mutant: the decision takes effect although the chain refused it.
AppendFailsOpen(f) ==
  /\ pc[f] = "appending" /\ Fault
  /\ Goto(f, IF Approves(f) THEN "stamping" ELSE "settling")
  /\ UNCHANGED <<rowVars, records, chainVars, claim, seen, coords, releases, apiVars>>

\* The chain refuses, or takes the entry and its answer is lost: nothing takes effect yet.
AppendFails(f) ==
  /\ pc[f] = "appending" /\ Fault
  /\ chainDecisions' = chainDecisions \cup {claim[f]} \/ UNCHANGED chainDecisions
  /\ Return(f)
  /\ UNCHANGED <<rowVars, records, outcome, claim, seen, coords, releases, apiVars>>

\* StampApprovedSpec: what the decision was made on, unfenced.
Stamp(f) ==
  /\ pc[f] = "stamping"
  /\ stamp' = claim[f]
  /\ Goto(f, "settling")
  /\ UNCHANGED <<status, decisionID, cancelRequested, claimedBy, endedAt, owed, shards, records,
                 chainVars, claim, seen, coords, releases, apiVars, faults>>

StampFails(f) ==
  /\ pc[f] = "stamping" /\ Fault
  /\ stamp' = claim[f] \/ UNCHANGED stamp
  /\ Return(f)
  /\ UNCHANGED <<status, decisionID, cancelRequested, claimedBy, endedAt, owed, shards, records,
                 chainVars, claim, seen, coords, releases, apiVars>>

\* SettleDecision's condition, and the row it leaves: an approved split running under the settling
\* process's lease, a plain run unleased for the claim loop, a rejected run with no end time yet.
CanSettle(f) == status = "deciding" /\ decisionID = claim[f]

SettleLands(f) ==
  /\ CanSettle(f)
  /\ status' = IF ~Approves(f) THEN "rejected" ELSE IF Split THEN "running" ELSE "pending"
  /\ claimedBy' = IF Approves(f) /\ Split THEN ProcOf[f] ELSE claimedBy
  /\ owed' = ~Approves(f)

Settle(f) ==
  /\ pc[f] = "settling"
  /\ SettleLands(f)
  /\ Goto(f, "reading")
  /\ UNCHANGED <<decisionID, cancelRequested, endedAt, stamp, shards, records, chainVars, claim, seen,
                 coords, releases, apiVars, faults>>

SettleLost(f) ==
  /\ pc[f] = "settling" /\ ~CanSettle(f)
  /\ Return(f)
  /\ UNCHANGED <<rowVars, records, chainVars, claim, seen, coords, releases, apiVars, faults>>

SettleFails(f) ==
  /\ pc[f] = "settling" /\ Fault
  /\ SettleLands(f) \/ UNCHANGED <<status, claimedBy, owed>>
  /\ Goto(f, "confirming")
  /\ UNCHANGED <<decisionID, cancelRequested, endedAt, stamp, shards, records, chainVars, claim, seen,
                 coords, releases, apiVars>>

\* A run this process now holds running counts as settled by this call.
Confirm(f) ==
  /\ pc[f] = "confirming"
  /\ IF status = "running" /\ claimedBy = ProcOf[f] /\ decisionID = claim[f]
       THEN Goto(f, "reading")
       ELSE Return(f)
  /\ UNCHANGED <<rowVars, records, chainVars, claim, seen, coords, releases, apiVars, faults>>

\* The settled row is read; afterRunDecision goes by its cancel flag.
ReadSettled(f) ==
  /\ pc[f] = "reading"
  /\ seen' = [seen EXCEPT ![f] = cancelRequested]
  /\ Goto(f, IF Approves(f) THEN "releasing" ELSE IF Split THEN "rejecting" ELSE "finalizing")
  /\ UNCHANGED <<rowVars, records, chainVars, claim, coords, releases, apiVars, faults>>

\* Either read fails, and nothing is started or completed.
ReadFails(f) ==
  /\ pc[f] \in {"confirming", "reading"} /\ Fault
  /\ Return(f)
  /\ UNCHANGED <<rowVars, records, chainVars, claim, seen, coords, releases, apiVars>>

-----------------------------------------------------------------------------
(* afterRunDecision.                                                       *)

\* A terminal write with its end time; the store's trigger marks the outcome owed.
End(s) == status' = s /\ endedAt' = TRUE /\ owed' = TRUE

\* Mutant: the cancel passes the claim of a decision.
CanCancelDeciding == status \in {"held", "deciding", "pending"} /\ claimedBy = NoProc

\* CancelPending's condition, and the row it leaves.
CanCancel == status \in {"held", "pending"} /\ claimedBy = NoProc

CancelLands == CanCancel /\ End("canceled")

\* A plain run is offered to the claim loop.
ReleasePlain(f) ==
  /\ pc[f] = "releasing" /\ ~Split /\ ~seen[f]
  /\ Return(f)
  /\ UNCHANGED <<rowVars, records, chainVars, claim, seen, coords, releases, apiVars, faults>>

\* A cancel seen on the settled row is honored, if the run still waits and the store answers.
HonorCancel(f) ==
  /\ pc[f] = "releasing" /\ ~Split /\ seen[f]
  /\ CancelLands
  /\ Return(f)
  /\ UNCHANGED <<decisionID, cancelRequested, claimedBy, stamp, shards, records, chainVars, claim, seen,
                 coords, releases, apiVars, faults>>

HonorCancelLost(f) ==
  /\ pc[f] = "releasing" /\ ~Split /\ seen[f]
  /\ (~CanCancel /\ UNCHANGED faults) \/ Fault
  /\ Return(f)
  /\ UNCHANGED <<rowVars, records, chainVars, claim, seen, coords, releases, apiVars>>

\* The split is still this finisher's process's to end.
Holds(f) == status = "running" /\ claimedBy = ProcOf[f]

\* startSplit: the held shards are released and a coordinator is started over them.
StartSplit(f) ==
  /\ pc[f] = "releasing" /\ Split
  /\ shards' = IF shards = "held" THEN "released" ELSE shards
  /\ coords' = coords \cup {f} /\ releases' = releases \cup {f}
  /\ Return(f)
  /\ UNCHANGED <<status, decisionID, cancelRequested, claimedBy, endedAt, stamp, owed, records, chainVars,
                 claim, seen, apiVars, faults>>

\* The shards cannot be listed: the split fails and its shards are left as they are.
StartSplitFails(f) ==
  /\ pc[f] = "releasing" /\ Split /\ Fault
  /\ Holds(f) /\ End("failed")
  /\ Return(f)
  /\ UNCHANGED <<decisionID, cancelRequested, claimedBy, stamp, shards, records, chainVars, claim, seen,
                 coords, releases, apiVars>>

StartSplitLost(f) ==
  /\ pc[f] = "releasing" /\ Split /\ Fault /\ ~Holds(f)
  /\ Return(f)
  /\ UNCHANGED <<rowVars, records, chainVars, claim, seen, coords, releases, apiVars>>

\* rejectShards: every held shard is saved canceled; a list or a save that fails is only logged.
RejectShards(f) ==
  /\ pc[f] = "rejecting"
  /\ \/ shards' = "canceled" /\ UNCHANGED faults
     \/ Fault /\ UNCHANGED shards
  /\ Goto(f, "finalizing")
  /\ UNCHANGED <<status, decisionID, cancelRequested, claimedBy, endedAt, stamp, owed, records, chainVars,
                 claim, seen, coords, releases, apiVars>>

\* finalize of a rejected run: the equal status with no end time is completed by a save.  An end the
\* store refuses is retried from memory until it lands.
FinalizeRejected(f) ==
  /\ pc[f] = "finalizing" /\ status = "rejected" /\ ~endedAt
  /\ endedAt' = TRUE
  /\ Goto(f, "committing")
  /\ UNCHANGED <<status, decisionID, cancelRequested, claimedBy, stamp, owed, shards, records, chainVars,
                 claim, seen, coords, releases, apiVars, faults>>

\* CommitOwed: one outcome entry per run, over the row as it reads now.
Record == outcome' = IF ~outcome.made
                       THEN [made |-> TRUE, after |-> chainDecisions]
                       ELSE outcome

CommitOutcome(f) ==
  /\ pc[f] = "committing"
  /\ Record /\ owed' = FALSE
  /\ Return(f)
  /\ UNCHANGED <<status, decisionID, cancelRequested, claimedBy, endedAt, stamp, shards, records,
                 chainDecisions, claim, seen, coords, releases, apiVars, faults>>

-----------------------------------------------------------------------------
(* What the decision released, its end, and the janitor.                   *)

\* What an execution or a rollup ends as.
Executed == {"succeeded", "failed", "canceled", "interrupted"}

\* A released plain run is claimed, executed and ended (module RunLifecycle).
Execute ==
  /\ status = "pending" /\ ~cancelRequested
  /\ \E s \in Executed : End(s)
  /\ UNCHANGED <<decisionID, cancelRequested, claimedBy, stamp, shards, records, chainVars, workVars,
                 apiVars, faults>>

\* A coordinator rolls its shards up and ends the split it still holds, or finds it ended.
Coordinate(f) ==
  /\ f \in coords /\ Holds(f)
  /\ coords' = coords \ {f}
  /\ \E s \in Executed : End(s)
  /\ shards' = "ended"
  /\ UNCHANGED <<decisionID, cancelRequested, claimedBy, stamp, records, chainVars, pc, claim, seen,
                 releases, apiVars, faults>>

CoordinatorStops(f) ==
  /\ f \in coords /\ ~Holds(f)
  /\ coords' = coords \ {f}
  /\ UNCHANGED <<rowVars, records, chainVars, pc, claim, seen, releases, apiVars, faults>>

\* A finisher that settled the run and has not completed what settling began.
Completing(f) == pc[f] \in {"confirming", "reading", "releasing", "rejecting", "finalizing"}

\* reclaimStale: a running split nobody renews is interrupted and its shards canceled.  A process
\* between its settle and its coordinator holds a fresh lease, which only a stall outlives.
Sweep ==
  /\ status = "running"
  /\ \A f \in coords : ProcOf[f] # claimedBy
  /\ IF \E f \in Finishers : Completing(f) /\ ProcOf[f] = claimedBy THEN Fault ELSE UNCHANGED faults
  /\ End("interrupted") /\ claimedBy' = NoProc
  /\ shards' = IF shards = "ended" THEN shards ELSE "canceled"
  /\ UNCHANGED <<decisionID, cancelRequested, stamp, records, chainVars, workVars, apiVars>>

\* Mutant: a run with no end time is taken for unfinished.
CommitOwedEnded ==
  /\ owed /\ endedAt
  /\ IF \E f \in Finishers : Completing(f) THEN Fault ELSE UNCHANGED faults
  /\ Record /\ owed' = FALSE
  /\ UNCHANGED <<status, decisionID, cancelRequested, claimedBy, endedAt, stamp, shards, records,
                 chainDecisions, workVars, apiVars>>

\* commitOwed: an outcome still owed past the grace is committed; a finisher that would complete the
\* row itself is that slow only when it stalls.
CommitOwed ==
  /\ owed
  /\ IF \E f \in Finishers : Completing(f) THEN Fault ELSE UNCHANGED faults
  /\ Record /\ owed' = FALSE
  /\ UNCHANGED <<status, decisionID, cancelRequested, claimedBy, endedAt, stamp, shards, records,
                 chainDecisions, workVars, apiVars>>

-----------------------------------------------------------------------------
(* cancelRunHandler.                                                       *)

\* A claimed decision's row still reads pending_approval.
CancelRead ==
  /\ handler = "idle" /\ cancelCalls < MaxCancels
  /\ status \notin Terminal
  /\ cancelCalls' = cancelCalls + 1
  /\ handler' = IF status # "running" /\ claimedBy = NoProc THEN "waiting" ELSE "flag"
  /\ UNCHANGED <<rowVars, records, chainVars, workVars, faults>>

CancelWaiting ==
  /\ handler = "waiting"
  /\ CancelLands
  /\ handler' = IF Split THEN "children" ELSE "idle"
  /\ UNCHANGED <<decisionID, cancelRequested, claimedBy, stamp, shards, records, chainVars, workVars,
                 cancelCalls, faults>>

CancelWaitingLost ==
  /\ handler = "waiting" /\ ~CanCancel
  /\ handler' = "flag"
  /\ UNCHANGED <<rowVars, records, chainVars, workVars, cancelCalls, faults>>

\* cancelChildrenOf: the shards stored with a split canceled before it started.
CancelChildren ==
  /\ handler = "children"
  /\ shards' = "canceled"
  /\ handler' = "idle"
  /\ UNCHANGED <<status, decisionID, cancelRequested, claimedBy, endedAt, stamp, owed, records, chainVars,
                 workVars, cancelCalls, faults>>

\* RequestCancel.
CancelFlag ==
  /\ handler = "flag"
  /\ cancelRequested' = TRUE
  /\ handler' = "idle"
  /\ UNCHANGED <<status, decisionID, claimedBy, endedAt, stamp, owed, shards, records, chainVars,
                 workVars, cancelCalls, faults>>

\* A process dies: its requests are never answered, its sweep and its coordinators are gone.
Crash(p) ==
  /\ Fault
  /\ pc' = [f \in Finishers |-> IF ProcOf[f] # p \/ pc[f] = "idle" THEN pc[f]
                                ELSE IF f \in Deciders THEN "done" ELSE "idle"]
  /\ coords' = {f \in coords : ProcOf[f] # p}
  /\ handler' \in {handler, "idle"}
  /\ UNCHANGED <<rowVars, records, chainVars, claim, seen, releases, cancelCalls>>

-----------------------------------------------------------------------------
DecideStep(d) ==
  \/ ReadHeld(d) \/ KeepRecord(d) \/ KeepFails(d) \/ ClaimDecision(d) \/ ClaimLost(d) \/ ClaimFails(d)
  \/ VerifyClaim(d) \/ VerifyFails(d) \/ Withdraw(d) \/ WithdrawFails(d)

FinishStep(f) ==
  \/ AppendEntry(f) \/ AppendFails(f) \/ Stamp(f) \/ StampFails(f)
  \/ Settle(f) \/ SettleLost(f) \/ SettleFails(f) \/ Confirm(f) \/ ReadSettled(f) \/ ReadFails(f)
  \/ ReleasePlain(f) \/ HonorCancel(f) \/ HonorCancelLost(f)
  \/ StartSplit(f) \/ StartSplitFails(f) \/ StartSplitLost(f) \/ RejectShards(f)
  \/ FinalizeRejected(f) \/ CommitOutcome(f) \/ Coordinate(f) \/ CoordinatorStops(f)

CancelStep == CancelRead \/ CancelWaiting \/ CancelWaitingLost \/ CancelChildren \/ CancelFlag

Next ==
  \/ \E d \in Deciders : DecideStep(d)
  \/ \E j \in Janitors : TakeClaim(j)
  \/ \E f \in Finishers : FinishStep(f)
  \/ Execute \/ Sweep \/ CommitOwed \/ CancelStep
  \/ \E p \in Procs : Crash(p)

Spec == Init /\ [][Next]_vars

\* A request being served goes on, sweeps and claim loops run on their intervals, and no fault is
\* needed for any of it.
Fairness ==
  /\ \A d \in Deciders : WF_vars(KeepRecord(d) \/ ClaimDecision(d) \/ ClaimLost(d) \/ VerifyClaim(d)
                                 \/ Withdraw(d))
  /\ \A j \in Janitors : WF_vars(TakeClaim(j))
  /\ \A f \in Finishers : /\ WF_vars(AppendEntry(f) \/ Stamp(f) \/ Settle(f) \/ SettleLost(f)
                                     \/ Confirm(f) \/ ReadSettled(f) \/ ReleasePlain(f)
                                     \/ HonorCancel(f) \/ HonorCancelLost(f) \/ StartSplit(f)
                                     \/ RejectShards(f) \/ FinalizeRejected(f) \/ CommitOutcome(f))
                          /\ WF_vars(Coordinate(f) \/ CoordinatorStops(f))
  /\ WF_vars(Execute) /\ WF_vars(Sweep /\ UNCHANGED faults)
  /\ WF_vars(CommitOwed /\ UNCHANGED faults)
  /\ WF_vars(CancelWaiting \/ CancelWaitingLost \/ CancelChildren \/ CancelFlag)

FairSpec == Spec /\ Fairness

-----------------------------------------------------------------------------
(* Properties.                                                             *)

\* Every variable keeps its type.
TypeOK ==
  /\ status \in Terminal \cup {"held", "deciding", "pending", "running"}
  /\ decisionID \in Deciders \cup {NoDecision}
  /\ cancelRequested \in BOOLEAN
  /\ claimedBy \in Procs \cup {NoProc}
  /\ endedAt \in BOOLEAN
  /\ stamp \in Deciders \cup {NoDecision}
  /\ owed \in BOOLEAN
  /\ shards \in {"held", "released", "canceled", "ended"}
  /\ records \subseteq Deciders
  /\ chainDecisions \subseteq Deciders
  /\ outcome \in [made : BOOLEAN, after : SUBSET Deciders]
  /\ pc \in [Finishers -> {"idle", "keeping", "claiming", "verifying", "withdrawing", "appending",
                          "stamping", "settling", "confirming", "reading", "releasing",
                          "rejecting", "finalizing", "committing", "done"}]
  /\ claim \in [Finishers -> Deciders \cup {NoDecision}]
  /\ seen \in [Finishers -> BOOLEAN]
  /\ coords \subseteq Finishers /\ releases \subseteq Finishers
  /\ handler \in {"idle", "waiting", "children", "flag"}
  /\ cancelCalls \in Nat
  /\ faults \in Nat

\* The chain holds no decision but the one that won the run: a decider that lost, to another decider
\* or to a cancel, is never recorded.
OnlyTheWinnerIsRecorded == chainDecisions \subseteq {decisionID}

\* Nothing takes effect before it is on the chain: a run that left the decision was moved by a
\* recorded decision, and an approved one carries the stamp of what was approved.
RecordedBeforeItTakesEffect ==
  status \in {"pending", "running", "succeeded", "failed", "interrupted", "rejected"} =>
    /\ decisionID \in chainDecisions
    /\ (VerdictOf[decisionID] = "rejected") = (status = "rejected")
    /\ status # "rejected" => stamp = decisionID

\* The outcome comes after the decision: no decision reaches the chain once the outcome has.
DecisionBeforeOutcome == outcome.made => outcome.after = chainDecisions

\* The winner's record is never withdrawn: a decision that loses the answer to its claim removes its
\* record only once the row says it lost.
WinnerKeepsItsRecord == decisionID # NoDecision => decisionID \in records

\* The run as a gate: waiting, claimed by a decision, released or refused by it, or closed undecided.
GateState ==
  IF status = "held" THEN "waiting"
  ELSE IF status = "deciding" THEN "claimed"
  ELSE IF decisionID = NoDecision THEN "closed"
  ELSE IF VerdictOf[decisionID] = "approved" THEN "released" ELSE "refused"

Gate == INSTANCE ApprovalGate
          WITH gate <- GateState, winner <- decisionID, recorded <- chainDecisions # {}

\* The protocol implements the gate: one decision wins, it is recorded before it settles, and no
\* write of a loser, a janitor or a cancel is anything but a step of it.
ImplementsGate == Gate!Spec

\* A claimed decision is recorded and settled in the end, as the gate promises.
ImplementsFairGate == Gate!FairSpec

\* An approved run the claim loop skips for its cancel flag, with nobody left to cancel it.
Stranded == status = "pending" /\ cancelRequested

\* Every run that was decided ends with its outcome on the chain, or is stranded by a cancel.
DecidedRunRests ==
  decisionID # NoDecision ~> [](Stranded \/ (status \in Terminal /\ outcome.made))

-----------------------------------------------------------------------------
(* What a comment says, refuted by a run each.                             *)

\* finishDecision: exactly one finisher goes on to start what the decision released.
ReleasedOnce == \A f1, f2 \in releases : f1 = f2
=============================================================================
