------------------------------ MODULE Workflow ------------------------------
(***************************************************************************)
(* A workflow with one approval step.  A coordinator walks the graph: it   *)
(* starts the steps whose dependencies allow it, skips those that can      *)
(* never start, and asks a person at the approval step.  With nothing left *)
(* but the wait it parks the workflow in the store; a decision or a sweep  *)
(* resumes it, on any process, from the step records.  Leases lapse under  *)
(* walks that stall, the sweep parks or interrupts what they held, and a   *)
(* cancel races all of it.  The dispatcher has a binding key and a chain.  *)
(* Steps have one attempt; how a step executes is in RunLifecycle.tla, how *)
(* a decision is claimed and settled in Decision.tla, and how a parent is  *)
(* first started in SplitRun.tla.                                          *)
(***************************************************************************)
EXTENDS Integers, FiniteSets

CONSTANTS
  Tools,      \* steps that run a tool
  Gate,       \* the approval step
  Deps,       \* DependsOn: the steps each step waits for
  OnDeny,     \* tools with the gate in IfDenied
  Continues,  \* tools with ContinueOnFailure
  Processes,
  MaxFaults   \* bound on deaths, stops, stalls and writes that fail

None == "none"
Gone == "gone"   \* the owner name of a process that died
Steps == Tools \cup {Gate}

Direct(s) == Deps[s] \cup IF s \in OnDeny THEN {Gate} ELSE {}

\* depClosures: the steps a step comes after, directly or through others; every set that holds the
\* step's dependencies and those of its members holds them.
Behind ==
  [s \in Steps |->
     {j \in Steps : \A S \in SUBSET Steps :
        (Direct(s) \subseteq S /\ \A i \in S : Direct(i) \subseteq S) => j \in S}]

ASSUME ConstantsAssumption ==
  /\ Gate \notin Tools /\ Deps \in [Steps -> SUBSET Steps]
  /\ OnDeny \subseteq Tools /\ Continues \subseteq Tools
  /\ None \notin Processes /\ Gone \notin Processes /\ MaxFaults \in Nat

\* The graph has no cycle: among any steps there is one that comes after no other of them.
ASSUME GraphAssumption ==
  \A S \in SUBSET Steps : S # {} => \E s \in S : Behind[s] \cap S = {}

VARIABLES
  status, owner, stale, cancel,  \* the workflow's row; stale: the lease is past its lifetime
  gate,      \* the approval step's row; yes and no are verdicts claimed and not settled
  row,       \* the tools' rows; live is pending or running
  stop,      \* tools whose row asks to be canceled
  released,  \* tools with a RELEASE entry on the chain
  saves,     \* how often each tool's row was inserted
  at, ctx,   \* per process: the coordinator, and whether its context ended
  walk,      \* per process: what the walk holds for each step
  canceler,  \* a cancel request
  faults

parent == <<status, owner, stale, cancel>>
children == <<gate, row, stop, released, saves>>
vars == <<parent, children, at, ctx, walk, canceler, faults>>

Ended == {"succeeded", "failed", "canceled", "interrupted"}
Executing == {"launching", "saving", "adopting", "running"}
Results == Ended \cup {"denied", "refused"}
Settled == Results \cup {"skipped", "stopped"}
GateStates == {None, "waiting", "yes", "no", "approved", "denied", "unasked", "withdrawn"}
WalkStates == {"waiting", "opening", "awaiting"} \cup Executing \cup Settled

Fresh == [s \in Steps |-> "waiting"]

Init ==
  /\ status = "running" /\ stale = FALSE /\ cancel = FALSE /\ gate = None
  /\ row = [t \in Tools |-> None] /\ stop = {} /\ released = {} /\ saves = [t \in Tools |-> 0]
  /\ owner \in Processes
  /\ at = [p \in Processes |-> IF p = owner THEN "walking" ELSE "idle"]
  /\ ctx = [p \in Processes |-> "live"] /\ walk = [p \in Processes |-> Fresh]
  /\ canceler = None /\ faults = MaxFaults

Fault == faults > 0 /\ faults' = faults - 1

(***************************************************************************)
(* The graph: w is what a walk holds for each step.                        *)
(***************************************************************************)

\* depAllows: the step at j lets a step that waits for it run.
Allows(w, j) == w[j] = "succeeded" \/ (j \in Continues /\ w[j] \in Results \ {"refused"})

\* readiness: the step can never start.
Blocked(w, s) ==
  \/ \E j \in Behind[s] : w[j] = "refused"
  \/ \E j \in Deps[s] : w[j] \in Settled /\ ~Allows(w, j)
  \/ s \in OnDeny /\ w[Gate] \in Settled \ {"denied"}

\* readiness: the step can start.
Ready(w, s) == (\A j \in Direct(s) : w[j] \in Settled) /\ ~Blocked(w, s)

\* advance with dry set: what becomes of a step, given its record and what became of the others.
Advance(rec, w, s) ==
  IF rec[s] # "waiting" THEN rec[s]
  ELSE IF Blocked(w, s) THEN "skipped"
  ELSE IF Ready(w, s) THEN "ready" ELSE "waiting"

\* How the steps without a record settle, given those with one.
Advanced(rec) == LET f[s \in Steps] == Advance(rec, f, s) IN f

\* decided: what the approval step's row settles the walk with.  A row that names no decision is
\* refused, so neither path runs.
Verdict(v) ==
  CASE v = None -> "waiting" [] v \in {"waiting", "yes", "no"} -> "awaiting"
    [] v = "approved" -> "succeeded" [] v = "denied" -> "denied"
    [] v = "unasked" -> "refused" [] v = "withdrawn" -> "canceled"

\* load: the walk restored from the step records.
Restored ==
  [s \in Steps |->
     IF s = Gate THEN Verdict(gate)
     ELSE IF row[s] = None THEN "waiting" ELSE IF row[s] = "live" THEN "running" ELSE row[s]]

Started == gate # None \/ \E t \in Tools : row[t] # None

\* Mutant: only a step that executes is work.
ParkedHasWorkRunning == \E t \in Tools : row[t] = "live"

\* parkedHasWork.
ParkedHasWork ==
  /\ Started
  /\ \/ Restored[Gate] # "awaiting"
     \/ \E t \in Tools : row[t] = "live"
     \/ \E s \in Steps : Advanced(Restored)[s] = "ready"

\* actedOn: a step after the gate has a record.
ActedOn == \E t \in Tools : row[t] # None /\ Gate \in Behind[t]

\* StalledAtApproval: nothing executes or could start, and the gate was asked and not acted on.
StalledAtApproval ==
  /\ ~cancel /\ \A t \in Tools : row[t] # "live"
  /\ gate # None /\ (gate \in {"waiting", "yes", "no"} \/ ~ActedOn)
  /\ \A t \in Tools : Advanced([Restored EXCEPT ![Gate] = "awaiting"])[t] # "ready"

(***************************************************************************)
(* A coordinator's walk.                                                   *)
(***************************************************************************)

Walking(p) == at[p] = "walking"
Holds(p) == status = "running" /\ owner = p
Running(p) == \E t \in Tools : walk[p][t] \in Executing

\* stoppedStatus: what the process calls a step it stopped.
Stopped(p) == IF ctx[p] = "stopping" THEN "interrupted" ELSE "canceled"

Set(p, s, v) == walk' = [walk EXCEPT ![p][s] = v]

\* CancelPending on the approval step, then finishClaimedSteps: a claimed verdict is settled.
Withdrawn ==
  CASE gate = "waiting" -> "withdrawn" [] gate = "yes" -> "approved" [] gate = "no" -> "denied"
    [] OTHER -> gate

\* cancelChildren, and the sweep of orphans: an unclaimed child ends, as v, and a claimed one is asked
\* to stop.
StopChildren(ts, v) ==
  \E pending \in SUBSET {t \in ts : row[t] = "live"} :
    /\ row' = [t \in Tools |-> IF t \in pending THEN v ELSE row[t]]
    /\ stop' = stop \cup {t \in ts \ pending : row[t] = "live"}

\* advance: a step that can never start, or a context that ended, settles it without a record.
Skip(p, s) ==
  /\ Walking(p) /\ walk[p][s] = "waiting" /\ (ctx[p] # "live" \/ Blocked(walk[p], s))
  /\ Set(p, s, IF ctx[p] # "live" THEN "stopped" ELSE "skipped")
  /\ UNCHANGED <<parent, children, at, ctx, canceler, faults>>

\* launch: the attempt gets a goroutine of its own.
Launch(p, t) ==
  /\ Walking(p) /\ walk[p][t] = "waiting" /\ ctx[p] = "live" /\ Ready(walk[p], t)
  /\ Set(p, t, "launching")
  /\ UNCHANGED <<parent, children, at, ctx, canceler, faults>>

\* runStepAttempts on an ended context starts nothing.
LaunchStops(p, t) ==
  /\ Walking(p) /\ walk[p][t] = "launching" /\ ctx[p] # "live"
  /\ Set(p, t, "canceled")
  /\ UNCHANGED <<parent, children, at, ctx, canceler, faults>>

\* Mutant: a second release of the attempt is taken for the first one's retry.
ReleaseAgain(p, t) ==
  /\ Walking(p) /\ walk[p][t] = "launching" /\ ctx[p] = "live"
  /\ released' = released \cup {t} /\ Set(p, t, "saving")
  /\ UNCHANGED <<parent, gate, row, stop, saves, at, ctx, canceler, faults>>

\* releaseAttempt: a step behind the gate is released on the chain under an id its attempt fixes,
\* and a second launcher adopts the record of the first.  Other steps need no release.
Release(p, t) ==
  /\ Walking(p) /\ walk[p][t] = "launching" /\ ctx[p] = "live"
  /\ IF Gate \notin Behind[t] THEN Set(p, t, "saving") /\ UNCHANGED released
     ELSE IF t \in released THEN Set(p, t, "adopting") /\ UNCHANGED released
     ELSE Set(p, t, "saving") /\ released' = released \cup {t}
  /\ UNCHANGED <<parent, gate, row, stop, saves, at, ctx, canceler, faults>>

\* An append that fails after its retries, landed or not, refuses the step.
ReleaseFails(p, t) ==
  /\ Walking(p) /\ walk[p][t] = "launching" /\ Gate \in Behind[t] /\ Fault
  /\ released' \in {released, released \cup {t}} /\ Set(p, t, "refused")
  /\ UNCHANGED <<parent, gate, row, stop, saves, at, ctx, canceler>>

\* adoptRelease: the record the other launcher stored is waited on; one that does not appear within
\* the polls refuses the step, and an ended context leaves it.
Adopt(p, t) ==
  /\ Walking(p) /\ walk[p][t] = "adopting"
  /\ IF row[t] # None THEN Set(p, t, "running")
     ELSE Set(p, t, IF ctx[p] # "live" THEN "canceled" ELSE "refused")
  /\ UNCHANGED <<parent, children, at, ctx, canceler, faults>>

Insert(t) == row' = [row EXCEPT ![t] = "live"] /\ saves' = [saves EXCEPT ![t] = @ + 1]

\* startAttempt stores the step's record for a claim loop.
SaveStep(p, t) ==
  /\ Walking(p) /\ walk[p][t] = "saving"
  /\ Insert(t) /\ Set(p, t, "running")
  /\ UNCHANGED <<parent, gate, stop, released, at, ctx, canceler, faults>>

\* A save whose answer is an error fails the step, whether or not the record landed.
SaveStepFails(p, t) ==
  /\ Walking(p) /\ walk[p][t] = "saving" /\ Fault
  /\ Insert(t) \/ UNCHANGED <<row, saves>>
  /\ Set(p, t, "failed")
  /\ UNCHANGED <<parent, gate, stop, released, at, ctx, canceler>>

\* waitChildren and stepOutputs: the step's record ended; a success that cannot be read back is refused.
StepReports(p, t) ==
  /\ Walking(p) /\ walk[p][t] = "running" /\ row[t] \in Ended
  /\ \/ Set(p, t, row[t]) /\ UNCHANGED faults
     \/ row[t] = "succeeded" /\ Fault /\ Set(p, t, "refused")
  /\ UNCHANGED <<parent, children, at, ctx, canceler>>

\* waitChildren on an ended context, which also ends its reads: the child is told to stop.
StepStops(p, t) ==
  /\ Walking(p) /\ walk[p][t] = "running" /\ ctx[p] # "live"
  /\ StopChildren({t}, Stopped(p)) /\ Set(p, t, Stopped(p))
  /\ UNCHANGED <<parent, gate, released, saves, at, ctx, canceler, faults>>

\* openApprovalStep: the record, which offers the step for a decision.
Open(p) ==
  /\ Walking(p) /\ walk[p][Gate] = "waiting" /\ ctx[p] = "live" /\ Ready(walk[p], Gate)
  /\ \/ gate' = "waiting" /\ Set(p, Gate, "opening") /\ UNCHANGED faults
     \/ Fault /\ gate' \in {gate, "waiting"} /\ Set(p, Gate, "refused")
  /\ UNCHANGED <<parent, row, stop, released, saves, at, ctx, canceler>>

\* Mutant: a request that went unrecorded takes the deny path.
RecordRequestDenied(p) ==
  /\ Walking(p) /\ walk[p][Gate] = "opening"
  /\ \/ Set(p, Gate, "awaiting") /\ UNCHANGED <<gate, faults>>
     \/ /\ Fault /\ Set(p, Gate, "denied")
        /\ gate' = IF gate = "waiting" THEN "unasked" ELSE gate
  /\ UNCHANGED <<parent, row, stop, released, saves, at, ctx, canceler>>

\* The request on the chain.  One that cannot be recorded settles a step no decision claimed.
RecordRequest(p) ==
  /\ Walking(p) /\ walk[p][Gate] = "opening"
  /\ \/ Set(p, Gate, "awaiting") /\ UNCHANGED <<gate, faults>>
     \/ /\ Fault /\ Set(p, Gate, "refused")
        /\ gate' = IF gate = "waiting" THEN "unasked" ELSE gate
  /\ UNCHANGED <<parent, row, stop, released, saves, at, ctx, canceler>>

\* poll.
Poll(p) ==
  /\ Walking(p) /\ walk[p][Gate] = "awaiting" /\ ctx[p] = "live" /\ Verdict(gate) # "awaiting"
  /\ Set(p, Gate, Verdict(gate))
  /\ UNCHANGED <<parent, children, at, ctx, canceler, faults>>

\* advance has nothing left to do.
Quiet(p) ==
  /\ Walking(p) /\ walk[p][Gate] # "opening"
  /\ \A s \in Steps : walk[p][s] = "waiting" =>
       ctx[p] = "live" /\ ~Blocked(walk[p], s) /\ ~Ready(walk[p], s)

\* run: a process that stops with nothing running parks what waits for a person.
ParksOnStop(p) ==
  ctx[p] = "stopping" /\ ~Running(p) /\ \A s \in Steps : walk[p][s] # "interrupted"

\* run: nothing is left but the wait.
BeginPark(p) ==
  /\ Quiet(p) /\ walk[p][Gate] = "awaiting" /\ ~Running(p)
  /\ (ctx[p] = "live" /\ Verdict(gate) = "awaiting") \/ ParksOnStop(p)
  /\ at' = [at EXCEPT ![p] = "parking"]
  /\ UNCHANGED <<parent, children, ctx, walk, canceler, faults>>

\* withdraw: an ended context takes the waiting approval step out of the queue.
Withdraw(p) ==
  /\ Quiet(p) /\ walk[p][Gate] = "awaiting" /\ ctx[p] # "live" /\ ~ParksOnStop(p)
  /\ gate' = Withdrawn /\ Set(p, Gate, Stopped(p))
  /\ UNCHANGED <<parent, row, stop, released, saves, at, ctx, canceler, faults>>

\* The coordinator returns; a process that was stopping is replaced by a new one.
Leaves(p) ==
  /\ at' = [at EXCEPT ![p] = "idle"] /\ ctx' = [ctx EXCEPT ![p] = "live"]
  /\ walk' = [walk EXCEPT ![p] = Fresh]

\* Mutant: the park does not look at the cancel flag.
CanParkFlagged(p) == Holds(p)

\* ParkForApproval's condition.
CanPark(p) == Holds(p) /\ ~cancel

\* handedOff: the workflow is parked, or another process walks it.
HandedOff(p) ==
  \/ status = "running" /\ owner \notin {p, None}
  \/ status = "parked" /\ ~cancel

\* park.
Park(p) ==
  /\ at[p] = "parking"
  /\ IF CanPark(p) THEN status' = "parked" /\ owner' = None /\ stale' = FALSE
     ELSE HandedOff(p) /\ UNCHANGED <<status, owner, stale>>
  /\ Leaves(p)
  /\ UNCHANGED <<cancel, children, canceler, faults>>

\* A park that is refused, or that the store fails, withdraws the approval step and stops the workflow.
ParkRefused(p) ==
  /\ at[p] = "parking" /\ ~HandedOff(p)
  /\ \/ ~CanPark(p) /\ UNCHANGED faults
     \/ CanPark(p) /\ Fault
  /\ gate' = Withdrawn /\ at' = [at EXCEPT ![p] = "stopping"]
  /\ UNCHANGED <<parent, row, stop, released, saves, ctx, walk, canceler>>

Any(p, vs) == \E s \in Steps : walk[p][s] \in vs

\* Mutant: only what the coordinator stopped, not a step that was canceled, stops the workflow.
PipelineOutcomeStopped(p) ==
  IF Any(p, {"interrupted"}) THEN "interrupted"
  ELSE IF at[p] = "stopping" \/ Any(p, {"stopped"}) THEN Stopped(p)
  ELSE IF Any(p, {"failed", "refused"}) \/ (walk[p][Gate] = "denied" /\ OnDeny = {}) THEN "failed"
  ELSE "succeeded"

\* settle and pipelineOutcome: how the steps fold into the workflow's end.  A denial the graph handles
\* is no failure.
PipelineOutcome(p) ==
  IF Any(p, {"interrupted"}) THEN "interrupted"
  ELSE IF at[p] = "stopping" \/ Any(p, {"canceled", "stopped"}) THEN Stopped(p)
  ELSE IF Any(p, {"failed", "refused"}) \/ (walk[p][Gate] = "denied" /\ OnDeny = {}) THEN "failed"
  ELSE "succeeded"

\* finalize: the end is written by the process that holds the lease, and by no other.
Finalize(p, s) == status' = IF Holds(p) THEN s ELSE status

\* coordinatePipeline: every step settled.
End(p) ==
  /\ at[p] = "stopping" \/ (Quiet(p) /\ ~Running(p) /\ walk[p][Gate] # "awaiting")
  /\ Finalize(p, PipelineOutcome(p)) /\ Leaves(p)
  /\ UNCHANGED <<owner, stale, cancel, children, canceler, faults>>

(***************************************************************************)
(* Resuming a parked workflow.                                             *)
(***************************************************************************)

\* TransitionStatusAndClaim's condition, behind resumeParked's own.
CanResume(p) == at[p] = "idle" /\ Started /\ status = "parked" /\ ~cancel

\* resumeParked, called once a step is settled, after a park and by every janitor for a workflow with
\* work.  One that cannot be read back once it is claimed is left to the lease sweep.
ResumeParked(p) ==
  /\ CanResume(p) /\ ParkedHasWork
  /\ status' = "running" /\ owner' = p /\ stale' = FALSE
  /\ \/ at' = [at EXCEPT ![p] = "resumed"] /\ UNCHANGED faults
     \/ Fault /\ UNCHANGED at
  /\ UNCHANGED <<cancel, children, ctx, walk, canceler>>

\* coordinatePipeline of a resumed workflow restores the walk.
Load(p) ==
  /\ at[p] = "resumed" /\ ctx[p] = "live"
  /\ walk' = [walk EXCEPT ![p] = Restored] /\ at' = [at EXCEPT ![p] = "walking"]
  /\ UNCHANGED <<parent, children, ctx, canceler, faults>>

\* Step records that cannot be read, which an ended context makes sure of, fail the workflow.
LoadFails(p) ==
  /\ at[p] = "resumed" /\ IF ctx[p] = "live" THEN Fault ELSE UNCHANGED faults
  /\ Finalize(p, "failed") /\ Leaves(p)
  /\ UNCHANGED <<owner, stale, cancel, children, canceler>>

(***************************************************************************)
(* Leases, the watch, the sweep, and processes that stop or die.           *)
(***************************************************************************)

Watched(p) == at[p] \in {"resumed", "walking"} /\ ctx[p] = "live"

\* watch: a heartbeat renews the lease.
Renew(p) ==
  /\ Watched(p) /\ Holds(p) /\ stale
  /\ stale' = FALSE
  /\ UNCHANGED <<status, owner, cancel, children, at, ctx, walk, canceler, faults>>

\* watch: a lease that is lost or expired, or a requested cancel, ends the walk's context.
Watch(p) ==
  /\ Watched(p) /\ (~Holds(p) \/ stale \/ cancel)
  /\ ctx' = [ctx EXCEPT ![p] = "canceled"]
  /\ UNCHANGED <<parent, children, at, walk, canceler, faults>>

\* A lease nobody renews ages; one that a coordinator holds only when it stalls.
Age ==
  /\ status = "running" /\ ~stale
  /\ IF owner \in Processes /\ at[owner] # "idle" THEN Fault ELSE UNCHANGED faults
  /\ stale' = TRUE
  /\ UNCHANGED <<status, owner, cancel, children, at, ctx, walk, canceler>>

\* reclaimStale: a workflow whose lease lapsed is parked when it only waits for a person, and
\* interrupted otherwise.
Sweep ==
  /\ status = "running" /\ stale
  /\ owner' = None /\ stale' = FALSE
  /\ \/ StalledAtApproval /\ status' = "parked" /\ UNCHANGED <<gate, row, stop>>
     \/ /\ ~StalledAtApproval /\ status' = "interrupted" /\ StopChildren(Tools, "canceled")
        /\ gate' = IF gate = "waiting" THEN "withdrawn" ELSE gate
  /\ UNCHANGED <<cancel, released, saves, at, ctx, walk, canceler, faults>>

\* The same transaction over the steps of a workflow interrupted earlier.
SweepOrphans ==
  /\ status = "interrupted" /\ (gate = "waiting" \/ \E t \in Tools \ stop : row[t] = "live")
  /\ gate' = (IF gate = "waiting" THEN "withdrawn" ELSE gate) /\ StopChildren(Tools, "canceled")
  /\ UNCHANGED <<parent, released, saves, at, ctx, walk, canceler, faults>>

\* Close: the process stops, and every context it gave out ends.
Shutdown(p) ==
  /\ at[p] # "idle" /\ ctx[p] # "stopping" /\ Fault
  /\ ctx' = [ctx EXCEPT ![p] = "stopping"]
  /\ UNCHANGED <<parent, children, at, walk, canceler>>

\* A process dies; the one that replaces it takes leases under a name of its own.
Crash(p) ==
  /\ at[p] # "idle" /\ Fault /\ Leaves(p)
  /\ owner' = IF owner = p THEN Gone ELSE owner
  /\ UNCHANGED <<status, stale, cancel, children, canceler>>

(***************************************************************************)
(* The steps' executors, the people who decide, and a cancel request.      *)
(***************************************************************************)

\* The claim loop and the executor of a step, or the sweep of an executor that died.
ChildEnds(t) ==
  /\ row[t] = "live"
  /\ \/ row' \in {[row EXCEPT ![t] = r] : r \in {"succeeded", "failed"}} /\ UNCHANGED faults
     \/ t \in stop /\ row' = [row EXCEPT ![t] = "canceled"] /\ UNCHANGED faults
     \/ Fault /\ row' = [row EXCEPT ![t] = "interrupted"]
  /\ UNCHANGED <<parent, gate, stop, released, saves, at, ctx, walk, canceler>>

\* ClaimDecision by a person or by timeOutStep.  DecideStep looks at the workflow before it claims
\* the step, and the claim does not look again: it also lands once the workflow ended.
ClaimStep(v) ==
  /\ gate = "waiting" /\ gate' = v
  /\ UNCHANGED <<parent, row, stop, released, saves, at, ctx, walk, canceler, faults>>

\* finishDecision by the decider, or finishClaimed by a janitor.
SettleStep ==
  /\ gate \in {"yes", "no"} /\ gate' = IF gate = "yes" THEN "approved" ELSE "denied"
  /\ UNCHANGED <<parent, row, stop, released, saves, at, ctx, walk, canceler, faults>>

\* cancelRunHandler, for a workflow somebody holds when it looks.
CancelRead ==
  /\ canceler = None /\ status = "running" /\ canceler' = "flagging"
  /\ UNCHANGED <<parent, children, at, ctx, walk, faults>>

\* CancelWaiting ends a workflow nobody holds.
CancelWaiting ==
  /\ canceler = None /\ status = "parked"
  /\ status' = "canceled" /\ canceler' = "withdrawing"
  /\ UNCHANGED <<owner, stale, cancel, children, at, ctx, walk, faults>>

\* Its approval step leaves the queue; a process that dies first leaves it there.
CancelWithdraws ==
  /\ canceler = "withdrawing" /\ canceler' = "done"
  /\ \/ gate' = Withdrawn /\ UNCHANGED faults
     \/ Fault /\ UNCHANGED gate
  /\ UNCHANGED <<parent, row, stop, released, saves, at, ctx, walk>>

\* RequestCancel.
CancelFlag ==
  /\ canceler = "flagging" /\ canceler' = "done" /\ cancel' = TRUE
  /\ UNCHANGED <<status, owner, stale, children, at, ctx, walk, faults>>

StepOf(p, t) ==
  \/ Launch(p, t) \/ LaunchStops(p, t) \/ Release(p, t) \/ ReleaseFails(p, t) \/ Adopt(p, t)
  \/ SaveStep(p, t) \/ SaveStepFails(p, t) \/ StepReports(p, t) \/ StepStops(p, t)

Coordinate(p) ==
  \/ \E s \in Steps : Skip(p, s)
  \/ \E t \in Tools : StepOf(p, t)
  \/ Open(p) \/ RecordRequest(p) \/ Poll(p) \/ BeginPark(p) \/ Withdraw(p)
  \/ Park(p) \/ ParkRefused(p) \/ End(p) \/ Load(p) \/ LoadFails(p)

Person ==
  \/ \E v \in {"yes", "no"} : ClaimStep(v)
  \/ CancelRead \/ CancelWaiting \/ CancelWithdraws \/ CancelFlag

Next ==
  \/ \E p \in Processes :
       \/ Coordinate(p) \/ ResumeParked(p) \/ Renew(p) \/ Watch(p) \/ Shutdown(p) \/ Crash(p)
  \/ \E t \in Tools : ChildEnds(t)
  \/ Age \/ Sweep \/ SweepOrphans \/ SettleStep \/ Person

Spec == Init /\ [][Next]_vars

\* Goroutines in progress run on, and a janitor resumes what has work; claim loops take the steps of
\* a workflow that runs, uncanceled, and executors end them; the janitors settle and sweep on every
\* tick, and a lease nobody renews ages.  Nobody has to decide or to cancel.
Fairness ==
  /\ WF_vars(\E p \in Processes : Coordinate(p) \/ Watch(p) \/ ResumeParked(p))
  /\ WF_vars(status = "running" /\ ~cancel /\ \E t \in Tools : ChildEnds(t))
  /\ WF_vars(SettleStep \/ (Age /\ faults' = faults) \/ Sweep \/ CancelFlag)

FairSpec == Spec /\ Fairness

-----------------------------------------------------------------------------

TypeOK ==
  /\ status \in Ended \cup {"running", "parked"} /\ owner \in Processes \cup {None, Gone}
  /\ stale \in BOOLEAN /\ cancel \in BOOLEAN
  /\ gate \in GateStates /\ row \in [Tools -> Ended \cup {None, "live"}]
  /\ stop \subseteq Tools /\ released \subseteq Tools /\ saves \in [Tools -> Nat]
  /\ at \in [Processes -> {"idle", "resumed", "walking", "parking", "stopping"}]
  /\ ctx \in [Processes -> {"live", "canceled", "stopping"}]
  /\ walk \in [Processes -> [Steps -> WalkStates]]
  /\ canceler \in {None, "flagging", "withdrawing", "done"} /\ faults \in 0..MaxFaults

\* What the workflow has promised so far: its verdict, its records and how it ended.
Promise == INSTANCE ApprovalWorkflow
             WITH verdict <- IF gate \in {"approved", "denied"} THEN gate ELSE None,
                  record <- row, launches <- saves,
                  outcome <- IF status \in Ended THEN status ELSE "open"

\* Whatever walks, stalls, dies, resumes, sweeps or cancels, the workflow keeps its promise: a verdict
\* that is in stands, a step starts once, after its dependencies and under its verdict, and an end is
\* written once, as a success only when nothing is left to do.
KeepsPromise == Promise!Spec

\* A step is stored once, however many walks came to launch it: its release on the chain, and the
\* records a resumed walk restores, keep a walk that stalled and the one that took over apart.
StartedOnce == \A t \in Tools : saves[t] <= 1

\* A workflow recorded as succeeded did everything its graph and its verdict call for: each step has
\* succeeded or is ruled out by those that did, and none still runs.
SucceedsOnlyWhole ==
  status = "succeeded" =>
    /\ gate \in {"approved", "denied"} \/ Advanced(Restored)[Gate] = "skipped"
    /\ \A t \in Tools : Advanced(Restored)[t] \in {"succeeded", "skipped"}

\* A workflow that rests at its approval step goes on once the step is decided, whichever process
\* decided it and whatever happened to the one that would have resumed it.
DecidedGoesOn ==
  (status = "parked" /\ gate \in {"yes", "no", "approved", "denied"}) ~> (status # "parked" \/ cancel)

\* A workflow that runs comes to rest, also when its coordinator dies or stalls: it ends, or it waits
\* for a person in the store.  A cancel that reached it while it ran never leaves it parked, where
\* the flag would keep every process from resuming it.
ComesToRest == (status = "running") ~> (status \in Ended \/ (status = "parked" /\ ~cancel))

\* The approval step of a workflow that rests in the store, uncanceled, is not withdrawn.
RestingKeepsItsStep ==
  [][gate = "waiting" /\ gate' = "withdrawn" => status # "parked" \/ cancel]_vars

=============================================================================
