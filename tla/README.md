# SwitchTender in TLA+

SwitchTender is a control plane that runs automation (Ansible, Terraform, Bash and
others) for a team: requests become *runs*, rows of a shared store; worker
processes claim runs under a lease, execute a tool and record how it ended; some
runs are held until a person decides; a large run can be split into shards; and
every decision and every outcome is committed to an append-only audit chain. This
project models the part of it in which correctness depends on the order of
concurrent steps and on what survives a failure, checks it with TLC on small
instances, and proves the central safety properties with TLAPS for instances of
every size.

## 1. Inventory

| Component (source) | State | Operations | Interacts with |
|---|---|---|---|
| Run store (`internal/pgstore`, `internal/sqlitestore`, `internal/run/memstore.go`) | `runs` rows: status, lease owner and time, claim secret, cancel flag, decision claim, end facts; outcomes owed | conditional writes: `Claim`, `StartClaimed`, `Heartbeat`, `FinalizeRunning`, `CancelPending`, `RequestCancel`, `ClaimDecision`, `SettleDecision`, `reclaimStale`, and the unconditional `Save` | everything; its statements are the atomic steps of the system |
| Run lifecycle (`internal/dispatch/dispatch_claim.go`, `dispatch_exec.go`, `writehealth.go`, `outcome.go`) | per process: worker slots, lease watchers, the map of cancel functions, ends the store refused | claim loop, `executeLeased`, `streamSpec`, `watch`, `finalize`, `recordTerminal`, `landOwed`, the janitor | store, chain, tools |
| Decisions (`internal/dispatch/decide.go`, `approvals.go`) | the decision claim on the row, decision records, chain entries | `Approve`, `Reject`, `finishDecision`, `finishClaimed`, `startSplit`, `rejectShards` | store, chain, split coordinator |
| Splits (`internal/dispatch/dispatch_submit.go`, `dispatch_split.go`) | a parent row, shard rows, a coordinator goroutine | `SubmitSplit`, `abandonSplit`, `parentMayStart`, `waitChildren`, `cancelChildren`, `coordinate` | store, executors of the shards |
| Cancel API (`internal/server/handlers_runs.go`) | requests being served | `cancelRunHandler`, `cancelChildrenOf` | store, the process's cancel functions |
| Workflow walk and approval steps (`internal/dispatch/dag.go`, `approvals_step.go`, `dispatch_split.go`, `internal/run/approval.go`) | step rows, the parked workflow, each walk's view of its steps | launch, release, open, park, decide, resume, withdraw | store, chain, decisions, the lease sweep |
| Plan gate (`internal/dispatch/plangate.go`) | a plan and the apply proposed from it | plan, propose under a key | submit, decisions |
| Scheduler (`internal/schedule`, `internal/pgstore/schedule*.go`) | next fire time, in-flight mark | claim an occurrence, fire, record, settle, hand back, skip, sweep | submit with an idempotency key |
| Audit chain (`internal/audit`, `internal/pgstore/audit.go`, `internal/outcome`) | linked, numbered, timed entries; outcomes owed | `Append`, `AppendSpanBeat` under one lock, `CommitOwed` | decisions, outcomes, span beats |
| Notification outbox (`internal/notification`, `internal/dispatch/owed_events.go`, `ends.go`) | events owed, events recorded, deliveries and their claims | announce, sweep what is owed, record, claim, send, finish, release | runs, targets |
| Span beats and witness (`spanbeat`, `witness`) | beats, checkpoints | beat; watch the feed (not modelled) | audit chain |

The rest (HTTP API, users and access, policies, templates, projects, inventories,
importer, credentials and secret sources, tool execution, evidence documents,
notifier formats, retention, backup, commands) is configuration, pure mapping or
I/O around these; `PROJECT.json` lists every part with its reason.

What is hard here:

- *Leases.* A worker that stalls between two statements comes back to a row that was
  requeued, claimed again, interrupted or ended. Two claims by one process share its
  owner name and differ in a secret only.
- *Whole-row saves.* Most writes are conditional, but `recordTerminal`'s fallback,
  `startParentRow` and the events-file warning save a copy over whatever the row has
  become.
- *Two stores.* A row and the chain cannot be written in one transaction, so every
  end is owed to the chain until it is there, and every decision is on the chain
  before it is settled.
- *Lost answers.* A statement may land and its answer be lost; retries then find
  their own first attempt.
- *Cancels.* A cancel is a flag or an end in place, decided on a read; claims,
  requeues, decisions and coordinators race with it.
- *Splits.* Shards are stored one at a time before the coordinator fences the parent, so
  a split can be canceled or abandoned with pending shards in the store; a claim takes
  one only while its parent runs and no cancel was asked of it.
- *Walks.* A workflow is walked from memory and rebuilt from its step rows; a walk
  whose lease lapsed does not know it, while the sweep parks its workflow and another
  process resumes it.
- *Clocks.* Replicas, the database and the occurrences of a schedule each have a time;
  only the database's is read under the append lock, and it may be stepped back.
- *Owners.* Claims of runs and of deliveries are fenced on the name of the process, so
  two goroutines of one process are told apart by a secret (runs) or not at all
  (deliveries).

The hazards are listed with their lines in `PROJECT.json`, each with the properties
that would catch it.

## 2. Modules

| Module | What it is |
|---|---|
| `RunLifecycle` | a plain run from claim to recorded outcome, several processes |
| `Decision` | the decision on a held run or split |
| `ApprovalGate` | the abstract specification `Decision` implements |
| `SplitRun` | a split from submit to rolled-up end |
| `Workflow` | the walk of a workflow with one approval step: launch, park, resume, stop |
| `ApprovalWorkflow` | the abstract specification `Workflow` implements |
| `Scheduler` | a schedule fired by several servers |
| `RunEvents` | how a run's hold, start and end come to be recorded for its targets |
| `Outbox` | delivery of the recorded events to one target |
| `AuditChain` | appends, times, beats and owed outcomes of the chain |
| `MC...` | instances for TLC, one for each of these modules |
| `...Proofs` | theorems: one module for each of the eight components |

In every module a statement of the store is one atomic action and everything a
goroutine does between two statements interleaves with everybody else. Definitions
keep the source's names where they translate a function; where a function makes
several statements there is an action for each, named for what it does. Stalls,
crashes, lost answers and store errors are drawn from `MaxFaults`; cancel requests
from `MaxCancels`.

### RunLifecycle

The row is the functions `status`, `claimedBy`, `claimSecret`, `cancelRequested` and
`stale` (the lease is older than its lifetime); `owed` is what the store's trigger
marks when a row first becomes terminal, and `outcome` the chain's entry. A worker
slot goes `Claim`, `Enter` (its watcher starts), `Start` (`StartClaimed`, fenced on
owner, secret, status and flag), `OpenEvents`, `Reread`, `ToolEnds`, then the end:
`Finalize` (`FinalizeRunning`), or `ReadBack` and `SaveEnd` (the fallback), or an end
owed in memory (`Owe`) that a lander takes up later (`LandOwed`), then
`CommitOutcome`. The watcher renews (`WatchRenews`), sees a cancel (`WatchCancels`) or
learns the lease is lost (`WatchLoses`). The janitor is `Sweep` (`reclaimStale`),
`SettleOverrunning` and `CommitOwed`. `CancelRead`, `CancelWaiting`,
`CancelWaitingLost` and `CancelFlag` are the cancel request. `Crash` takes a process
down with everything it kept in memory. `started` and `rewritten` are history
variables.

### Decision and ApprovalGate

One held run. A decider keeps its record (`KeepRecord`), claims the run
(`ClaimDecision`), verifies a claim whose answer was lost (`VerifyClaim`), appends its
entry, stamps what was approved, settles, and releases or rejects; a janitor takes up
a claimed decision at `TakeClaim` and runs the same steps. With `Split` the settle
takes the parent's lease and starts a coordinator. What a run does once it was
released is one step, `Execute` or `Coordinate`, that ends it in any way; the detail is
in the other two modules. `ApprovalGate` is what a reader of the API relies on: one
decision wins, is recorded, and only then takes effect.

### SplitRun

The shards are `1..N`, and every loop over them goes by shard index (`First`).
`StoreShard` stores them one at a time and `StoreShardFails` begins `abandonSplit`; a
stored shard is claimable (`Claim`) once the parent runs, as long as it runs uncanceled. The coordinator claims the parent
(`ClaimParent` and its failing variants), saves it running (`StartParentRow`), polls
(`Poll`), and on a stop reads, flags and ends the shards one by one (`CancelRead`,
`CancelFlag`, `CancelSettle`, `CancelSave`) before it ends the parent (`EndParent`,
`YieldParent`, or the fallback `ReadParent` and `SaveParent`). A shard's executor is
reduced to claim, fenced start and end, because `RunLifecycle` has it in full; an end
of the parent that the store refuses and is owed is in `RunLifecycle` only. `Sweep`
is one transaction of `reclaimStale`: the lease sweep over any set of stale rows, the
abandoned parent, and the shards of an interrupted one.

### Workflow

The workflow's row is `status`, `owner`, `stale` and `cancel`; the approval step's row is
`gate`; a tool step has its row in `row`, its flag in `stop`, its RELEASE entry in
`released`. `walk[p]` is what the walk of process p holds for each step. A walk skips
(`Skip`), launches (`Launch`, `Release` on the chain, `SaveStep`, or `Adopt` when the
release was another launcher's), learns of results (`StepReports`, `StepStops`), opens
the gate (`Open`, then `RecordRequest`), polls it, and with nothing left but the wait
parks (`BeginPark`, `Park`, `ParkRefused`). `ResumeParked` and `Load` take it up again
from the rows, on any process; `Sweep` is the lease sweep, which parks a workflow that
stalled at its approval (`StalledAtApproval`) and interrupts any other. `ClaimStep` and
`SettleStep` are the decision, whose inner steps are in `Decision`; `CancelRead`,
`CancelWaiting`, `CancelWithdraws` and `CancelFlag` the cancel. Scope: one approval step;
one attempt for each step; a dispatcher with a binding key and a chain (without a key a
release has no derived id, and only the lease keeps two launchers apart); one cancel
request. `Behind` is the transitive
closure `depClosures` computes, as the least closed set; `Advanced` is `advance` with dry
set, a recursion over the graph by `Advance`, and `GraphAssumption` says that the graph has
no cycle (`validatePipelineGraph` refuses one) in the form that recursion needs.
`ApprovalWorkflow` is what readers of the rows see: one verdict (`Decide`), one launch of a
step after its dependencies and under its verdict (`Start`), records that end and stay
(`StepsEnd`), and one end, a success only when the verdict and the graph leave nothing to
do (`Close`, `Complete`). The refinement maps the settled gate to the verdict, the rows to
the records, `saves` to the launches and an ended status to the outcome. The refusal of rows whose
seal does not verify is left out. How a parent first starts is in `SplitRun`, how a step
executes in `RunLifecycle`.

### Scheduler

Time is counted in occurrences. A server's tick takes up an occurrence left in flight
(`TakeUp`, `FindRun`), then lists, checks for overlap (`Overlap`, `OwnRun`, `PassOver`),
claims (`ClaimFire`: the next fire time and the mark in one write), submits under the
occurrence's key (`IdempotentLookup`, `IdempotentSave`), records (`RecordFire`) and clears
the mark (`Settle`). `Failed` decides between a recorded failure and a hand back
(`Release`, `Note`). `Stop`, `Crash` and `Restart` fall between any two; `Edit` and
`Delete` are the operator's. Recurrence rules are the successor on occurrences, and the
unique index that makes a second save of one key the first one's run is the set `saved`.

### RunEvents and Outbox

`RunEvents`: the statement that moves a run owes the event to a ledger; the mover
announces it (`Announce`, `AnnounceInsert`, `AnnounceSettle`) and a sweep on any process
finds what is left (`SweepList`, `SweepGet`, `SweepRecord`, `SweepInsert`, `SweepSettle`),
recording as unsent what the run has moved past. A record is a transaction of two steps,
the run's advisory lock with the look for the event (`Unrecorded`), and the insert with the
commit, which may fail or lose its answer; whoever is between the two has the lock
(`LockFree`). `Outbox` takes up what is recorded: `Record` queues a delivery, `Claim`
takes it under a lease when nothing it follows is pending (`Precedes`), `Send` and
`Finish` are the attempt and its outcome, fenced on the process (`Holds`), and `Lapse`,
`Lose` and `Release` are the lease that runs out, the goroutine that dies and the one
that stops.

### AuditChain

`Lock` is the advisory lock with `outcomeHeld`, `ReadHead` the head, `Write` the clock, the
insert and the commit. `StampAppendTime`, `NextSpanBeat` and `BeatAdvances` translate the
functions of their names. A writer's own clock is any time at all, the database's is
`clock`, which `Tick` advances or steps back. `EndRun` is the write whose trigger owes the
outcome, `CommitOwed` any janitor, `Settle` the end of the debt. Each entry keeps, for the
properties, what the database's clock read. Hashes and the content of entries are left
out.

## 3. Runs

Passing runs:

| Run | Instance | States | Shows |
|---|---|---|---|
| `run_fleet` | one run with a timeout, two processes with a slot each, a lander, 2 faults, 1 cancel | 1,407,633 | `OneExecution`, `RunsUnderItsClaim`, `StartedOnce`: requeues and reclaims never start a run twice. `OnlyASaveRewritesAnEnd`: conditional writes never change an end. `ChainAgrees`: chain and rows agree |
| `run_slots` | one run with a timeout, one process with two slots, 1 fault, 1 cancel, fair | 153,623 | where owner names cannot tell two claims apart, and with the overrun settle, the run rests (`EveryRunRests`) and its end reaches the chain (`EveryEndRecorded`) |
| `decision_plain` | an approver and a rejecter on two processes, a janitor on each, 1 fault, 1 cancel, fair | 135,038 | `OnlyTheWinnerIsRecorded`, `RecordedBeforeItTakesEffect`, `DecisionBeforeOutcome`, `WinnerKeepsItsRecord`, the refinement `ImplementsGate`, and `DecidedRunRests` |
| `decision_split` | a held split, the same deciders, one janitor, 2 faults, 1 cancel, fair | 44,651 | `ImplementsFairGate`: the refinement, with the gate's fairness, when a settle takes a lease |
| `split` | two shards, 2 faults, 1 cancel, fair | 359,516 | `SucceedsOnlyWhole`, `CanceledNeverStarts`; `UnstartedRunsNothing`: no shard of a split canceled in place or abandoned half stored is run; `SplitRests`: the split comes to rest, and unless something failed nothing is left behind |
| `workflow` | an approval step beside one tool, before a second, with a third on its deny path; two processes, the first of which begins (they differ only in name), 1 fault, 1 cancel, fair | 156,859 | `KeepsPromise`: the refinement of `ApprovalWorkflow`, so no step behind the gate exists without the verdict its path asks for, or before its dependencies. `StartedOnce`: no step is stored twice by stalled and resumed walks. `SucceedsOnlyWhole`. `DecidedGoesOn`: no decision is lost between the last look and the park. `ComesToRest` |
| `scheduler` | two servers, two occurrences, 1 fault or change, fair | 212,053 | `KeepsToRecurrence`: nothing is fired or marked before it came due, and no stale tick, hand back or edit moves the schedule past an occurrence to come or ends it early; `ClaimedIsKept` and `ClaimedIsRecorded`: a claimed occurrence is accounted for, whatever stops where; `DueIsTaken`: no mark holds the schedule up for good |
| `run_events` | two movers, one sweeper, 2 faults, fair | 114,731 | `OwedOrRecorded`, `RecordedOnce`, `EndIsRecorded`, `NothingStaysOwed`: no event is lost or doubled between the ledgers and the outbox |
| `outbox` | two events of a run or of two steps, two processes with three goroutines, 2 attempts, 1 fault, fair | 336,813 | `InOrder`: no message overtakes one it follows, leases lapsed or not; `NoteIsTrue`, `DeliveredArrived`, `EveryDeliveryFinishes` |
| `audit_chain` | two writers, a run, a decision, two beats, three clock values with `MaxAhead` 1, 1 failure or clock step, fair | 288,978 | `OnceEach`, `OwedOrRecorded`, `OutcomeIsRecorded`: an outcome reaches the chain once; `InversionShowsStep`: what the recorded times can be trusted for; `BeatsAttest` |

`TypeOK` of every module is a theorem (section 4) and not repeated in the runs.

Why these bounds are enough to be interesting: two holders of one row (two processes,
or two slots of one) is what every race over a lease needs; one fault puts a stall, a crash
or a store error at any point, and the two faults of `run_fleet`, `decision_split`, `split`
and `run_events` let one meet the recovery of another; two deciders with opposite verdicts and the two
janitors of `decision_plain` give every pair of finishers; two shards distinguish "some" from "all"; the workflow has a
step beside the gate, one behind both and one on the deny path; two occurrences
let a claim of the second meet the record of the first; three clock values with an
allowance of one give a step back inside the allowance and one beyond it. The
proofs below lift the safety properties to every size; `run_fleet` has one slot a process,
so two claims of one owner name are in `run_slots` and in the proofs. Deadlock is checked of
the scheduler, which always goes on; in the other runs whatever ended is finished.

Two runs expect a violation. Each states what a comment or `docs/reliability.md` says of
the code, and TLC's counterexample is an execution of the code's steps in which it is not
so; `findings` in `PROJECT.json` quotes the sentence and the line.

- `run_cancel_ends` (`CancelEndsRun`): a cancel acts on what was there when it looked. A
  flag that lands on a run just requeued is skipped by the claim loop and seen by nobody
  else.
- `workflow_resting_keeps_step` (`RestingKeepsItsStep`): a step runs beside the open gate,
  the lease lapses unrenewed, the sweep parks the workflow, and only then the old walk's
  watch ends its context: the walk's `withdraw` cancels the gate of a workflow that is
  parked and not canceled. `park` asks `handedOff` first; the walk's stop path does not.

Six further configurations, kept for whoever changes the code they are about, refute
in the same way what a comment says:

| Configuration | The comment | What happens |
|---|---|---|
| `RunLifecycle_EndsItsOwnExecution` | dispatch_exec.go:1062: the terminal write is fenced on the lease | it is fenced on the owner's name, which two claims of one process share |
| `Decision_ReleasedOnce` | decide.go:178: exactly one finisher goes on to start | a finisher whose settle answered with an error takes that of its process's other finisher for its own |
| `SplitRun_KeepsResults` | dispatch_split.go:183: a shard that ended keeps its result | one that ended since the last poll is reported stopped when the context ends in the wait |
| `Scheduler_HandedBackIsKept` | scheduler.go:303: the mark stays until the fire is accounted for | an occurrence handed back has its mark cleared, and an edit then moves the schedule past it |
| `Scheduler_NoSecondCopy` | scheduler.go:274: no second copy while the previous run is unfinished | a second server passes the overlap check before the first one's run is stored |
| `RunEvents_StartNotAfterEnd` | notify_outbox.go:68: events are recorded before the run moves on | another process ends the run and records its end before the starter records the start |

`EveryRunRests` and `DecidedRunRests` therefore exclude exactly one state, `Stranded`: a
run left pending with a cancel flag nobody will look at again. `SplitRests` allows, and
only after a failure, a shard that was never stored, or one left pending under a parent
that ended other than by interruption (its own `Stranded`): claims ask for a running
parent, and the sweep takes the shards of an interrupted one.

### Fairness

Weak fairness is assumed of what a goroutine or a loop does without waiting for
anyone: the claim loop polls on an interval (`claimLoop`), a worker goes on after each
statement, a tool ends (the timeout or the cancel sees to it), the watcher ticks, the
lander retries, the janitor runs on its interval (`janitor`) on every process, a
request being served goes on, and a lease that nobody renews goes stale. Nothing is
assumed of faults or of people: no crash, store error, cancel request or decision need ever
happen. Where an action has a variant that consumes a fault, only the variant that
does not is fair. In the newer modules: a server's tick goes on step by step and ticks
again, and an unsettled mark ages (`Scheduler`); announcers go on and sweepers list on
every interval, with strong fairness because an event may leave and come back between
two lists (`RunEvents`); a delivery that stays claimable is claimed by some goroutine's
flush, attempts end by their timeout, and leases run out (`Outbox`); walks, watches and
janitors run, the steps of a workflow that runs uncanceled are claimed and end, and nobody
has to decide or cancel (`Workflow`); the advisory lock is granted in the order it was asked for, hence strong
fairness of `Lock`, and some janitor's sweep finds an owed outcome again and again
(`AuditChain`).

## 4. Theorems

All for any sets of runs, processes, slots, deciders, janitors, shards, steps, servers,
occurrences and writers and any number of faults and cancels; the assumptions are the typing of the constants
(`ConstantsAssumption` of each module) and that a workflow's graph has no cycle
(`GraphAssumption`), which TLC evaluates on every run.

- `RunLifecycleProofs`: `TypeCorrect`, `ExecutesOnce`, `RunsUnderClaim`,
  `ChainAgreesWithRows`, `NoEndIsLost`, `StartsOnce`, `EndsStand`. `OneExecution` is not
  inductive: that two slots are past the start says nothing of how they got there.
  The invariant adds that no two slots hold the same claim secret of a run
  (`ClaimInv`), that a slot past its start holds the secret recorded in `started` and
  a pending row was never started (`StartInv`), what each goroutine has in hand
  (`HandsInv`), and that whoever is about to commit an outcome commits the row's
  (`RecordInv`).
- `DecisionProofs`: `TypeCorrect`, `OneDecisionRecorded`, `EffectsAreRecorded`,
  `DecisionsPrecedeOutcome`, `WinnersRecordStays` and `Refinement` (`Decision` implements
  `ApprovalGate`). The invariant says what each step of `finishDecision` may rely on
  (`WorkInv`): every finisher works on the decision on the row, whose entry is on the
  chain from the append on and whose stamp is on the row from the stamp on.
- `SplitRunProofs`: `TypeCorrect`, `SuccessIsWhole`, `UnstartedStaysUnrun`,
  `CanceledStaysUnstarted`, `FlagFencesTheStart`. `SucceedsOnlyWhole` needs that the results a coordinator holds
  are the rows' (`ResultsInv`), which the blind save of `cancelChildren` threatens;
  `LoopInv` shows it only ever writes over a shard the coordinator has no result of,
  and never in a coordinator that ends its parent as a success. `UnstartedRunsNothing`
  needs that a parent canceled in place, not yet fenced or abandoned does not run
  (`UnstartedInv`), which the whole-row save after the claim threatens.

- `WorkflowProofs`: `TypeCorrect`, `Paths` (`RunsBehindVerdict`: a step behind the gate is
  stored only under the verdict its path asks for), `StartsOnce`, `SuccessIsWhole` and
  `Refinement` (`Workflow` implements `ApprovalWorkflow`). Every action is one of six kinds
  (`NextKind`: a walk moves a step on, stores a record, quits, loads, a workflow is resumed,
  or no walk changes), and each invariant is proved once for each kind.
  `PathInv` says that what a walk believes of the gate was true of its row and that a
  verdict once settled does not change (`VerdictInv`), and who may find the gate unopened
  (`AskInv`); so a walk that holds a step ready, however stale, holds it ready for the
  verdict the row has. `StartedOnce` is far from inductive, because two walks may hold the
  same step launched. Behind the gate the chain keeps them apart: the walk that saves is the
  one whose release was first (`ReleaseInv`). Before the gate nothing is released, and what
  keeps the walks apart is the handoff (`HandoffInv`): there is one coordinator (`Sole`), or
  every step before the gate has ended or waits for one that rules it out and is launched
  nowhere (`FreeClosed`). The sweep is what lets a second walk in, and `StalledCloses` shows
  that the condition it parks under, computed by `Advanced` from the rows alone, closes the
  steps of the walk it cannot see. For `SucceedsOnlyWhole`, `EndWhole` turns a walk with
  every step settled into a fact about the rows (`Whole`: succeeded, or never released and
  ruled out), and `ReleasedInv` keeps it true while a stale walk goes on: it could release
  only a step that the verdict permits and whose dependencies were released.
  `OrderInv` (what is launched came after its dependencies) completes the refinement.
  The recursion of `Advanced` is proved from well-foundedness (`AdvancedIs`): two solutions
  agree (`AdvanceUnique`), and one exists below every step (`AdvanceDown`).
- `SchedulerProofs`: `TypeCorrect`, `OnTime`, `ClaimedKept`, `MarkKept`. A server that is
  about to clear a mark has recorded its occurrence or given it up (`SettleInv`); a tick,
  however stale, is not ahead of the clock, and what it fires was claimed (`TickInv`).
- `RunEventsProofs`: `TypeCorrect`, `NeverLost`, `Once`. Whoever is about to settle a debt
  has seen the event recorded (`SettlesRecorded`), and whoever is about to insert one holds
  the lock alone and found it missing (`LockInv`).
- `OutboxProofs`: `TypeCorrect`, `Ordering`, `NoteTrue`, `Arrival`, `FinishedKept`. What a
  claim saw of the earlier deliveries stays true while the attempt lasts, past the lapse
  of its lease (`AttemptKnows`), because what is finished stays finished.
- `AuditChainProofs`: `TypeCorrect`, `Once`, `InversionsAreSteps`, `NeverAhead`,
  `Attestation`, `NeverLost`. The time of an entry is one the database's clock had read by
  then (`Backed`), so an inversion shows a step; the beats have a newest one
  (`LatestBeat`), whose number is how many there are; what `outcomeHeld` did not find
  nobody else inserts while the lock is held (`Locked`, `Fresh`); who settles a debt has the
  outcome on the chain (`SettlesHeld`).

Only model-checked: the liveness properties and `ImplementsFairGate` (fairness and
ENABLED are outside the prover). Every invariant and every action property of a passing
run is a theorem.

## 5. Not modelled, and the plan

Inside the modelled components: the event stream and the log of a tool, secrets, hooks,
the bound of 1024 owed ends, the map of cancel functions of one process beyond its
removal by id, retries of failed shards and of workflow steps, workflows with several
approval steps, recurrence rules and time zones, the routing of events to targets, and
the hashes and content of chain entries. Known limits the models keep and no property
excludes: a cancel flag set on a workflow after it parked leaves it parked until it is
canceled in place; a step that cannot be loaded, or a canceler that dies half way, leaves
an approval step waiting for a workflow that ended; the fence of a delivery is the
process, so a stalled goroutine may clear a newer claim of its own process; a shard whose
store answered with an error and landed, or that a failed read passed over, stays pending
for good under a failed or canceled parent.

Outside them, in the order planned:

1. An abstract specification of the scheduler and of the outbox, and the refinements.
2. The plan gate (`plangate.go`) and shard retries, on top of `Decision` and `SplitRun`.
3. The live event hub (`internal/live`), the feed and the outside witness.

The rest of the repository is not a subject for this method: importers, renderers,
verifiers, policies and inventories are pure functions of large inputs, better served by
their tests; handlers and record stores write one row each; tools, notifiers, secret
sources and git are I/O; licensing, demo and commands are wiring.

## 6. Running

    tlc -config RunLifecycleFleet.cfg MCRunLifecycle
    tlc -config DecisionPlain.cfg MCDecision
    tlc -config SplitRun.cfg MCSplitRun
    tlc -config Workflow.cfg MCWorkflow
    tlc -config Scheduler.cfg MCScheduler
    tlc -config RunEvents.cfg MCRunEvents
    tlc -config Outbox.cfg MCOutbox
    tlc -config AuditChain.cfg MCAuditChain
    tlapm RunLifecycleProofs.tla

The configurations named `<Module>_<Property>.cfg` are the ones that expect a
violation.
