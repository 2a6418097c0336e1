---------------------------- MODULE RunLifecycle ----------------------------
(***************************************************************************)
(* The life of a plain top-level run: claimed from the store by a worker   *)
(* slot under a lease, moved to running by a fenced transition, executed,  *)
(* ended by a terminal write, and recorded on the audit chain.  Several    *)
(* processes (Owners) share the store.  Each runs several worker slots and *)
(* one goroutine that lands the ends the store refused earlier, and all    *)
(* run the janitor.  The lease is the only thing that ties a row to its    *)
(* holder; a holder that stalls, dies or loses the store loses the lease.  *)
(*                                                                         *)
(* A row's columns are one function each: the SQL statements of            *)
(* internal/pgstore (and the locked sections of run/memstore.go) are the   *)
(* atomic steps; everything a goroutine does between two statements may    *)
(* interleave with every other goroutine of every process.                 *)
(***************************************************************************)
EXTENDS Integers

CONSTANTS
  Runs,        \* run ids
  Owners,      \* lease owner names, one per process
  Slots,       \* worker slots: executeLeased goroutines
  Landers,     \* landOwed goroutines
  OwnerOf,     \* the process each slot and lander belongs to
  TimedRuns,   \* runs that carry a timeout
  MaxFaults,   \* bound on stalls, crashes and store errors
  MaxCancels   \* bound on cancel requests per run

NoOwner == "no owner"
NoSlot == "no slot"
NoRun == "no run"
NoStatus == "no status"

Executors == Slots \cup Landers

Terminal == {"succeeded", "failed", "canceled", "interrupted"}
Statuses == Terminal \cup {"pending", "running"}

\* An end the store refused, kept in memory: the claim it was reached under and its status.
NoEnd == [secret |-> 0, fin |-> NoStatus]

ASSUME ConstantsAssumption ==
  /\ OwnerOf \in [Executors -> Owners]
  /\ NoOwner \notin Owners
  /\ NoSlot \notin Slots
  /\ NoRun \notin Runs
  /\ Slots \cap Landers = {}
  /\ TimedRuns \subseteq Runs
  /\ MaxFaults \in Nat
  /\ MaxCancels \in Nat

VARIABLES
  status, claimedBy, claimSecret, cancelRequested, \* columns of the runs table
  stale,       \* the lease is older than leaseTTL by the store's clock
  owed,        \* runs whose outcome the store's trigger marked owed to the chain
  outcome,     \* the outcome entry the chain holds for each run
  pc,          \* where each slot and lander is
  job, held,   \* the run it holds a copy of, and the claim secret on that copy
  fin,         \* the terminal status it is about to record
  ctx,         \* why its run context ended, "live" while it has not
  watching,    \* its lease watcher goroutine is running
  cancels,     \* Dispatcher.cancels of each process: the slot a run's cancel func stops
  owes,        \* writeHealth.owed of each process
  handler,     \* the cancel request being served for a run
  cancelCalls, \* cancel requests served so far
  minted,      \* claim secrets minted so far for a run
  faults,      \* faults left
  started,     \* history: the claim under which the run's start landed, 0 for none
  rewritten    \* history: runs whose end a whole-row save has written over

rowVars == <<status, claimedBy, claimSecret, cancelRequested, stale>>
chainVars == <<owed, outcome>>
exVars == <<pc, job, held, fin, ctx, watching>>
memVars == <<cancels, owes>>
apiVars == <<handler, cancelCalls>>
histVars == <<started, rewritten>>
vars == <<rowVars, chainVars, exVars, memVars, apiVars, minted, faults, histVars>>

Init ==
  /\ status = [r \in Runs |-> "pending"]
  /\ claimedBy = [r \in Runs |-> NoOwner]
  /\ claimSecret = [r \in Runs |-> 0]
  /\ cancelRequested = [r \in Runs |-> FALSE]
  /\ stale = [r \in Runs |-> FALSE]
  /\ owed = {}
  /\ outcome = [r \in Runs |-> NoStatus]
  /\ pc = [e \in Executors |-> "idle"]
  /\ job = [e \in Executors |-> NoRun]
  /\ held = [e \in Executors |-> 0]
  /\ fin = [e \in Executors |-> NoStatus]
  /\ ctx = [e \in Executors |-> "live"]
  /\ watching = [e \in Executors |-> FALSE]
  /\ cancels = [o \in Owners |-> [r \in Runs |-> NoSlot]]
  /\ owes = [o \in Owners |-> [r \in Runs |-> NoEnd]]
  /\ handler = [r \in Runs |-> "idle"]
  /\ cancelCalls = [r \in Runs |-> 0]
  /\ minted = [r \in Runs |-> 0]
  /\ faults = MaxFaults
  /\ started = [r \in Runs |-> 0]
  /\ rewritten = {}

Fault == faults > 0 /\ faults' = faults - 1

-----------------------------------------------------------------------------
(* Store statements, as predicates on a row and the row they leave.        *)

\* The columns a statement leaves on row r, and the outcome its trigger marks owed.
SetRow(r, s, o, k, old) ==
  /\ status' = [status EXCEPT ![r] = s]
  /\ claimedBy' = [claimedBy EXCEPT ![r] = o]
  /\ claimSecret' = [claimSecret EXCEPT ![r] = k]
  /\ stale' = [stale EXCEPT ![r] = old]
  /\ owed' = IF s \in Terminal /\ status[r] \notin Terminal THEN owed \cup {r} ELSE owed

\* Mutant: the status is left out of the condition.
UnclaimedOfAnyStatus(r) == claimedBy[r] = NoOwner

\* Claim and CancelPending take a pending row nobody has claimed.
Unclaimed(r) == status[r] = "pending" /\ claimedBy[r] = NoOwner

\* Heartbeat and StartClaimed take a row only under these conditions.
HoldsLease(o, r) == claimedBy[r] = o /\ status[r] \in {"pending", "running"}

\* Mutant: the start is fenced on the status alone.
CanStartByStatus(o, r, k) == status[r] = "pending" /\ ~cancelRequested[r]

CanStart(o, r, k) ==
  /\ status[r] = "pending"
  /\ ~cancelRequested[r]
  /\ claimedBy[r] = o
  /\ claimSecret[r] = k

\* FinalizeRunning with an owner: fenced on the status and on the owner's name.
CanFinalize(o, r) == status[r] = "running" /\ claimedBy[r] = o

FinalizeRunning(r, s) == SetRow(r, s, claimedBy[r], 0, stale[r])

\* Save: the whole row from a copy, the cancel flag excepted.
SaveCopy(r, s, o, k, old) ==
  /\ SetRow(r, s, o, k, old)
  /\ rewritten' = IF status[r] \in Terminal THEN rewritten \cup {r} ELSE rewritten

-----------------------------------------------------------------------------
(* A worker slot: claimLoop, executeLeased, execute, streamSpec.           *)

Goto(e, l) == pc' = [pc EXCEPT ![e] = l]

\* The goroutine returns.  Its deferred unregister drops the cancel func stored for the run id.
Leave(e) ==
  /\ Goto(e, "idle")
  /\ job' = [job EXCEPT ![e] = NoRun]
  /\ held' = [held EXCEPT ![e] = 0]
  /\ fin' = [fin EXCEPT ![e] = NoStatus]
  /\ ctx' = [ctx EXCEPT ![e] = "live"]
  /\ watching' = [watching EXCEPT ![e] = FALSE]
  /\ cancels' = IF e \in Slots
                  THEN [cancels EXCEPT ![OwnerOf[e]] = [@ EXCEPT ![job[e]] = NoSlot]]
                  ELSE cancels

\* writeHealth.owe: the refused end is held in memory for the lander of this process.
Owe(e) == owes' = [owes EXCEPT ![OwnerOf[e]] =
                     [@ EXCEPT ![job[e]] = [secret |-> held[e], fin |-> fin[e]]]]

\* writeHealth.settle, which only the lander calls, once the store has answered.
Settle(e) == owes' = IF e \in Landers
                       THEN [owes EXCEPT ![OwnerOf[e]] = [@ EXCEPT ![job[e]] = NoEnd]]
                       ELSE owes

\* finalize(status): the copy's terminal status is chosen and recordTerminal begins.
BeginEnd(e, s) == fin' = [fin EXCEPT ![e] = s] /\ Goto(e, "finalizing")

\* claimLoop: Claim takes an unclaimed pending run nobody asked to cancel and mints its secret.
Claim(e, r) ==
  /\ pc[e] = "idle"
  /\ Unclaimed(r) /\ ~cancelRequested[r]
  /\ minted' = [minted EXCEPT ![r] = @ + 1]
  /\ SetRow(r, "pending", OwnerOf[e], minted[r] + 1, FALSE)
  /\ Goto(e, "claimed")
  /\ job' = [job EXCEPT ![e] = r]
  /\ held' = [held EXCEPT ![e] = minted[r] + 1]
  /\ UNCHANGED <<cancelRequested, outcome, fin, ctx, watching, memVars, apiVars, faults, histVars>>

\* executeLeased: one heartbeat, then the run's cancel func is registered under its id.
Enter(e) ==
  /\ pc[e] = "claimed"
  /\ stale' = IF HoldsLease(OwnerOf[e], job[e]) THEN [stale EXCEPT ![job[e]] = FALSE] ELSE stale
  /\ cancels' = [cancels EXCEPT ![OwnerOf[e]] = [@ EXCEPT ![job[e]] = e]]
  /\ Goto(e, "checking")
  /\ UNCHANGED <<status, claimedBy, claimSecret, cancelRequested, chainVars, job, held, fin, ctx,
                 watching, owes, apiVars, minted, faults, histVars>>

\* execute: a seal, an approved spec or the plan gate refuses the run, which still reads pending.
Refuse(e) ==
  /\ pc[e] = "checking"
  /\ BeginEnd(e, "failed")
  /\ UNCHANGED <<rowVars, chainVars, job, held, ctx, watching, memVars, apiVars, minted, faults,
                 histVars>>

\* StartClaimed: the row moves to running, its lease renewed.
StartLands(e) ==
  /\ CanStart(OwnerOf[e], job[e], held[e])
  /\ SetRow(job[e], "running", claimedBy[job[e]], claimSecret[job[e]], FALSE)
  /\ started' = [started EXCEPT ![job[e]] = held[e]]

\* streamSpec: the fenced start lands, and the lease watcher begins.
Start(e) ==
  /\ pc[e] = "checking" /\ ctx[e] = "live"
  /\ StartLands(e)
  /\ watching' = [watching EXCEPT ![e] = TRUE]
  /\ Goto(e, "started")
  /\ UNCHANGED <<cancelRequested, outcome, job, held, fin, ctx, memVars, apiVars, minted, faults,
                 rewritten>>

\* The start is fenced off, or its context has ended: the slot walks away without a write.
StartRefused(e) ==
  /\ pc[e] = "checking"
  /\ CanStart(OwnerOf[e], job[e], held[e]) => ctx[e] # "live"
  /\ Leave(e)
  /\ UNCHANGED <<rowVars, chainVars, owes, apiVars, minted, faults, histVars>>

\* The start is answered with an error, whether it landed or not; nothing executes.
StartFails(e) ==
  /\ pc[e] = "checking" /\ Fault
  /\ StartLands(e) \/ UNCHANGED <<status, claimedBy, claimSecret, stale, owed, started>>
  /\ Leave(e)
  /\ UNCHANGED <<cancelRequested, outcome, owes, apiVars, minted, rewritten>>

\* startRefusal: the attempt's start could not be fixed on the chain, so nothing executes.
StartUnrecorded(e) ==
  /\ pc[e] = "started"
  /\ BeginEnd(e, "failed")
  /\ UNCHANGED <<rowVars, chainVars, job, held, ctx, watching, memVars, apiVars, minted, faults,
                 histVars>>

OpenEvents(e) ==
  /\ pc[e] = "started"
  /\ Goto(e, "rereading")
  /\ UNCHANGED <<rowVars, chainVars, job, held, fin, ctx, watching, memVars, apiVars, minted,
                 faults, histVars>>

\* Mutant: the copy is saved before its status is moved on from the claimed one.
OpenEventsFailsPending(e) ==
  /\ pc[e] = "started"
  /\ SaveCopy(job[e], "pending", OwnerOf[e], held[e], FALSE)
  /\ Goto(e, "rereading")
  /\ UNCHANGED <<cancelRequested, outcome, job, held, fin, ctx, watching, memVars, apiVars, minted,
                 faults, started>>

\* The events file cannot be opened: the warning is written by an unfenced save of the copy, whose
\* lease time is the one the claim stamped.
OpenEventsFails(e) ==
  /\ pc[e] = "started"
  /\ \E old \in BOOLEAN : SaveCopy(job[e], "running", OwnerOf[e], held[e], old)
  /\ Goto(e, "rereading")
  /\ UNCHANGED <<cancelRequested, outcome, job, held, fin, ctx, watching, memVars, apiVars, minted,
                 faults, started>>

\* The row is read again before the tool starts, for a cancel requested since the claim.
Reread(e) ==
  /\ pc[e] = "rereading" /\ ~cancelRequested[job[e]]
  /\ Goto(e, "executing")
  /\ UNCHANGED <<rowVars, chainVars, job, held, fin, ctx, watching, memVars, apiVars, minted, faults,
                 histVars>>

RereadCanceled(e) ==
  /\ pc[e] = "rereading" /\ cancelRequested[job[e]]
  /\ BeginEnd(e, "canceled")
  /\ UNCHANGED <<rowVars, chainVars, job, held, ctx, watching, memVars, apiVars, minted, faults,
                 histVars>>

\* The read fails, as it also may once the context has ended: no tool starts and the run is left
\* to the lease sweep.
RereadFails(e) ==
  /\ pc[e] = "rereading"
  /\ Fault \/ (ctx[e] # "live" /\ UNCHANGED faults)
  /\ Leave(e)
  /\ UNCHANGED <<rowVars, chainVars, owes, apiVars, minted, histVars>>

\* outcome: what the tool's end is recorded as, by why its context ended.
EndsAs(cause) == {"succeeded", "failed"} \cup
  CASE cause = "canceled" -> {"canceled"}
    [] cause = "lost" -> {"interrupted"}
    [] OTHER -> {}

ToolEnds(e) ==
  /\ pc[e] = "executing"
  /\ \E s \in EndsAs(ctx[e]) : BeginEnd(e, s)
  /\ UNCHANGED <<rowVars, chainVars, job, held, ctx, watching, memVars, apiVars, minted, faults,
                 histVars>>

-----------------------------------------------------------------------------
(* recordTerminal and afterTerminal, run by a slot or by a lander.         *)

Finalize(e) ==
  /\ pc[e] = "finalizing"
  /\ CanFinalize(OwnerOf[e], job[e])
  /\ FinalizeRunning(job[e], fin[e])
  /\ Settle(e)
  /\ Goto(e, "committing")
  /\ UNCHANGED <<cancelRequested, outcome, job, held, fin, ctx, watching, cancels, apiVars, minted,
                 faults, histVars>>

FinalizeRefused(e) ==
  /\ pc[e] = "finalizing"
  /\ ~CanFinalize(OwnerOf[e], job[e])
  /\ Goto(e, "reading")
  /\ UNCHANGED <<rowVars, chainVars, job, held, fin, ctx, watching, memVars, apiVars, minted,
                 faults, histVars>>

\* The conditional update is answered with an error, whether it landed or not.
FinalizeFails(e) ==
  /\ pc[e] = "finalizing" /\ Fault
  /\ \/ UNCHANGED <<status, claimedBy, claimSecret, stale, owed>>
     \/ CanFinalize(OwnerOf[e], job[e]) /\ FinalizeRunning(job[e], fin[e])
  /\ Goto(e, "reading")
  /\ UNCHANGED <<cancelRequested, outcome, job, held, fin, ctx, watching, memVars, apiVars, minted,
                 histVars>>

\* The stored row is this writer's to end: not ended, and still under its owner's name.
MayOverwrite(o, r) == status[r] \notin Terminal /\ claimedBy[r] = o

ReadBack(e) ==
  /\ pc[e] = "reading"
  /\ MayOverwrite(OwnerOf[e], job[e])
  /\ Goto(e, "saving")
  /\ UNCHANGED <<rowVars, chainVars, job, held, fin, ctx, watching, memVars, apiVars, minted,
                 faults, histVars>>

\* Mutant: a goroutine whose end was refused still runs afterTerminal.
YieldEndCommits(e) ==
  /\ pc[e] = "reading"
  /\ ~MayOverwrite(OwnerOf[e], job[e])
  /\ Settle(e) /\ Goto(e, "committing")
  /\ UNCHANGED <<rowVars, chainVars, job, held, fin, ctx, watching, cancels, apiVars, minted, faults,
                 histVars>>

\* Another actor ended the run, or it is no longer this owner's: the end is dropped.
YieldEnd(e) ==
  /\ pc[e] = "reading"
  /\ ~MayOverwrite(OwnerOf[e], job[e])
  /\ Settle(e) /\ Leave(e)
  /\ UNCHANGED <<rowVars, chainVars, apiVars, minted, faults, histVars>>

ReadBackFails(e) ==
  /\ pc[e] = "reading" /\ Fault
  /\ Owe(e) /\ Leave(e)
  /\ UNCHANGED <<rowVars, chainVars, apiVars, minted, histVars>>

\* The whole copy is written over whatever the row has become since it was read.
SaveEnd(e) ==
  /\ pc[e] = "saving"
  /\ SaveCopy(job[e], fin[e], OwnerOf[e], held[e], stale[job[e]])
  /\ Settle(e)
  /\ Goto(e, "committing")
  /\ UNCHANGED <<cancelRequested, outcome, job, held, fin, ctx, watching, cancels, apiVars, minted,
                 faults, started>>

SaveEndFails(e) ==
  /\ pc[e] = "saving" /\ Fault
  /\ Owe(e) /\ Leave(e)
  /\ UNCHANGED <<rowVars, chainVars, apiVars, minted, histVars>>

\* CommitOwed: the chain keeps a run to one outcome entry, and the ledger is settled after it.
Record(r, s) == outcome' = IF outcome[r] = NoStatus THEN [outcome EXCEPT ![r] = s] ELSE outcome

CommitOutcome(e) ==
  /\ pc[e] = "committing"
  /\ Record(job[e], fin[e]) /\ owed' = owed \ {job[e]}
  /\ Leave(e)
  /\ UNCHANGED <<rowVars, owes, apiVars, minted, faults, histVars>>

\* The chain refuses the entry, or takes it and the ledger is not settled.
CommitFails(e) ==
  /\ pc[e] = "committing" /\ Fault
  /\ UNCHANGED outcome \/ Record(job[e], fin[e])
  /\ Leave(e)
  /\ UNCHANGED <<rowVars, owed, owes, apiVars, minted, histVars>>

\* landOwedEnds: the owed run's lease is renewed, then its end is recorded again.
LandOwed(l, r) ==
  /\ pc[l] = "idle"
  /\ owes[OwnerOf[l]][r] # NoEnd
  /\ stale' = IF HoldsLease(OwnerOf[l], r) THEN [stale EXCEPT ![r] = FALSE] ELSE stale
  /\ job' = [job EXCEPT ![l] = r]
  /\ held' = [held EXCEPT ![l] = owes[OwnerOf[l]][r].secret]
  /\ BeginEnd(l, owes[OwnerOf[l]][r].fin)
  /\ UNCHANGED <<status, claimedBy, claimSecret, cancelRequested, chainVars, ctx, watching, memVars,
                 apiVars, minted, faults, histVars>>

-----------------------------------------------------------------------------
(* The lease watcher of a started run, one tick at a time.                 *)

\* cancelWithCause: the context of whichever slot is registered for the run ends; the first cause
\* stays.
Stop(o, r, cause) ==
  ctx' = [x \in Executors |-> IF cancels[o][r] = x /\ ctx[x] = "live" THEN cause ELSE ctx[x]]

Watches(e) == watching[e] /\ ctx[e] = "live"

WatchRenews(e) ==
  /\ Watches(e) /\ HoldsLease(OwnerOf[e], job[e]) /\ ~cancelRequested[job[e]]
  /\ stale' = [stale EXCEPT ![job[e]] = FALSE]
  /\ UNCHANGED <<status, claimedBy, claimSecret, cancelRequested, chainVars, exVars, memVars, apiVars,
                 minted, faults, histVars>>

\* The renewal brings back a cancel: the run is stopped and the watch ends.
WatchCancels(e) ==
  /\ Watches(e) /\ HoldsLease(OwnerOf[e], job[e]) /\ cancelRequested[job[e]]
  /\ stale' = [stale EXCEPT ![job[e]] = FALSE]
  /\ Stop(OwnerOf[e], job[e], "canceled") /\ watching' = [watching EXCEPT ![e] = FALSE]
  /\ UNCHANGED <<status, claimedBy, claimSecret, cancelRequested, chainVars, pc, job, held, fin,
                 memVars, apiVars, minted, faults, histVars>>

\* The store says the lease is not this owner's, or has not answered for a whole lease.
WatchLoses(e) ==
  /\ Watches(e)
  /\ (~HoldsLease(OwnerOf[e], job[e]) /\ UNCHANGED faults) \/ Fault
  /\ Stop(OwnerOf[e], job[e], "lost") /\ watching' = [watching EXCEPT ![e] = FALSE]
  /\ UNCHANGED <<rowVars, chainVars, pc, job, held, fin, memVars, apiVars, minted, histVars>>

\* The run's own timeout ends its context.
TimesOut(e) ==
  /\ pc[e] \in {"checking", "started", "rereading", "executing"}
  /\ job[e] \in TimedRuns /\ ctx[e] = "live"
  /\ IF pc[e] = "checking" THEN Fault ELSE UNCHANGED faults
  /\ ctx' = [ctx EXCEPT ![e] = "timeout"]
  /\ UNCHANGED <<rowVars, chainVars, pc, job, held, fin, watching, memVars, apiVars, minted, histVars>>

-----------------------------------------------------------------------------
(* cancelRunHandler: the row is read, then acted on in a later statement.  *)

CancelRead(r) ==
  /\ handler[r] = "idle" /\ cancelCalls[r] < MaxCancels
  /\ status[r] \notin Terminal
  /\ cancelCalls' = [cancelCalls EXCEPT ![r] = @ + 1]
  /\ handler' = [handler EXCEPT ![r] =
                   IF Unclaimed(r) THEN "waiting" ELSE "flag"]
  /\ UNCHANGED <<rowVars, chainVars, exVars, memVars, minted, faults, histVars>>

\* CancelWaiting: CancelPending ends an unclaimed run in place, and its outcome is committed now or
\* left owed.
CancelWaiting(r) ==
  /\ handler[r] = "waiting" /\ Unclaimed(r)
  /\ status' = [status EXCEPT ![r] = "canceled"]
  /\ \/ Record(r, "canceled") /\ UNCHANGED owed
     \/ owed' = owed \cup {r} /\ UNCHANGED outcome
  /\ handler' = [handler EXCEPT ![r] = "idle"]
  /\ UNCHANGED <<claimedBy, claimSecret, cancelRequested, stale, exVars, memVars, cancelCalls, minted,
                 faults, histVars>>

\* A claim won the race: the request falls through to the flag.
CancelWaitingLost(r) ==
  /\ handler[r] = "waiting" /\ ~Unclaimed(r)
  /\ handler' = [handler EXCEPT ![r] = "flag"]
  /\ UNCHANGED <<rowVars, chainVars, exVars, memVars, cancelCalls, minted, faults, histVars>>

\* RequestCancel sets the flag, then the process serving the request stops a run it executes.
CancelFlag(r) ==
  /\ handler[r] = "flag"
  /\ cancelRequested' = [cancelRequested EXCEPT ![r] = TRUE]
  /\ \E o \in Owners : Stop(o, r, "canceled")
  /\ handler' = [handler EXCEPT ![r] = "idle"]
  /\ UNCHANGED <<status, claimedBy, claimSecret, stale, chainVars, pc, job, held, fin, watching,
                 memVars, cancelCalls, minted, faults, histVars>>

-----------------------------------------------------------------------------
(* The janitor.                                                            *)

\* Mutant: only running rows are swept.
StaleRunning(r) == claimedBy[r] # NoOwner /\ stale[r] /\ status[r] = "running"

Stale(r) == claimedBy[r] # NoOwner /\ stale[r]

\* Mutant: a stale running run is put back in the queue.
SweptRequeues(r) == IF cancelRequested[r] THEN "canceled" ELSE "pending"

\* reclaimStale: a stale claim requeues its run, or cancels it when somebody asked; a stale running
\* run is interrupted.
Swept(r) == CASE status[r] = "running" -> "interrupted"
              [] status[r] = "pending" /\ cancelRequested[r] -> "canceled"
              [] OTHER -> status[r]

Sweep ==
  LET hit == {r \in Runs : Stale(r) /\ status[r] \in {"pending", "running"}} IN
  /\ hit # {}
  /\ status' = [r \in Runs |-> IF r \in hit THEN Swept(r) ELSE status[r]]
  /\ claimedBy' = [r \in Runs |-> IF r \in hit THEN NoOwner ELSE claimedBy[r]]
  /\ claimSecret' = [r \in Runs |-> IF r \in hit THEN 0 ELSE claimSecret[r]]
  /\ stale' = [r \in Runs |-> IF r \in hit THEN FALSE ELSE stale[r]]
  /\ owed' = owed \cup {r \in hit : Swept(r) \in Terminal}
  /\ UNCHANGED <<cancelRequested, outcome, exVars, memVars, apiVars, minted, faults, histVars>>

\* settleOverrunning: FinalizeRunning with no owner ends a run past its timeout and its grace.
SettleOverrunning(r) ==
  /\ r \in TimedRuns /\ status[r] = "running"
  /\ FinalizeRunning(r, "failed")
  /\ UNCHANGED <<cancelRequested, outcome, exVars, memVars, apiVars, minted, faults, histVars>>

\* Mutant: the janitor commits only what its own sweep interrupted.
CommitOwedInterrupted(r) ==
  /\ r \in owed /\ status[r] = "interrupted"
  /\ Record(r, status[r]) /\ owed' = owed \ {r}
  /\ UNCHANGED <<rowVars, exVars, memVars, apiVars, minted, faults, histVars>>

\* commitSettled and commitOwed: the row as it reads now is committed, and the ledger settled.
CommitOwed(r) ==
  /\ r \in owed
  /\ Record(r, status[r]) /\ owed' = owed \ {r}
  /\ UNCHANGED <<rowVars, exVars, memVars, apiVars, minted, faults, histVars>>

-----------------------------------------------------------------------------
(* Time and failure.                                                       *)

\* A live goroutine holds the claim on r and would have started or renewed it in time.
Attended(r) == \E e \in Slots : /\ job[e] = r /\ held[e] = claimSecret[r]
                                /\ status[r] = "pending" \/ Watches(e)

\* A lease ages past leaseTTL: its holder is gone or no longer renews it, or it stalled.
Expire(r) ==
  /\ HoldsLease(claimedBy[r], r) /\ claimedBy[r] # NoOwner /\ ~stale[r]
  /\ IF Attended(r) THEN Fault ELSE UNCHANGED faults
  /\ stale' = [stale EXCEPT ![r] = TRUE]
  /\ UNCHANGED <<status, claimedBy, claimSecret, cancelRequested, chainVars, exVars, memVars,
                 apiVars, minted, histVars>>

\* A process dies and starts again: its goroutines, its cancel funcs and its owed ends are gone,
\* and the supervisor stops its tools.
Crash(o) ==
  /\ Fault
  /\ LET dead == {e \in Executors : OwnerOf[e] = o} IN
     /\ pc' = [e \in Executors |-> IF e \in dead THEN "idle" ELSE pc[e]]
     /\ job' = [e \in Executors |-> IF e \in dead THEN NoRun ELSE job[e]]
     /\ held' = [e \in Executors |-> IF e \in dead THEN 0 ELSE held[e]]
     /\ fin' = [e \in Executors |-> IF e \in dead THEN NoStatus ELSE fin[e]]
     /\ ctx' = [e \in Executors |-> IF e \in dead THEN "live" ELSE ctx[e]]
     /\ watching' = [e \in Executors |-> IF e \in dead THEN FALSE ELSE watching[e]]
  /\ cancels' = [cancels EXCEPT ![o] = [r \in Runs |-> NoSlot]]
  /\ owes' = [owes EXCEPT ![o] = [r \in Runs |-> NoEnd]]
  /\ UNCHANGED <<rowVars, chainVars, apiVars, minted, histVars>>

-----------------------------------------------------------------------------
SlotStep(e) ==
  \/ \E r \in Runs : Claim(e, r)
  \/ Enter(e) \/ Refuse(e) \/ Start(e) \/ StartRefused(e) \/ StartFails(e)
  \/ StartUnrecorded(e) \/ OpenEvents(e) \/ OpenEventsFails(e) \/ Reread(e)
  \/ RereadCanceled(e) \/ RereadFails(e) \/ ToolEnds(e) \/ WatchRenews(e) \/ WatchCancels(e)
  \/ WatchLoses(e) \/ TimesOut(e)

EndStep(e) ==
  \/ Finalize(e) \/ FinalizeRefused(e) \/ FinalizeFails(e)
  \/ ReadBack(e) \/ YieldEnd(e) \/ ReadBackFails(e)
  \/ SaveEnd(e) \/ SaveEndFails(e) \/ CommitOutcome(e) \/ CommitFails(e)

RunStep(r) ==
  \/ CancelRead(r) \/ CancelWaiting(r) \/ CancelWaitingLost(r) \/ CancelFlag(r)
  \/ SettleOverrunning(r) \/ CommitOwed(r) \/ Expire(r)

Next ==
  \/ \E e \in Slots : SlotStep(e)
  \/ \E e \in Executors : EndStep(e)
  \/ \E l \in Landers, r \in Runs : LandOwed(l, r)
  \/ \E r \in Runs : RunStep(r)
  \/ Sweep
  \/ \E o \in Owners : Crash(o)

Spec == Init /\ [][Next]_vars

\* Every goroutine that is not dead goes on, the claim loop polls, the janitor and the lander run on
\* their intervals, a lease nobody renews ages, and a request being served is answered.
Fairness ==
  /\ WF_vars(\E e \in Slots, r \in Runs : Claim(e, r))
  /\ \A e \in Slots : WF_vars(Enter(e) \/ Start(e) \/ StartRefused(e) \/ OpenEvents(e)
                              \/ Reread(e) \/ RereadCanceled(e) \/ ToolEnds(e))
  /\ \A e \in Executors : WF_vars(Finalize(e) \/ FinalizeRefused(e) \/ ReadBack(e) \/ YieldEnd(e)
                                  \/ SaveEnd(e) \/ CommitOutcome(e))
  /\ \A e \in Slots : /\ WF_vars(WatchRenews(e) \/ WatchCancels(e))
                       /\ WF_vars(WatchLoses(e) /\ UNCHANGED faults)
  /\ \A l \in Landers, r \in Runs : WF_vars(LandOwed(l, r))
  /\ \A r \in Runs : /\ WF_vars(CancelWaiting(r) \/ CancelWaitingLost(r)) /\ WF_vars(CancelFlag(r))
                     /\ WF_vars(CommitOwed(r)) /\ WF_vars(Expire(r) /\ ~Attended(r))
  /\ WF_vars(Sweep)

FairSpec == Spec /\ Fairness

-----------------------------------------------------------------------------
(* Properties.                                                             *)

\* Every variable keeps its type: the columns hold statuses, owners and minted secrets, and every
\* goroutine is at a known step with a run in hand.
TypeOK ==
  /\ status \in [Runs -> Statuses]
  /\ claimedBy \in [Runs -> Owners \cup {NoOwner}]
  /\ claimSecret \in [Runs -> Nat]
  /\ cancelRequested \in [Runs -> BOOLEAN]
  /\ stale \in [Runs -> BOOLEAN]
  /\ owed \subseteq Runs
  /\ outcome \in [Runs -> Statuses \cup {NoStatus}]
  /\ pc \in [Executors -> {"idle", "claimed", "checking", "started", "rereading", "executing",
                          "finalizing", "reading", "saving", "committing"}]
  /\ job \in [Executors -> Runs \cup {NoRun}]
  /\ held \in [Executors -> Nat]
  /\ fin \in [Executors -> Terminal \cup {NoStatus}]
  /\ ctx \in [Executors -> {"live", "canceled", "lost", "timeout"}]
  /\ watching \in [Executors -> BOOLEAN]
  /\ cancels \in [Owners -> [Runs -> Slots \cup {NoSlot}]]
  /\ owes \in [Owners -> [Runs -> [secret : Nat, fin : Terminal \cup {NoStatus}]]]
  /\ handler \in [Runs -> {"idle", "waiting", "flag"}]
  /\ cancelCalls \in [Runs -> Nat]
  /\ minted \in [Runs -> Nat]
  /\ faults \in Nat
  /\ started \in [Runs -> Nat]
  /\ rewritten \subseteq Runs

\* The slot's start landed and its tool runs or is about to.
Executing(e) == pc[e] \in {"started", "rereading", "executing"}

\* Two slots never execute one run: however claims expire, requeue and are taken again, at most
\* one goroutine is past the fenced start of StartClaimed.
OneExecution ==
  \A e1, e2 \in Slots : Executing(e1) /\ Executing(e2) /\ job[e1] = job[e2] => e1 = e2

\* A running row carries the claim that started it: a stalled holder cannot start a run under a
\* claim the sweep took back, and no sweep or save puts another claim on a running row.
RunsUnderItsClaim ==
  \A r \in Runs : status[r] = "running" => started[r] # 0 /\ claimSecret[r] = started[r]

\* A run is started by one claim only, ever: nothing returns a started run to the queue.
StartedOnce == [][\A r \in Runs : started[r] # 0 => started'[r] = started[r]]_vars

\* A whole-row save by goroutine e of a copy of run r.
WholeRowSave(e, r) == /\ job[e] = r
                      /\ \/ pc[e] = "saving" /\ pc'[e] = "committing"
                         \/ pc[e] = "started" /\ pc'[e] = "rereading"

\* An end stands against every fenced write: the only step that changes a terminal status is one of
\* the two whole-row saves the dispatcher makes of a copy, recordTerminal's fallback and the
\* events-file warning.
OnlyASaveRewritesAnEnd ==
  [][\A r \in Runs : status[r] \in Terminal /\ status'[r] # status[r]
        => \E e \in Executors : WholeRowSave(e, r)]_vars

\* A run whose end no save wrote over has the outcome on the chain that its row shows.
ChainAgrees ==
  \A r \in Runs : r \notin rewritten /\ outcome[r] # NoStatus => outcome[r] = status[r]

\* No end is lost to the chain: an ended run is owed its outcome, whatever died after the terminal
\* write, until the chain holds one.
EndOwedOrRecorded ==
  \A r \in Runs : status[r] \in Terminal => r \in owed \/ outcome[r] # NoStatus

\* Every end reaches the chain: commitOutcome does it, or the janitor after it.
EveryEndRecorded == \A r \in Runs : status[r] \in Terminal ~> outcome[r] # NoStatus

\* A cancel landed on a run no executor holds and no request is ending: nothing claims it and
\* nothing sweeps it.
Stranded(r) == Unclaimed(r) /\ cancelRequested[r] /\ handler[r] = "idle"

\* Every run comes to rest: it ends and stays ended, or it was stranded by a cancel flag.
EveryRunRests == \A r \in Runs : <>[](status[r] \in Terminal \/ Stranded(r))

-----------------------------------------------------------------------------
(* What the documentation or a comment says, refuted by a run each.        *)

\* docs/reliability.md: a requested cancel is acted on by whichever worker holds the run, and a
\* pending run no worker has claimed is canceled in place, so a canceled run ends.
CancelEndsRun == \A r \in Runs : cancelRequested[r] ~> status[r] \in Terminal

\* recordTerminal: the terminal write is fenced on the lease it holds, so it never ends a run that
\* another claim started.
EndsItsOwnExecution ==
  [][\A e \in Executors : pc[e] = "finalizing" /\ pc'[e] = "committing"
        => started[job[e]] = held[e]]_vars

=============================================================================
