----------------------------- MODULE Scheduler -----------------------------
(***************************************************************************)
(* One schedule fired by several servers that share a database.  A tick    *)
(* takes up an occurrence left in flight, then lists the schedule and      *)
(* fires the occurrence that came due: the overlap check, the claim that   *)
(* advances the next fire time and marks the occurrence in flight, the     *)
(* fire itself, its record and the clearing of the mark are separate       *)
(* writes.  Servers stop (Close) and die between any two of them, writes   *)
(* fail or lose their answer, and an operator disables or deletes          *)
(* the schedule meanwhile.                                                 *)
(* Time is counted in occurrences: occurrence o has come due once now >= o.*)
(***************************************************************************)
EXTENDS Integers, FiniteSets

CONSTANTS
  Servers,
  N,          \* the last occurrence of the recurrence (COUNT or UNTIL)
  MaxFaults   \* bound on crashes, stops, store errors and an operator's changes

ASSUME ConstantsAssumption == N \in Nat /\ MaxFaults \in Nat

Occurrences == 1..N
Never == 0    \* no next fire time, no mark, no occurrence in hand
Times == Occurrences \cup {Never}

VARIABLES
  now,         \* the latest occurrence that has come due
  exists, enabled,
  next,        \* next_run_at
  mark, aged,  \* inflight_at, and whether inflight_ms is past the grace
  saved,       \* occurrences whose idempotency key holds a run
  active,      \* occurrences whose run has not finished
  pc, due, tnow, swept,  \* a server's step, the occurrence in hand, its tick's time, whether the sweep took it up
  stopping,    \* Close was called on the server
  faults,
  claimed,     \* history: occurrences claimed for a fire
  recorded,    \* history: occurrences whose fire was recorded as a run, a failure or a skip
  handedBack,  \* history: occurrences a stopping server handed back
  unrecorded   \* history: occurrences skipped with neither record written

rowVars == <<exists, enabled, next, mark, aged>>
runVars == <<saved, active>>
srvVars == <<pc, due, tnow, swept, stopping>>
hist == <<claimed, recorded, handedBack, unrecorded>>
vars == <<now, rowVars, runVars, srvVars, faults, hist>>

Init ==
  /\ now = 0 /\ exists = TRUE /\ enabled = TRUE
  /\ next = (IF N = 0 THEN Never ELSE 1) /\ mark = Never /\ aged = FALSE
  /\ saved = {} /\ active = {}
  /\ pc = [s \in Servers |-> "idle"] /\ due = [s \in Servers |-> Never]
  /\ tnow = [s \in Servers |-> 0] /\ swept = [s \in Servers |-> FALSE]
  /\ stopping = [s \in Servers |-> FALSE]
  /\ faults = MaxFaults
  /\ claimed = {} /\ recorded = {} /\ handedBack = {} /\ unrecorded = {}

Fault == faults > 0 /\ faults' = faults - 1

\* Mutant: the last occurrence of the recurrence is taken for one past its end.
NextFireAfterShort(t) == IF t + 1 < N THEN t + 1 ELSE Never

\* NextFireAfter: the first occurrence after the tick, Never once the recurrence is exhausted.
NextFireAfter(t) == IF t < N THEN t + 1 ELSE Never

\* ByIdempotencyKey: the occurrence's key holds a run.
RunByKey(o) == o \in saved

\* ActiveIn: a run the schedule fired has not finished.
ActiveIn == active # {}

Goto(s, l) == pc' = [pc EXCEPT ![s] = l]

\* The tick is over, and what it held goes with it.
EndTick(s) ==
  /\ Goto(s, "idle") /\ due' = [due EXCEPT ![s] = Never]
  /\ tnow' = [tnow EXCEPT ![s] = 0] /\ swept' = [swept EXCEPT ![s] = FALSE]

\* Work on an occurrence is over: the sweep goes on to the listing, the listing ends the tick.
Done(s) ==
  IF swept[s]
  THEN /\ Goto(s, "list") /\ due' = [due EXCEPT ![s] = Never]
       /\ swept' = [swept EXCEPT ![s] = FALSE] /\ UNCHANGED tnow
  ELSE EndTick(s)

Hold(s) == UNCHANGED <<due, tnow, swept>>

-----------------------------------------------------------------------------
(* sweepInFlight and takeUp.                                               *)

\* Mutant: no tick takes up what is left in flight.
TickWithoutSweep(s) ==
  /\ pc[s] = "idle" /\ ~stopping[s]
  /\ tnow' = [tnow EXCEPT ![s] = now]
  /\ Goto(s, "list")
  /\ UNCHANGED <<now, rowVars, runVars, due, swept, stopping, faults, hist>>

\* TakeInFlight re-marks an aged mark, so no other sweep takes it as well.
Tick(s) ==
  /\ pc[s] = "idle" /\ ~stopping[s]
  /\ tnow' = [tnow EXCEPT ![s] = now]
  /\ IF exists /\ mark # Never /\ aged
     THEN /\ aged' = FALSE /\ Goto(s, "takeUp")
          /\ due' = [due EXCEPT ![s] = mark] /\ swept' = [swept EXCEPT ![s] = TRUE]
     ELSE Goto(s, "list") /\ UNCHANGED <<aged, due, swept>>
  /\ UNCHANGED <<now, exists, enabled, next, mark, runVars, stopping, faults, hist>>

\* The marks cannot be taken, or are taken and the answer is lost.
TickSweepFails(s) ==
  /\ pc[s] = "idle" /\ ~stopping[s] /\ Fault
  /\ tnow' = [tnow EXCEPT ![s] = now] /\ Goto(s, "list")
  /\ aged' \in {aged, FALSE}
  /\ UNCHANGED <<now, exists, enabled, next, mark, runVars, due, swept, stopping, hist>>

\* takeUp reads the schedule; a stop seen first, a schedule that is gone and a failed read leave the mark.
TakeUp(s) ==
  /\ pc[s] = "takeUp"
  /\ \/ exists /\ Goto(s, IF enabled THEN "find" ELSE "findOff") /\ Hold(s) /\ UNCHANGED faults
     \/ ~exists /\ Done(s) /\ UNCHANGED faults
     \/ stopping[s] /\ Done(s) /\ UNCHANGED faults
     \/ Fault /\ Done(s)
  /\ UNCHANGED <<now, rowVars, runVars, stopping, hist>>

\* Mutant: a fire that did create its run is taken as accounted for.
FindRunTakesRunAsRecorded(s) ==
  /\ pc[s] \in {"find", "findOff"}
  /\ IF RunByKey(due[s]) THEN Done(s)
     ELSE Goto(s, IF pc[s] = "findOff" THEN "record" ELSE "fire") /\ Hold(s)
  /\ UNCHANGED <<now, rowVars, runVars, stopping, faults, hist>>

\* The run the occurrence's key holds is recorded; without one a disabled schedule records why.
FindRun(s) ==
  /\ pc[s] \in {"find", "findOff"}
  /\ \/ /\ Goto(s, IF RunByKey(due[s]) \/ pc[s] = "findOff" THEN "record" ELSE "fire")
        /\ Hold(s) /\ UNCHANGED faults
     \/ Fault /\ Done(s)
  /\ UNCHANGED <<now, rowVars, runVars, stopping, hist>>

-----------------------------------------------------------------------------
(* fireDue.                                                                *)

List(s) ==
  /\ pc[s] = "list"
  /\ \/ /\ exists /\ enabled /\ next # Never /\ next <= tnow[s] /\ ~stopping[s]
        /\ due' = [due EXCEPT ![s] = next] /\ Goto(s, "overlap")
        /\ UNCHANGED <<tnow, swept, faults>>
     \/ /\ ~(exists /\ enabled /\ next # Never /\ next <= tnow[s]) \/ stopping[s]
        /\ EndTick(s) /\ UNCHANGED faults
     \/ Fault /\ EndTick(s)
  /\ UNCHANGED <<now, rowVars, runVars, stopping, hist>>

\* overlaps: a read that fails counts as no overlap.
Overlap(s) ==
  /\ pc[s] = "overlap"
  /\ \/ Goto(s, IF ActiveIn THEN "own" ELSE "claim") /\ UNCHANGED faults
     \/ stopping[s] /\ Goto(s, "claim") /\ UNCHANGED faults
     \/ Fault /\ Goto(s, "claim")
  /\ Hold(s) /\ UNCHANGED <<now, rowVars, runVars, stopping, hist>>

\* occurrenceRun: a lookup that fails, or that a stop cuts short, finds none.
OwnRun(s) ==
  /\ pc[s] = "own"
  /\ \/ Goto(s, IF RunByKey(due[s]) THEN "claimRun" ELSE "pass") /\ UNCHANGED faults
     \/ stopping[s] /\ Goto(s, "pass") /\ UNCHANGED faults
     \/ Fault /\ Goto(s, "pass")
  /\ Hold(s) /\ UNCHANGED <<now, rowVars, runVars, stopping, hist>>

\* ClaimDue or ClaimFinal.
ClaimDue(s) == next' = IF exists /\ next = due[s] THEN NextFireAfter(tnow[s]) ELSE next

\* The occurrence is passed over, whether the claim is won, lost or fails.
PassOver(s) ==
  /\ pc[s] = "pass"
  /\ \/ ClaimDue(s) /\ UNCHANGED faults
     \/ Fault /\ UNCHANGED next
  /\ EndTick(s)
  /\ UNCHANGED <<now, exists, enabled, mark, aged, runVars, stopping, hist>>

\* ClaimFire's condition.
ClaimWins(o) == exists /\ next = o /\ mark \in {Never, o}

TakeClaim(s) ==
  /\ next' = NextFireAfter(tnow[s]) /\ mark' = due[s] /\ aged' = FALSE
  /\ claimed' = claimed \cup {due[s]}

\* ClaimFire: to fire the occurrence, or to record the run it already has.
ClaimFire(s) ==
  /\ pc[s] \in {"claim", "claimRun"} /\ ClaimWins(due[s])
  /\ pc[s] = "claim" => ~stopping[s]
  /\ TakeClaim(s)
  /\ Goto(s, IF pc[s] = "claim" THEN "fire" ELSE "record") /\ Hold(s)
  /\ UNCHANGED <<now, exists, enabled, runVars, stopping, faults, recorded, handedBack,
                 unrecorded>>

\* The claim is lost, or a stop is seen before it.
ClaimLost(s) ==
  /\ pc[s] \in {"claim", "claimRun"}
  /\ ~ClaimWins(due[s]) \/ (pc[s] = "claim" /\ stopping[s])
  /\ EndTick(s)
  /\ UNCHANGED <<now, rowVars, runVars, stopping, faults, hist>>

\* The claim's answer is an error, whether it landed or not: nobody fires what it took.
ClaimFails(s) ==
  /\ pc[s] \in {"claim", "claimRun"} /\ Fault
  /\ \/ ClaimWins(due[s]) /\ TakeClaim(s)
     \/ UNCHANGED <<next, mark, aged, claimed>>
  /\ EndTick(s)
  /\ UNCHANGED <<now, exists, enabled, runVars, stopping, recorded, handedBack, unrecorded>>

-----------------------------------------------------------------------------
(* fire, and the part of Submit that makes it idempotent.                  *)

\* The survey refuses the fire, the template does not load, the chain does not take the entry, the
\* submission is refused, the store fails, or the stop cancels it: an error and no run.
FireFails(s) ==
  /\ pc[s] \in {"fire", "save"}
  /\ Goto(s, "failed")
  /\ Hold(s) /\ UNCHANGED <<now, rowVars, runVars, stopping, faults, hist>>

\* The fire's chain entry, idempotentLookup, then the inventory, which may match no hosts.
IdempotentLookup(s) ==
  /\ pc[s] = "fire"
  /\ IF RunByKey(due[s]) THEN Goto(s, "record") ELSE Goto(s, "save") \/ Goto(s, "skip")
  /\ Hold(s) /\ UNCHANGED <<now, rowVars, runVars, stopping, faults, hist>>

\* Save under the unique index: a key that is taken resolves to the run that holds it.
SaveRun(o) ==
  /\ saved' = saved \cup {o}
  /\ active' = IF o \in saved THEN active ELSE active \cup {o}

IdempotentSave(s) ==
  /\ pc[s] = "save"
  /\ SaveRun(due[s])
  /\ Goto(s, "record")
  /\ Hold(s) /\ UNCHANGED <<now, rowVars, stopping, faults, hist>>

\* The run is stored and the answer is lost, to a store error or to the stop.
SaveAnswerLost(s) ==
  /\ pc[s] = "save" /\ (Fault \/ (stopping[s] /\ UNCHANGED faults))
  /\ SaveRun(due[s])
  /\ Goto(s, "failed")
  /\ Hold(s) /\ UNCHANGED <<now, rowVars, stopping, hist>>

\* An error is recorded, unless the server is stopping: fireDue hands back, takeUp leaves the mark.
Failed(s) ==
  /\ pc[s] = "failed"
  /\ IF ~stopping[s] THEN Goto(s, "record") /\ Hold(s)
     ELSE IF swept[s] THEN Done(s)
     ELSE Goto(s, "release") /\ Hold(s)
  /\ UNCHANGED <<now, rowVars, runVars, stopping, faults, hist>>

-----------------------------------------------------------------------------
(* The record of a fire, the skip, and the hand back.                      *)

\* Mutant: a record that fails goes on to clear the mark.
RecordFireSettlesAnyway(s) ==
  /\ pc[s] = "record"
  /\ \/ recorded' = recorded \cup {due[s]} /\ UNCHANGED faults
     \/ Fault /\ UNCHANGED recorded
  /\ Goto(s, "settle") /\ Hold(s)
  /\ UNCHANGED <<now, rowVars, runVars, stopping, claimed, handedBack, unrecorded>>

\* RecordFire: a record that fails keeps the mark.
RecordFire(s) ==
  /\ pc[s] = "record"
  /\ \/ recorded' = recorded \cup {due[s]} /\ Goto(s, "settle") /\ Hold(s) /\ UNCHANGED faults
     \/ Fault /\ recorded' \in {recorded, recorded \cup {due[s]}} /\ Done(s)
  /\ UNCHANGED <<now, rowVars, runVars, stopping, claimed, handedBack, unrecorded>>

\* skip: the chain entry, or failing that the failure on the schedule, or, in an outage, neither;
\* the mark is cleared whichever was written.
Skip(s) ==
  /\ pc[s] = "skip"
  /\ \/ recorded' = recorded \cup {due[s]} /\ UNCHANGED <<unrecorded, faults>>
     \/ Fault /\ unrecorded' = unrecorded \cup {due[s]} /\ UNCHANGED recorded
  /\ Goto(s, "settle") /\ Hold(s)
  /\ UNCHANGED <<now, rowVars, runVars, stopping, claimed, handedBack>>

\* SettleInFlight.
Settle(s) ==
  /\ pc[s] = "settle"
  /\ \/ mark' = (IF mark = due[s] THEN Never ELSE mark) /\ aged' = (aged /\ mark # due[s]) /\ UNCHANGED faults
     \/ Fault /\ UNCHANGED <<mark, aged>>
  /\ Done(s)
  /\ UNCHANGED <<now, exists, enabled, next, runVars, stopping, hist>>

\* Release's condition: the row still holds what the claim wrote.
Releasable(s) == exists /\ next = NextFireAfter(tnow[s])

\* handBack.  The reason recorded says the occurrence did not run, or, handed back, that it will.
Release(s) ==
  /\ pc[s] = "release"
  /\ \/ /\ Releasable(s)
        /\ next' = due[s] /\ handedBack' = handedBack \cup {due[s]}
        /\ Goto(s, "note") /\ UNCHANGED faults
     \/ ~Releasable(s) /\ Goto(s, "record") /\ UNCHANGED <<next, handedBack, faults>>
     \/ Fault /\ Goto(s, "record") /\ UNCHANGED <<next, handedBack>>
     \/ /\ Fault /\ Releasable(s)
        /\ next' = due[s] /\ handedBack' = handedBack \cup {due[s]} /\ Goto(s, "record")
  /\ Hold(s)
  /\ UNCHANGED <<now, exists, enabled, mark, aged, runVars, stopping, claimed, recorded,
                 unrecorded>>

\* The note that the occurrence fires later accounts for nothing yet.
Note(s) ==
  /\ pc[s] = "note"
  /\ \/ Goto(s, "settle") /\ Hold(s) /\ UNCHANGED faults
     \/ Fault /\ Done(s)
  /\ UNCHANGED <<now, rowVars, runVars, stopping, hist>>

-----------------------------------------------------------------------------
(* Servers stop and die, time passes, runs end, operators edit.            *)

\* Close cancels the context; the loop returns at the next tick.
Stop(s) ==
  /\ ~stopping[s] /\ Fault
  /\ stopping' = [stopping EXCEPT ![s] = TRUE]
  /\ UNCHANGED <<now, rowVars, runVars, pc, due, tnow, swept, hist>>

Restart(s) ==
  /\ stopping[s] /\ pc[s] = "idle"
  /\ stopping' = [stopping EXCEPT ![s] = FALSE]
  /\ UNCHANGED <<now, rowVars, runVars, pc, due, tnow, swept, faults, hist>>

\* The process dies and is started again; a new process has nothing in hand.
Crash(s) ==
  /\ pc[s] # "idle" /\ Fault
  /\ EndTick(s) /\ stopping' = [stopping EXCEPT ![s] = FALSE]
  /\ UNCHANGED <<now, rowVars, runVars, hist>>

TimePasses ==
  /\ now < N /\ now' = now + 1
  /\ UNCHANGED <<rowVars, runVars, srvVars, faults, hist>>

\* The mark is older than the grace, whatever its server is doing.
MarkAges ==
  /\ mark # Never /\ ~aged /\ aged' = TRUE
  /\ UNCHANGED <<now, exists, enabled, next, mark, runVars, srvVars, faults, hist>>

RunEnds(o) ==
  /\ o \in active /\ active' = active \ {o}
  /\ UNCHANGED <<now, rowVars, saved, srvVars, faults, hist>>

\* updateScheduleHandler works out the next fire from its clock, refusing an exhausted recurrence,
\* and then replaces the row, the mark apart: by then the fire it writes may have come due, or gone.
Edit ==
  /\ exists /\ Fault
  /\ \E t \in 0..now : next' = NextFireAfter(t) /\ next' # Never
  /\ enabled' \in BOOLEAN
  /\ UNCHANGED <<now, exists, mark, aged, runVars, srvVars, hist>>

Delete ==
  /\ exists /\ Fault
  /\ exists' = FALSE /\ next' = Never /\ mark' = Never /\ aged' = FALSE
  /\ UNCHANGED <<now, enabled, runVars, srvVars, hist>>

ServerStep(s) ==
  \/ Tick(s) \/ TakeUp(s) \/ FindRun(s) \/ List(s) \/ Overlap(s) \/ OwnRun(s) \/ PassOver(s)
  \/ ClaimFire(s) \/ ClaimLost(s) \/ FireFails(s) \/ IdempotentLookup(s)
  \/ IdempotentSave(s) \/ Failed(s) \/ RecordFire(s) \/ Skip(s) \/ Settle(s) \/ Release(s)
  \/ Note(s) \/ Restart(s)

ServerFault(s) ==
  \/ TickSweepFails(s) \/ ClaimFails(s) \/ SaveAnswerLost(s) \/ Stop(s) \/ Crash(s)

Next ==
  \/ \E s \in Servers : ServerStep(s) \/ ServerFault(s)
  \/ TimePasses \/ MarkAges \/ (\E o \in Occurrences : RunEnds(o))
  \/ Edit \/ Delete

\* Every server keeps ticking and finishes what it began, marks age.
\* Nothing makes time pass, a run end, an operator act or a fault happen.
Fairness ==
  /\ \A s \in Servers : WF_vars(ServerStep(s))
  /\ WF_vars(MarkAges)

Spec == Init /\ [][Next]_vars
FairSpec == Spec /\ Fairness

-----------------------------------------------------------------------------
(* Properties.                                                             *)

Steps == {"idle", "takeUp", "find", "findOff", "list", "overlap", "own", "pass", "claim", "claimRun",
          "fire", "save", "failed", "record", "skip", "settle", "release", "note"}

\* A server past the listing has an occurrence in hand.
HandOK ==
  /\ pc \in [Servers -> Steps] /\ due \in [Servers -> Times] /\ tnow \in [Servers -> 0..N]
  /\ swept \in [Servers -> BOOLEAN]
  /\ \A s \in Servers : due[s] = Never <=> pc[s] \in {"idle", "list"}

\* The types of the variables.
TypeOK ==
  /\ now \in 0..N /\ exists \in BOOLEAN /\ enabled \in BOOLEAN
  /\ next \in Times /\ mark \in Times /\ aged \in BOOLEAN
  /\ saved \in SUBSET Occurrences /\ active \in SUBSET Occurrences
  /\ HandOK /\ stopping \in [Servers -> BOOLEAN] /\ faults \in Nat
  /\ claimed \in SUBSET Occurrences /\ recorded \in SUBSET Occurrences
  /\ handedBack \in SUBSET Occurrences /\ unrecorded \in SUBSET Occurrences

\* The schedule keeps to its recurrence, however stale the tick, the listing or the edit that moves it:
\* a run, a fire or a mark is of an occurrence that has come due and was claimed, and the next fire is
\* one that came due or the very next one; the schedule is exhausted only once its last occurrence
\* came due (scheduler.go fireDue, NextFireAfter of the tick's time, handBack's Release).
KeepsToRecurrence ==
  /\ saved \cup recorded \cup ({mark} \ {Never}) \subseteq claimed
  /\ \A o \in claimed : o <= now
  /\ exists => IF next = Never THEN now = N ELSE next <= now + 1

Accounted(o) == o \in recorded \/ ~exists

\* An occurrence claimed for a fire is recorded, or its mark is on the row for the sweep: no crash,
\* stop, lost answer or other server's claim in between loses it (scheduler.go fireDue, "the mark
\* stays until the fire is accounted for").  The two ways the code gives a mark up unrecorded are
\* left out by name: an occurrence that was handed back, and a skip whose records both failed.
ClaimedIsKept == \A o \in claimed : Accounted(o) \/ mark = o \/ o \in handedBack \cup unrecorded

\* As fireDue's comment has it, without leaving out the occurrences that were handed back: one is
\* recorded, marked, the next to fire, or in the hands of the server that claimed it.
HandedBackIsKept ==
  \A o \in claimed :
    \/ Accounted(o) \/ mark = o \/ next = o \/ o \in unrecorded
    \/ \E s \in Servers : due[s] = o

\* The schedule starts no second copy of work its own previous run has not finished (fireDue).
NoSecondCopy == Cardinality(active) <= 1

\* A claimed occurrence is recorded in the end, by its server or by a sweep (inflight.go takeUp).
ClaimedIsRecorded ==
  \A o \in Occurrences : o \in claimed ~> (Accounted(o) \/ o \in handedBack \cup unrecorded)

\* An occurrence that came due is taken, by whichever server, unless the schedule is disabled or
\* edited: no mark left in flight holds the schedule up for good (ClaimFire waits for the mark, and
\* the sweep clears it).
DueIsTaken ==
  \A o \in Occurrences : (next = o /\ enabled /\ o <= now) ~> (next # o \/ ~enabled)

\* A mark is replaced only once it is gone: one occurrence in flight at a time, so the claim of the
\* next cannot push out an occurrence whose fire is not yet recorded (schedule_inflight.go ClaimFire).
MarkNotReplaced == [][mark # Never => mark' \in {mark, Never}]_vars
=============================================================================
