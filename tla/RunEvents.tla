----------------------------- MODULE RunEvents -----------------------------
(***************************************************************************)
(* How the hold, the start and the end of one top-level run come to be     *)
(* recorded for its notification targets.  The statement that moves the    *)
(* run owes the event to a ledger (the triggers on runs).  The process     *)
(* that moved it records the event in the outbox before it moves on, and   *)
(* settles the debt; a sweep in every process records what is still owed,  *)
(* from the run as it reads it.  Processes die between any two of these    *)
(* steps, and writes fail.  Outbox.tla delivers what is recorded here.     *)
(***************************************************************************)
EXTENDS Integers, Sequences

CONSTANTS
  Movers,      \* what moves the run: its executor, a submit, a cancel, the sweep of stale leases
  Sweepers,    \* processes that sweep the ledgers
  Heard,       \* the events some attached target hears
  MaxFaults    \* bound on deaths and failed statements

Events == {"hold", "start", "end"}
None == "none"

ASSUME ConstantsAssumption == Heard \subseteq Events /\ MaxFaults \in Nat

VARIABLES
  status,   \* the run: new, held, pending, running or ended
  owed,     \* events the ledgers hold owed
  ann,      \* ann[m]: the event m announces, and whether it records or settles it
  sweep,    \* sweep[w]: the owed event w handles, and how far it is
  log,      \* notification_events in sequence: the event, and whether it is to be sent
  faults

vars == <<status, owed, ann, sweep, log, faults>>

Idle == [at |-> "idle", event |-> None]

Init ==
  /\ status = "new" /\ owed = {} /\ log = <<>> /\ faults = MaxFaults
  /\ ann = [m \in Movers |-> Idle] /\ sweep = [w \in Sweepers |-> Idle]

Fault == faults > 0 /\ faults' = faults - 1

Recorded == {log[i].event : i \in DOMAIN log}

-----------------------------------------------------------------------------
(* The run moves, and its triggers owe the event.                          *)

\* One statement moves the run and owes the event; the mover then announces it, unless it dies first
\* or is a path that announces nothing.  A mover still announcing has not moved on.
MoveTo(m, st, e) ==
  /\ ann[m].at = "idle" /\ status' = st /\ owed' = owed \cup {e}
  /\ \/ ann' = [ann EXCEPT ![m] = [at |-> "record", event |-> e]] /\ UNCHANGED faults
     \/ Fault /\ UNCHANGED ann
  /\ UNCHANGED <<sweep, log>>

Hold(m) == status = "new" /\ MoveTo(m, "held", "hold")

\* A submission that needs no decision, a decision that lets the run go, and the requeue of a run
\* whose lease lapsed owe nothing.
Queue ==
  /\ status = "new" \/ status = "held" \/ status = "running"
  /\ status' = "pending"
  /\ UNCHANGED <<owed, ann, sweep, log, faults>>

Start(m) == status = "pending" /\ MoveTo(m, "running", "start")

End(m) == status \in {"held", "pending", "running"} /\ MoveTo(m, "ended", "end")

-----------------------------------------------------------------------------
(* Record and RecordUnsent.                                                *)

\* Mutant: the transaction does not take the run's lock.
LockFreeAlways == TRUE

\* The run's advisory lock is held from a transaction's check to its commit or rollback.
LockFree ==
  /\ \A m \in Movers : ann[m].at # "insert"
  /\ \A w \in Sweepers : sweep[w].at \notin {"insert", "insertUnsent"}

\* The lock, then the look for the same moment among the run's events, from whatever copy of the run
\* it was recorded.  An event no target hears opens no transaction.
Unrecorded(e) == e \in Heard /\ LockFree /\ e \notin Recorded
NothingToRecord(e) == e \notin Heard \/ (LockFree /\ e \in Recorded)

\* The row under the next sequence number, and the commit.
Insert(e, sent) == log' = Append(log, [event |-> e, sent |-> sent])

-----------------------------------------------------------------------------
(* announceOwed and announceEnd.                                           *)

\* Mutant: the debt is settled whether or not the record was written.
AnnounceInsertSettlesAnyway(m) ==
  /\ ann[m].at = "insert" /\ ann' = [ann EXCEPT ![m].at = "settle"]
  /\ \/ Insert(ann[m].event, TRUE) /\ UNCHANGED faults
     \/ Fault /\ UNCHANGED log
  /\ UNCHANGED <<status, owed, sweep>>

\* An event that cannot be recorded in the time for retries stays owed.
Announce(m) ==
  /\ ann[m].at = "record"
  /\ \/ Unrecorded(ann[m].event) /\ ann' = [ann EXCEPT ![m].at = "insert"] /\ UNCHANGED faults
     \/ NothingToRecord(ann[m].event) /\ ann' = [ann EXCEPT ![m].at = "settle"] /\ UNCHANGED faults
     \/ Fault /\ ann' = [ann EXCEPT ![m] = Idle]
  /\ UNCHANGED <<status, owed, sweep, log>>

\* The commit fails, or lands with its answer lost: the whole record is tried again, or given up.
AnnounceInsert(m) ==
  /\ ann[m].at = "insert"
  /\ \/ /\ Insert(ann[m].event, TRUE)
        /\ ann' = [ann EXCEPT ![m].at = "settle"] /\ UNCHANGED faults
     \/ /\ Fault /\ (Insert(ann[m].event, TRUE) \/ UNCHANGED log)
        /\ ann' = [ann EXCEPT ![m].at = "record"] \/ ann' = [ann EXCEPT ![m] = Idle]
  /\ UNCHANGED <<status, owed, sweep>>

\* settleOwed and settleEnd: one that fails leaves the event owed.
AnnounceSettle(m) ==
  /\ ann[m].at = "settle" /\ ann' = [ann EXCEPT ![m] = Idle]
  /\ \/ owed' = owed \ {ann[m].event} /\ UNCHANGED faults
     \/ Fault /\ UNCHANGED owed
  /\ UNCHANGED <<status, sweep, log>>

-----------------------------------------------------------------------------
(* sweepOwedEvents and sweepOwedEnds.                                      *)

\* OwedEvents and OwedEnds list what is owed past the grace, its announcer slow or gone.
SweepList(w, e) ==
  /\ sweep[w].at = "idle" /\ e \in owed
  /\ sweep' = [sweep EXCEPT ![w] = [at |-> "read", event |-> e]]
  /\ UNCHANGED <<status, owed, ann, log, faults>>

StillAt(e) ==
  \/ e = "hold" /\ status = "held"
  \/ e = "start" /\ status = "running"
  \/ e = "end" /\ status = "ended"

\* Mutant: an owed event of a run that never started is settled without a record.
SweepGetStartedOnly(w) ==
  /\ sweep[w].at = "read"
  /\ \/ /\ sweep' = [sweep EXCEPT ![w].at = IF "start" \notin Recorded THEN "settle"
                                            ELSE IF StillAt(sweep[w].event) THEN "record" ELSE "unsent"]
        /\ UNCHANGED faults
     \/ Fault /\ sweep' = [sweep EXCEPT ![w] = Idle]
  /\ UNCHANGED <<status, owed, ann, log>>

\* The sweep reads the run: a start or a hold it has moved past will be recorded unsent.
SweepGet(w) ==
  /\ sweep[w].at = "read"
  /\ \/ /\ sweep' = [sweep EXCEPT ![w].at = IF StillAt(sweep[w].event) THEN "record" ELSE "unsent"]
        /\ UNCHANGED faults
     \/ Fault /\ sweep' = [sweep EXCEPT ![w] = Idle]
  /\ UNCHANGED <<status, owed, ann, log>>

SweepRecord(w) ==
  /\ sweep[w].at \in {"record", "unsent"}
  /\ \/ /\ Unrecorded(sweep[w].event)
        /\ sweep' = [sweep EXCEPT ![w].at = IF @ = "record" THEN "insert" ELSE "insertUnsent"]
        /\ UNCHANGED faults
     \/ /\ NothingToRecord(sweep[w].event)
        /\ sweep' = [sweep EXCEPT ![w].at = "settle"] /\ UNCHANGED faults
     \/ Fault /\ sweep' = [sweep EXCEPT ![w] = Idle]
  /\ UNCHANGED <<status, owed, ann, log>>

SweepInsert(w) ==
  /\ sweep[w].at \in {"insert", "insertUnsent"}
  /\ \/ /\ Insert(sweep[w].event, sweep[w].at = "insert")
        /\ sweep' = [sweep EXCEPT ![w].at = "settle"] /\ UNCHANGED faults
     \/ /\ Fault /\ (Insert(sweep[w].event, sweep[w].at = "insert") \/ UNCHANGED log)
        /\ \/ sweep' = [sweep EXCEPT ![w].at = IF @ = "insert" THEN "record" ELSE "unsent"]
           \/ sweep' = [sweep EXCEPT ![w] = Idle]
  /\ UNCHANGED <<status, owed, ann>>

\* Mutant: a sweep that recorded an event leaves it owed.
SweepSettleNever(w) ==
  /\ sweep[w].at = "settle" /\ sweep' = [sweep EXCEPT ![w] = Idle]
  /\ UNCHANGED <<status, owed, ann, log, faults>>

SweepSettle(w) ==
  /\ sweep[w].at = "settle" /\ sweep' = [sweep EXCEPT ![w] = Idle]
  /\ \/ owed' = owed \ {sweep[w].event} /\ UNCHANGED faults
     \/ Fault /\ UNCHANGED owed
  /\ UNCHANGED <<status, ann, log>>

-----------------------------------------------------------------------------

\* A mover or a sweeper dies with what it had in hand.
MoverDies(m) ==
  /\ ann[m].at # "idle" /\ Fault /\ ann' = [ann EXCEPT ![m] = Idle]
  /\ UNCHANGED <<status, owed, sweep, log>>

SweeperDies(w) ==
  /\ sweep[w].at # "idle" /\ Fault /\ sweep' = [sweep EXCEPT ![w] = Idle]
  /\ UNCHANGED <<status, owed, ann, log>>

AnnounceStep(m) == Announce(m) \/ AnnounceInsert(m) \/ AnnounceSettle(m)
SweepHandles(w) == SweepGet(w) \/ SweepRecord(w) \/ SweepInsert(w) \/ SweepSettle(w)
SweepStep(w) == (\E e \in Events : SweepList(w, e)) \/ SweepHandles(w)

Next ==
  \/ Queue
  \/ \E m \in Movers : Hold(m) \/ Start(m) \/ End(m) \/ AnnounceStep(m) \/ MoverDies(m)
  \/ \E w \in Sweepers : SweepStep(w) \/ SweeperDies(w)

\* Announcers and sweeps keep going, a sweep comes to every event that stays owed (it lists the
\* oldest first); the run itself may stop anywhere, or be requeued for ever.
Fairness ==
  /\ \A m \in Movers : WF_vars(AnnounceStep(m))
  /\ \A w \in Sweepers : /\ WF_vars(SweepHandles(w))
                         /\ \A e \in Events : SF_vars(SweepList(w, e))

Spec == Init /\ [][Next]_vars
FairSpec == Spec /\ Fairness

-----------------------------------------------------------------------------
(* Properties.                                                             *)

\* The types of the variables; an announcement or a sweep under way has an event in hand.
TypeOK ==
  /\ status \in {"new", "held", "pending", "running", "ended"} /\ owed \in SUBSET Events
  /\ ann \in [Movers -> {Idle} \cup [at : {"record", "insert", "settle"}, event : Events]]
  /\ sweep \in [Sweepers -> {Idle} \cup [at : {"read", "record", "unsent", "insert", "insertUnsent", "settle"},
                                        event : Events]]
  /\ log \in Seq([event : Events, sent : BOOLEAN]) /\ faults \in Nat

\* The end of a run that ended is recorded for its targets or still owed, whoever ended the run and
\* wherever that process stopped (run_ends.go: "never lost"); so with the start of a run that runs
\* and the hold of one that is held.
OwedOrRecorded == \A e \in Events \cap Heard : StillAt(e) => e \in owed \cup Recorded

\* A run has one hold, one start and one end among its events, although the process that moved it and
\* several sweeps record them at once, each from a copy of its own, retry what may have landed, and a
\* requeued run starts again: the look and the insert are two statements, and only the run's lock keeps
\* another's insert from between them (delivery.go Once, notification_delivery.go Record).
RecordedOnce == \A i, j \in DOMAIN log : log[i].event = log[j].event => i = j

\* Every end comes to be recorded, and no event is owed for ever: its debt is settled, or settled
\* before a requeued run owes its start anew.
EndIsRecorded == (status = "ended" /\ "end" \in Heard) ~> "end" \in Recorded
NothingStaysOwed == \A e \in Events : e \in owed ~> e \notin owed

\* As sweepOwedEvents and RecordUnsent have it: nobody is told of a start once the end is recorded.
StartNotAfterEnd ==
  \A i, j \in DOMAIN log : i < j /\ log[i].event = "end" /\ log[j].event = "start" => ~log[j].sent
=============================================================================
