-------------------------- MODULE RunEventsProofs --------------------------
(***************************************************************************)
(* Proofs about RunEvents.tla.  A debt is settled only by who has seen the *)
(* event recorded (or has no target that hears it), and records are never  *)
(* taken back: what leaves the ledger is in the outbox for good.  Whoever   *)
(* is about to insert an event holds the run's lock, alone, since it found *)
(* the event missing: nobody inserts it in between.                        *)
(***************************************************************************)
EXTENDS RunEvents, TLAPS

Row == [event : Events, sent : BOOLEAN]

\* Whoever is about to settle a heard event has it recorded.
SettlesRecorded ==
  /\ \A m \in Movers : ann[m].at = "settle" /\ ann[m].event \in Heard => ann[m].event \in Recorded
  /\ \A w \in Sweepers :
       sweep[w].at = "settle" /\ sweep[w].event \in Heard => sweep[w].event \in Recorded

\* Who holds the run's lock to insert.
MoverInserts(m) == ann[m].at = "insert"
SweeperInserts(w) == sweep[w].at \in {"insert", "insertUnsent"}

\* One at a time, and what it inserts is not there.
LockInv ==
  /\ \A m \in Movers : MoverInserts(m) => ann[m].event \notin Recorded
  /\ \A w \in Sweepers : SweeperInserts(w) => sweep[w].event \notin Recorded
  /\ \A m, n \in Movers : MoverInserts(m) /\ MoverInserts(n) => m = n
  /\ \A v, w \in Sweepers : SweeperInserts(v) /\ SweeperInserts(w) => v = w
  /\ \A m \in Movers, w \in Sweepers : ~(MoverInserts(m) /\ SweeperInserts(w))

\* The inductive invariant.
IInv == TypeOK /\ OwedOrRecorded /\ RecordedOnce /\ SettlesRecorded /\ LockInv

MoverSteps == {"record", "insert", "settle"}
SweeperSteps == {"read", "record", "unsent", "insert", "insertUnsent", "settle"}

LEMMA MoverAtWork ==
  ASSUME TypeOK, NEW m \in Movers, ann[m].at # "idle"
  PROVE  ann[m] \in [at : MoverSteps, event : Events]
  BY DEF TypeOK, Idle, MoverSteps

LEMMA SweeperAtWork ==
  ASSUME TypeOK, NEW w \in Sweepers, sweep[w].at # "idle"
  PROVE  sweep[w] \in [at : SweeperSteps, event : Events]
  BY DEF TypeOK, Idle, SweeperSteps

\* The record of an event that was not there doubles none, and none is taken away.
LEMMA Inserting ==
  ASSUME TypeOK, RecordedOnce, NEW e \in Events, NEW sent \in BOOLEAN, e \notin Recorded, Insert(e, sent)
  PROVE  log' \in Seq(Row) /\ RecordedOnce' /\ Recorded \subseteq Recorded' /\ e \in Recorded'
<1> DEFINE x == [event |-> e, sent |-> sent]
<1>1. log' = Append(log, x) /\ x \in Row /\ log \in Seq(Row)
  BY DEF Insert, Row, TypeOK
<1>2. x.event = e
  OBVIOUS
<1> HIDE DEF x
<1>3. /\ log' \in Seq(Row) /\ DOMAIN log' = 1..(Len(log) + 1) /\ DOMAIN log = 1..Len(log)
      /\ Len(log) \in Nat /\ log'[Len(log) + 1] = x /\ \A i \in 1..Len(log) : log'[i] = log[i]
  BY <1>1
<1>4. RecordedOnce'
  BY <1>2, <1>3 DEF RecordedOnce, Recorded
<1>5. Recorded \subseteq Recorded'
  BY <1>3 DEF Recorded
<1>6. e \in Recorded'
  BY <1>2, <1>3 DEF Recorded
<1> QED BY <1>3, <1>4, <1>5, <1>6

\* A step that records nothing and takes no lock keeps the lock's invariant.
LEMMA LockKept ==
  ASSUME LockInv, UNCHANGED log,
         \A m \in Movers : ann'[m] = ann[m] \/ ann'[m].at # "insert",
         \A w \in Sweepers : sweep'[w] = sweep[w] \/ sweep'[w].at \notin {"insert", "insertUnsent"}
  PROVE  LockInv'
<1>1. Recorded' = Recorded
  BY DEF Recorded
<1>2. /\ \A m \in Movers : MoverInserts(m)' => MoverInserts(m) /\ ann'[m] = ann[m]
      /\ \A w \in Sweepers : SweeperInserts(w)' => SweeperInserts(w) /\ sweep'[w] = sweep[w]
  BY DEF MoverInserts, SweeperInserts
<1> QED BY <1>1, <1>2 DEF LockInv

\* Who gives the lock back leaves nobody with it, whatever was recorded.
LEMMA LockFreed ==
  ASSUME \A m \in Movers : ~MoverInserts(m)', \A w \in Sweepers : ~SweeperInserts(w)'
  PROVE  LockInv'
  BY DEF LockInv

LEMMA Initial == Init => IInv
  BY ConstantsAssumption
  DEF Init, IInv, TypeOK, OwedOrRecorded, RecordedOnce, SettlesRecorded, StillAt, Recorded, Idle, Events,
      LockInv, MoverInserts, SweeperInserts

\* A move owes what the run is moved to.
LEMMA Moving ==
  ASSUME IInv, NEW m \in Movers, Hold(m) \/ Start(m) \/ End(m)
  PROVE  IInv'
<1> USE ConstantsAssumption DEF IInv
<1>1. PICK st \in {"held", "running", "ended"}, e \in Events :
        /\ MoveTo(m, st, e)
        /\ st = "held" => e = "hold"
        /\ st = "running" => e = "start"
        /\ st = "ended" => e = "end"
  BY DEF Hold, Start, End, Events
<1>2. TypeOK'
  BY <1>1 DEF TypeOK, MoveTo, Fault
<1>3. Recorded' = Recorded /\ RecordedOnce'
  BY <1>1 DEF MoveTo, Recorded, RecordedOnce
<1>4. OwedOrRecorded'
  BY <1>1, <1>3 DEF OwedOrRecorded, MoveTo, StillAt
<1>5. SettlesRecorded'
  BY <1>1, <1>3 DEF SettlesRecorded, MoveTo, TypeOK
<1>6. LockInv'
  BY <1>1, LockKept DEF MoveTo, TypeOK
<1> QED BY <1>2, <1>3, <1>4, <1>5, <1>6

\* An announcement finds its event, or takes the lock.
LEMMA Announcing == ASSUME IInv, NEW m \in Movers, Announce(m) PROVE IInv'
<1> USE ConstantsAssumption DEF IInv
<1>0. ann[m] \in [at : MoverSteps, event : Events]
  BY MoverAtWork DEF Announce
<1>1. Recorded' = Recorded /\ RecordedOnce' /\ OwedOrRecorded'
  BY DEF Announce, Recorded, RecordedOnce, OwedOrRecorded, StillAt
<1>2. TypeOK'
  BY <1>0 DEF TypeOK, Announce, Fault, MoverSteps
<1>3. SettlesRecorded'
  BY <1>0, <1>1 DEF SettlesRecorded, Announce, NothingToRecord, TypeOK, Idle
<1>4. LockInv'
  <2>1. CASE Unrecorded(ann[m].event) /\ ann' = [ann EXCEPT ![m].at = "insert"]
    <3>1. /\ \A n \in Movers : MoverInserts(n)' => n = m
          /\ \A w \in Sweepers : ~SweeperInserts(w)'
          /\ ann'[m].event \notin Recorded
      BY <1>0, <2>1 DEF Unrecorded, LockFree, MoverInserts, SweeperInserts, Announce, TypeOK
    <3> QED BY <1>1, <3>1 DEF LockInv
  <2>2. CASE ann' = [ann EXCEPT ![m].at = "settle"] \/ ann' = [ann EXCEPT ![m] = Idle]
    BY <1>0, <2>2, LockKept DEF Announce, TypeOK, Idle
  <2> QED BY <2>1, <2>2 DEF Announce
<1> QED BY <1>1, <1>2, <1>3, <1>4

\* It inserts what is not there, and gives the lock back.
LEMMA AnnounceInserting == ASSUME IInv, NEW m \in Movers, AnnounceInsert(m) PROVE IInv'
<1> USE ConstantsAssumption DEF IInv
<1>0. ann[m] \in [at : MoverSteps, event : Events] /\ MoverInserts(m)
  BY MoverAtWork DEF AnnounceInsert, MoverInserts
<1>1. /\ log' \in Seq(Row) /\ RecordedOnce' /\ Recorded \subseteq Recorded'
      /\ Insert(ann[m].event, TRUE) => ann[m].event \in Recorded'
  <2>1. CASE Insert(ann[m].event, TRUE)
    BY <1>0, <2>1, Inserting DEF LockInv
  <2>2. CASE UNCHANGED log /\ ~Insert(ann[m].event, TRUE)
    BY <2>2 DEF TypeOK, Row, Recorded, RecordedOnce
  <2> QED BY <2>1, <2>2 DEF AnnounceInsert
<1>2. ann' \in [Movers -> {Idle} \cup [at : MoverSteps, event : Events]] /\ ann'[m].at # "insert"
      /\ (\A n \in Movers \ {m} : ann'[n] = ann[n]) /\ UNCHANGED <<status, owed, sweep>>
  <2>1. CASE ann' = [ann EXCEPT ![m].at = "settle"]
    BY <1>0, <2>1 DEF AnnounceInsert, TypeOK, MoverSteps
  <2>2. CASE ann' = [ann EXCEPT ![m].at = "record"]
    BY <1>0, <2>2 DEF AnnounceInsert, TypeOK, MoverSteps
  <2>3. CASE ann' = [ann EXCEPT ![m] = Idle]
    BY <2>3 DEF AnnounceInsert, TypeOK, MoverSteps, Idle
  <2> QED BY <2>1, <2>2, <2>3 DEF AnnounceInsert
<1>3. TypeOK'
  <2>1. faults' = faults \/ Fault
    BY DEF AnnounceInsert
  <2>2. faults' \in Nat
    BY <2>1 DEF Fault, TypeOK
  <2> QED BY <1>1, <1>2, <2>2 DEF TypeOK, Row, MoverSteps
<1>4. OwedOrRecorded'
  BY <1>1, <1>2 DEF OwedOrRecorded, StillAt
<1>5. SettlesRecorded'
  <2>1. ann'[m].at = "settle" => ann'[m].event \in Recorded'
    <3>1. CASE Insert(ann[m].event, TRUE) /\ ann' = [ann EXCEPT ![m].at = "settle"]
      BY <1>0, <1>1, <3>1 DEF TypeOK
    <3>2. CASE ann' = [ann EXCEPT ![m].at = "record"] \/ ann' = [ann EXCEPT ![m] = Idle]
      BY <1>0, <3>2 DEF TypeOK, Idle
    <3> QED BY <3>1, <3>2 DEF AnnounceInsert
  <2> QED BY <1>1, <1>2, <2>1 DEF SettlesRecorded
<1>6. LockInv'
  <2>1. \A n \in Movers : ~MoverInserts(n)'
    BY <1>0, <1>2 DEF LockInv, MoverInserts
  <2>2. \A w \in Sweepers : ~SweeperInserts(w)'
    BY <1>0, <1>2 DEF LockInv, SweeperInserts
  <2> QED BY <2>1, <2>2, LockFreed
<1> QED BY <1>1, <1>3, <1>4, <1>5, <1>6

\* So with a sweep.
LEMMA SweepRecording == ASSUME IInv, NEW w \in Sweepers, SweepRecord(w) PROVE IInv'
<1> USE ConstantsAssumption DEF IInv
<1>0. sweep[w] \in [at : SweeperSteps, event : Events]
  BY SweeperAtWork DEF SweepRecord
<1>1. Recorded' = Recorded /\ RecordedOnce' /\ OwedOrRecorded'
  BY DEF SweepRecord, Recorded, RecordedOnce, OwedOrRecorded, StillAt
<1>2. TypeOK'
  BY <1>0 DEF TypeOK, SweepRecord, Fault, SweeperSteps
<1>3. SettlesRecorded'
  BY <1>0, <1>1 DEF SettlesRecorded, SweepRecord, NothingToRecord, TypeOK, Idle
<1>4. LockInv'
  <2>1. CASE Unrecorded(sweep[w].event)
             /\ sweep' = [sweep EXCEPT ![w].at = IF @ = "record" THEN "insert" ELSE "insertUnsent"]
    <3>1. /\ \A v \in Sweepers : SweeperInserts(v)' => v = w
          /\ \A m \in Movers : ~MoverInserts(m)'
          /\ sweep'[w].event \notin Recorded
      BY <1>0, <2>1 DEF Unrecorded, LockFree, MoverInserts, SweeperInserts, SweepRecord, TypeOK
    <3> QED BY <1>1, <3>1 DEF LockInv
  <2>2. CASE sweep' = [sweep EXCEPT ![w].at = "settle"] \/ sweep' = [sweep EXCEPT ![w] = Idle]
    BY <1>0, <2>2, LockKept DEF SweepRecord, TypeOK, Idle
  <2> QED BY <2>1, <2>2 DEF SweepRecord
<1> QED BY <1>1, <1>2, <1>3, <1>4

LEMMA SweepInserting == ASSUME IInv, NEW w \in Sweepers, SweepInsert(w) PROVE IInv'
<1> USE ConstantsAssumption DEF IInv
<1>0. sweep[w] \in [at : SweeperSteps, event : Events] /\ SweeperInserts(w)
  BY SweeperAtWork DEF SweepInsert, SweeperInserts
<1>1. /\ log' \in Seq(Row) /\ RecordedOnce' /\ Recorded \subseteq Recorded'
      /\ sweep'[w].at = "settle" => sweep[w].event \in Recorded'
  <2>0. PICK sent \in BOOLEAN : sent = (sweep[w].at = "insert")
    OBVIOUS
  <2>1. CASE Insert(sweep[w].event, sent)
    BY <1>0, <2>1, Inserting DEF LockInv
  <2>2. CASE UNCHANGED log /\ ~Insert(sweep[w].event, sent)
    <3>1. sweep'[w].at # "settle"
      BY <1>0, <2>0, <2>2 DEF SweepInsert, TypeOK, Idle
    <3> QED BY <2>2, <3>1 DEF TypeOK, Row, Recorded, RecordedOnce
  <2> QED BY <2>0, <2>1, <2>2 DEF SweepInsert
<1>2. sweep' \in [Sweepers -> {Idle} \cup [at : SweeperSteps, event : Events]]
      /\ sweep'[w].at \notin {"insert", "insertUnsent"} /\ sweep'[w].event \in {sweep[w].event, None}
      /\ (\A v \in Sweepers \ {w} : sweep'[v] = sweep[v]) /\ UNCHANGED <<status, owed, ann>>
  BY <1>0 DEF SweepInsert, TypeOK, SweeperSteps, Idle
<1>3. TypeOK'
  BY <1>1, <1>2 DEF TypeOK, SweepInsert, Fault, Row, SweeperSteps
<1>4. OwedOrRecorded'
  BY <1>1, <1>2 DEF OwedOrRecorded, StillAt
<1>5. SettlesRecorded'
  <2>1. sweep'[w].at = "settle" => sweep'[w].event = sweep[w].event
    BY <1>0 DEF SweepInsert, TypeOK, Idle
  <2> QED BY <1>1, <1>2, <2>1 DEF SettlesRecorded
<1>6. LockInv'
  <2>1. \A m \in Movers : ~MoverInserts(m)'
    BY <1>0, <1>2 DEF LockInv, MoverInserts
  <2>2. \A v \in Sweepers : ~SweeperInserts(v)'
    BY <1>0, <1>2 DEF LockInv, SweeperInserts
  <2> QED BY <2>1, <2>2, LockFreed
<1> QED BY <1>1, <1>3, <1>4, <1>5, <1>6

\* Every step keeps the invariant.
LEMMA Inductive == ASSUME IInv, [Next]_vars PROVE IInv'
<1> USE ConstantsAssumption DEF IInv
<1>1. ASSUME Queue PROVE IInv'
  <2>1. OwedOrRecorded'
    BY <1>1 DEF OwedOrRecorded, StillAt, Queue
  <2>2. LockInv'
    BY <1>1, LockKept DEF Queue
  <2> QED BY <1>1, <2>1, <2>2 DEF TypeOK, RecordedOnce, SettlesRecorded, Recorded, Queue
<1>2. ASSUME NEW m \in Movers, Hold(m) \/ Start(m) \/ End(m) PROVE IInv'
  BY <1>2, Moving
<1>3. ASSUME NEW m \in Movers, Announce(m) \/ AnnounceInsert(m) PROVE IInv'
  BY <1>3, Announcing, AnnounceInserting
<1>4. ASSUME NEW m \in Movers, AnnounceSettle(m) PROVE IInv'
  <2>1. Recorded' = Recorded /\ RecordedOnce'
    BY <1>4 DEF AnnounceSettle, Recorded, RecordedOnce
  <2>2. TypeOK'
    BY <1>4 DEF TypeOK, AnnounceSettle, Fault
  <2>3. OwedOrRecorded'
    BY <1>4, <2>1 DEF OwedOrRecorded, SettlesRecorded, StillAt, AnnounceSettle
  <2>4. SettlesRecorded'
    BY <1>4, <2>1 DEF SettlesRecorded, AnnounceSettle, TypeOK, Idle
  <2>5. LockInv'
    BY <1>4, LockKept DEF AnnounceSettle, TypeOK, Idle
  <2> QED BY <2>1, <2>2, <2>3, <2>4, <2>5
<1>5. ASSUME NEW w \in Sweepers, SweepRecord(w) \/ SweepInsert(w) PROVE IInv'
  BY <1>5, SweepRecording, SweepInserting
<1>6. ASSUME NEW w \in Sweepers, SweepSettle(w) PROVE IInv'
  <2>1. Recorded' = Recorded /\ RecordedOnce'
    BY <1>6 DEF SweepSettle, Recorded, RecordedOnce
  <2>2. TypeOK'
    BY <1>6 DEF TypeOK, SweepSettle, Fault
  <2>3. OwedOrRecorded'
    BY <1>6, <2>1 DEF OwedOrRecorded, SettlesRecorded, StillAt, SweepSettle
  <2>4. SettlesRecorded'
    BY <1>6, <2>1 DEF SettlesRecorded, SweepSettle, TypeOK, Idle
  <2>5. LockInv'
    BY <1>6, LockKept DEF SweepSettle, TypeOK, Idle
  <2> QED BY <2>1, <2>2, <2>3, <2>4, <2>5
<1>7. ASSUME NEW w \in Sweepers, (\E e \in Events : SweepList(w, e)) \/ SweepGet(w) \/ SweeperDies(w)
      PROVE IInv'
  <2>0. UNCHANGED <<status, owed, ann, log>>
    BY <1>7 DEF SweepList, SweepGet, SweeperDies
  <2>1. TypeOK' /\ \A v \in Sweepers :
                    sweep'[v] = sweep[v] \/ sweep'[v].at \notin {"insert", "insertUnsent", "settle"}
    <3>1. CASE \E e \in Events : SweepList(w, e)
      BY <3>1 DEF SweepList, TypeOK
    <3>2. CASE SweepGet(w)
      <4>1. sweep[w] \in [at : SweeperSteps, event : Events]
        BY <3>2, SweeperAtWork DEF SweepGet
      <4> QED BY <3>2, <4>1 DEF SweepGet, TypeOK, Fault, Idle, SweeperSteps
    <3>3. CASE SweeperDies(w)
      BY <3>3 DEF SweeperDies, TypeOK, Fault, Idle
    <3> QED BY <1>7, <3>1, <3>2, <3>3
  <2>2. Recorded' = Recorded /\ RecordedOnce' /\ OwedOrRecorded'
    BY <2>0 DEF Recorded, RecordedOnce, OwedOrRecorded, StillAt
  <2>3. SettlesRecorded'
    BY <2>0, <2>1, <2>2 DEF SettlesRecorded
  <2>4. LockInv'
    BY <2>0, <2>1, LockKept
  <2> QED BY <2>1, <2>2, <2>3, <2>4
<1>8. ASSUME NEW m \in Movers, MoverDies(m) PROVE IInv'
  <2>1. Recorded' = Recorded /\ RecordedOnce' /\ OwedOrRecorded'
    BY <1>8 DEF MoverDies, Recorded, RecordedOnce, OwedOrRecorded, StillAt
  <2>2. TypeOK' /\ SettlesRecorded'
    BY <1>8, <2>1 DEF MoverDies, TypeOK, SettlesRecorded, Fault, Idle
  <2>3. LockInv'
    BY <1>8, LockKept DEF MoverDies, TypeOK, Idle
  <2> QED BY <2>1, <2>2, <2>3
<1>9. CASE UNCHANGED vars
  BY <1>9 DEF vars, TypeOK, RecordedOnce, Recorded, OwedOrRecorded, StillAt, SettlesRecorded,
     LockInv, MoverInserts, SweeperInserts
<1> QED BY <1>1, <1>2, <1>3, <1>4, <1>5, <1>6, <1>7, <1>8, <1>9 DEF Next, AnnounceStep, SweepStep,
     SweepHandles

LEMMA Invariance == Spec => []IInv
<1> QED BY Initial, Inductive, PTL DEF Spec

\* The types of RunEvents.tla hold, whatever dies and whatever write fails.
THEOREM TypeCorrect == Spec => []TypeOK
<1>1. IInv => TypeOK
  BY DEF IInv
<1> QED BY <1>1, Invariance, PTL

\* No event that the run's status stands for is lost between the ledger and the outbox (the triggers,
\* announceOwed, announceEnd and the sweeps), for any number of movers and sweepers.
THEOREM NeverLost == Spec => []OwedOrRecorded
<1>1. IInv => OwedOrRecorded
  BY DEF IInv
<1> QED BY <1>1, Invariance, PTL

\* However many processes announce it, a run has each of its events once: the lock is held from
\* the look to the insert (Record, Once).
THEOREM Once == Spec => []RecordedOnce
<1>1. IInv => RecordedOnce
  BY DEF IInv
<1> QED BY <1>1, Invariance, PTL
=============================================================================
