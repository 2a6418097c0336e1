---------------------------- MODULE OutboxProofs ----------------------------
(***************************************************************************)
(* Proofs about Outbox.tla.  An attempt starts when everything the event   *)
(* follows is finished, and what is finished stays so: what the claim saw  *)
(* of the earlier deliveries is true for as long as the attempt lasts,     *)
(* also past the lapse of its lease.                                       *)
(***************************************************************************)
EXTENDS Outbox, TLAPS

Seen(q) == state[q] # "absent"

\* Nothing that q follows is still to be delivered.
Clear(q) == \A f \in Seqs : Precedes(f, q) => state[f] # "pending"

\* The note n is right about the deliveries before q.
Told(q, n) ==
  /\ n => EarlierFailed(q)
  /\ (\E f \in Seqs : Precedes(f, q) /\ state[f] = "failed") => n

\* What a goroutine at work knows of its delivery.
AttemptKnows(s) ==
  /\ Seen(slot[s].seq) /\ Clear(slot[s].seq) /\ Told(slot[s].seq, slot[s].note)
  /\ slot[s].at = "delivered" => arrived[slot[s].seq]

\* The inductive invariant.
IInv ==
  /\ TypeOK
  /\ \A q \in Seqs : Seen(q) => q <= len
  /\ \A s \in Slots : slot[s].at # "idle" => AttemptKnows(s)
  /\ \A q \in Seqs : arrived[q] => Seen(q) /\ Clear(q)
  /\ \A q \in Seqs : state[q] = "delivered" => arrived[q] /\ Told(q, noted[q])

\* What every step keeps of the deliveries recorded so far.
Keeps ==
  /\ len <= len'
  /\ \A q \in Seqs : q <= len =>
       /\ branch'[q] = branch[q]
       /\ state[q] = "absent" <=> state'[q] = "absent"
       /\ state[q] \in Finished => state'[q] = state[q]

LEMMA Working ==
  ASSUME TypeOK, NEW s \in Slots, slot[s].at # "idle"
  PROVE  slot[s] \in [at : {"claimed"} \cup Results, seq : Seqs, tried : Nat, note : BOOLEAN]
  BY DEF TypeOK, Rest

LEMMA TypeInitial == Init => TypeOK
  BY ConstantsAssumption DEF Init, TypeOK, Seqs, Branches, Finished, Rest

LEMMA OutcomeType == ASSUME NEW s \in Slots PROVE Outcome(s) \in Finished \cup {"pending"}
  BY DEF Outcome, Finished

\* Every step keeps the types.
LEMMA TypeStep == ASSUME TypeOK, [Next]_vars PROVE TypeOK'
<1> USE ConstantsAssumption
<1>1. ASSUME NEW b \in Branches, NEW st \in {"pending", "skipped", "absent"}, Record(b, st)
      PROVE TypeOK'
  BY <1>1 DEF TypeOK, Record, Seqs, Finished
<1>2. ASSUME NEW s \in Slots, NEW q \in Seqs, Claim(s, q) PROVE TypeOK'
  <2>1. slot' \in [Slots -> {Rest} \cup
          [at : {"claimed"} \cup Results, seq : Seqs, tried : Nat, note : BOOLEAN]]
    BY <1>2 DEF TypeOK, Claim, EarlierFailed
  <2> QED BY <1>2, <2>1 DEF TypeOK, Claim
<1>3. ASSUME NEW s \in Slots, Send(s) PROVE TypeOK'
  <2>1. slot[s] \in [at : {"claimed"} \cup Results, seq : Seqs, tried : Nat, note : BOOLEAN]
    BY <1>3, Working DEF Send
  <2>2. PICK res \in Results, got \in BOOLEAN :
          /\ slot' = [slot EXCEPT ![s].at = res]
          /\ arrived' = [arrived EXCEPT ![slot[s].seq] = @ \/ got]
    BY <1>3 DEF Send
  <2>3. slot' \in [Slots -> {Rest} \cup
          [at : {"claimed"} \cup Results, seq : Seqs, tried : Nat, note : BOOLEAN]]
    BY <2>1, <2>2 DEF TypeOK
  <2>4. arrived' \in [Seqs -> BOOLEAN]
    BY <2>1, <2>2 DEF TypeOK
  <2> QED BY <1>3, <2>3, <2>4 DEF TypeOK, Send, delivery
<1>4. ASSUME NEW s \in Slots, Finish(s) PROVE TypeOK'
  <2>1. slot[s].seq \in Seqs /\ slot[s].note \in BOOLEAN
    BY <1>4, Working DEF Finish, Results
  <2>2. slot' \in [Slots -> {Rest} \cup
          [at : {"claimed"} \cup Results, seq : Seqs, tried : Nat, note : BOOLEAN]]
    BY <1>4 DEF TypeOK, Finish
  <2>3. /\ state' \in [Seqs -> Finished \cup {"absent", "pending"}] /\ tried' \in [Seqs -> Nat]
        /\ holder' \in [Seqs -> Processes \cup {None}] /\ live' \in [Seqs -> BOOLEAN]
        /\ noted' \in [Seqs -> BOOLEAN]
    <3>1. CASE UNCHANGED delivery
      BY <3>1 DEF TypeOK, delivery
    <3>2. CASE ~UNCHANGED delivery
      <4>1. LetGo(slot[s].seq) /\ state' = [state EXCEPT ![slot[s].seq] = Outcome(s)]
             /\ tried' = [tried EXCEPT ![slot[s].seq] = @ + 1]
             /\ noted' = [noted EXCEPT ![slot[s].seq] = slot[s].note /\ Outcome(s) # "skipped"]
        BY <1>4, <3>2 DEF Finish
      <4>2. noted' \in [Seqs -> BOOLEAN]
        BY <2>1, <4>1 DEF TypeOK
      <4>3. state' \in [Seqs -> Finished \cup {"absent", "pending"}] /\ tried' \in [Seqs -> Nat]
        BY <2>1, <4>1, OutcomeType DEF TypeOK
      <4> QED BY <4>1, <4>2, <4>3 DEF TypeOK, LetGo
    <3> QED BY <3>1, <3>2
  <2> QED BY <1>4, <2>2, <2>3 DEF TypeOK, Finish
<1>5. ASSUME NEW s \in Slots, Release(s) PROVE TypeOK'
  <2>1. slot' \in [Slots -> {Rest} \cup
          [at : {"claimed"} \cup Results, seq : Seqs, tried : Nat, note : BOOLEAN]]
    BY <1>5 DEF TypeOK, Release
  <2>2. holder' \in [Seqs -> Processes \cup {None}] /\ live' \in [Seqs -> BOOLEAN]
    BY <1>5 DEF TypeOK, Release, LetGo
  <2> QED BY <1>5, <2>1, <2>2 DEF TypeOK, Release, Fault
<1>6. ASSUME NEW s \in Slots, Lose(s) PROVE TypeOK'
  BY <1>6 DEF TypeOK, Lose, delivery, Fault
<1>7. ASSUME NEW q \in Seqs, Lapse(q) PROVE TypeOK'
  BY <1>7 DEF TypeOK, Lapse, Fault
<1>8. CASE UNCHANGED vars
  BY <1>8 DEF TypeOK, vars, delivery
<1> QED BY <1>1, <1>2, <1>3, <1>4, <1>5, <1>6, <1>7, <1>8 DEF Next, SlotStep

\* Every step keeps what is recorded and what is finished.
LEMMA StepKeeps == ASSUME IInv, [Next]_vars PROVE Keeps
<1> USE ConstantsAssumption DEF IInv
<1>1. ASSUME NEW b \in Branches, NEW st \in {"pending", "skipped", "absent"}, Record(b, st)
      PROVE Keeps
  BY <1>1 DEF TypeOK, Record, Seqs, Keeps
<1>2. ASSUME NEW s \in Slots, Finish(s) PROVE Keeps
  <2>1. slot[s].seq \in Seqs
    BY <1>2, Working DEF Finish, Results
  <2> QED BY <1>2, <2>1, OutcomeType DEF TypeOK, Finish, Holds, Keeps, delivery, Finished
<1>3. CASE UNCHANGED <<len, branch, state>>
  BY <1>3 DEF Keeps, TypeOK
<1> QED BY <1>1, <1>2, <1>3 DEF Next, SlotStep, Claim, Send, Release, Lose, Lapse, delivery, vars

\* What was clear before a recorded delivery stays clear, and what was told of it stays true.
LEMMA Lasting ==
  ASSUME IInv, Keeps, TypeOK', NEW q \in Seqs, Seen(q), Clear(q)
  PROVE  /\ Seen(q)' /\ Clear(q)'
         /\ \A n \in BOOLEAN : Told(q, n) => Told(q, n)'
<1>1. q <= len /\ Seen(q)'
  BY DEF IInv, Keeps, Seen
<1>2. ASSUME NEW f \in Seqs, Precedes(f, q)'
      PROVE Precedes(f, q) /\ f <= len /\ state[f] \in Finished /\ state'[f] = state[f]
  BY <1>1, <1>2 DEF Precedes, Keeps, Seqs, Clear, IInv, TypeOK
<1>3. Clear(q)'
  BY <1>2 DEF Clear, Finished
<1>4. ASSUME NEW n \in BOOLEAN, Told(q, n) PROVE Told(q, n)'
  <2>1. n => EarlierFailed(q)'
    BY <1>1, <1>4 DEF Told, EarlierFailed, Keeps, Finished, Seqs, IInv, TypeOK
  <2>2. (\E f \in Seqs : Precedes(f, q) /\ state[f] = "failed")' => n
    BY <1>2, <1>4 DEF Told
  <2> QED BY <2>1, <2>2 DEF Told
<1> QED BY <1>1, <1>3, <1>4

\* What stays of an attempt that the step leaves alone, of an arrival and of a delivered outcome.
LEMMA Untouched ==
  ASSUME IInv, Keeps, TypeOK'
  PROVE  /\ \A s \in Slots : slot[s].at # "idle" /\ slot'[s] = slot[s]
              /\ (arrived[slot[s].seq] => arrived'[slot[s].seq]) => AttemptKnows(s)'
         /\ \A q \in Seqs : arrived[q] => (Seen(q) /\ Clear(q))'
         /\ \A q \in Seqs : state[q] = "delivered" /\ noted'[q] = noted[q] => Told(q, noted[q])'
<1>1. ASSUME NEW s \in Slots, slot[s].at # "idle", slot'[s] = slot[s],
             arrived[slot[s].seq] => arrived'[slot[s].seq]
      PROVE  AttemptKnows(s)'
  <2>1. slot[s].seq \in Seqs /\ slot[s].note \in BOOLEAN
    BY <1>1, Working DEF IInv
  <2>2. Seen(slot[s].seq) /\ Clear(slot[s].seq) /\ Told(slot[s].seq, slot[s].note)
    BY <1>1 DEF IInv, AttemptKnows
  <2>3. (Seen(slot[s].seq) /\ Clear(slot[s].seq) /\ Told(slot[s].seq, slot[s].note))'
    <3> DEFINE q == slot[s].seq
               n == slot[s].note
    <3>1. q \in Seqs /\ n \in BOOLEAN /\ Seen(q) /\ Clear(q) /\ Told(q, n)
      BY <2>1, <2>2
    <3>2. q' = q /\ n' = n
      BY <1>1
    <3> HIDE DEF q, n
    <3>3. PICK p \in Seqs : p = q
      BY <3>1
    <3>4. Seen(p) /\ Clear(p) /\ Told(p, n)
      BY <3>1, <3>3
    <3>5. Seen(p)' /\ Clear(p)' /\ \A m \in BOOLEAN : Told(p, m) => Told(p, m)'
      BY <3>4, Lasting
    <3>6. Seen(q)' /\ Clear(q)' /\ Told(q, n)'
      BY <3>1, <3>2, <3>3, <3>4, <3>5 DEF Seen, Clear, Told, EarlierFailed, Precedes
    <3> QED BY <3>6 DEF q, n
  <2> QED BY <1>1, <2>3 DEF IInv, AttemptKnows
<1>2. ASSUME NEW q \in Seqs, arrived[q] PROVE (Seen(q) /\ Clear(q))'
  BY <1>2, Lasting DEF IInv
<1>3. ASSUME NEW q \in Seqs, state[q] = "delivered", noted'[q] = noted[q]
      PROVE Told(q, noted[q])'
  <2>1. Seen(q) /\ Clear(q) /\ Told(q, noted[q]) /\ noted[q] \in BOOLEAN
    BY <1>3 DEF IInv, TypeOK
  <2>2. PICK n \in BOOLEAN : n = noted[q]
    BY <2>1
  <2>3. Told(q, n)'
    BY <2>1, <2>2, Lasting
  <2> QED BY <1>3, <2>2, <2>3 DEF Told
<1> QED BY <1>1, <1>2, <1>3

LEMMA Initial == Init => IInv
  BY TypeInitial DEF Init, IInv, Seen, Rest

\* A goroutine the step leaves alone still knows what it knew; one the step puts to rest has nothing
\* to know.
LEMMA Attempts ==
  ASSUME IInv, Keeps, TypeOK', NEW t \in Slots,
         \A s \in Slots : s = t \/ slot'[s] = slot[s],
         slot'[t].at # "idle" => AttemptKnows(t)',
         \A q \in Seqs : arrived[q] => arrived'[q]
  PROVE  \A s \in Slots : slot'[s].at # "idle" => AttemptKnows(s)'
<1> TAKE s \in Slots
<1> HAVE slot'[s].at # "idle"
<1>1. CASE s = t
  BY <1>1
<1>2. CASE s # t
  <2>1. slot'[s] = slot[s] /\ slot[s].at # "idle"
    BY <1>2
  <2>2. slot[s].seq \in Seqs
    BY <2>1, Working DEF IInv
  <2> QED BY <2>1, <2>2, Untouched
<1> QED BY <1>1, <1>2

\* Every step keeps the invariant.
LEMMA Inductive == ASSUME IInv, [Next]_vars PROVE IInv'
<1> USE ConstantsAssumption
<1>a. TypeOK' /\ TypeOK
  BY TypeStep DEF IInv
<1>b. Keeps
  BY StepKeeps
<1>1. ASSUME NEW b \in Branches, NEW st \in {"pending", "skipped", "absent"}, Record(b, st)
      PROVE IInv'
  <2>1. \A q \in Seqs : Seen(q)' => q <= len'
    BY <1>1, <1>a DEF IInv, Record, Seen, TypeOK, Seqs
  <2>2. \A s \in Slots : slot'[s].at # "idle" => AttemptKnows(s)'
    BY <1>1, <1>a, <1>b, Untouched DEF Record
  <2>3. \A q \in Seqs : state'[q] = "delivered" => state[q] = "delivered"
    BY <1>1, <1>a DEF Record, TypeOK, Seqs
  <2> QED BY <1>1, <1>a, <1>b, <2>1, <2>2, <2>3, Untouched DEF IInv, Record
<1>2. ASSUME NEW s \in Slots, NEW q \in Seqs, Claim(s, q) PROVE IInv'
  <2>1. slot'[s].seq = q /\ slot'[s].note = EarlierFailed(q) /\ slot'[s].at = "claimed"
    BY <1>2, <1>a DEF Claim, TypeOK
  <2>2. Seen(q)' /\ Clear(q)' /\ Told(q, EarlierFailed(q))'
    BY <1>2, <1>a DEF Claim, Claimable, Seen, Clear, Told, EarlierFailed, Precedes, Seqs
  <2>3. AttemptKnows(s)'
    BY <2>1, <2>2, <1>2 DEF AttemptKnows, Seen, Clear, Told, EarlierFailed, Precedes, Claim
  <2>4. \A t \in Slots : t = s \/ slot'[t] = slot[t]
    BY <1>2, <1>a DEF Claim, TypeOK
  <2>5. \A t \in Slots : slot'[t].at # "idle" => AttemptKnows(t)'
    BY <1>2, <1>a, <1>b, <2>3, <2>4, Attempts DEF Claim
  <2> QED BY <1>2, <1>a, <1>b, <2>5, Untouched DEF IInv, Claim, Seen
<1>3. ASSUME NEW s \in Slots, Send(s) PROVE IInv'
  <2>1. slot[s] \in [at : {"claimed"} \cup Results, seq : Seqs, tried : Nat, note : BOOLEAN]
    BY <1>3, <1>a, Working DEF Send
  <2>2. PICK res \in Results, got \in BOOLEAN :
          /\ res = "delivered" => got
          /\ slot' = [slot EXCEPT ![s].at = res]
          /\ arrived' = [arrived EXCEPT ![slot[s].seq] = @ \/ got]
    BY <1>3 DEF Send
  <2>3. AttemptKnows(s)
    BY <1>3 DEF IInv, Send
  <2>4. slot'[s].seq = slot[s].seq /\ slot'[s].note = slot[s].note /\ slot'[s].at = res
    BY <2>1, <2>2, <1>a DEF TypeOK
  <2>5. res = "delivered" => arrived'[slot[s].seq]
    BY <2>1, <2>2, <1>a DEF TypeOK
  <2>6. \A q \in Seqs : arrived[q] => arrived'[q]
    BY <2>1, <2>2, <1>a DEF TypeOK
  <2>7. AttemptKnows(s)'
    BY <1>3, <2>3, <2>4, <2>5 DEF AttemptKnows, Seen, Clear, Told, EarlierFailed, Precedes, Send, delivery
  <2>8. \A t \in Slots : t = s \/ slot'[t] = slot[t]
    BY <2>2, <1>a DEF TypeOK
  <2>9. \A t \in Slots : slot'[t].at # "idle" => AttemptKnows(t)'
    BY <1>a, <1>b, <2>6, <2>7, <2>8, Attempts
  <2>10. \A q \in Seqs : arrived'[q] => arrived[q] \/ q = slot[s].seq
    BY <2>1, <2>2, <1>a DEF TypeOK
  <2>11. \A q \in Seqs : arrived'[q] => (Seen(q) /\ Clear(q))'
    BY <1>a, <1>b, <1>3, <2>3, <2>10, Untouched DEF AttemptKnows, Seen, Clear, Precedes, Send, delivery
  <2>12. \A q \in Seqs : state'[q] = "delivered" => arrived'[q] /\ Told(q, noted[q])'
    BY <1>a, <1>b, <1>3, <2>6, Untouched DEF IInv, Send, delivery
  <2> QED BY <1>3, <1>a, <2>9, <2>11, <2>12 DEF IInv, Send, Seen, delivery, Told, EarlierFailed, Precedes
<1>4. ASSUME NEW s \in Slots, Finish(s) PROVE IInv'
  <2> DEFINE e == slot[s].seq
  <2>1. e \in Seqs /\ slot[s].note \in BOOLEAN /\ AttemptKnows(s) /\ slot[s].at # "idle"
    BY <1>4, <1>a, Working DEF Finish, Results, IInv
  <2>2. slot'[s].at = "idle" /\ \A t \in Slots : t = s \/ slot'[t] = slot[t]
    BY <1>4, <1>a DEF Finish, Rest, TypeOK
  <2>3. \A t \in Slots : slot'[t].at # "idle" => AttemptKnows(t)'
    BY <1>4, <1>a, <1>b, <2>2, Attempts DEF Finish
  <2>4. \A q \in Seqs : Seen(q)' => q <= len'
    BY <1>4, <1>a, <2>1 DEF Finish, IInv, Seen, TypeOK, AttemptKnows, delivery
  <2>5. \A q \in Seqs : arrived'[q] => (Seen(q) /\ Clear(q))'
    BY <1>4, <1>a, <1>b, Untouched DEF Finish
  <2>6. ASSUME NEW q \in Seqs, state'[q] = "delivered" PROVE arrived'[q] /\ Told(q, noted[q])'
    <3>1. CASE state[q] = "delivered"
      <4>1. noted'[q] = noted[q]
        BY <1>4, <1>a, <2>1, <3>1 DEF Finish, Holds, TypeOK, delivery
      <4> QED BY <1>4, <1>a, <1>b, <3>1, <4>1, Untouched DEF Finish, IInv, Told
    <3>2. CASE state[q] # "delivered"
      <4>1. q = e /\ Outcome(s) = "delivered" /\ noted'[q] = (slot[s].note /\ Outcome(s) # "skipped")
        BY <1>4, <1>a, <2>1, <2>6, <3>2 DEF Finish, TypeOK, delivery
      <4>2. slot[s].at = "delivered" /\ noted'[q] = slot[s].note
        BY <4>1, <2>1 DEF Outcome
      <4>3. PICK n \in BOOLEAN : n = slot[s].note
        BY <2>1
      <4>4. Seen(q) /\ Clear(q) /\ Told(q, n) /\ arrived[q]
        BY <2>1, <4>1, <4>2, <4>3 DEF AttemptKnows
      <4>5. Told(q, n)'
        BY <1>a, <1>b, <4>4, Lasting
      <4> QED BY <1>4, <4>2, <4>3, <4>4, <4>5 DEF Told, Finish
    <3> QED BY <3>1, <3>2
  <2> QED BY <1>a, <2>3, <2>4, <2>5, <2>6 DEF IInv
<1>5. ASSUME NEW s \in Slots, Release(s) \/ Lose(s) PROVE IInv'
  <2>1. slot'[s].at = "idle" /\ \A t \in Slots : t = s \/ slot'[t] = slot[t]
    BY <1>5, <1>a DEF Release, Lose, Rest, TypeOK
  <2>2. UNCHANGED <<len, branch, state, noted, arrived>>
    BY <1>5 DEF Release, Lose, delivery
  <2>3. \A t \in Slots : slot'[t].at # "idle" => AttemptKnows(t)'
    BY <1>a, <1>b, <2>1, <2>2, Attempts
  <2> QED BY <1>a, <1>b, <2>2, <2>3, Untouched DEF IInv, Seen
<1>6. CASE UNCHANGED <<len, branch, state, noted, arrived, slot>>
  BY <1>6, <1>a, <1>b, Untouched DEF IInv, Seen
<1> QED BY <1>1, <1>2, <1>3, <1>4, <1>5, <1>6 DEF Next, SlotStep, Lapse, vars, delivery

LEMMA Invariance == Spec => []IInv
<1> QED BY Initial, Inductive, PTL DEF Spec

\* The types of Outbox.tla hold, whatever dies, stalls or is lost.
THEOREM TypeCorrect == Spec => []TypeOK
<1>1. IInv => TypeOK
  BY DEF IInv
<1> QED BY <1>1, Invariance, PTL

\* A message never reaches the target before one it follows (Outbox, claimQuery), for any number of
\* events, goroutines, processes and steps.
THEOREM Ordering == Spec => []InOrder
<1>1. IInv => InOrder
  BY DEF IInv, InOrder, Clear
<1> QED BY <1>1, Invariance, PTL

\* What the message said of the deliveries before it is true when its outcome is recorded (Claim's
\* EXISTS clause, attempt).
THEOREM NoteTrue == Spec => []NoteIsTrue
<1>1. IInv => NoteIsTrue
  BY DEF IInv, NoteIsTrue, Told
<1> QED BY <1>1, Invariance, PTL

\* What is recorded as delivered reached the target (attempt, Finish).
THEOREM Arrival == Spec => []DeliveredArrived
<1>1. IInv => DeliveredArrived
  BY DEF IInv, DeliveredArrived
<1> QED BY <1>1, Invariance, PTL

\* No goroutine writes over a finished delivery (Finish's fence).
THEOREM FinishedKept == Spec => FinishedStays
<1>1. IInv /\ [Next]_vars => [\A q \in Seqs : state[q] \in Finished => state'[q] = state[q]]_vars
  BY StepKeeps DEF Keeps, IInv, Seen, Finished
<1> QED BY <1>1, Invariance, PTL DEF Spec, FinishedStays
=============================================================================
