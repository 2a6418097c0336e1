------------------------------- MODULE Outbox -------------------------------
(***************************************************************************)
(* Delivery of one run's recorded events to one target.  An event takes    *)
(* the run's next sequence number and queues a delivery.  Goroutines of    *)
(* several processes claim deliveries under a lease, attempt them, and     *)
(* record what came of each attempt in a statement fenced on the process.  *)
(* Events on no branch keep the order of the whole run; events on the      *)
(* steps of a workflow wait for the steps they follow.  Processes die or   *)
(* stop, leases lapse under stalled goroutines, and outcomes fail to be    *)
(* written.  RunEvents.tla says which events come to be recorded.          *)
(***************************************************************************)
EXTENDS Integers, FiniteSets

CONSTANTS
  Steps,        \* branches of a workflow
  Follows,      \* Follows[b]: the steps that b comes after
  MaxSeq,       \* bound on the events of the run
  Processes,
  Slots,        \* goroutines that attempt deliveries
  OwnerOf,      \* the process of each slot
  PerTarget,    \* attempts at one target a process holds at once
  MaxAttempts,
  MaxFaults     \* bound on deaths, stops, stalls and outcomes not written

None == "none"
Seqs == 1..MaxSeq
Branches == Steps \cup {None}

ASSUME ConstantsAssumption ==
  /\ Follows \in [Steps -> SUBSET Steps] /\ None \notin Steps
  /\ OwnerOf \in [Slots -> Processes] /\ None \notin Processes
  /\ MaxSeq \in Nat /\ PerTarget \in Nat \ {0} /\ MaxAttempts \in Nat \ {0} /\ MaxFaults \in Nat

VARIABLES
  len,      \* the run's last sequence number
  branch,   \* branch[q]: the branch of event q
  state,    \* state[q]: its delivery, absent until it is recorded
  tried,    \* the attempts counted
  holder, live,  \* the process that claimed it, and whether the lease runs
  noted,    \* whether the outcome says an earlier delivery failed
  slot,     \* what each goroutine attempts, and what came of it
  arrived,  \* history: whether the message ever reached the target
  faults

delivery == <<state, tried, holder, live, noted>>
vars == <<len, branch, delivery, slot, arrived, faults>>

Rest == [at |-> "idle", seq |-> 0, tried |-> 0, note |-> FALSE]

Init ==
  /\ len = 0 /\ branch = [q \in Seqs |-> None] /\ state = [q \in Seqs |-> "absent"]
  /\ tried = [q \in Seqs |-> 0] /\ holder = [q \in Seqs |-> None]
  /\ live = [q \in Seqs |-> FALSE] /\ noted = [q \in Seqs |-> FALSE]
  /\ slot = [s \in Slots |-> Rest] /\ arrived = [q \in Seqs |-> FALSE] /\ faults = MaxFaults

Fault == faults > 0 /\ faults' = faults - 1

\* Ordered: an event on no branch follows every earlier one and precedes every later one.
Ordered(b, earlier) ==
  b = None \/ earlier = None \/ b = earlier \/ (b \in Steps /\ earlier \in Follows[b])

\* f has to reach the target before q.
Precedes(f, q) == f < q /\ state[f] # "absent" /\ Ordered(branch[q], branch[f])

-----------------------------------------------------------------------------

\* Record: the event is queued for the target; a target without its secret, and an event the run has
\* moved past, are finished as skipped; an event that other targets hear has no delivery here.
Record(b, st) ==
  /\ len < MaxSeq /\ len' = len + 1
  /\ branch' = [branch EXCEPT ![len + 1] = b] /\ state' = [state EXCEPT ![len + 1] = st]
  /\ UNCHANGED <<tried, holder, live, noted, slot, arrived, faults>>

\* Mutant: a delivery does not wait for the ones before it.
ClaimableUnordered(q) == state[q] = "pending" /\ ~live[q]

\* Mutant: a delivery whose claimant is gone is not taken over.
ClaimableUnclaimed(q) ==
  /\ state[q] = "pending" /\ holder[q] = None
  /\ \A f \in Seqs : Precedes(f, q) => state[f] # "pending"

\* claimQuery: pending, under no running lease, nothing the event follows still pending.
Claimable(q) ==
  /\ state[q] = "pending" /\ ~live[q]
  /\ \A f \in Seqs : Precedes(f, q) => state[f] # "pending"

\* heldByOwner.
Held(p) == Cardinality({q \in Seqs : state[q] = "pending" /\ live[q] /\ holder[q] = p})

\* Mutant: the note looks at the deliveries on the event's own branch.
EarlierFailedOnBranch(q) ==
  \E f \in Seqs : f < q /\ state[f] = "failed" /\ branch[f] = branch[q]

\* The claim's EXISTS clause, which looks at every earlier delivery.
EarlierFailed(q) == \E f \in Seqs : f < q /\ state[f] = "failed"

Claim(s, q) ==
  /\ slot[s].at = "idle" /\ Claimable(q) /\ Held(OwnerOf[s]) < PerTarget
  /\ holder' = [holder EXCEPT ![q] = OwnerOf[s]] /\ live' = [live EXCEPT ![q] = TRUE]
  /\ slot' = [slot EXCEPT ![s] = [at |-> "claimed", seq |-> q, tried |-> tried[q],
                                  note |-> EarlierFailed(q)]]
  /\ UNCHANGED <<len, branch, state, tried, noted, arrived, faults>>

Results == {"delivered", "error", "permanent", "unheard"}

\* deliver: the target answers; the attempt fails, whether or not the message arrived; the target is
\* gone, unready or refuses; or it was changed to a kind that does not hear the event.
Send(s) ==
  /\ slot[s].at = "claimed"
  /\ \E res \in Results, got \in BOOLEAN :
       /\ res = "delivered" => got
       /\ got => res \in {"delivered", "error"}
       /\ slot' = [slot EXCEPT ![s].at = res]
       /\ arrived' = [arrived EXCEPT ![slot[s].seq] = @ \/ got]
  /\ UNCHANGED <<len, branch, delivery, faults>>

\* Mutant: the last attempt counts as delivered, whatever the target answered.
OutcomeOptimistic(s) ==
  CASE slot[s].at = "delivered" \/ slot[s].tried + 1 >= MaxAttempts -> "delivered"
    [] slot[s].at = "unheard"   -> "skipped"
    [] slot[s].at = "permanent" -> "failed"
    [] OTHER -> "pending"

\* attempt: what the delivery becomes.
Outcome(s) ==
  CASE slot[s].at = "delivered" -> "delivered"
    [] slot[s].at = "unheard"   -> "skipped"
    [] slot[s].at = "permanent" \/ slot[s].tried + 1 >= MaxAttempts -> "failed"
    [] OTHER -> "pending"

\* What Finish and Release are fenced on: the delivery is pending and claimed by the process.
Holds(s) == state[slot[s].seq] = "pending" /\ holder[slot[s].seq] = OwnerOf[s]

LetGo(q) == holder' = [holder EXCEPT ![q] = None] /\ live' = [live EXCEPT ![q] = FALSE]

Finish(s) ==
  /\ slot[s].at \in Results
  /\ LET q == slot[s].seq
     IN  \/ /\ Holds(s) /\ LetGo(q)
            /\ state' = [state EXCEPT ![q] = Outcome(s)]
            /\ tried' = [tried EXCEPT ![q] = @ + 1]
            /\ noted' = [noted EXCEPT ![q] = slot[s].note /\ Outcome(s) # "skipped"]
         \/ ~Holds(s) /\ UNCHANGED delivery
  /\ slot' = [slot EXCEPT ![s] = Rest]
  /\ UNCHANGED <<len, branch, arrived, faults>>

\* An attempt that failed while its process stops is released uncounted.
Release(s) ==
  /\ slot[s].at \in Results \ {"delivered"} /\ Fault
  /\ \/ Holds(s) /\ LetGo(slot[s].seq)
     \/ ~Holds(s) /\ UNCHANGED <<holder, live>>
  /\ slot' = [slot EXCEPT ![s] = Rest]
  /\ UNCHANGED <<len, branch, state, tried, noted, arrived>>

\* The process dies, or the outcome or the release is not written: the claim stays until it lapses.
Lose(s) ==
  /\ slot[s].at # "idle" /\ Fault
  /\ slot' = [slot EXCEPT ![s] = Rest]
  /\ UNCHANGED <<len, branch, delivery, arrived>>

\* A lease lapses once its goroutine is gone, or under a goroutine that stalls.
Lapse(q) ==
  /\ live[q] /\ live' = [live EXCEPT ![q] = FALSE]
  /\ \/ ~(\E s \in Slots : slot[s].seq = q) /\ UNCHANGED faults
     \/ (\E s \in Slots : slot[s].seq = q) /\ Fault
  /\ UNCHANGED <<len, branch, state, tried, holder, noted, slot, arrived>>

SlotStep(s) == Send(s) \/ Finish(s)

Next ==
  \/ \E b \in Branches, st \in {"pending", "skipped", "absent"} : Record(b, st)
  \/ \E s \in Slots : SlotStep(s) \/ Release(s) \/ Lose(s) \/ \E q \in Seqs : Claim(s, q)
  \/ \E q \in Seqs : Lapse(q)

\* A process serves until it is stopped: its claims go through what is due and its attempts end, and
\* leases run out.
Fairness ==
  /\ \A q \in Seqs : WF_vars(\E s \in Slots : Claim(s, q)) /\ WF_vars(Lapse(q))
  /\ \A s \in Slots : WF_vars(SlotStep(s))

Spec == Init /\ [][Next]_vars
FairSpec == Spec /\ Fairness

-----------------------------------------------------------------------------
(* Properties.                                                             *)

Finished == {"delivered", "failed", "skipped"}

\* The types of the variables; a goroutine at work attempts a recorded delivery.
TypeOK ==
  /\ len \in 0..MaxSeq /\ branch \in [Seqs -> Branches]
  /\ state \in [Seqs -> Finished \cup {"absent", "pending"}] /\ tried \in [Seqs -> Nat]
  /\ holder \in [Seqs -> Processes \cup {None}] /\ live \in [Seqs -> BOOLEAN]
  /\ noted \in [Seqs -> BOOLEAN] /\ arrived \in [Seqs -> BOOLEAN] /\ faults \in Nat
  /\ slot \in [Slots -> {Rest} \cup
       [at : {"claimed"} \cup Results, seq : Seqs, tried : Nat, note : BOOLEAN]]

\* A message never reaches the target while one it follows is still to be delivered there, though
\* leases lapse under stalled goroutines, processes die and answers are lost (outbox.go Outbox).
InOrder == \A e, q \in Seqs : Precedes(e, q) /\ arrived[q] => state[e] # "pending"

\* A message delivered after one that failed says so, and says so only then: what the claim read of
\* the deliveries the event follows is still so when the outcome is written (EarlierFailedNote).
NoteIsTrue ==
  \A q \in Seqs : state[q] = "delivered" =>
    /\ noted[q] => EarlierFailed(q)
    /\ (\E f \in Seqs : Precedes(f, q) /\ state[f] = "failed") => noted[q]

\* A delivery recorded as delivered did reach the target, whichever goroutine wrote the outcome.
DeliveredArrived == \A q \in Seqs : state[q] = "delivered" => arrived[q]

\* A finished delivery stays as it was finished: no stalled goroutine writes over it (Finish).
FinishedStays == [][\A q \in Seqs : state[q] \in Finished => state'[q] = state[q]]_vars

\* Every queued delivery is finished in the end: delivered, skipped, or failed for good.
EveryDeliveryFinishes == \A q \in Seqs : state[q] = "pending" ~> state[q] \in Finished
=============================================================================
