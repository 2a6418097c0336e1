--------------------------- MODULE WorkflowProofs ---------------------------
(* The types of the workflow model, what keeps its two paths apart, one    *)
(* launch of every step, and what a success stands for.                    *)
EXTENDS Workflow, TLAPS

\* Set, Leaves and the other operators keep the types.
LEMMA SetType ==
  ASSUME walk \in [Processes -> [Steps -> WalkStates]],
         NEW p \in Processes, NEW s \in Steps, NEW v \in WalkStates, Set(p, s, v)
  PROVE  walk' \in [Processes -> [Steps -> WalkStates]]
BY DEF Set

LEMMA LeavesType ==
  ASSUME TypeOK, NEW p \in Processes, Leaves(p)
  PROVE  /\ at' \in [Processes -> {"idle", "resumed", "walking", "parking", "stopping"}]
         /\ ctx' \in [Processes -> {"live", "canceled", "stopping"}]
         /\ walk' \in [Processes -> [Steps -> WalkStates]]
<1>1. Fresh \in [Steps -> WalkStates]
  BY DEF Fresh, WalkStates
<1>2. QED
  BY <1>1 DEF Leaves, TypeOK

LEMMA FaultType == ASSUME TypeOK, Fault PROVE faults' \in 0..MaxFaults
BY ConstantsAssumption DEF Fault, TypeOK

LEMMA VerdictType ==
  /\ Verdict(None) = "waiting"
  /\ Verdict("waiting") = "awaiting" /\ Verdict("yes") = "awaiting" /\ Verdict("no") = "awaiting"
  /\ Verdict("approved") = "succeeded" /\ Verdict("denied") = "denied"
  /\ Verdict("unasked") = "refused" /\ Verdict("withdrawn") = "canceled"
BY DEF Verdict, None

LEMMA RestoredType == ASSUME TypeOK PROVE Restored \in [Steps -> WalkStates]
<1>1. Verdict(gate) \in WalkStates
  BY VerdictType DEF TypeOK, GateStates, WalkStates, Executing, Settled, Results, Ended
<1>2. \A t \in Tools : row[t] \in Ended \cup {None, "live"}
  BY DEF TypeOK
<1>3. QED
  BY <1>1, <1>2 DEF Restored, Steps, WalkStates, Executing, Settled, Results, Ended

LEMMA WithdrawnType == ASSUME TypeOK PROVE Withdrawn \in GateStates
BY DEF TypeOK, Withdrawn, GateStates, None

LEMMA StopChildrenType ==
  ASSUME TypeOK, NEW ts \in SUBSET Tools, NEW v \in Ended, StopChildren(ts, v)
  PROVE  row' \in [Tools -> Ended \cup {None, "live"}] /\ stop' \subseteq Tools
BY DEF TypeOK, StopChildren, Ended

LEMMA InsertType ==
  ASSUME TypeOK, NEW t \in Tools, Insert(t)
  PROVE  row' \in [Tools -> Ended \cup {None, "live"}] /\ saves' \in [Tools -> Nat]
BY DEF TypeOK, Insert

LEMMA OutcomeType == ASSUME NEW p PROVE PipelineOutcome(p) \in Ended
BY DEF PipelineOutcome, Stopped, Ended

\* What a walk can hold for a step.
LEMMA States ==
  /\ {"waiting", "opening", "awaiting", "launching", "saving", "adopting", "running", "skipped",
      "stopped", "succeeded", "failed", "canceled", "interrupted", "denied", "refused"} = WalkStates
  /\ Ended \subseteq WalkStates
BY DEF WalkStates, Executing, Settled, Results, Ended

\* Every step of a coordinator, and every other step, keeps the types.
LEMMA StepOfType ==
  ASSUME TypeOK, NEW p \in Processes, NEW t \in Tools, StepOf(p, t)
  PROVE  TypeOK'
<1> t \in Steps
  BY DEF Steps
<1>1. CASE Launch(p, t)
  <2>1. walk' \in [Processes -> [Steps -> WalkStates]]
    BY <1>1, SetType, States DEF TypeOK, Launch
  <2>2. QED
    BY <1>1, <2>1 DEF TypeOK, Launch, parent, children
<1>2. CASE LaunchStops(p, t)
  <2>1. walk' \in [Processes -> [Steps -> WalkStates]]
    BY <1>2, SetType, States DEF TypeOK, LaunchStops
  <2>2. QED
    BY <1>2, <2>1 DEF TypeOK, LaunchStops, parent, children
<1>3. CASE Release(p, t)
  <2>1. walk' \in [Processes -> [Steps -> WalkStates]]
    BY <1>3, SetType, States DEF TypeOK, Release
  <2>2. QED
    BY <1>3, <2>1 DEF TypeOK, Release, parent, children
<1>4. CASE ReleaseFails(p, t)
  <2>1. walk' \in [Processes -> [Steps -> WalkStates]]
    BY <1>4, SetType, States DEF TypeOK, ReleaseFails
  <2>2. faults' \in 0..MaxFaults
    BY <1>4, FaultType DEF ReleaseFails
  <2>3. QED
    BY <1>4, <2>1, <2>2 DEF TypeOK, ReleaseFails, parent, children
<1>5. CASE Adopt(p, t)
  <2>1. walk' \in [Processes -> [Steps -> WalkStates]]
    BY <1>5, SetType, States DEF TypeOK, Adopt
  <2>2. QED
    BY <1>5, <2>1 DEF TypeOK, Adopt, parent, children
<1>6. CASE SaveStep(p, t)
  <2>1. walk' \in [Processes -> [Steps -> WalkStates]]
    BY <1>6, SetType, States DEF TypeOK, SaveStep
  <2>2. row' \in [Tools -> Ended \cup {None, "live"}] /\ saves' \in [Tools -> Nat]
    BY <1>6, InsertType DEF TypeOK, SaveStep
  <2>3. QED
    BY <1>6, <2>1, <2>2 DEF TypeOK, SaveStep, parent, children
<1>7. CASE SaveStepFails(p, t)
  <2>1. walk' \in [Processes -> [Steps -> WalkStates]]
    BY <1>7, SetType, States DEF TypeOK, SaveStepFails
  <2>2. faults' \in 0..MaxFaults
    BY <1>7, FaultType DEF SaveStepFails
  <2>3. row' \in [Tools -> Ended \cup {None, "live"}] /\ saves' \in [Tools -> Nat]
    BY <1>7, InsertType DEF TypeOK, SaveStepFails
  <2>4. QED
    BY <1>7, <2>1, <2>2, <2>3 DEF TypeOK, SaveStepFails, parent, children
<1>8. CASE StepReports(p, t)
  <2>1. row[t] \in WalkStates
    BY <1>8, States DEF StepReports
  <2>2. walk' \in [Processes -> [Steps -> WalkStates]]
    BY <1>8, <2>1, SetType, States DEF TypeOK, StepReports
  <2>3. faults' \in 0..MaxFaults
    BY <1>8, FaultType DEF TypeOK, StepReports
  <2>4. QED
    BY <1>8, <2>2, <2>3 DEF TypeOK, StepReports, parent, children
<1>9. CASE StepStops(p, t)
  <2>1. walk' \in [Processes -> [Steps -> WalkStates]]
    BY <1>9, SetType, States DEF TypeOK, StepStops, Stopped
  <2>2. row' \in [Tools -> Ended \cup {None, "live"}] /\ stop' \subseteq Tools
    BY <1>9, StopChildrenType DEF StepStops, Stopped, Ended
  <2>3. QED
    BY <1>9, <2>1, <2>2 DEF TypeOK, StepStops, parent, children
<1>10. QED
  BY <1>1, <1>2, <1>3, <1>4, <1>5, <1>6, <1>7, <1>8, <1>9 DEF StepOf

LEMMA CoordinateType ==
  ASSUME TypeOK, NEW p \in Processes, Coordinate(p)
  PROVE  TypeOK'
<1> Gate \in Steps
  BY DEF Steps
<1>1. CASE \E s \in Steps : Skip(p, s)
  <2>1. walk' \in [Processes -> [Steps -> WalkStates]]
    BY <1>1, SetType, States DEF TypeOK, Skip
  <2>2. QED
    BY <1>1, <2>1 DEF TypeOK, Skip, parent, children
<1>2. CASE \E t \in Tools : StepOf(p, t)
  BY <1>2, StepOfType
<1>3. CASE Open(p)
  <2>1. walk' \in [Processes -> [Steps -> WalkStates]]
    BY <1>3, SetType, States DEF TypeOK, Open
  <2>2. faults' \in 0..MaxFaults
    BY <1>3, FaultType DEF TypeOK, Open
  <2>3. gate' \in GateStates
    BY <1>3 DEF TypeOK, Open, GateStates
  <2>4. QED
    BY <1>3, <2>1, <2>2, <2>3 DEF TypeOK, Open, parent, children
<1>4. CASE RecordRequest(p)
  <2>1. walk' \in [Processes -> [Steps -> WalkStates]]
    BY <1>4, SetType, States DEF TypeOK, RecordRequest
  <2>2. faults' \in 0..MaxFaults
    BY <1>4, FaultType DEF TypeOK, RecordRequest
  <2>3. gate' \in GateStates
    BY <1>4 DEF TypeOK, RecordRequest, GateStates
  <2>4. QED
    BY <1>4, <2>1, <2>2, <2>3 DEF TypeOK, RecordRequest, parent, children
<1>5. CASE Poll(p)
  <2>1. Verdict(gate) \in WalkStates
    BY <1>5, VerdictType, States DEF TypeOK, GateStates
  <2>2. walk' \in [Processes -> [Steps -> WalkStates]]
    BY <1>5, <2>1, SetType DEF TypeOK, Poll
  <2>3. QED
    BY <1>5, <2>1, <2>2 DEF TypeOK, Poll, parent, children
<1>6. CASE BeginPark(p)
  BY <1>6 DEF TypeOK, BeginPark, parent, children
<1>7. CASE Withdraw(p)
  <2>1. walk' \in [Processes -> [Steps -> WalkStates]]
    BY <1>7, SetType, States DEF TypeOK, Withdraw, Stopped
  <2>2. gate' \in GateStates
    BY <1>7, WithdrawnType DEF Withdraw
  <2>3. QED
    BY <1>7, <2>1, <2>2 DEF TypeOK, Withdraw, parent, children
<1>8. CASE Park(p)
  <2>1. /\ at' \in [Processes -> {"idle", "resumed", "walking", "parking", "stopping"}]
        /\ ctx' \in [Processes -> {"live", "canceled", "stopping"}]
        /\ walk' \in [Processes -> [Steps -> WalkStates]]
    BY <1>8, LeavesType DEF Park
  <2>2. status' \in Ended \cup {"running", "parked"} /\ owner' \in Processes \cup {None, Gone} /\ stale' \in BOOLEAN
    BY <1>8 DEF TypeOK, Park
  <2>3. QED
    BY <1>8, <2>1, <2>2 DEF TypeOK, Park, parent, children
<1>9. CASE ParkRefused(p)
  <2>1. faults' \in 0..MaxFaults
    BY <1>9, FaultType DEF TypeOK, ParkRefused
  <2>2. gate' \in GateStates
    BY <1>9, WithdrawnType DEF ParkRefused
  <2>3. QED
    BY <1>9, <2>1, <2>2 DEF TypeOK, ParkRefused, parent, children
<1>10. CASE End(p)
  <2>1. /\ at' \in [Processes -> {"idle", "resumed", "walking", "parking", "stopping"}]
        /\ ctx' \in [Processes -> {"live", "canceled", "stopping"}]
        /\ walk' \in [Processes -> [Steps -> WalkStates]]
    BY <1>10, LeavesType DEF End
  <2>2. status' \in Ended \cup {"running", "parked"}
    BY <1>10, OutcomeType DEF TypeOK, End, Finalize
  <2>3. QED
    BY <1>10, <2>1, <2>2 DEF TypeOK, End, parent, children
<1>11. CASE Load(p)
  <2>1. walk' \in [Processes -> [Steps -> WalkStates]]
    BY <1>11, RestoredType DEF TypeOK, Load
  <2>2. QED
    BY <1>11, <2>1 DEF TypeOK, Load, parent, children
<1>12. CASE LoadFails(p)
  <2>1. /\ at' \in [Processes -> {"idle", "resumed", "walking", "parking", "stopping"}]
        /\ ctx' \in [Processes -> {"live", "canceled", "stopping"}]
        /\ walk' \in [Processes -> [Steps -> WalkStates]]
    BY <1>12, LeavesType DEF LoadFails
  <2>2. faults' \in 0..MaxFaults
    BY <1>12, FaultType DEF TypeOK, LoadFails
  <2>3. status' \in Ended \cup {"running", "parked"}
    BY <1>12 DEF TypeOK, LoadFails, Finalize, Ended
  <2>4. QED
    BY <1>12, <2>1, <2>2, <2>3 DEF TypeOK, LoadFails, parent, children
<1>13. QED
  BY <1>1, <1>2, <1>3, <1>4, <1>5, <1>6, <1>7, <1>8, <1>9, <1>10, <1>11, <1>12 DEF Coordinate

LEMMA NextType ==
  ASSUME TypeOK, [Next]_vars
  PROVE  TypeOK'
<1>1. CASE \E p \in Processes : Coordinate(p)
  BY <1>1, CoordinateType
<1>2. CASE \E p \in Processes : ResumeParked(p)
  <2>1. faults' \in 0..MaxFaults
    BY <1>2, FaultType DEF TypeOK, ResumeParked
  <2>2. at' \in [Processes -> {"idle", "resumed", "walking", "parking", "stopping"}]
    BY <1>2 DEF TypeOK, ResumeParked
  <2>3. QED
    BY <1>2, <2>1, <2>2 DEF TypeOK, ResumeParked, parent, children
<1>3. CASE \E p \in Processes : Renew(p)
  BY <1>3 DEF TypeOK, Renew, parent, children
<1>4. CASE \E p \in Processes : Watch(p)
  BY <1>4 DEF TypeOK, Watch, parent, children
<1>5. CASE \E p \in Processes : Shutdown(p)
  <2>1. faults' \in 0..MaxFaults
    BY <1>5, FaultType DEF Shutdown
  <2>2. QED
    BY <1>5, <2>1 DEF TypeOK, Shutdown, parent, children
<1>6. CASE \E p \in Processes : Crash(p)
  <2>1. /\ at' \in [Processes -> {"idle", "resumed", "walking", "parking", "stopping"}]
        /\ ctx' \in [Processes -> {"live", "canceled", "stopping"}]
        /\ walk' \in [Processes -> [Steps -> WalkStates]]
    BY <1>6, LeavesType DEF Crash
  <2>2. faults' \in 0..MaxFaults
    BY <1>6, FaultType DEF Crash
  <2>3. QED
    BY <1>6, <2>1, <2>2 DEF TypeOK, Crash, parent, children
<1>7. CASE \E t \in Tools : ChildEnds(t)
  <2>1. faults' \in 0..MaxFaults
    BY <1>7, FaultType DEF TypeOK, ChildEnds
  <2>2. row' \in [Tools -> Ended \cup {None, "live"}]
    BY <1>7 DEF TypeOK, ChildEnds, Ended
  <2>3. QED
    BY <1>7, <2>1, <2>2 DEF TypeOK, ChildEnds, parent, children
<1>8. CASE Age
  <2>1. faults' \in 0..MaxFaults
    BY <1>8, FaultType DEF TypeOK, Age
  <2>2. QED
    BY <1>8, <2>1 DEF TypeOK, Age, parent, children
<1>9. CASE Sweep
  <2>1. row' \in [Tools -> Ended \cup {None, "live"}] /\ stop' \subseteq Tools
    BY <1>9, StopChildrenType DEF TypeOK, Sweep, Ended
  <2>2. gate' \in GateStates /\ status' \in Ended \cup {"running", "parked"}
    BY <1>9 DEF TypeOK, Sweep, GateStates, Ended
  <2>3. QED
    BY <1>9, <2>1, <2>2 DEF TypeOK, Sweep, parent, children
<1>10. CASE SweepOrphans
  <2>1. row' \in [Tools -> Ended \cup {None, "live"}] /\ stop' \subseteq Tools
    BY <1>10, StopChildrenType DEF SweepOrphans, Ended
  <2>2. gate' \in GateStates
    BY <1>10 DEF TypeOK, SweepOrphans, GateStates
  <2>3. QED
    BY <1>10, <2>1, <2>2 DEF TypeOK, SweepOrphans, parent, children
<1>11. CASE SettleStep
  <2>1. gate' \in GateStates
    BY <1>11 DEF SettleStep, GateStates
  <2>2. QED
    BY <1>11, <2>1 DEF TypeOK, SettleStep, parent, children
<1>12. CASE \E v \in {"yes", "no"} : ClaimStep(v)
  <2>1. gate' \in GateStates
    BY <1>12 DEF ClaimStep, GateStates
  <2>2. QED
    BY <1>12, <2>1 DEF TypeOK, ClaimStep, parent, children
<1>13. CASE CancelRead
  BY <1>13 DEF TypeOK, CancelRead, parent, children
<1>14. CASE CancelWaiting
  <2>1. status' \in Ended
    BY <1>14 DEF CancelWaiting, Ended
  <2>2. QED
    BY <1>14, <2>1 DEF TypeOK, CancelWaiting, parent, children
<1>15. CASE CancelWithdraws
  <2>1. faults' \in 0..MaxFaults
    BY <1>15, FaultType DEF TypeOK, CancelWithdraws
  <2>2. gate' \in GateStates
    BY <1>15, WithdrawnType DEF TypeOK, CancelWithdraws
  <2>3. QED
    BY <1>15, <2>1, <2>2 DEF TypeOK, CancelWithdraws, parent, children
<1>16. CASE CancelFlag
  BY <1>16 DEF TypeOK, CancelFlag, parent, children
<1>17. CASE UNCHANGED vars
  BY <1>17 DEF TypeOK, vars, parent, children
<1>18. QED
  BY <1>1, <1>2, <1>3, <1>4, <1>5, <1>6, <1>7, <1>8, <1>9, <1>10, <1>11, <1>12, <1>13, <1>14, <1>15, <1>16, <1>17 DEF Next, Person

LEMMA InitType == ASSUME Init PROVE TypeOK
<1>1. Fresh \in [Steps -> WalkStates]
  BY States DEF Fresh
<1>2. walk \in [Processes -> [Steps -> WalkStates]]
  BY <1>1 DEF Init
<1>3. /\ at \in [Processes -> {"idle", "resumed", "walking", "parking", "stopping"}]
      /\ ctx \in [Processes -> {"live", "canceled", "stopping"}]
  BY DEF Init
<1>4. row \in [Tools -> Ended \cup {None, "live"}] /\ saves \in [Tools -> Nat]
  BY DEF Init
<1>5. faults \in 0..MaxFaults
  BY ConstantsAssumption DEF Init
<1>6. QED
  BY <1>2, <1>3, <1>4, <1>5 DEF Init, TypeOK, GateStates

\* The types of the rows, of every walk and of every context hold for any graph and any number of
\* processes.
THEOREM TypeCorrect == Spec => []TypeOK
<1>1. Init => TypeOK
  BY InitType
<1>2. TypeOK /\ [Next]_vars => TypeOK'
  BY NextType
<1>3. QED
  BY <1>1, <1>2, PTL DEF Spec
-----------------------------------------------------------------------------
\* What a step leaves in the walks.

LEMMA SetValue ==
  ASSUME TypeOK, NEW p \in Processes, NEW s \in Steps, NEW v, Set(p, s, v)
  PROVE  \A q \in Processes, r \in Steps :
           walk'[q][r] = IF q = p /\ r = s THEN v ELSE walk[q][r]
BY DEF TypeOK, Set

LEMMA LeavesValue ==
  ASSUME TypeOK, NEW p \in Processes, Leaves(p)
  PROVE  /\ \A q \in Processes : at'[q] = IF q = p THEN "idle" ELSE at[q]
         /\ \A q \in Processes, r \in Steps :
              walk'[q][r] = IF q = p THEN "waiting" ELSE walk[q][r]
BY DEF TypeOK, Leaves, Fresh

LEMMA RestoredValue ==
  ASSUME TypeOK
  PROVE  /\ Restored[Gate] = Verdict(gate)
         /\ \A t \in Tools : Restored[t] \in Executing => row[t] # None
BY ConstantsAssumption DEF TypeOK, Restored, Steps, Executing, Ended, None

\* A walk that has yet to open the approval step is the only one, and finds it unopened; a workflow
\* that parked, or is about to, has opened it.
AskInv ==
  /\ \A p \in Processes :
       /\ at[p] \in {"resumed", "parking", "stopping"} => gate # None
       /\ walk[p][Gate] \in {"opening", "awaiting"} => gate # None
       /\ at[p] = "walking" /\ walk[p][Gate] = "waiting" => gate = None
  /\ gate = None =>
       /\ status # "parked"
       /\ \A p, q \in Processes : at[p] # "idle" /\ at[q] # "idle" => p = q

\* What a verdict has to be for a step to run.
Permits(t) == (Gate \in Deps[t] => gate = "approved") /\ (t \in OnDeny => gate = "denied")

\* Every walk holds the verdict that is stored, and launched what it permits.
VerdictInv ==
  /\ \A p \in Processes :
       /\ walk[p][Gate] = "succeeded" => gate = "approved"
       /\ walk[p][Gate] = "denied" => gate = "denied"
       /\ \A t \in Tools : walk[p][t] \in Executing => Permits(t)
  /\ \A t \in Tools : row[t] # None => Permits(t)

PathInv == TypeOK /\ AskInv /\ VerdictInv

\* A step a walk finds ready runs under the verdict that is stored.
LEMMA ReadyPermits ==
  ASSUME PathInv, NEW p \in Processes, NEW t \in Tools, Ready(walk[p], t)
  PROVE  Permits(t)
<1>1. Gate \notin Continues /\ Gate \in Steps
  BY ConstantsAssumption DEF Steps
<1>2. CASE Gate \in Deps[t]
  <2>1. walk[p][Gate] = "succeeded"
    BY <1>1, <1>2 DEF Ready, Blocked, Allows, Direct
  <2>2. t \notin OnDeny
    BY <2>1 DEF Ready, Blocked, Settled, Results, Ended
  <2>3. QED
    BY <2>1, <2>2 DEF PathInv, VerdictInv, Permits
<1>3. CASE Gate \notin Deps[t]
  <2>1. t \in OnDeny => walk[p][Gate] = "denied"
    BY DEF Ready, Blocked, Direct
  <2>2. QED
    BY <1>3, <2>1 DEF PathInv, VerdictInv, Permits
<1>4. QED
  BY <1>2, <1>3

\* What every step does to the approval step: a record stays, and so does a verdict.
GateKept ==
  /\ gate # None => gate' # None
  /\ gate \in {"approved", "denied"} => gate' = gate

\* A walk that launches only what is permitted keeps its verdict in line with the stored one.
LEMMA KeepsVerdicts ==
  ASSUME PathInv, GateKept,
         \A q \in Processes : \/ walk'[q][Gate] = walk[q][Gate]
                              \/ /\ walk'[q][Gate] = "succeeded" => gate = "approved"
                                 /\ walk'[q][Gate] = "denied" => gate = "denied",
         \A q \in Processes, t \in Tools :
           walk'[q][t] \in Executing => walk[q][t] \in Executing \/ Permits(t),
         \A t \in Tools : row'[t] # None => row[t] # None \/ Permits(t)
  PROVE  VerdictInv'
<1>1. ASSUME NEW t \in Tools, Permits(t) PROVE Permits(t)'
  BY <1>1 DEF GateKept, Permits
<1>2. ASSUME NEW q \in Processes
      PROVE  /\ walk'[q][Gate] = "succeeded" => gate' = "approved"
             /\ walk'[q][Gate] = "denied" => gate' = "denied"
  BY <1>2 DEF PathInv, VerdictInv, GateKept
<1>3. ASSUME NEW q \in Processes, NEW t \in Tools, walk'[q][t] \in Executing PROVE Permits(t)'
  BY <1>1, <1>3 DEF PathInv, VerdictInv
<1>4. ASSUME NEW t \in Tools, row'[t] # None PROVE Permits(t)'
  BY <1>1, <1>4 DEF PathInv, VerdictInv
<1>5. Executing' = Executing /\ None' = None
  BY DEF Executing, None
<1>6. QED
  BY <1>2, <1>3, <1>4, <1>5 DEF VerdictInv
-----------------------------------------------------------------------------
(* The graph, and advance, which is defined by recursion over it.          *)

\* No step comes after itself.
LEMMA Acyclic == \A s \in Steps : s \notin Behind[s]
<1>1. ASSUME NEW s \in Steps PROVE s \notin Behind[s]
  <2>1. {s} \in SUBSET Steps /\ {s} # {}
    OBVIOUS
  <2>2. PICK x \in {s} : Behind[x] \cap {s} = {}
    BY <2>1, GraphAssumption
  <2>3. QED
    BY <2>2
<1>2. QED
  BY <1>1

\* What a step comes after holds its dependencies and theirs.
LEMMA BehindFacts ==
  ASSUME NEW s \in Steps
  PROVE  /\ Behind[s] \subseteq Steps
         /\ Direct(s) \subseteq Behind[s]
         /\ \A j \in Behind[s] : Direct(j) \subseteq Behind[s] /\ Behind[j] \subseteq Behind[s]
<1> DEFINE Closed(S, i) == Direct(i) \subseteq S /\ \A k \in S : Direct(k) \subseteq S
<1>1. \A i \in Steps : Behind[i] = {j \in Steps : \A S \in SUBSET Steps : Closed(S, i) => j \in S}
  BY DEF Behind
<1>2. \A i \in Steps : Direct(i) \subseteq Steps
  BY ConstantsAssumption DEF Direct, Steps
<1> HIDE DEF Closed
<1>3. Behind[s] \subseteq Steps
  BY <1>1
<1>4. Direct(s) \subseteq Behind[s]
  BY <1>1, <1>2 DEF Closed
<1>5. ASSUME NEW j \in Behind[s] PROVE Direct(j) \subseteq Behind[s]
  BY <1>1, <1>2, <1>5 DEF Closed
<1>6. ASSUME NEW j \in Behind[s] PROVE Behind[j] \subseteq Behind[s]
  <2>1. ASSUME NEW S \in SUBSET Steps, Closed(S, s) PROVE Closed(S, j)
    BY <1>1, <1>6, <2>1 DEF Closed
  <2>2. QED
    BY <1>1, <1>3, <1>6, <2>1
<1>7. QED
  BY <1>3, <1>4, <1>5, <1>6

\* The steps advance looks at are behind the one it advances.
LEMMA AdvanceLocal ==
  ASSUME NEW rec, NEW v, NEW w, NEW s \in Steps, \A j \in Behind[s] : v[j] = w[j]
  PROVE  Advance(rec, v, s) = Advance(rec, w, s)
<1>1. /\ \A j \in Deps[s] : v[j] = w[j]
      /\ \A j \in Direct(s) : v[j] = w[j]
      /\ s \in OnDeny => v[Gate] = w[Gate]
  BY BehindFacts DEF Direct
<1>2. Blocked(v, s) <=> Blocked(w, s)
  BY <1>1 DEF Blocked, Allows
<1>3. Ready(v, s) <=> Ready(w, s)
  BY <1>1, <1>2 DEF Ready
<1>4. QED
  BY <1>2, <1>3 DEF Advance

\* A solution of advance's recursion for the steps of D.
Solves(rec, g, D) == \A s \in D : g[s] = Advance(rec, g, s)
Down(s) == Behind[s] \cup {s}

\* Two solutions agree where both are defined.
LEMMA AdvanceUnique ==
  ASSUME NEW rec, NEW g, NEW h, NEW s \in Steps, Solves(rec, g, Down(s)), Solves(rec, h, Down(s))
  PROVE  g[s] = h[s]
<1> DEFINE S == {j \in Down(s) : g[j] # h[j]}
<1> SUFFICES ASSUME S # {} PROVE FALSE
  BY DEF Down
<1>1. Down(s) \subseteq Steps /\ \A j \in Down(s) : Behind[j] \subseteq Down(s)
  BY BehindFacts DEF Down
<1>2. PICK j \in S : Behind[j] \cap S = {}
  BY <1>1, GraphAssumption
<1>3. \A i \in Behind[j] : g[i] = h[i]
  BY <1>1, <1>2
<1>4. Advance(rec, g, j) = Advance(rec, h, j)
  BY <1>1, <1>3, AdvanceLocal
<1>5. QED
  BY <1>1, <1>2, <1>4 DEF Solves

\* There is a solution for every step and those behind it.
LEMMA AdvanceDown ==
  ASSUME NEW rec, NEW s \in Steps
  PROVE  \E g : Solves(rec, g, Down(s))
<1> DEFINE Bad == {j \in Steps : ~\E g : Solves(rec, g, Down(j))}
<1> SUFFICES ASSUME Bad # {} PROVE FALSE
  OBVIOUS
<1>1. PICK b \in Bad : Behind[b] \cap Bad = {}
  BY GraphAssumption
<1> DEFINE G(j) == CHOOSE g : Solves(rec, g, Down(j))
           below == [j \in Behind[b] |-> G(j)[j]]
           h == [j \in Down(b) |-> IF j = b THEN Advance(rec, below, b) ELSE below[j]]
<1>2. b \in Steps /\ Behind[b] \subseteq Steps /\ b \notin Behind[b]
  BY <1>1, Acyclic, BehindFacts
<1>3. \A j \in Behind[b] : Solves(rec, G(j), Down(j))
  BY <1>1, <1>2
<1> HIDE DEF G
<1>4. \A j \in Behind[b] : h[j] = G(j)[j]
  BY <1>2 DEF Down
<1>5. ASSUME NEW j \in Behind[b] PROVE h[j] = Advance(rec, h, j)
  <2>1. G(j)[j] = Advance(rec, G(j), j)
    BY <1>3 DEF Solves, Down
  <2>2. ASSUME NEW i \in Behind[j] PROVE G(j)[i] = h[i]
    <3>1. i \in Behind[b] /\ i \in Steps /\ j \in Steps
      BY <1>2, <1>5, <2>2, BehindFacts
    <3>2. Down(i) \subseteq Down(j)
      BY <2>2, <3>1, BehindFacts DEF Down
    <3>3. Solves(rec, G(j), Down(i)) /\ Solves(rec, G(i), Down(i))
      BY <1>3, <3>1, <3>2 DEF Solves
    <3>4. G(j)[i] = G(i)[i]
      BY <3>1, <3>3, AdvanceUnique
    <3>5. QED
      BY <1>4, <3>1, <3>4
  <2>3. Advance(rec, G(j), j) = Advance(rec, h, j)
    <3> HIDE DEF h
    <3> QED BY <1>2, <2>2, AdvanceLocal
  <2>4. QED
    BY <1>4, <2>1, <2>3
<1>6. h[b] = Advance(rec, h, b)
  <2>1. h[b] = Advance(rec, below, b)
    BY DEF Down
  <2>2. \A i \in Behind[b] : below[i] = h[i]
    BY <1>2 DEF Down
  <2>3. Advance(rec, below, b) = Advance(rec, h, b)
    <3> HIDE DEF h, below
    <3> QED BY <1>2, <2>2, AdvanceLocal
  <2>4. QED
    BY <2>1, <2>3
<1>7. Solves(rec, h, Down(b))
  <2> HIDE DEF h
  <2> QED BY <1>5, <1>6 DEF Solves, Down
<1>8. QED
  BY <1>1, <1>7

\* advance is what its recursion says.
LEMMA AdvancedIs ==
  ASSUME NEW rec, NEW s \in Steps
  PROVE  Advanced(rec)[s] = Advance(rec, Advanced(rec), s)
<1> DEFINE G(j) == CHOOSE g : Solves(rec, g, Down(j))
           f == [j \in Steps |-> G(j)[j]]
<1>1. \A j \in Steps : Solves(rec, G(j), Down(j))
  BY AdvanceDown
<1> HIDE DEF G
<1>2. ASSUME NEW j \in Steps PROVE f[j] = Advance(rec, f, j)
  <2>1. G(j)[j] = Advance(rec, G(j), j)
    BY <1>1 DEF Solves, Down
  <2>2. ASSUME NEW i \in Behind[j] PROVE G(j)[i] = f[i]
    <3>1. i \in Steps
      BY <2>2, BehindFacts
    <3>2. Down(i) \subseteq Down(j)
      BY <2>2, <3>1, BehindFacts DEF Down
    <3>3. Solves(rec, G(j), Down(i)) /\ Solves(rec, G(i), Down(i))
      BY <1>1, <3>1, <3>2 DEF Solves
    <3>4. QED
      BY <3>1, <3>3, AdvanceUnique
  <2>3. Advance(rec, G(j), j) = Advance(rec, f, j)
    <3> HIDE DEF f
    <3> QED BY <2>2, AdvanceLocal
  <2>4. QED
    BY <2>1, <2>3
<1>3. f = [j \in Steps |-> Advance(rec, f, j)]
  BY <1>2
<1> DEFINE Rec(w) == [j \in Steps |-> Advance(rec, w, j)]
<1>4. \E w : w = Rec(w)
  BY <1>3
<1>5. Advanced(rec) = Rec(Advanced(rec))
  <2>1. Advanced(rec) = CHOOSE w : w = Rec(w)
    BY DEF Advanced
  <2> HIDE DEF Rec
  <2>2. QED
    BY <1>4, <2>1
<1>6. QED
  BY <1>5

\* The tools that do not wait for the approval step, and those that do.
Free == {t \in Tools : Gate \notin Behind[t]}
Gated == Tools \ Free

\* What a walk holds for a step it has not launched.
Unlaunched == {"waiting", "skipped", "stopped"}

\* What it holds for one it released or found released.
Begun == {"saving", "adopting", "running", "succeeded", "failed", "interrupted"}

\* The steps a free tool comes after are free tools.
LEMMA FreeFacts ==
  /\ Free \subseteq Tools /\ Tools \subseteq Steps /\ Gate \in Steps /\ Gate \notin Tools
  /\ \A t \in Free : Direct(t) \subseteq Free /\ Deps[t] = Direct(t)
  /\ \A t \in Free : Gate \notin Deps[t] /\ t \notin OnDeny
  /\ \A s \in Steps : Deps[s] \subseteq Steps /\ Deps[s] \subseteq Direct(s) /\ s \notin Direct(s)
  /\ Direct(Gate) \subseteq Free /\ Direct(Gate) = Deps[Gate]
<1>1. Free \subseteq Tools /\ Tools \subseteq Steps /\ Gate \in Steps /\ Gate \notin Tools
  BY ConstantsAssumption DEF Free, Steps
<1>2. \A s \in Steps : s \notin Behind[s]
  BY Acyclic
<1>3. \A s \in Steps : Deps[s] \subseteq Steps /\ Deps[s] \subseteq Direct(s) /\ s \notin Direct(s)
  BY <1>2, BehindFacts, ConstantsAssumption DEF Direct
<1>4. ASSUME NEW t \in Free
      PROVE  /\ Direct(t) \subseteq Free /\ Deps[t] = Direct(t)
             /\ Gate \notin Deps[t] /\ t \notin OnDeny
  <2>1. Gate \notin Behind[t] /\ t \in Steps
    BY <1>1, <1>4 DEF Free
  <2>2. Gate \notin Direct(t)
    BY <2>1, BehindFacts
  <2>3. t \notin OnDeny /\ Deps[t] = Direct(t) /\ Gate \notin Deps[t]
    BY <2>2 DEF Direct
  <2>4. ASSUME NEW j \in Direct(t) PROVE j \in Free
    <3>1. j \in Behind[t]
      BY <2>1, <2>4, BehindFacts
    <3>2. j \in Steps /\ Behind[j] \subseteq Behind[t]
      BY <2>1, <3>1, BehindFacts
    <3>3. QED
      BY <2>1, <2>2, <2>4, <3>2 DEF Free, Steps
  <2>5. QED
    BY <2>3, <2>4
<1>5. Direct(Gate) \subseteq Free /\ Direct(Gate) = Deps[Gate]
  <2>1. Gate \notin OnDeny
    BY <1>1, ConstantsAssumption
  <2>2. ASSUME NEW j \in Direct(Gate) PROVE j \in Free
    <3>1. j \in Behind[Gate]
      BY <1>1, <2>2, BehindFacts
    <3>2. j \in Steps /\ Behind[j] \subseteq Behind[Gate] /\ j # Gate
      BY <1>1, <1>2, <3>1, BehindFacts
    <3>3. QED
      BY <1>1, <1>2, <3>2 DEF Free, Steps
  <2>3. QED
    BY <2>1, <2>2 DEF Direct
<1>6. QED
  BY <1>1, <1>3, <1>4, <1>5
-----------------------------------------------------------------------------
(* The kinds of step: what an action does that the invariants can see.     *)

\* Records of tools only end.
RowsEnd == \A t \in Tools : row'[t] = row[t] \/ (row[t] = "live" /\ row'[t] \in Ended)

\* A record that ended stays as it is, and none appears.
LEMMA RowsEndFacts ==
  ASSUME RowsEnd
  PROVE  \A t \in Tools : /\ row'[t] = None <=> row[t] = None
                          /\ row[t] \in Ended => row'[t] = row[t]
                          /\ row[t] # "live" => row'[t] = row[t]
BY DEF RowsEnd, Ended, None

\* Children that are stopped end, or go on.
LEMMA StopChildrenEnds ==
  ASSUME NEW ts \in SUBSET Tools, NEW v \in Ended, StopChildren(ts, v)
  PROVE  RowsEnd
BY DEF StopChildren, RowsEnd

\* A walk comes to hold v for a step it had not settled, without storing a record.
Moves(p, s, v) ==
  /\ Walking(p) /\ walk[p][s] \notin Settled /\ Set(p, s, v)
  /\ UNCHANGED <<status, at, ctx, saves>> /\ GateKept /\ RowsEnd
  /\ (gate = None => gate' = None \/ s = Gate) /\ (row' = row \/ gate' = gate)
  /\ \/ released' = released
     \/ released' = released \cup {s} /\ s \in Gated /\ walk[p][s] = "launching"
  /\ s \in Tools => v \notin {"opening", "awaiting", "denied"}
  /\ \/ /\ s = Gate /\ v \notin Executing /\ v # "waiting" /\ (v = "skipped" => Blocked(walk[p], s))
        /\ v \in {"opening", "awaiting"} => gate' # None
        /\ (v = "succeeded" => gate = "approved") /\ (v = "denied" => gate = "denied")
     \/ s \in Tools /\ v = "launching" /\ walk[p][s] = "waiting" /\ Ready(walk[p], s) /\ ctx[p] = "live"
     \/ v \in {"skipped", "stopped"} /\ walk[p][s] = "waiting" /\ (v = "skipped" => Blocked(walk[p], s))
     \/ /\ s \in Tools /\ walk[p][s] \in Executing /\ v \notin Unlaunched \cup {"launching"}
        /\ v = "saving" => walk[p][s] = "launching" /\ (s \in Gated => s \notin released)
        /\ v = "succeeded" => row[s] = "succeeded"
        /\ s \in Gated => \/ s \in released' \/ v = "refused" \/ walk[p][s] \in Begun
                          \/ v = "canceled" /\ ctx[p] # "live"

\* A walk stores the record of a step.
Stores(p, t, v) ==
  /\ Walking(p) /\ walk[p][t] = "saving" /\ v \in {"running", "failed"}
  /\ Insert(t) /\ Set(p, t, v)
  /\ UNCHANGED <<status, at, ctx, released, gate>>

\* No walk changes; a coordinator may turn to parking or to stopping.
Stays ==
  /\ UNCHANGED <<walk, released, saves>> /\ GateKept /\ RowsEnd
  /\ gate = None => gate' = None
  /\ \/ row' = row /\ status' = status
     \/ gate' \in {"approved", "denied"} => gate' = gate
  /\ \A q \in Processes :
       /\ \/ at'[q] = at[q]
          \/ gate # None /\ at[q] \in {"walking", "parking"} /\ at'[q] \in {"parking", "stopping"}
       /\ ctx'[q] = ctx[q] \/ ctx'[q] # "live"
  /\ (status \in Ended => status' = status) /\ (status' = "succeeded" => status = "succeeded")
  /\ status' = "parked" => status = "parked" \/ StalledAtApproval

\* A coordinator returns or dies.
Quits(p) ==
  /\ Leaves(p) /\ at[p] # "idle" /\ UNCHANGED children
  /\ status \in Ended => status' = status
  /\ status' = "parked" => status = "parked" \/ at[p] = "parking"
  /\ status' = "succeeded" =>
       \/ status = "succeeded"
       \/ /\ Quiet(p) /\ ~Running(p) /\ walk[p][Gate] # "awaiting"
          /\ PipelineOutcome(p) = "succeeded"

\* A record of the approval step, and a verdict, survive every step.
LEMMA GateStep ==
  ASSUME PathInv, [Next]_vars
  PROVE  GateKept
<1>1. CASE \E p \in Processes : Open(p)
  BY <1>1 DEF PathInv, AskInv, Open, Walking, GateKept, None
<1>2. CASE \E p \in Processes : RecordRequest(p)
  BY <1>2 DEF RecordRequest, GateKept, None
<1>3. CASE \E p \in Processes : Withdraw(p) \/ ParkRefused(p)
  BY <1>3 DEF Withdraw, ParkRefused, Withdrawn, GateKept, None
<1>4. CASE Sweep \/ SweepOrphans
  BY <1>4 DEF Sweep, SweepOrphans, GateKept, None
<1>5. CASE SettleStep \/ \E v \in {"yes", "no"} : ClaimStep(v)
  BY <1>5 DEF SettleStep, ClaimStep, GateKept, None
<1>6. CASE CancelWithdraws
  BY <1>6 DEF CancelWithdraws, Withdrawn, GateKept, None
<1>7. CASE gate' = gate
  BY <1>7 DEF GateKept
<1>8. ASSUME NEW p \in Processes, NEW t \in Tools, StepOf(p, t) PROVE gate' = gate
  BY <1>8 DEF StepOf, Launch, LaunchStops, Release, ReleaseFails, Adopt, SaveStep, SaveStepFails,
              StepReports, StepStops, children
<1>9. ASSUME NEW p \in Processes, Coordinate(p)
      PROVE  Open(p) \/ RecordRequest(p) \/ Withdraw(p) \/ ParkRefused(p) \/ gate' = gate
  BY <1>8, <1>9 DEF Coordinate, Skip, Poll, BeginPark, Park, End, Load, LoadFails, children
<1>10. ASSUME NEW p \in Processes,
              ResumeParked(p) \/ Renew(p) \/ Watch(p) \/ Shutdown(p) \/ Crash(p)
       PROVE  gate' = gate
  BY <1>10 DEF ResumeParked, Renew, Watch, Shutdown, Crash, children
<1>11. ASSUME (\E t \in Tools : ChildEnds(t)) \/ Age \/ CancelRead \/ CancelWaiting \/ CancelFlag
       PROVE  gate' = gate
  BY <1>11 DEF ChildEnds, Age, CancelRead, CancelWaiting, CancelFlag, children
<1>12. CASE UNCHANGED vars
  BY <1>7, <1>12 DEF vars, children
<1>13. QED
  BY <1>1, <1>2, <1>3, <1>4, <1>5, <1>6, <1>7, <1>9, <1>10, <1>11, <1>12 DEF Next, Person

\* Every action is of one of these kinds.
LEMMA StepOfKind ==
  ASSUME PathInv, GateKept, NEW p \in Processes, NEW t \in Tools, StepOf(p, t)
  PROVE  \E v : Moves(p, t, v) \/ Stores(p, t, v)
<1> USE DEF Walking
<1>1. t \in Steps /\ t # Gate /\ (t \in Gated <=> Gate \in Behind[t])
  BY FreeFacts DEF Gated, Free
<1>2. row' = row => RowsEnd
  BY DEF RowsEnd
<1>3. CASE Launch(p, t)
  <2>1. Moves(p, t, "launching")
    BY <1>2, <1>3 DEF Launch, Moves, parent, children, Settled, Results, Ended
  <2>2. QED
    BY <2>1
<1>4. CASE LaunchStops(p, t)
  <2>1. Moves(p, t, "canceled")
    BY <1>2, <1>4 DEF LaunchStops, Moves, parent, children, Settled, Results, Ended, Executing, Unlaunched
  <2>2. QED
    BY <2>1
<1>5. CASE Release(p, t)
  <2>1. Moves(p, t, "saving") \/ Moves(p, t, "adopting")
    BY <1>1, <1>2, <1>5 DEF Release, Moves, parent, Settled, Results, Ended, Executing, Unlaunched
  <2>2. QED
    BY <2>1
<1>6. CASE ReleaseFails(p, t)
  <2>1. Moves(p, t, "refused")
    BY <1>1, <1>2, <1>6 DEF ReleaseFails, Moves, parent, Settled, Results, Ended, Executing, Unlaunched
  <2>2. QED
    BY <2>1
<1>7. CASE Adopt(p, t)
  <2>1. Moves(p, t, "running") \/ Moves(p, t, "canceled") \/ Moves(p, t, "refused")
    BY <1>2, <1>7 DEF Adopt, Moves, parent, children, Settled, Results, Ended, Executing, Unlaunched, Begun
  <2>2. QED
    BY <2>1
<1>8. CASE SaveStep(p, t)
  <2>1. Stores(p, t, "running")
    BY <1>8 DEF SaveStep, Stores, parent
  <2>2. QED
    BY <2>1
<1>9. CASE SaveStepFails(p, t)
  <2>1. CASE Insert(t)
    <3>1. Stores(p, t, "failed")
      BY <1>9, <2>1 DEF SaveStepFails, Stores, parent
    <3>2. QED
      BY <3>1
  <2>2. CASE UNCHANGED <<row, saves>>
    <3>1. Moves(p, t, "failed")
      BY <1>2, <1>9, <2>2 DEF SaveStepFails, Moves, parent, Settled, Results, Ended, Executing, Unlaunched, Begun
    <3>2. QED
      BY <3>1
  <2>3. QED
    BY <1>9, <2>1, <2>2 DEF SaveStepFails
<1>10. CASE StepReports(p, t)
  <2>1. row[t] \in Ended /\ row[t] \notin {"opening", "awaiting", "denied", "waiting", "skipped", "stopped", "launching", "saving"}
    BY <1>10 DEF StepReports, Ended
  <2>2. Moves(p, t, row[t]) \/ Moves(p, t, "refused")
    BY <1>2, <1>10, <2>1 DEF StepReports, Moves, parent, children, Settled, Results, Ended, Executing, Unlaunched, Begun
  <2>3. QED
    BY <2>2
<1>11. CASE StepStops(p, t)
  <2>1. Stopped(p) \in {"interrupted", "canceled"} /\ Stopped(p) \in Ended
    BY DEF Stopped, Ended
  <2>2. RowsEnd
    BY <1>11, <2>1, StopChildrenEnds DEF StepStops
  <2>3. Moves(p, t, Stopped(p))
    BY <1>11, <2>1, <2>2 DEF StepStops, Moves, parent, Settled, Results, Ended, Executing, Unlaunched, Begun
  <2>4. QED
    BY <2>3
<1>12. QED
  BY <1>3, <1>4, <1>5, <1>6, <1>7, <1>8, <1>9, <1>10, <1>11 DEF StepOf

LEMMA CoordinateKind ==
  ASSUME PathInv, GateKept, NEW p \in Processes, Coordinate(p)
  PROVE  \/ \E s \in Steps : \E v : Moves(p, s, v)
         \/ \E t \in Tools : \E v : Stores(p, t, v)
         \/ Stays \/ Quits(p) \/ Load(p)
<1> USE DEF Walking
<1>1. Gate \in Steps /\ Gate \notin Tools /\ Tools \subseteq Steps
  BY FreeFacts
<1>2. row' = row => RowsEnd
  BY DEF RowsEnd
<1>3. CASE \E s \in Steps : Skip(p, s)
  <2>1. PICK s \in Steps : Skip(p, s)
    BY <1>3
  <2>2. Moves(p, s, "skipped") \/ Moves(p, s, "stopped")
    BY <1>2, <2>1 DEF Skip, Moves, parent, children, Settled, Results, Ended
  <2>3. QED
    BY <2>2
<1>4. CASE \E t \in Tools : StepOf(p, t)
  BY <1>1, <1>4, StepOfKind
<1>5. CASE Open(p)
  <2>1. Moves(p, Gate, "opening") \/ Moves(p, Gate, "refused")
    BY <1>1, <1>2, <1>5 DEF Open, Moves, parent, Settled, Results, Ended, Executing, None
  <2>2. QED
    BY <1>1, <2>1
<1>6. CASE RecordRequest(p)
  <2>1. gate # None
    BY <1>6 DEF RecordRequest, PathInv, AskInv
  <2>2. Moves(p, Gate, "awaiting") \/ Moves(p, Gate, "refused")
    BY <1>1, <1>2, <1>6, <2>1 DEF RecordRequest, Moves, parent, Settled, Results, Ended, Executing, None
  <2>3. QED
    BY <1>1, <2>2
<1>7. CASE Poll(p)
  <2>1. gate \in GateStates \ {None}
    BY <1>7 DEF Poll, PathInv, TypeOK, AskInv
  <2>2. /\ Verdict(gate) \in {"succeeded", "denied", "refused", "canceled"}
        /\ Verdict(gate) = "succeeded" => gate = "approved"
        /\ Verdict(gate) = "denied" => gate = "denied"
    BY <1>7, <2>1, VerdictType DEF Poll, GateStates
  <2>3. Moves(p, Gate, Verdict(gate))
    BY <1>1, <1>2, <1>7, <2>2 DEF Poll, Moves, parent, children, Settled, Results, Ended, Executing
  <2>4. QED
    BY <1>1, <2>3
<1>8. CASE BeginPark(p)
  <2>1. gate # None
    BY <1>8 DEF BeginPark, PathInv, AskInv
  <2>2. \A q \in Processes : at'[q] = IF q = p THEN "parking" ELSE at[q]
    BY <1>8 DEF BeginPark, PathInv, TypeOK
  <2>3. QED
    BY <1>2, <1>8, <2>1, <2>2 DEF BeginPark, Quiet, Stays, parent, children
<1>9. CASE Withdraw(p)
  <2>1. gate # None
    BY <1>9 DEF Withdraw, PathInv, AskInv
  <2>2. Stopped(p) \in {"interrupted", "canceled"}
    BY DEF Stopped
  <2>3. Moves(p, Gate, Stopped(p))
    BY <1>1, <1>2, <1>9, <2>1, <2>2 DEF Withdraw, Quiet, Moves, parent, Settled, Results, Ended, Executing
  <2>4. QED
    BY <1>1, <2>3
<1>10. CASE Park(p)
  BY <1>10 DEF Park, CanPark, Holds, Quits, children, Ended
<1>11. CASE ParkRefused(p)
  <2>1. gate # None
    BY <1>11 DEF ParkRefused, PathInv, AskInv
  <2>2. \A q \in Processes : at'[q] = IF q = p THEN "stopping" ELSE at[q]
    BY <1>11 DEF ParkRefused, PathInv, TypeOK
  <2>3. QED
    BY <1>2, <1>11, <2>1, <2>2 DEF ParkRefused, Stays, parent
<1>12. CASE End(p)
  <2>1. at[p] # "idle" /\ (at[p] = "stopping" => PipelineOutcome(p) # "succeeded")
    BY <1>12 DEF End, Quiet, PipelineOutcome, Stopped
  <2>2. PipelineOutcome(p) # "parked"
    BY OutcomeType DEF Ended
  <2>3. QED
    BY <1>12, <2>1, <2>2 DEF End, Finalize, Holds, Quits, Ended
<1>13. CASE Load(p)
  BY <1>13
<1>14. CASE LoadFails(p)
  BY <1>14 DEF LoadFails, Finalize, Holds, Quits, Ended
<1>15. QED
  BY <1>3, <1>4, <1>5, <1>6, <1>7, <1>8, <1>9, <1>10, <1>11, <1>12, <1>13, <1>14 DEF Coordinate

LEMMA NextKind ==
  ASSUME PathInv, [Next]_vars
  PROVE  \/ \E p \in Processes : \E s \in Steps : \E v : Moves(p, s, v)
         \/ \E p \in Processes : \E t \in Tools : \E v : Stores(p, t, v)
         \/ \E p \in Processes : Quits(p) \/ ResumeParked(p) \/ Load(p)
         \/ Stays
<1>1. GateKept
  BY GateStep
<1>2. row' = row => RowsEnd
  BY DEF RowsEnd
<1>3. ASSUME NEW p \in Processes, Coordinate(p)
      PROVE  \/ \E s \in Steps : \E v : Moves(p, s, v)
             \/ \E t \in Tools : \E v : Stores(p, t, v)
             \/ Stays \/ Quits(p) \/ Load(p)
  BY <1>1, <1>3, CoordinateKind
<1>4. ASSUME NEW p \in Processes, Renew(p) \/ Watch(p) \/ Shutdown(p) PROVE Stays
  <2>1. \A q \in Processes : ctx'[q] = ctx[q] \/ ctx'[q] # "live"
    BY <1>4 DEF PathInv, TypeOK, Renew, Watch, Shutdown
  <2>2. QED
    BY <1>1, <1>2, <1>4, <2>1 DEF Renew, Watch, Shutdown, Stays, parent, children
<1>5. ASSUME NEW p \in Processes, Crash(p) PROVE Quits(p)
  BY <1>5 DEF Crash, Quits
<1>6. ASSUME NEW t \in Tools, ChildEnds(t) PROVE Stays
  <2>1. RowsEnd
    BY <1>6 DEF ChildEnds, RowsEnd, PathInv, TypeOK, Ended
  <2>2. QED
    BY <1>1, <1>6, <2>1 DEF ChildEnds, Stays, parent
<1>7. ASSUME Sweep \/ SweepOrphans PROVE Stays
  <2>1. RowsEnd
    BY <1>2, <1>7, StopChildrenEnds DEF Sweep, SweepOrphans, Ended
  <2>2. QED
    BY <1>1, <1>7, <2>1 DEF Sweep, SweepOrphans, Stays, parent, None, Ended
<1>8. ASSUME Age \/ CancelRead \/ CancelWaiting \/ CancelFlag \/ UNCHANGED vars PROVE Stays
  BY <1>1, <1>2, <1>8 DEF Age, CancelRead, CancelWaiting, CancelFlag, Stays, vars, parent, children, Ended
<1>9. ASSUME SettleStep \/ (\E v \in {"yes", "no"} : ClaimStep(v)) \/ CancelWithdraws PROVE Stays
  BY <1>1, <1>2, <1>9 DEF SettleStep, ClaimStep, CancelWithdraws, Withdrawn, Stays, parent, None
<1>10. QED
  BY <1>3, <1>4, <1>5, <1>6, <1>7, <1>8, <1>9 DEF Next, Person
-----------------------------------------------------------------------------
(* The two paths behind the approval step.                                 *)

\* A walk that moves on keeps to the verdict: what it launches was ready, what it asks is recorded.
LEMMA MovesPaths ==
  ASSUME PathInv, NEW p \in Processes, NEW s \in Steps, NEW v, Moves(p, s, v)
  PROVE  AskInv' /\ VerdictInv'
<1>1. \A q \in Processes, r \in Steps : walk'[q][r] = IF q = p /\ r = s THEN v ELSE walk[q][r]
  BY SetValue DEF PathInv, Moves
<1>2. Gate \in Steps /\ Gate \notin Tools /\ Tools \subseteq Steps
  BY FreeFacts
<1>3. at' = at /\ status' = status /\ at[p] = "walking"
  BY DEF Moves, Walking
<1>4. s = Gate => /\ v # "waiting" /\ (v \in {"opening", "awaiting"} => gate' # None)
                  /\ (v = "succeeded" => gate = "approved") /\ (v = "denied" => gate = "denied")
  BY <1>2 DEF Moves
<1>5. AskInv'
  <2>1. CASE gate = None
    BY <1>1, <1>2, <1>3, <1>4, <2>1 DEF PathInv, AskInv, Moves
  <2>2. CASE gate # None
    BY <1>1, <1>2, <1>3, <1>4, <2>2 DEF PathInv, AskInv, Moves, GateKept
  <2>3. QED
    BY <2>1, <2>2
<1>6. s \in Tools /\ v \in Executing => walk[p][s] \in Executing \/ Ready(walk[p], s)
  BY <1>2 DEF Moves, Executing
<1>7. s \in Tools /\ v \in Executing => walk[p][s] \in Executing \/ Permits(s)
  BY <1>6, ReadyPermits
<1>8. \A t \in Tools : row'[t] # None => row[t] # None
  BY RowsEndFacts DEF Moves
<1>9. VerdictInv'
  <2>1. \A q \in Processes, t \in Tools :
          walk'[q][t] \in Executing => walk[q][t] \in Executing \/ Permits(t)
    BY <1>1, <1>2, <1>7
  <2>2. QED
    BY <1>1, <1>2, <1>4, <1>8, <2>1, KeepsVerdicts DEF Moves
<1>10. QED
  BY <1>5, <1>9

\* A record is stored for a step that executes, which the verdict permits.
LEMMA StoresPaths ==
  ASSUME PathInv, NEW p \in Processes, NEW t \in Tools, NEW v, Stores(p, t, v)
  PROVE  AskInv' /\ VerdictInv'
<1>1. Gate \in Steps /\ Gate \notin Tools /\ Tools \subseteq Steps
  BY FreeFacts
<1>2. \A q \in Processes, r \in Steps : walk'[q][r] = IF q = p /\ r = t THEN v ELSE walk[q][r]
  BY <1>1, SetValue DEF PathInv, Stores
<1>3. gate' = gate /\ at' = at /\ status' = status /\ walk[p][t] \in Executing
  BY DEF Stores, Executing
<1>4. \A x \in Tools : row'[x] = row[x] \/ x = t
  BY DEF Stores, Insert, PathInv, TypeOK
<1>5. Permits(t)
  BY <1>3 DEF PathInv, VerdictInv
<1>6. AskInv'
  BY <1>1, <1>2, <1>3 DEF PathInv, AskInv
<1>7. VerdictInv'
  BY <1>1, <1>2, <1>3, <1>4, <1>5, KeepsVerdicts DEF GateKept
<1>8. QED
  BY <1>6, <1>7

\* Where no walk changes, verdicts stay.
LEMMA StaysPaths ==
  ASSUME PathInv, Stays
  PROVE  AskInv' /\ VerdictInv'
<1>1. AskInv'
  <2>1. CASE gate = None
    BY <2>1 DEF Stays, StalledAtApproval, PathInv, AskInv
  <2>2. CASE gate # None
    BY <2>2 DEF Stays, GateKept, PathInv, AskInv
  <2>3. QED
    BY <2>1, <2>2
<1>2. \A t \in Tools : row'[t] # None => row[t] # None
  BY RowsEndFacts DEF Stays
<1>3. VerdictInv'
  BY <1>2, KeepsVerdicts DEF Stays
<1>4. QED
  BY <1>1, <1>3

\* A coordinator that returns leaves nothing that depends on a verdict.
LEMMA QuitsPaths ==
  ASSUME PathInv, NEW p \in Processes, Quits(p)
  PROVE  AskInv' /\ VerdictInv'
<1>1. /\ \A q \in Processes : at'[q] = IF q = p THEN "idle" ELSE at[q]
      /\ \A q \in Processes, r \in Steps : walk'[q][r] = IF q = p THEN "waiting" ELSE walk[q][r]
  BY LeavesValue DEF PathInv, Quits
<1>2. Gate \in Steps /\ Tools \subseteq Steps /\ gate' = gate /\ row' = row
  BY FreeFacts DEF Quits, children
<1>3. AskInv'
  BY <1>1, <1>2 DEF Quits, PathInv, AskInv
<1>4. VerdictInv'
  BY <1>1, <1>2, KeepsVerdicts DEF GateKept, Executing
<1>5. QED
  BY <1>3, <1>4

\* A walk that is resumed holds the verdict its record names.
LEMMA ResumesPaths ==
  ASSUME PathInv, NEW p \in Processes, ResumeParked(p) \/ Load(p)
  PROVE  AskInv' /\ VerdictInv'
<1>1. Gate \in Steps /\ Tools \subseteq Steps /\ gate' = gate /\ row' = row
  BY FreeFacts DEF ResumeParked, Load, children
<1>2. CASE ResumeParked(p)
  <2>1. gate # None /\ walk' = walk /\ status' # "parked"
    BY <1>2 DEF ResumeParked, CanResume, PathInv, AskInv
  <2>2. \A q \in Processes : at'[q] = at[q] \/ at'[q] = "resumed"
    BY <1>2 DEF ResumeParked, PathInv, TypeOK
  <2>3. AskInv'
    BY <1>1, <2>1, <2>2 DEF PathInv, AskInv
  <2>4. VerdictInv'
    BY <1>1, <2>1, KeepsVerdicts DEF GateKept
  <2>5. QED
    BY <2>3, <2>4
<1>3. CASE Load(p)
  <2>1. /\ \A q \in Processes, r \in Steps : walk'[q][r] = IF q = p THEN Restored[r] ELSE walk[q][r]
        /\ \A q \in Processes : at'[q] = IF q = p THEN "walking" ELSE at[q]
        /\ status' = status /\ gate # None
    BY <1>3 DEF Load, PathInv, TypeOK, AskInv, parent
  <2>2. /\ gate \in GateStates \ {None} /\ Restored[Gate] = Verdict(gate)
        /\ \A t \in Tools : Restored[t] \in Executing => row[t] # None
    BY <2>1, RestoredValue DEF PathInv, TypeOK
  <2>3. /\ Verdict(gate) # "waiting"
        /\ Verdict(gate) = "succeeded" => gate = "approved"
        /\ Verdict(gate) = "denied" => gate = "denied"
    BY <2>2, VerdictType DEF GateStates
  <2>4. AskInv'
    BY <1>1, <2>1, <2>2, <2>3 DEF PathInv, AskInv
  <2>5. \A q \in Processes, t \in Tools :
          walk'[q][t] \in Executing => walk[q][t] \in Executing \/ Permits(t)
    BY <1>1, <2>1, <2>2 DEF PathInv, VerdictInv
  <2>6. VerdictInv'
    BY <1>1, <2>1, <2>2, <2>3, <2>5, KeepsVerdicts DEF GateKept
  <2>7. QED
    BY <2>4, <2>6
<1>4. QED
  BY <1>2, <1>3

\* Every step keeps the walks and the records under the verdict.
LEMMA NextPaths ==
  ASSUME PathInv, [Next]_vars
  PROVE  PathInv'
<1>1. TypeOK'
  BY NextType DEF PathInv
<1>2. AskInv' /\ VerdictInv'
  BY NextKind, MovesPaths, StoresPaths, StaysPaths, QuitsPaths, ResumesPaths
<1>3. QED
  BY <1>1, <1>2 DEF PathInv

\* A workflow that starts has no verdict and no records.
LEMMA InitPaths == ASSUME Init PROVE PathInv
<1>1. Gate \in Steps /\ Tools \subseteq Steps
  BY DEF Steps
<1>2. \A p \in Processes, s \in Steps : walk[p][s] = "waiting"
  BY DEF Init, Fresh
<1>3. AskInv
  BY <1>1, <1>2 DEF Init, AskInv
<1>4. VerdictInv
  BY <1>1, <1>2 DEF Init, VerdictInv, Executing
<1>5. QED
  BY <1>3, <1>4, InitType DEF PathInv

\* A step behind the approval step has a record only under the verdict that lets it run: an approval
\* for the steps that wait for it, a denial for those of its deny path.  No request that went
\* unrecorded, no withdrawal and no verdict still to be settled starts either path.
RunsBehindVerdict ==
  \A t \in Tools :
    row[t] # None =>
      /\ Gate \in Deps[t] => gate = "approved"
      /\ t \in OnDeny => gate = "denied"

\* Whatever stalls, dies or is withdrawn, a step behind the approval step is stored only under the
\* verdict that lets it run, for any graph and any number of processes.
THEOREM Paths == Spec => []RunsBehindVerdict
<1>1. Init => PathInv
  BY InitPaths
<1>2. PathInv /\ [Next]_vars => PathInv'
  BY NextPaths
<1>3. PathInv => RunsBehindVerdict
  BY DEF PathInv, VerdictInv, Permits, RunsBehindVerdict
<1>4. QED
  BY <1>1, <1>2, <1>3, PTL DEF Spec
-----------------------------------------------------------------------------
(* One launch of every step, and what a success stands for.                *)

\* A tool has a record once it was stored, and was stored once.
CountInv == \A t \in Tools : saves[t] <= 1 /\ (saves[t] = 0 <=> row[t] = None)

\* A gated tool is stored by the one walk that released it.
ReleaseInv ==
  \A t \in Gated :
    /\ row[t] # None => t \in released
    /\ \A p \in Processes :
         walk[p][t] = "saving" =>
           t \in released /\ row[t] = None /\ \A q \in Processes : walk[q][t] = "saving" => p = q

\* There is one coordinator, and none while the workflow is parked.
Sole ==
  /\ \A p, q \in Processes : at[p] # "idle" /\ at[q] # "idle" => p = q
  /\ status = "parked" => \A p \in Processes : at[p] = "idle"

\* Every free tool has ended, or waits for one that rules it out, and no walk launched it.
FreeClosed ==
  \A t \in Free :
    /\ row[t] # "live"
    /\ row[t] = None =>
         /\ \E j \in Deps[t] : row[j] = None \/ (row[j] # "succeeded" /\ j \notin Continues)
         /\ \A p \in Processes : walk[p][t] \in Unlaunched

\* A workflow passes to a second walk while the first goes on only when no free tool is left to it.
HandoffInv == Sole \/ FreeClosed

\* A coordinator that does not walk holds nothing.
FreshInv ==
  \A p \in Processes : at[p] \in {"idle", "resumed"} => \A s \in Steps : walk[p][s] = "waiting"

\* A success in a walk is one of the record, and a free tool a walk has yet to store has none.
RowInv ==
  \A p \in Processes, t \in Tools :
    /\ walk[p][t] = "succeeded" => row[t] = "succeeded"
    /\ /\ t \in Free /\ at[p] \notin {"idle", "resumed"}
       /\ walk[p][t] \in {"waiting", "launching", "saving"}
       => row[t] = None

\* What a walk launched, its dependencies allowed.
LaunchInv ==
  \A p \in Processes :
    /\ \A t \in Free :
         row[t] = None /\ walk[p][t] \notin Unlaunched => \A j \in Deps[t] : Allows(walk[p], j)
    /\ \A t \in Gated :
         /\ walk[p][t] = "launching" => \A j \in Deps[t] \cap Gated : j \in released
         /\ walk[p][t] \in Begun => t \in released
         /\ walk[p][t] = "canceled" => t \in released \/ ctx[p] # "live"

\* A released tool is gated, runs under the verdict, and comes after released ones.
ReleasedInv ==
  \A t \in released :
    t \in Gated /\ Permits(t) /\ \A j \in Deps[t] \cap Gated : j \in released

\* Only the approval step is asked and denied, and only tools execute.
KindInv ==
  \A p \in Processes :
    /\ walk[p][Gate] \notin Executing
    /\ \A t \in Tools : walk[p][t] \notin {"opening", "awaiting", "denied"}

\* What a walk skipped cannot start.
SkipInv == \A p \in Processes, s \in Steps : walk[p][s] = "skipped" => Blocked(walk[p], s)

\* A tool the verdict rules out, itself or through one it waits for.
RuledOut(t) ==
  \/ Gate \in Deps[t] /\ gate = "denied"
  \/ t \in OnDeny /\ gate = "approved"
  \/ \E j \in Deps[t] \cap Tools : row[j] = None

\* The verdict is in; every tool has succeeded or was never released and is ruled out.
Whole ==
  /\ gate \in {"approved", "denied"}
  /\ \A t \in Tools : \/ row[t] = "succeeded"
                      \/ row[t] = None /\ t \in Gated \ released /\ RuledOut(t)

WholeInv == status = "succeeded" => Whole

\* The inductive invariant.
OnceInv ==
  /\ PathInv /\ CountInv /\ ReleaseInv /\ HandoffInv /\ FreshInv /\ RowInv /\ LaunchInv
  /\ ReleasedInv /\ KindInv /\ SkipInv /\ WholeInv

\* What is settled in a walk is not decided anew.
LEMMA SettledStays ==
  ASSUME NEW v, NEW w, \A j \in Steps : v[j] \in Settled => w[j] = v[j]
  PROVE  /\ \A j \in Steps : Allows(v, j) => Allows(w, j)
         /\ \A s \in Steps : Blocked(v, s) => Blocked(w, s)
<1>1. \A j \in Steps : Allows(v, j) => Allows(w, j)
  BY DEF Allows, Settled, Results, Ended
<1>2. ASSUME NEW s \in Steps, Blocked(v, s) PROVE Blocked(w, s)
  <2>1. CASE \E j \in Behind[s] : v[j] = "refused"
    BY <2>1, BehindFacts DEF Blocked, Settled, Results
  <2>2. CASE \E j \in Deps[s] : v[j] \in Settled /\ ~Allows(v, j)
    BY <2>2, FreeFacts DEF Blocked, Allows
  <2>3. CASE s \in OnDeny /\ v[Gate] \in Settled \ {"denied"}
    BY <2>3, FreeFacts DEF Blocked
  <2>4. QED
    BY <1>2, <2>1, <2>2, <2>3 DEF Blocked
<1>3. QED
  BY <1>1, <1>2

\* A walk that moves on without storing a record keeps the invariant.
LEMMA MovesOnce ==
  ASSUME OnceInv, NEW p \in Processes, NEW s \in Steps, NEW v, Moves(p, s, v)
  PROVE  /\ CountInv' /\ ReleaseInv' /\ HandoffInv' /\ FreshInv' /\ RowInv' /\ LaunchInv'
         /\ ReleasedInv' /\ KindInv' /\ SkipInv' /\ WholeInv'
<1>1. \A q \in Processes, r \in Steps : walk'[q][r] = IF q = p /\ r = s THEN v ELSE walk[q][r]
  BY SetValue DEF OnceInv, PathInv, Moves
<1>2. /\ \A t \in Tools : row'[t] = None <=> row[t] = None
      /\ \A t \in Tools : row[t] \in Ended => row'[t] = row[t]
      /\ \A t \in Tools : row[t] # "live" => row'[t] = row[t]
  BY RowsEndFacts DEF Moves
<1>3. /\ status' = status /\ at' = at /\ ctx' = ctx /\ saves' = saves
      /\ released \subseteq released' /\ at[p] = "walking"
  BY DEF Moves, Walking
<1>4. Tools \subseteq Steps /\ Gate \in Steps /\ Gate \notin Tools /\ Free \subseteq Tools /\ Gated \subseteq Tools
  BY FreeFacts DEF Gated
<1>5. \A q \in Processes : /\ \A j \in Steps : walk[q][j] \in Settled => walk'[q][j] = walk[q][j]
                           /\ \A j \in Steps : Allows(walk[q], j) => Allows(walk'[q], j)
                           /\ \A r \in Steps : Blocked(walk[q], r) => Blocked(walk'[q], r)
  <2>1. \A q \in Processes, j \in Steps : walk[q][j] \in Settled => walk'[q][j] = walk[q][j]
    BY <1>1 DEF Moves
  <2>2. QED
    BY <2>1, SettledStays
<1>6. \A t \in Tools : Permits(t) => Permits(t)'
  BY DEF Moves, GateKept, Permits
<1>7. CountInv'
  BY <1>2, <1>3 DEF OnceInv, CountInv
<1>8. FreshInv'
  BY <1>1, <1>3 DEF OnceInv, FreshInv
<1>9. SkipInv'
  <2>1. v = "skipped" => Blocked(walk[p], s)
    BY DEF Moves, Unlaunched
  <2>2. QED
    BY <1>1, <1>5, <2>1 DEF OnceInv, SkipInv
<1>10. RowInv'
  <2>1. s \in Tools /\ v = "succeeded" => row[s] = "succeeded"
    BY <1>4 DEF Moves
  <2>2. \A t \in Tools : row[t] = "succeeded" => row'[t] = "succeeded"
    BY <1>2 DEF Ended
  <2>3. s \in Tools /\ v \in {"waiting", "launching", "saving"} => walk[p][s] \in {"waiting", "launching"}
    BY <1>4 DEF Moves, Unlaunched
  <2>4. QED
    BY <1>1, <1>2, <1>3, <1>4, <2>1, <2>2, <2>3 DEF OnceInv, RowInv
<1>11. ReleaseInv'
  <2>1. s \in Gated /\ v = "saving" =>
          s \in released' /\ row[s] = None /\ \A q \in Processes : walk[q][s] # "saving"
    BY <1>4 DEF Moves, OnceInv, ReleaseInv, Unlaunched, Begun
  <2>2. QED
    BY <1>1, <1>2, <1>3, <1>4, <2>1 DEF OnceInv, ReleaseInv
<1>12. LaunchInv'
  <2>1. ASSUME NEW q \in Processes, NEW t \in Free, row'[t] = None, walk'[q][t] \notin Unlaunched
        PROVE  \A j \in Deps[t] : Allows(walk'[q], j)
    <3>1. row[t] = None /\ t \in Steps /\ Deps[t] \subseteq Steps /\ Deps[t] \subseteq Direct(t)
      BY <1>2, <1>4, <2>1, FreeFacts
    <3>2. CASE walk[q][t] \notin Unlaunched
      BY <1>5, <3>1, <3>2 DEF OnceInv, LaunchInv
    <3>3. CASE walk[q][t] \in Unlaunched
      <4>1. q = p /\ t = s /\ v \notin Unlaunched
        BY <1>1, <2>1, <3>1, <3>3
      <4>2. Ready(walk[p], s)
        BY <1>4, <3>3, <4>1 DEF Moves, Unlaunched, Executing
      <4>3. \A j \in Deps[s] : Allows(walk[p], j)
        BY <3>1, <4>1, <4>2 DEF Ready, Blocked
      <4>4. QED
        BY <1>5, <3>1, <4>1, <4>3
    <3>4. QED
      BY <3>2, <3>3
  <2>2. ASSUME NEW q \in Processes, NEW t \in Gated, walk'[q][t] = "launching"
        PROVE  \A j \in Deps[t] \cap Gated : j \in released'
    <3>1. t \in Steps /\ Deps[t] \subseteq Steps /\ Deps[t] \subseteq Direct(t)
      BY <1>4, <2>2, FreeFacts
    <3>2. CASE walk[q][t] = "launching"
      BY <1>3, <3>2 DEF OnceInv, LaunchInv
    <3>3. CASE walk[q][t] # "launching"
      <4>1. q = p /\ t = s /\ v = "launching"
        BY <1>1, <2>2, <3>1, <3>3
      <4>2. Ready(walk[p], s) /\ ctx[p] = "live"
        BY <1>4, <4>1 DEF Moves
      <4>3. \A j \in Deps[s] : Allows(walk[p], j)
        BY <3>1, <4>1, <4>2 DEF Ready, Blocked
      <4>4. \A j \in Deps[s] \cap Gated : j \in released
        <5>1. ASSUME NEW j \in Deps[s] \cap Gated PROVE j \in released
          <6>1. walk[p][j] \in Ended
            BY <1>4, <4>3, <5>1 DEF OnceInv, KindInv, Allows, Results, Ended
          <6>2. LaunchInv
            BY DEF OnceInv
          <6>3. QED
            BY <4>2, <5>1, <6>1, <6>2 DEF LaunchInv, Begun, Ended
        <5>2. QED
          BY <5>1
      <4>5. QED
        BY <1>3, <4>1, <4>4
    <3>4. QED
      BY <3>2, <3>3
  <2>3. ASSUME NEW q \in Processes, NEW t \in Gated
        PROVE  /\ walk'[q][t] \in Begun => t \in released'
               /\ walk'[q][t] = "canceled" => t \in released' \/ ctx'[q] # "live"
    <3>1. CASE q = p /\ t = s
      <4>1. walk'[q][t] = v
        BY <1>1, <1>4, <3>1
      <4>2. walk[p][s] \in Begun => s \in released'
        BY <1>3, <3>1 DEF OnceInv, LaunchInv
      <4>3. QED
        BY <1>3, <1>4, <3>1, <4>1, <4>2 DEF Moves, Executing, Unlaunched, Begun
    <3>2. CASE ~(q = p /\ t = s)
      BY <1>1, <1>3, <1>4, <3>2 DEF OnceInv, LaunchInv
    <3>3. QED
      BY <3>1, <3>2
  <2>4. QED
    BY <2>1, <2>2, <2>3 DEF LaunchInv, Begun, Unlaunched, None, Free, Gated
<1>13. ReleasedInv'
  <2>1. ASSUME NEW t \in released' PROVE t \in Gated /\ Permits(t) /\ \A j \in Deps[t] \cap Gated : j \in released'
    <3>1. CASE t \in released
      BY <1>3, <3>1 DEF OnceInv, ReleasedInv
    <3>2. CASE t \notin released
      <4>1. t = s /\ s \in Gated /\ walk[p][s] = "launching"
        BY <2>1, <3>2 DEF Moves
      <4>2. Permits(s)
        BY <1>4, <4>1 DEF OnceInv, PathInv, VerdictInv, Executing
      <4>3. QED
        BY <1>3, <4>1, <4>2 DEF OnceInv, LaunchInv
    <3>3. QED
      BY <3>1, <3>2
  <2>2. QED
    BY <1>4, <1>6, <2>1 DEF ReleasedInv, Gated, Free
<1>14. HandoffInv'
  <2>1. CASE Sole
    BY <1>3, <2>1 DEF HandoffInv, Sole
  <2>2. CASE FreeClosed
    <3>1. ASSUME NEW t \in Free
          PROVE  /\ row'[t] # "live"
                 /\ row'[t] = None =>
                      /\ \E j \in Deps[t] : row'[j] = None \/ (row'[j] # "succeeded" /\ j \notin Continues)
                      /\ \A q \in Processes : walk'[q][t] \in Unlaunched
      <4>1. row[t] # "live" /\ row'[t] = row[t]
        BY <1>2, <1>4, <2>2, <3>1 DEF FreeClosed
      <4>2. ASSUME row[t] = None
            PROVE  \E j \in Deps[t] : row'[j] = None \/ (row'[j] # "succeeded" /\ j \notin Continues)
        <5>1. PICK j \in Deps[t] : row[j] = None \/ (row[j] # "succeeded" /\ j \notin Continues)
          BY <2>2, <4>2 DEF FreeClosed
        <5>2. j \in Free
          BY <5>1, FreeFacts
        <5>3. row'[j] = row[j]
          BY <1>2, <1>4, <2>2, <5>2 DEF FreeClosed
        <5>4. QED
          BY <5>1, <5>3
      <4>3. ASSUME row[t] = None, NEW q \in Processes
            PROVE  walk'[q][t] \in Unlaunched
        <5>1. \A r \in Processes : walk[r][t] \in Unlaunched
          BY <2>2, <4>3 DEF FreeClosed
        <5>2. CASE q = p /\ t = s
          <6>1. v \in Unlaunched \/ Ready(walk[p], s)
            BY <1>4, <5>1, <5>2 DEF Moves, Unlaunched, Executing
          <6>2. ~Ready(walk[p], s)
            <7>1. PICK j \in Deps[t] : row[j] = None \/ (row[j] # "succeeded" /\ j \notin Continues)
              BY <2>2, <4>3 DEF FreeClosed
            <7>2. j \in Free /\ j \in Direct(t) /\ j \in Steps
              BY <1>4, <7>1, FreeFacts
            <7>3. ~Allows(walk[p], j)
              <8>1. CASE row[j] = None
                <9>1. walk[p][j] \in Unlaunched
                  BY <2>2, <7>2, <8>1 DEF FreeClosed
                <9>2. QED
                  BY <9>1 DEF Allows, Unlaunched, Results, Ended
              <8>2. CASE row[j] # "succeeded" /\ j \notin Continues
                BY <1>4, <7>2, <8>2 DEF OnceInv, RowInv, Allows
              <8>3. QED
                BY <7>1, <8>1, <8>2
            <7>4. QED
              BY <5>2, <7>1, <7>2, <7>3 DEF Ready, Blocked
          <6>3. QED
            BY <1>1, <1>4, <5>2, <6>1, <6>2
        <5>3. CASE ~(q = p /\ t = s)
          BY <1>1, <1>4, <5>1, <5>3
        <5>4. QED
          BY <5>2, <5>3
      <4>4. QED
        BY <4>1, <4>2, <4>3
    <3>2. QED
      BY <3>1 DEF HandoffInv, FreeClosed, Free, Unlaunched, None
  <2>3. QED
    BY <2>1, <2>2 DEF OnceInv, HandoffInv
<1>15. WholeInv'
  <2> SUFFICES ASSUME status = "succeeded" PROVE Whole'
    BY <1>3 DEF WholeInv
  <2>1. Whole
    BY DEF OnceInv, WholeInv
  <2>2. gate' = gate
    BY <2>1 DEF Whole, Moves, GateKept
  <2>3. \A t \in Tools : row'[t] = row[t]
    BY <1>2, <2>1 DEF Whole, None
  <2>4. released' = released
    <3> SUFFICES ASSUME s \in Gated \ released, walk[p][s] = "launching" PROVE FALSE
      BY DEF Moves
    <3>1. RuledOut(s) /\ Permits(s) /\ \A j \in Deps[s] \cap Gated : j \in released
      <4>1. row[s] # "succeeded"
        BY <1>4 DEF OnceInv, ReleaseInv, None
      <4>2. QED
        BY <1>4, <2>1, <4>1 DEF Whole, OnceInv, PathInv, VerdictInv, Executing, LaunchInv
    <3>2. QED
      BY <2>1, <3>1 DEF RuledOut, Permits, Whole, None
  <2>5. QED
    BY <2>1, <2>2, <2>3, <2>4 DEF Whole, RuledOut, Gated, Free
<1>16. KindInv'
  <2>1. s = Gate => v \notin Executing
    BY <1>4 DEF Moves, OnceInv, KindInv, Executing
  <2>2. QED
    BY <1>1, <1>4, <2>1 DEF Moves, OnceInv, KindInv, Executing
<1>17. QED
  BY <1>7, <1>8, <1>9, <1>10, <1>11, <1>12, <1>13, <1>14, <1>15, <1>16

\* A walk that stores a record is the only one that could.
LEMMA StoresOnce ==
  ASSUME OnceInv, NEW p \in Processes, NEW t \in Tools, NEW v, Stores(p, t, v)
  PROVE  /\ CountInv' /\ ReleaseInv' /\ HandoffInv' /\ FreshInv' /\ RowInv' /\ LaunchInv'
         /\ ReleasedInv' /\ KindInv' /\ SkipInv' /\ WholeInv'
<1>1. Tools \subseteq Steps /\ Gate \in Steps /\ Gate \notin Tools /\ Free \subseteq Tools /\ Gated \subseteq Tools
  BY FreeFacts DEF Gated
<1>2. \A q \in Processes, r \in Steps : walk'[q][r] = IF q = p /\ r = t THEN v ELSE walk[q][r]
  BY <1>1, SetValue DEF OnceInv, PathInv, Stores
<1>3. /\ \A x \in Tools : row'[x] = IF x = t THEN "live" ELSE row[x]
      /\ \A x \in Tools : saves'[x] = IF x = t THEN saves[t] + 1 ELSE saves[x]
  BY DEF Stores, Insert, OnceInv, PathInv, TypeOK
<1>4. /\ status' = status /\ at' = at /\ ctx' = ctx /\ released' = released /\ gate' = gate
      /\ at[p] = "walking" /\ walk[p][t] = "saving" /\ v \in {"running", "failed"}
  BY DEF Stores, Walking
<1>5. row[t] = None
  BY <1>1, <1>4 DEF OnceInv, ReleaseInv, RowInv, Gated
<1>6. \A q \in Processes : /\ \A j \in Steps : walk[q][j] \in Settled => walk'[q][j] = walk[q][j]
                           /\ \A j \in Steps : Allows(walk[q], j) => Allows(walk'[q], j)
                           /\ \A r \in Steps : Blocked(walk[q], r) => Blocked(walk'[q], r)
  <2>1. \A q \in Processes, j \in Steps : walk[q][j] \in Settled => walk'[q][j] = walk[q][j]
    BY <1>2, <1>4 DEF Settled, Results, Ended
  <2>2. QED
    BY <2>1, SettledStays
<1>7. CountInv'
  <2>1. saves[t] = 0
    BY <1>5 DEF OnceInv, CountInv
  <2>2. "live" # None
    BY DEF None
  <2>3. QED
    BY <1>3, <2>1, <2>2 DEF OnceInv, CountInv
<1>8. FreshInv'
  BY <1>2, <1>4 DEF OnceInv, FreshInv
<1>9. SkipInv'
  BY <1>2, <1>4, <1>6 DEF OnceInv, SkipInv
<1>10. KindInv'
  BY <1>1, <1>2, <1>4 DEF OnceInv, KindInv, Executing
<1>11. ReleaseInv'
  BY <1>1, <1>2, <1>3, <1>4 DEF OnceInv, ReleaseInv, None
<1>12. ASSUME FreeClosed PROVE t \notin Free
  BY <1>4, <1>5, <1>12 DEF FreeClosed, Unlaunched
<1>13. RowInv'
  <2>1. ASSUME NEW q \in Processes, NEW x \in Tools, walk'[q][x] = "succeeded"
        PROVE  row'[x] = "succeeded"
    <3>1. walk[q][x] = "succeeded"
      BY <1>1, <1>2, <1>4, <2>1
    <3>2. row[x] = "succeeded"
      BY <3>1 DEF OnceInv, RowInv
    <3>3. x # t
      BY <1>5, <3>2 DEF None
    <3>4. QED
      BY <1>3, <3>2, <3>3
  <2>2. ASSUME NEW q \in Processes, NEW x \in Free, at'[q] \notin {"idle", "resumed"},
               walk'[q][x] \in {"waiting", "launching", "saving"}
        PROVE  row'[x] = None
    <3>1. walk'[q][x] = walk[q][x] /\ ~(q = p /\ x = t)
      BY <1>1, <1>2, <1>4, <2>2
    <3>2. row[x] = None
      BY <1>1, <1>4, <2>2, <3>1 DEF OnceInv, RowInv
    <3>3. x # t
      <4>1. CASE Sole
        BY <1>4, <2>2, <3>1, <4>1 DEF Sole
      <4>2. CASE FreeClosed
        BY <1>12, <4>2
      <4>3. QED
        BY <4>1, <4>2 DEF OnceInv, HandoffInv
    <3>4. QED
      BY <1>1, <1>3, <3>2, <3>3
  <2>3. QED
    BY <2>1, <2>2 DEF RowInv, Free, None
<1>14. LaunchInv'
  <2>1. ASSUME NEW q \in Processes, NEW x \in Free, row'[x] = None, walk'[q][x] \notin Unlaunched
        PROVE  \A j \in Deps[x] : Allows(walk'[q], j)
    <3>1. x # t /\ row[x] = None /\ walk[q][x] \notin Unlaunched
      BY <1>1, <1>2, <1>3, <2>1 DEF None
    <3>2. Deps[x] \subseteq Steps
      BY <1>1, <2>1, FreeFacts
    <3>3. QED
      BY <1>6, <3>1, <3>2 DEF OnceInv, LaunchInv
  <2>2. ASSUME NEW q \in Processes, NEW x \in Gated
        PROVE  /\ walk'[q][x] = "launching" => \A j \in Deps[x] \cap Gated : j \in released'
               /\ walk'[q][x] \in Begun => x \in released'
               /\ walk'[q][x] = "canceled" => x \in released' \/ ctx'[q] # "live"
    BY <1>1, <1>2, <1>4 DEF OnceInv, LaunchInv, Begun
  <2>3. QED
    BY <2>1, <2>2 DEF LaunchInv, Begun, Unlaunched, None, Free, Gated
<1>15. ReleasedInv'
  BY <1>4 DEF OnceInv, ReleasedInv, Permits, Gated, Free
<1>16. HandoffInv'
  <2>1. CASE Sole
    BY <1>4, <2>1 DEF HandoffInv, Sole
  <2>2. CASE FreeClosed
    <3>1. t \notin Free
      BY <1>12, <2>2
    <3>2. \A x \in Free : row'[x] = row[x] /\ \A q \in Processes : walk'[q][x] = walk[q][x]
      BY <1>1, <1>2, <1>3, <3>1
    <3>3. \A x \in Free : Deps[x] \subseteq Free
      BY FreeFacts
    <3>4. FreeClosed'
      BY <2>2, <3>2, <3>3 DEF FreeClosed, Free, Unlaunched, None
    <3>5. QED
      BY <3>4 DEF HandoffInv
  <2>3. QED
    BY <2>1, <2>2 DEF OnceInv, HandoffInv
<1>17. WholeInv'
  <2> SUFFICES ASSUME status = "succeeded" PROVE FALSE
    BY <1>4 DEF WholeInv
  <2>1. t \in Gated \ released
    BY <1>5 DEF OnceInv, WholeInv, Whole, None
  <2>2. QED
    BY <1>4, <2>1 DEF OnceInv, ReleaseInv
<1>18. QED
  BY <1>7, <1>8, <1>9, <1>10, <1>11, <1>13, <1>14, <1>15, <1>16, <1>17

\* What the rows of the tools restore.
LEMMA RestoredRows ==
  ASSUME TypeOK
  PROVE  /\ \A t \in Tools : /\ row[t] = None => Restored[t] = "waiting"
                             /\ row[t] = "live" => Restored[t] = "running"
                             /\ row[t] \in Ended => Restored[t] = row[t]
                             /\ row[t] \in Ended \cup {None, "live"}
         /\ Restored[Gate] = Verdict(gate) /\ DOMAIN Restored = Steps
<1>1. Tools \subseteq Steps /\ Gate \in Steps /\ Gate \notin Tools
  BY FreeFacts
<1>2. \A t \in Tools : row[t] \in Ended \cup {None, "live"}
  BY DEF TypeOK
<1>3. QED
  BY <1>1, <1>2 DEF Restored, Ended, None

\* A workflow the sweep parks has nothing left for the walk it takes it from but gated tools.
LEMMA StalledCloses ==
  ASSUME OnceInv, StalledAtApproval
  PROVE  FreeClosed
<1> DEFINE rec == [Restored EXCEPT ![Gate] = "awaiting"]
           f == Advanced(rec)
<1>1. /\ Tools \subseteq Steps /\ Gate \in Steps /\ Gate \notin Tools /\ Free \subseteq Tools
      /\ \A t \in Free : Direct(t) \subseteq Free /\ Deps[t] = Direct(t) /\ t \notin OnDeny
      /\ \A t \in Free : t \in Steps
  BY FreeFacts
<1>2. \A t \in Tools : row[t] # "live" /\ f[t] # "ready"
  BY DEF StalledAtApproval
<1>3. \A t \in Free : rec[t] = IF row[t] = None THEN "waiting" ELSE row[t]
  BY <1>1, <1>2, RestoredRows DEF OnceInv, PathInv, None
<1>4. \A s \in Steps : f[s] = Advance(rec, f, s)
  BY AdvancedIs
<1>5. \A t \in Free : row[t] \in Ended \cup {None}
  BY <1>1, <1>2, RestoredRows DEF OnceInv, PathInv
<1> HIDE DEF rec, f
<1>6. \A t \in Free : IF row[t] = None
                      THEN (f[t] = "skipped" /\ Blocked(f, t)) \/ (f[t] = "waiting" /\ ~Blocked(f, t) /\ ~Ready(f, t))
                      ELSE f[t] = row[t]
  <2>1. ASSUME NEW t \in Free, row[t] # None PROVE f[t] = row[t]
    <3>1. rec[t] = row[t] /\ rec[t] # "waiting"
      BY <1>3, <1>5, <2>1 DEF Ended
    <3>2. QED
      BY <1>1, <1>4, <3>1 DEF Advance
  <2>2. ASSUME NEW t \in Free, row[t] = None
        PROVE  (f[t] = "skipped" /\ Blocked(f, t)) \/ (f[t] = "waiting" /\ ~Blocked(f, t) /\ ~Ready(f, t))
    <3>1. rec[t] = "waiting" /\ f[t] = Advance(rec, f, t) /\ f[t] # "ready"
      BY <1>1, <1>2, <1>3, <1>4, <2>2
    <3>2. f[t] = IF Blocked(f, t) THEN "skipped" ELSE IF Ready(f, t) THEN "ready" ELSE "waiting"
      BY <3>1 DEF Advance
    <3>3. QED
      BY <3>1, <3>2
  <2>3. QED
    BY <2>1, <2>2
<1>7. \A t \in Free : f[t] \in Settled
  <2> DEFINE S == {t \in Free : f[t] \notin Settled}
  <2> SUFFICES ASSUME S # {} PROVE FALSE
    OBVIOUS
  <2>1. PICK t \in S : Behind[t] \cap S = {}
    BY <1>1, GraphAssumption
  <2>2. ~Blocked(f, t) /\ ~Ready(f, t)
    BY <1>5, <1>6, <2>1 DEF Settled, Results
  <2>3. PICK j \in Direct(t) : f[j] \notin Settled
    BY <2>2 DEF Ready
  <2>4. j \in Behind[t] /\ j \in Free
    BY <1>1, <2>1, BehindFacts
  <2>5. QED
    BY <2>1, <2>3, <2>4
<1>8. ASSUME NEW t \in Free, row[t] = None
      PROVE  \E j \in Deps[t] : row[j] = None \/ (row[j] # "succeeded" /\ j \notin Continues)
  <2>1. Blocked(f, t)
    BY <1>6, <1>7, <1>8 DEF Settled, Results, Ended
  <2>2. \A j \in Behind[t] : f[j] # "refused"
    <3>1. ASSUME NEW j \in Behind[t] PROVE j \in Free
      <4>1. j \in Steps /\ Behind[j] \subseteq Behind[t] /\ Gate \notin Behind[t]
        BY <1>1, <1>8, <3>1, BehindFacts DEF Free
      <4>2. QED
        BY <3>1, <4>1 DEF Free, Steps
    <3>2. QED
      BY <1>5, <1>6, <3>1 DEF Ended
  <2>3. PICK j \in Deps[t] : f[j] \in Settled /\ ~Allows(f, j)
    BY <1>1, <1>8, <2>1, <2>2 DEF Blocked
  <2>4. j \in Free
    BY <1>1, <1>8, <2>3
  <2>5. row[j] # None => row[j] # "succeeded" /\ j \notin Continues
    <3> SUFFICES ASSUME row[j] # None PROVE row[j] # "succeeded" /\ j \notin Continues
      OBVIOUS
    <3>1. f[j] = row[j] /\ row[j] \in Ended
      BY <1>5, <1>6, <2>4
    <3>2. QED
      BY <2>3, <3>1 DEF Allows, Results, Ended
  <2>6. QED
    BY <2>5
<1>9. ASSUME NEW p \in Processes, NEW u \in Free, row[u] = None
      PROVE  walk[p][u] \in Unlaunched
  <2> DEFINE S == {t \in Free : row[t] = None /\ walk[p][t] \notin Unlaunched}
  <2> SUFFICES ASSUME S # {} PROVE FALSE
    BY <1>9
  <2>1. PICK t \in S : Behind[t] \cap S = {}
    BY <1>1, GraphAssumption
  <2>2. PICK j \in Deps[t] : row[j] = None \/ (row[j] # "succeeded" /\ j \notin Continues)
    BY <1>8, <2>1
  <2>3. j \in Free /\ j \in Behind[t]
    BY <1>1, <2>1, <2>2, BehindFacts
  <2>4. Allows(walk[p], j)
    BY <2>1, <2>2 DEF OnceInv, LaunchInv
  <2>5. CASE row[j] = None
    BY <2>1, <2>3, <2>4, <2>5 DEF Allows, Results, Ended, Unlaunched
  <2>6. CASE row[j] # "succeeded" /\ j \notin Continues
    BY <1>1, <2>3, <2>4, <2>6 DEF OnceInv, RowInv, Allows
  <2>7. QED
    BY <2>2, <2>5, <2>6
<1>10. QED
  BY <1>1, <1>2, <1>8, <1>9 DEF FreeClosed

\* Records that end, flags and leases keep it; a workflow the sweep parks is closed.
LEMMA StaysOnce ==
  ASSUME OnceInv, Stays
  PROVE  /\ CountInv' /\ ReleaseInv' /\ HandoffInv' /\ FreshInv' /\ RowInv' /\ LaunchInv'
         /\ ReleasedInv' /\ KindInv' /\ SkipInv' /\ WholeInv'
<1>1. /\ walk' = walk /\ released' = released /\ saves' = saves
      /\ \A q \in Processes : /\ at'[q] = "idle" <=> at[q] = "idle"
                              /\ at'[q] \in {"idle", "resumed"} <=> at[q] \in {"idle", "resumed"}
                              /\ ctx[q] # "live" => ctx'[q] # "live"
  BY DEF Stays
<1>2. \A t \in Tools : /\ row'[t] = None <=> row[t] = None
                       /\ row[t] \in Ended => row'[t] = row[t]
                       /\ row[t] # "live" => row'[t] = row[t]
  BY RowsEndFacts DEF Stays
<1>3. Free \subseteq Tools /\ Gated \subseteq Tools /\ \A t \in Free : Deps[t] \subseteq Free
  BY FreeFacts DEF Gated
<1>4. CountInv' /\ FreshInv' /\ SkipInv' /\ KindInv'
  BY <1>1, <1>2 DEF OnceInv, CountInv, FreshInv, SkipInv, KindInv, Blocked, Allows
<1>5. ReleaseInv'
  BY <1>1, <1>2, <1>3 DEF OnceInv, ReleaseInv
<1>6. RowInv'
  BY <1>1, <1>2, <1>3 DEF OnceInv, RowInv, Ended
<1>7. LaunchInv'
  BY <1>1, <1>2, <1>3 DEF OnceInv, LaunchInv, Allows
<1>8. ReleasedInv'
  <2>1. \A t \in Tools : Permits(t) => Permits(t)'
    BY DEF Stays, GateKept, Permits
  <2>2. QED
    BY <1>1, <1>3, <2>1 DEF OnceInv, ReleasedInv
<1>9. HandoffInv'
  <2>1. CASE Sole /\ (status' = "parked" => status = "parked")
    BY <1>1, <2>1 DEF HandoffInv, Sole
  <2>2. CASE FreeClosed
    <3>1. \A t \in Free : row'[t] = row[t]
      BY <1>2, <1>3, <2>2 DEF FreeClosed
    <3>2. QED
      BY <1>1, <1>3, <2>2, <3>1 DEF HandoffInv, FreeClosed
  <2>3. CASE status' = "parked" /\ status # "parked"
    <3>1. FreeClosed
      BY <2>3, StalledCloses DEF Stays
    <3>2. QED
      BY <2>2, <3>1
  <2>4. QED
    BY <2>1, <2>2, <2>3 DEF OnceInv, HandoffInv
<1>10. WholeInv'
  <2> SUFFICES ASSUME status' = "succeeded" PROVE Whole'
    BY DEF WholeInv
  <2>1. Whole
    BY DEF OnceInv, WholeInv, Stays
  <2>2. gate' = gate /\ \A t \in Tools : row'[t] = row[t]
    BY <1>2, <2>1 DEF Whole, Stays, GateKept, None
  <2>3. QED
    BY <1>1, <2>1, <2>2 DEF Whole, RuledOut
<1>11. QED
  BY <1>4, <1>5, <1>6, <1>7, <1>8, <1>9, <1>10

\* A walk with every step settled and nothing failed has done what the verdict calls for.
LEMMA EndWhole ==
  ASSUME OnceInv, NEW p \in Processes, Quiet(p), ~Running(p), walk[p][Gate] # "awaiting",
         PipelineOutcome(p) = "succeeded"
  PROVE  Whole
<1> DEFINE w == walk[p]
<1>1. /\ Gate \in Steps /\ Gate \notin Tools /\ Tools \subseteq Steps /\ Free \subseteq Tools
      /\ \A t \in Free : Deps[t] \subseteq Free /\ t \notin OnDeny
      /\ Deps[Gate] \subseteq Free /\ Gate \notin OnDeny /\ Gate \notin Continues
      /\ \A s \in Steps : Deps[s] \subseteq Steps /\ Direct(s) \subseteq Behind[s] /\ Deps[s] \subseteq Behind[s]
  BY FreeFacts, BehindFacts, ConstantsAssumption DEF Direct
<1>2. \A s \in Steps : w[s] \notin {"interrupted", "canceled", "stopped", "failed", "refused"}
  BY DEF PipelineOutcome, Any, Stopped
<1>3. \A s \in Steps : w[s] \in {"waiting", "succeeded", "skipped", "denied"}
  <2>1. \A s \in Steps : w[s] \in WalkStates
    BY DEF OnceInv, PathInv, TypeOK
  <2>2. \A t \in Tools : w[t] \notin Executing \cup {"opening", "awaiting"}
    BY DEF Running, OnceInv, KindInv
  <2>3. w[Gate] \notin Executing \cup {"opening", "awaiting"}
    BY DEF Quiet, OnceInv, KindInv
  <2>4. QED
    BY <1>2, <2>1, <2>2, <2>3 DEF Steps, WalkStates, Settled, Results, Ended, Executing
<1>4. \A s \in Steps : w[s] # "waiting"
  <2> DEFINE S == {s \in Steps : w[s] = "waiting"}
  <2> SUFFICES ASSUME S # {} PROVE FALSE
    OBVIOUS
  <2>1. PICK s \in S : Behind[s] \cap S = {}
    BY GraphAssumption
  <2>2. ~Blocked(w, s) /\ ~Ready(w, s)
    BY <2>1 DEF Quiet
  <2>3. PICK j \in Direct(s) : w[j] \notin Settled
    BY <2>2 DEF Ready
  <2>4. j \in Behind[s] /\ j \in Steps
    BY <1>1, <2>1, <2>3, BehindFacts
  <2>5. w[j] = "waiting"
    BY <1>3, <2>3, <2>4 DEF Settled, Results, Ended
  <2>6. QED
    BY <2>1, <2>4, <2>5
<1>5. \A t \in Tools : w[t] \in {"succeeded", "skipped"}
  BY <1>1, <1>3, <1>4 DEF OnceInv, KindInv
<1>6. \A s \in Steps : w[s] = "skipped" =>
        \/ \E j \in Deps[s] : ~Allows(w, j)
        \/ s \in OnDeny /\ w[Gate] # "denied"
  <2>1. ASSUME NEW s \in Steps, w[s] = "skipped" PROVE Blocked(w, s)
    BY <2>1 DEF OnceInv, SkipInv
  <2>2. \A s \in Steps : \A j \in Behind[s] : w[j] # "refused"
    BY <1>2, BehindFacts
  <2>3. QED
    BY <2>1, <2>2 DEF Blocked
<1>7. \A s \in Free \cup {Gate} : w[s] # "skipped"
  <2> DEFINE S == {s \in Free \cup {Gate} : w[s] = "skipped"}
  <2> SUFFICES ASSUME S # {} PROVE FALSE
    OBVIOUS
  <2>1. PICK s \in S : Behind[s] \cap S = {}
    <3>1. S \in SUBSET Steps
      BY <1>1
    <3>2. QED
      BY <3>1, GraphAssumption
  <2>2. PICK j \in Deps[s] : ~Allows(w, j)
    BY <1>1, <1>6, <2>1
  <2>3. j \in Free /\ j \in Behind[s]
    BY <1>1, <2>1, <2>2
  <2>4. w[j] = "skipped"
    BY <1>1, <1>5, <2>2, <2>3 DEF Allows
  <2>5. QED
    BY <2>1, <2>3, <2>4
<1>8. /\ w[Gate] \in {"succeeded", "denied"}
      /\ w[Gate] = "succeeded" => gate = "approved"
      /\ w[Gate] = "denied" => gate = "denied"
  BY <1>1, <1>3, <1>4, <1>7 DEF OnceInv, PathInv, VerdictInv
<1>9. ASSUME NEW t \in Tools, w[t] = "skipped"
      PROVE  /\ t \in Gated
             /\ \/ Gate \in Deps[t] /\ gate = "denied"
                \/ t \in OnDeny /\ gate = "approved"
                \/ \E j \in Deps[t] \cap Tools : w[j] = "skipped"
  <2>1. t \in Gated
    BY <1>7, <1>9 DEF Gated
  <2>2. CASE \E j \in Deps[t] : ~Allows(w, j)
    <3>1. PICK j \in Deps[t] : ~Allows(w, j)
      BY <2>2
    <3>2. j \in Steps /\ w[j] # "succeeded"
      BY <1>1, <1>9, <3>1 DEF Allows
    <3>3. CASE j = Gate
      BY <1>8, <2>1, <3>1, <3>2, <3>3
    <3>4. CASE j \in Tools
      BY <1>5, <2>1, <3>1, <3>2, <3>4
    <3>5. QED
      BY <3>2, <3>3, <3>4 DEF Steps
  <2>3. CASE t \in OnDeny /\ w[Gate] # "denied"
    BY <1>8, <2>1, <2>3
  <2>4. QED
    BY <1>1, <1>6, <1>9, <2>2, <2>3
<1>10. \A t \in Tools : w[t] = "skipped" => t \notin released
  <2> DEFINE S == {t \in Tools : w[t] = "skipped" /\ t \in released}
  <2> SUFFICES ASSUME S # {} PROVE FALSE
    OBVIOUS
  <2>1. PICK t \in S : Behind[t] \cap S = {}
    <3>1. S \in SUBSET Steps
      BY <1>1
    <3>2. QED
      BY <3>1, GraphAssumption
  <2>2. Permits(t) /\ \A j \in Deps[t] \cap Gated : j \in released
    BY <2>1 DEF OnceInv, ReleasedInv
  <2>3. PICK j \in Deps[t] \cap Tools : w[j] = "skipped"
    BY <1>9, <2>1, <2>2 DEF Permits
  <2>4. j \in released /\ j \in Behind[t]
    BY <1>1, <1>9, <2>1, <2>2, <2>3
  <2>5. QED
    BY <2>1, <2>3, <2>4
<1>11. \A t \in Tools : w[t] = "skipped" => row[t] = None /\ t \in Gated \ released
  BY <1>9, <1>10 DEF OnceInv, ReleaseInv
<1>12. \A t \in Tools : w[t] = "succeeded" => row[t] = "succeeded"
  BY DEF OnceInv, RowInv
<1>13. \A t \in Tools : w[t] = "skipped" => RuledOut(t)
  BY <1>9, <1>11 DEF RuledOut
<1>14. gate \in {"approved", "denied"}
  BY <1>8
<1>15. QED
  BY <1>5, <1>11, <1>12, <1>13, <1>14 DEF Whole

\* A coordinator that returns keeps it; an end recorded as a success is a whole one.
LEMMA QuitsOnce ==
  ASSUME OnceInv, NEW p \in Processes, Quits(p)
  PROVE  /\ CountInv' /\ ReleaseInv' /\ HandoffInv' /\ FreshInv' /\ RowInv' /\ LaunchInv'
         /\ ReleasedInv' /\ KindInv' /\ SkipInv' /\ WholeInv'
<1>1. /\ \A q \in Processes : at'[q] = IF q = p THEN "idle" ELSE at[q]
      /\ \A q \in Processes, r \in Steps : walk'[q][r] = IF q = p THEN "waiting" ELSE walk[q][r]
      /\ \A q \in Processes : q # p => walk'[q] = walk[q] /\ ctx'[q] = ctx[q]
  BY LeavesValue DEF OnceInv, PathInv, TypeOK, Quits, Leaves
<1>2. gate' = gate /\ row' = row /\ released' = released /\ saves' = saves /\ at[p] # "idle"
  BY DEF Quits, children
<1>3. Gate \in Steps /\ Tools \subseteq Steps /\ Free \subseteq Tools /\ Gated \subseteq Tools
  BY FreeFacts DEF Gated
<1>4. CountInv'
  BY <1>2 DEF OnceInv, CountInv
<1>5. FreshInv' /\ KindInv'
  BY <1>1, <1>3 DEF OnceInv, FreshInv, KindInv, Executing
<1>6. SkipInv'
  BY <1>1 DEF OnceInv, SkipInv, Blocked, Allows
<1>7. ReleaseInv'
  BY <1>1, <1>2, <1>3 DEF OnceInv, ReleaseInv
<1>8. RowInv'
  BY <1>1, <1>2, <1>3 DEF OnceInv, RowInv
<1>9. LaunchInv'
  <2>1. \A q \in Processes : q # p => \A j \in Steps : Allows(walk'[q], j) <=> Allows(walk[q], j)
    BY <1>1 DEF Allows
  <2>2. \A t \in Free : Deps[t] \subseteq Steps
    BY <1>3, FreeFacts
  <2>3. ASSUME NEW q \in Processes, NEW t \in Free, row'[t] = None, walk'[q][t] \notin Unlaunched
        PROVE  \A j \in Deps[t] : Allows(walk'[q], j)
    <3>1. q # p
      BY <1>1, <1>3, <2>3 DEF Unlaunched
    <3>2. QED
      BY <1>1, <1>2, <2>1, <2>2, <2>3, <3>1 DEF OnceInv, LaunchInv
  <2>4. ASSUME NEW q \in Processes, NEW t \in Gated
        PROVE  /\ walk'[q][t] = "launching" => \A j \in Deps[t] \cap Gated : j \in released'
               /\ walk'[q][t] \in Begun => t \in released'
               /\ walk'[q][t] = "canceled" => t \in released' \/ ctx'[q] # "live"
    BY <1>1, <1>2, <1>3 DEF OnceInv, LaunchInv, Begun
  <2>5. QED
    BY <2>3, <2>4 DEF LaunchInv
<1>10. ReleasedInv'
  BY <1>2 DEF OnceInv, ReleasedInv, Permits
<1>11. HandoffInv'
  <2>1. CASE Sole
    BY <1>1, <1>2, <2>1 DEF HandoffInv, Sole
  <2>2. CASE FreeClosed
    BY <1>1, <1>2, <1>3, <2>2 DEF HandoffInv, FreeClosed, Unlaunched
  <2>3. QED
    BY <2>1, <2>2 DEF OnceInv, HandoffInv
<1>12. WholeInv'
  <2> SUFFICES ASSUME status' = "succeeded" PROVE Whole'
    BY DEF WholeInv
  <2>1. Whole
    BY EndWhole DEF OnceInv, WholeInv, Quits
  <2>2. QED
    BY <1>2, <2>1 DEF Whole, RuledOut
<1>13. QED
  BY <1>4, <1>5, <1>6, <1>7, <1>8, <1>9, <1>10, <1>11, <1>12

\* A claim of a parked workflow finds no other coordinator, or a closed one.
LEMMA ResumesOnce ==
  ASSUME OnceInv, NEW p \in Processes, ResumeParked(p)
  PROVE  /\ CountInv' /\ ReleaseInv' /\ HandoffInv' /\ FreshInv' /\ RowInv' /\ LaunchInv'
         /\ ReleasedInv' /\ KindInv' /\ SkipInv' /\ WholeInv'
<1>1. /\ gate' = gate /\ row' = row /\ released' = released /\ saves' = saves
      /\ walk' = walk /\ ctx' = ctx /\ status = "parked" /\ status' = "running" /\ at[p] = "idle"
  BY DEF ResumeParked, CanResume, children
<1>2. \A q \in Processes : at'[q] = at[q] \/ (q = p /\ at'[q] = "resumed")
  BY DEF ResumeParked, OnceInv, PathInv, TypeOK
<1>3. CountInv' /\ ReleaseInv' /\ LaunchInv' /\ ReleasedInv' /\ KindInv' /\ SkipInv' /\ WholeInv'
  BY <1>1 DEF OnceInv, CountInv, ReleaseInv, LaunchInv, ReleasedInv, KindInv, SkipInv, WholeInv,
              Allows, Blocked, Permits
<1>4. FreshInv' /\ RowInv'
  BY <1>1, <1>2 DEF OnceInv, FreshInv, RowInv
<1>5. HandoffInv'
  BY <1>1, <1>2 DEF OnceInv, HandoffInv, Sole, FreeClosed
<1>6. QED
  BY <1>3, <1>4, <1>5

\* A walk restored from the records holds for each tool what its record says.
LEMMA LoadOnce ==
  ASSUME OnceInv, NEW p \in Processes, Load(p)
  PROVE  /\ CountInv' /\ ReleaseInv' /\ HandoffInv' /\ FreshInv' /\ RowInv' /\ LaunchInv'
         /\ ReleasedInv' /\ KindInv' /\ SkipInv' /\ WholeInv'
<1>1. /\ gate' = gate /\ row' = row /\ released' = released /\ saves' = saves
      /\ ctx' = ctx /\ status' = status /\ at[p] = "resumed"
      /\ \A q \in Processes : at'[q] = IF q = p THEN "walking" ELSE at[q]
      /\ \A q \in Processes, r \in Steps : walk'[q][r] = IF q = p THEN Restored[r] ELSE walk[q][r]
      /\ \A q \in Processes : q # p => walk'[q] = walk[q]
  BY DEF Load, OnceInv, PathInv, TypeOK, parent, children
<1>2. Gate \in Steps /\ Gate \notin Tools /\ Tools \subseteq Steps /\ Free \subseteq Tools /\ Gated \subseteq Tools
  BY FreeFacts DEF Gated
<1>3. /\ \A t \in Tools : /\ row[t] = None => Restored[t] = "waiting"
                          /\ row[t] = "live" => Restored[t] = "running"
                          /\ row[t] \in Ended => Restored[t] = row[t]
                          /\ row[t] \in Ended \cup {None, "live"}
      /\ Restored[Gate] = Verdict(gate)
  BY RestoredRows DEF OnceInv, PathInv
<1>4. /\ \A t \in Tools : Restored[t] \in Ended \cup {"waiting", "running"}
      /\ \A t \in Tools : Restored[t] # "waiting" => row[t] # None
      /\ \A t \in Tools : Restored[t] = "succeeded" => row[t] = "succeeded"
      /\ \A t \in Tools : Restored[t] = "waiting" => row[t] = None
  BY <1>3 DEF Ended
<1>5. Verdict(gate) \in {"waiting", "awaiting", "succeeded", "denied", "refused", "canceled"}
  BY VerdictType DEF OnceInv, PathInv, TypeOK, GateStates
<1>6. CountInv' /\ ReleasedInv' /\ WholeInv'
  BY <1>1 DEF OnceInv, CountInv, ReleasedInv, WholeInv, Whole, RuledOut, Permits
<1>7. FreshInv'
  BY <1>1 DEF OnceInv, FreshInv
<1>8. KindInv'
  BY <1>1, <1>2, <1>3, <1>4, <1>5 DEF OnceInv, KindInv, Executing, Ended
<1>9. SkipInv'
  <2>1. \A s \in Steps : Restored[s] # "skipped"
    BY <1>3, <1>4, <1>5 DEF Steps, Ended
  <2>2. QED
    BY <1>1, <2>1 DEF OnceInv, SkipInv, Blocked, Allows
<1>10. RowInv'
  BY <1>1, <1>2, <1>4 DEF OnceInv, RowInv, Ended
<1>11. ReleaseInv'
  <2>1. \A t \in Gated : Restored[t] # "saving"
    BY <1>2, <1>4 DEF Ended
  <2>2. QED
    BY <1>1, <1>2, <2>1 DEF OnceInv, ReleaseInv
<1>12. LaunchInv'
  <2>1. ASSUME NEW q \in Processes, NEW t \in Free, row'[t] = None, walk'[q][t] \notin Unlaunched
        PROVE  \A j \in Deps[t] : Allows(walk'[q], j)
    <3>1. q # p
      BY <1>1, <1>2, <1>3, <2>1 DEF Unlaunched
    <3>2. QED
      BY <1>1, <2>1, <3>1 DEF OnceInv, LaunchInv, Allows
  <2>2. ASSUME NEW q \in Processes, NEW t \in Gated
        PROVE  /\ walk'[q][t] = "launching" => \A j \in Deps[t] \cap Gated : j \in released'
               /\ walk'[q][t] \in Begun => t \in released'
               /\ walk'[q][t] = "canceled" => t \in released' \/ ctx'[q] # "live"
    <3>1. CASE q = p
      <4>1. walk'[q][t] # "waiting" => t \in released
        BY <1>1, <1>2, <1>4, <3>1 DEF OnceInv, ReleaseInv
      <4>2. walk'[q][t] # "launching"
        BY <1>1, <1>2, <1>4, <3>1 DEF Ended
      <4>3. QED
        BY <1>1, <4>1, <4>2 DEF Begun
    <3>2. CASE q # p
      BY <1>1, <3>2 DEF OnceInv, LaunchInv
    <3>3. QED
      BY <3>1, <3>2
  <2>3. QED
    BY <2>1, <2>2 DEF LaunchInv
<1>13. HandoffInv'
  <2>1. CASE Sole
    BY <1>1, <2>1 DEF HandoffInv, Sole
  <2>2. CASE FreeClosed
    BY <1>1, <1>2, <1>3, <2>2 DEF HandoffInv, FreeClosed, Unlaunched
  <2>3. QED
    BY <2>1, <2>2 DEF OnceInv, HandoffInv
<1>14. QED
  BY <1>6, <1>7, <1>8, <1>9, <1>10, <1>11, <1>12, <1>13

\* The invariant holds at the start.
LEMMA InitOnce == ASSUME Init PROVE OnceInv
<1>1. Tools \subseteq Steps /\ Gate \in Steps /\ Free \subseteq Tools /\ Gated \subseteq Tools
  BY FreeFacts DEF Gated
<1>2. \A p \in Processes, s \in Steps : walk[p][s] = "waiting"
  BY DEF Init, Fresh
<1>3. \A t \in Tools : row[t] = None /\ saves[t] = 0
  BY DEF Init
<1>4. PathInv
  BY InitPaths
<1>5. CountInv /\ FreshInv /\ RowInv /\ KindInv /\ SkipInv
  BY <1>1, <1>2, <1>3 DEF CountInv, FreshInv, RowInv, KindInv, SkipInv, Executing
<1>6. ReleaseInv /\ LaunchInv
  BY <1>1, <1>2, <1>3 DEF ReleaseInv, LaunchInv, Unlaunched, Begun
<1>7. ReleasedInv /\ WholeInv
  BY DEF Init, ReleasedInv, WholeInv
<1>8. HandoffInv
  BY DEF Init, HandoffInv, Sole
<1>9. QED
  BY <1>4, <1>5, <1>6, <1>7, <1>8 DEF OnceInv

\* Every step keeps the invariant.
LEMMA NextOnce ==
  ASSUME OnceInv, [Next]_vars
  PROVE  OnceInv'
<1>1. PathInv /\ PathInv'
  BY NextPaths DEF OnceInv
<1>2. /\ CountInv' /\ ReleaseInv' /\ HandoffInv' /\ FreshInv' /\ RowInv' /\ LaunchInv'
      /\ ReleasedInv' /\ KindInv' /\ SkipInv' /\ WholeInv'
  BY <1>1, NextKind, MovesOnce, StoresOnce, StaysOnce, QuitsOnce, ResumesOnce, LoadOnce
<1>3. QED
  BY <1>1, <1>2 DEF OnceInv

\* What is ruled out by the verdict, advance skips when it reads the records back.
LEMMA WholeAdvances ==
  ASSUME TypeOK, Whole, NEW u \in Tools
  PROVE  Advanced(Restored)[u] \in {"succeeded", "skipped"}
<1> DEFINE f == Advanced(Restored)
<1>1. Gate \in Steps /\ Gate \notin Tools /\ Tools \subseteq Steps /\ Gate \notin Continues
  BY FreeFacts, ConstantsAssumption
<1>2. \A s \in Steps : f[s] = Advance(Restored, f, s)
  BY AdvancedIs
<1> HIDE DEF f
<1>3. ASSUME NEW t \in Tools, row[t] = "succeeded" PROVE f[t] = "succeeded"
  <2>1. Restored[t] = "succeeded"
    BY <1>3, RestoredRows DEF Ended
  <2>2. QED
    BY <1>1, <1>2, <2>1 DEF Advance
<1>4. /\ gate = "denied" => f[Gate] = "denied"
      /\ gate = "approved" => f[Gate] = "succeeded"
  <2>1. Restored[Gate] = Verdict(gate)
    BY RestoredRows
  <2>2. QED
    BY <1>1, <1>2, <2>1, VerdictType DEF Advance
<1>5. ASSUME NEW t \in Tools, row[t] = None, Blocked(f, t) PROVE f[t] = "skipped"
  <2>1. Restored[t] = "waiting"
    BY <1>5, RestoredRows
  <2>2. QED
    BY <1>1, <1>2, <1>5, <2>1 DEF Advance
<1>6. \A t \in Tools : row[t] = None => f[t] = "skipped"
  <2> DEFINE S == {t \in Tools : row[t] = None /\ f[t] # "skipped"}
  <2> SUFFICES ASSUME S # {} PROVE FALSE
    OBVIOUS
  <2>1. PICK t \in S : Behind[t] \cap S = {}
    <3>1. S \in SUBSET Steps
      BY <1>1
    <3>2. QED
      BY <3>1, GraphAssumption
  <2>2. RuledOut(t)
    BY <2>1 DEF Whole, None
  <2>3. CASE Gate \in Deps[t] /\ gate = "denied"
    <3>1. Blocked(f, t)
      BY <1>1, <1>4, <2>3 DEF Blocked, Allows, Settled, Results
    <3>2. QED
      BY <1>5, <2>1, <3>1
  <2>4. CASE t \in OnDeny /\ gate = "approved"
    <3>1. Blocked(f, t)
      BY <1>4, <2>4 DEF Blocked, Settled, Results, Ended
    <3>2. QED
      BY <1>5, <2>1, <3>1
  <2>5. CASE \E j \in Deps[t] \cap Tools : row[j] = None
    <3>1. PICK j \in Deps[t] \cap Tools : row[j] = None
      BY <2>5
    <3>2. j \in Behind[t]
      BY <1>1, <2>1, <3>1, BehindFacts, FreeFacts
    <3>3. f[j] = "skipped"
      BY <2>1, <3>1, <3>2
    <3>4. Blocked(f, t)
      BY <3>1, <3>3 DEF Blocked, Allows, Settled, Results, Ended
    <3>5. QED
      BY <1>5, <2>1, <3>4
  <2>6. QED
    BY <2>2, <2>3, <2>4, <2>5 DEF RuledOut
<1>7. QED
  BY <1>3, <1>6 DEF Whole, f

\* The invariant always holds.
LEMMA OnceAlways == Spec => []OnceInv
<1>1. Init => OnceInv
  BY InitOnce
<1>2. OnceInv /\ [Next]_vars => OnceInv'
  BY NextOnce
<1>3. QED
  BY <1>1, <1>2, PTL DEF Spec

\* However many walks come to launch a step, on whatever processes, and whichever of them stalled,
\* died or was taken over, its record is inserted at most once.
THEOREM StartsOnce == Spec => []StartedOnce
<1>1. OnceInv => StartedOnce
  BY DEF OnceInv, CountInv, StartedOnce
<1>2. QED
  BY <1>1, OnceAlways, PTL

\* A workflow is recorded as succeeded only with its verdict in and every step either succeeded or
\* ruled out, by whichever walk its end was written and whatever another walk still held.
THEOREM SuccessIsWhole == Spec => []SucceedsOnlyWhole
<1>1. OnceInv => SucceedsOnlyWhole
  BY WholeAdvances DEF OnceInv, PathInv, WholeInv, Whole, SucceedsOnlyWhole
<1>2. QED
  BY <1>1, OnceAlways, PTL
-----------------------------------------------------------------------------
(* The promise of ApprovalWorkflow.                                        *)

\* The steps a tool waits for have succeeded, but those that let it run past their failure.
DepsMet(t) == \A j \in Deps[t] \cap Tools : row[j] = "succeeded" \/ j \in Continues

\* What was stored, and what a walk launched, came after its dependencies.
OrderInv ==
  \A t \in Tools :
    row[t] # None \/ (\E p \in Processes : walk[p][t] \in Executing) => DepsMet(t)

\* A tool is launched when it is ready, and a record that succeeded stays.
LEMMA NextOrder ==
  ASSUME OnceInv, OrderInv, [Next]_vars
  PROVE  OrderInv'
<1>1. Tools \subseteq Steps /\ \A t \in Tools : Deps[t] \subseteq Direct(t)
  BY FreeFacts
<1>2. ASSUME RowsEnd, \A p \in Processes, t \in Tools : 
                        walk'[p][t] \in Executing => walk[p][t] \in Executing \/ row[t] # None \/ DepsMet(t)
      PROVE  OrderInv'
  <2>1. \A t \in Tools : (row'[t] = None <=> row[t] = None) /\ (row[t] = "succeeded" => row'[t] = "succeeded")
    BY <1>2, RowsEndFacts DEF Ended
  <2>2. \A t \in Tools : DepsMet(t) => DepsMet(t)'
    BY <2>1 DEF DepsMet
  <2>3. QED
    BY <1>2, <2>1, <2>2 DEF OrderInv
<1>3. ASSUME NEW p \in Processes, NEW s \in Steps, NEW v, Moves(p, s, v)
      PROVE  OrderInv'
  <2>1. \A q \in Processes, r \in Steps : walk'[q][r] = IF q = p /\ r = s THEN v ELSE walk[q][r]
    BY <1>3, SetValue DEF OnceInv, PathInv, Moves
  <2>2. s \in Tools /\ v \in Executing => walk[p][s] \in Executing \/ Ready(walk[p], s)
    BY <1>1, <1>3, FreeFacts DEF Moves, Executing
  <2>3. ASSUME s \in Tools, Ready(walk[p], s) PROVE DepsMet(s)
    <3>1. \A j \in Deps[s] : walk[p][j] = "succeeded" \/ j \in Continues
      BY <1>1, <2>3 DEF Ready, Blocked, Allows
    <3>2. QED
      BY <3>1 DEF DepsMet, OnceInv, RowInv
  <2>4. QED
    BY <1>1, <1>2, <1>3, <2>1, <2>2, <2>3 DEF Moves
<1>4. ASSUME NEW p \in Processes, NEW t \in Tools, NEW v, Stores(p, t, v)
      PROVE  OrderInv'
  <2>1. \A q \in Processes, r \in Steps : walk'[q][r] = IF q = p /\ r = t THEN v ELSE walk[q][r]
    BY <1>1, <1>4, SetValue DEF OnceInv, PathInv, Stores
  <2>2. \A x \in Tools : row'[x] = IF x = t THEN "live" ELSE row[x]
    BY <1>4 DEF Stores, Insert, OnceInv, PathInv, TypeOK
  <2>3. row[t] = None /\ DepsMet(t)
    BY <1>1, <1>4 DEF Stores, Walking, OnceInv, ReleaseInv, RowInv, Gated, OrderInv, Executing
  <2>4. \A x \in Tools : DepsMet(x) => DepsMet(x)'
    BY <2>2, <2>3 DEF DepsMet, None
  <2>5. QED
    BY <1>1, <2>1, <2>2, <2>3, <2>4 DEF OrderInv, None
<1>5. ASSUME NEW p \in Processes, Quits(p) PROVE OrderInv'
  <2>1. \A q \in Processes, r \in Steps : walk'[q][r] = IF q = p THEN "waiting" ELSE walk[q][r]
    BY <1>5, LeavesValue DEF OnceInv, PathInv, Quits
  <2>2. RowsEnd
    BY <1>5 DEF Quits, RowsEnd, children
  <2>3. QED
    BY <1>1, <1>2, <2>1, <2>2 DEF Executing
<1>6. ASSUME NEW p \in Processes, ResumeParked(p) \/ Load(p) PROVE OrderInv'
  <2>1. \A q \in Processes, r \in Steps : walk'[q][r] \in {walk[q][r], Restored[r]}
    BY <1>6 DEF ResumeParked, Load, OnceInv, PathInv, TypeOK
  <2>2. RowsEnd
    BY <1>6 DEF ResumeParked, Load, RowsEnd, children
  <2>3. QED
    BY <1>1, <1>2, <2>1, <2>2, RestoredValue DEF OnceInv, PathInv
<1>7. ASSUME Stays PROVE OrderInv'
  BY <1>2, <1>7 DEF Stays
<1>8. QED
  BY <1>3, <1>4, <1>5, <1>6, <1>7, NextKind DEF OnceInv

\* The invariant of the refinement.
LEMMA OrderAlways == Spec => [](OnceInv /\ OrderInv)
<1>1. Init => OrderInv
  BY FreeFacts DEF Init, Fresh, OrderInv, Executing
<1>2. OnceInv /\ OrderInv /\ [Next]_vars => OrderInv'
  BY NextOrder
<1>3. QED
  BY <1>1, <1>2, OnceAlways, PTL DEF Spec

LEMMA PromiseInit == ASSUME Init PROVE Promise!Init
BY DEF Init, Promise!Init, Promise!Undecided, Promise!Unstarted, None, Ended

\* Every kind of step is a step of the promise, or none.
LEMMA PromiseNext ==
  ASSUME OnceInv, OnceInv', OrderInv, [Next]_vars
  PROVE  [Promise!Next]_(Promise!promised)
<1> DEFINE verdict == IF gate \in {"approved", "denied"} THEN gate ELSE None
           outcome == IF status \in Ended THEN status ELSE "open"
<1>1. row' \in [Tools -> Ended \cup {None, "live"}] /\ status \in Ended \cup {"running", "parked"}
      /\ status' \in Ended \cup {"running", "parked"}
  BY DEF OnceInv, PathInv, TypeOK
<1>2. Promise!Outcomes = Ended /\ Promise!Unstarted = None /\ Promise!Undecided = None
      /\ Promise!Verdicts = {"approved", "denied"}
  BY DEF Promise!Outcomes, Promise!Unstarted, Promise!Undecided, Promise!Verdicts, Ended, None
<1>3. RowsEnd => Promise!RecordsEnd
  BY <1>1, <1>2 DEF RowsEnd, Promise!RecordsEnd
<1>4. ASSUME RowsEnd, verdict' = verdict, outcome' = outcome, saves' = saves
      PROVE  Promise!StepsEnd
  BY <1>3, <1>4 DEF Promise!StepsEnd
<1>5. ASSUME GateKept, row' = row, outcome' = outcome, saves' = saves
      PROVE  [Promise!Decide]_(Promise!promised)
  BY <1>2, <1>5 DEF GateKept, Promise!Decide, Promise!promised, None
<1>6. ASSUME RowsEnd, verdict' = verdict, saves' = saves, status \notin Ended, status' \in Ended,
             status' = "succeeded" => Whole
      PROVE  Promise!Close
  <2>1. Whole => Promise!Complete
    BY <1>2 DEF Whole, RuledOut, Promise!Complete, Promise!RuledOut
  <2>2. QED
    BY <1>2, <1>3, <1>6, <2>1 DEF Promise!Close
<1>7. CASE \E p \in Processes : \E s \in Steps : \E v : Moves(p, s, v)
  BY <1>4, <1>5, <1>7 DEF Moves, Promise!Next
<1>8. ASSUME NEW p \in Processes, NEW t \in Tools, NEW v, Stores(p, t, v)
      PROVE  Promise!Start(t)
  <2>1. row[t] = None /\ (t \in Gated => t \in released)
    BY <1>8, FreeFacts DEF Stores, Walking, OnceInv, ReleaseInv, RowInv, Gated
  <2>2. saves[t] = 0 /\ saves' = [saves EXCEPT ![t] = 1] /\ row' = [row EXCEPT ![t] = "live"]
    <3>1. saves[t] = 0 /\ saves[t] + 1 = 1
      BY <2>1 DEF OnceInv, CountInv
    <3>2. saves' = [saves EXCEPT ![t] = saves[t] + 1] /\ row' = [row EXCEPT ![t] = "live"]
      BY <1>8 DEF Stores, Insert
    <3>3. QED
      BY <3>1, <3>2
  <2>3. Permits(t) /\ DepsMet(t)
    BY <1>8 DEF Stores, OnceInv, PathInv, VerdictInv, OrderInv, Executing
  <2>4. Promise!MayStart(t)
    BY <2>3 DEF Permits, DepsMet, Promise!MayStart
  <2>5. status # "succeeded"
    BY <2>1 DEF OnceInv, WholeInv, Whole, None
  <2>6. QED
    BY <1>8, <2>2, <2>4, <2>5 DEF Stores, Promise!Start, Ended
<1>9. ASSUME NEW p \in Processes, Quits(p)
      PROVE  [Promise!Next]_(Promise!promised)
  <2>1. gate' = gate /\ row' = row /\ saves' = saves /\ RowsEnd
    BY <1>9 DEF Quits, children, RowsEnd
  <2>2. CASE status \in Ended \/ status' \notin Ended
    BY <1>9, <2>1, <2>2 DEF Quits, Promise!promised
  <2>3. CASE status \notin Ended /\ status' \in Ended
    <3>1. status' = "succeeded" => Whole
      BY <1>9, <2>3, EndWhole DEF Quits, Ended
    <3>2. QED
      BY <1>6, <2>1, <2>3, <3>1 DEF Promise!Next
  <2>4. QED
    BY <2>2, <2>3
<1>10. ASSUME NEW p \in Processes, ResumeParked(p) \/ Load(p)
       PROVE  UNCHANGED Promise!promised
  BY <1>10 DEF ResumeParked, CanResume, Load, parent, children, Ended, Promise!promised
<1>11. ASSUME Stays PROVE [Promise!Next]_(Promise!promised)
  <2>1. CASE row' = row /\ status' = status
    BY <1>5, <1>11, <2>1 DEF Stays, Promise!Next
  <2>2. CASE gate' \in {"approved", "denied"} => gate' = gate
    <3>1. verdict' = verdict /\ RowsEnd /\ saves' = saves
      BY <1>11, <2>2 DEF Stays, GateKept
    <3>2. CASE status \in Ended \/ status' \notin Ended
      BY <1>4, <1>11, <3>1, <3>2 DEF Stays, Promise!Next
    <3>3. CASE status \notin Ended /\ status' \in Ended
      <4>1. status' # "succeeded"
        BY <1>11, <3>3 DEF Stays, Ended
      <4>2. QED
        BY <1>6, <3>1, <3>3, <4>1 DEF Promise!Next
    <3>4. QED
      BY <3>2, <3>3
  <2>3. QED
    BY <1>11, <2>1, <2>2 DEF Stays
<1>12. QED
  BY <1>7, <1>8, <1>9, <1>10, <1>11, NextKind DEF OnceInv, Promise!Next

\* The workflow keeps the promise of ApprovalWorkflow for any graph, any number of processes and of
\* faults: the walks, the leases, the sweep, the cancel and the resumes together are one workflow with
\* one verdict, one launch of each step in the order of the graph, and one end.
THEOREM Refinement == Spec => KeepsPromise
<1>1. OnceInv /\ OnceInv' /\ OrderInv /\ [Next]_vars => [Promise!Next]_(Promise!promised)
  BY PromiseNext
<1>2. Init => Promise!Init
  BY PromiseInit
<1>3. QED
  BY <1>1, <1>2, OrderAlways, PTL DEF Spec, KeepsPromise, Promise!Spec
=============================================================================
