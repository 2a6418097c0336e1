-------------------------- MODULE ApprovalWorkflow --------------------------
(***************************************************************************)
(* What a workflow with an approval step promises, whoever walks it and    *)
(* however often it changes hands: one verdict, which stands; every step   *)
(* is started at most once, after the steps it waits for and under the     *)
(* verdict that lets it run; the workflow is closed once, and as a success *)
(* only when the graph and the verdict leave nothing to do.                *)
(***************************************************************************)
EXTENDS Naturals

CONSTANTS Tools, Gate, Deps, OnDeny, Continues

VARIABLES verdict, record, launches, outcome

Undecided == "none"
Unstarted == "none"
Verdicts == {"approved", "denied"}
Outcomes == {"succeeded", "failed", "canceled", "interrupted"}

promised == <<verdict, record, launches, outcome>>

Init ==
  /\ verdict = Undecided /\ outcome = "open"
  /\ record = [t \in Tools |-> Unstarted] /\ launches = [t \in Tools |-> 0]

Decide ==
  /\ verdict = Undecided /\ verdict' \in Verdicts
  /\ UNCHANGED <<record, launches, outcome>>

\* The verdict lets the step run, and so do the steps it waits for.
MayStart(t) ==
  /\ Gate \in Deps[t] => verdict = "approved"
  /\ t \in OnDeny => verdict = "denied"
  /\ \A j \in Deps[t] \cap Tools : record[j] = "succeeded" \/ j \in Continues

Start(t) ==
  /\ outcome # "succeeded" /\ launches[t] = 0 /\ MayStart(t)
  /\ record' = [record EXCEPT ![t] = "live"] /\ launches' = [launches EXCEPT ![t] = 1]
  /\ UNCHANGED <<verdict, outcome>>

\* What was started ends, and what ended stays.
RecordsEnd ==
  /\ record' \in [Tools -> Outcomes \cup {Unstarted, "live"}]
  /\ \A t \in Tools : record'[t] = record[t] \/ (record[t] = "live" /\ record'[t] \in Outcomes)

StepsEnd == RecordsEnd /\ UNCHANGED <<verdict, launches, outcome>>

\* The verdict, or a step that was not started either, keeps the step from starting.
RuledOut(t) ==
  \/ Gate \in Deps[t] /\ verdict = "denied"
  \/ t \in OnDeny /\ verdict = "approved"
  \/ \E j \in Deps[t] \cap Tools : record[j] = Unstarted

Complete ==
  /\ verdict \in Verdicts
  /\ \A t \in Tools : record[t] = "succeeded" \/ (record[t] = Unstarted /\ RuledOut(t))

\* A close that interrupts the workflow stops its steps.
Close ==
  /\ outcome = "open" /\ outcome' \in Outcomes /\ (outcome' = "succeeded" => Complete)
  /\ RecordsEnd /\ UNCHANGED <<verdict, launches>>

Next == Decide \/ (\E t \in Tools : Start(t)) \/ StepsEnd \/ Close

Spec == Init /\ [][Next]_promised
=============================================================================
