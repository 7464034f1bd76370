------------------------------ MODULE DemoRunner ------------------------------
(***************************************************************************)
(* scripts/demo-runner.ts as the dashboard sees it: the events it          *)
(* publishes, in the order of main.  What its actions do to the account is *)
(* AgentProof's and SimulatedAccount's.                                    *)
(***************************************************************************)
EXTENDS DashboardApi

CONSTANTS
  RunnerAsk,   \* the id of its one escalation
  Acts,        \* plain actions before the escalation, and after it
  Slices       \* the slices of its salami scene (14)

ASSUME RunnerAssumption == RunnerAsk \notin Asks /\ Acts \in Nat /\ Slices \in Nat

VARIABLE script   \* what the runner has still to do

decisionPayload == Plain

\* act: the thought, then the action's verdict.
act == <<Plain, decisionPayload>>

\* DemoApprover.request: the request without a deadline, then, once the terminal
\* has answered, its id and state alone.
approverRequest == <<Approval(RunnerAsk, 0, TRUE), Approval(RunnerAsk, 0, FALSE)>>

\* An action at the threshold is decided in the terminal, between two events.
escalatedAct == <<Plain>> \o approverRequest \o <<decisionPayload>>

salami == <<Plain>> \o [i \in 1..Slices |-> decisionPayload]

\* The bypass reverts and is published as a block.
bypass == <<Plain, decisionPayload>>

identityScene == <<Plain>>

main ==
  LET acts == [i \in 1..(2 * Acts) |-> act[1 + ((i + 1) % 2)]]
  IN  identityScene \o acts \o escalatedAct \o acts \o salami \o bypass

\* Fire and forget: an API that cannot be reached loses the event.  An action that
\* throws ends the run, and nothing obliges it to go on.
runnerPublish ==
  /\ script # <<>> /\ script' = Tail(script)
  /\ IF up THEN publishRoute(Head(script)) ELSE UNCHANGED apiVars

InitRunner == script = main
=============================================================================
