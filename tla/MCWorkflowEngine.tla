-------------------------- MODULE MCWorkflowEngine --------------------------
(***************************************************************************)
(* Small instances of WorkflowEngine for TLC.  Two webhooks trigger one    *)
(* workflow (one of them may be an "issues" event, whose handler drops     *)
(* instead of requeueing); the workflow has two actions.                   *)
(***************************************************************************)
EXTENDS WorkflowEngine

CONSTANTS m1, m2, a1, a2, w1

MCTarget == [m \in Message |-> w1]
MCWorkflowOf == [a \in Action |-> w1]
MCInitStep == [a \in Action |-> IF a = a1 THEN 1 ELSE 2]

\* One message with two steps, two faults and an edit; or two messages with one
\* fault and two deliveries each, once the user has deleted the second step and
\* no handler has it.  The workflow is then an enabled one: a disabled one has
\* nothing to run.
SmallEnough ==
  queue[m2] # "unsent" =>
    /\ faults <= 1
    /\ \A m \in Message : attempts[m] <= 2
    /\ workflow[w1] = "enabled"
    /\ step[a2] = 0
    /\ \A d \in Delivery : snap[d][a2] = 0

=============================================================================
