----------------------------- MODULE RunLedger -----------------------------
(***************************************************************************)
(* What the run tables of ShobApp24 promise a user who reads them, with no *)
(* broker, handler, await or failure in sight: a run is opened with a      *)
(* plan (the actions and their steps), its actions are started one step    *)
(* after the other, each only when the steps before it have succeeded, and *)
(* the run is closed with a verdict that agrees with them.  A closed run   *)
(* gets no further action.  Rows may be erased, a run only with its        *)
(* actions.  WorkflowEngine implements this specification.                 *)
(***************************************************************************)
EXTENDS Naturals

CONSTANTS
  Run,     \* the runs
  Action   \* the actions

VARIABLES
  plan,       \* plan[r][a]: the step of a in r, 0 when a is not part of it
  run,        \* the status of each run
  actionRun   \* the status of each action in each run

vars == <<plan, run, actionRun>>

Row == {"Running", "Succeeded", "Failed"}

Init ==
  /\ plan = [r \in Run |-> [a \in Action |-> 0]]
  /\ run = [r \in Run |-> "none"]
  /\ actionRun = [r \in Run |-> [a \in Action |-> "none"]]

Passed(r, a) == actionRun[r][a] \in {"Succeeded", "deleted"}

Open(r) ==
  /\ run[r] = "none"
  /\ run' = [run EXCEPT ![r] = "Running"]
  /\ plan' = [plan EXCEPT ![r] = plan'[r]]
  /\ plan'[r] \in [Action -> Nat]
  /\ \E a \in Action : plan'[r][a] > 0
  /\ UNCHANGED actionRun

Start(r, a) ==
  /\ run[r] = "Running"
  /\ plan[r][a] > 0
  /\ actionRun[r][a] = "none"
  /\ \A b \in Action : plan[r][b] > 0 /\ plan[r][b] < plan[r][a] => Passed(r, b)
  /\ \A b \in Action : actionRun[r][b] \notin {"Running", "Failed"}
  /\ actionRun' = [actionRun EXCEPT ![r][a] = "Running"]
  /\ UNCHANGED <<plan, run>>

Finish(r, a) ==
  /\ run[r] = "Running"
  /\ actionRun[r][a] = "Running"
  /\ \E s \in {"Succeeded", "Failed"} : actionRun' = [actionRun EXCEPT ![r][a] = s]
  /\ UNCHANGED <<plan, run>>

CloseSucceeded(r) ==
  /\ run[r] = "Running"
  /\ \A a \in Action : plan[r][a] > 0 => Passed(r, a)
  /\ run' = [run EXCEPT ![r] = "Succeeded"]
  /\ UNCHANGED <<plan, actionRun>>

\* A success may be taken back, when its writer could not know it was recorded.
CloseFailed(r) ==
  /\ run[r] \in {"Running", "Succeeded"}
  /\ run' = [run EXCEPT ![r] = "Failed"]
  /\ UNCHANGED <<plan, actionRun>>

Erase ==
  /\ \A r \in Run :
       run'[r] = run[r] \/ (run[r] \in Row /\ run'[r] = "deleted")
  /\ \A r \in Run, a \in Action :
       \/ actionRun'[r][a] = actionRun[r][a] /\ run'[r] = run[r]
       \/ actionRun[r][a] \notin Row /\ actionRun'[r][a] = actionRun[r][a]
       \/ actionRun[r][a] \in Row /\ actionRun'[r][a] = "deleted"
  /\ run' = [r \in Run |-> run'[r]]
  /\ actionRun' = [r \in Run |-> [a \in Action |-> actionRun'[r][a]]]
  /\ UNCHANGED plan

Next ==
  \/ \E r \in Run : Open(r) \/ CloseSucceeded(r) \/ CloseFailed(r)
  \/ \E r \in Run, a \in Action : Start(r, a) \/ Finish(r, a)
  \/ Erase

Spec == Init /\ [][Next]_vars

=============================================================================
