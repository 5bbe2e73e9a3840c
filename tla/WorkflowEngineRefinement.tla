----------------------- MODULE WorkflowEngineRefinement -----------------------
(***************************************************************************)
(* The engine implements the ledger of runs, for any sets of messages,     *)
(* workflows and actions and any numbers of deliveries, faults and edits.  *)
(***************************************************************************)
EXTENDS WorkflowEngineProofs

USE DEF brokerVars, handlerVars, tableVars, budgetVars

\* What a reader of the tables sees of the plans.
Plan == [d \in Delivery |-> IF run[d] = "none" THEN [a \in Action |-> 0] ELSE snap[d]]

\* What is started was planned; a run that is created has something to do; a
\* deleted run has no records; the catch block has a run to update.
PlanInv(d) ==
  /\ \A a \in Action : actionRun[d][a] # "none" => Planned(d, a)
  /\ pc[d] = "creating" => \E a \in Action : Planned(d, a)
  /\ run[d] = "deleted" => \A a \in Action : actionRun[d][a] \notin TableRow
  /\ pc[d] = "recovering" => run[d] # "none"

\* A step of a handler keeps its run to its plan.
LEMMA PlanWork ==
  ASSUME TypeOK, NEW d \in Delivery, Work(d), HandlerInv(d), VerdictInv(d), PlanInv(d)
  PROVE  PlanInv(d)'
  <1> USE DEF TypeOK, HandlerTypeOK, TableTypeOK, GoTo, Return, PlanInv, Planned
  <1>1. CASE FindWorkflow(d)
    BY <1>1 DEF FindWorkflow, NothingToDo, ThrowEarly, HandlerInv
  <1>2. CASE LoadActions(d)
    BY <1>2 DEF LoadActions, NothingToDo, ThrowEarly, HandlerInv
  <1>3. CASE CreateRun(d)
    BY <1>3 DEF CreateRun, ThrowEarly, HandlerInv
  <1>4. CASE BeginAction(d)
    BY <1>4 DEF BeginAction, ThrowLate, IsNext, Todo, VerdictInv, AtWork
  <1>5. CASE ExecuteAction(d)
    BY <1>5 DEF ExecuteAction
  <1>6. CASE RecordSuccess(d)
    BY <1>6 DEF RecordSuccess, ThrowLate, HandlerInv, VerdictInv, AtWork, TableRow
  <1>7. CASE RecordFailure(d)
    BY <1>7 DEF RecordFailure, AfterFailure, ThrowLate, HandlerInv, VerdictInv, AtWork, TableRow
  <1>8. CASE SettleRun(d)
    BY <1>8 DEF SettleRun, Verdict, ThrowLate, VerdictInv, AtWork
  <1>9. CASE Recover(d)
    BY <1>9 DEF Recover, Recovered
  <1> QED
    BY <1>1, <1>2, <1>3, <1>4, <1>5, <1>6, <1>7, <1>8, <1>9 DEF Work

\* A cascade that takes a run takes its records.
LEMMA CascadesWhole ==
  ASSUME TypeOK, NEW d \in Delivery, PlanInv(d), Erased(d),
         \/ \E w \in Workflow : ToggleWorkflow(w) \/ DeleteWorkflow(w)
         \/ \E a \in Action : DeleteAction(a)
  PROVE  PlanInv(d)'
  <1> USE DEF TypeOK, HandlerTypeOK, TableTypeOK, TableRow
  <1>1. run'[d] = "deleted" => \A a \in Action : actionRun'[d][a] \notin TableRow
    BY DEF ToggleWorkflow, DeleteWorkflow, DeleteAction, PlanInv
  <1>2. /\ \A a \in Action : actionRun'[d][a] # "none" => Planned(d, a)'
        /\ pc'[d] = "creating" => \E a \in Action : Planned(d, a)'
        /\ pc'[d] = "recovering" => run'[d] # "none"
    BY DEF Erased, PlanInv, Planned
  <1> QED
    BY <1>1, <1>2 DEF PlanInv
\* Every step keeps it.
LEMMA PlanKept ==
  ASSUME TypeOK, EngineInv, RecordInv, [Next]_vars, NEW d \in Delivery, PlanInv(d)
  PROVE  PlanInv(d)'
  <1>0. HandlerInv(d) /\ VerdictInv(d) /\ \A m \in Message : Fresh(m)
    BY DEF EngineInv, RecordInv
  <1>1. CASE Same(d) \/ HandedOut(d) \/ Killed(d) \/ Closed(d)
    BY <1>1 DEF Same, HandedOut, Killed, Closed, PlanInv, Planned
  <1>2. CASE Work(d)
    BY <1>0, <1>2, PlanWork
  <1>3. CASE Erased(d) /\ ~Same(d)
    <2>1. ~UNCHANGED <<handlerVars, run, actionRun>>
      BY <1>3 DEF Same
    <2>2. UNCHANGED handlerVars
      BY <1>3 DEF Erased
    <2>3. CASE \E e \in Delivery : HandlerStep(e)
      <3> PICK e \in Delivery : HandlerStep(e)
        BY <2>3
      <3>1. CASE Work(e)
        BY <1>2, <1>3, <3>1, WorkIsPrivate
      <3>2. CASE Respond(e)
        BY <2>1, <2>2, <3>2 DEF Respond
      <3> QED
        BY <3>1, <3>2 DEF HandlerStep
    <2>4. CASE \/ \E w \in Workflow : ToggleWorkflow(w) \/ DeleteWorkflow(w)
               \/ \E a \in Action : DeleteAction(a)
      BY <1>3, <2>4, CascadesWhole
    <2>5. CASE (\E m \in Message : Publish(m) \/ Deliver(m)) \/ Connect \/ LoseConnection \/ Crash
      BY <2>1, <2>2, <2>5 DEF Publish, Deliver, Connect, LoseConnection, Crash
    <2>6. CASE UNCHANGED vars
      BY <2>1, <2>6 DEF vars
    <2> QED
      BY <2>3, <2>4, <2>5, <2>6 DEF Next
  <1> QED
    BY <1>0, <1>1, <1>2, <1>3, WhatHappens

\* Every run of every behaviour keeps to its plan.
LEMMA Plans == Spec => [](EngineInv /\ RecordInv /\ \A d \in Delivery : PlanInv(d))
  <1>1. Init => \A d \in Delivery : PlanInv(d)
    BY DEF Init, PlanInv
  <1>2. /\ TypeOK /\ EngineInv /\ RecordInv /\ (\A d \in Delivery : PlanInv(d)) /\ [Next]_vars
        => (\A d \in Delivery : PlanInv(d))'
    BY PlanKept
  <1> QED
    BY <1>1, <1>2, TypeCorrect, Verdicts, PTL DEF Spec

-----------------------------------------------------------------------------
(* The steps of the engine, seen in the ledger.                            *)

\* A handler's await is one step of the ledger, or cannot be seen in it.
LedgerMoves == Ledger!Next \/ UNCHANGED <<Plan, run, actionRun>>

\* Plans are visible with their runs: nobody sees one change.
LEMMA PlanSteady ==
  ASSUME TypeOK, NEW d \in Delivery,
         \A e \in Delivery \ {d} : snap'[e] = snap[e] /\ run'[e] = run[e],
         \/ run[d] = "none" /\ run'[d] = "none"
         \/ run[d] # "none" /\ run'[d] # "none" /\ snap'[d] = snap[d]
  PROVE  Plan' = Plan
  BY DEF Plan

\* The handler's first three awaits.
LEMMA OpeningMaps ==
  ASSUME TypeOK, NEW d \in Delivery, HandlerInv(d), PlanInv(d),
         FindWorkflow(d) \/ LoadActions(d) \/ CreateRun(d)
  PROVE  LedgerMoves
  <1> USE DEF TypeOK, HandlerTypeOK, TableTypeOK
  <1>1. CASE FindWorkflow(d)
    BY <1>1 DEF FindWorkflow, LedgerMoves, Plan
  <1>2. CASE LoadActions(d)
    <2>1. run[d] = "none" /\ UNCHANGED <<run, actionRun>>
      BY <1>2 DEF LoadActions, HandlerInv
    <2>2. \A e \in Delivery \ {d} : snap'[e] = snap[e]
      BY <1>2 DEF LoadActions
    <2> QED
      BY <2>1, <2>2, PlanSteady DEF LedgerMoves
  <1>3. CASE CreateRun(d)
    <2>1. run[d] = "none" /\ UNCHANGED <<snap, actionRun>> /\ \E a \in Action : snap[d][a] > 0
      BY <1>3 DEF CreateRun, HandlerInv, PlanInv, Planned
    <2>2. CASE run' = run
      BY <2>1, <2>2 DEF LedgerMoves, Plan
    <2>3. CASE run' = [run EXCEPT ![d] = "Running"]
      <3>1. Plan' = [Plan EXCEPT ![d] = snap[d]] /\ Plan'[d] = snap[d]
        BY <2>1, <2>3 DEF Plan
      <3>2. snap[d] \in [Action -> Nat]
        OBVIOUS
      <3>3. Ledger!Open(d)
        BY <2>1, <2>3, <3>1, <3>2 DEF Ledger!Open, Plan
      <3> QED
        BY <3>3 DEF LedgerMoves, Ledger!Next
    <2> QED
      BY <1>3, <2>2, <2>3 DEF CreateRun
  <1> QED
    BY <1>1, <1>2, <1>3

\* The loop of the handler: an action is started, and its record is settled.
LEMMA LoopMaps ==
  ASSUME TypeOK, NEW d \in Delivery, HandlerInv(d), VerdictInv(d), PlanInv(d),
         BeginAction(d) \/ ExecuteAction(d) \/ RecordSuccess(d) \/ RecordFailure(d)
  PROVE  LedgerMoves
  <1> USE DEF TypeOK, HandlerTypeOK, TableTypeOK
  <1>0. UNCHANGED <<snap, run>> /\ Plan' = Plan
    BY DEF BeginAction, ExecuteAction, RecordSuccess, RecordFailure, Plan
  <1>1. CASE actionRun' = actionRun
    BY <1>0, <1>1 DEF LedgerMoves
  <1>2. ASSUME run[d] # "deleted", pc[d] \in AtWork
        PROVE  run[d] = "Running" /\ \A a \in Action : Plan[d][a] = snap[d][a]
    <2>1. run[d] = "Running"
      BY <1>2 DEF VerdictInv
    <2> QED
      BY <2>1 DEF Plan
  <1>3. CASE BeginAction(d) /\ actionRun' # actionRun
    <2>1. PICK a \in Action : /\ pc[d] = "beginning" /\ IsNext(d, a) /\ run[d] # "deleted"
                              /\ actionRun' = [actionRun EXCEPT ![d][a] = "Running"]
      BY <1>3 DEF BeginAction
    <2>2. snap[d][a] > 0 /\ actionRun[d][a] = "none"
      BY <2>1 DEF IsNext, Todo
    <2>3. ASSUME NEW b \in Action, snap[d][b] > 0, snap[d][b] < snap[d][a] PROVE Passed(d, b)
      <3>1. snap[d][a] \in Nat /\ snap[d][b] \in Nat
        OBVIOUS
      <3>2. actionRun[d][b] # "none"
        BY <2>1, <2>3, <3>1 DEF IsNext, Todo
      <3> QED
        BY <2>1, <2>3, <3>2 DEF HandlerInv, Begun, Planned
    <2>4. ASSUME NEW b \in Action PROVE actionRun[d][b] \notin {"Running", "Failed"}
      BY <2>1 DEF HandlerInv, Begun, Passed, PlanInv
    <2>5. run[d] = "Running" /\ \A b \in Action : Plan[d][b] = snap[d][b]
      BY <1>2, <2>1 DEF AtWork
    <2>6. Ledger!Start(d, a)
      BY <1>0, <2>1, <2>2, <2>3, <2>4, <2>5 DEF Ledger!Start, Ledger!Passed, Passed, Plan
    <2> QED
      BY <2>6 DEF LedgerMoves, Ledger!Next
  <1>4. CASE (RecordSuccess(d) \/ RecordFailure(d)) /\ actionRun' # actionRun
    <2>1. /\ pc[d] \in {"recordingSuccess", "recordingFailure"}
          /\ actionRun[d][cur[d]] # "deleted"
          /\ \E s \in {"Succeeded", "Failed"} : actionRun' = [actionRun EXCEPT ![d][cur[d]] = s]
      BY <1>4 DEF RecordSuccess, RecordFailure
    <2>2. cur[d] \in Action /\ actionRun[d][cur[d]] = "Running"
      BY <2>1 DEF HandlerInv
    <2>3. run[d] # "deleted"
      BY <2>2 DEF PlanInv, TableRow
    <2>4. run[d] = "Running"
      BY <1>2, <2>1, <2>3 DEF AtWork
    <2>5. Ledger!Finish(d, cur[d])
      BY <1>0, <2>1, <2>2, <2>4 DEF Ledger!Finish, Plan
    <2> QED
      BY <2>2, <2>5 DEF LedgerMoves, Ledger!Next
  <1>5. CASE ExecuteAction(d)
    BY <1>1, <1>5 DEF ExecuteAction
  <1> QED
    BY <1>1, <1>3, <1>4, <1>5

\* The run is closed, or a success is taken back.
LEMMA ClosingMaps ==
  ASSUME TypeOK, NEW d \in Delivery, HandlerInv(d), VerdictInv(d), PlanInv(d),
         SettleRun(d) \/ Recover(d)
  PROVE  LedgerMoves
  <1> USE DEF TypeOK, HandlerTypeOK, TableTypeOK
  <1>0. UNCHANGED <<snap, actionRun>>
    BY DEF SettleRun, Recover
  <1>1. CASE run' = run
    BY <1>0, <1>1 DEF LedgerMoves, Plan
  <1>2. ASSUME run[d] # "none", NEW s \in {"Succeeded", "Failed"}, run' = [run EXCEPT ![d] = s]
        PROVE  Plan' = Plan /\ Plan[d] = snap[d]
    <2>1. Plan' = Plan
      BY <1>0, <1>2, PlanSteady
    <2> QED
      BY <1>2, <2>1 DEF Plan
  <1>3. CASE SettleRun(d) /\ run' # run
    <2>1. pc[d] = "settling" /\ run[d] = "Running" /\ run' = [run EXCEPT ![d] = Verdict(d)]
      BY <1>3 DEF SettleRun, VerdictInv, AtWork
    <2>2. CASE outcome[d] = "success"
      <3>1. run' = [run EXCEPT ![d] = "Succeeded"]
        BY <2>1, <2>2 DEF Verdict
      <3>2. \A a \in Action : snap[d][a] > 0 => Passed(d, a)
        BY <2>1, <2>2 DEF HandlerInv, AllPassed, Planned
      <3>3. Plan' = Plan /\ Plan[d] = snap[d]
        BY <1>2, <2>1, <3>1
      <3>4. Ledger!CloseSucceeded(d)
        BY <1>0, <2>1, <3>1, <3>2, <3>3 DEF Ledger!CloseSucceeded, Ledger!Passed, Passed, Plan
      <3> QED
        BY <3>4 DEF LedgerMoves, Ledger!Next
    <2>3. CASE outcome[d] # "success"
      <3>1. run' = [run EXCEPT ![d] = "Failed"]
        BY <2>1, <2>3 DEF Verdict
      <3>2. Plan' = Plan
        BY <1>2, <2>1, <3>1
      <3>3. Ledger!CloseFailed(d)
        BY <1>0, <2>1, <3>1, <3>2 DEF Ledger!CloseFailed, Plan
      <3> QED
        BY <3>3 DEF LedgerMoves, Ledger!Next
    <2> QED
      BY <2>2, <2>3
  <1>4. CASE Recover(d) /\ run' # run
    <2>1. /\ run[d] \in {"Running", "Succeeded", "Failed"}
          /\ run' = [run EXCEPT ![d] = "Failed"]
      BY <1>4 DEF Recover, Recovered, PlanInv, RowStatus
    <2>2. run[d] # "Failed"
      BY <1>4, <2>1
    <2>3. Plan' = Plan
      BY <1>2, <2>1
    <2>4. Ledger!CloseFailed(d)
      BY <1>0, <2>1, <2>2, <2>3 DEF Ledger!CloseFailed, Plan
    <2> QED
      BY <2>4 DEF LedgerMoves, Ledger!Next
  <1> QED
    BY <1>1, <1>3, <1>4

\* The user's deletions erase rows, a run only with its records.
LEMMA EditsErase ==
  ASSUME TypeOK, \/ \E w \in Workflow : ToggleWorkflow(w) \/ DeleteWorkflow(w)
                 \/ \E a \in Action : DeleteAction(a)
  PROVE  LedgerMoves
  <1> USE DEF TypeOK, HandlerTypeOK, TableTypeOK
  <1>0. snap' = snap
    BY DEF ToggleWorkflow, DeleteWorkflow, DeleteAction
  <1>1. ASSUME NEW w \in Workflow, ToggleWorkflow(w) PROVE LedgerMoves
    BY <1>1, <1>0 DEF ToggleWorkflow, LedgerMoves, Plan
  <1>2. ASSUME NEW w \in Workflow, DeleteWorkflow(w) PROVE LedgerMoves
    <2>1. Plan' = Plan
      BY <1>0, <1>2 DEF DeleteWorkflow, Plan, TableRow
    <2>2. Ledger!Erase
      BY <1>2, <2>1 DEF DeleteWorkflow, Ledger!Erase, Ledger!Row, TableRow, Plan
    <2> QED
      BY <2>2 DEF LedgerMoves, Ledger!Next
  <1>3. ASSUME NEW a \in Action, DeleteAction(a) PROVE LedgerMoves
    <2>1. Plan' = Plan
      BY <1>0, <1>3 DEF DeleteAction, Plan
    <2>2. Ledger!Erase
      BY <1>3, <2>1 DEF DeleteAction, Ledger!Erase, Ledger!Row, TableRow, Plan
    <2> QED
      BY <2>2 DEF LedgerMoves, Ledger!Next
  <1> QED
    BY <1>1, <1>2, <1>3

\* Whatever handlers, edits, faults and redeliveries do, the run tables behave as
\* RunLedger says: a run is opened with a plan, its actions start in the order of
\* their steps, and its verdict agrees with them.
THEOREM EngineKeepsLedger == Spec => ImplementsLedger
  <1>1. Init => Ledger!Init
    <2> SUFFICES ASSUME Init PROVE Ledger!Init
      OBVIOUS
    <2>1. Plan = [d \in Delivery |-> [a \in Action |-> 0]]
      BY DEF Init, Plan
    <2> QED
      BY <2>1 DEF Init, Ledger!Init, Plan
  <1>2. /\ TypeOK /\ EngineInv /\ RecordInv /\ (\A d \in Delivery : PlanInv(d)) /\ [Next]_vars
        => [Ledger!Next]_(Ledger!vars)
    <2> SUFFICES ASSUME TypeOK, EngineInv, RecordInv, \A d \in Delivery : PlanInv(d), [Next]_vars
                 PROVE  LedgerMoves
      BY DEF LedgerMoves, Ledger!vars, Plan
    <2>1. ASSUME NEW d \in Delivery, Work(d) PROVE LedgerMoves
      <3>1. HandlerInv(d) /\ VerdictInv(d) /\ PlanInv(d)
        BY DEF EngineInv, RecordInv
      <3> QED
        BY <2>1, <3>1, OpeningMaps, LoopMaps, ClosingMaps DEF Work
    <2>2. CASE \/ \E w \in Workflow : ToggleWorkflow(w) \/ DeleteWorkflow(w)
               \/ \E a \in Action : DeleteAction(a)
      BY <2>2, EditsErase
    <2>3. CASE UNCHANGED <<snap, run, actionRun>>
      BY <2>3 DEF LedgerMoves, Plan
    <2>4. ASSUME NEW m \in Message, Publish(m) \/ Deliver(m) PROVE UNCHANGED <<snap, run, actionRun>>
      BY <2>4 DEF Publish, Deliver
    <2>5. CASE Connect \/ LoseConnection \/ Crash
      BY <2>3, <2>5 DEF Connect, LoseConnection, Crash
    <2>6. ASSUME NEW d \in Delivery, Respond(d) PROVE UNCHANGED <<snap, run, actionRun>>
      BY <2>6 DEF Respond
    <2>7. CASE UNCHANGED vars
      BY <2>3, <2>7 DEF vars
    <2> QED
      BY <2>1, <2>2, <2>3, <2>4, <2>5, <2>6, <2>7 DEF Next, HandlerStep
  <1> QED
    BY <1>1, <1>2, TypeCorrect, Plans, PTL DEF Spec, ImplementsLedger, Ledger!Spec

=============================================================================
