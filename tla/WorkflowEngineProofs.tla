------------------------ MODULE WorkflowEngineProofs ------------------------
(***************************************************************************)
(* Theorems about WorkflowEngine for every set of messages, workflows and  *)
(* actions, and every bound.                                               *)
(***************************************************************************)
EXTENDS WorkflowEngine, TLAPS

USE DEF brokerVars, handlerVars, tableVars, budgetVars

-----------------------------------------------------------------------------
(* Type correctness.                                                       *)

\* One step of a handler keeps the types: what it writes into the run tables
\* are row statuses, what it returns is one of the consumer's answers.
LEMMA HandlerTyping ==
  ASSUME TypeOK, NEW d \in Delivery, HandlerStep(d)
  PROVE  TypeOK'
  <1> USE DEF TypeOK
  <1>1. CASE FindWorkflow(d)
    <2>1. HandlerTypeOK'
      BY <1>1 DEF FindWorkflow, HandlerTypeOK, Outcome, Awaiting, GoTo, Return, NothingToDo, ThrowEarly, Caught
    <2>2. TableTypeOK'
      BY <1>1 DEF FindWorkflow, TableTypeOK
    <2>3. BrokerTypeOK' /\ BudgetTypeOK'
      BY <1>1, EngineAssumption DEF FindWorkflow, BrokerTypeOK, BudgetTypeOK, Fault, EngineAssumption
    <2> QED
      BY <2>1, <2>2, <2>3 DEF TypeOK
  <1>2. CASE LoadActions(d)
    <2>1. pc' \in [Delivery -> Awaiting \cup {"idle", "over", "killed"}]
      BY <1>2 DEF LoadActions, HandlerTypeOK, Awaiting, GoTo, Return, NothingToDo, ThrowEarly, Caught
    <2>2. outcome' \in [Delivery -> Outcome]
      BY <1>2 DEF LoadActions, HandlerTypeOK, Outcome, GoTo, Return, NothingToDo, ThrowEarly, Caught
    <2>3. cur' \in [Delivery -> Action \cup {NoAction}] /\ snap' \in [Delivery -> [Action -> Nat]]
      <3>1. cur' \in [Delivery -> Action \cup {NoAction}]
        BY <1>2 DEF LoadActions, HandlerTypeOK
      <3>2. snap' \in [Delivery -> [Action -> Nat]]
        BY <1>2 DEF LoadActions, HandlerTypeOK, TableTypeOK
      <3> QED
        BY <3>1, <3>2
    <2>4. HandlerTypeOK'
      BY <2>1, <2>2, <2>3 DEF HandlerTypeOK
    <2>5. TableTypeOK'
      BY <1>2 DEF LoadActions, TableTypeOK
    <2>6. BrokerTypeOK' /\ BudgetTypeOK'
      BY <1>2, EngineAssumption DEF LoadActions, BrokerTypeOK, BudgetTypeOK, Fault, EngineAssumption
    <2> QED
      BY <2>4, <2>5, <2>6 DEF TypeOK
  <1>3. CASE CreateRun(d)
    <2>1. HandlerTypeOK'
      BY <1>3 DEF CreateRun, HandlerTypeOK, Outcome, Awaiting, GoTo, Return, ThrowEarly, Caught
    <2>2. TableTypeOK'
      BY <1>3 DEF CreateRun, TableTypeOK, RowStatus
    <2>3. BrokerTypeOK' /\ BudgetTypeOK'
      BY <1>3, EngineAssumption DEF CreateRun, BrokerTypeOK, BudgetTypeOK, Fault, EngineAssumption
    <2> QED
      BY <2>1, <2>2, <2>3 DEF TypeOK
  <1>4. CASE BeginAction(d)
    <2>1. pc' \in [Delivery -> Awaiting \cup {"idle", "over", "killed"}]
      BY <1>4 DEF BeginAction, HandlerTypeOK, Awaiting, GoTo, Return, ThrowLate, Caught
    <2>2. outcome' \in [Delivery -> Outcome]
      BY <1>4 DEF BeginAction, HandlerTypeOK, Outcome, GoTo, Return, ThrowLate, Caught
    <2>3. cur' \in [Delivery -> Action \cup {NoAction}] /\ snap' \in [Delivery -> [Action -> Nat]]
      BY <1>4 DEF BeginAction, HandlerTypeOK
    <2>4. HandlerTypeOK'
      BY <2>1, <2>2, <2>3 DEF HandlerTypeOK
    <2>5. actionRun' \in [Delivery -> [Action -> RowStatus]]
      BY <1>4 DEF BeginAction, TableTypeOK, RowStatus
    <2>6. TableTypeOK'
      BY <1>4, <2>5 DEF BeginAction, TableTypeOK
    <2>7. BrokerTypeOK' /\ BudgetTypeOK'
      BY <1>4, EngineAssumption DEF BeginAction, BrokerTypeOK, BudgetTypeOK, Fault, EngineAssumption
    <2> QED
      BY <2>4, <2>6, <2>7 DEF TypeOK
  <1>5. CASE ExecuteAction(d)
    <2>1. HandlerTypeOK'
      BY <1>5 DEF ExecuteAction, HandlerTypeOK, Outcome, Awaiting, GoTo, Return, Refusal
    <2>2. TableTypeOK'
      BY <1>5 DEF ExecuteAction, TableTypeOK
    <2>3. BrokerTypeOK' /\ BudgetTypeOK'
      BY <1>5, EngineAssumption DEF ExecuteAction, BrokerTypeOK, BudgetTypeOK, Fault, EngineAssumption
    <2> QED
      BY <2>1, <2>2, <2>3 DEF TypeOK
  <1>6. CASE RecordSuccess(d)
    <2>1. pc' \in [Delivery -> Awaiting \cup {"idle", "over", "killed"}]
      BY <1>6 DEF RecordSuccess, HandlerTypeOK, Awaiting, GoTo, Return, ThrowLate, Caught
    <2>2. outcome' \in [Delivery -> Outcome]
      BY <1>6 DEF RecordSuccess, HandlerTypeOK, Outcome, GoTo, Return, ThrowLate, Caught
    <2>3. cur' \in [Delivery -> Action \cup {NoAction}] /\ snap' \in [Delivery -> [Action -> Nat]]
      BY <1>6 DEF RecordSuccess, HandlerTypeOK
    <2>4. HandlerTypeOK'
      BY <2>1, <2>2, <2>3 DEF HandlerTypeOK
    <2>5. actionRun' \in [Delivery -> [Action -> RowStatus]]
      BY <1>6 DEF RecordSuccess, TableTypeOK, RowStatus
    <2>6. TableTypeOK'
      BY <1>6, <2>5 DEF RecordSuccess, TableTypeOK
    <2>7. BrokerTypeOK' /\ BudgetTypeOK'
      BY <1>6, EngineAssumption DEF RecordSuccess, BrokerTypeOK, BudgetTypeOK, Fault, EngineAssumption
    <2> QED
      BY <2>4, <2>6, <2>7 DEF TypeOK
  <1>7. CASE RecordFailure(d)
    <2>1. pc' \in [Delivery -> Awaiting \cup {"idle", "over", "killed"}]
      BY <1>7 DEF RecordFailure, HandlerTypeOK, Awaiting, GoTo, Return, AfterFailure, ThrowLate, Caught
    <2>2. outcome' \in [Delivery -> Outcome]
      BY <1>7 DEF RecordFailure, HandlerTypeOK, Outcome, GoTo, Return, AfterFailure, ThrowLate, Caught
    <2>3. cur' \in [Delivery -> Action \cup {NoAction}] /\ snap' \in [Delivery -> [Action -> Nat]]
      BY <1>7 DEF RecordFailure, HandlerTypeOK
    <2>4. HandlerTypeOK'
      BY <2>1, <2>2, <2>3 DEF HandlerTypeOK
    <2>5. actionRun' \in [Delivery -> [Action -> RowStatus]]
      BY <1>7 DEF RecordFailure, TableTypeOK, RowStatus
    <2>6. TableTypeOK'
      BY <1>7, <2>5 DEF RecordFailure, TableTypeOK
    <2>7. BrokerTypeOK' /\ BudgetTypeOK'
      BY <1>7, EngineAssumption DEF RecordFailure, BrokerTypeOK, BudgetTypeOK, Fault, EngineAssumption
    <2> QED
      BY <2>4, <2>6, <2>7 DEF TypeOK
  <1>8. CASE SettleRun(d)
    <2>1. HandlerTypeOK'
      BY <1>8 DEF SettleRun, HandlerTypeOK, Outcome, Awaiting, GoTo, Return, ThrowLate, Caught
    <2>2. TableTypeOK'
      BY <1>8 DEF SettleRun, TableTypeOK, RowStatus, Verdict
    <2>3. BrokerTypeOK' /\ BudgetTypeOK'
      BY <1>8, EngineAssumption DEF SettleRun, BrokerTypeOK, BudgetTypeOK, Fault, EngineAssumption
    <2> QED
      BY <2>1, <2>2, <2>3 DEF TypeOK
  <1>9. CASE Recover(d)
    <2>1. HandlerTypeOK'
      BY <1>9 DEF Recover, HandlerTypeOK, Outcome, Awaiting, GoTo, Return
    <2>2. TableTypeOK'
      BY <1>9 DEF Recover, TableTypeOK, RowStatus, Recovered
    <2>3. BrokerTypeOK' /\ BudgetTypeOK'
      BY <1>9, EngineAssumption DEF Recover, BrokerTypeOK, BudgetTypeOK, Fault, EngineAssumption
    <2> QED
      BY <2>1, <2>2, <2>3 DEF TypeOK
  <1>10. CASE Respond(d)
    <2>1. HandlerTypeOK'
      BY <1>10 DEF Respond, HandlerTypeOK, GoTo, ProcessDies
    <2>2. BrokerTypeOK'
      BY <1>10 DEF Respond, BrokerTypeOK, QueueState, Answer, ProcessDies, ChannelCloses, Requeued
    <2>3. TableTypeOK' /\ BudgetTypeOK'
      BY <1>10 DEF Respond, TableTypeOK, BudgetTypeOK
    <2> QED
      BY <2>1, <2>2, <2>3 DEF TypeOK
  <1> QED
    BY <1>1, <1>2, <1>3, <1>4, <1>5, <1>6, <1>7, <1>8, <1>9, <1>10 DEF HandlerStep, Work

\* Type correctness of the engine: every variable keeps its type, and the
\* steps deleteActionById renumbers stay natural numbers.
THEOREM TypeCorrect == Spec => []TypeOK
  <1>1. Init => TypeOK
    <2> SUFFICES ASSUME Init PROVE TypeOK
      OBVIOUS
    <2>1. BrokerTypeOK
      <3>1. 0 \in 0 .. MaxDeliveries
        BY EngineAssumption DEF EngineAssumption
      <3> QED
        BY <3>1 DEF Init, BrokerTypeOK, QueueState
    <2>2. HandlerTypeOK
      BY DEF Init, HandlerTypeOK, Outcome
    <2>3. TableTypeOK
      BY EngineAssumption DEF Init, TableTypeOK, RowStatus, EngineAssumption
    <2>4. BudgetTypeOK
      BY EngineAssumption DEF Init, BudgetTypeOK, EngineAssumption
    <2> QED
      BY <2>1, <2>2, <2>3, <2>4 DEF TypeOK
  <1>2. TypeOK /\ [Next]_vars => TypeOK'
    <2> SUFFICES ASSUME TypeOK, [Next]_vars PROVE TypeOK'
      OBVIOUS
    <2> USE DEF TypeOK
    <2>1. ASSUME NEW m \in Message, Publish(m) PROVE TypeOK'
      BY <2>1 DEF Publish, BrokerTypeOK, HandlerTypeOK, TableTypeOK, BudgetTypeOK, QueueState
    <2>2. ASSUME NEW m \in Message, Deliver(m) PROVE TypeOK'
      <3>1. attempts[m] + 1 \in 1 .. MaxDeliveries
        BY <2>2, EngineAssumption DEF Deliver, BrokerTypeOK, EngineAssumption
      <3>2. <<m, attempts[m] + 1>> \in Delivery
        BY <3>1 DEF Delivery
      <3>3. BrokerTypeOK'
        BY <2>2, <3>1, <3>2, EngineAssumption DEF Deliver, BrokerTypeOK, QueueState, EngineAssumption
      <3>4. HandlerTypeOK'
        BY <2>2, <3>2 DEF Deliver, HandlerTypeOK, GoTo, Awaiting
      <3>5. TableTypeOK' /\ BudgetTypeOK'
        BY <2>2 DEF Deliver, TableTypeOK, BudgetTypeOK
      <3> QED
        BY <3>3, <3>4, <3>5
    <2>3. CASE Connect
      BY <2>3 DEF Connect, BrokerTypeOK, HandlerTypeOK, TableTypeOK, BudgetTypeOK
    <2>4. CASE LoseConnection
      <3>1. BrokerTypeOK'
        BY <2>4 DEF LoseConnection, ChannelCloses, Requeued, BrokerTypeOK, QueueState
      <3>2. BudgetTypeOK'
        BY <2>4, EngineAssumption DEF LoseConnection, Fault, BudgetTypeOK, EngineAssumption
      <3>3. HandlerTypeOK' /\ TableTypeOK'
        BY <2>4 DEF LoseConnection, HandlerTypeOK, TableTypeOK
      <3> QED
        BY <3>1, <3>2, <3>3
    <2>5. CASE Crash
      <3>1. BrokerTypeOK'
        BY <2>5 DEF Crash, ProcessDies, ChannelCloses, Requeued, BrokerTypeOK, QueueState
      <3>2. BudgetTypeOK'
        BY <2>5, EngineAssumption DEF Crash, Fault, BudgetTypeOK, EngineAssumption
      <3>3. HandlerTypeOK' /\ TableTypeOK'
        BY <2>5 DEF Crash, ProcessDies, HandlerTypeOK, TableTypeOK
      <3> QED
        BY <3>1, <3>2, <3>3
    <2>6. ASSUME NEW d \in Delivery, HandlerStep(d) PROVE TypeOK'
      BY <2>6, HandlerTyping
    <2>7. ASSUME NEW w \in Workflow, ToggleWorkflow(w) PROVE TypeOK'
      <3>1. TableTypeOK' /\ BudgetTypeOK'
        BY <2>7, EngineAssumption DEF ToggleWorkflow, Edit, TableTypeOK, BudgetTypeOK, EngineAssumption
      <3>2. BrokerTypeOK' /\ HandlerTypeOK'
        BY <2>7 DEF ToggleWorkflow, BrokerTypeOK, HandlerTypeOK
      <3> QED
        BY <3>1, <3>2
    <2>8. ASSUME NEW w \in Workflow, DeleteWorkflow(w) PROVE TypeOK'
      <3>1. workflow' \in [Workflow -> {"enabled", "disabled", "deleted"}] /\ step' \in [Action -> Nat]
        BY <2>8 DEF DeleteWorkflow, TableTypeOK
      <3>2. run' \in [Delivery -> RowStatus] /\ actionRun' \in [Delivery -> [Action -> RowStatus]]
        BY <2>8 DEF DeleteWorkflow, TableTypeOK, RowStatus
      <3>3. BrokerTypeOK' /\ HandlerTypeOK' /\ BudgetTypeOK'
        BY <2>8, EngineAssumption DEF DeleteWorkflow, Edit, BrokerTypeOK, HandlerTypeOK, BudgetTypeOK, EngineAssumption
      <3> QED
        BY <3>1, <3>2, <3>3 DEF TableTypeOK
    <2>9. ASSUME NEW a \in Action, DeleteAction(a) PROVE TypeOK'
      <3>1. step' \in [Action -> Nat]
        BY <2>9 DEF DeleteAction, StepsWithout, TableTypeOK
      <3>2. actionRun' \in [Delivery -> [Action -> RowStatus]]
        BY <2>9 DEF DeleteAction, TableTypeOK, RowStatus
      <3>3. TableTypeOK'
        BY <2>9, <3>1, <3>2 DEF DeleteAction, TableTypeOK
      <3>4. BrokerTypeOK' /\ HandlerTypeOK' /\ BudgetTypeOK'
        BY <2>9, EngineAssumption DEF DeleteAction, Edit, BrokerTypeOK, HandlerTypeOK, BudgetTypeOK, EngineAssumption
      <3> QED
        BY <3>3, <3>4
    <2>10. CASE UNCHANGED vars
      BY <2>10 DEF vars, BrokerTypeOK, HandlerTypeOK, TableTypeOK, BudgetTypeOK
    <2> QED
      BY <2>1, <2>2, <2>3, <2>4, <2>5, <2>6, <2>7, <2>8, <2>9, <2>10 DEF Next
  <1> QED
    BY <1>1, <1>2, PTL DEF Spec

-----------------------------------------------------------------------------
(* Who may answer for a message.                                           *)

\* Until it answers, a handler only moves from one await to another and leaves
\* the broker alone.
LEMMA WorkAdvances ==
  ASSUME TypeOK, NEW d \in Delivery, Work(d)
  PROVE  /\ UNCHANGED brokerVars
         /\ InFlight(d)
         /\ \A e \in Delivery : InFlight(e)' = InFlight(e)
  <1> DEFINE Moves == pc[d] \in Awaiting /\ \E p \in Awaiting : pc' = [pc EXCEPT ![d] = p]
  <1>1. Moves
    <2> USE DEF Awaiting, GoTo
    <2>1. CASE FindWorkflow(d)  BY <2>1 DEF FindWorkflow, NothingToDo, ThrowEarly
    <2>2. CASE LoadActions(d)   BY <2>2 DEF LoadActions, NothingToDo, ThrowEarly
    <2>3. CASE CreateRun(d)     BY <2>3 DEF CreateRun, ThrowEarly
    <2>4. CASE BeginAction(d)   BY <2>4 DEF BeginAction, ThrowLate
    <2>5. CASE ExecuteAction(d) BY <2>5 DEF ExecuteAction
    <2>6. CASE RecordSuccess(d) BY <2>6 DEF RecordSuccess, ThrowLate
    <2>7. CASE RecordFailure(d) BY <2>7 DEF RecordFailure, AfterFailure, ThrowLate
    <2>8. CASE SettleRun(d)     BY <2>8 DEF SettleRun, ThrowLate
    <2>9. CASE Recover(d)       BY <2>9 DEF Recover
    <2> QED
      BY <2>1, <2>2, <2>3, <2>4, <2>5, <2>6, <2>7, <2>8, <2>9 DEF Work
  <1>2. UNCHANGED brokerVars
    BY DEF Work, FindWorkflow, LoadActions, CreateRun, BeginAction, ExecuteAction,
      RecordSuccess, RecordFailure, SettleRun, Recover
  <1>3. ASSUME NEW e \in Delivery PROVE InFlight(e)' = InFlight(e)
    BY <1>1 DEF TypeOK, HandlerTypeOK, InFlight
  <1>4. InFlight(d)
    BY <1>1 DEF InFlight
  <1> QED
    BY <1>2, <1>3, <1>4

\* Every step keeps the agreement between broker and process on who may answer.
LEMMA OwnerKept ==
  ASSUME TypeOK, OneOwner, [Next]_vars
  PROVE  OneOwner'
  <1> SUFFICES ASSUME NEW m \in Message, NEW n \in 1 .. MaxDeliveries
               PROVE (<<m, n>> \in live <=>
                        queue[m] = "unacked" /\ n = attempts[m] /\ InFlight(<<m, n>>))'
    BY DEF OneOwner
  <1>0. <<m, n>> \in Delivery
    BY DEF Delivery
  <1>a. <<m, n>> \in live <=> queue[m] = "unacked" /\ n = attempts[m] /\ InFlight(<<m, n>>)
    BY DEF OneOwner
  <1> USE DEF TypeOK, BrokerTypeOK
  <1>1. ASSUME NEW k \in Message, Publish(k) PROVE (<<m, n>> \in live <=>
                        queue[m] = "unacked" /\ n = attempts[m] /\ InFlight(<<m, n>>))'
    BY <1>1, <1>a DEF Publish, InFlight
  <1>2. ASSUME NEW k \in Message, Deliver(k) PROVE (<<m, n>> \in live <=>
                        queue[m] = "unacked" /\ n = attempts[m] /\ InFlight(<<m, n>>))'
    <2>1. attempts[k] + 1 \in 1 .. MaxDeliveries /\ <<k, attempts[k] + 1>> \in Delivery
      BY <1>2, EngineAssumption DEF Deliver, Delivery, EngineAssumption
    <2>2. CASE m = k
      BY <2>1, <2>2, <1>2, <1>0, <1>a DEF Deliver, InFlight, Awaiting, GoTo, HandlerTypeOK
    <2>3. CASE m # k
      BY <2>1, <2>3, <1>2, <1>0, <1>a DEF Deliver, InFlight, GoTo, HandlerTypeOK
    <2> QED
      BY <2>2, <2>3
  <1>3. CASE Connect
    BY <1>3, <1>a DEF Connect, InFlight
  <1>4. CASE LoseConnection
    BY <1>4 DEF LoseConnection, ChannelCloses, Requeued
  <1>5. CASE Crash
    BY <1>5 DEF Crash, ProcessDies, ChannelCloses, Requeued
  <1>6. ASSUME NEW d \in Delivery, Work(d) PROVE (<<m, n>> \in live <=>
                        queue[m] = "unacked" /\ n = attempts[m] /\ InFlight(<<m, n>>))'
    BY <1>6, <1>0, <1>a, WorkAdvances
  <1>7. ASSUME NEW d \in Delivery, Respond(d) PROVE (<<m, n>> \in live <=>
                        queue[m] = "unacked" /\ n = attempts[m] /\ InFlight(<<m, n>>))'
    <2>1. CASE MayAnswer(d)
      <3>0. PICK k \in Message, j \in 1 .. MaxDeliveries : d = <<k, j>>
        BY DEF Delivery
      <3>1. CASE d = <<m, n>>
        BY <2>1, <3>1, <1>7, <1>0 DEF Respond, MayAnswer, AnsweredWith, Answer, InFlight, Awaiting, GoTo, HandlerTypeOK
      <3>2. CASE d # <<m, n>> /\ k = m
        <4>1. <<m, n>> \notin live
          BY <2>1, <3>0, <3>2, <1>a DEF OneOwner, MayAnswer
        <4> QED
          BY <2>1, <3>0, <3>2, <4>1, <1>7, <1>0 DEF Respond, MayAnswer, AnsweredWith, Answer, InFlight, GoTo, HandlerTypeOK
      <3>3. CASE d # <<m, n>> /\ k # m
        BY <2>1, <3>0, <3>3, <1>7, <1>0, <1>a DEF Respond, MayAnswer, AnsweredWith, Answer, InFlight, GoTo, HandlerTypeOK
      <3> QED
        BY <3>1, <3>2, <3>3
    <2>2. CASE ~MayAnswer(d)
      BY <2>2, <1>7 DEF Respond, ProcessDies, ChannelCloses, Requeued
    <2> QED
      BY <2>1, <2>2
  <1>8. ASSUME NEW w \in Workflow, ToggleWorkflow(w) \/ DeleteWorkflow(w) PROVE (<<m, n>> \in live <=>
                        queue[m] = "unacked" /\ n = attempts[m] /\ InFlight(<<m, n>>))'
    BY <1>8, <1>a DEF ToggleWorkflow, DeleteWorkflow, InFlight
  <1>9. ASSUME NEW a \in Action, DeleteAction(a) PROVE (<<m, n>> \in live <=>
                        queue[m] = "unacked" /\ n = attempts[m] /\ InFlight(<<m, n>>))'
    BY <1>9, <1>a DEF DeleteAction, InFlight
  <1>10. CASE UNCHANGED vars
    BY <1>10, <1>a DEF vars, InFlight
  <1> QED
    BY <1>1, <1>2, <1>3, <1>4, <1>5, <1>6, <1>7, <1>8, <1>9, <1>10 DEF Next, HandlerStep

\* A message is out exactly while its last delivery is in flight on an open
\* channel: a handler that outlived its connection can never answer for it.
THEOREM OneOwnerHolds == Spec => []OneOwner
  <1>1. Init => OneOwner
    BY DEF Init, OneOwner, Delivery
  <1>2. TypeOK /\ OneOwner /\ [Next]_vars => OneOwner'
    BY OwnerKept
  <1> QED
    BY <1>1, <1>2, TypeCorrect, PTL DEF Spec

\* No step takes back an answer: only the owner of an unanswered message answers.
LEMMA AnswerKept ==
  ASSUME TypeOK, OneOwner, [Next]_vars, NEW m \in Message, queue[m] \in {"acked", "dead"}
  PROVE  queue'[m] = queue[m]
  <1> USE DEF TypeOK, BrokerTypeOK
  <1>1. ASSUME NEW k \in Message, Publish(k) \/ Deliver(k) PROVE queue'[m] = queue[m]
    BY <1>1 DEF Publish, Deliver
  <1>2. CASE Connect \/ LoseConnection \/ Crash
    BY <1>2 DEF Connect, LoseConnection, Crash, ProcessDies, ChannelCloses, Requeued
  <1>3. ASSUME NEW d \in Delivery, Work(d) PROVE queue'[m] = queue[m]
    BY <1>3, WorkAdvances
  <1>4. ASSUME NEW d \in Delivery, Respond(d) PROVE queue'[m] = queue[m]
    <2>1. PICK k \in Message, j \in 1 .. MaxDeliveries : d = <<k, j>>
      BY DEF Delivery
    <2>2. CASE MayAnswer(d)
      <3>1. k # m
        BY <2>1, <2>2 DEF MayAnswer, OneOwner
      <3> QED
        BY <1>4, <2>1, <2>2, <3>1 DEF Respond, AnsweredWith
    <2>3. CASE ~MayAnswer(d)
      BY <2>3, <1>4 DEF Respond, ProcessDies, ChannelCloses, Requeued
    <2> QED
      BY <2>2, <2>3
  <1>5. ASSUME NEW w \in Workflow, ToggleWorkflow(w) \/ DeleteWorkflow(w) PROVE queue'[m] = queue[m]
    BY <1>5 DEF ToggleWorkflow, DeleteWorkflow
  <1>6. ASSUME NEW a \in Action, DeleteAction(a) PROVE queue'[m] = queue[m]
    BY <1>6 DEF DeleteAction
  <1>7. CASE UNCHANGED vars
    BY <1>7 DEF vars
  <1> QED
    BY <1>1, <1>2, <1>3, <1>4, <1>5, <1>6, <1>7 DEF Next, HandlerStep

\* An answered message stays answered, however many handlers of it are still
\* running and whatever becomes of connection and process.
THEOREM AnswersAreFinal == Spec => AnswerIsFinal
  <1>1. TypeOK /\ OneOwner /\ [Next]_vars =>
          [\A m \in Message : queue[m] \in {"acked", "dead"} => queue'[m] = queue[m]]_vars
    BY AnswerKept
  <1> QED
    BY <1>1, TypeCorrect, OneOwnerHolds, PTL DEF Spec, AnswerIsFinal

-----------------------------------------------------------------------------
(* What the records say of the work.                                       *)

Same(e) == /\ pc'[e] = pc[e] /\ outcome'[e] = outcome[e] /\ cur'[e] = cur[e]
           /\ snap'[e] = snap[e] /\ run'[e] = run[e] /\ actionRun'[e] = actionRun[e]

\* A step that leaves a delivery's rows and handler alone keeps its invariant.
LEMMA SameKept ==
  ASSUME NEW e \in Delivery, HandlerInv(e), InOrder(e), Same(e)
  PROVE  HandlerInv(e)' /\ InOrder(e)'
  BY DEF Same, HandlerInv, InOrder, AllPassed, Planned, Passed, Begun

\* So does the death of its process.
LEMMA KilledKept ==
  ASSUME NEW e \in Delivery, HandlerInv(e), InOrder(e), pc'[e] = "killed",
         UNCHANGED <<outcome, cur, snap, run, actionRun>>
  PROVE  HandlerInv(e)' /\ InOrder(e)'
  BY DEF HandlerInv, InOrder, AllPassed, Planned, Passed, Begun

Erased(e) ==
  /\ UNCHANGED handlerVars
  /\ run'[e] = run[e] \/ (run[e] \in TableRow /\ run'[e] = "deleted")
  /\ \A a \in Action : \/ actionRun'[e][a] = actionRun[e][a]
                       \/ actionRun[e][a] \in TableRow /\ actionRun'[e][a] = "deleted"

\* So does the deletion of some of its rows under it.
LEMMA ErasedKept ==
  ASSUME NEW e \in Delivery, HandlerInv(e), InOrder(e), Erased(e)
  PROVE  HandlerInv(e)' /\ InOrder(e)'
  <1> USE DEF Erased, AllPassed, Planned, Passed, Begun, TableRow
  <1>1. InOrder(e)'
    BY DEF InOrder
  <1>2. HandlerInv(e)'
    BY DEF HandlerInv
  <1> QED
    BY <1>1, <1>2

\* A handler works on its own rows only.
LEMMA WorkIsPrivate ==
  ASSUME TypeOK, NEW d \in Delivery, Work(d), NEW e \in Delivery, e # d
  PROVE  Same(e)
  <1> USE DEF TypeOK, HandlerTypeOK, TableTypeOK, Same, GoTo, Return
  <1>1. CASE FindWorkflow(d)  BY <1>1 DEF FindWorkflow, NothingToDo, ThrowEarly
  <1>2. CASE LoadActions(d)   BY <1>2 DEF LoadActions, NothingToDo, ThrowEarly
  <1>3. CASE CreateRun(d)     BY <1>3 DEF CreateRun, ThrowEarly
  <1>4. CASE BeginAction(d)   BY <1>4 DEF BeginAction, ThrowLate
  <1>5. CASE ExecuteAction(d) BY <1>5 DEF ExecuteAction
  <1>6. CASE RecordSuccess(d) BY <1>6 DEF RecordSuccess, ThrowLate
  <1>7. CASE RecordFailure(d) BY <1>7 DEF RecordFailure, ThrowLate
  <1>8. CASE SettleRun(d)     BY <1>8 DEF SettleRun, ThrowLate
  <1>9. CASE Recover(d)       BY <1>9 DEF Recover, Recovered
  <1> QED
    BY <1>1, <1>2, <1>3, <1>4, <1>5, <1>6, <1>7, <1>8, <1>9 DEF Work

\* Every await of a handler keeps what is true of its own rows.
LEMMA WorkKept ==
  ASSUME TypeOK, NEW d \in Delivery, Work(d), HandlerInv(d), InOrder(d)
  PROVE  HandlerInv(d)' /\ InOrder(d)'
  <1> USE DEF TypeOK, HandlerTypeOK, TableTypeOK, GoTo, Return
  <1> USE DEF AllPassed, Planned, Passed, Begun, Todo, Caught
  <1>1. CASE FindWorkflow(d)
    BY <1>1 DEF FindWorkflow, NothingToDo, ThrowEarly, HandlerInv, InOrder
  <1>2. CASE LoadActions(d)
    BY <1>2 DEF LoadActions, NothingToDo, ThrowEarly, HandlerInv, InOrder
  <1>3. CASE CreateRun(d)
    BY <1>3 DEF CreateRun, ThrowEarly, HandlerInv, InOrder
  <1>4. CASE BeginAction(d)
    <2>a. PICK a \in Action :
            /\ IsNext(d, a)
            /\ \A b \in Action : b # a => actionRun'[d][b] = actionRun[d][b]
      BY <1>4 DEF BeginAction
    <2>b. /\ \A b \in Action : Begun(d, b) => Passed(d, b)
          /\ snap' = snap
      BY <1>4 DEF BeginAction, HandlerInv
    <2>1. InOrder(d)'
      <3> SUFFICES ASSUME NEW b \in Action, NEW c \in Action, Planned(d, b),
                          snap[d][b] < snap[d][c], actionRun'[d][c] # "none"
                   PROVE  Passed(d, b)'
        BY <2>b DEF InOrder
      <3>1. b # a
        <4>1. c = a => snap[d][b] < snap[d][a]
          OBVIOUS
        <4>2. c # a => actionRun[d][c] # "none" /\ Passed(d, b)
          BY <2>a DEF InOrder
        <4>3. actionRun[d][a] = "none"
          BY <2>a DEF IsNext
        <4> QED
          BY <4>1, <4>2, <4>3
      <3>2. Passed(d, b)
        BY <2>a, <2>b, <3>1 DEF IsNext, InOrder
      <3> QED
        BY <2>a, <2>b, <3>1, <3>2
    <2>2. HandlerInv(d)'
      BY <1>4 DEF BeginAction, ThrowLate, IsNext, HandlerInv
    <2> QED
      BY <2>1, <2>2
  <1>5. CASE ExecuteAction(d)
    BY <1>5 DEF ExecuteAction, Refusal, HandlerInv, InOrder
  <1>6. CASE RecordSuccess(d)
    <2> DEFINE updated == [actionRun EXCEPT ![d][cur[d]] = "Succeeded"]
    <2>a. /\ cur[d] \in Action /\ actionRun[d][cur[d]] # "none"
          /\ \A a \in Action \ {cur[d]} : Begun(d, a) => Passed(d, a)
      BY <1>6 DEF RecordSuccess, HandlerInv
    <2>b. snap' = snap /\ run' = run /\ cur' = cur
      BY <1>6 DEF RecordSuccess
    <2>c. actionRun' = actionRun \/ actionRun' = updated
      BY <1>6 DEF RecordSuccess
    <2>d. \/ pc' = [pc EXCEPT ![d] = "beginning"] /\ actionRun' = updated
          \/ pc' = [pc EXCEPT ![d] = "settling"] /\ actionRun' = updated /\ Todo(d, updated) = {}
          \/ pc' = [pc EXCEPT ![d] = "recovering"] /\ outcome'[d] \in {"drop", "requeue"}
      BY <1>6 DEF RecordSuccess, ThrowLate
    <2>1. InOrder(d)'
      BY <2>a, <2>b, <2>c DEF InOrder
    <2>2. run[d] = "Succeeded" => AllPassed(d)'
      BY <2>a, <2>b, <2>c DEF HandlerInv
    <2>3. actionRun' = updated => \A a \in Action : Begun(d, a)' => Passed(d, a)'
      BY <2>a, <2>b
    <2>4. actionRun' = updated /\ Todo(d, updated) = {} => AllPassed(d)'
      BY <2>3, <2>b
    <2>5. HandlerInv(d)'
      BY <2>b, <2>d, <2>2, <2>3, <2>4 DEF HandlerInv
    <2> QED
      BY <2>1, <2>5
  <1>7. CASE RecordFailure(d)
    <2>a. cur[d] \in Action /\ Planned(d, cur[d]) /\ actionRun[d][cur[d]] \in {"Running", "deleted"}
      BY <1>7 DEF RecordFailure, HandlerInv
    <2>b. snap' = snap /\ run' = run /\ cur' = cur
      BY <1>7 DEF RecordFailure
    <2>c. \/ actionRun' = actionRun
          \/ /\ actionRun[d][cur[d]] = "Running"
             /\ actionRun' = [actionRun EXCEPT ![d][cur[d]] = "Failed"]
      BY <1>7, <2>a DEF RecordFailure
    <2>d. \/ pc' = [pc EXCEPT ![d] = "settling"] /\ outcome'[d] = outcome[d]
          \/ pc' = [pc EXCEPT ![d] = "recovering"] /\ outcome'[d] \in {"drop", "requeue"}
      BY <1>7 DEF RecordFailure, AfterFailure, ThrowLate
    <2>e. outcome[d] # "success"
      BY <1>7 DEF RecordFailure, HandlerInv
    <2>1. InOrder(d)'
      BY <2>a, <2>b, <2>c DEF InOrder
    <2>2. run[d] = "Succeeded" => AllPassed(d)'
      BY <2>a, <2>b, <2>c DEF HandlerInv
    <2>3. HandlerInv(d)'
      BY <2>b, <2>d, <2>e, <2>2 DEF HandlerInv
    <2> QED
      BY <2>1, <2>3
  <1>8. CASE SettleRun(d)
    BY <1>8 DEF SettleRun, Verdict, ThrowLate, HandlerInv, InOrder
  <1>9. CASE Recover(d)
    BY <1>9 DEF Recover, Recovered, HandlerInv, InOrder
  <1> QED
    BY <1>1, <1>2, <1>3, <1>4, <1>5, <1>6, <1>7, <1>8, <1>9 DEF Work

\* The consumer's answer closes a handler with its records as they are.
LEMMA RespondKept ==
  ASSUME TypeOK, NEW d \in Delivery, Respond(d),
         NEW e \in Delivery, HandlerInv(e), InOrder(e)
  PROVE  HandlerInv(e)' /\ InOrder(e)'
  <1>1. CASE MayAnswer(d) /\ e = d
    BY <1>1 DEF Respond, TypeOK, HandlerTypeOK, GoTo, HandlerInv, InOrder, AllPassed, Planned, Passed, Begun
  <1>2. CASE MayAnswer(d) /\ e # d
    <2>1. Same(e)
      BY <1>2 DEF Respond, TypeOK, HandlerTypeOK, GoTo, Same
    <2> QED
      BY <2>1, SameKept
  <1>3. CASE ~MayAnswer(d) /\ InFlight(e)
    BY <1>3, KilledKept DEF Respond, ProcessDies
  <1>4. CASE ~MayAnswer(d) /\ ~InFlight(e)
    <2>1. Same(e)
      BY <1>4 DEF Respond, ProcessDies, Same
    <2> QED
      BY <2>1, SameKept
  <1> QED
    BY <1>1, <1>2, <1>3, <1>4

\* Every step of the engine keeps what is true of every delivery's rows.
LEMMA RecordsKept ==
  ASSUME TypeOK, [Next]_vars, NEW e \in Delivery, HandlerInv(e), InOrder(e),
         \A m \in Message : Fresh(m)
  PROVE  HandlerInv(e)' /\ InOrder(e)'
  <1>1. ASSUME NEW m \in Message, Publish(m) PROVE HandlerInv(e)' /\ InOrder(e)'
    <2>1. Same(e)
      BY <1>1 DEF Publish, Same
    <2> QED
      BY <2>1, SameKept
  <1>2. ASSUME NEW m \in Message, Deliver(m) PROVE HandlerInv(e)' /\ InOrder(e)'
    <2> DEFINE d == <<m, attempts[m] + 1>>
    <2>1. d \in Delivery /\ pc[d] = "idle"
      <3>1. attempts[m] + 1 \in 1 .. MaxDeliveries /\ attempts[m] \in Nat
        BY <1>2, EngineAssumption DEF Deliver, TypeOK, BrokerTypeOK, EngineAssumption
      <3> QED
        BY <3>1 DEF Delivery, Fresh
    <2>2. pc' = [pc EXCEPT ![d] = "finding"] /\ UNCHANGED <<outcome, cur, snap, run, actionRun>>
      BY <1>2 DEF Deliver, GoTo
    <2>3. CASE e = d
      BY <2>1, <2>2, <2>3 DEF TypeOK, HandlerTypeOK, HandlerInv, InOrder, AllPassed, Planned, Passed, Begun
    <2>4. CASE e # d
      <3>1. Same(e)
        BY <2>1, <2>2, <2>4 DEF TypeOK, HandlerTypeOK, Same
      <3> QED
        BY <3>1, SameKept
    <2> QED
      BY <2>3, <2>4
  <1>3. CASE Connect \/ LoseConnection
    <2>1. Same(e)
      BY <1>3 DEF Connect, LoseConnection, Same
    <2> QED
      BY <2>1, SameKept
  <1>4. CASE Crash
    <2>1. CASE InFlight(e)
      BY <1>4, <2>1, KilledKept DEF Crash, ProcessDies
    <2>2. CASE ~InFlight(e)
      <3>1. Same(e)
        BY <1>4, <2>2 DEF Crash, ProcessDies, Same
      <3> QED
        BY <3>1, SameKept
    <2> QED
      BY <2>1, <2>2
  <1>5. ASSUME NEW d \in Delivery, Work(d) PROVE HandlerInv(e)' /\ InOrder(e)'
    <2>1. CASE e = d
      BY <1>5, <2>1, WorkKept
    <2>2. CASE e # d
      BY <1>5, <2>2, WorkIsPrivate, SameKept
    <2> QED
      BY <2>1, <2>2
  <1>6. ASSUME NEW d \in Delivery, Respond(d) PROVE HandlerInv(e)' /\ InOrder(e)'
    BY <1>6, RespondKept
  <1>7. ASSUME NEW w \in Workflow, ToggleWorkflow(w) PROVE HandlerInv(e)' /\ InOrder(e)'
    <2>1. Same(e)
      BY <1>7 DEF ToggleWorkflow, Same
    <2> QED
      BY <2>1, SameKept
  <1>8. ASSUME NEW w \in Workflow, DeleteWorkflow(w) PROVE HandlerInv(e)' /\ InOrder(e)'
    <2>1. run'[e] = run[e] \/ (run[e] \in TableRow /\ run'[e] = "deleted")
      BY <1>8 DEF DeleteWorkflow
    <2>2. ASSUME NEW a \in Action
          PROVE  \/ actionRun'[e][a] = actionRun[e][a]
                 \/ actionRun[e][a] \in TableRow /\ actionRun'[e][a] = "deleted"
      <3>1. actionRun'[e] = [b \in Action |->
                               IF Wf(e) = w /\ actionRun[e][b] \in TableRow
                               THEN "deleted" ELSE actionRun[e][b]]
        BY <1>8 DEF DeleteWorkflow
      <3> QED
        BY <3>1
    <2>3. UNCHANGED handlerVars
      BY <1>8 DEF DeleteWorkflow
    <2>4. Erased(e)
      BY <2>1, <2>2, <2>3 DEF Erased
    <2> QED
      BY <2>4, ErasedKept
  <1>9. ASSUME NEW b \in Action, DeleteAction(b) PROVE HandlerInv(e)' /\ InOrder(e)'
    <2>1. run'[e] = run[e]
      BY <1>9 DEF DeleteAction
    <2>2. ASSUME NEW a \in Action
          PROVE  \/ actionRun'[e][a] = actionRun[e][a]
                 \/ actionRun[e][a] \in TableRow /\ actionRun'[e][a] = "deleted"
      <3>1. actionRun'[e] = [c \in Action |->
                               IF c = b /\ actionRun[e][c] \in TableRow
                               THEN "deleted" ELSE actionRun[e][c]]
        BY <1>9 DEF DeleteAction
      <3> QED
        BY <3>1
    <2>3. UNCHANGED handlerVars
      BY <1>9 DEF DeleteAction
    <2>4. Erased(e)
      BY <2>1, <2>2, <2>3 DEF Erased
    <2> QED
      BY <2>4, ErasedKept
  <1>10. CASE UNCHANGED vars
    <2>1. Same(e)
      BY <1>10 DEF vars, Same
    <2> QED
      BY <2>1, SameKept
  <1> QED
    BY <1>1, <1>2, <1>3, <1>4, <1>5, <1>6, <1>7, <1>8, <1>9, <1>10 DEF Next, HandlerStep

\* A delivery that has not happened has no handler.
LEMMA FreshKept ==
  ASSUME TypeOK, [Next]_vars, NEW m \in Message, Fresh(m)
  PROVE  Fresh(m)'
  <1> SUFFICES ASSUME NEW n \in 1 .. MaxDeliveries, n > attempts'[m]
               PROVE pc'[<<m, n>>] = "idle"
    BY DEF Fresh
  <1>0. <<m, n>> \in Delivery
    BY DEF Delivery
  <1>1. ASSUME NEW k \in Message, Publish(k) PROVE pc'[<<m, n>>] = "idle"
    BY <1>1 DEF Publish, Fresh
  <1>2. ASSUME NEW k \in Message, Deliver(k) PROVE pc'[<<m, n>>] = "idle"
    <2>1. attempts[k] + 1 \in Nat /\ <<k, attempts[k] + 1>> # <<m, n>>
      BY <1>2, EngineAssumption DEF Deliver, TypeOK, BrokerTypeOK, EngineAssumption
    <2>2. attempts[m] <= attempts'[m] /\ attempts[m] \in Nat /\ attempts'[m] \in Nat
      BY <1>2, EngineAssumption DEF Deliver, TypeOK, BrokerTypeOK, EngineAssumption
    <2>3. pc[<<m, n>>] = "idle"
      BY <2>2 DEF Fresh
    <2> QED
      BY <1>2, <1>0, <2>1, <2>3 DEF Deliver, GoTo, TypeOK, HandlerTypeOK
  <1>3. CASE Connect \/ LoseConnection
    BY <1>3 DEF Connect, LoseConnection, Fresh
  <1>4. CASE Crash
    BY <1>4, <1>0 DEF Crash, ProcessDies, InFlight, Awaiting, Fresh
  <1>5. ASSUME NEW d \in Delivery, Work(d) PROVE pc'[<<m, n>>] = "idle"
    <2>1. pc[<<m, n>>] = "idle" /\ <<m, n>> # d
      BY <1>5, WorkAdvances DEF Fresh, InFlight, Awaiting
    <2> QED
      BY <1>5, <1>0, <2>1, WorkIsPrivate DEF Same
  <1>6. ASSUME NEW d \in Delivery, Respond(d) PROVE pc'[<<m, n>>] = "idle"
    <2>1. pc[<<m, n>>] = "idle" /\ <<m, n>> # d
      BY <1>6 DEF Respond, Fresh
    <2> QED
      BY <1>6, <1>0, <2>1 DEF Respond, ProcessDies, InFlight, Awaiting, GoTo, TypeOK, HandlerTypeOK
  <1>7. ASSUME NEW w \in Workflow, ToggleWorkflow(w) \/ DeleteWorkflow(w) PROVE pc'[<<m, n>>] = "idle"
    BY <1>7 DEF ToggleWorkflow, DeleteWorkflow, Fresh
  <1>8. ASSUME NEW a \in Action, DeleteAction(a) PROVE pc'[<<m, n>>] = "idle"
    BY <1>8 DEF DeleteAction, Fresh
  <1>9. CASE UNCHANGED vars
    BY <1>9 DEF vars, Fresh
  <1> QED
    BY <1>1, <1>2, <1>3, <1>4, <1>5, <1>6, <1>7, <1>8, <1>9 DEF Next, HandlerStep

\* The handler whose success acknowledged a message stays as it ended.
LEMMA AckKept ==
  ASSUME TypeOK, OneOwner, [Next]_vars, NEW m \in Message, AckInv(m)
  PROVE  AckInv(m)'
  <1> DEFINE e == <<m, attempts[m]>>
  <1> USE DEF TypeOK, BrokerTypeOK, HandlerTypeOK
  <1>1. ASSUME NEW k \in Message, Publish(k) PROVE AckInv(m)'
    BY <1>1 DEF Publish, AckInv
  <1>2. ASSUME NEW k \in Message, Deliver(k) PROVE AckInv(m)'
    <2>1. CASE k = m
      BY <1>2, <2>1 DEF Deliver, AckInv
    <2>2. CASE k # m
      <3>1. attempts'[m] = attempts[m] /\ queue'[m] = queue[m] /\ outcome' = outcome
        BY <1>2, <2>2 DEF Deliver
      <3>2. queue[m] = "acked" => pc'[e] = pc[e]
        BY <1>2, <2>2 DEF Deliver, GoTo, AckInv, Delivery
      <3> QED
        BY <3>1, <3>2 DEF AckInv
    <2> QED
      BY <2>1, <2>2
  <1>3. CASE Connect
    BY <1>3 DEF Connect, AckInv
  <1>4. CASE LoseConnection
    BY <1>4 DEF LoseConnection, ChannelCloses, Requeued, AckInv
  <1>5. CASE Crash
    <2>1. queue'[m] = "acked" => queue[m] = "acked"
      BY <1>5 DEF Crash, ProcessDies, ChannelCloses, Requeued
    <2>2. queue[m] = "acked" => pc'[e] = pc[e]
      BY <1>5 DEF Crash, ProcessDies, InFlight, Awaiting, AckInv, Delivery
    <2> QED
      BY <1>5, <2>1, <2>2 DEF Crash, AckInv
  <1>6. ASSUME NEW d \in Delivery, Work(d) PROVE AckInv(m)'
    <2>1. queue' = queue /\ attempts' = attempts /\ InFlight(d)
      BY <1>6, WorkAdvances
    <2>2. SUFFICES ASSUME queue[m] = "acked" PROVE AckInv(m)'
      BY <2>1 DEF AckInv
    <2>3. e \in Delivery /\ e # d
      BY <2>1, <2>2 DEF AckInv, InFlight, Awaiting, Delivery
    <2>4. Same(e)
      BY <1>6, <2>3, WorkIsPrivate
    <2> QED
      BY <2>1, <2>4 DEF AckInv, Same
  <1>7. ASSUME NEW d \in Delivery, Respond(d) PROVE AckInv(m)'
    <2>0. PICK k \in Message, j \in 1 .. MaxDeliveries : d = <<k, j>>
      BY DEF Delivery
    <2>1. attempts' = attempts /\ outcome' = outcome
      BY <1>7 DEF Respond
    <2>2. CASE MayAnswer(d) /\ k = m
      <3>1. j = attempts[m]
        BY <2>0, <2>2 DEF MayAnswer, OneOwner
      <3>2. pc'[d] = "over" /\ queue'[m] = Answer(d)
        BY <1>7, <2>0, <2>2 DEF Respond, GoTo, AnsweredWith
      <3> QED
        BY <2>0, <2>1, <2>2, <3>1, <3>2 DEF AckInv, Answer
    <2>3. CASE MayAnswer(d) /\ k # m
      <3>1. queue'[m] = queue[m]
        BY <1>7, <2>0, <2>3 DEF Respond, AnsweredWith
      <3>2. queue[m] = "acked" => pc'[e] = pc[e]
        BY <1>7, <2>0, <2>3 DEF Respond, GoTo, AckInv, Delivery
      <3> QED
        BY <2>1, <3>1, <3>2 DEF AckInv
    <2>4. CASE ~MayAnswer(d)
      <3>1. queue'[m] = "acked" => queue[m] = "acked"
        BY <1>7, <2>4 DEF Respond, ProcessDies, ChannelCloses, Requeued
      <3>2. queue[m] = "acked" => pc'[e] = pc[e]
        BY <1>7, <2>4 DEF Respond, ProcessDies, InFlight, Awaiting, AckInv, Delivery
      <3> QED
        BY <2>1, <3>1, <3>2 DEF AckInv
    <2> QED
      BY <2>2, <2>3, <2>4
  <1>8. ASSUME NEW w \in Workflow, ToggleWorkflow(w) \/ DeleteWorkflow(w) PROVE AckInv(m)'
    BY <1>8 DEF ToggleWorkflow, DeleteWorkflow, AckInv
  <1>9. ASSUME NEW a \in Action, DeleteAction(a) PROVE AckInv(m)'
    BY <1>9 DEF DeleteAction, AckInv
  <1>10. CASE UNCHANGED vars
    BY <1>10 DEF vars, AckInv
  <1> QED
    BY <1>1, <1>2, <1>3, <1>4, <1>5, <1>6, <1>7, <1>8, <1>9, <1>10 DEF Next, HandlerStep

\* The inductive invariant of the engine.
THEOREM EngineInvariant == Spec => []EngineInv
  <1> DEFINE Places ==
        /\ OneOwner
        /\ \A d \in Delivery : HandlerInv(d) /\ InOrder(d)
        /\ \A m \in Message : Fresh(m) /\ AckInv(m)
  <1>1. Init => Places
    <2> SUFFICES ASSUME Init PROVE Places
      OBVIOUS
    <2>1. OneOwner
      BY DEF Init, OneOwner, Delivery
    <2>2. \A d \in Delivery : HandlerInv(d) /\ InOrder(d)
      BY DEF Init, HandlerInv, InOrder, Planned
    <2>3. \A m \in Message : Fresh(m) /\ AckInv(m)
      BY DEF Init, Fresh, AckInv, Delivery
    <2> QED
      BY <2>1, <2>2, <2>3
  <1>2. TypeOK /\ Places /\ [Next]_vars => Places'
    BY OwnerKept, RecordsKept, FreshKept, AckKept
  <1>3. TypeOK /\ Places => EngineInv
    BY DEF EngineInv
  <1> HIDE DEF Places
  <1> QED
    BY <1>1, <1>2, <1>3, TypeCorrect, PTL DEF Spec

-----------------------------------------------------------------------------
(* What the invariant gives.                                               *)

\* An action that fails, or is still running, keeps every action of a larger
\* step from starting.
THEOREM StepOrder == Spec => []StepsInOrder
  <1>1. EngineInv => StepsInOrder
    BY DEF EngineInv, InOrder, StepsInOrder
  <1> QED
    BY <1>1, EngineInvariant, PTL

\* A run recorded as Succeeded has no planned action that did not succeed.
THEOREM SuccessIsTrue == Spec => []SucceededMeansAllPassed
  <1>1. EngineInv => SucceededMeansAllPassed
    BY DEF EngineInv, HandlerInv, AllPassed, SucceededMeansAllPassed
  <1> QED
    BY <1>1, EngineInvariant, PTL

\* An acknowledged message was worked off by its last handler: no failure,
\* zombie or restart acknowledges work that was not done.
THEOREM AckIsEarned == Spec => []AckedMeansDone
  <1>1. EngineInv => AckedMeansDone
    <2> SUFFICES ASSUME EngineInv, NEW m \in Message, queue[m] = "acked"
                 PROVE  LET d == <<m, attempts[m]>> IN
                        /\ pc[d] = "over"
                        /\ run[d] \in {"none", "Succeeded", "deleted"}
                        /\ run[d] # "none" => AllPassed(d)
      BY DEF AckedMeansDone, AllPassed
    <2>1. AckInv(m)
      BY DEF EngineInv
    <2>2. <<m, attempts[m]>> \in Delivery
      BY <2>1 DEF AckInv, Delivery
    <2> QED
      BY <2>1, <2>2 DEF AckInv, EngineInv, HandlerInv
  <1> QED
    BY <1>1, EngineInvariant, PTL
-----------------------------------------------------------------------------
(* What can happen to a delivery, and what the records say at the end.     *)

\* The broker hands it out; its process dies; the consumer answers for it.
HandedOut(e) ==
  /\ pc[e] = "idle" /\ pc'[e] = "finding"
  /\ UNCHANGED <<outcome, cur, snap, run, actionRun>>
Killed(e) ==
  /\ InFlight(e) /\ pc'[e] = "killed"
  /\ UNCHANGED <<outcome, cur, snap, run, actionRun>>
Closed(e) ==
  /\ pc[e] = "responding" /\ pc'[e] = "over"
  /\ UNCHANGED <<outcome, cur, snap, run, actionRun>>

\* A step leaves a delivery alone, erases rows of it, or is one of its own.
LEMMA WhatHappens ==
  ASSUME TypeOK, [Next]_vars, NEW e \in Delivery, \A m \in Message : Fresh(m)
  PROVE  Same(e) \/ Erased(e) \/ HandedOut(e) \/ Killed(e) \/ Closed(e) \/ Work(e)
  <1>1. ASSUME NEW m \in Message, Publish(m) PROVE Same(e)
    BY <1>1 DEF Publish, Same
  <1>2. ASSUME NEW m \in Message, Deliver(m) PROVE Same(e) \/ HandedOut(e)
    <2> DEFINE d == <<m, attempts[m] + 1>>
    <2>1. d \in Delivery /\ pc[d] = "idle"
      <3>1. attempts[m] + 1 \in 1 .. MaxDeliveries /\ attempts[m] \in Nat
        BY <1>2, EngineAssumption DEF Deliver, TypeOK, BrokerTypeOK, EngineAssumption
      <3> QED
        BY <3>1 DEF Delivery, Fresh
    <2>2. pc' = [pc EXCEPT ![d] = "finding"] /\ UNCHANGED <<outcome, cur, snap, run, actionRun>>
      BY <1>2 DEF Deliver, GoTo
    <2> HIDE DEF d
    <2>3. CASE e = d
      BY <2>1, <2>2, <2>3 DEF TypeOK, HandlerTypeOK, HandedOut
    <2>4. CASE e # d
      BY <2>1, <2>2, <2>4 DEF TypeOK, HandlerTypeOK, Same
    <2> QED
      BY <2>3, <2>4
  <1>3. CASE Connect \/ LoseConnection
    BY <1>3 DEF Connect, LoseConnection, Same
  <1>4. CASE Crash
    BY <1>4 DEF Crash, ProcessDies, Same, Killed
  <1>5. ASSUME NEW d \in Delivery, Work(d) PROVE Same(e) \/ Work(e)
    BY <1>5, WorkIsPrivate
  <1>6. ASSUME NEW d \in Delivery, Respond(d) PROVE Same(e) \/ Killed(e) \/ Closed(e)
    <2>1. CASE MayAnswer(d) /\ e = d
      BY <1>6, <2>1 DEF Respond, TypeOK, HandlerTypeOK, GoTo, Closed
    <2>2. CASE MayAnswer(d) /\ e # d
      BY <1>6, <2>2 DEF Respond, TypeOK, HandlerTypeOK, GoTo, Same
    <2>3. CASE ~MayAnswer(d)
      BY <1>6, <2>3 DEF Respond, ProcessDies, Same, Killed
    <2> QED
      BY <2>1, <2>2, <2>3
  <1>7. ASSUME NEW w \in Workflow, ToggleWorkflow(w) PROVE Same(e)
    BY <1>7 DEF ToggleWorkflow, Same
  <1>8. ASSUME NEW w \in Workflow, DeleteWorkflow(w) PROVE Erased(e)
    <2>1. run'[e] = run[e] \/ (run[e] \in TableRow /\ run'[e] = "deleted")
      BY <1>8 DEF DeleteWorkflow
    <2>2. ASSUME NEW a \in Action
          PROVE  \/ actionRun'[e][a] = actionRun[e][a]
                 \/ actionRun[e][a] \in TableRow /\ actionRun'[e][a] = "deleted"
      <3>1. actionRun'[e] = [b \in Action |->
                               IF Wf(e) = w /\ actionRun[e][b] \in TableRow
                               THEN "deleted" ELSE actionRun[e][b]]
        BY <1>8 DEF DeleteWorkflow
      <3> QED
        BY <3>1
    <2> QED
      BY <1>8, <2>1, <2>2 DEF DeleteWorkflow, Erased
  <1>9. ASSUME NEW b \in Action, DeleteAction(b) PROVE Erased(e)
    <2>1. ASSUME NEW a \in Action
          PROVE  \/ actionRun'[e][a] = actionRun[e][a]
                 \/ actionRun[e][a] \in TableRow /\ actionRun'[e][a] = "deleted"
      <3>1. actionRun'[e] = [c \in Action |->
                               IF c = b /\ actionRun[e][c] \in TableRow
                               THEN "deleted" ELSE actionRun[e][c]]
        BY <1>9 DEF DeleteAction
      <3> QED
        BY <3>1
    <2> QED
      BY <1>9, <2>1 DEF DeleteAction, Erased
  <1>10. CASE UNCHANGED vars
    BY <1>10 DEF vars, Same
  <1> QED
    BY <1>1, <1>2, <1>3, <1>4, <1>5, <1>6, <1>7, <1>8, <1>9, <1>10 DEF Next, HandlerStep

AtWork == {"beginning", "executing", "recordingSuccess", "recordingFailure", "settling"}

HasFailed(d) == \E a \in Action : actionRun[d][a] \in {"Failed", "deleted"}

\* A run is open while its actions are executed; a result is there once the loop
\* is left, and it throws the message away only for a failure on record.
VerdictInv(d) ==
  /\ pc[d] \in AtWork => run[d] \in {"Running", "deleted"}
  /\ pc[d] \in {"recordingFailure", "settling", "recovering", "responding", "over"} =>
       outcome[d] # "none"
  /\ d[1] \notin IssuesMessage =>
       /\ pc[d] = "recovering" => outcome[d] = "requeue"
       /\ pc[d] \in {"settling", "responding", "over"} /\ outcome[d] = "drop" => HasFailed(d)
       /\ pc[d] \in {"responding", "over"} /\ outcome[d] = "drop" => run[d] \in {"Failed", "deleted"}

\* Every await of a handler keeps what is said of its run and its result.
LEMMA VerdictWork ==
  ASSUME TypeOK, NEW d \in Delivery, Work(d), HandlerInv(d), VerdictInv(d)
  PROVE  VerdictInv(d)'
  <1> USE DEF TypeOK, HandlerTypeOK, TableTypeOK, GoTo, Return, AtWork, Caught
  <1>1. CASE FindWorkflow(d)
    BY <1>1 DEF FindWorkflow, NothingToDo, ThrowEarly, VerdictInv
  <1>2. CASE LoadActions(d)
    BY <1>2 DEF LoadActions, NothingToDo, ThrowEarly, VerdictInv
  <1>3. CASE CreateRun(d)
    BY <1>3 DEF CreateRun, ThrowEarly, VerdictInv
  <1>4. CASE BeginAction(d)
    BY <1>4 DEF BeginAction, ThrowLate, VerdictInv
  <1>5. CASE ExecuteAction(d)
    BY <1>5 DEF ExecuteAction, Refusal, VerdictInv
  <1>6. CASE RecordSuccess(d)
    BY <1>6 DEF RecordSuccess, ThrowLate, VerdictInv
  <1>7. CASE RecordFailure(d)
    <2>1. /\ pc[d] = "recordingFailure" /\ run' = run
          /\ \/ pc'[d] = "settling" /\ outcome'[d] = outcome[d] /\ actionRun'[d][cur[d]] = "Failed"
             \/ pc'[d] = "recovering" /\ outcome'[d] = Caught(d)
      BY <1>7 DEF RecordFailure, AfterFailure, ThrowLate, HandlerInv
    <2>2. cur[d] \in Action
      BY <2>1 DEF HandlerInv
    <2> QED
      BY <2>1, <2>2 DEF VerdictInv, HasFailed
  <1>8. CASE SettleRun(d)
    BY <1>8 DEF SettleRun, Verdict, ThrowLate, VerdictInv, HasFailed
  <1>9. CASE Recover(d)
    BY <1>9 DEF Recover, Recovered, VerdictInv, HasFailed
  <1> QED
    BY <1>1, <1>2, <1>3, <1>4, <1>5, <1>6, <1>7, <1>8, <1>9 DEF Work

\* Every step keeps what the verdict of a delivery says of its records.
LEMMA VerdictKept ==
  ASSUME TypeOK, [Next]_vars, NEW e \in Delivery, HandlerInv(e), VerdictInv(e),
         \A m \in Message : Fresh(m)
  PROVE  VerdictInv(e)'
  <1>1. CASE Same(e)
    BY <1>1 DEF Same, VerdictInv, HasFailed
  <1>2. CASE Erased(e)
    <2>1. HasFailed(e) => HasFailed(e)'
      BY <1>2 DEF Erased, HasFailed
    <2> QED
      BY <1>2, <2>1 DEF Erased, VerdictInv
  <1>3. CASE HandedOut(e)
    BY <1>3 DEF HandedOut, VerdictInv, AtWork
  <1>4. CASE Killed(e)
    BY <1>4 DEF Killed, VerdictInv, AtWork
  <1>5. CASE Closed(e)
    BY <1>5 DEF Closed, VerdictInv, AtWork, HasFailed
  <1>6. CASE Work(e)
    BY <1>6, VerdictWork
  <1> QED
    BY <1>1, <1>2, <1>3, <1>4, <1>5, <1>6, WhatHappens

\* A message is dead because its last handler ended with a drop.
DeadInv(m) ==
  queue[m] = "dead" =>
    /\ attempts[m] \in 1 .. MaxDeliveries
    /\ pc[<<m, attempts[m]>>] = "over"
    /\ outcome[<<m, attempts[m]>>] = "drop"

\* The channel closes, or a handler answers on a closed one.
Cut == LoseConnection \/ Crash \/ \E d \in Delivery : Respond(d) /\ ~MayAnswer(d)

\* What moves the queue of a message, and what its handlers have to do with it.
LEMMA QueueMoves ==
  ASSUME TypeOK, OneOwner, [Next]_vars, NEW m \in Message
  PROVE  \/ UNCHANGED <<queue[m], attempts[m]>>
         \/ queue[m] = "unsent" /\ queue'[m] = "ready" /\ UNCHANGED <<attempts[m], budgetVars>>
         \/ queue[m] = "ready" /\ Deliver(m) /\ queue'[m] = "unacked" /\ attempts'[m] = attempts[m] + 1
         \/ queue[m] = "unacked" /\ queue'[m] = "ready" /\ Cut /\ UNCHANGED attempts[m]
         \/ /\ attempts[m] \in 1 .. MaxDeliveries /\ Respond(<<m, attempts[m]>>)
            /\ MayAnswer(<<m, attempts[m]>>) /\ queue'[m] = Answer(<<m, attempts[m]>>)
            /\ UNCHANGED attempts[m]
  <1> USE DEF TypeOK, BrokerTypeOK
  <1>1. ASSUME NEW k \in Message, Publish(k)
        PROVE  \/ UNCHANGED <<queue[m], attempts[m]>>
               \/ queue[m] = "unsent" /\ queue'[m] = "ready" /\ UNCHANGED <<attempts[m], budgetVars>>
    BY <1>1 DEF Publish
  <1>2. ASSUME NEW k \in Message, Deliver(k)
        PROVE  \/ UNCHANGED <<queue[m], attempts[m]>>
               \/ queue[m] = "ready" /\ Deliver(m) /\ queue'[m] = "unacked" /\ attempts'[m] = attempts[m] + 1
    <2>1. CASE k = m
      BY <1>2, <2>1 DEF Deliver
    <2>2. CASE k # m
      BY <1>2, <2>2 DEF Deliver
    <2> QED
      BY <2>1, <2>2
  <1>3. CASE Connect
    BY <1>3 DEF Connect
  <1>4. ASSUME ChannelCloses, Cut, UNCHANGED attempts
        PROVE  \/ UNCHANGED <<queue[m], attempts[m]>>
               \/ queue[m] = "unacked" /\ queue'[m] = "ready" /\ Cut /\ UNCHANGED attempts[m]
    BY <1>4 DEF ChannelCloses, Requeued
  <1>5. CASE LoseConnection \/ Crash
    BY <1>4, <1>5 DEF Cut, LoseConnection, Crash, ProcessDies
  <1>6. ASSUME NEW d \in Delivery, Work(d) PROVE UNCHANGED <<queue[m], attempts[m]>>
    BY <1>6, WorkAdvances
  <1>7. ASSUME NEW d \in Delivery, Respond(d)
        PROVE  \/ UNCHANGED <<queue[m], attempts[m]>>
               \/ queue[m] = "unacked" /\ queue'[m] = "ready" /\ Cut /\ UNCHANGED attempts[m]
               \/ /\ attempts[m] \in 1 .. MaxDeliveries /\ Respond(<<m, attempts[m]>>)
                  /\ MayAnswer(<<m, attempts[m]>>) /\ queue'[m] = Answer(<<m, attempts[m]>>)
                  /\ UNCHANGED attempts[m]
    <2>1. PICK k \in Message, j \in 1 .. MaxDeliveries : d = <<k, j>>
      BY DEF Delivery
    <2>2. attempts' = attempts
      BY <1>7 DEF Respond
    <2>3. CASE MayAnswer(d) /\ k = m
      <3>1. j = attempts[m]
        BY <2>1, <2>3 DEF MayAnswer, OneOwner
      <3>2. queue'[m] = Answer(d)
        BY <1>7, <2>1, <2>3 DEF Respond, AnsweredWith
      <3> QED
        BY <1>7, <2>1, <2>2, <2>3, <3>1, <3>2
    <2>4. CASE MayAnswer(d) /\ k # m
      BY <1>7, <2>1, <2>2, <2>4 DEF Respond, AnsweredWith
    <2>5. CASE ~MayAnswer(d)
      BY <1>4, <1>7, <2>2, <2>5 DEF Cut, Respond, ProcessDies
    <2> QED
      BY <2>3, <2>4, <2>5
  <1>8. ASSUME NEW w \in Workflow, ToggleWorkflow(w) \/ DeleteWorkflow(w)
        PROVE  UNCHANGED <<queue[m], attempts[m]>>
    BY <1>8 DEF ToggleWorkflow, DeleteWorkflow
  <1>9. ASSUME NEW a \in Action, DeleteAction(a) PROVE UNCHANGED <<queue[m], attempts[m]>>
    BY <1>9 DEF DeleteAction
  <1>10. CASE UNCHANGED vars
    BY <1>10 DEF vars
  <1> QED
    BY <1>1, <1>2, <1>3, <1>5, <1>6, <1>7, <1>8, <1>9, <1>10 DEF Next, HandlerStep

\* Every step keeps what is on record of a dead message.
LEMMA DeadKept ==
  ASSUME TypeOK, OneOwner, [Next]_vars, NEW m \in Message, DeadInv(m), \A k \in Message : Fresh(k)
  PROVE  DeadInv(m)'
  <1> DEFINE d == <<m, attempts[m]>>
  <1>1. CASE UNCHANGED <<queue[m], attempts[m]>>
    <2> SUFFICES ASSUME queue[m] = "dead" PROVE DeadInv(m)'
      BY <1>1 DEF DeadInv
    <2>1. d \in Delivery /\ pc[d] = "over" /\ outcome[d] = "drop" /\ attempts[m] \in 1 .. MaxDeliveries
      BY DEF DeadInv, Delivery
    <2> HIDE DEF d
    <2>2. ~HandedOut(d) /\ ~Killed(d) /\ ~Closed(d)
      BY <2>1 DEF HandedOut, Killed, Closed, InFlight, Awaiting
    <2>3. ~Work(d)
      BY <2>1, WorkAdvances DEF InFlight, Awaiting
    <2>4. pc'[d] = pc[d] /\ outcome'[d] = outcome[d]
      BY <2>1, <2>2, <2>3, WhatHappens DEF Same, Erased
    <2> QED
      BY <1>1, <2>1, <2>4 DEF DeadInv, d
  <1>2. CASE /\ attempts[m] \in 1 .. MaxDeliveries /\ Respond(d)
             /\ MayAnswer(d) /\ queue'[m] = Answer(d)
             /\ UNCHANGED attempts[m]
    <2>1. d \in Delivery
      BY <1>2 DEF Delivery
    <2> HIDE DEF d
    <2>2. pc'[d] = "over" /\ outcome' = outcome
      BY <1>2, <2>1 DEF Respond, GoTo, TypeOK, HandlerTypeOK
    <2>3. queue'[m] = "dead" => outcome[d] = "drop"
      BY <1>2 DEF Answer
    <2> QED
      BY <1>2, <2>2, <2>3 DEF DeadInv, d
  <1>3. CASE queue'[m] # "dead"
    BY <1>3 DEF DeadInv
  <1> QED
    BY <1>1, <1>2, <1>3, QueueMoves

RecordInv ==
  /\ \A d \in Delivery : VerdictInv(d)
  /\ \A m \in Message : DeadInv(m)

\* Verdicts and dead letters are on record in every behaviour.
LEMMA Verdicts == Spec => [](EngineInv /\ RecordInv)
  <1>1. Init => RecordInv
    BY DEF Init, RecordInv, VerdictInv, DeadInv, AtWork
  <1>2. TypeOK /\ EngineInv /\ RecordInv /\ [Next]_vars => RecordInv'
    BY VerdictKept, DeadKept DEF EngineInv, RecordInv
  <1> QED
    BY <1>1, <1>2, TypeCorrect, EngineInvariant, PTL DEF Spec

\* A message that is thrown away has a failed action and a failed run on record:
\* no database error, crash or lost connection throws one away.
THEOREM DeathIsRecorded == Spec => []DeadMeansRejected
  <1>1. RecordInv => DeadMeansRejected
    <2> SUFFICES ASSUME RecordInv, NEW m \in Message \ IssuesMessage, queue[m] = "dead"
                 PROVE  /\ run[<<m, attempts[m]>>] \in {"Failed", "deleted"}
                        /\ HasFailed(<<m, attempts[m]>>)
      BY DEF DeadMeansRejected, HasFailed
    <2> DEFINE d == <<m, attempts[m]>>
    <2>1. d \in Delivery /\ d[1] = m
      BY DEF RecordInv, DeadInv, Delivery
    <2> QED
      BY <2>1 DEF RecordInv, DeadInv, VerdictInv
  <1> QED
    BY <1>1, Verdicts, PTL

\* A record that is final changes only by being deleted.
LEMMA RecordsStay ==
  ASSUME TypeOK, EngineInv, RecordInv, [Next]_vars, NEW d \in Delivery
  PROVE  /\ run[d] = "Failed" => run'[d] \in {"Failed", "deleted"}
         /\ run[d] = "deleted" => run'[d] = "deleted"
         /\ \A a \in Action : actionRun[d][a] \in {"Succeeded", "Failed", "deleted"} =>
              actionRun'[d][a] \in {actionRun[d][a], "deleted"}
  <1> USE DEF TypeOK, HandlerTypeOK, TableTypeOK
  <1>1. HandlerInv(d) /\ VerdictInv(d)
    BY DEF EngineInv, RecordInv
  <1>2. CASE Same(d) \/ HandedOut(d) \/ Killed(d) \/ Closed(d)
    BY <1>2 DEF Same, HandedOut, Killed, Closed
  <1>3. CASE Erased(d)
    BY <1>3 DEF Erased, TableRow
  <1>4. CASE Work(d)
    <2>1. CASE FindWorkflow(d) \/ LoadActions(d) \/ ExecuteAction(d)
      BY <2>1 DEF FindWorkflow, LoadActions, ExecuteAction
    <2>2. CASE CreateRun(d)
      BY <1>1, <2>2 DEF CreateRun, HandlerInv
    <2>3. CASE BeginAction(d)
      BY <2>3 DEF BeginAction, IsNext, Todo
    <2>4. CASE RecordSuccess(d)
      BY <1>1, <2>4 DEF RecordSuccess, HandlerInv
    <2>5. CASE RecordFailure(d)
      BY <1>1, <2>5 DEF RecordFailure, HandlerInv
    <2>6. CASE SettleRun(d)
      BY <1>1, <2>6 DEF SettleRun, VerdictInv, AtWork
    <2>7. CASE Recover(d)
      BY <2>7 DEF Recover, Recovered
    <2> QED
      BY <1>4, <2>1, <2>2, <2>3, <2>4, <2>5, <2>6, <2>7 DEF Work
  <1> QED
    BY <1>2, <1>3, <1>4, WhatHappens DEF EngineInv

\* A settled actionRun and a Failed run change only by being deleted.
THEOREM RecordsFinal == Spec => RecordsAreFinal
  <1>1. TypeOK /\ EngineInv /\ RecordInv /\ [Next]_vars =>
          [\A d \in Delivery :
             /\ run[d] = "Failed" => run'[d] \in {"Failed", "deleted"}
             /\ run[d] = "deleted" => run'[d] = "deleted"
             /\ \A a \in Action : actionRun[d][a] \in {"Succeeded", "Failed", "deleted"} =>
                  actionRun'[d][a] \in {actionRun[d][a], "deleted"}]_vars
    BY RecordsStay
  <1> QED
    BY <1>1, TypeCorrect, Verdicts, PTL DEF Spec, RecordsAreFinal

-----------------------------------------------------------------------------
(* What it takes for a run to be left open, and for a second delivery.     *)

\* Faults and edits only grow.
LEMMA BudgetsGrow ==
  ASSUME TypeOK, [Next]_vars
  PROVE  /\ faults \in Nat /\ faults' \in Nat /\ faults <= faults'
         /\ edits \in Nat /\ edits' \in Nat /\ edits <= edits'
  <1>0. faults \in Nat /\ edits \in Nat
    BY EngineAssumption DEF TypeOK, BudgetTypeOK, EngineAssumption
  <1>1. ASSUME NEW m \in Message, Publish(m) \/ Deliver(m) PROVE UNCHANGED budgetVars
    BY <1>1 DEF Publish, Deliver
  <1>2. CASE Connect \/ LoseConnection \/ Crash
    BY <1>0, <1>2 DEF Connect, LoseConnection, Crash, Fault
  <1>3. ASSUME NEW d \in Delivery, Work(d)
        PROVE  edits' = edits /\ (faults' = faults \/ faults' = faults + 1)
    BY <1>3 DEF Work, FindWorkflow, LoadActions, CreateRun, BeginAction, ExecuteAction,
      RecordSuccess, RecordFailure, SettleRun, Recover, Fault
  <1>4. ASSUME NEW d \in Delivery, Respond(d) PROVE UNCHANGED budgetVars
    BY <1>4 DEF Respond
  <1>5. ASSUME NEW w \in Workflow, ToggleWorkflow(w) \/ DeleteWorkflow(w)
        PROVE  faults' = faults /\ edits' = edits + 1
    BY <1>5 DEF ToggleWorkflow, DeleteWorkflow, Edit
  <1>6. ASSUME NEW a \in Action, DeleteAction(a) PROVE faults' = faults /\ edits' = edits + 1
    BY <1>6 DEF DeleteAction, Edit
  <1>7. CASE UNCHANGED vars
    BY <1>0, <1>7 DEF vars
  <1> QED
    BY <1>0, <1>1, <1>2, <1>3, <1>4, <1>5, <1>6, <1>7 DEF Next, HandlerStep

\* A handler that has lost its channel or its life has a fault to thank for it,
\* and so has one that answers with its run still open.
FaultInv ==
  /\ connected \/ live = {}
  /\ \A d \in Delivery : InFlight(d) /\ d \notin live => faults > 0
  /\ \A d \in Delivery : pc[d] = "killed" => faults > 0
  /\ \A d \in Delivery : pc[d] \in {"responding", "over"} /\ run[d] = "Running" => faults > 0

\* A handler leaves its run open only when an error keeps it from the run's id
\* or from the run.
LEMMA LeavesOpen ==
  ASSUME TypeOK, NEW d \in Delivery, Work(d), HandlerInv(d), VerdictInv(d), faults \in Nat,
         pc'[d] = "responding", run'[d] = "Running"
  PROVE  faults' > 0
  <1> USE DEF TypeOK, HandlerTypeOK, TableTypeOK, GoTo, Fault
  <1>1. CASE FindWorkflow(d)
    BY <1>1 DEF FindWorkflow, NothingToDo, ThrowEarly, HandlerInv
  <1>2. CASE LoadActions(d)
    BY <1>2 DEF LoadActions, NothingToDo, ThrowEarly, HandlerInv
  <1>3. CASE CreateRun(d)
    BY <1>3 DEF CreateRun, ThrowEarly, HandlerInv
  <1>4. CASE BeginAction(d)
    BY <1>4 DEF BeginAction, ThrowLate
  <1>5. CASE ExecuteAction(d)
    BY <1>5 DEF ExecuteAction
  <1>6. CASE RecordSuccess(d)
    BY <1>6 DEF RecordSuccess, ThrowLate
  <1>7. CASE RecordFailure(d)
    BY <1>7 DEF RecordFailure, AfterFailure, ThrowLate
  <1>8. CASE SettleRun(d)
    BY <1>8 DEF SettleRun, Verdict, ThrowLate
  <1>9. CASE Recover(d)
    BY <1>9 DEF Recover, Recovered
  <1> QED
    BY <1>1, <1>2, <1>3, <1>4, <1>5, <1>6, <1>7, <1>8, <1>9 DEF Work

\* Every step keeps the faults that a run left behind stands for.
LEMMA FaultKept ==
  ASSUME TypeOK, EngineInv, RecordInv, FaultInv, [Next]_vars
  PROVE  FaultInv'
  <1> USE DEF TypeOK, BrokerTypeOK
  <1>0. /\ faults \in Nat /\ faults' \in Nat /\ faults <= faults'
        /\ \A m \in Message : Fresh(m)
    BY BudgetsGrow DEF EngineInv
  <1>1. connected' \/ live' = {}
    <2>1. ASSUME NEW m \in Message, Publish(m) \/ Deliver(m) PROVE connected' \/ live' = {}
      BY <2>1 DEF Publish, Deliver
    <2>2. CASE Connect \/ LoseConnection \/ Crash
      BY <2>2 DEF Connect, LoseConnection, Crash, ProcessDies, ChannelCloses
    <2>3. ASSUME NEW d \in Delivery, Work(d) PROVE connected' \/ live' = {}
      BY <2>3, WorkAdvances DEF FaultInv
    <2>4. ASSUME NEW d \in Delivery, Respond(d) PROVE connected' \/ live' = {}
      BY <2>4 DEF Respond, ProcessDies, ChannelCloses, FaultInv
    <2>5. ASSUME NEW w \in Workflow, ToggleWorkflow(w) \/ DeleteWorkflow(w) PROVE connected' \/ live' = {}
      BY <2>5 DEF ToggleWorkflow, DeleteWorkflow, FaultInv
    <2>6. ASSUME NEW a \in Action, DeleteAction(a) PROVE connected' \/ live' = {}
      BY <2>6 DEF DeleteAction, FaultInv
    <2>7. CASE UNCHANGED vars
      BY <2>7 DEF vars, FaultInv
    <2> QED
      BY <2>1, <2>2, <2>3, <2>4, <2>5, <2>6, <2>7 DEF Next, HandlerStep
  <1>2. \/ faults' > 0
        \/ \A d \in Delivery : /\ InFlight(d)' /\ d \notin live' => InFlight(d) /\ d \notin live
                               /\ pc'[d] = "killed" => pc[d] = "killed"
    <2> DEFINE Kept == \A d \in Delivery :
                         /\ InFlight(d)' /\ d \notin live' => InFlight(d) /\ d \notin live
                         /\ pc'[d] = "killed" => pc[d] = "killed"
    <2>1. ASSUME NEW m \in Message, Publish(m) PROVE Kept
      BY <2>1 DEF Publish, InFlight
    <2>2. ASSUME NEW m \in Message, Deliver(m) PROVE Kept
      <3> DEFINE d == <<m, attempts[m] + 1>>
      <3>1. live' = live \cup {d} /\ pc' = [pc EXCEPT ![d] = "finding"]
        BY <2>2 DEF Deliver, GoTo
      <3> HIDE DEF d
      <3>2. \A e \in Delivery : e # d => pc'[e] = pc[e]
        BY <3>1 DEF HandlerTypeOK
      <3>3. d \in Delivery => pc'[d] = "finding"
        BY <3>1 DEF HandlerTypeOK
      <3> QED
        BY <3>1, <3>2, <3>3 DEF InFlight
    <2>3. Connect => Kept
      BY DEF Connect, InFlight
    <2>4. LoseConnection \/ Crash => faults' > 0
      BY <1>0 DEF LoseConnection, Crash, Fault
    <2>5. ASSUME NEW d \in Delivery, Work(d) PROVE Kept
      <3>1. live' = live /\ \A e \in Delivery : InFlight(e)' = InFlight(e)
        BY <2>5, WorkAdvances
      <3>2. InFlight(d)
        BY <2>5, WorkAdvances
      <3>3. \A e \in Delivery : e # d => pc'[e] = pc[e]
        BY <2>5, WorkIsPrivate DEF Same
      <3>4. pc'[d] # "killed"
        BY <3>1, <3>2 DEF InFlight, Awaiting
      <3> QED
        BY <3>1, <3>3, <3>4
    <2>6. ASSUME NEW d \in Delivery, Respond(d) PROVE faults' > 0 \/ Kept
      <3>1. CASE MayAnswer(d)
        BY <2>6, <3>1 DEF Respond, GoTo, InFlight, Awaiting, HandlerTypeOK
      <3>2. CASE ~MayAnswer(d)
        <4>1. InFlight(d) /\ d \notin live /\ faults' = faults
          BY <2>6, <3>2 DEF Respond, MayAnswer, InFlight, Awaiting
        <4> QED
          BY <4>1 DEF FaultInv
      <3> QED
        BY <3>1, <3>2
    <2>7. ASSUME NEW w \in Workflow, ToggleWorkflow(w) \/ DeleteWorkflow(w) PROVE Kept
      BY <2>7 DEF ToggleWorkflow, DeleteWorkflow, InFlight
    <2>8. ASSUME NEW a \in Action, DeleteAction(a) PROVE Kept
      BY <2>8 DEF DeleteAction, InFlight
    <2>9. UNCHANGED vars => Kept
      BY DEF vars, InFlight
    <2> HIDE DEF Kept
    <2>10. faults' > 0 \/ Kept
      BY <2>1, <2>2, <2>3, <2>4, <2>5, <2>6, <2>7, <2>8, <2>9 DEF Next, HandlerStep
    <2> QED
      BY <2>10 DEF Kept
  <1>3. ASSUME NEW e \in Delivery, pc'[e] \in {"responding", "over"}, run'[e] = "Running"
        PROVE  faults' > 0
    <2>1. CASE Same(e) \/ Erased(e) \/ Closed(e)
      <3>1. pc[e] \in {"responding", "over"} /\ run[e] = "Running"
        BY <1>3, <2>1 DEF Same, Erased, Closed
      <3> QED
        BY <1>0, <3>1 DEF FaultInv
    <2>2. CASE HandedOut(e) \/ Killed(e)
      BY <1>3, <2>2 DEF HandedOut, Killed
    <2>3. CASE Work(e)
      <3>1. pc'[e] # "over"
        BY <2>3, WorkAdvances DEF InFlight, Awaiting
      <3> QED
        BY <1>0, <1>3, <2>3, <3>1, LeavesOpen DEF EngineInv, RecordInv
    <2> QED
      BY <1>0, <2>1, <2>2, <2>3, WhatHappens
  <1> QED
    BY <1>0, <1>1, <1>2, <1>3 DEF FaultInv

\* A run left behind has a fault behind it in every behaviour.
LEMMA Faults == Spec => [](EngineInv /\ RecordInv /\ FaultInv)
  <1>1. Init => FaultInv
    BY DEF Init, FaultInv, InFlight, Awaiting
  <1>2. TypeOK /\ EngineInv /\ RecordInv /\ FaultInv /\ [Next]_vars => FaultInv'
    BY FaultKept
  <1> QED
    BY <1>1, <1>2, TypeCorrect, Verdicts, PTL DEF Spec

\* A run nobody works on is open only after a fault: users cannot strand one.
THEOREM OrphansNeedFaults == Spec => []OrphanNeedsFault
  <1>1. TypeOK /\ EngineInv /\ FaultInv => OrphanNeedsFault
    <2> SUFFICES ASSUME TypeOK, EngineInv, FaultInv,
                        NEW d \in Delivery, run[d] = "Running", ~InFlight(d)
                 PROVE  faults > 0
      BY DEF OrphanNeedsFault
    <2>1. pc[d] \in {"idle", "over", "killed"}
      BY DEF TypeOK, HandlerTypeOK, InFlight
    <2>2. pc[d] # "idle"
      BY DEF EngineInv, HandlerInv
    <2> QED
      BY <2>1, <2>2 DEF FaultInv
  <1> QED
    BY <1>1, TypeCorrect, Faults, PTL

\* Rows are gone only after an edit.
EditInv ==
  /\ \A w \in Workflow : workflow[w] = "deleted" => edits > 0
  /\ \A d \in Delivery : run[d] = "deleted" => edits > 0
  /\ \A d \in Delivery, a \in Action : actionRun[d][a] = "deleted" => edits > 0
  /\ \A d \in Delivery, a \in Action : snap[d][a] > 0 /\ step[a] = 0 => edits > 0

\* Every step keeps the edits that a vanished action stands for.
LEMMA EditKept ==
  ASSUME TypeOK, EditInv, [Next]_vars
  PROVE  EditInv'
  <1> USE DEF TypeOK, HandlerTypeOK, TableTypeOK
  <1>0. edits \in Nat /\ edits' \in Nat /\ edits <= edits'
    BY BudgetsGrow
  <1>1. CASE edits' > 0
    BY <1>1 DEF EditInv
  <1>2. CASE UNCHANGED <<tableVars, snap>>
    BY <1>0, <1>2 DEF EditInv
  <1>3. ASSUME NEW m \in Message, Publish(m) \/ Deliver(m) PROVE UNCHANGED <<tableVars, snap>>
    BY <1>3 DEF Publish, Deliver
  <1>4. ASSUME Connect \/ LoseConnection \/ Crash PROVE UNCHANGED <<tableVars, snap>>
    BY <1>4 DEF Connect, LoseConnection, Crash
  <1>5. ASSUME NEW d \in Delivery, Work(d) PROVE EditInv'
    <2>1. CASE FindWorkflow(d) \/ ExecuteAction(d)
      BY <1>2, <2>1 DEF FindWorkflow, ExecuteAction
    <2>2. CASE LoadActions(d)
      <3>1. UNCHANGED <<tableVars, edits>>
        BY <2>2 DEF LoadActions
      <3>2. \A e \in Delivery, a \in Action :
              snap'[e][a] = snap[e][a] \/ snap'[e][a] = step[a] \/ snap'[e][a] = 0
        BY <2>2 DEF LoadActions
      <3>3. ASSUME NEW e \in Delivery, NEW a \in Action, snap'[e][a] > 0, step'[a] = 0
            PROVE  edits' > 0
        <4>0. step' = step /\ edits' = edits
          BY <3>1
        <4>1. snap'[e][a] = snap[e][a] \/ snap'[e][a] = 0
          BY <3>2, <3>3, <4>0
        <4>2. snap[e][a] > 0 /\ step[a] = 0
          BY <3>3, <4>0, <4>1
        <4> QED
          BY <4>0, <4>2 DEF EditInv
      <3> HIDE DEF TypeOK, HandlerTypeOK, TableTypeOK
      <3> QED
        BY <3>1, <3>3 DEF EditInv
    <2>3. CASE CreateRun(d) \/ SettleRun(d) \/ Recover(d)
      <3>1. UNCHANGED <<workflow, step, actionRun, snap, edits>>
        BY <2>3 DEF CreateRun, SettleRun, Recover
      <3>2. \A e \in Delivery : run'[e] = run[e] \/ run'[e] # "deleted"
        BY <2>3 DEF CreateRun, SettleRun, Verdict, Recover, Recovered
      <3> QED
        BY <1>0, <3>1, <3>2 DEF EditInv
    <2>4. CASE BeginAction(d) \/ RecordSuccess(d) \/ RecordFailure(d)
      <3>1. UNCHANGED <<workflow, step, run, snap, edits>>
        BY <2>4 DEF BeginAction, RecordSuccess, RecordFailure
      <3>2. \A e \in Delivery, a \in Action :
              actionRun'[e][a] = actionRun[e][a] \/ actionRun'[e][a] # "deleted"
        <4>1. \/ actionRun' = actionRun
              \/ \E b \in Action : actionRun' = [actionRun EXCEPT ![d][b] = "Running"]
              \/ actionRun' = [actionRun EXCEPT ![d][cur[d]] = "Succeeded"]
              \/ actionRun' = [actionRun EXCEPT ![d][cur[d]] = "Failed"]
          BY <2>4 DEF BeginAction, RecordSuccess, RecordFailure
        <4>2. actionRun \in [Delivery -> [Action -> RowStatus]]
          OBVIOUS
        <4> HIDE DEF TypeOK, HandlerTypeOK, TableTypeOK
        <4> QED
          BY <4>1, <4>2
      <3> QED
        BY <3>1, <3>2 DEF EditInv
    <2> QED
      BY <1>5, <2>1, <2>2, <2>3, <2>4 DEF Work
  <1>6. ASSUME NEW d \in Delivery, Respond(d) PROVE UNCHANGED <<tableVars, snap>>
    BY <1>6 DEF Respond
  <1>7. ASSUME NEW w \in Workflow, ToggleWorkflow(w) \/ DeleteWorkflow(w) PROVE edits' > 0
    BY <1>0, <1>7 DEF ToggleWorkflow, DeleteWorkflow, Edit
  <1>8. ASSUME NEW a \in Action, DeleteAction(a) PROVE edits' > 0
    BY <1>0, <1>8 DEF DeleteAction, Edit
  <1>9. ASSUME UNCHANGED vars PROVE UNCHANGED <<tableVars, snap>>
    BY <1>9 DEF vars
  <1> QED
    BY <1>1, <1>2, <1>3, <1>4, <1>5, <1>6, <1>7, <1>8, <1>9 DEF Next, HandlerStep

Blame == faults > 0 \/ edits > 0

\* A handler asks for a requeue, and a message is back on the queue, only
\* after a fault or an edit.
BlameInv ==
  /\ \A d \in Delivery : outcome[d] = "requeue" => Blame
  /\ \A m \in Message :
       /\ queue[m] = "unsent" => attempts[m] = 0
       /\ queue[m] = "ready" => attempts[m] = 0 \/ Blame
       /\ attempts[m] > 1 => Blame

\* A handler asks for a requeue after an error, on a closed channel, or when the
\* user has deleted what it works on.
LEMMA AsksForRequeue ==
  ASSUME TypeOK, EngineInv, FaultInv, EditInv, faults \in Nat, NEW d \in Delivery, Work(d),
         outcome'[d] = "requeue", outcome[d] # "requeue"
  PROVE  faults' > 0 \/ edits > 0
  <1> USE DEF TypeOK, HandlerTypeOK, TableTypeOK, GoTo, Return, Fault
  <1>1. CASE FindWorkflow(d)
    BY <1>1 DEF FindWorkflow, NothingToDo, ThrowEarly
  <1>2. CASE LoadActions(d)
    BY <1>2 DEF LoadActions, NothingToDo, ThrowEarly
  <1>3. CASE CreateRun(d)
    <2>1. Wf(d) \in Workflow
      BY EngineAssumption DEF Wf, Delivery, EngineAssumption
    <2> QED
      BY <1>3, <2>1 DEF CreateRun, ThrowEarly, EditInv
  <1>4. CASE BeginAction(d)
    BY <1>4 DEF BeginAction, IsNext, Todo, ThrowLate, EditInv
  <1>5. CASE ExecuteAction(d)
    <2>1. ~connected => faults > 0
      BY <1>5 DEF ExecuteAction, FaultInv, InFlight, Awaiting
    <2> QED
      BY <1>5, <2>1 DEF ExecuteAction, Refusal
  <1>6. CASE RecordSuccess(d)
    BY <1>6 DEF RecordSuccess, ThrowLate, EngineInv, HandlerInv, EditInv
  <1>7. CASE RecordFailure(d)
    BY <1>7 DEF RecordFailure, ThrowLate, EngineInv, HandlerInv, EditInv
  <1>8. CASE SettleRun(d)
    BY <1>8 DEF SettleRun, ThrowLate, EditInv
  <1>9. CASE Recover(d)
    BY <1>9 DEF Recover, EditInv
  <1> QED
    BY <1>1, <1>2, <1>3, <1>4, <1>5, <1>6, <1>7, <1>8, <1>9 DEF Work

\* Every step keeps what a repeated delivery is to be blamed on.
LEMMA BlameKept ==
  ASSUME TypeOK, EngineInv, RecordInv, FaultInv, EditInv, BlameInv, [Next]_vars
  PROVE  BlameInv'
  <1> USE DEF TypeOK
  <1>0. /\ faults \in Nat /\ faults' \in Nat /\ faults <= faults'
        /\ edits \in Nat /\ edits' \in Nat /\ edits <= edits'
        /\ \A m \in Message : Fresh(m) /\ attempts[m] \in Nat
    BY BudgetsGrow, EngineAssumption DEF EngineInv, BrokerTypeOK, EngineAssumption
  <1>1. Blame => Blame'
    BY <1>0 DEF Blame
  <1>2. ASSUME NEW e \in Delivery, outcome'[e] = "requeue" PROVE Blame'
    <2>1. CASE Work(e)
      BY <1>0, <1>1, <1>2, <2>1, AsksForRequeue DEF Blame, BlameInv
    <2>2. CASE ~Work(e)
      <3>1. outcome'[e] = outcome[e]
        BY <1>0, <2>2, WhatHappens DEF Same, Erased, HandedOut, Killed, Closed
      <3> QED
        BY <1>1, <1>2, <3>1 DEF BlameInv
    <2> QED
      BY <2>1, <2>2
  <1>3. ASSUME NEW m \in Message
        PROVE  /\ queue'[m] = "unsent" => attempts'[m] = 0
               /\ queue'[m] = "ready" => attempts'[m] = 0 \/ Blame'
               /\ attempts'[m] > 1 => Blame'
    <2>0. attempts[m] \in Nat
      BY <1>0
    <2>1. CASE UNCHANGED <<queue[m], attempts[m]>>
      BY <1>1, <2>1 DEF BlameInv
    <2>2. CASE queue[m] = "unsent" /\ queue'[m] = "ready" /\ UNCHANGED <<attempts[m], budgetVars>>
      BY <1>1, <2>2 DEF BlameInv
    <2>3. CASE queue[m] = "ready" /\ Deliver(m) /\ queue'[m] = "unacked" /\ attempts'[m] = attempts[m] + 1
      BY <1>1, <2>0, <2>3 DEF BlameInv
    <2>4. CASE queue[m] = "unacked" /\ queue'[m] = "ready" /\ Cut /\ UNCHANGED attempts[m]
      <3>1. LoseConnection \/ Crash => faults' > 0
        BY <1>0 DEF LoseConnection, Crash, Fault
      <3>2. ASSUME NEW d \in Delivery, Respond(d), ~MayAnswer(d) PROVE faults' > 0
        BY <3>2 DEF Respond, MayAnswer, FaultInv, InFlight, Awaiting
      <3> QED
        BY <2>4, <3>1, <3>2 DEF Cut, Blame, BlameInv
    <2>5. CASE /\ attempts[m] \in 1 .. MaxDeliveries /\ Respond(<<m, attempts[m]>>)
               /\ MayAnswer(<<m, attempts[m]>>) /\ queue'[m] = Answer(<<m, attempts[m]>>)
               /\ UNCHANGED attempts[m]
      <3> DEFINE d == <<m, attempts[m]>>
      <3>1. d \in Delivery
        BY <2>5 DEF Delivery
      <3> HIDE DEF d
      <3>2. queue'[m] = "ready" => outcome[d] = "requeue"
        BY <2>5, <3>1 DEF Answer, Respond, RecordInv, VerdictInv, HandlerTypeOK, Outcome, d
      <3>3. queue'[m] # "unsent"
        BY <2>5 DEF Answer
      <3> QED
        BY <1>1, <2>5, <3>1, <3>2, <3>3 DEF BlameInv
    <2> QED
      BY <2>1, <2>2, <2>3, <2>4, <2>5, QueueMoves DEF EngineInv
  <1> QED
    BY <1>2, <1>3 DEF BlameInv

\* Repeated deliveries have their cause in every behaviour.
LEMMA Blames == Spec => [](EditInv /\ BlameInv)
  <1>1. Init => EditInv /\ BlameInv
    BY DEF Init, EditInv, BlameInv
  <1>2. /\ TypeOK /\ EngineInv /\ RecordInv /\ FaultInv /\ EditInv /\ BlameInv /\ [Next]_vars
        => EditInv' /\ BlameInv'
    BY EditKept, BlameKept
  <1> QED
    BY <1>1, <1>2, TypeCorrect, Faults, PTL DEF Spec

\* A message is handed out twice only after a fault or an edit: what an action
\* refuses is not tried again.
THEOREM RetriesNeedCause == Spec => []RetryNeedsCause
  <1>1. TypeOK /\ BlameInv => RetryNeedsCause
    <2> SUFFICES ASSUME TypeOK, BlameInv, NEW m \in Message, attempts[m] > 1
                 PROVE  faults + edits > 0
      BY DEF RetryNeedsCause
    <2>1. faults \in Nat /\ edits \in Nat
      BY EngineAssumption DEF TypeOK, BudgetTypeOK, EngineAssumption
    <2> QED
      BY <2>1 DEF BlameInv, Blame
  <1> QED
    BY <1>1, TypeCorrect, Blames, PTL


=============================================================================
