--------------------------- MODULE WorkflowEngine ---------------------------
(***************************************************************************)
(* The GitHub worker of ShobApp24: the queue sendGitHubWebhookData, the    *)
(* consumer that runs one asynchronous handler per delivery, and the       *)
(* handler itself: find the workflow, load its actions, open a             *)
(* workflowRun, run the actions in step order with one actionRun each,     *)
(* settle the run, answer the broker.  Every await of the handler is a     *)
(* step boundary, so handlers of different deliveries, the user's edits of *)
(* workflows and actions, database errors, the loss of the broker          *)
(* connection and the death of the process interleave freely.              *)
(*                                                                         *)
(* A delivery is <<m, n>>: the n-th time message m is handed to a          *)
(* consumer.  It opens at most one workflowRun, so deliveries also name    *)
(* runs, and <<delivery, action>> names an actionRun.                      *)
(***************************************************************************)
EXTENDS Naturals

CONSTANTS
  Message,        \* the GitHub webhook deliveries that reach the queue
  IssuesMessage,  \* those of the event "issues", whose handler never asks for a requeue
  Workflow,       \* the ids of the users' workflows
  Action,         \* the ids of the actions of these workflows
  Target,         \* Target[m]: the workflow m's repository, event and action select
  WorkflowOf,     \* WorkflowOf[a]: the workflow action a belongs to
  InitStep,       \* the step column of the action table at the start, 0 for no row
  MaxDeliveries,  \* bound on the deliveries of one message
  MaxFaults,      \* bound on database errors, action errors, connection losses, crashes
  MaxEdits        \* bound on the user's edits

ASSUME EngineAssumption ==
  /\ IssuesMessage \subseteq Message
  /\ Target \in [Message -> Workflow]
  /\ WorkflowOf \in [Action -> Workflow]
  /\ InitStep \in [Action -> Nat]
  /\ MaxDeliveries \in Nat
  /\ MaxFaults \in Nat
  /\ MaxEdits \in Nat

VARIABLES
  queue,      \* the broker's view of each message
  attempts,   \* how often each message was delivered
  connected,  \* the process holds an open channel with a consumer on it
  live,       \* unanswered deliveries whose channel is still open
  pc,         \* where the handler of each delivery awaits
  outcome,    \* the result the handler is going to return
  cur,        \* the action the handler's loop is at
  snap,       \* the step of each action as findMany read it, 0 if it did not
  workflow,   \* the workflow table
  step,       \* the step column of the action table, 0 for no row
  run,        \* the workflowRun table
  actionRun,  \* the actionRun table
  faults,     \* faults used up
  edits       \* edits used up

brokerVars  == <<queue, attempts, connected, live>>
handlerVars == <<pc, outcome, cur, snap>>
tableVars   == <<workflow, step, run, actionRun>>
budgetVars  == <<faults, edits>>
vars == <<brokerVars, handlerVars, tableVars, budgetVars>>

Delivery == Message \X (1 .. MaxDeliveries)
Wf(d) == Target[d[1]]
NoAction == "noAction"

Awaiting == {"finding", "loading", "creating", "beginning", "executing",
             "recordingSuccess", "recordingFailure", "settling",
             "recovering", "responding"}
InFlight(d) == pc[d] \in Awaiting

QueueState   == {"unsent", "ready", "unacked", "acked", "dead"}
Outcome      == {"none", "success", "drop", "requeue"}
RowStatus    == {"none", "Running", "Succeeded", "Failed", "deleted"}
TableRow     == {"Running", "Succeeded", "Failed"}

BrokerTypeOK ==
  /\ queue \in [Message -> QueueState]
  /\ attempts \in [Message -> 0 .. MaxDeliveries]
  /\ connected \in BOOLEAN
  /\ live \in SUBSET Delivery

HandlerTypeOK ==
  /\ pc \in [Delivery -> Awaiting \cup {"idle", "over", "killed"}]
  /\ outcome \in [Delivery -> Outcome]
  /\ cur \in [Delivery -> Action \cup {NoAction}]
  /\ snap \in [Delivery -> [Action -> Nat]]

TableTypeOK ==
  /\ workflow \in [Workflow -> {"enabled", "disabled", "deleted"}]
  /\ step \in [Action -> Nat]
  /\ run \in [Delivery -> RowStatus]
  /\ actionRun \in [Delivery -> [Action -> RowStatus]]

BudgetTypeOK ==
  /\ faults \in 0 .. MaxFaults
  /\ edits \in 0 .. MaxEdits

\* The type invariant; with the steps, it says that renumbering never goes
\* below zero.
TypeOK ==
  /\ BrokerTypeOK
  /\ HandlerTypeOK
  /\ TableTypeOK
  /\ BudgetTypeOK

Init ==
  /\ queue = [m \in Message |-> "unsent"]
  /\ attempts = [m \in Message |-> 0]
  /\ connected = FALSE
  /\ live = {}
  /\ pc = [d \in Delivery |-> "idle"]
  /\ outcome = [d \in Delivery |-> "none"]
  /\ cur = [d \in Delivery |-> NoAction]
  /\ snap = [d \in Delivery |-> [a \in Action |-> 0]]
  /\ workflow \in [Workflow -> {"enabled", "disabled"}]
  /\ step = InitStep
  /\ run = [d \in Delivery |-> "none"]
  /\ actionRun = [d \in Delivery |-> [a \in Action |-> "none"]]
  /\ faults = 0
  /\ edits = 0

-----------------------------------------------------------------------------
(* The handler's vocabulary.  Here and below a definition named             *)
(* Something_Variant is Something with a plausible bug; no specification    *)
(* uses it, and each refutes one of the properties at the end.              *)

GoTo(d, place) == pc' = [pc EXCEPT ![d] = place]
Return(d, result) == outcome' = [outcome EXCEPT ![d] = result]

Fault ==
  /\ faults < MaxFaults
  /\ faults' = faults + 1

\* A database error in an ordinary handler answered with requeue: false.
Caught_Dropped(d) == "drop"

\* What the handler's catch block returns: requeue: true, but false for issues.
Caught(d) == IF d[1] \in IssuesMessage THEN "drop" ELSE "requeue"

\* An exception before workflowRun.create returned: the catch block of the
\* handler has no run to update.
ThrowEarly(d) ==
  /\ GoTo(d, "responding")
  /\ Return(d, Caught(d))

\* The workflow or its actions are not there: success, there is nothing to do.
NothingToDo_Forgotten(d) ==
  /\ GoTo(d, "over")
  /\ Return(d, "success")

NothingToDo(d) ==
  /\ GoTo(d, "responding")
  /\ Return(d, "success")

ThrowLate_RunForgotten(d) == ThrowEarly(d)

\* An exception later on: the catch block first updates the run.
ThrowLate(d) ==
  /\ GoTo(d, "recovering")
  /\ Return(d, Caught(d))

\* The actions of the snapshot the loop has not reached yet.
Todo(d, rows) == {a \in Action : snap[d][a] > 0 /\ rows[d][a] = "none"}

IsNext_Unordered(d, a) == a \in Todo(d, actionRun)

\* findMany orders by step; rows with equal steps come in any order.
IsNext(d, a) ==
  /\ a \in Todo(d, actionRun)
  /\ \A b \in Todo(d, actionRun) : snap[d][a] <= snap[d][b]

Requeued == [m \in Message |-> IF queue[m] = "unacked" THEN "ready" ELSE queue[m]]

\* With the channel goes every right to answer; the broker puts back what was
\* not answered.
ChannelCloses ==
  /\ connected' = FALSE
  /\ live' = {}
  /\ queue' = Requeued

\* The process ends: its handlers vanish where they stand.
ProcessDies ==
  /\ pc' = [d \in Delivery |-> IF InFlight(d) THEN "killed" ELSE pc[d]]
  /\ ChannelCloses

-----------------------------------------------------------------------------
(* The broker and the connection to it.                                    *)

\* receiveWebhookFromGitHub hands the payload to sendGitHubWebhookData; on a
\* closed channel it throws and the message never reaches the queue.
Publish(m) ==
  /\ connected
  /\ queue[m] = "unsent"
  /\ queue' = [queue EXCEPT ![m] = "ready"]
  /\ UNCHANGED <<attempts, connected, live, handlerVars, tableVars, budgetVars>>

\* The broker hands a ready message to the consumer callback.  There is no
\* prefetch: it never waits for earlier handlers.
Deliver(m) ==
  LET n == attempts[m] + 1 IN
  /\ connected
  /\ queue[m] = "ready"
  /\ n <= MaxDeliveries
  /\ queue' = [queue EXCEPT ![m] = "unacked"]
  /\ attempts' = [attempts EXCEPT ![m] = n]
  /\ live' = live \cup {<<m, n>>}
  /\ GoTo(<<m, n>>, "finding")
  /\ UNCHANGED <<connected, outcome, cur, snap, tableVars, budgetVars>>

\* rabbitmq() opens the connection, declares the queues and consumes.
Connect ==
  /\ ~connected
  /\ connected' = TRUE
  /\ UNCHANGED <<queue, attempts, live, handlerVars, tableVars, budgetVars>>

\* The connection closes under the process: its handlers go on, but the
\* broker has already put their messages back.
LoseConnection ==
  /\ connected
  /\ Fault
  /\ ChannelCloses
  /\ UNCHANGED <<attempts, handlerVars, tableVars, edits>>

\* The process is killed, or a rejected reconnect ends it.
Crash ==
  /\ Fault
  /\ ProcessDies
  /\ UNCHANGED <<attempts, outcome, cur, snap, tableVars, edits>>

-----------------------------------------------------------------------------
(* The handler, one action per await.                                      *)

FindWorkflow(d) ==
  /\ pc[d] = "finding"
  /\ \/ /\ workflow[Wf(d)] = "enabled"
        /\ GoTo(d, "loading")
        /\ UNCHANGED <<outcome, faults>>
     \/ /\ workflow[Wf(d)] # "enabled"
        /\ NothingToDo(d)
        /\ UNCHANGED faults
     \/ /\ Fault
        /\ ThrowEarly(d)
  /\ UNCHANGED <<brokerVars, cur, snap, tableVars, edits>>

LoadActions(d) ==
  LET rows == [a \in Action |-> IF WorkflowOf[a] = Wf(d) THEN step[a] ELSE 0] IN
  /\ pc[d] = "loading"
  /\ \/ /\ \E a \in Action : rows[a] > 0
        /\ snap' = [snap EXCEPT ![d] = rows]
        /\ GoTo(d, "creating")
        /\ UNCHANGED <<outcome, faults>>
     \/ /\ \A a \in Action : rows[a] = 0
        /\ NothingToDo(d)
        /\ UNCHANGED <<snap, faults>>
     \/ /\ Fault
        /\ ThrowEarly(d)
        /\ UNCHANGED snap
  /\ UNCHANGED <<brokerVars, cur, tableVars, edits>>

\* The row is refused when the workflow is gone.  When only the reply is
\* lost, the row exists and the handler does not know its id.
CreateRun(d) ==
  LET created == [run EXCEPT ![d] = "Running"] IN
  /\ pc[d] = "creating"
  /\ \/ /\ workflow[Wf(d)] # "deleted"
        /\ run' = created
        /\ GoTo(d, "beginning")
        /\ UNCHANGED <<outcome, faults>>
     \/ /\ workflow[Wf(d)] = "deleted"
        /\ ThrowEarly(d)
        /\ UNCHANGED <<run, faults>>
     \/ /\ Fault
        /\ ThrowEarly(d)
        /\ run' = run \/ (workflow[Wf(d)] # "deleted" /\ run' = created)
  /\ UNCHANGED <<brokerVars, cur, snap, workflow, step, actionRun, edits>>

\* actionRun.create needs both the run's row and the action's row.
BeginAction(d) ==
  \E a \in Action :
    LET created == [actionRun EXCEPT ![d][a] = "Running"]
        accepted == run[d] # "deleted" /\ step[a] > 0
    IN
    /\ pc[d] = "beginning"
    /\ IsNext(d, a)
    /\ cur' = [cur EXCEPT ![d] = a]
    /\ \/ /\ accepted
          /\ actionRun' = created
          /\ GoTo(d, "executing")
          /\ UNCHANGED <<outcome, faults>>
       \/ /\ ~accepted
          /\ ThrowLate(d)
          /\ UNCHANGED <<actionRun, faults>>
       \/ /\ Fault
          /\ ThrowLate(d)
          /\ actionRun' = actionRun \/ (accepted /\ actionRun' = created)
    /\ UNCHANGED <<brokerVars, snap, workflow, step, run, edits>>

Refusal_Retried(d) == "requeue"

\* What a refused action makes the loop return: its requeue flag is false or
\* undefined.
Refusal(d) == "drop"

\* safeParse and executeSingleAction.  A configuration that does not parse,
\* an unsupported type, a refused webhook, a viewer that cannot be read:
\* failure without requeue.  An exception inside (a publish on a closed
\* channel among them): failure with requeue.
ExecuteAction(d) ==
  /\ pc[d] = "executing"
  /\ \/ /\ GoTo(d, "recordingSuccess")
        /\ UNCHANGED <<outcome, faults>>
     \/ /\ GoTo(d, "recordingFailure")
        /\ Return(d, Refusal(d))
        /\ UNCHANGED faults
     \/ /\ GoTo(d, "recordingFailure")
        /\ Return(d, "requeue")
        /\ Fault \/ (~connected /\ UNCHANGED faults)
  /\ UNCHANGED <<brokerVars, cur, snap, tableVars, edits>>

\* The update of an actionRun finds no row once the action or the workflow
\* has been deleted under the handler.
RecordSuccess(d) ==
  LET updated == [actionRun EXCEPT ![d][cur[d]] = "Succeeded"]
      exists == actionRun[d][cur[d]] # "deleted"
      more == Todo(d, updated) # {}
  IN
  /\ pc[d] = "recordingSuccess"
  /\ \/ /\ exists
        /\ actionRun' = updated
        /\ GoTo(d, IF more THEN "beginning" ELSE "settling")
        /\ IF more THEN UNCHANGED outcome ELSE Return(d, "success")
        /\ UNCHANGED faults
     \/ /\ ~exists
        /\ ThrowLate(d)
        /\ UNCHANGED <<actionRun, faults>>
     \/ /\ Fault
        /\ ThrowLate(d)
        /\ actionRun' = actionRun \/ (exists /\ actionRun' = updated)
  /\ UNCHANGED <<brokerVars, cur, snap, workflow, step, run, edits>>

AfterFailure_Continues(d, rows) ==
  IF Todo(d, rows) # {} THEN "beginning" ELSE "settling"

\* A failed action ends the loop.
AfterFailure(d, rows) == "settling"

\* markActionRunFailed, then the loop returns the failure.
RecordFailure(d) ==
  LET updated == [actionRun EXCEPT ![d][cur[d]] = "Failed"]
      exists == actionRun[d][cur[d]] # "deleted"
  IN
  /\ pc[d] = "recordingFailure"
  /\ \/ /\ exists
        /\ actionRun' = updated
        /\ GoTo(d, AfterFailure(d, updated))
        /\ UNCHANGED <<outcome, faults>>
     \/ /\ ~exists
        /\ ThrowLate(d)
        /\ UNCHANGED <<actionRun, faults>>
     \/ /\ Fault
        /\ ThrowLate(d)
        /\ actionRun' = actionRun \/ (exists /\ actionRun' = updated)
  /\ UNCHANGED <<brokerVars, cur, snap, workflow, step, run, edits>>

Verdict_FailureHidden(d) == IF outcome[d] # "requeue" THEN "Succeeded" ELSE "Failed"

Verdict(d) == IF outcome[d] = "success" THEN "Succeeded" ELSE "Failed"

\* The workflowRun takes the loop's verdict.
SettleRun(d) ==
  LET updated == [run EXCEPT ![d] = Verdict(d)]
      exists == run[d] # "deleted"
  IN
  /\ pc[d] = "settling"
  /\ \/ /\ exists
        /\ run' = updated
        /\ GoTo(d, "responding")
        /\ UNCHANGED <<outcome, faults>>
     \/ /\ ~exists
        /\ ThrowLate(d)
        /\ UNCHANGED <<run, faults>>
     \/ /\ Fault
        /\ ThrowLate(d)
        /\ run' = run \/ (exists /\ run' = updated)
  /\ UNCHANGED <<brokerVars, cur, snap, workflow, step, actionRun, edits>>

Recovered_Reopened(d) == [run EXCEPT ![d] = "Running"]

Recovered(d) == [run EXCEPT ![d] = "Failed"]

\* The catch block: the run is marked Failed.  If that update fails too, the
\* exception reaches main(), which returns requeue: true for every event.
Recover(d) ==
  /\ pc[d] = "recovering"
  /\ GoTo(d, "responding")
  /\ \/ /\ run[d] # "deleted"
        /\ run' = Recovered(d)
        /\ UNCHANGED <<outcome, faults>>
     \/ /\ run[d] = "deleted"
        /\ Return(d, "requeue")
        /\ UNCHANGED <<run, faults>>
     \/ /\ Fault
        /\ Return(d, "requeue")
        /\ run' = run \/ (run[d] # "deleted" /\ run' = Recovered(d))
  /\ UNCHANGED <<brokerVars, cur, snap, workflow, step, actionRun, edits>>

Answer_AckEverything(d) == IF outcome[d] = "requeue" THEN "ready" ELSE "acked"

\* ack; nack without requeue, which dead-letters; nack with requeue.
Answer(d) ==
  IF outcome[d] = "success" THEN "acked"
  ELSE IF outcome[d] = "drop" THEN "dead" ELSE "ready"

AnsweredWith_AllUpTo(d) == {d[1]} \cup {m \in Message : queue[m] = "unacked"}

\* allUpTo is false or undefined throughout: one message at a time.
AnsweredWith(d) == {d[1]}

MayAnswer_AnyChannel(d) == connected

\* The callback answers on the channel it was called from.
MayAnswer(d) == d \in live

\* The consumer answers the broker: ack, nack to the dead-letter queue, or
\* nack with requeue.  On a channel that has closed meanwhile ack throws, so
\* does the nack of the catch block, and the rejected callback ends the process.
Respond(d) ==
  /\ pc[d] = "responding"
  /\ \/ /\ MayAnswer(d)
        /\ queue' = [m \in Message |-> IF m \in AnsweredWith(d) THEN Answer(d) ELSE queue[m]]
        /\ live' = live \ {d}
        /\ GoTo(d, "over")
        /\ UNCHANGED connected
     \/ /\ ~MayAnswer(d)
        /\ ProcessDies
  /\ UNCHANGED <<attempts, outcome, cur, snap, tableVars, budgetVars>>

Work(d) ==
  \/ FindWorkflow(d)  \/ LoadActions(d)   \/ CreateRun(d)
  \/ BeginAction(d)   \/ ExecuteAction(d) \/ RecordSuccess(d)
  \/ RecordFailure(d) \/ SettleRun(d)     \/ Recover(d)

HandlerStep(d) == Work(d) \/ Respond(d)

-----------------------------------------------------------------------------
(* The user's edits through the HTTP API.                                  *)

Edit ==
  /\ edits < MaxEdits
  /\ edits' = edits + 1

\* updateWorkflow sets the enabled flag.
ToggleWorkflow(w) ==
  /\ Edit
  /\ workflow[w] # "deleted"
  /\ workflow' = [workflow EXCEPT ![w] = IF @ = "enabled" THEN "disabled" ELSE "enabled"]
  /\ UNCHANGED <<brokerVars, handlerVars, step, run, actionRun, faults>>

\* deleteOneWorkflowById; the foreign keys cascade to actions and runs.
DeleteWorkflow(w) ==
  /\ Edit
  /\ workflow[w] # "deleted"
  /\ workflow' = [workflow EXCEPT ![w] = "deleted"]
  /\ step' = [a \in Action |-> IF WorkflowOf[a] = w THEN 0 ELSE step[a]]
  /\ run' = [d \in Delivery |->
               IF Wf(d) = w /\ run[d] \in TableRow THEN "deleted" ELSE run[d]]
  /\ actionRun' = [d \in Delivery |-> [a \in Action |->
                     IF Wf(d) = w /\ actionRun[d][a] \in TableRow
                     THEN "deleted" ELSE actionRun[d][a]]]
  /\ UNCHANGED <<brokerVars, handlerVars, faults>>

StepsWithout_AllMoved(a) ==
  [b \in Action |-> IF b = a THEN 0 ELSE step[b] - 1]

\* The row goes, and the later steps of its workflow move down by one.
StepsWithout(a) ==
  [b \in Action |->
     IF b = a THEN 0
     ELSE IF WorkflowOf[b] = WorkflowOf[a] /\ step[b] > step[a] THEN step[b] - 1
     ELSE step[b]]

\* deleteActionById; the foreign key cascades to the action's actionRuns.
DeleteAction(a) ==
  /\ Edit
  /\ step[a] > 0
  /\ step' = StepsWithout(a)
  /\ actionRun' = [d \in Delivery |-> [b \in Action |->
                     IF b = a /\ actionRun[d][b] \in TableRow
                     THEN "deleted" ELSE actionRun[d][b]]]
  /\ UNCHANGED <<brokerVars, handlerVars, workflow, run, faults>>

-----------------------------------------------------------------------------

Next ==
  \/ \E m \in Message : Publish(m) \/ Deliver(m)
  \/ Connect
  \/ LoseConnection
  \/ Crash
  \/ \E d \in Delivery : HandlerStep(d)
  \/ \E w \in Workflow : ToggleWorkflow(w) \/ DeleteWorkflow(w)
  \/ \E a \in Action : DeleteAction(a)

Spec == Init /\ [][Next]_vars

\* The event loop resumes every handler whose await is over, every query and
\* request ends (with an answer or an error), the broker delivers what is
\* ready to a consumer, and the process comes back after it lost its
\* connection or died.
Fairness ==
  /\ \A d \in Delivery : WF_vars(HandlerStep(d))
  /\ \A m \in Message : WF_vars(Deliver(m))
  /\ WF_vars(Connect)

FairSpec == Spec /\ Fairness

-----------------------------------------------------------------------------
(* What the engine promises.                                               *)

Planned(d, a) == snap[d][a] > 0
Passed(d, a)  == actionRun[d][a] \in {"Succeeded", "deleted"}

\* No action is started unless every action of a smaller step has succeeded
\* (or its record went with a deleted action or workflow): an action that
\* fails stops the ones after it, in every interleaving with edits, lost
\* replies and other deliveries.  executeActions, base-event.ts.
StepsInOrder ==
  \A d \in Delivery : \A a, b \in Action :
    Planned(d, a) /\ snap[d][a] < snap[d][b] /\ actionRun[d][b] # "none"
      => Passed(d, a)

\* A run is recorded as Succeeded only when every action the handler had
\* loaded has succeeded.  Star_event, star-event.ts.
SucceededMeansAllPassed ==
  \A d \in Delivery : run[d] = "Succeeded" =>
    \A a \in Action : Planned(d, a) => Passed(d, a)

\* A message leaves the queue by an ack only when its last handler had nothing
\* to run, or ran everything and had settled the run before it answered: no
\* exception path, zombie or restart acknowledges work that was not done.
\* githubWebhookConsumer, rabbitmq-consumer.ts.
AckedMeansDone ==
  \A m \in Message : queue[m] = "acked" =>
    LET d == <<m, attempts[m]>> IN
    /\ pc[d] = "over"
    /\ run[d] \in {"none", "Succeeded", "deleted"}
    /\ run[d] # "none" => \A a \in Action : Planned(d, a) => Passed(d, a)

\* A message is dead-lettered only when its last handler's run is on record as
\* Failed with a failed action (or deleted since): nothing else, a database
\* error least of all, may throw a message away.  Issues messages are the
\* exception, because their handler answers requeue: false from its catch.
DeadMeansRejected ==
  \A m \in Message \ IssuesMessage : queue[m] = "dead" =>
    LET d == <<m, attempts[m]>> IN
    /\ run[d] \in {"Failed", "deleted"}
    /\ \E a \in Action : actionRun[d][a] \in {"Failed", "deleted"}

\* Broker and process agree on who may answer: a message is out exactly while
\* its last delivery is in flight on an open channel, and no other delivery of
\* it, such as a handler that outlived its connection, can answer for it.
OneOwner ==
  \A m \in Message : \A n \in 1 .. MaxDeliveries :
    <<m, n>> \in live <=>
      queue[m] = "unacked" /\ n = attempts[m] /\ InFlight(<<m, n>>)

\* A run is left Running with no handler to settle it only if something
\* failed: a crash, a lost connection or a database error.  The user's edits
\* alone, whatever their timing, leave no such run.
OrphanNeedsFault ==
  \A d \in Delivery : run[d] = "Running" /\ ~InFlight(d) => faults > 0

\* A message is handed out a second time only after a fault or an edit that
\* caught its handler: a business failure is never retried.
RetryNeedsCause ==
  \A m \in Message : attempts[m] > 1 => faults + edits > 0

\* An answered message stays answered: neither the end of a connection nor the
\* late answer of a handler that outlived it puts it back on the queue or
\* moves it between acknowledged and dead-lettered.
AnswerIsFinal ==
  [][\A m \in Message : queue[m] \in {"acked", "dead"} => queue'[m] = queue[m]]_vars

\* What the records say is final: a settled actionRun and a Failed run change
\* only by being deleted.  (A run can go from Succeeded to Failed, when the
\* reply to its last update is lost and the catch block runs.)
RecordsAreFinal ==
  [][\A d \in Delivery :
       /\ run[d] = "Failed" => run'[d] \in {"Failed", "deleted"}
       /\ run[d] = "deleted" => run'[d] = "deleted"
       /\ \A a \in Action : actionRun[d][a] \in {"Succeeded", "Failed", "deleted"} =>
            actionRun'[d][a] \in {actionRun[d][a], "deleted"}]_vars

\* Every message the broker holds is answered in the end, provided faults and
\* edits end: no handler waits for ever, and no crash, reconnect or requeue
\* strands a message.
EveryMessageAnswered ==
  \A m \in Message : queue[m] = "ready" ~> queue[m] \in {"acked", "dead"}

(* The strengthening that makes the promises above inductive: what is true *)
(* of a delivery's rows at each place its handler can be.                   *)

AllPassed(d) == \A a \in Action : Planned(d, a) => Passed(d, a)
Begun(d, a)  == Planned(d, a) /\ actionRun[d][a] # "none"

HandlerInv(d) ==
  /\ pc[d] \in {"idle", "finding", "loading", "creating"} =>
       run[d] = "none" /\ \A a \in Action : actionRun[d][a] = "none"
  /\ pc[d] = "beginning" => \A a \in Action : Begun(d, a) => Passed(d, a)
  /\ pc[d] \in {"executing", "recordingSuccess", "recordingFailure"} =>
       /\ cur[d] \in Action /\ Planned(d, cur[d])
       /\ actionRun[d][cur[d]] \in {"Running", "deleted"}
       /\ \A a \in Action \ {cur[d]} : Begun(d, a) => Passed(d, a)
  /\ pc[d] \in {"recordingFailure", "recovering"} => outcome[d] # "success"
  /\ pc[d] = "settling" /\ outcome[d] = "success" => AllPassed(d)
  /\ pc[d] \in {"responding", "over"} /\ outcome[d] = "success" =>
       /\ run[d] \in {"none", "Succeeded", "deleted"}
       /\ run[d] # "none" => AllPassed(d)
  /\ run[d] = "Succeeded" => AllPassed(d)

InOrder(d) ==
  \A a, b \in Action :
    Planned(d, a) /\ snap[d][a] < snap[d][b] /\ actionRun[d][b] # "none"
      => Passed(d, a)

Fresh(m) ==
  \A n \in 1 .. MaxDeliveries : n > attempts[m] => pc[<<m, n>>] = "idle"

AckInv(m) ==
  queue[m] = "acked" =>
    /\ attempts[m] \in 1 .. MaxDeliveries
    /\ pc[<<m, attempts[m]>>] = "over"
    /\ outcome[<<m, attempts[m]>>] = "success"

\* The inductive invariant: types, ownership of every message, and the rows of
\* every delivery at each await of its handler.
EngineInv ==
  /\ TypeOK
  /\ OneOwner
  /\ \A d \in Delivery : HandlerInv(d) /\ InOrder(d)
  /\ \A m \in Message : Fresh(m) /\ AckInv(m)

\* What a reader of the run tables sees: the plan is visible once the run is.
Ledger == INSTANCE RunLedger WITH
  Run <- Delivery,
  plan <- [d \in Delivery |-> IF run[d] = "none" THEN [a \in Action |-> 0] ELSE snap[d]]

\* The engine, with all its awaits, failures and edits, implements the ledger:
\* every step of every handler is one ledger step or invisible in the tables.
ImplementsLedger == Ledger!Spec

=============================================================================
