---------------------------- MODULE EventActions ----------------------------
(***************************************************************************)
(* From what a user stores to what an event does: the workflows and        *)
(* actions a user creates and updates, the webhook messages of one         *)
(* repository, and the GitHub worker that looks a workflow up, reads its   *)
(* actions and executes them one call after the other.                     *)
(*                                                                         *)
(* The messages are handled one at a time and there is one request of the  *)
(* user in flight: WorkflowEngine interleaves messages (with their crashes *)
(* and lost replies), WorkflowApi interleaves requests, GitHubAccount the  *)
(* webhooks that keep the rows of installations and repositories.  Here    *)
(* the user changes workflows while a message is handled, the calls an     *)
(* action makes fail one by one, and the repository's row comes and goes   *)
(* with the workflows that hang on it.  Its connection is the user's.      *)
(***************************************************************************)
EXTENDS EventScripts, Naturals, FiniteSets

CONSTANTS
  Workflow,     \* ids of the user's workflows on the repository
  Message,      \* ids of the webhook messages
  Event,        \* the events the workflows and messages are about
  Payload,      \* the actions of events that payloads and workflows name
  Sent,         \* the actions (type and config) requests are made with
  MaxActions,   \* how many actions a workflow gets
  MaxFaults,    \* how many calls and queries throw
  MaxEdits,     \* how often the user updates a workflow or an action
  Absent        \* no row, no request, no message

ASSUME EventAssumption ==
  /\ Event \subseteq HandledEvent
  /\ Sent \subseteq ActionRow
  /\ MaxActions \in Nat
  /\ MaxFaults \in Nat
  /\ MaxEdits \in Nat

VARIABLES
  known,      \* the rows there are: nothing, the connection, the repository too
  workflow,   \* the workflow rows
  actions,    \* the action rows of each workflow, by step
  retyped,    \* history: workflows whose eventType was changed
  edits,      \* how many updates there were
  request,    \* the request of the user that awaits, or Absent
  message,    \* what each message says, or Absent
  queue,      \* where each message is
  attempts,   \* history: how often a message was handed to a handler
  place,      \* what the handler awaits
  current,    \* the message it handles
  chosen,     \* the workflow it found
  todo,       \* the actions it read
  at,         \* which of them it executes
  script,     \* what is left of that action's script
  viewer,     \* whether the sender's profile was loaded
  verdict,    \* why the execution failed
  runs,       \* the workflow runs of each message, those of deleted workflows too
  effects,    \* history: the emails queued and POSTs made
  due,        \* history: workflows that have waited for a message unchanged
  picked,     \* history: workflows the lookups for a message returned
  faults

userVars  == <<known, workflow, actions, retyped, edits, request>>
queueVars == <<message, queue, attempts>>
localVars == <<current, chosen, todo, at, script, viewer, verdict>>
vars == <<userVars, queueVars, place, localVars, runs, effects, due, picked, faults>>

None == "none"

EventAction == Payload \cap UNION {githubWorkflowActionRules[e] : e \in Event}

WorkflowRow == [event : Event, action : EventAction, enabled : BOOLEAN]
RequestType == [kind : {"create", "update"}, workflow : Workflow, step : Nat,
                action : ActionRow]
MessageType == [event : Event, action : EventAction \cup {Null}, attached : BOOLEAN]

ASSUME AbsentAssumption ==
  /\ Absent \notin WorkflowRow
  /\ Absent \notin RequestType
  /\ Absent \notin MessageType

Rows == {w \in Workflow : workflow[w] # Absent}

Init ==
  /\ known \in {"connection", "repository"}
  /\ workflow = [w \in Workflow |-> Absent]
  /\ actions = [w \in Workflow |-> <<>>]
  /\ retyped = {}
  /\ edits = 0
  /\ request = Absent
  /\ message = [m \in Message |-> Absent]
  /\ queue = [m \in Message |-> "unsent"]
  /\ attempts = [m \in Message |-> 0]
  /\ place = "idle"
  /\ current = None
  /\ chosen = None
  /\ todo = <<>>
  /\ at = 0
  /\ script = <<>>
  /\ viewer = FALSE
  /\ verdict = None
  /\ runs = [m \in Message |-> <<>>]
  /\ effects = {}
  /\ due = [m \in Message |-> {}]
  /\ picked = [m \in Message |-> {}]
  /\ faults = 0

-----------------------------------------------------------------------------
(* The user                                                                *)

workerVars == <<queueVars, place, localVars, runs, effects, picked, faults>>

\* A workflow that changes is no longer one a message has waited for.
Edits ==
  /\ edits < MaxEdits
  /\ edits' = edits + 1

Changed(w) == due' = [m \in Message |-> due[m] \ {w}]

\* createWorkflow wants the repository's row.
CreateWorkflow(w, e, a) ==
  /\ workflow[w] = Absent
  /\ known = "repository"
  /\ createWorkflowSchema(e, a)
  /\ workflow' = [workflow EXCEPT ![w] = [event |-> e, action |-> a, enabled |-> TRUE]]
  /\ UNCHANGED <<known, actions, retyped, edits, request, due, workerVars>>

\* PATCH writes the columns it is given; the action column is not one of them,
\* and neither it nor the workflow's actions are checked against the new event.
UpdateEventType(w, e) ==
  /\ Edits
  /\ w \in Rows
  /\ workflow[w].event # e
  /\ workflow' = [workflow EXCEPT ![w].event = e]
  /\ retyped' = retyped \cup {w}
  /\ Changed(w)
  /\ UNCHANGED <<known, actions, request, workerVars>>

UpdateEnabled(w) ==
  /\ Edits
  /\ w \in Rows
  /\ workflow' = [workflow EXCEPT ![w].enabled = ~@]
  /\ Changed(w)
  /\ UNCHANGED <<known, actions, retyped, request, workerVars>>

\* createAction reads the workflow; the action is checked against what it read.
CreateActionReads(w, action) ==
  /\ request = Absent
  /\ w \in Rows
  /\ createActionSchemaByEventType(workflow[w].event, action)
  /\ Len(actions[w]) < MaxActions
  /\ request' = [kind |-> "create", workflow |-> w, step |-> Len(actions[w]) + 1,
                 action |-> ParsedCreate(action)]
  /\ UNCHANGED <<known, workflow, actions, retyped, edits, due, workerVars>>

CreateActionWrites ==
  /\ request # Absent
  /\ request.kind = "create"
  /\ actions' = [actions EXCEPT ![request.workflow] = Append(@, request.action)]
  /\ request' = Absent
  /\ Changed(request.workflow)
  /\ UNCHANGED <<known, workflow, retyped, edits, workerVars>>

UpdateActionReads(w, i, action) ==
  /\ Edits
  /\ request = Absent
  /\ w \in Rows
  /\ i \in DOMAIN actions[w]
  /\ updateActionSchemaByEventType(workflow[w].event, action)
  /\ request' = [kind |-> "update", workflow |-> w, step |-> i,
                 action |-> ParsedUpdate(action)]
  /\ UNCHANGED <<known, workflow, actions, retyped, due, workerVars>>

UpdateActionWrites ==
  /\ request # Absent
  /\ request.kind = "update"
  /\ actions' = [actions EXCEPT ![request.workflow][request.step] = request.action]
  /\ request' = Absent
  /\ Changed(request.workflow)
  /\ UNCHANGED <<known, workflow, retyped, edits, workerVars>>

\* The workflows and actions of the repository are deleted with its row.  The
\* ids of rows that are gone stand for new ones when they come again, and a
\* request that awaits is about one of them: its write is refused.
Cascade ==
  /\ workflow' = [w \in Workflow |-> Absent]
  /\ actions' = [w \in Workflow |-> <<>>]
  /\ retyped' = {}
  /\ request' = Absent

\* The app is removed, and the installation handler deletes the connection's
\* row, between two messages.  An app that is installed again has another
\* installation: no message speaks of it.
Uninstall ==
  /\ Edits
  /\ place = "idle"
  /\ known # "nothing"
  /\ known' = "nothing"
  /\ Cascade
  /\ due' = [m \in Message |-> {}]
  /\ UNCHANGED workerVars

User ==
  \/ Uninstall
  \/ \E w \in Workflow, e \in Event, a \in EventAction : CreateWorkflow(w, e, a)
  \/ \E w \in Workflow, e \in Event : UpdateEventType(w, e)
  \/ \E w \in Workflow : UpdateEnabled(w)
  \/ \E w \in Workflow, action \in Sent : CreateActionReads(w, action)
  \/ CreateActionWrites
  \/ \E w \in Workflow, i \in 1..MaxActions, action \in Sent :
       UpdateActionReads(w, i, action)
  \/ UpdateActionWrites

-----------------------------------------------------------------------------
(* GitHub and the queue                                                    *)

\* The workflows a user would expect a payload to trigger.
Expecting(e, a) ==
  {w \in Rows : /\ workflow[w].event = e
                /\ workflow[w].action = a
                /\ workflow[w].enabled
                /\ actions[w] # <<>>}

\* Only the workflow_job and workflow_run payloads leave the installation out.
GitHubSends(m, e, a, attached) ==
  /\ queue[m] = "unsent"
  /\ attached \/ handlers[e].unattached
  /\ IF githubWorkflowActionRules[e] = {}
     THEN a = Null
     ELSE a \in githubWorkflowActionRules[e]
  /\ message' = [message EXCEPT ![m] = [event |-> e, action |-> a, attached |-> attached]]
  /\ queue' = [queue EXCEPT ![m] = "ready"]
  /\ due' = [due EXCEPT ![m] = IF attached THEN Expecting(e, a) ELSE {}]
  /\ UNCHANGED <<userVars, attempts, place, localVars, runs, effects, picked, faults>>

\* The consumer parses a message and main dispatches it.  A handler starts at
\* its first await; an event without a case, and a payload the handler has no
\* use for, is acknowledged.
Starts(m) == message[m].event \in Routed /\ message[m].attached

Deliver(m) ==
  /\ place = "idle"
  /\ queue[m] = "ready"
  /\ attempts' = [attempts EXCEPT ![m] = @ + 1]
  /\ IF Starts(m)
     THEN /\ queue' = [queue EXCEPT ![m] = "handled"]
          /\ place' = IF handlers[message[m].event].upkeep THEN "connection" ELSE "workflow"
          /\ current' = m
     ELSE /\ queue' = [queue EXCEPT ![m] = "acked"]
          /\ UNCHANGED <<place, current>>
  /\ UNCHANGED <<userVars, message, chosen, todo, at, script, viewer, verdict,
                 runs, effects, due, picked, faults>>

\* What the handler leaves behind when its message is answered for.
Settle(outcome) ==
  /\ queue' = [queue EXCEPT ![current] = outcome]
  /\ place' = "idle"
  /\ current' = None
  /\ chosen' = None
  /\ todo' = <<>>
  /\ at' = 0
  /\ script' = <<>>
  /\ viewer' = FALSE
  /\ verdict' = None

-----------------------------------------------------------------------------
(* The handler                                                             *)

lookupFrame == <<userVars, message, attempts, due>>
handlerFrame == <<lookupFrame, picked>>
TheEvent == message[current].event
LastRun  == Len(runs[current])

\* Repository_event finds the connection first; without one it is done.
FindConnection ==
  /\ place = "connection"
  /\ known # "nothing"
  /\ place' = "table"
  /\ UNCHANGED <<handlerFrame, queue, localVars, runs, effects, faults>>

FindNoConnection ==
  /\ place = "connection"
  /\ known = "nothing"
  /\ Settle("acked")
  /\ UNCHANGED <<handlerFrame, runs, effects, faults>>

Removal(m) == message[m].event = "repository" /\ message[m].action = "deleted"

\* Every action but "deleted" has its case upsert the row.
UpsertRepository ==
  /\ place = "table"
  /\ ~Removal(current)
  /\ known' = "repository"
  /\ place' = "workflow"
  /\ UNCHANGED <<workflow, actions, retyped, edits, request, message, attempts, due,
                 picked, queue, localVars, runs, effects, faults>>

\* The row is deleted, and then the workflow for its deletion is looked up.
\* Other messages wait for workflows of the repository no more.
DeleteRepository ==
  /\ place = "table"
  /\ Removal(current)
  /\ known' = "connection"
  /\ Cascade
  /\ due' = [m \in Message |-> IF m = current THEN due[m] ELSE {}]
  /\ place' = "workflow"
  /\ UNCHANGED <<edits, message, attempts, picked, queue, localVars, runs, effects, faults>>

\* A workflow is there only with its repository and its connection.
Matches(w) ==
  /\ workflow[w].event = TheEvent
  /\ workflow[w].action = LookupAction(TheEvent, message[current].action)
  /\ workflow[w].enabled

\* findFirst picks any of the workflows that match.
FindWorkflow ==
  /\ place = "workflow"
  /\ \E w \in Rows :
       /\ Matches(w)
       /\ chosen' = w
       /\ picked' = [picked EXCEPT ![current] = @ \cup {w}]
  /\ place' = "actions"
  /\ UNCHANGED <<lookupFrame, queue, current, todo, at, script, viewer, verdict,
                 runs, effects, faults>>

FindNoWorkflow ==
  /\ place = "workflow"
  /\ \A w \in Rows : ~Matches(w)
  /\ Settle("acked")
  /\ UNCHANGED <<handlerFrame, runs, effects, faults>>

FindActions ==
  /\ place = "actions"
  /\ actions[chosen] # <<>>
  /\ todo' = actions[chosen]
  /\ place' = "run"
  /\ UNCHANGED <<handlerFrame, queue, current, chosen, at, script, viewer, verdict,
                 runs, effects, faults>>

FindNoActions ==
  /\ place = "actions"
  /\ actions[chosen] = <<>>
  /\ Settle("acked")
  /\ UNCHANGED <<handlerFrame, runs, effects, faults>>

\* A run row: its workflow, the actions that were executed for it, how many of
\* them have succeeded, and how it ended.
CreateRun ==
  /\ place = "run"
  /\ runs' = [runs EXCEPT ![current] =
                Append(@, [workflow |-> chosen, actions |-> todo, succeeded |-> 0,
                           status |-> "Running", cause |-> None])]
  /\ at' = 1
  /\ place' = "begin"
  /\ UNCHANGED <<handlerFrame, queue, current, chosen, todo, script, viewer, verdict,
                 effects, faults>>

\* The stored action is parsed again, with the schema of the handler's event.
BeginAction ==
  /\ place = "begin"
  /\ IF createActionSchemaByEventType(TheEvent, todo[at])
     THEN /\ script' = executeSingleAction(TheEvent, ParsedCreate(todo[at]))
          /\ place' = "execute"
          /\ UNCHANGED verdict
     ELSE /\ verdict' = "unparsed"
          /\ place' = "fail"
          /\ UNCHANGED script
  /\ UNCHANGED <<handlerFrame, queue, current, chosen, todo, at, viewer,
                 runs, effects, faults>>

executeFrame == <<handlerFrame, queue, current, chosen, todo, at, runs>>

Calls(step) == place = "execute" /\ script # <<>> /\ Head(script) = step

\* The executor answers failure, without a word on requeuing.
Fails ==
  /\ verdict' = "refused"
  /\ place' = "fail"

Effect(call) == [message |-> current, run |-> LastRun, step |-> at, call |-> call]

LoadViewer ==
  /\ Calls("viewer")
  /\ \/ /\ viewer' = TRUE
        /\ script' = Tail(script)
        /\ UNCHANGED <<place, verdict>>
     \/ /\ ~viewer
        /\ Fails
        /\ UNCHANGED <<viewer, script>>
  /\ UNCHANGED <<executeFrame, effects, faults>>

\* collect_viewer_email and AI_analytics_commit_messages catch what they throw.
Ask(step) ==
  /\ Calls(step)
  /\ \/ /\ script' = Tail(script)
        /\ UNCHANGED <<place, verdict>>
     \/ /\ Fails
        /\ UNCHANGED script
  /\ UNCHANGED <<executeFrame, viewer, effects, faults>>

AnswerRefusal ==
  /\ Calls("refuse")
  /\ Fails
  /\ UNCHANGED <<executeFrame, script, viewer, effects, faults>>

Publish ==
  /\ Calls("publish")
  /\ effects' = effects \cup {Effect("publish")}
  /\ script' = Tail(script)
  /\ UNCHANGED <<executeFrame, place, viewer, verdict, faults>>

\* The receiver's answer is 2xx or it is not; either way it has the request.
Post ==
  /\ Calls("post")
  /\ effects' = effects \cup {Effect("post")}
  /\ \/ /\ script' = Tail(script)
        /\ UNCHANGED <<place, verdict>>
     \/ /\ Fails
        /\ UNCHANGED script
  /\ UNCHANGED <<executeFrame, viewer, faults>>

\* sendEmail throws when there is no channel, and fetch, or reading the
\* answer's body, when the connection is lost before or after the request
\* was received: the executor asks for a retry.
CallThrows ==
  /\ faults < MaxFaults
  /\ faults' = faults + 1
  /\ \/ Calls("publish") /\ UNCHANGED effects
     \/ Calls("post") /\ effects' \in {effects, effects \cup {Effect("post")}}
  /\ verdict' = "threw"
  /\ place' = "fail"
  /\ UNCHANGED <<executeFrame, script, viewer>>

\* The action's run is marked Succeeded and the loop goes on.
FinishAction ==
  /\ place = "execute"
  /\ script = <<>>
  /\ runs' = [runs EXCEPT ![current][LastRun].succeeded = at]
  /\ at' = at + 1
  /\ place' = IF at < Len(todo) THEN "begin" ELSE "finish"
  /\ UNCHANGED <<handlerFrame, queue, current, chosen, todo, script, viewer, verdict,
                 effects, faults>>

EndRun(status, cause) ==
  runs' = [runs EXCEPT ![current][LastRun].status = status,
                       ![current][LastRun].cause = cause]

FinishRun_Again ==
  /\ place = "finish"
  /\ EndRun("Succeeded", None)
  /\ place' = "workflow"
  /\ UNCHANGED <<handlerFrame, queue, localVars, effects, faults>>

FinishRun ==
  /\ place = "finish"
  /\ EndRun("Succeeded", None)
  /\ Settle("acked")
  /\ UNCHANGED <<handlerFrame, effects, faults>>

FailRun_GoesOn ==
  /\ place = "fail"
  /\ IF verdict = "refused" /\ at < Len(todo)
     THEN /\ place' = "begin"
          /\ at' = at + 1
          /\ script' = <<>>
          /\ UNCHANGED <<queue, current, chosen, todo, viewer, verdict, runs>>
     ELSE /\ EndRun("Failed", verdict)
          /\ Settle(IF verdict = "threw" THEN "ready" ELSE "dead")
  /\ UNCHANGED <<handlerFrame, effects, faults>>

FailRun_Requeues ==
  /\ place = "fail"
  /\ EndRun("Failed", verdict)
  /\ Settle("ready")
  /\ UNCHANGED <<handlerFrame, effects, faults>>

FailRun_Drops ==
  /\ place = "fail"
  /\ EndRun("Failed", verdict)
  /\ Settle("dead")
  /\ UNCHANGED <<handlerFrame, effects, faults>>

\* The action's run and the workflow's are marked Failed; only an exception
\* in the executor has the message requeued, anything else kills it.
FailRun ==
  /\ place = "fail"
  /\ EndRun("Failed", verdict)
  /\ Settle(IF verdict = "threw" THEN "ready" ELSE "dead")
  /\ UNCHANGED <<handlerFrame, effects, faults>>

\* A query of the handler throws.  Its catch marks the run Failed, if there is
\* one, and answers with the handler's `retry'; when the catch throws as well,
\* main has the message requeued.
AwaitsDatabase ==
  \/ place \in {"connection", "table", "workflow", "actions", "run", "begin", "finish", "fail"}
  \/ place = "execute" /\ script = <<>>

HasRun == LastRun > 0 /\ runs[current][LastRun].status = "Running" /\ at > 0

DatabaseFails ==
  /\ AwaitsDatabase
  /\ faults < MaxFaults
  /\ faults' = faults + 1
  /\ IF HasRun THEN EndRun("Failed", "threw") ELSE UNCHANGED runs
  /\ Settle(IF handlers[TheEvent].retry THEN "ready" ELSE "dead")
  /\ UNCHANGED <<handlerFrame, effects>>

DatabaseFailsTwice ==
  /\ AwaitsDatabase
  /\ HasRun
  /\ faults + 1 < MaxFaults
  /\ faults' = faults + 2
  /\ Settle("ready")
  /\ UNCHANGED <<handlerFrame, runs, effects>>

HandlerStep ==
  \/ FindConnection \/ FindNoConnection \/ UpsertRepository \/ DeleteRepository
  \/ FindWorkflow \/ FindNoWorkflow
  \/ FindActions \/ FindNoActions
  \/ CreateRun \/ BeginAction
  \/ LoadViewer \/ Ask("address") \/ Ask("analyse") \/ AnswerRefusal
  \/ Publish \/ Post \/ CallThrows
  \/ FinishAction \/ FinishRun \/ FailRun
  \/ DatabaseFails \/ DatabaseFailsTwice

Next ==
  \/ User
  \/ \E m \in Message, e \in Event, a \in EventAction \cup {Null}, attached \in BOOLEAN :
       GitHubSends(m, e, a, attached)
  \/ \E m \in Message : Deliver(m)
  \/ HandlerStep

Spec == Init /\ [][Next]_vars

-----------------------------------------------------------------------------
(* Properties                                                              *)

Run == [workflow : Workflow, actions : Seq(ActionRow), succeeded : Nat,
        status : {"Running", "Succeeded", "Failed"},
        cause : {None, "refused", "unparsed", "threw"}]

\* Every variable keeps its type, and the rows their foreign keys: there is no
\* workflow without the repository's row, whatever is deleted and written when.
TypeOK ==
  /\ known \in {"nothing", "connection", "repository"}
  /\ Rows # {} => known = "repository"
  /\ workflow \in [Workflow -> WorkflowRow \cup {Absent}]
  /\ actions \in [Workflow -> Seq(ActionRow)]
  /\ retyped \subseteq Workflow
  /\ edits \in 0..MaxEdits
  /\ request \in RequestType \cup {Absent}
  /\ message \in [Message -> MessageType \cup {Absent}]
  /\ queue \in [Message -> {"unsent", "ready", "handled", "acked", "dead"}]
  /\ attempts \in [Message -> Nat]
  /\ place \in {"idle", "connection", "table", "workflow", "actions", "run",
                "begin", "execute", "finish", "fail"}
  /\ current \in Message \cup {None}
  /\ chosen \in Workflow \cup {None}
  /\ todo \in Seq(ActionRow)
  /\ at \in Nat
  /\ script \in Seq(Step)
  /\ viewer \in BOOLEAN
  /\ verdict \in {None, "refused", "unparsed", "threw"}
  /\ runs \in [Message -> Seq(Run)]
  /\ effects \subseteq
       [message : Message, run : Nat, step : Nat, call : {"publish", "post"}]
  /\ due \in [Message -> SUBSET Workflow]
  /\ picked \in [Message -> SUBSET Workflow]
  /\ faults \in 0..MaxFaults

\* What the API has stored for a workflow whose event was never changed is
\* what the handler of that event parses, and parsing leaves it as it is: the
\* update schemas, the create schemas and the table of supported types agree,
\* in requests that overlap a change of the event too.
StoredActionsParse ==
  \A w \in Workflow \ retyped : \A i \in DOMAIN actions[w] :
    /\ createActionSchemaByEventType(workflow[w].event, actions[w][i])
    /\ ParsedCreate(actions[w][i]) = actions[w][i]

\* "If an action fails to execute, then the subsequent actions that are
\* supposed to run after it will not execute" (Star/README.md): an email or a
\* POST of an action comes after the success of every action before it, in
\* the same run, redeliveries notwithstanding.
EffectsInOrder ==
  \A e \in effects :
    /\ e.run \in DOMAIN runs[e.message]
    /\ e.step <= runs[e.message][e.run].succeeded + 1
    /\ e.step \in DOMAIN runs[e.message][e.run].actions

\* findFirst picks one of the workflows that match: a delivery runs at most
\* one, and a message runs no more often than it was delivered.
OneRunPerDelivery == \A m \in Message : Len(runs[m]) <= attempts[m]

\* A message is run again only because a call or a query threw: a refusal, a
\* failed lookup of the sender or a webhook's error status is final.
RepeatNeedsThrow ==
  \A m \in Message : \A i \in DOMAIN runs[m] :
    i < Len(runs[m]) =>
      runs[m][i].cause = "threw" \/ runs[m][i].status = "Running"

\* A message dies only of a verdict on one of its actions, unless it is about
\* issues, whose handler gives up at the first exception of its own.
DeathNeedsVerdict ==
  \A m \in Message : queue[m] = "dead" =>
    \/ ~handlers[message[m].event].retry
    \/ /\ runs[m] # <<>>
       /\ runs[m][Len(runs[m])].status = "Failed"
       /\ runs[m][Len(runs[m])].cause \in {"refused", "unparsed"}

\* A run that reports success has queued the email of each of its email
\* actions and sent the POST of each webhook, on every event that has a
\* branch for them; that of the repository event has one for send_email only.
Outbound == {"send_email", "send_email_to_who_send_the_trigger", "webhook"}

CallOf(type) == IF type = "webhook" THEN "post" ELSE "publish"

ShouldSend(event, type) == type \in Outbound /\ (event = "repository" => type = "send_email")

SuccessIsReal ==
  \A m \in Message : \A i \in DOMAIN runs[m] :
    runs[m][i].status = "Succeeded" =>
      \A k \in DOMAIN runs[m][i].actions :
        ShouldSend(message[m].event, runs[m][i].actions[k].type) =>
          [message |-> m, run |-> i, step |-> k,
           call |-> CallOf(runs[m][i].actions[k].type)] \in effects

\* A message of an event main has a case for is not acknowledged over the head
\* of a workflow that waited for it unchanged: some workflow was found for it,
\* and ran unless it was another one, without actions.  The exception is the
\* removal of the repository, whose handler deletes the workflow first.
Served(m) ==
  queue[m] = "acked" /\ due[m] # {} /\ message[m].event \in Routed =>
    /\ picked[m] # {}
    /\ picked[m] \subseteq due[m] => runs[m] # <<>>

DueMeansServed ==
  \A m \in Message : queue[m] = "acked" => Removal(m) \/ Served(m)

Promise == INSTANCE Automation

\* The users' edits, the queue with its redeliveries, and the handlers with
\* their lookups, scripts and faults implement Automation: runs one after the
\* other, their actions in order, and nothing written or sent beside.
KeepsPromise == Promise!Spec

-----------------------------------------------------------------------------
(* Claims of the documentation that the code does not keep                 *)

FailedAction(r) == r.actions[r.succeeded + 1]

\* action.md: send_email_to_me is "Send email to authenticated user", whose
\* "Email is auto-populated".  The schema drops the address, so no executor
\* finds it.  The claim: a send_email_to_me that parses is not refused.
EmailToMeSent ==
  \A m \in Message : \A i \in DOMAIN runs[m] :
    runs[m][i].status = "Failed" /\ runs[m][i].cause = "refused" =>
      FailedAction(runs[m][i]).type # "send_email_to_me"

\* Repository/README.md lists "deleted" among the actions its send-email is
\* supported for.  The claim: the message about the removal of a repository is
\* served as any other, when a workflow waited for it unchanged.
RemovalIsServed ==
  \A m \in Message : queue[m] = "acked" /\ Removal(m) => Served(m)

=============================================================================
