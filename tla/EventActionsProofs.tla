-------------------------- MODULE EventActionsProofs --------------------------
(***************************************************************************)
(* Theorems about EventActions for any workflows, messages, requests and   *)
(* faults: what the API stores, and what the handlers make of it.          *)
(***************************************************************************)
EXTENDS EventActions, SequenceTheorems, TLAPS

USE DEF userVars, queueVars, localVars, workerVars, lookupFrame, handlerFrame, executeFrame

-----------------------------------------------------------------------------
(* The schemas.                                                            *)

SchemaType == [must : SUBSET ConfigKey, may : SUBSET ConfigKey, default : SUBSET ConfigKey]

\* Every type a schema is there for has one, made of configuration keys.
LEMMA CreateSchemas ==
  /\ CreateTypes \subseteq ActionTypes
  /\ \A t \in CreateTypes : baseCreateActionSchema[t] \in SchemaType
  <1>1. CreateTypes \subseteq ActionTypes
    BY DEF CreateTypes, ActionTypes, Universal, PushTypes, IssuesTypes
  <1>2. ASSUME NEW t \in CreateTypes PROVE baseCreateActionSchema[t] \in SchemaType
    <2>1. \A must, may, default \in SUBSET ConfigKey : Keys(must, may, default) \in SchemaType
      BY DEF Keys, SchemaType
    <2>2. NoConfig \in SchemaType /\ Url \in SchemaType /\ Text \in SchemaType
          /\ Letter \in SchemaType /\ Addressed \in SchemaType
      BY <2>1 DEF NoConfig, Url, Text, Letter, Addressed, ConfigKey
    <2>3. RepositorySchema \in SchemaType /\ StarSchema \in SchemaType
      BY <2>1 DEF RepositorySchema, StarSchema, AddressedWith, ConfigKey
    <2>4. AboutPush \in SchemaType /\ AboutPushToMe \in SchemaType /\ ToWhoPushed \in SchemaType
      BY <2>1 DEF AboutPush, AboutPushToMe, ToWhoPushed, ConfigKey
    <2>5. \A p \in PushTypes : PushSchemas[p] \in SchemaType
      BY <2>4 DEF PushTypes, PushSchemas
    <2> QED
      BY <2>2, <2>3, <2>5 DEF baseCreateActionSchema, CreateTypes, Universal, PushTypes
  <1> QED
    BY <1>1, <1>2

\* The update schemas are the create schemas of the types that can be updated.
LEMMA UpdateSchemas ==
  /\ UpdateTypes \subseteq CreateTypes
  /\ \A t \in UpdateTypes : baseUpdateActionByIdSchema[t] = baseCreateActionSchema[t]
  <1>1. UpdateTypes \subseteq CreateTypes
    BY DEF UpdateTypes
  <1>2. ASSUME NEW t \in UpdateTypes
        PROVE  baseUpdateActionByIdSchema[t] = baseCreateActionSchema[t]
    BY <1>1 DEF UpdateTypes, CreateTypes, Universal, PushTypes, baseUpdateActionByIdSchema,
                baseCreateActionSchema
  <1> QED
    BY <1>1, <1>2

\* What parsing an action leaves parses again, to itself.
LEMMA ParsingSettles ==
  ASSUME NEW e, NEW a \in ActionRow, createActionSchemaByEventType(e, a)
  PROVE  /\ ParsedCreate(a) \in ActionRow
         /\ createActionSchemaByEventType(e, ParsedCreate(a))
         /\ ParsedCreate(ParsedCreate(a)) = ParsedCreate(a)
  <1> DEFINE s == baseCreateActionSchema[a.type]
  <1>1. a.type \in CreateTypes /\ s.must \subseteq a.config
        /\ a.type \in githubEventActionSupport[e]
    BY DEF createActionSchemaByEventType
  <1>2. s \in SchemaType
    BY <1>1, CreateSchemas
  <1> HIDE DEF s
  <1>3. a.type \in ActionTypes /\ a.config \subseteq ConfigKey
    BY DEF ActionRow
  <1>4. Kept(s, a.config) \subseteq ConfigKey /\ s.must \subseteq Kept(s, a.config)
        /\ Kept(s, Kept(s, a.config)) = Kept(s, a.config)
    BY <1>1, <1>2, <1>3 DEF Kept, SchemaType
  <1>5. ParsedCreate(a) = [a EXCEPT !.config = Kept(s, a.config)]
    BY DEF ParsedCreate, s
  <1>6. /\ ParsedCreate(a) \in ActionRow /\ ParsedCreate(a).type = a.type
        /\ ParsedCreate(a).config = Kept(s, a.config)
    BY <1>3, <1>4, <1>5 DEF ActionRow
  <1>7. createActionSchemaByEventType(e, ParsedCreate(a))
    BY <1>1, <1>4, <1>6 DEF createActionSchemaByEventType, s
  <1>8. ParsedCreate(ParsedCreate(a)) = [ParsedCreate(a) EXCEPT !.config = Kept(s, Kept(s, a.config))]
    BY <1>6 DEF ParsedCreate, s
  <1>9. ParsedCreate(ParsedCreate(a)) = ParsedCreate(a)
    BY <1>4, <1>6, <1>8 DEF ActionRow
  <1> QED
    BY <1>6, <1>7, <1>9

\* A row that may be updated to is one that may be created.
LEMMA UpdatesCreate ==
  ASSUME NEW e, NEW a \in ActionRow, updateActionSchemaByEventType(e, a)
  PROVE  createActionSchemaByEventType(e, a) /\ ParsedUpdate(a) = ParsedCreate(a)
  <1>1. a.type \in UpdateTypes
    BY DEF updateActionSchemaByEventType
  <1>2. /\ a.type \in CreateTypes
        /\ baseUpdateActionByIdSchema[a.type] = baseCreateActionSchema[a.type]
    BY <1>1, UpdateSchemas
  <1> QED
    BY <1>2 DEF updateActionSchemaByEventType, createActionSchemaByEventType, ParsedUpdate,
                ParsedCreate

-----------------------------------------------------------------------------
(* The scripts.                                                            *)

\* Whatever handler and action, the script is a sequence of the calls there are.
LEMMA Scripts ==
  ASSUME NEW e \in HandledEvent, NEW a \in ActionRow
  PROVE  executeSingleAction(e, a) \in Seq(Step)
  <1>1. \A s, t \in Seq(Step) : s \o t \in Seq(Step)
    OBVIOUS
  <1>2. \A step \in Step : <<step>> \in Seq(Step)
    OBVIOUS
  <1>3. <<>> \in Seq(Step) /\ Viewer \in Seq(Step) /\ NoViewer \in Seq(Step)
        /\ Refuse \in Seq(Step) /\ Done \in Seq(Step)
    BY <1>2 DEF Viewer, NoViewer, Refuse, Done, Step
  <1>4. /\ <<"publish">> \in Seq(Step) /\ <<"post">> \in Seq(Step) /\ <<"analyse">> \in Seq(Step)
        /\ <<"address", "publish">> \in Seq(Step)
    BY <1>2 DEF Step
  <1>5. ASSUME NEW key, NEW asks \in Seq(Step), a.type \in SharedTypes
        PROVE  SharedScript(a, key, asks) \in Seq(Step)
    <2> DEFINE with == If(key \in a.config, asks)
    <2>1. with \in Seq(Step)
      BY <1>3, <1>5 DEF If
    <2>2. /\ with \o <<"publish">> \in Seq(Step)
          /\ with \o (IF "email" \in a.config THEN <<"publish">> ELSE Refuse) \in Seq(Step)
          /\ asks \o <<"post">> \in Seq(Step)
      <3>1. (IF "email" \in a.config THEN <<"publish">> ELSE Refuse) \in Seq(Step)
        BY <1>3, <1>4
      <3> QED
        BY <1>1, <1>4, <1>5, <2>1, <3>1
    <2> HIDE DEF with
    <2>3. SharedScript(a, key, asks) =
            CASE a.type = "collect_viewer_data" -> asks
              [] a.type = "send_email" -> with \o <<"publish">>
              [] a.type = "send_email_to_me" ->
                   with \o (IF "email" \in a.config THEN <<"publish">> ELSE Refuse)
              [] a.type = "send_email_to_who_send_the_trigger" -> <<"address", "publish">>
              [] a.type = "webhook" -> asks \o <<"post">>
      BY DEF SharedScript, with
    <2>4. CASE a.type = "collect_viewer_data"
      BY <1>5, <2>3, <2>4
    <2>5. CASE a.type = "send_email"
      BY <2>2, <2>3, <2>5
    <2>6. CASE a.type = "send_email_to_me"
      BY <2>2, <2>3, <2>6
    <2>7. CASE a.type = "send_email_to_who_send_the_trigger"
      BY <1>4, <2>3, <2>7
    <2>8. CASE a.type = "webhook"
      BY <2>2, <2>3, <2>8
    <2> QED
      BY <1>5, <2>4, <2>5, <2>6, <2>7, <2>8 DEF SharedTypes
  <1>6. \A key : \A asks \in Seq(Step) : Lenient(a, key, asks) \in Seq(Step)
    BY <1>3, <1>5 DEF Lenient
  <1>7. \A key : Strict(a, key) \in Seq(Step)
    BY <1>3, <1>5 DEF Strict
  <1>8. Push_execute(a) \in Seq(Step)
    <2> DEFINE analyse(key) == If(key \in a.config, <<"analyse">>)
    <2>1. \A key : analyse(key) \in Seq(Step)
      BY <1>3, <1>4 DEF If
    <2>2. (IF "email" \in a.config THEN <<"publish">> ELSE Refuse) \in Seq(Step)
      BY <1>3, <1>4
    <2> HIDE DEF analyse
    <2>3. /\ analyse(Analytics) \o <<"publish">> \in Seq(Step)
          /\ analyse("AI_analytics") \o <<"publish">> \in Seq(Step)
          /\ analyse(Analytics) \o (IF "email" \in a.config THEN <<"publish">> ELSE Refuse)
               \in Seq(Step)
      BY <1>1, <1>4, <2>1, <2>2
    <2>4. Push_execute(a) =
            CASE a.type = "send_email" -> analyse(Analytics) \o <<"publish">>
              [] a.type = "send_email_to_me" ->
                   analyse(Analytics) \o
                   (IF "email" \in a.config THEN <<"publish">> ELSE Refuse)
              [] a.type = "send_email_to_who_push_the_commit" ->
                   analyse("AI_analytics") \o <<"publish">>
              [] a.type = "webhook" -> <<"post">>
              [] a.type = "analytics_data_by_AI" -> <<"analyse">>
              [] OTHER -> Refuse
      BY DEF Push_execute, analyse
    <2> QED
      BY <1>3, <1>4, <2>3, <2>4
  <1>9. Repository_execute(a) \in Seq(Step)
    BY <1>3, <1>4 DEF Repository_execute, If
  <1>10. /\ Fork_execute(a) \in Seq(Step) /\ Commit_comment_execute(a) \in Seq(Step)
         /\ Watch_execute(a) \in Seq(Step) /\ Create_execute(a) \in Seq(Step)
         /\ Issue_comment_execute(a) \in Seq(Step) /\ Label_execute(a) \in Seq(Step)
         /\ Pull_request_execute(a) \in Seq(Step) /\ Issues_execute(a) \in Seq(Step)
    BY <1>3, <1>6
    DEF Fork_execute, Commit_comment_execute, Watch_execute, Create_execute,
        Issue_comment_execute, Label_execute, Pull_request_execute, Issues_execute
  <1>11. /\ Star_execute(a) \in Seq(Step) /\ Workflow_run_execute(a) \in Seq(Step)
         /\ Workflow_job_execute(a) \in Seq(Step)
         /\ Pull_request_review_execute(a) \in Seq(Step)
    BY <1>3, <1>7
    DEF Star_execute, Workflow_run_execute, Workflow_job_execute, Pull_request_review_execute
  <1>12. Delete_execute(a) \in Seq(Step)
    BY <1>3, <1>5, <1>6 DEF Delete_execute, SharedTypes
  <1> HIDE DEF Step
  <1> QED
    BY <1>8, <1>9, <1>10, <1>11, <1>12 DEF executeSingleAction, HandledEvent, EventType


-----------------------------------------------------------------------------
(* Types, and where a handler can be.                                      *)

\* What the user's requests keep, and what the worker does.
UserTypes ==
  /\ known \in {"nothing", "connection", "repository"}
  /\ Rows # {} => known = "repository"
  /\ workflow \in [Workflow -> WorkflowRow \cup {Absent}]
  /\ actions \in [Workflow -> Seq(ActionRow)]
  /\ retyped \subseteq Workflow
  /\ edits \in 0..MaxEdits
  /\ request \in RequestType \cup {Absent}

QueueTypes ==
  /\ message \in [Message -> MessageType \cup {Absent}]
  /\ queue \in [Message -> {"unsent", "ready", "handled", "acked", "dead"}]
  /\ attempts \in [Message -> Nat]
  /\ due \in [Message -> SUBSET Workflow]
  /\ picked \in [Message -> SUBSET Workflow]
  /\ faults \in 0..MaxFaults

LocalTypes ==
  /\ place \in {"idle", "connection", "table", "workflow", "actions", "run",
                "begin", "execute", "finish", "fail"}
  /\ current \in Message \cup {None}
  /\ chosen \in Workflow \cup {None}
  /\ todo \in Seq(ActionRow)
  /\ at \in Nat
  /\ script \in Seq(Step)
  /\ viewer \in BOOLEAN
  /\ verdict \in {None, "refused", "unparsed", "threw"}

RunTypes ==
  /\ runs \in [Message -> Seq(Run)]
  /\ effects \subseteq
       [message : Message, run : Nat, step : Nat, call : {"publish", "post"}]

\* The four parts of the typing are the whole of it.
LEMMA Types == TypeOK <=> UserTypes /\ QueueTypes /\ LocalTypes /\ RunTypes
  BY DEF TypeOK, UserTypes, QueueTypes, LocalTypes, RunTypes

\* A request that awaits is about rows that are there, and only a workflow has
\* actions.
RequestInv ==
  /\ request # Absent =>
       /\ request.workflow \in Rows
       /\ request.kind = "update" => request.step \in DOMAIN actions[request.workflow]
  /\ \A w \in Workflow : w \notin Rows => actions[w] = <<>>

\* A message is there from when it is sent, and it is handled where `place'
\* says.
MessageInv ==
  /\ \A m \in Message : queue[m] = "unsent" => runs[m] = <<>>
  /\ \A m \in Message : queue[m] # "unsent" => message[m] \in MessageType
  /\ place # "idle" =>
       /\ current \in Message /\ queue[current] = "handled"
       /\ message[current].event \in Routed

\* How far the handler is, and what the last run of its message says of that.
HasChosen == {"actions", "run", "begin", "execute", "finish", "fail"}
Running   == {"begin", "execute", "finish", "fail"}

PlaceInv ==
  /\ place \in HasChosen => chosen \in Workflow
  /\ place = "run" => todo # <<>>
  /\ place \notin Running => at = 0
  /\ place \in Running =>
       /\ runs[current] # <<>>
       /\ runs[current][LastRun].status = "Running"
       /\ runs[current][LastRun].actions = todo
       /\ at = runs[current][LastRun].succeeded + 1
  /\ place \in Running \ {"finish"} => at \in DOMAIN todo
  /\ place = "fail" => verdict # None

HandlerInv == TypeOK /\ RequestInv /\ MessageInv /\ PlaceInv

\* Replacing a run of a message.
LEMMA OneRun ==
  ASSUME runs \in [Message -> Seq(Run)], NEW m \in Message, NEW i \in 1..Len(runs[m]),
         NEW r \in Run, runs' = [runs EXCEPT ![m] = [runs[m] EXCEPT ![i] = r]]
  PROVE  /\ runs' \in [Message -> Seq(Run)]
         /\ \A n \in Message : Len(runs'[n]) = Len(runs[n])
         /\ \A n \in Message : n # m => runs'[n] = runs[n]
         /\ \A k \in 1..Len(runs[m]) : k # i => runs'[m][k] = runs[m][k]
         /\ runs'[m][i] = r
  <1>1. runs[m] \in Seq(Run)
    OBVIOUS
  <1>2. /\ [runs[m] EXCEPT ![i] = r] \in Seq(Run)
        /\ Len([runs[m] EXCEPT ![i] = r]) = Len(runs[m])
        /\ [runs[m] EXCEPT ![i] = r][i] = r
        /\ \A k \in 1..Len(runs[m]) : k # i => [runs[m] EXCEPT ![i] = r][k] = runs[m][k]
    BY <1>1
  <1>3. runs'[m] = [runs[m] EXCEPT ![i] = r]
    OBVIOUS
  <1>4. runs' \in [Message -> Seq(Run)] /\ \A n \in Message : n # m => runs'[n] = runs[n]
    BY <1>2
  <1> QED
    BY <1>2, <1>3, <1>4

\* The end of a run.
LEMMA RunEnds ==
  ASSUME runs \in [Message -> Seq(Run)], current \in Message, runs[current] # <<>>,
         NEW status \in {"Succeeded", "Failed"},
         NEW cause \in {None, "refused", "unparsed", "threw"}, EndRun(status, cause)
  PROVE  /\ LastRun \in 1..Len(runs[current])
         /\ runs' \in [Message -> Seq(Run)]
         /\ \A n \in Message : Len(runs'[n]) = Len(runs[n])
         /\ \A n \in Message : n # current => runs'[n] = runs[n]
         /\ \A k \in 1..Len(runs[current]) : k # LastRun => runs'[current][k] = runs[current][k]
         /\ runs'[current][LastRun] =
              [runs[current][LastRun] EXCEPT !.status = status, !.cause = cause]
  <1> DEFINE r == [runs[current][LastRun] EXCEPT !.status = status, !.cause = cause]
  <1>1. runs[current] \in Seq(Run)
    OBVIOUS
  <1>2. LastRun \in 1..Len(runs[current]) /\ Len(runs[current]) > 0
    BY <1>1 DEF LastRun
  <1>3. runs[current][LastRun] \in Run
    BY <1>1, <1>2
  <1>4. r \in Run
    BY <1>3 DEF Run
  <1>5. runs' = [runs EXCEPT ![current] = [runs[current] EXCEPT ![LastRun] = r]]
    BY <1>2 DEF EndRun
  <1> HIDE DEF r
  <1>6. /\ runs' \in [Message -> Seq(Run)]
        /\ \A n \in Message : Len(runs'[n]) = Len(runs[n])
        /\ \A n \in Message : n # current => runs'[n] = runs[n]
        /\ \A k \in 1..Len(runs[current]) : k # LastRun => runs'[current][k] = runs[current][k]
        /\ runs'[current][LastRun] = r
    BY <1>2, <1>4, <1>5, OneRun
  <1> QED
    BY <1>2, <1>6 DEF r

\* What the user's steps keep, the schemas included.
ParsesInv ==
  /\ StoredActionsParse
  /\ request # Absent /\ request.workflow \notin retyped =>
       /\ createActionSchemaByEventType(workflow[request.workflow].event, request.action)
       /\ ParsedCreate(request.action) = request.action

UserInv == UserTypes /\ RequestInv /\ ParsesInv

\* With the rows gone there is nothing to keep.
LEMMA NothingLeft ==
  ASSUME workflow' = [w \in Workflow |-> Absent], actions' = [w \in Workflow |-> <<>>],
         retyped' = {}, request' = Absent, edits' \in 0..MaxEdits,
         known' \in {"nothing", "connection"}
  PROVE  UserTypes' /\ RequestInv' /\ ParsesInv' /\ Rows' = {}
  <1>1. Rows' = {}
    BY DEF Rows
  <1>2. <<>> \in Seq(ActionRow)
    OBVIOUS
  <1>3. actions' \in [Workflow -> Seq(ActionRow)] /\ \A w \in Workflow : actions'[w] = <<>>
    BY <1>2
  <1>4. UserTypes'
    BY <1>1, <1>3 DEF UserTypes
  <1>5. RequestInv'
    BY <1>3 DEF RequestInv
  <1>6. ParsesInv'
    BY <1>3 DEF ParsesInv, StoredActionsParse
  <1> QED
    BY <1>1, <1>4, <1>5, <1>6

\* A user's step keeps what is stored well typed and parseable, and leaves the
\* worker's variables alone.
LEMMA UserSteps ==
  ASSUME UserInv, due \in [Message -> SUBSET Workflow], User
  PROVE  UserInv' /\ due' \in [Message -> SUBSET Workflow] /\ UNCHANGED workerVars
  <1>1. /\ Absent \notin WorkflowRow /\ Absent \notin RequestType
        /\ MaxEdits \in Nat /\ Sent \subseteq ActionRow
    BY EventAssumption, AbsentAssumption DEF EventAssumption, AbsentAssumption
  <1>2. /\ known \in {"nothing", "connection", "repository"}
        /\ Rows # {} => known = "repository"
        /\ workflow \in [Workflow -> WorkflowRow \cup {Absent}]
        /\ actions \in [Workflow -> Seq(ActionRow)]
        /\ retyped \subseteq Workflow
        /\ edits \in 0..MaxEdits
        /\ request \in RequestType \cup {Absent}
    BY DEF UserInv, UserTypes
  <1>3. \A w \in Rows : w \in Workflow /\ workflow[w] \in WorkflowRow
    BY <1>2 DEF Rows
  <1>4. Edits => edits' \in 0..MaxEdits
    BY <1>1, <1>2 DEF Edits
  <1>5. ASSUME NEW w, Changed(w) PROVE due' \in [Message -> SUBSET Workflow]
    BY <1>5 DEF Changed
  <1>6. ASSUME NEW w \in Workflow, NEW e \in Event, NEW a \in EventAction,
               CreateWorkflow(w, e, a)
        PROVE  UserInv' /\ UNCHANGED <<due, workerVars>>
    <2> DEFINE row == [event |-> e, action |-> a, enabled |-> TRUE]
    <2>1. /\ known = "repository"
          /\ workflow[w] = Absent /\ workflow' = [workflow EXCEPT ![w] = row]
          /\ UNCHANGED <<known, actions, retyped, edits, request, due, workerVars>>
      BY <1>6 DEF CreateWorkflow
    <2>2. row \in WorkflowRow /\ row # Absent
      <3>1. row \in WorkflowRow
        BY DEF WorkflowRow
      <3> QED
        BY <1>1, <3>1
    <2> HIDE DEF row
    <2>3. /\ workflow' \in [Workflow -> WorkflowRow \cup {Absent}]
          /\ Rows' = Rows \cup {w} /\ w \notin Rows
          /\ \A v \in Workflow : v # w => workflow'[v] = workflow[v]
      BY <1>2, <2>1, <2>2 DEF Rows
    <2>4. actions[w] = <<>>
      BY <2>3 DEF UserInv, RequestInv
    <2>5. UserTypes' /\ RequestInv'
      BY <1>2, <2>1, <2>3 DEF UserInv, UserTypes, RequestInv
    <2>6. ParsesInv'
      <3>1. StoredActionsParse'
        BY <2>1, <2>3, <2>4 DEF UserInv, ParsesInv, StoredActionsParse
      <3>2. request # Absent => request.workflow \in Workflow /\ request.workflow # w
        BY <2>3 DEF UserInv, RequestInv, Rows
      <3> QED
        BY <2>1, <2>3, <3>1, <3>2 DEF UserInv, ParsesInv
    <2> QED
      BY <2>1, <2>5, <2>6 DEF UserInv
  <1>7. ASSUME NEW w \in Workflow, NEW e \in Event, UpdateEventType(w, e)
        PROVE  UserInv' /\ due' \in [Message -> SUBSET Workflow] /\ UNCHANGED workerVars
    <2>1. /\ w \in Rows /\ workflow' = [workflow EXCEPT ![w].event = e]
          /\ retyped' = retyped \cup {w} /\ Changed(w) /\ Edits
          /\ UNCHANGED <<known, actions, request, workerVars>>
      BY <1>7 DEF UpdateEventType
    <2>2. [workflow[w] EXCEPT !.event = e] \in WorkflowRow
      BY <1>3, <2>1 DEF WorkflowRow
    <2>3. /\ workflow' \in [Workflow -> WorkflowRow \cup {Absent}]
          /\ Rows' = Rows
          /\ \A v \in Workflow : v # w => workflow'[v] = workflow[v]
      BY <1>1, <1>2, <1>3, <2>1, <2>2 DEF Rows
    <2>4. UserTypes' /\ RequestInv'
      BY <1>2, <1>4, <2>1, <2>3 DEF UserInv, UserTypes, RequestInv
    <2>5. ParsesInv'
      <3>1. StoredActionsParse'
        BY <2>1, <2>3 DEF UserInv, ParsesInv, StoredActionsParse
      <3>2. request # Absent => request.workflow \in Workflow
        BY DEF UserInv, RequestInv, Rows
      <3> QED
        BY <2>1, <2>3, <3>1, <3>2 DEF UserInv, ParsesInv
    <2> QED
      BY <1>5, <2>1, <2>4, <2>5 DEF UserInv
  <1>8. ASSUME NEW w \in Workflow, UpdateEnabled(w)
        PROVE  UserInv' /\ due' \in [Message -> SUBSET Workflow] /\ UNCHANGED workerVars
    <2>1. /\ w \in Rows /\ workflow' = [workflow EXCEPT ![w].enabled = ~@]
          /\ Changed(w) /\ Edits
          /\ UNCHANGED <<known, actions, retyped, request, workerVars>>
      BY <1>8 DEF UpdateEnabled
    <2>2. [workflow[w] EXCEPT !.enabled = ~@] \in WorkflowRow
      BY <1>3, <2>1 DEF WorkflowRow
    <2>3. [workflow[w] EXCEPT !.enabled = ~@].event = workflow[w].event
      BY <1>3, <2>1 DEF WorkflowRow
    <2>4. /\ workflow' \in [Workflow -> WorkflowRow \cup {Absent}]
          /\ Rows' = Rows
          /\ \A v \in Workflow : v # w => workflow'[v] = workflow[v]
          /\ workflow'[w].event = workflow[w].event
      BY <1>1, <1>2, <1>3, <2>1, <2>2, <2>3 DEF Rows
    <2>5. UserTypes' /\ RequestInv'
      BY <1>2, <1>4, <2>1, <2>4 DEF UserInv, UserTypes, RequestInv
    <2>6. ParsesInv'
      <3>1. \A v \in Workflow : workflow'[v].event = workflow[v].event
        BY <2>4
      <3>2. StoredActionsParse'
        BY <2>1, <3>1 DEF UserInv, ParsesInv, StoredActionsParse
      <3>3. request # Absent => request.workflow \in Workflow
        BY DEF UserInv, RequestInv, Rows
      <3> QED
        BY <2>1, <3>1, <3>2, <3>3 DEF UserInv, ParsesInv
    <2> QED
      BY <1>5, <2>1, <2>5, <2>6 DEF UserInv
  <1>9. ASSUME NEW w \in Workflow, NEW a \in Sent, CreateActionReads(w, a)
        PROVE  UserInv' /\ UNCHANGED <<due, workerVars>>
    <2> DEFINE r == [kind |-> "create", workflow |-> w, step |-> Len(actions[w]) + 1,
                     action |-> ParsedCreate(a)]
    <2>1. /\ w \in Rows /\ request' = r
          /\ createActionSchemaByEventType(workflow[w].event, a)
          /\ UNCHANGED <<known, workflow, actions, retyped, edits, due, workerVars>>
      BY <1>9 DEF CreateActionReads
    <2>2. /\ ParsedCreate(a) \in ActionRow
          /\ createActionSchemaByEventType(workflow[w].event, ParsedCreate(a))
          /\ ParsedCreate(ParsedCreate(a)) = ParsedCreate(a)
      BY <1>1, <2>1, ParsingSettles
    <2>3. Len(actions[w]) + 1 \in Nat
      BY <1>2
    <2>4. /\ r \in RequestType /\ r.workflow = w /\ r.kind = "create"
          /\ r.action = ParsedCreate(a)
      BY <2>2, <2>3 DEF RequestType
    <2> HIDE DEF r
    <2>5. UserTypes' /\ RequestInv'
      BY <1>2, <2>1, <2>4 DEF UserInv, UserTypes, RequestInv, Rows
    <2>6. ParsesInv'
      BY <2>1, <2>2, <2>4 DEF UserInv, ParsesInv, StoredActionsParse
    <2> QED
      BY <2>1, <2>5, <2>6 DEF UserInv
  <1>10. ASSUME NEW w \in Workflow, NEW i \in 1..MaxActions, NEW a \in Sent,
                UpdateActionReads(w, i, a)
         PROVE  UserInv' /\ UNCHANGED <<due, workerVars>>
    <2> DEFINE r == [kind |-> "update", workflow |-> w, step |-> i, action |-> ParsedUpdate(a)]
    <2>1. /\ w \in Rows /\ request' = r /\ i \in DOMAIN actions[w] /\ Edits
          /\ updateActionSchemaByEventType(workflow[w].event, a)
          /\ UNCHANGED <<known, workflow, actions, retyped, due, workerVars>>
      BY <1>10 DEF UpdateActionReads
    <2>2. createActionSchemaByEventType(workflow[w].event, a) /\ ParsedUpdate(a) = ParsedCreate(a)
      BY <1>1, <2>1, UpdatesCreate
    <2>3. /\ ParsedUpdate(a) \in ActionRow
          /\ createActionSchemaByEventType(workflow[w].event, ParsedUpdate(a))
          /\ ParsedCreate(ParsedUpdate(a)) = ParsedUpdate(a)
      BY <1>1, <2>2, ParsingSettles
    <2>4. /\ r \in RequestType /\ r.workflow = w /\ r.step = i /\ r.action = ParsedUpdate(a)
      BY <2>3 DEF RequestType
    <2> HIDE DEF r
    <2>5. UserTypes' /\ RequestInv'
      BY <1>2, <1>4, <2>1, <2>4 DEF UserInv, UserTypes, RequestInv, Rows
    <2>6. ParsesInv'
      BY <2>1, <2>3, <2>4 DEF UserInv, ParsesInv, StoredActionsParse
    <2> QED
      BY <2>1, <2>5, <2>6 DEF UserInv
  <1>11. CASE CreateActionWrites
    <2>1. /\ request # Absent /\ request' = Absent /\ Changed(request.workflow)
          /\ actions' = [actions EXCEPT ![request.workflow] = Append(@, request.action)]
          /\ UNCHANGED <<known, workflow, retyped, edits, workerVars>>
      BY <1>11 DEF CreateActionWrites
    <2>2. request.workflow \in Rows /\ request.workflow \in Workflow /\ request.action \in ActionRow
      BY <1>2, <2>1 DEF UserInv, RequestInv, RequestType, Rows
    <2> DEFINE w == request.workflow
               s == Append(actions[w], request.action)
    <2>3. /\ actions[w] \in Seq(ActionRow) /\ s \in Seq(ActionRow)
          /\ \A k \in DOMAIN s : \/ k \in DOMAIN actions[w] /\ s[k] = actions[w][k]
                                 \/ s[k] = request.action
      BY <1>2, <2>2
    <2>4. actions' = [actions EXCEPT ![w] = s]
      BY <2>1
    <2> HIDE DEF w, s
    <2>5. w \in Rows /\ w \in Workflow
      BY <2>2 DEF w
    <2>6. /\ actions' \in [Workflow -> Seq(ActionRow)] /\ actions'[w] = s
          /\ \A v \in Workflow : v # w => actions'[v] = actions[v]
      BY <1>2, <2>3, <2>4, <2>5
    <2>7. Rows' = Rows
      BY <2>1 DEF Rows
    <2>8. UserTypes' /\ RequestInv'
      BY <1>2, <2>1, <2>5, <2>6, <2>7 DEF UserInv, UserTypes, RequestInv
    <2>9. ParsesInv'
      <3>1. ASSUME NEW v \in Workflow \ retyped, NEW k \in DOMAIN actions'[v]
            PROVE  /\ createActionSchemaByEventType(workflow[v].event, actions'[v][k])
                   /\ ParsedCreate(actions'[v][k]) = actions'[v][k]
        BY <2>1, <2>3, <2>6 DEF UserInv, ParsesInv, StoredActionsParse, w
      <3> QED
        BY <2>1, <3>1 DEF ParsesInv, StoredActionsParse
    <2> QED
      BY <1>5, <2>1, <2>8, <2>9 DEF UserInv
  <1>12. CASE UpdateActionWrites
    <2>1. /\ request # Absent /\ request' = Absent /\ Changed(request.workflow)
          /\ request.kind = "update"
          /\ actions' = [actions EXCEPT ![request.workflow][request.step] = request.action]
          /\ UNCHANGED <<known, workflow, retyped, edits, workerVars>>
      BY <1>12 DEF UpdateActionWrites
    <2>2. /\ request.workflow \in Rows /\ request.workflow \in Workflow
          /\ request.action \in ActionRow
          /\ request.step \in DOMAIN actions[request.workflow]
      BY <1>2, <2>1 DEF UserInv, RequestInv, RequestType, Rows
    <2> DEFINE w == request.workflow
               s == [actions[w] EXCEPT ![request.step] = request.action]
    <2>3. /\ actions[w] \in Seq(ActionRow) /\ s \in Seq(ActionRow)
          /\ \A k \in DOMAIN s : \/ k \in DOMAIN actions[w] /\ s[k] = actions[w][k]
                                 \/ s[k] = request.action
      BY <1>2, <2>2
    <2>4. actions' = [actions EXCEPT ![w] = s]
      BY <2>1
    <2> HIDE DEF w, s
    <2>5. w \in Rows /\ w \in Workflow
      BY <2>2 DEF w
    <2>6. /\ actions' \in [Workflow -> Seq(ActionRow)] /\ actions'[w] = s
          /\ \A v \in Workflow : v # w => actions'[v] = actions[v]
      BY <1>2, <2>3, <2>4, <2>5
    <2>7. Rows' = Rows
      BY <2>1 DEF Rows
    <2>8. UserTypes' /\ RequestInv'
      BY <1>2, <2>1, <2>5, <2>6, <2>7 DEF UserInv, UserTypes, RequestInv
    <2>9. ParsesInv'
      <3>1. ASSUME NEW v \in Workflow \ retyped, NEW k \in DOMAIN actions'[v]
            PROVE  /\ createActionSchemaByEventType(workflow[v].event, actions'[v][k])
                   /\ ParsedCreate(actions'[v][k]) = actions'[v][k]
        BY <2>1, <2>3, <2>6 DEF UserInv, ParsesInv, StoredActionsParse, w
      <3> QED
        BY <2>1, <3>1 DEF ParsesInv, StoredActionsParse
    <2> QED
      BY <1>5, <2>1, <2>8, <2>9 DEF UserInv
  <1>13. CASE Uninstall
    <2>1. /\ Edits /\ known' = "nothing" /\ request' = Absent /\ retyped' = {}
          /\ workflow' = [w \in Workflow |-> Absent] /\ actions' = [w \in Workflow |-> <<>>]
          /\ due' = [m \in Message |-> {}]
          /\ UNCHANGED workerVars
      BY <1>13 DEF Uninstall, Cascade
    <2>2. UserTypes' /\ RequestInv' /\ ParsesInv'
      BY <1>4, <2>1, NothingLeft
    <2> QED
      BY <2>1, <2>2 DEF UserInv
  <1> QED
    BY <1>6, <1>7, <1>8, <1>9, <1>10, <1>11, <1>12, <1>13 DEF User

-----------------------------------------------------------------------------
(* The worker keeps its types and its place.                               *)

WorkerInv == QueueTypes /\ LocalTypes /\ RunTypes /\ MessageInv /\ PlaceInv

\* The handler goes on with its message and the run it is at.
LEMMA GoesOn ==
  ASSUME WorkerInv, place # "idle", place' # "idle",
         UNCHANGED <<message, attempts, due, queue, current, runs>>,
         picked' \in [Message -> SUBSET Workflow], faults' \in 0..MaxFaults,
         LocalTypes', PlaceInv',
         effects' \subseteq
           [message : Message, run : Nat, step : Nat, call : {"publish", "post"}]
  PROVE  WorkerInv'
  <1>1. QueueTypes'
    BY DEF WorkerInv, QueueTypes
  <1>2. RunTypes'
    BY DEF WorkerInv, RunTypes
  <1>3. MessageInv'
    BY DEF WorkerInv, MessageInv
  <1> QED
    BY <1>1, <1>2, <1>3 DEF WorkerInv

\* The handler answers for its message.
LEMMA Settles ==
  ASSUME WorkerInv, place # "idle", NEW outcome \in {"ready", "acked", "dead"},
         Settle(outcome), UNCHANGED <<message, attempts, due, picked, effects>>,
         faults' \in 0..MaxFaults, runs' \in [Message -> Seq(Run)],
         \A n \in Message : n # current => runs'[n] = runs[n]
  PROVE  WorkerInv'
  <1>1. /\ current \in Message /\ queue \in [Message -> {"unsent", "ready", "handled", "acked", "dead"}]
        /\ queue[current] = "handled"
    BY DEF WorkerInv, QueueTypes, MessageInv
  <1>2. /\ queue' \in [Message -> {"unsent", "ready", "handled", "acked", "dead"}]
        /\ queue'[current] # "unsent"
        /\ \A n \in Message : n # current => queue'[n] = queue[n]
    BY <1>1 DEF Settle
  <1>3. /\ place' = "idle" /\ current' = None /\ chosen' = None /\ todo' = <<>> /\ at' = 0
        /\ script' = <<>> /\ viewer' = FALSE /\ verdict' = None
    BY DEF Settle
  <1>4. LocalTypes'
    <2>1. todo' \in Seq(ActionRow) /\ script' \in Seq(Step)
      BY <1>3
    <2>2. at' \in Nat
      BY <1>3
    <2> QED
      BY <1>3, <2>1, <2>2 DEF LocalTypes
  <1>5. QueueTypes' /\ RunTypes'
    BY <1>2 DEF WorkerInv, QueueTypes, RunTypes
  <1>6. MessageInv'
    BY <1>1, <1>2, <1>3 DEF WorkerInv, MessageInv
  <1>7. PlaceInv'
    BY <1>3 DEF PlaceInv, HasChosen, Running
  <1> QED
    BY <1>4, <1>5, <1>6, <1>7 DEF WorkerInv

\* A message is sent, and handed to its handler.
LEMMA QueueSteps ==
  ASSUME WorkerInv,
         \/ \E m \in Message, e \in Event, a \in EventAction \cup {Null}, attached \in BOOLEAN :
              GitHubSends(m, e, a, attached)
         \/ \E m \in Message : Deliver(m)
  PROVE  WorkerInv' /\ UNCHANGED <<userVars, runs, effects, picked>>
  <1>1. CASE \E m \in Message, e \in Event, a \in EventAction \cup {Null}, attached \in BOOLEAN :
               GitHubSends(m, e, a, attached)
    <2>1. PICK m \in Message, e \in Event, a \in EventAction \cup {Null}, attached \in BOOLEAN :
            GitHubSends(m, e, a, attached)
      BY <1>1
    <2> DEFINE new == [event |-> e, action |-> a, attached |-> attached]
    <2>2. new \in MessageType
      BY DEF MessageType
    <2>3. /\ queue[m] = "unsent"
          /\ message' = [message EXCEPT ![m] = new] /\ queue' = [queue EXCEPT ![m] = "ready"]
          /\ due' = [due EXCEPT ![m] = IF attached THEN Expecting(e, a) ELSE {}]
          /\ UNCHANGED <<userVars, attempts, place, localVars, runs, effects, picked, faults>>
      BY <2>1 DEF GitHubSends
    <2> HIDE DEF new
    <2>4. Expecting(e, a) \in SUBSET Workflow
      BY DEF Expecting, Rows
    <2>5. QueueTypes'
      BY <2>2, <2>3, <2>4 DEF WorkerInv, QueueTypes
    <2>6. MessageInv'
      <3>1. place # "idle" => current # m /\ current \in Message
        BY <2>3 DEF WorkerInv, MessageInv
      <3>2. /\ \A n \in Message : n # m => queue'[n] = queue[n] /\ message'[n] = message[n]
            /\ queue'[m] = "ready" /\ message'[m] = new
        BY <2>3 DEF WorkerInv, QueueTypes
      <3> QED
        BY <2>2, <2>3, <3>1, <3>2 DEF WorkerInv, MessageInv
    <2> QED
      BY <2>3, <2>5, <2>6 DEF WorkerInv, LocalTypes, RunTypes, PlaceInv, LastRun
  <1>2. CASE \E m \in Message : Deliver(m)
    <2>1. PICK m \in Message : Deliver(m)
      BY <1>2
    <2>2. /\ place = "idle" /\ queue[m] = "ready"
          /\ attempts' = [attempts EXCEPT ![m] = @ + 1]
          /\ UNCHANGED <<userVars, message, chosen, todo, at, script, viewer, verdict,
                         runs, effects, due, picked, faults>>
      BY <2>1 DEF Deliver
    <2>3. CASE Starts(m)
      <3>1. /\ queue' = [queue EXCEPT ![m] = "handled"] /\ current' = m
            /\ place' \in {"connection", "workflow"}
        BY <2>1, <2>3 DEF Deliver
      <3>2. QueueTypes'
        BY <2>2, <3>1 DEF WorkerInv, QueueTypes
      <3>3. LocalTypes' /\ RunTypes'
        BY <2>2, <3>1 DEF WorkerInv, LocalTypes, RunTypes
      <3>4. MessageInv'
        BY <2>2, <2>3, <3>1 DEF WorkerInv, MessageInv, QueueTypes, Starts
      <3>5. PlaceInv'
        BY <2>2, <3>1 DEF WorkerInv, PlaceInv, HasChosen, Running
      <3> QED
        BY <2>2, <3>2, <3>3, <3>4, <3>5 DEF WorkerInv
    <2>4. CASE ~Starts(m)
      <3>1. queue' = [queue EXCEPT ![m] = "acked"] /\ UNCHANGED <<place, current>>
        BY <2>1, <2>4 DEF Deliver
      <3>2. QueueTypes'
        BY <2>2, <3>1 DEF WorkerInv, QueueTypes
      <3>3. LocalTypes' /\ RunTypes'
        BY <2>2, <3>1 DEF WorkerInv, LocalTypes, RunTypes
      <3>4. MessageInv'
        BY <2>2, <3>1 DEF WorkerInv, MessageInv, QueueTypes
      <3>5. PlaceInv'
        BY <2>2, <3>1 DEF WorkerInv, PlaceInv, HasChosen, Running
      <3> QED
        BY <2>2, <3>2, <3>3, <3>4, <3>5 DEF WorkerInv
    <2> QED
      BY <2>3, <2>4
  <1> QED
    BY <1>1, <1>2

\* The run a handler is at, while it is at one.
LEMMA TheRun ==
  ASSUME WorkerInv, place \in Running
  PROVE  /\ current \in Message /\ runs[current] \in Seq(Run) /\ runs[current] # <<>>
         /\ LastRun \in 1..Len(runs[current]) /\ LastRun \in Nat
         /\ runs[current][LastRun] \in Run
         /\ runs[current][LastRun].actions = todo
         /\ runs[current][LastRun].status = "Running"
         /\ at = runs[current][LastRun].succeeded + 1
         /\ place # "finish" => at \in DOMAIN todo
  <1>1. /\ current \in Message /\ runs[current] \in Seq(Run) /\ runs[current] # <<>>
        /\ runs[current][LastRun].actions = todo
        /\ runs[current][LastRun].status = "Running"
        /\ at = runs[current][LastRun].succeeded + 1
        /\ place # "finish" => at \in DOMAIN todo
    BY DEF WorkerInv, MessageInv, RunTypes, PlaceInv, Running
  <1>2. LastRun \in 1..Len(runs[current]) /\ LastRun \in Nat
    BY <1>1 DEF LastRun
  <1>3. runs[current][LastRun] \in Run
    BY <1>1, <1>2
  <1> QED
    BY <1>1, <1>2, <1>3

\* Lookups: of the workflow, its actions, and the row of the run.
LEMMA LookupSteps ==
  ASSUME UserTypes, WorkerInv,
         FindWorkflow \/ FindNoWorkflow \/ FindActions \/ FindNoActions \/ CreateRun
  PROVE  WorkerInv'
  <1>1. /\ QueueTypes /\ LocalTypes /\ RunTypes /\ MessageInv /\ PlaceInv
    BY DEF WorkerInv
  <1>2. CASE FindWorkflow
    <2>1. PICK w \in Rows : /\ chosen' = w
                            /\ picked' = [picked EXCEPT ![current] = @ \cup {w}]
      BY <1>2 DEF FindWorkflow
    <2>2. /\ place = "workflow" /\ place' = "actions"
          /\ UNCHANGED <<lookupFrame, queue, current, todo, at, script, viewer, verdict,
                         runs, effects, faults>>
      BY <1>2 DEF FindWorkflow
    <2>3. w \in Workflow
      BY DEF Rows
    <2>4. LocalTypes'
      BY <1>1, <2>1, <2>2, <2>3 DEF LocalTypes
    <2>5. PlaceInv'
      BY <1>1, <2>1, <2>2, <2>3 DEF PlaceInv, HasChosen, Running
    <2>6. picked' \in [Message -> SUBSET Workflow] /\ faults' \in 0..MaxFaults
      BY <1>1, <2>1, <2>2, <2>3 DEF QueueTypes
    <2>7. effects' \subseteq
            [message : Message, run : Nat, step : Nat, call : {"publish", "post"}]
      BY <1>1, <2>2 DEF RunTypes
    <2>8. place # "idle" /\ place' # "idle"
          /\ UNCHANGED <<message, attempts, due, queue, current, runs>>
      BY <2>2
    <2> QED
      BY <2>4, <2>5, <2>6, <2>7, <2>8, GoesOn
  <1>3. CASE FindNoWorkflow \/ FindNoActions
    <2>1. /\ place # "idle" /\ Settle("acked") /\ UNCHANGED <<handlerFrame, runs, effects, faults>>
      BY <1>3 DEF FindNoWorkflow, FindNoActions
    <2>2. faults' \in 0..MaxFaults /\ runs' \in [Message -> Seq(Run)]
      BY <1>1, <2>1 DEF QueueTypes, RunTypes
    <2> QED
      BY <2>1, <2>2, Settles
  <1>4. CASE FindActions
    <2>1. /\ place = "actions" /\ place' = "run" /\ todo' = actions[chosen]
          /\ actions[chosen] # <<>>
          /\ UNCHANGED <<handlerFrame, queue, current, chosen, at, script, viewer, verdict,
                         runs, effects, faults>>
      BY <1>4 DEF FindActions
    <2>2. chosen \in Workflow
      BY <1>1, <2>1 DEF PlaceInv, HasChosen
    <2>3. actions[chosen] \in Seq(ActionRow)
      BY <2>2 DEF UserTypes
    <2>4. LocalTypes'
      BY <1>1, <2>1, <2>3 DEF LocalTypes
    <2>5. PlaceInv'
      BY <1>1, <2>1, <2>2 DEF PlaceInv, HasChosen, Running
    <2>6. picked' \in [Message -> SUBSET Workflow] /\ faults' \in 0..MaxFaults
      BY <1>1, <2>1 DEF QueueTypes
    <2>7. effects' \subseteq
            [message : Message, run : Nat, step : Nat, call : {"publish", "post"}]
      BY <1>1, <2>1 DEF RunTypes
    <2>8. place # "idle" /\ place' # "idle"
          /\ UNCHANGED <<message, attempts, due, queue, current, runs>>
      BY <2>1
    <2> QED
      BY <2>4, <2>5, <2>6, <2>7, <2>8, GoesOn
  <1>5. CASE CreateRun
    <2> DEFINE new == [workflow |-> chosen, actions |-> todo, succeeded |-> 0,
                       status |-> "Running", cause |-> None]
    <2>1. /\ place = "run" /\ runs' = [runs EXCEPT ![current] = Append(@, new)]
          /\ at' = 1 /\ place' = "begin"
          /\ UNCHANGED <<handlerFrame, queue, current, chosen, todo, script, viewer, verdict,
                         effects, faults>>
      BY <1>5 DEF CreateRun
    <2>2. /\ chosen \in Workflow /\ todo \in Seq(ActionRow) /\ todo # <<>>
          /\ current \in Message
      BY <1>1, <2>1 DEF PlaceInv, HasChosen, LocalTypes, MessageInv
    <2>3. /\ new \in Run /\ new.status = "Running" /\ new.actions = todo /\ new.succeeded = 0
      BY <2>2 DEF Run
    <2> HIDE DEF new
    <2>4. runs[current] \in Seq(Run)
      BY <1>1, <2>2 DEF RunTypes
    <2>5. /\ Append(runs[current], new) \in Seq(Run)
          /\ Len(Append(runs[current], new)) = Len(runs[current]) + 1
          /\ Append(runs[current], new)[Len(runs[current]) + 1] = new
          /\ Append(runs[current], new) # <<>>
      BY <2>3, <2>4
    <2>6. /\ runs' \in [Message -> Seq(Run)] /\ runs'[current] = Append(runs[current], new)
          /\ \A n \in Message : n # current => runs'[n] = runs[n]
      BY <1>1, <2>1, <2>2, <2>5 DEF RunTypes
    <2>7. LastRun' = Len(runs[current]) + 1 /\ current' = current
      BY <2>1, <2>5, <2>6 DEF LastRun
    <2>8. 1 \in DOMAIN todo
      BY <2>2
    <2>9. PlaceInv'
      <3>1. runs'[current'] # <<>> /\ runs'[current'][LastRun'] = new
        BY <2>5, <2>6, <2>7
      <3>2. /\ new.status = "Running" /\ new.actions = todo'
            /\ at' = new.succeeded + 1
        BY <2>1, <2>3
      <3> QED
        BY <2>1, <2>2, <2>8, <3>1, <3>2 DEF PlaceInv, HasChosen, Running
    <2>10. QueueTypes' /\ LocalTypes' /\ RunTypes'
      BY <1>1, <2>1, <2>6 DEF QueueTypes, LocalTypes, RunTypes
    <2>11. MessageInv'
      BY <1>1, <2>1, <2>6 DEF MessageInv
    <2> QED
      BY <2>9, <2>10, <2>11 DEF WorkerInv
  <1> QED
    BY <1>2, <1>3, <1>4, <1>5

\* What every step of the executor leaves alone, and what it may do.
ExecutorStep ==
  BeginAction \/ LoadViewer \/ Ask("address") \/ Ask("analyse") \/ AnswerRefusal
    \/ Publish \/ Post \/ CallThrows

LEMMA ExecutorSteps ==
  ASSUME WorkerInv, ExecutorStep
  PROVE  /\ place \in {"begin", "execute"} /\ place' \in {"execute", "fail"}
         /\ UNCHANGED <<userVars, message, attempts, due, picked, queue, current, chosen,
                        todo, at, runs>>
         /\ effects \subseteq effects'
         /\ effects' \subseteq effects \cup {Effect("publish"), Effect("post")}
         /\ script' \in Seq(Step) /\ viewer' \in BOOLEAN
         /\ verdict' \in {None, "refused", "unparsed", "threw"}
         /\ place' = "fail" => verdict' # None
         /\ faults' \in 0..MaxFaults
  <1>1. /\ script \in Seq(Step) /\ viewer \in BOOLEAN
        /\ verdict \in {None, "refused", "unparsed", "threw"}
        /\ faults \in 0..MaxFaults /\ MaxFaults \in Nat
        /\ todo \in Seq(ActionRow)
    BY EventAssumption DEF WorkerInv, LocalTypes, QueueTypes, EventAssumption
  <1>2. script # <<>> => Tail(script) \in Seq(Step)
    BY <1>1
  <1>3. CASE BeginAction
    <2>1. /\ place = "begin"
          /\ UNCHANGED <<handlerFrame, queue, current, chosen, todo, at, viewer,
                         runs, effects, faults>>
      BY <1>3 DEF BeginAction
    <2>2. CASE createActionSchemaByEventType(TheEvent, todo[at])
      <3>1. /\ script' = executeSingleAction(TheEvent, ParsedCreate(todo[at]))
            /\ place' = "execute" /\ verdict' = verdict
        BY <1>3, <2>2 DEF BeginAction
      <3>2. todo[at] \in ActionRow
        BY <1>1, <2>1, TheRun DEF Running
      <3>3. ParsedCreate(todo[at]) \in ActionRow
        BY <2>2, <3>2, ParsingSettles
      <3>4. TheEvent \in HandledEvent
        <4>1. message[current] \in MessageType
          BY <2>1 DEF WorkerInv, MessageInv
        <4> QED
          BY <4>1, EventAssumption DEF MessageType, TheEvent, EventAssumption
      <3>5. script' \in Seq(Step)
        BY <3>1, <3>3, <3>4, Scripts
      <3> QED
        BY <1>1, <2>1, <3>1, <3>5
    <2>3. CASE ~createActionSchemaByEventType(TheEvent, todo[at])
      <3>1. verdict' = "unparsed" /\ place' = "fail" /\ script' = script
        BY <1>3, <2>3 DEF BeginAction
      <3> QED
        BY <1>1, <2>1, <3>1 DEF None
    <2> QED
      BY <2>2, <2>3
  <1>4. CASE LoadViewer
    <2>1. /\ place = "execute" /\ script # <<>> /\ UNCHANGED <<executeFrame, effects, faults>>
      BY <1>4 DEF LoadViewer, Calls
    <2>2. \/ viewer' = TRUE /\ script' = Tail(script) /\ UNCHANGED <<place, verdict>>
          \/ verdict' = "refused" /\ place' = "fail" /\ UNCHANGED <<viewer, script>>
      BY <1>4 DEF LoadViewer, Fails
    <2> QED
      BY <1>1, <1>2, <2>1, <2>2 DEF None
  <1>5. CASE Ask("address") \/ Ask("analyse")
    <2>1. /\ place = "execute" /\ script # <<>> /\ UNCHANGED <<executeFrame, viewer, effects, faults>>
      BY <1>5 DEF Ask, Calls
    <2>2. \/ script' = Tail(script) /\ UNCHANGED <<place, verdict>>
          \/ verdict' = "refused" /\ place' = "fail" /\ UNCHANGED script
      BY <1>5 DEF Ask, Fails
    <2> QED
      BY <1>1, <1>2, <2>1, <2>2 DEF None
  <1>6. CASE AnswerRefusal
    <2>1. /\ place = "execute" /\ script # <<>>
          /\ UNCHANGED <<executeFrame, script, viewer, effects, faults>>
          /\ verdict' = "refused" /\ place' = "fail"
      BY <1>6 DEF AnswerRefusal, Calls, Fails
    <2> QED
      BY <1>1, <2>1 DEF None
  <1>7. CASE Publish
    <2>1. /\ place = "execute" /\ script # <<>> /\ script' = Tail(script)
          /\ effects' = effects \cup {Effect("publish")}
          /\ UNCHANGED <<executeFrame, place, viewer, verdict, faults>>
      BY <1>7 DEF Publish, Calls
    <2> QED
      BY <1>1, <1>2, <2>1
  <1>8. CASE Post
    <2>1. /\ place = "execute" /\ script # <<>>
          /\ effects' = effects \cup {Effect("post")}
          /\ UNCHANGED <<executeFrame, viewer, faults>>
      BY <1>8 DEF Post, Calls
    <2>2. \/ script' = Tail(script) /\ UNCHANGED <<place, verdict>>
          \/ verdict' = "refused" /\ place' = "fail" /\ UNCHANGED script
      BY <1>8 DEF Post, Fails
    <2> QED
      BY <1>1, <1>2, <2>1, <2>2 DEF None
  <1>9. CASE CallThrows
    <2>1. /\ place = "execute" /\ faults < MaxFaults /\ faults' = faults + 1
          /\ effects \subseteq effects'
          /\ effects' \subseteq effects \cup {Effect("publish"), Effect("post")}
          /\ verdict' = "threw" /\ place' = "fail"
          /\ UNCHANGED <<executeFrame, script, viewer>>
      BY <1>9 DEF CallThrows, Calls
    <2>2. faults' \in 0..MaxFaults
      BY <1>1, <2>1
    <2> QED
      BY <1>1, <2>1, <2>2 DEF None
  <1> QED
    BY <1>3, <1>4, <1>5, <1>6, <1>7, <1>8, <1>9 DEF ExecutorStep

\* The executor keeps the types and the places.
LEMMA ExecutorTyping ==
  ASSUME WorkerInv, ExecutorStep
  PROVE  WorkerInv'
  <1>1. /\ place \in {"begin", "execute"} /\ place' \in {"execute", "fail"}
        /\ UNCHANGED <<userVars, message, attempts, due, picked, queue, current, chosen,
                       todo, at, runs>>
        /\ effects' \subseteq effects \cup {Effect("publish"), Effect("post")}
        /\ script' \in Seq(Step) /\ viewer' \in BOOLEAN
        /\ verdict' \in {None, "refused", "unparsed", "threw"}
        /\ place' = "fail" => verdict' # None
        /\ faults' \in 0..MaxFaults
    BY ExecutorSteps
  <1>2. LocalTypes /\ RunTypes /\ PlaceInv /\ QueueTypes
    BY DEF WorkerInv
  <1>3. LocalTypes'
    BY <1>1, <1>2 DEF LocalTypes
  <1>4. PlaceInv'
    <2>1. /\ chosen \in Workflow /\ runs[current] # <<>>
          /\ runs[current][LastRun].status = "Running"
          /\ runs[current][LastRun].actions = todo
          /\ at = runs[current][LastRun].succeeded + 1
          /\ at \in DOMAIN todo
      BY <1>1, <1>2 DEF PlaceInv, HasChosen, Running
    <2>2. LastRun' = LastRun
      BY <1>1 DEF LastRun
    <2> QED
      BY <1>1, <2>1, <2>2 DEF PlaceInv, HasChosen, Running
  <1>5. effects' \subseteq
          [message : Message, run : Nat, step : Nat, call : {"publish", "post"}]
    <2>1. current \in Message /\ LastRun \in Nat /\ at \in Nat
      BY <1>1, <1>2, TheRun DEF Running, LocalTypes
    <2> QED
      BY <1>1, <1>2, <2>1 DEF RunTypes, Effect
  <1>6. picked' \in [Message -> SUBSET Workflow]
    BY <1>1, <1>2 DEF QueueTypes
  <1>7. place # "idle" /\ place' # "idle"
        /\ UNCHANGED <<message, attempts, due, queue, current, runs>>
    BY <1>1
  <1> QED
    BY <1>1, <1>3, <1>4, <1>5, <1>6, <1>7, GoesOn

\* The steps that answer for the message: how the run ended, and where the
\* message goes.
EndStep == FindNoConnection \/ FindNoWorkflow \/ FindNoActions \/ FinishRun \/ FailRun
             \/ DatabaseFails \/ DatabaseFailsTwice

Outcome(outcome) ==
  \/ /\ outcome = "acked"
     /\ runs' = runs \/ (place = "finish" /\ EndRun("Succeeded", None))
  \/ /\ place \in Running
     /\ outcome = "ready" \/ (outcome = "dead" /\ ~handlers[TheEvent].retry)
     /\ EndRun("Failed", "threw")
  \/ /\ place = "fail"
     /\ outcome = "dead"
     /\ \E cause \in {"refused", "unparsed"} : EndRun("Failed", cause)
  \/ /\ outcome = "ready" \/ (outcome = "dead" /\ ~handlers[TheEvent].retry /\ place \notin Running)
     /\ runs' = runs

\* Each of the steps that answer has one of the outcomes.
LEMMA EndSteps ==
  ASSUME WorkerInv, EndStep
  PROVE  /\ place # "idle" /\ UNCHANGED <<handlerFrame, effects>>
         /\ faults' \in 0..MaxFaults
         /\ \E outcome \in {"ready", "acked", "dead"} : Settle(outcome) /\ Outcome(outcome)
  <1>1. faults \in 0..MaxFaults /\ MaxFaults \in Nat
    BY EventAssumption DEF WorkerInv, QueueTypes, EventAssumption
  <1>2. CASE FindNoConnection \/ FindNoWorkflow \/ FindNoActions
    <2>1. /\ place # "idle" /\ Settle("acked") /\ UNCHANGED <<handlerFrame, runs, effects, faults>>
      BY <1>2 DEF FindNoConnection, FindNoWorkflow, FindNoActions
    <2>2. Outcome("acked")
      BY <2>1 DEF Outcome
    <2> QED
      BY <1>1, <2>1, <2>2
  <1>3. CASE FinishRun
    <2>1. /\ place = "finish" /\ EndRun("Succeeded", None) /\ Settle("acked")
          /\ UNCHANGED <<handlerFrame, effects, faults>>
      BY <1>3 DEF FinishRun
    <2>2. Outcome("acked")
      BY <2>1 DEF Outcome, Running
    <2> QED
      BY <1>1, <2>1, <2>2
  <1>4. CASE FailRun
    <2>1. /\ place = "fail" /\ EndRun("Failed", verdict)
          /\ Settle(IF verdict = "threw" THEN "ready" ELSE "dead")
          /\ UNCHANGED <<handlerFrame, effects, faults>>
      BY <1>4 DEF FailRun
    <2>2. /\ verdict \in {"refused", "unparsed", "threw"}
          /\ place \in Running /\ place = "fail"
      BY <2>1 DEF WorkerInv, LocalTypes, PlaceInv, Running
    <2>3. CASE verdict = "threw"
      <3>1. Settle("ready") /\ Outcome("ready")
        BY <2>1, <2>2, <2>3 DEF Outcome
      <3> QED
        BY <1>1, <2>1, <3>1
    <2>4. CASE verdict # "threw"
      <3>1. Settle("dead") /\ Outcome("dead")
        BY <2>1, <2>2, <2>4 DEF Outcome
      <3> QED
        BY <1>1, <2>1, <3>1
    <2> QED
      BY <2>3, <2>4
  <1>5. place \in Running <=> place # "idle" /\ HasRun
    <2>1. CASE place \in Running
      <3>1. runs[current][LastRun] \in Run /\ at = runs[current][LastRun].succeeded + 1
            /\ LastRun \in 1..Len(runs[current]) /\ runs[current] \in Seq(Run)
            /\ runs[current][LastRun].status = "Running"
        BY <2>1, TheRun
      <3>2. at > 0 /\ LastRun > 0
        BY <3>1 DEF Run
      <3> QED
        BY <2>1, <3>1, <3>2 DEF HasRun, Running
    <2>2. CASE place \notin Running
      <3>1. at = 0
        BY <2>2 DEF WorkerInv, PlaceInv
      <3> QED
        BY <2>2, <3>1 DEF HasRun
    <2> QED
      BY <2>1, <2>2
  <1>6. CASE DatabaseFails
    <2> DEFINE outcome == IF handlers[TheEvent].retry THEN "ready" ELSE "dead"
    <2>1. /\ place # "idle" /\ Settle(outcome) /\ UNCHANGED <<handlerFrame, effects>>
          /\ faults < MaxFaults /\ faults' = faults + 1
          /\ IF HasRun THEN EndRun("Failed", "threw") ELSE UNCHANGED runs
      BY <1>6 DEF DatabaseFails, AwaitsDatabase
    <2>2. outcome = "ready" \/ (outcome = "dead" /\ ~handlers[TheEvent].retry)
      OBVIOUS
    <2> HIDE DEF outcome
    <2>3. Outcome(outcome)
      BY <1>5, <2>1, <2>2 DEF Outcome
    <2>4. faults' \in 0..MaxFaults
      BY <1>1, <2>1
    <2> QED
      BY <2>1, <2>2, <2>3, <2>4
  <1>7. CASE DatabaseFailsTwice
    <2>1. /\ place # "idle" /\ Settle("ready") /\ UNCHANGED <<handlerFrame, runs, effects>>
          /\ faults + 1 < MaxFaults /\ faults' = faults + 2
      BY <1>7 DEF DatabaseFailsTwice, AwaitsDatabase
    <2>2. Outcome("ready") /\ faults' \in 0..MaxFaults
      BY <1>1, <2>1 DEF Outcome
    <2> QED
      BY <2>1, <2>2
  <1> QED
    BY <1>2, <1>3, <1>4, <1>6, <1>7 DEF EndStep

\* They leave the runs of other messages alone.
LEMMA EndTyping ==
  ASSUME WorkerInv, EndStep
  PROVE  WorkerInv'
  <1>1. PICK outcome \in {"ready", "acked", "dead"} :
          /\ place # "idle" /\ UNCHANGED <<handlerFrame, effects>>
          /\ faults' \in 0..MaxFaults
          /\ Settle(outcome) /\ Outcome(outcome)
    BY EndSteps
  <1>2. runs \in [Message -> Seq(Run)]
    BY DEF WorkerInv, RunTypes
  <1>3. \/ runs' = runs
        \/ /\ place \in Running
           /\ \E status \in {"Succeeded", "Failed"}, cause \in {None, "refused", "unparsed", "threw"} :
                EndRun(status, cause)
    BY <1>1 DEF Outcome, Running
  <1>4. /\ runs' \in [Message -> Seq(Run)]
        /\ \A n \in Message : n # current => runs'[n] = runs[n]
    BY <1>2, <1>3, TheRun, RunEnds
  <1> QED
    BY <1>1, <1>4, Settles

\* The repository handler's work on its own table, before it looks for a workflow.
UpkeepStep == FindConnection \/ UpsertRepository \/ DeleteRepository

LEMMA UpkeepSteps ==
  ASSUME UserInv, WorkerInv, UpkeepStep
  PROVE  /\ place \in {"connection", "table"} /\ place' \in {"table", "workflow"}
         /\ place' = "workflow" => place = "table"
         /\ UNCHANGED <<message, attempts, picked, queue, localVars, runs, effects, faults>>
         /\ due' \in [Message -> SUBSET Workflow]
         /\ UserInv'
         /\ \/ UNCHANGED <<workflow, actions, due>>
            \/ /\ DeleteRepository /\ Rows' = {}
               /\ \A m \in Message : due'[m] = IF m = current THEN due[m] ELSE {}
  <1>1. /\ UserTypes /\ RequestInv /\ ParsesInv /\ due \in [Message -> SUBSET Workflow]
        /\ edits \in 0..MaxEdits
    BY DEF UserInv, UserTypes, WorkerInv, QueueTypes
  <1>2. CASE FindConnection
    <2>1. /\ place = "connection" /\ place' = "table"
          /\ UNCHANGED <<userVars, message, attempts, due, picked, queue, localVars, runs,
                         effects, faults>>
      BY <1>2 DEF FindConnection
    <2>2. UserTypes' /\ RequestInv'
      BY <1>1, <2>1 DEF UserTypes, RequestInv, Rows
    <2>3. ParsesInv'
      BY <1>1, <2>1 DEF ParsesInv, StoredActionsParse
    <2> QED
      BY <1>1, <2>1, <2>2, <2>3 DEF UserInv
  <1>3. CASE UpsertRepository
    <2>1. /\ place = "table" /\ place' = "workflow" /\ known' = "repository"
          /\ UNCHANGED <<workflow, actions, retyped, edits, request, message, attempts, due,
                         picked, queue, localVars, runs, effects, faults>>
      BY <1>3 DEF UpsertRepository
    <2>2. UserTypes' /\ RequestInv'
      BY <1>1, <2>1 DEF UserTypes, RequestInv, Rows
    <2>3. ParsesInv'
      BY <1>1, <2>1 DEF ParsesInv, StoredActionsParse
    <2> QED
      BY <1>1, <2>1, <2>2, <2>3 DEF UserInv
  <1>4. CASE DeleteRepository
    <2>1. /\ place = "table" /\ place' = "workflow" /\ known' = "connection" /\ Cascade
          /\ due' = [m \in Message |-> IF m = current THEN due[m] ELSE {}]
          /\ UNCHANGED <<edits, message, attempts, picked, queue, localVars, runs, effects,
                         faults>>
      BY <1>4 DEF DeleteRepository
    <2>2. UserTypes' /\ RequestInv' /\ ParsesInv' /\ Rows' = {}
      BY <1>1, <2>1, NothingLeft DEF Cascade
    <2> QED
      BY <1>1, <1>4, <2>1, <2>2 DEF UserInv
  <1> QED
    BY <1>2, <1>3, <1>4 DEF UpkeepStep

\* It keeps the types and the places.
LEMMA UpkeepTyping ==
  ASSUME UserInv, WorkerInv, UpkeepStep
  PROVE  WorkerInv'
  <1>1. /\ place \in {"connection", "table"} /\ place' \in {"table", "workflow"}
        /\ UNCHANGED <<message, attempts, picked, queue, localVars, runs, effects, faults>>
        /\ due' \in [Message -> SUBSET Workflow]
    BY UpkeepSteps
  <1>2. QueueTypes /\ LocalTypes /\ RunTypes /\ MessageInv /\ PlaceInv
    BY DEF WorkerInv
  <1>3. QueueTypes' /\ LocalTypes' /\ RunTypes'
    BY <1>1, <1>2 DEF QueueTypes, LocalTypes, RunTypes
  <1>4. MessageInv' /\ PlaceInv'
    BY <1>1, <1>2 DEF MessageInv, PlaceInv, HasChosen, Running
  <1> QED
    BY <1>3, <1>4 DEF WorkerInv

\* The success of an action.
LEMMA FinishActionSteps ==
  ASSUME WorkerInv, FinishAction
  PROVE  /\ place = "execute" /\ place' = (IF at < Len(todo) THEN "begin" ELSE "finish")
         /\ at' = at + 1
         /\ UNCHANGED <<handlerFrame, queue, current, chosen, todo, script, viewer, verdict,
                        effects, faults>>
         /\ runs' \in [Message -> Seq(Run)]
         /\ \A n \in Message : Len(runs'[n]) = Len(runs[n])
         /\ \A n \in Message : n # current => runs'[n] = runs[n]
         /\ \A k \in 1..Len(runs[current]) : k # LastRun => runs'[current][k] = runs[current][k]
         /\ runs'[current][LastRun] = [runs[current][LastRun] EXCEPT !.succeeded = at]
  <1>1. /\ place = "execute" /\ place' = (IF at < Len(todo) THEN "begin" ELSE "finish")
        /\ at' = at + 1
        /\ UNCHANGED <<handlerFrame, queue, current, chosen, todo, script, viewer, verdict,
                       effects, faults>>
        /\ runs' = [runs EXCEPT ![current][LastRun].succeeded = at]
    BY DEF FinishAction
  <1>2. /\ runs \in [Message -> Seq(Run)] /\ current \in Message
        /\ LastRun \in 1..Len(runs[current]) /\ runs[current][LastRun] \in Run
        /\ at \in Nat
    BY <1>1, TheRun DEF WorkerInv, RunTypes, LocalTypes, Running
  <1> DEFINE r == [runs[current][LastRun] EXCEPT !.succeeded = at]
  <1>3. r \in Run
    BY <1>2 DEF Run
  <1>4. runs' = [runs EXCEPT ![current] = [runs[current] EXCEPT ![LastRun] = r]]
    BY <1>1, <1>2
  <1> HIDE DEF r
  <1>5. /\ runs' \in [Message -> Seq(Run)]
        /\ \A n \in Message : Len(runs'[n]) = Len(runs[n])
        /\ \A n \in Message : n # current => runs'[n] = runs[n]
        /\ \A k \in 1..Len(runs[current]) : k # LastRun => runs'[current][k] = runs[current][k]
        /\ runs'[current][LastRun] = r
    BY <1>2, <1>3, <1>4, OneRun
  <1> QED
    BY <1>1, <1>5 DEF r

\* The step to the next action keeps the types and the places.
LEMMA FinishActionTyping ==
  ASSUME WorkerInv, FinishAction
  PROVE  WorkerInv'
  <1>1. /\ place = "execute" /\ place' = (IF at < Len(todo) THEN "begin" ELSE "finish")
        /\ at' = at + 1
        /\ UNCHANGED <<handlerFrame, queue, current, chosen, todo, script, viewer, verdict,
                       effects, faults>>
        /\ runs' \in [Message -> Seq(Run)]
        /\ \A n \in Message : Len(runs'[n]) = Len(runs[n])
        /\ \A n \in Message : n # current => runs'[n] = runs[n]
        /\ runs'[current][LastRun] = [runs[current][LastRun] EXCEPT !.succeeded = at]
    BY FinishActionSteps
  <1>2. /\ current \in Message /\ runs[current] \in Seq(Run) /\ runs[current] # <<>>
        /\ LastRun \in 1..Len(runs[current])
        /\ runs[current][LastRun] \in Run
        /\ runs[current][LastRun].actions = todo
        /\ runs[current][LastRun].status = "Running"
        /\ at \in DOMAIN todo
    BY <1>1, TheRun DEF Running
  <1>3. /\ QueueTypes /\ LocalTypes /\ RunTypes /\ MessageInv /\ PlaceInv
    BY DEF WorkerInv
  <1>4. QueueTypes' /\ RunTypes' /\ LocalTypes'
    <2>1. place' \in {"begin", "finish"} /\ at' \in Nat
      BY <1>1, <1>3 DEF LocalTypes
    <2> QED
      BY <1>1, <1>3, <2>1 DEF QueueTypes, RunTypes, LocalTypes
  <1>5. MessageInv'
    <2>1. \A m \in Message : runs[m] = <<>> => runs'[m] = <<>>
      BY <1>1, <1>2
    <2>2. place' # "idle" /\ place # "idle"
      BY <1>1
    <2> QED
      BY <1>1, <1>3, <2>1, <2>2 DEF MessageInv
  <1>6. PlaceInv'
    <2>1. LastRun' = LastRun
      BY <1>1, <1>2 DEF LastRun
    <2>2. /\ runs'[current][LastRun].status = "Running"
          /\ runs'[current][LastRun].actions = todo
          /\ runs'[current][LastRun].succeeded = at
      BY <1>1, <1>2 DEF Run
    <2>3. runs'[current] # <<>>
      <3>1. runs'[current] \in Seq(Run) /\ Len(runs'[current]) > 0
        BY <1>1, <1>2
      <3> QED
        BY <3>1
    <2>4. place' = "begin" => at' \in DOMAIN todo
      BY <1>1, <1>2, <1>3 DEF LocalTypes
    <2>5. place' \in {"begin", "finish"} /\ chosen \in Workflow
      BY <1>1, <1>3 DEF PlaceInv, HasChosen
    <2>6. at' = runs'[current][LastRun].succeeded + 1
      BY <1>1, <2>2
    <2>7. /\ runs'[current'] # <<>>
          /\ runs'[current'][LastRun'].status = "Running"
          /\ runs'[current'][LastRun'].actions = todo'
          /\ at' = runs'[current'][LastRun'].succeeded + 1
      BY <1>1, <2>1, <2>2, <2>3, <2>6
    <2> QED
      BY <1>1, <2>4, <2>5, <2>7 DEF PlaceInv, HasChosen, Running
  <1> QED
    BY <1>4, <1>5, <1>6 DEF WorkerInv

-----------------------------------------------------------------------------
(* The types, and what is stored.                                          *)

EventInv == UserInv /\ WorkerInv

\* It holds of the empty tables.
LEMMA EventInit ==
  ASSUME Init PROVE EventInv
  <1>1. MaxEdits \in Nat /\ MaxFaults \in Nat
    BY EventAssumption DEF EventAssumption
  <1>2. <<>> \in Seq(ActionRow) /\ <<>> \in Seq(Step) /\ <<>> \in Seq(Run)
    OBVIOUS
  <1>3. UserInv
    <2>1. Rows = {} /\ \A w \in Workflow : actions[w] = <<>>
      BY DEF Init, Rows
    <2>2. UserTypes /\ RequestInv
      BY <1>1, <1>2, <2>1 DEF Init, UserTypes, RequestInv
    <2>3. ParsesInv
      BY <2>1 DEF Init, ParsesInv, StoredActionsParse
    <2> QED
      BY <2>2, <2>3 DEF UserInv
  <1>4. QueueTypes
    BY <1>1 DEF Init, QueueTypes
  <1>5. LocalTypes
    BY <1>2 DEF Init, LocalTypes
  <1>6. RunTypes
    BY <1>2 DEF Init, RunTypes
  <1>7. MessageInv /\ PlaceInv
    BY DEF Init, MessageInv, PlaceInv, HasChosen, Running
  <1> QED
    BY <1>3, <1>4, <1>5, <1>6, <1>7 DEF EventInv, WorkerInv

\* Every step of the handler is one of these.
LEMMA HandlerSteps ==
  ASSUME HandlerStep
  PROVE  \/ UpkeepStep
         \/ /\ FindWorkflow \/ FindActions \/ CreateRun \/ ExecutorStep \/ FinishAction \/ EndStep
            /\ UNCHANGED userVars
  <1>1. UpkeepStep \/ FindWorkflow \/ FindActions \/ CreateRun \/ ExecutorStep \/ FinishAction
          \/ EndStep
    BY DEF HandlerStep, UpkeepStep, ExecutorStep, EndStep
  <1>2. ~UpkeepStep => UNCHANGED userVars
    BY <1>1 DEF FindWorkflow, FindActions, CreateRun, ExecutorStep, FinishAction, EndStep,
      FindNoConnection, FindNoWorkflow, FindNoActions, FinishRun, FailRun, DatabaseFails, DatabaseFailsTwice,
      BeginAction, LoadViewer, Ask, AnswerRefusal, Publish, Post, CallThrows
  <1> QED
    BY <1>1, <1>2

\* Every step keeps it.
LEMMA EventNext ==
  ASSUME EventInv, [Next]_vars PROVE EventInv'
  <1>1. UserInv /\ WorkerInv /\ UserTypes
    BY DEF EventInv, UserInv
  <1>2. ASSUME UNCHANGED userVars PROVE UserInv'
    <2>1. UserTypes' /\ RequestInv'
      BY <1>1, <1>2 DEF UserInv, UserTypes, RequestInv, Rows
    <2>2. ParsesInv'
      <3>1. UNCHANGED <<workflow, actions, retyped, request>>
        BY <1>2
      <3>2. StoredActionsParse'
        BY <1>1, <3>1 DEF UserInv, ParsesInv, StoredActionsParse, Rows
      <3> QED
        BY <1>1, <3>1, <3>2 DEF UserInv, ParsesInv
    <2> QED
      BY <2>1, <2>2 DEF UserInv
  <1>3. CASE UNCHANGED vars
    <2>1. UserInv'
      BY <1>2, <1>3 DEF vars
    <2>2. WorkerInv'
      BY <1>1, <1>3 DEF vars, WorkerInv, QueueTypes, LocalTypes, RunTypes, MessageInv, PlaceInv,
        LastRun
    <2> QED
      BY <2>1, <2>2 DEF EventInv
  <1>4. CASE User
    <2>1. due \in [Message -> SUBSET Workflow]
      BY <1>1 DEF WorkerInv, QueueTypes
    <2>2. UserInv' /\ due' \in [Message -> SUBSET Workflow] /\ UNCHANGED workerVars
      BY <1>1, <1>4, <2>1, UserSteps
    <2>3. WorkerInv'
      BY <1>1, <2>2 DEF WorkerInv, QueueTypes, LocalTypes, RunTypes, MessageInv, PlaceInv, LastRun
    <2> QED
      BY <2>2, <2>3 DEF EventInv
  <1>5. CASE \/ \E m \in Message, e \in Event, a \in EventAction \cup {Null}, attached \in BOOLEAN :
                  GitHubSends(m, e, a, attached)
             \/ \E m \in Message : Deliver(m)
    <2>1. WorkerInv' /\ UNCHANGED userVars
      BY <1>1, <1>5, QueueSteps
    <2> QED
      BY <1>2, <2>1 DEF EventInv
  <1>6. CASE HandlerStep
    <2>1. CASE UpkeepStep
      BY <1>1, <2>1, UpkeepSteps, UpkeepTyping DEF EventInv
    <2>2. CASE ~UpkeepStep
      <3>1. /\ UNCHANGED userVars
            /\ FindWorkflow \/ FindActions \/ CreateRun \/ ExecutorStep \/ FinishAction \/ EndStep
        BY <1>6, <2>2, HandlerSteps
      <3>2. WorkerInv'
        BY <1>1, <3>1, LookupSteps, ExecutorTyping, FinishActionTyping, EndTyping
      <3> QED
        BY <1>2, <3>1, <3>2 DEF EventInv
    <2> QED
      BY <2>1, <2>2
  <1> QED
    BY <1>3, <1>4, <1>5, <1>6 DEF Next

\* The inductive invariant of users and worker.
LEMMA EventInvariant == Spec => []EventInv
  BY EventInit, EventNext, PTL DEF Spec

\* Types hold whatever users store, whatever payloads arrive and whatever calls
\* throw; the scripts of all handlers included.
THEOREM EventTypes == Spec => []TypeOK
  <1>1. EventInv => TypeOK
    BY Types DEF EventInv, UserInv, WorkerInv
  <1> QED
    BY <1>1, EventInvariant, PTL

\* What the API stores for a workflow the handler of its event parses as it is,
\* whichever of the two sets of schemas it was sent through, and though the
\* request awaits between the check and the write.
THEOREM StoredParses == Spec => []StoredActionsParse
  <1>1. EventInv => StoredActionsParse
    BY DEF EventInv, UserInv, ParsesInv
  <1> QED
    BY <1>1, EventInvariant, PTL

-----------------------------------------------------------------------------
(* What deliveries add up to.                                              *)

Looking == {"connection", "table", "workflow", "actions", "run"}

\* The run a message that is to be handled again has behind it.
Interrupted(r) == r.cause = "threw" \/ r.status = "Running"

CountInv ==
  /\ OneRunPerDelivery
  /\ place \in Looking => Len(runs[current]) < attempts[current]

RepeatInv ==
  /\ RepeatNeedsThrow
  /\ \A m \in Message :
       runs[m] # <<>> /\ (queue[m] = "ready" \/ (m = current /\ place \in Looking)) =>
         Interrupted(runs[m][Len(runs[m])])

DeliveryInv == EffectsInOrder /\ CountInv /\ RepeatInv /\ DeathNeedsVerdict

\* Nothing of it is about steps that keep the messages, the runs and how far
\* the handler is.
LEMMA Unconcerned ==
  ASSUME DeliveryInv, UNCHANGED <<message, queue, attempts, current, runs, effects>>,
         place' \in Looking => place \in Looking
  PROVE  DeliveryInv'
  BY DEF DeliveryInv, EffectsInOrder, CountInv, OneRunPerDelivery, RepeatInv, RepeatNeedsThrow,
         Interrupted, DeathNeedsVerdict

\* Sending and handing over a message: no run begins by that.
LEMMA QueueDelivery ==
  ASSUME WorkerInv, DeliveryInv,
         \/ \E m \in Message, e \in Event, a \in EventAction \cup {Null}, attached \in BOOLEAN :
              GitHubSends(m, e, a, attached)
         \/ \E m \in Message : Deliver(m)
  PROVE  DeliveryInv'
  <1>1. /\ message \in [Message -> MessageType \cup {Absent}]
        /\ queue \in [Message -> {"unsent", "ready", "handled", "acked", "dead"}]
        /\ attempts \in [Message -> Nat]
        /\ runs \in [Message -> Seq(Run)]
        /\ MessageInv
    BY DEF WorkerInv, QueueTypes, RunTypes
  <1>2. CASE \E m \in Message, e \in Event, a \in EventAction \cup {Null}, attached \in BOOLEAN :
               GitHubSends(m, e, a, attached)
    <2>1. PICK m \in Message, e \in Event, a \in EventAction \cup {Null}, attached \in BOOLEAN :
            GitHubSends(m, e, a, attached)
      BY <1>2
    <2>2. /\ queue[m] = "unsent" /\ queue' = [queue EXCEPT ![m] = "ready"]
          /\ \A n \in Message : n # m => message'[n] = message[n]
          /\ UNCHANGED <<attempts, place, current, runs, effects>>
      BY <1>1, <2>1 DEF GitHubSends
    <2>3. runs[m] = <<>>
      BY <1>1, <2>2 DEF MessageInv
    <2>4. EffectsInOrder' /\ CountInv'
      BY <2>2 DEF DeliveryInv, EffectsInOrder, CountInv, OneRunPerDelivery
    <2>5. RepeatInv'
      <3>1. \A n \in Message : n # m => queue'[n] = queue[n]
        BY <1>1, <2>2
      <3> QED
        BY <2>2, <2>3, <3>1 DEF DeliveryInv, RepeatInv, RepeatNeedsThrow
    <2>6. DeathNeedsVerdict'
      BY <1>1, <2>2 DEF DeliveryInv, DeathNeedsVerdict
    <2> QED
      BY <2>4, <2>5, <2>6 DEF DeliveryInv
  <1>3. CASE \E m \in Message : Deliver(m)
    <2>1. PICK m \in Message : Deliver(m)
      BY <1>3
    <2>2. /\ place = "idle" /\ queue[m] = "ready"
          /\ attempts' = [attempts EXCEPT ![m] = @ + 1]
          /\ UNCHANGED <<message, runs, effects>>
          /\ \/ queue' = [queue EXCEPT ![m] = "handled"] /\ current' = m
             \/ queue' = [queue EXCEPT ![m] = "acked"] /\ UNCHANGED <<place, current>>
      BY <2>1 DEF Deliver
    <2>3. /\ attempts'[m] = attempts[m] + 1
          /\ \A n \in Message : n # m => attempts'[n] = attempts[n] /\ queue'[n] = queue[n]
          /\ queue'[m] \in {"handled", "acked"}
      BY <1>1, <2>2
    <2>4. \A n \in Message : Len(runs[n]) \in Nat /\ attempts[n] \in Nat
      BY <1>1
    <2>5. CountInv'
      <3>1. \A n \in Message : Len(runs[n]) <= attempts[n]
        BY DEF DeliveryInv, CountInv, OneRunPerDelivery
      <3>2. \A n \in Message : Len(runs'[n]) <= attempts'[n]
        BY <2>2, <2>3, <2>4, <3>1
      <3>3. place' \in Looking => current' = m
        BY <2>2 DEF Looking
      <3>4. Len(runs'[m]) < attempts'[m]
        BY <2>2, <2>3, <2>4, <3>1
      <3> QED
        BY <3>2, <3>3, <3>4 DEF CountInv, OneRunPerDelivery
    <2>6. RepeatInv'
      <3>1. runs[m] # <<>> => Interrupted(runs[m][Len(runs[m])])
        BY <2>2 DEF DeliveryInv, RepeatInv
      <3>2. \A n \in Message : n = current' /\ place' \in Looking => n = m
        BY <2>2 DEF Looking
      <3>3. \A n \in Message : queue'[n] = "ready" => queue[n] = "ready"
        BY <2>2, <2>3
      <3>4. RepeatNeedsThrow'
        BY <2>2 DEF DeliveryInv, RepeatInv, RepeatNeedsThrow
      <3>5. ASSUME NEW n \in Message, runs'[n] # <<>>,
                   queue'[n] = "ready" \/ (n = current' /\ place' \in Looking)
            PROVE  Interrupted(runs'[n][Len(runs'[n])])
        BY <2>2, <3>1, <3>2, <3>3, <3>5 DEF DeliveryInv, RepeatInv, Interrupted
      <3> QED
        BY <3>4, <3>5 DEF RepeatInv, Interrupted
    <2>7. DeathNeedsVerdict'
      BY <2>2, <2>3 DEF DeliveryInv, DeathNeedsVerdict
    <2>8. EffectsInOrder'
      BY <2>2 DEF DeliveryInv, EffectsInOrder
    <2> QED
      BY <2>5, <2>6, <2>7, <2>8 DEF DeliveryInv
  <1> QED
    BY <1>2, <1>3

\* A new run is the first, or follows one that was interrupted.
LEMMA CreateRunDelivery ==
  ASSUME WorkerInv, DeliveryInv, CreateRun
  PROVE  DeliveryInv'
  <1> DEFINE new == [workflow |-> chosen, actions |-> todo, succeeded |-> 0,
                     status |-> "Running", cause |-> None]
             s == runs[current]
  <1>1. /\ place = "run" /\ runs' = [runs EXCEPT ![current] = Append(@, new)] /\ place' = "begin"
        /\ UNCHANGED <<message, attempts, queue, current, effects>>
    BY DEF CreateRun
  <1>2. /\ current \in Message /\ runs \in [Message -> Seq(Run)] /\ attempts \in [Message -> Nat]
        /\ queue[current] = "handled"
    BY <1>1 DEF WorkerInv, QueueTypes, RunTypes, MessageInv
  <1> HIDE DEF new
  <1>3. s \in Seq(Run)
    BY <1>2
  <1>4. /\ Len(Append(s, new)) = Len(s) + 1 /\ Len(s) \in Nat
        /\ \A k \in 1..Len(s) : Append(s, new)[k] = s[k]
        /\ DOMAIN Append(s, new) = 1..(Len(s) + 1) /\ DOMAIN s = 1..Len(s)
    BY <1>3
  <1>5. /\ runs'[current] = Append(s, new)
        /\ \A n \in Message : n # current => runs'[n] = runs[n]
    BY <1>1, <1>2
  <1> HIDE DEF s
  <1>6. /\ \A n \in Message : Len(runs[n]) <= attempts[n]
        /\ Len(s) < attempts[current]
        /\ s # <<>> => Interrupted(s[Len(s)])
    BY <1>1, <1>2 DEF DeliveryInv, CountInv, OneRunPerDelivery, RepeatInv, Looking, s
  <1>7. CountInv'
    <2>1. attempts[current] \in Nat
      BY <1>2
    <2>2. \A n \in Message : Len(runs'[n]) <= attempts'[n]
      BY <1>1, <1>4, <1>5, <1>6, <2>1
    <2> QED
      BY <1>1, <2>2 DEF CountInv, OneRunPerDelivery, Looking
  <1>8. RepeatInv'
    <2>1. ASSUME NEW m \in Message, NEW i \in DOMAIN runs'[m], i < Len(runs'[m])
          PROVE  Interrupted(runs'[m][i])
      <3>1. CASE m # current
        BY <1>5, <2>1, <3>1 DEF DeliveryInv, RepeatInv, RepeatNeedsThrow, Interrupted
      <3>2. CASE m = current
        <4>1. i \in 1..Len(s) /\ runs'[m][i] = s[i]
          BY <1>4, <1>5, <2>1, <3>2
        <4>2. CASE i = Len(s)
          <5>1. s # <<>>
            BY <1>3, <4>1 DEF s
          <5> QED
            BY <1>6, <4>1, <4>2, <5>1
        <4>3. CASE i # Len(s)
          <5>1. i < Len(s) /\ i \in DOMAIN s
            BY <1>4, <4>1, <4>3
          <5> QED
            BY <1>2, <4>1, <5>1 DEF DeliveryInv, RepeatInv, RepeatNeedsThrow, Interrupted, s
        <4> QED
          BY <4>2, <4>3
      <3> QED
        BY <3>1, <3>2
    <2>2. ASSUME NEW m \in Message, runs'[m] # <<>>,
                 queue'[m] = "ready" \/ (m = current' /\ place' \in Looking)
          PROVE  Interrupted(runs'[m][Len(runs'[m])])
      <3>1. m # current /\ queue[m] = "ready"
        BY <1>1, <1>2, <2>2 DEF Looking
      <3> QED
        BY <1>5, <2>2, <3>1 DEF DeliveryInv, RepeatInv
    <2> QED
      BY <2>1, <2>2 DEF RepeatInv, RepeatNeedsThrow, Interrupted
  <1>9. EffectsInOrder'
    <2> SUFFICES ASSUME NEW e \in effects
                 PROVE  /\ e.run \in DOMAIN runs'[e.message]
                        /\ e.step <= runs'[e.message][e.run].succeeded + 1
                        /\ e.step \in DOMAIN runs'[e.message][e.run].actions
      BY <1>1 DEF EffectsInOrder
    <2>1. /\ e.run \in DOMAIN runs[e.message]
          /\ e.step <= runs[e.message][e.run].succeeded + 1
          /\ e.step \in DOMAIN runs[e.message][e.run].actions
          /\ e.message \in Message
      BY DEF DeliveryInv, EffectsInOrder, WorkerInv, RunTypes
    <2>2. e.run \in DOMAIN runs'[e.message] /\ runs'[e.message][e.run] = runs[e.message][e.run]
      BY <1>4, <1>5, <2>1 DEF s
    <2> QED
      BY <2>1, <2>2
  <1>10. DeathNeedsVerdict'
    BY <1>1, <1>2, <1>5 DEF DeliveryInv, DeathNeedsVerdict
  <1> QED
    BY <1>7, <1>8, <1>9, <1>10 DEF DeliveryInv

\* An email or a POST is made for the action whose predecessors have succeeded.
LEMMA ExecutorDelivery ==
  ASSUME WorkerInv, DeliveryInv, ExecutorStep
  PROVE  DeliveryInv'
  <1>1. /\ place \in {"begin", "execute"} /\ place' \in {"execute", "fail"}
        /\ UNCHANGED <<message, attempts, queue, current, runs>>
        /\ effects' \subseteq effects \cup {Effect("publish"), Effect("post")}
    BY ExecutorSteps
  <1>2. /\ current \in Message /\ LastRun \in 1..Len(runs[current])
        /\ runs[current] \in Seq(Run)
        /\ runs[current][LastRun].actions = todo
        /\ at = runs[current][LastRun].succeeded + 1
        /\ at \in DOMAIN todo
        /\ runs[current][LastRun] \in Run
    BY <1>1, TheRun DEF Running
  <1>3. EffectsInOrder'
    <2> SUFFICES ASSUME NEW e \in effects'
                 PROVE  /\ e.run \in DOMAIN runs[e.message]
                        /\ e.step <= runs[e.message][e.run].succeeded + 1
                        /\ e.step \in DOMAIN runs[e.message][e.run].actions
      BY <1>1 DEF EffectsInOrder
    <2>1. CASE e \in effects
      BY <2>1 DEF DeliveryInv, EffectsInOrder
    <2>2. CASE e.message = current /\ e.run = LastRun /\ e.step = at
      <3>1. runs[current][LastRun].succeeded \in Nat
        BY <1>2 DEF Run
      <3> QED
        BY <1>2, <2>2, <3>1
    <2>3. e \in effects \/ (e.message = current /\ e.run = LastRun /\ e.step = at)
      BY <1>1 DEF Effect
    <2> QED
      BY <2>1, <2>2, <2>3
  <1>4. place' \notin Looking
    BY <1>1 DEF Looking
  <1> QED
    BY <1>1, <1>3, <1>4
    DEF DeliveryInv, CountInv, OneRunPerDelivery, RepeatInv, RepeatNeedsThrow,
        Interrupted, DeathNeedsVerdict

\* One more success does not undo what was in order.
LEMMA FinishActionDelivery ==
  ASSUME WorkerInv, DeliveryInv, FinishAction
  PROVE  DeliveryInv'
  <1>1. /\ place' \in {"begin", "finish"} /\ place = "execute"
        /\ UNCHANGED <<message, attempts, queue, current, effects>>
        /\ runs' \in [Message -> Seq(Run)]
        /\ \A n \in Message : Len(runs'[n]) = Len(runs[n])
        /\ \A n \in Message : n # current => runs'[n] = runs[n]
        /\ \A k \in 1..Len(runs[current]) : k # LastRun => runs'[current][k] = runs[current][k]
        /\ runs'[current][LastRun] = [runs[current][LastRun] EXCEPT !.succeeded = at]
    BY FinishActionSteps
  <1>2. /\ current \in Message /\ LastRun \in 1..Len(runs[current])
        /\ runs[current][LastRun] \in Run
        /\ at = runs[current][LastRun].succeeded + 1
        /\ runs \in [Message -> Seq(Run)] /\ queue[current] = "handled"
    BY <1>1, TheRun DEF Running, WorkerInv, RunTypes, MessageInv
  <1>3. /\ runs'[current][LastRun].status = runs[current][LastRun].status
        /\ runs'[current][LastRun].cause = runs[current][LastRun].cause
        /\ runs'[current][LastRun].actions = runs[current][LastRun].actions
        /\ runs'[current][LastRun].succeeded = runs[current][LastRun].succeeded + 1
        /\ runs[current][LastRun].succeeded \in Nat
    BY <1>1, <1>2 DEF Run
  <1>4. \A n \in Message : DOMAIN runs'[n] = DOMAIN runs[n] /\ DOMAIN runs[n] = 1..Len(runs[n])
    BY <1>1, <1>2
  <1>5. \A n \in Message : \A k \in DOMAIN runs[n] :
          /\ runs'[n][k].status = runs[n][k].status
          /\ runs'[n][k].cause = runs[n][k].cause
          /\ runs'[n][k].actions = runs[n][k].actions
    BY <1>1, <1>3, <1>4
  <1>6. EffectsInOrder'
    <2> SUFFICES ASSUME NEW e \in effects
                 PROVE  /\ e.run \in DOMAIN runs'[e.message]
                        /\ e.step <= runs'[e.message][e.run].succeeded + 1
                        /\ e.step \in DOMAIN runs'[e.message][e.run].actions
      BY <1>1 DEF EffectsInOrder
    <2>1. /\ e.run \in DOMAIN runs[e.message]
          /\ e.step <= runs[e.message][e.run].succeeded + 1
          /\ e.step \in DOMAIN runs[e.message][e.run].actions
          /\ e.message \in Message /\ e.step \in Nat
      BY DEF DeliveryInv, EffectsInOrder, WorkerInv, RunTypes
    <2>2. CASE e.message = current /\ e.run = LastRun
      <3>1. /\ LastRun \in DOMAIN runs'[current]
            /\ e.step \in DOMAIN runs'[current][LastRun].actions
        BY <1>3, <1>4, <2>1, <2>2
      <3>2. e.step <= runs'[current][LastRun].succeeded + 1
        BY <1>3, <2>1, <2>2
      <3> QED
        BY <2>2, <3>1, <3>2
    <2>3. CASE ~(e.message = current /\ e.run = LastRun)
      <3>1. runs'[e.message][e.run] = runs[e.message][e.run]
        BY <1>1, <1>4, <2>1, <2>3
      <3> QED
        BY <1>4, <2>1, <3>1
    <2> QED
      BY <2>2, <2>3
  <1>7. CountInv'
    BY <1>1 DEF DeliveryInv, CountInv, OneRunPerDelivery, Looking
  <1>8. RepeatInv'
    <2>1. RepeatNeedsThrow'
      BY <1>1, <1>4, <1>5 DEF DeliveryInv, RepeatInv, RepeatNeedsThrow
    <2>2. ASSUME NEW m \in Message, runs'[m] # <<>>,
                 queue'[m] = "ready" \/ (m = current' /\ place' \in Looking)
          PROVE  Interrupted(runs'[m][Len(runs'[m])])
      <3>1. m # current /\ queue[m] = "ready"
        BY <1>1, <1>2, <2>2 DEF Looking
      <3> QED
        BY <1>1, <2>2, <3>1 DEF DeliveryInv, RepeatInv
    <2> QED
      BY <2>1, <2>2 DEF RepeatInv, Interrupted
  <1>9. DeathNeedsVerdict'
    <2> SUFFICES ASSUME NEW m \in Message, queue'[m] = "dead"
                 PROVE  \/ ~handlers[message'[m].event].retry
                        \/ /\ runs'[m] # <<>>
                           /\ runs'[m][Len(runs'[m])].status = "Failed"
                           /\ runs'[m][Len(runs'[m])].cause \in {"refused", "unparsed"}
      BY DEF DeathNeedsVerdict
    <2>1. m # current /\ queue[m] = "dead" /\ message' = message /\ runs'[m] = runs[m]
      BY <1>1, <1>2
    <2> QED
      BY <2>1 DEF DeliveryInv, DeathNeedsVerdict
  <1> QED
    BY <1>6, <1>7, <1>8, <1>9 DEF DeliveryInv

\* How the run ends decides where its message may go.
LEMMA EndDelivery ==
  ASSUME WorkerInv, DeliveryInv, EndStep
  PROVE  DeliveryInv'
  <1>1. PICK outcome \in {"ready", "acked", "dead"} :
          /\ place # "idle" /\ UNCHANGED <<handlerFrame, effects>>
          /\ Settle(outcome) /\ Outcome(outcome)
    BY EndSteps
  <1>2. /\ current \in Message /\ queue[current] = "handled"
        /\ queue \in [Message -> {"unsent", "ready", "handled", "acked", "dead"}]
        /\ runs \in [Message -> Seq(Run)]
    BY <1>1 DEF WorkerInv, MessageInv, QueueTypes, RunTypes
  <1>3. /\ queue'[current] = outcome /\ place' = "idle"
        /\ \A n \in Message : n # current => queue'[n] = queue[n]
    BY <1>1, <1>2 DEF Settle
  <1>4. UNCHANGED <<message, attempts, effects>>
    BY <1>1
  <1>5. CASE runs' = runs
    <2>1. outcome = "ready" /\ runs[current] # <<>> => Interrupted(runs[current][LastRun])
      <3>1. CASE place \in Running
        BY <3>1, TheRun DEF Interrupted
      <3>2. CASE place \in Looking
        BY <1>2, <3>2 DEF DeliveryInv, RepeatInv, LastRun
      <3>3. place \in Running \/ place \in Looking
        BY <1>1 DEF WorkerInv, LocalTypes, Running, Looking
      <3> QED
        BY <3>1, <3>2, <3>3
    <2>2. EffectsInOrder' /\ CountInv'
      BY <1>3, <1>4, <1>5 DEF DeliveryInv, EffectsInOrder, CountInv, OneRunPerDelivery, Looking
    <2>3. RepeatInv'
      BY <1>2, <1>3, <1>5, <2>1
      DEF DeliveryInv, RepeatInv, RepeatNeedsThrow, Interrupted, Looking, LastRun
    <2>4. outcome = "dead" =>
            \/ ~handlers[message[current].event].retry
            \/ \E status \in {"Succeeded", "Failed"}, cause \in {"refused", "unparsed", "threw"} :
                 /\ place \in Running /\ EndRun(status, cause)
      BY <1>1 DEF Outcome, TheEvent, Running
    <2>5. ASSUME NEW status \in {"Succeeded", "Failed"},
                 NEW cause \in {"refused", "unparsed", "threw"}, place \in Running,
                 EndRun(status, cause)
          PROVE  FALSE
      <3>1. /\ runs'[current][LastRun] =
                 [runs[current][LastRun] EXCEPT !.status = status, !.cause = cause]
            /\ runs[current][LastRun] \in Run /\ runs[current][LastRun].status = "Running"
        BY <1>2, <2>5, TheRun, RunEnds
      <3>2. runs'[current][LastRun].status = status
        BY <3>1 DEF Run
      <3> QED
        BY <1>5, <3>1, <3>2
    <2>6. DeathNeedsVerdict'
      BY <1>2, <1>3, <1>4, <1>5, <2>4, <2>5 DEF DeliveryInv, DeathNeedsVerdict
    <2> QED
      BY <2>2, <2>3, <2>6 DEF DeliveryInv
  <1>6. CASE runs' # runs
    <2>1. PICK status \in {"Succeeded", "Failed"}, cause \in {None, "refused", "unparsed", "threw"} :
            /\ place \in Running /\ EndRun(status, cause)
            /\ outcome = "ready" => cause = "threw"
            /\ outcome = "dead" =>
                 \/ ~handlers[TheEvent].retry
                 \/ status = "Failed" /\ cause \in {"refused", "unparsed"}
      BY <1>1, <1>6 DEF Outcome, Running
    <2>2. /\ LastRun \in 1..Len(runs[current]) /\ runs[current][LastRun] \in Run
          /\ runs[current] # <<>> /\ runs[current][LastRun].status = "Running"
      BY <2>1, TheRun
    <2>3. /\ runs' \in [Message -> Seq(Run)]
          /\ \A n \in Message : Len(runs'[n]) = Len(runs[n])
          /\ \A n \in Message : n # current => runs'[n] = runs[n]
          /\ \A k \in 1..Len(runs[current]) : k # LastRun => runs'[current][k] = runs[current][k]
          /\ runs'[current][LastRun] =
               [runs[current][LastRun] EXCEPT !.status = status, !.cause = cause]
      BY <1>2, <2>1, <2>2, RunEnds
    <2>4. /\ runs'[current][LastRun].status = status
          /\ runs'[current][LastRun].cause = cause
          /\ runs'[current][LastRun].actions = runs[current][LastRun].actions
          /\ runs'[current][LastRun].succeeded = runs[current][LastRun].succeeded
      BY <2>2, <2>3 DEF Run
    <2>5. \A n \in Message : DOMAIN runs'[n] = DOMAIN runs[n] /\ DOMAIN runs[n] = 1..Len(runs[n])
      BY <1>2, <2>3
    <2>6. EffectsInOrder'
      <3> SUFFICES ASSUME NEW e \in effects
                   PROVE  /\ e.run \in DOMAIN runs'[e.message]
                          /\ e.step <= runs'[e.message][e.run].succeeded + 1
                          /\ e.step \in DOMAIN runs'[e.message][e.run].actions
        BY <1>4 DEF EffectsInOrder
      <3>1. /\ e.run \in DOMAIN runs[e.message]
            /\ e.step <= runs[e.message][e.run].succeeded + 1
            /\ e.step \in DOMAIN runs[e.message][e.run].actions
            /\ e.message \in Message
        BY DEF DeliveryInv, EffectsInOrder, WorkerInv, RunTypes
      <3>2. /\ runs'[e.message][e.run].succeeded = runs[e.message][e.run].succeeded
            /\ runs'[e.message][e.run].actions = runs[e.message][e.run].actions
        <4>1. CASE e.message = current /\ e.run = LastRun
          BY <2>4, <4>1
        <4>2. CASE ~(e.message = current /\ e.run = LastRun)
          <5>1. runs'[e.message][e.run] = runs[e.message][e.run]
            BY <2>3, <2>5, <3>1, <4>2
          <5> QED
            BY <5>1
        <4> QED
          BY <4>1, <4>2
      <3> QED
        BY <2>5, <3>1, <3>2
    <2>7. CountInv'
      BY <1>3, <1>4, <2>3 DEF DeliveryInv, CountInv, OneRunPerDelivery, Looking
    <2>8. LastRun = Len(runs'[current]) /\ LastRun = Len(runs[current])
      BY <2>3, <1>2 DEF LastRun
    <2>9. RepeatInv'
      <3>1. ASSUME NEW m \in Message, NEW i \in DOMAIN runs'[m], i < Len(runs'[m])
            PROVE  Interrupted(runs'[m][i])
        <4>1. i \in DOMAIN runs[m] /\ i < Len(runs[m])
          BY <2>3, <2>5, <3>1
        <4>2. Interrupted(runs[m][i])
          BY <4>1 DEF DeliveryInv, RepeatInv, RepeatNeedsThrow, Interrupted
        <4>3. runs'[m][i] = runs[m][i]
          <5>1. CASE m # current
            BY <2>3, <5>1
          <5>2. CASE m = current
            <6>1. i # LastRun /\ i \in 1..Len(runs[current])
              BY <2>5, <2>8, <4>1, <5>2
            <6> QED
              BY <2>3, <5>2, <6>1
          <5> QED
            BY <5>1, <5>2
        <4> QED
          BY <4>2, <4>3
      <3>2. ASSUME NEW m \in Message, runs'[m] # <<>>,
                   queue'[m] = "ready" \/ (m = current' /\ place' \in Looking)
            PROVE  Interrupted(runs'[m][Len(runs'[m])])
        <4>1. queue'[m] = "ready"
          BY <1>3, <3>2 DEF Looking
        <4>2. CASE m = current
          BY <1>3, <2>1, <2>4, <2>8, <4>1, <4>2 DEF Interrupted
        <4>3. CASE m # current
          BY <1>3, <2>3, <3>2, <4>1, <4>3 DEF DeliveryInv, RepeatInv
        <4> QED
          BY <4>2, <4>3
      <3> QED
        BY <3>1, <3>2 DEF RepeatInv, RepeatNeedsThrow, Interrupted
    <2>10. DeathNeedsVerdict'
      <3> SUFFICES ASSUME NEW m \in Message, queue'[m] = "dead"
                   PROVE  \/ ~handlers[message[m].event].retry
                          \/ /\ runs'[m] # <<>>
                             /\ runs'[m][Len(runs'[m])].status = "Failed"
                             /\ runs'[m][Len(runs'[m])].cause \in {"refused", "unparsed"}
        BY <1>4 DEF DeathNeedsVerdict
      <3>1. CASE m # current
        BY <1>3, <2>3, <3>1 DEF DeliveryInv, DeathNeedsVerdict
      <3>2. CASE m = current
        <4>1. runs'[current] # <<>>
          <5>1. runs'[current] \in Seq(Run) /\ Len(runs'[current]) > 0
            BY <1>2, <2>2, <2>3
          <5> QED
            BY <5>1
        <4> QED
          BY <1>3, <2>1, <2>4, <2>8, <3>2, <4>1 DEF TheEvent
      <3> QED
        BY <3>1, <3>2
    <2> QED
      BY <2>6, <2>7, <2>9, <2>10 DEF DeliveryInv
  <1> QED
    BY <1>5, <1>6

\* What deliveries add up to holds of every behaviour.
LEMMA Deliveries == Spec => [](EventInv /\ DeliveryInv)
  <1>1. Init => DeliveryInv
    BY DEF Init, DeliveryInv, EffectsInOrder, CountInv, OneRunPerDelivery, RepeatInv,
      RepeatNeedsThrow, DeathNeedsVerdict, Looking
  <1>2. EventInv /\ DeliveryInv /\ [Next]_vars => DeliveryInv'
    <2> SUFFICES ASSUME EventInv, DeliveryInv, [Next]_vars PROVE DeliveryInv'
      OBVIOUS
    <2>1. UserInv /\ WorkerInv
      BY DEF EventInv
    <2>2. CASE UNCHANGED vars
      BY <2>2, Unconcerned DEF vars
    <2>3. CASE User
      <3>1. UNCHANGED workerVars
        BY <2>1, <2>3, UserSteps DEF WorkerInv, QueueTypes
      <3> QED
        BY <3>1, Unconcerned
    <2>4. CASE \/ \E m \in Message, e \in Event, a \in EventAction \cup {Null}, attached \in BOOLEAN :
                    GitHubSends(m, e, a, attached)
               \/ \E m \in Message : Deliver(m)
      BY <2>1, <2>4, QueueDelivery
    <2>5. CASE HandlerStep
      <3>1. UpkeepStep \/ FindWorkflow \/ FindActions \/ CreateRun \/ ExecutorStep \/ FinishAction
              \/ EndStep
        BY <2>5, HandlerSteps
      <3>2. CASE FindWorkflow \/ FindActions
        <4>1. /\ UNCHANGED <<message, queue, attempts, current, runs, effects>>
              /\ place \in Looking
          BY <3>2 DEF FindWorkflow, FindActions, Looking
        <4> QED
          BY <4>1, Unconcerned
      <3>3. CASE UpkeepStep
        <4>1. /\ UNCHANGED <<message, queue, attempts, localVars, runs, effects>>
              /\ place \in Looking
          BY <2>1, <3>3, UpkeepSteps DEF Looking
        <4> QED
          BY <4>1, Unconcerned
      <3> QED
        BY <2>1, <3>1, <3>2, <3>3, CreateRunDelivery, ExecutorDelivery, FinishActionDelivery, EndDelivery
    <2> QED
      BY <2>2, <2>3, <2>4, <2>5 DEF Next
  <1> QED
    BY <1>1, <1>2, EventInit, EventNext, PTL DEF Spec

\* An email or a POST follows the success of every action before it, in the
\* same run.
THEOREM InOrder == Spec => []EffectsInOrder
  BY Deliveries, PTL DEF DeliveryInv

\* A delivery makes one run at most, whatever the user stores meanwhile.
THEOREM OnePerDelivery == Spec => []OneRunPerDelivery
  <1>1. DeliveryInv => OneRunPerDelivery
    BY DEF DeliveryInv, CountInv
  <1> QED
    BY <1>1, Deliveries, PTL

\* What is run again was interrupted: a refusal is final.
THEOREM RepeatedOnThrow == Spec => []RepeatNeedsThrow
  <1>1. DeliveryInv => RepeatNeedsThrow
    BY DEF DeliveryInv, RepeatInv
  <1> QED
    BY <1>1, Deliveries, PTL

\* A dead message has a verdict on an action behind it, unless its handler gives
\* up at any exception.
THEOREM DeathByVerdict == Spec => []DeathNeedsVerdict
  BY Deliveries, PTL DEF DeliveryInv

-----------------------------------------------------------------------------
(* Success.                                                                *)

\* A script that cannot come to its end without making a call.
Sends(s, call) == \E i \in DOMAIN s : s[i] \in {call, "refuse"}

\* What a script ends with it sends.
LEMMA SendsLast ==
  ASSUME NEW s \in Seq(Step), NEW t \in Seq(Step), NEW call, Sends(t, call)
  PROVE  Sends(s \o t, call)
  <1>1. PICK i \in DOMAIN t : t[i] \in {call, "refuse"}
    BY DEF Sends
  <1>2. Len(s) + i \in DOMAIN (s \o t) /\ (s \o t)[Len(s) + i] = t[i]
    BY <1>1
  <1> QED
    BY <1>1, <1>2 DEF Sends

\* A call that is not the first is still to come after the first.
LEMMA SendsTail ==
  ASSUME NEW s \in Seq(Step), s # <<>>, NEW call, Sends(s, call),
         Head(s) \notin {call, "refuse"}
  PROVE  Sends(Tail(s), call)
  <1>1. PICK i \in DOMAIN s : s[i] \in {call, "refuse"}
    BY DEF Sends
  <1>2. i # 1 /\ i \in 1..Len(s)
    BY <1>1
  <1>3. i - 1 \in DOMAIN Tail(s) /\ Tail(s)[i - 1] = s[i]
    BY <1>2
  <1> QED
    BY <1>1, <1>3 DEF Sends

\* Each executor has a branch, or a refusal, for the actions it should send
\* something for.
LEMMA ScriptsSend ==
  ASSUME NEW e \in HandledEvent, NEW a \in ActionRow, ShouldSend(e, a.type)
  PROVE  Sends(executeSingleAction(e, a), CallOf(a.type))
  <1> DEFINE call == CallOf(a.type)
  <1>1. /\ <<"publish">> \in Seq(Step) /\ <<"post">> \in Seq(Step)
        /\ <<"analyse">> \in Seq(Step) /\ <<"refuse">> \in Seq(Step) /\ <<"viewer">> \in Seq(Step)
        /\ <<>> \in Seq(Step)
    BY DEF Step
  <1>2. /\ Sends(<<"publish">>, "publish") /\ Sends(<<"post">>, "post")
        /\ Sends(<<"address", "publish">>, "publish")
        /\ \A c : Sends(Refuse, c)
    <2>1. Sends(<<"publish">>, "publish")
      <3>1. 1 \in DOMAIN <<"publish">> /\ <<"publish">>[1] = "publish"
        OBVIOUS
      <3> QED
        BY <3>1 DEF Sends
    <2>2. Sends(<<"post">>, "post")
      <3>1. 1 \in DOMAIN <<"post">> /\ <<"post">>[1] = "post"
        OBVIOUS
      <3> QED
        BY <3>1 DEF Sends
    <2>3. Sends(<<"address", "publish">>, "publish")
      <3>1. 2 \in DOMAIN <<"address", "publish">> /\ <<"address", "publish">>[2] = "publish"
        OBVIOUS
      <3> QED
        BY <3>1 DEF Sends
    <2>4. \A c : Sends(Refuse, c)
      <3>1. 1 \in DOMAIN Refuse /\ Refuse[1] = "refuse"
        BY DEF Refuse
      <3> QED
        BY <3>1 DEF Sends
    <2> QED
      BY <2>1, <2>2, <2>3, <2>4
  <1>3. /\ a.type \in {"send_email", "send_email_to_who_send_the_trigger"} => call = "publish"
        /\ a.type = "webhook" => call = "post"
        /\ a.type \in {"send_email", "send_email_to_who_send_the_trigger", "webhook"}
        /\ e = "repository" => a.type = "send_email"
    BY DEF CallOf, Outbound, ShouldSend
  <1> HIDE DEF call
  <1>4. ASSUME NEW key, NEW asks \in Seq(Step)
        PROVE  Sends(SharedScript(a, key, asks), call)
    <2> DEFINE with == If(key \in a.config, asks)
    <2>1. with \in Seq(Step)
      BY <1>1, <1>4 DEF If
    <2>2. Sends(with \o <<"publish">>, "publish") /\ Sends(asks \o <<"post">>, "post")
      <3> HIDE DEF with
      <3> QED
        BY <1>1, <1>2, <1>4, <2>1, SendsLast
    <2>3. CASE a.type = "send_email"
      <3>1. SharedScript(a, key, asks) = with \o <<"publish">>
        BY <2>3 DEF SharedScript
      <3> QED
        BY <1>3, <2>2, <2>3, <3>1
    <2>4. CASE a.type = "send_email_to_who_send_the_trigger"
      <3>1. SharedScript(a, key, asks) = <<"address", "publish">>
        BY <2>4 DEF SharedScript
      <3> QED
        BY <1>2, <1>3, <2>4, <3>1
    <2>5. CASE a.type = "webhook"
      <3>1. SharedScript(a, key, asks) = asks \o <<"post">>
        BY <2>5 DEF SharedScript
      <3> QED
        BY <1>3, <2>2, <2>5, <3>1
    <2> QED
      BY <1>3, <2>3, <2>4, <2>5
  <1>5. a.type \in SharedTypes /\ Viewer \in Seq(Step) /\ NoViewer \in Seq(Step)
    BY <1>1, <1>3 DEF SharedTypes, Viewer, NoViewer, Refuse
  <1>6. \A key : \A asks \in Seq(Step) : Sends(Lenient(a, key, asks), call)
    BY <1>4, <1>5 DEF Lenient
  <1>7. \A key : Sends(Strict(a, key), call)
    BY <1>4, <1>5 DEF Strict
  <1>8. Sends(Push_execute(a), call)
    <2>1. CASE a.type = "send_email"
      <3> DEFINE analyse == If(Analytics \in a.config, <<"analyse">>)
      <3>1. analyse \in Seq(Step)
        BY <1>1 DEF If
      <3>2. Push_execute(a) = analyse \o <<"publish">>
        BY <2>1 DEF Push_execute
      <3> HIDE DEF analyse
      <3>3. Sends(analyse \o <<"publish">>, "publish")
        BY <1>1, <1>2, <3>1, SendsLast
      <3> QED
        BY <1>3, <2>1, <3>2, <3>3
    <2>2. CASE a.type = "webhook"
      <3>1. Push_execute(a) = <<"post">>
        BY <2>2 DEF Push_execute
      <3> QED
        BY <1>2, <1>3, <2>2, <3>1
    <2>3. CASE a.type = "send_email_to_who_send_the_trigger"
      <3>1. Push_execute(a) = Refuse
        BY <2>3 DEF Push_execute
      <3> QED
        BY <1>2, <3>1
    <2> QED
      BY <1>3, <2>1, <2>2, <2>3
  <1>9. /\ Sends(Fork_execute(a), call) /\ Sends(Commit_comment_execute(a), call)
        /\ Sends(Watch_execute(a), call) /\ Sends(Create_execute(a), call)
        /\ Sends(Issue_comment_execute(a), call) /\ Sends(Label_execute(a), call)
        /\ Sends(Pull_request_execute(a), call) /\ Sends(Issues_execute(a), call)
    BY <1>5, <1>6
    DEF Fork_execute, Commit_comment_execute, Watch_execute, Create_execute,
        Issue_comment_execute, Label_execute, Pull_request_execute, Issues_execute
  <1>10. /\ Sends(Star_execute(a), call) /\ Sends(Workflow_run_execute(a), call)
         /\ Sends(Workflow_job_execute(a), call)
         /\ Sends(Pull_request_review_execute(a), call)
    BY <1>2, <1>7
    DEF Star_execute, Workflow_run_execute, Workflow_job_execute, Pull_request_review_execute
  <1>11. Sends(Delete_execute(a), call)
    BY <1>3, <1>5, <1>6 DEF Delete_execute
  <1>12. e = "repository" => Sends(Repository_execute(a), call)
    <2> SUFFICES ASSUME e = "repository" PROVE Sends(Repository_execute(a), call)
      OBVIOUS
    <2>1. a.type = "send_email" /\ call = "publish"
      BY <1>3
    <2>2. Repository_execute(a) = <<"publish">>
      BY <2>1 DEF Repository_execute, If
    <2> QED
      BY <1>2, <2>1, <2>2
  <1> HIDE DEF Sends
  <1>13. Sends(executeSingleAction(e, a), call)
    BY <1>8, <1>9, <1>10, <1>11, <1>12 DEF executeSingleAction, HandledEvent, EventType
  <1> QED
    BY <1>13 DEF call

\* The call of an action, of the run a handler is at.
SentBy(m, i, k) ==
  [message |-> m, run |-> i, step |-> k, call |-> CallOf(runs[m][i].actions[k].type)]

\* The calls of the actions that succeeded are made, and those of the action at
\* hand are made or still in its script.
SuccessInv ==
  /\ \A m \in Message : \A i \in DOMAIN runs[m] : \A k \in DOMAIN runs[m][i].actions :
       k <= runs[m][i].succeeded /\ ShouldSend(message[m].event, runs[m][i].actions[k].type) =>
         SentBy(m, i, k) \in effects
  /\ \A m \in Message : \A i \in DOMAIN runs[m] :
       runs[m][i].status = "Succeeded" => runs[m][i].succeeded = Len(runs[m][i].actions)
  /\ place = "finish" => at = Len(todo) + 1
  /\ place = "execute" /\ ShouldSend(TheEvent, todo[at].type) =>
       \/ SentBy(current, LastRun, at) \in effects
       \/ Sends(script, CallOf(todo[at].type))

\* Steps that leave the runs of the messages alone.
LEMMA SuccessKept ==
  ASSUME WorkerInv, SuccessInv, UNCHANGED runs, effects \subseteq effects',
         \A m \in Message : runs[m] # <<>> => message'[m] = message[m],
         place' \in {"execute", "finish"} =>
           place' = place /\ UNCHANGED <<TheEvent, current, todo, at, script>>
  PROVE  SuccessInv'
  <1>1. \A m \in Message : \A i \in DOMAIN runs[m] : message'[m] = message[m]
    <2>1. runs \in [Message -> Seq(Run)]
      BY DEF WorkerInv, RunTypes
    <2>2. \A m \in Message : runs[m] = <<>> => DOMAIN runs[m] = {}
      BY <2>1
    <2> QED
      BY <2>2
  <1>2. CASE place' \in {"execute", "finish"}
    BY <1>1, <1>2 DEF SuccessInv, SentBy, LastRun
  <1>3. CASE place' \notin {"execute", "finish"}
    BY <1>1, <1>3 DEF SuccessInv, SentBy
  <1> QED
    BY <1>2, <1>3

\* A new run has succeeded in nothing.
LEMMA SuccessCreateRun ==
  ASSUME WorkerInv, SuccessInv, CreateRun
  PROVE  SuccessInv'
  <1> DEFINE new == [workflow |-> chosen, actions |-> todo, succeeded |-> 0,
                     status |-> "Running", cause |-> None]
             s == runs[current]
  <1>1. /\ place = "run" /\ runs' = [runs EXCEPT ![current] = Append(@, new)] /\ place' = "begin"
        /\ UNCHANGED <<message, effects>>
    BY DEF CreateRun
  <1>2. current \in Message /\ runs \in [Message -> Seq(Run)] /\ todo \in Seq(ActionRow)
    BY <1>1 DEF WorkerInv, RunTypes, MessageInv, LocalTypes
  <1>3. /\ new.succeeded = 0 /\ new.status = "Running" /\ new.actions = todo
    OBVIOUS
  <1> HIDE DEF new
  <1>4. s \in Seq(Run)
    BY <1>2
  <1>5. /\ DOMAIN Append(s, new) = DOMAIN s \cup {Len(s) + 1}
        /\ \A k \in DOMAIN s : Append(s, new)[k] = s[k]
        /\ Append(s, new)[Len(s) + 1] = new
    BY <1>4
  <1>6. \A m \in Message : \A i \in DOMAIN runs'[m] :
          \/ i \in DOMAIN runs[m] /\ runs'[m][i] = runs[m][i]
          \/ runs'[m][i] = new
    BY <1>1, <1>2, <1>5
  <1>7. \A k \in DOMAIN new.actions : ~(k <= new.succeeded)
    BY <1>2, <1>3
  <1> QED
    BY <1>1, <1>3, <1>6, <1>7 DEF SuccessInv, SentBy

\* The executor's step either makes the call or has it before it still.
LEMMA SuccessExecutor ==
  ASSUME WorkerInv, SuccessInv, ExecutorStep
  PROVE  SuccessInv'
  <1>1. /\ place \in {"begin", "execute"} /\ place' \in {"execute", "fail"}
        /\ UNCHANGED <<message, current, todo, at, runs>>
        /\ effects \subseteq effects'
    BY ExecutorSteps
  <1>2. /\ current \in Message /\ LastRun \in 1..Len(runs[current])
        /\ runs[current] \in Seq(Run)
        /\ runs[current][LastRun].actions = todo
        /\ at \in DOMAIN todo /\ todo \in Seq(ActionRow) /\ script \in Seq(Step)
    BY <1>1, TheRun DEF Running, WorkerInv, LocalTypes
  <1> DEFINE call == CallOf(todo[at].type)
             this == [message |-> current, run |-> LastRun, step |-> at, call |-> call]
  <1>3. this = SentBy(current, LastRun, at) /\ this = Effect(call)
    BY <1>2 DEF SentBy, Effect
  <1>4. this' = this /\ SentBy(current, LastRun, at)' = this
    <2>1. LastRun' = LastRun
      BY <1>1 DEF LastRun
    <2> QED
      BY <1>1, <1>2, <2>1 DEF SentBy
  <1>5. ASSUME place' = "execute", ShouldSend(TheEvent, todo[at].type)
        PROVE  this \in effects' \/ Sends(script', call)
    <2>1. call \in {"publish", "post"}
      BY DEF CallOf
    <2>2. CASE BeginAction
      <3>1. CASE createActionSchemaByEventType(TheEvent, todo[at])
        <4>1. script' = executeSingleAction(TheEvent, ParsedCreate(todo[at]))
          BY <2>2, <3>1 DEF BeginAction
        <4>2. todo[at] \in ActionRow
          BY <1>2
        <4>3. ParsedCreate(todo[at]) \in ActionRow /\ ParsedCreate(todo[at]).type = todo[at].type
          BY <3>1, <4>2, ParsingSettles DEF ParsedCreate, ActionRow
        <4>4. TheEvent \in HandledEvent
          <5>1. message[current] \in MessageType
            BY <1>1 DEF WorkerInv, MessageInv
          <5> QED
            BY <5>1, EventAssumption DEF MessageType, TheEvent, EventAssumption
        <4> QED
          BY <1>5, <4>1, <4>3, <4>4, ScriptsSend
      <3>2. CASE ~createActionSchemaByEventType(TheEvent, todo[at])
        <4>1. place' = "fail"
          BY <2>2, <3>2 DEF BeginAction
        <4> QED
          BY <1>5, <4>1
      <3> QED
        BY <3>1, <3>2
    <2>3. CASE ~BeginAction
      <3>1. /\ place = "execute" /\ script # <<>>
            /\ \/ script' = Tail(script) /\ Head(script) \in {"viewer", "address", "analyse"}
               \/ /\ script' = Tail(script) /\ Head(script) = "publish"
                  /\ Effect("publish") \in effects'
               \/ /\ script' = Tail(script) /\ Head(script) = "post"
                  /\ Effect("post") \in effects'
        <4>1. CASE LoadViewer
          BY <1>5, <4>1 DEF LoadViewer, Calls, Fails
        <4>2. CASE Ask("address") \/ Ask("analyse")
          BY <1>5, <4>2 DEF Ask, Calls, Fails
        <4>3. CASE AnswerRefusal \/ CallThrows
          BY <1>5, <4>3 DEF AnswerRefusal, CallThrows, Fails
        <4>4. CASE Publish
          BY <1>5, <4>4 DEF Publish, Calls
        <4>5. CASE Post
          BY <1>5, <4>5 DEF Post, Calls, Fails
        <4> QED
          BY <2>3, <4>1, <4>2, <4>3, <4>4, <4>5 DEF ExecutorStep
      <3>2. SentBy(current, LastRun, at) \in effects \/ Sends(script, call)
        BY <1>5, <3>1 DEF SuccessInv
      <3>3. CASE this \in effects
        BY <1>1, <3>3
      <3>4. CASE Sends(script, call) /\ Head(script) \notin {call, "refuse"}
        BY <1>2, <3>1, <3>4, SendsTail
      <3>5. CASE Head(script) \in {call, "refuse"}
        BY <1>3, <2>1, <3>1, <3>5
      <3> QED
        BY <1>3, <3>2, <3>3, <3>4, <3>5
    <2> QED
      BY <2>2, <2>3
  <1>6. /\ TheEvent' = TheEvent /\ call' = call
    BY <1>1 DEF TheEvent
  <1>7. place' = "execute" /\ ShouldSend(TheEvent', todo'[at'].type) =>
          \/ SentBy(current, LastRun, at)' \in effects'
          \/ Sends(script', CallOf(todo'[at'].type))
    BY <1>1, <1>4, <1>5, <1>6
  <1> HIDE DEF call, this
  <1>8. \A m \in Message : \A i \in DOMAIN runs'[m] : \A k \in DOMAIN runs'[m][i].actions :
          /\ k <= runs'[m][i].succeeded
          /\ ShouldSend(message'[m].event, runs'[m][i].actions[k].type)
          => SentBy(m, i, k)' \in effects'
    BY <1>1 DEF SuccessInv, SentBy
  <1> QED
    BY <1>1, <1>7, <1>8 DEF SuccessInv

\* An action is marked only when its script is used up, its call made.
LEMMA SuccessFinishAction ==
  ASSUME WorkerInv, SuccessInv, FinishAction
  PROVE  SuccessInv'
  <1>1. /\ place = "execute" /\ place' = (IF at < Len(todo) THEN "begin" ELSE "finish")
        /\ at' = at + 1
        /\ UNCHANGED <<message, current, todo, effects>>
        /\ runs' \in [Message -> Seq(Run)]
        /\ \A n \in Message : Len(runs'[n]) = Len(runs[n])
        /\ \A n \in Message : n # current => runs'[n] = runs[n]
        /\ \A k \in 1..Len(runs[current]) : k # LastRun => runs'[current][k] = runs[current][k]
        /\ runs'[current][LastRun] = [runs[current][LastRun] EXCEPT !.succeeded = at]
    BY FinishActionSteps
  <1>2. /\ current \in Message /\ LastRun \in 1..Len(runs[current])
        /\ runs[current][LastRun] \in Run
        /\ runs[current][LastRun].actions = todo
        /\ runs[current][LastRun].status = "Running"
        /\ at = runs[current][LastRun].succeeded + 1
        /\ at \in DOMAIN todo /\ todo \in Seq(ActionRow)
        /\ runs \in [Message -> Seq(Run)]
    BY <1>1, TheRun DEF Running, WorkerInv, RunTypes, LocalTypes
  <1>3. /\ runs'[current][LastRun].status = "Running"
        /\ runs'[current][LastRun].actions = todo
        /\ runs'[current][LastRun].succeeded = at
        /\ runs[current][LastRun].succeeded \in Nat
    BY <1>1, <1>2 DEF Run
  <1>4. \A n \in Message : DOMAIN runs'[n] = DOMAIN runs[n] /\ DOMAIN runs[n] = 1..Len(runs[n])
    BY <1>1, <1>2
  <1>5. ShouldSend(TheEvent, todo[at].type) =>
          SentBy(current, LastRun, at) \in effects
    <2>1. script = <<>>
      BY DEF FinishAction
    <2>2. \A c : ~Sends(script, c)
      BY <2>1 DEF Sends
    <2> QED
      BY <1>1, <2>2 DEF SuccessInv
  <1>6. \A m \in Message : \A i \in DOMAIN runs[m] :
          runs'[m][i].actions = runs[m][i].actions
    BY <1>1, <1>2, <1>3, <1>4
  <1>7. ASSUME NEW m \in Message, NEW i \in DOMAIN runs'[m],
               NEW k \in DOMAIN runs'[m][i].actions, k <= runs'[m][i].succeeded,
               ShouldSend(message[m].event, runs'[m][i].actions[k].type)
        PROVE  SentBy(m, i, k)' \in effects
    <2>1. i \in DOMAIN runs[m] /\ SentBy(m, i, k)' = SentBy(m, i, k)
      BY <1>4, <1>6 DEF SentBy
    <2>2. CASE m = current /\ i = LastRun
      <3>1. CASE k = at
        BY <1>3, <1>5, <1>7, <2>1, <2>2, <3>1 DEF TheEvent
      <3>2. CASE k # at
        <4>1. k \in DOMAIN todo /\ k <= at
          BY <1>3, <1>7, <2>2
        <4>2. k <= runs[current][LastRun].succeeded
          BY <1>2, <1>3, <3>2, <4>1
        <4> QED
          BY <1>2, <1>3, <1>7, <2>1, <2>2, <4>1, <4>2 DEF SuccessInv
      <3> QED
        BY <3>1, <3>2
    <2>3. CASE ~(m = current /\ i = LastRun)
      <3>1. runs'[m][i] = runs[m][i]
        BY <1>1, <1>4, <2>1, <2>3
      <3> QED
        BY <1>7, <2>1, <3>1 DEF SuccessInv
    <2> QED
      BY <2>2, <2>3
  <1>8. \A m \in Message : \A i \in DOMAIN runs'[m] :
          runs'[m][i].status = "Succeeded" => runs'[m][i].succeeded = Len(runs'[m][i].actions)
    <2> SUFFICES ASSUME NEW m \in Message, NEW i \in DOMAIN runs'[m], runs'[m][i].status = "Succeeded"
                 PROVE  runs'[m][i].succeeded = Len(runs'[m][i].actions)
      OBVIOUS
    <2>1. ~(m = current /\ i = LastRun)
      BY <1>3
    <2>2. runs'[m][i] = runs[m][i] /\ i \in DOMAIN runs[m]
      BY <1>1, <1>4, <2>1
    <2> QED
      BY <2>2 DEF SuccessInv
  <1>9. place' = "finish" => at' = Len(todo) + 1
    BY <1>1, <1>2
  <1> QED
    BY <1>1, <1>7, <1>8, <1>9 DEF SuccessInv

\* A run is marked Succeeded only after its last action.
LEMMA SuccessEnd ==
  ASSUME WorkerInv, SuccessInv, EndStep
  PROVE  SuccessInv'
  <1>1. PICK outcome \in {"ready", "acked", "dead"} :
          /\ place # "idle" /\ UNCHANGED <<handlerFrame, effects>>
          /\ Settle(outcome) /\ Outcome(outcome)
    BY EndSteps
  <1>2. place' = "idle" /\ UNCHANGED <<message, effects>>
    BY <1>1 DEF Settle
  <1>3. CASE runs' = runs
    BY <1>2, <1>3, SuccessKept
  <1>4. CASE runs' # runs
    <2>1. PICK status \in {"Succeeded", "Failed"}, cause \in {None, "refused", "unparsed", "threw"} :
            /\ place \in Running /\ EndRun(status, cause)
            /\ status = "Succeeded" => place = "finish"
      BY <1>1, <1>4 DEF Outcome, Running
    <2>2. /\ LastRun \in 1..Len(runs[current]) /\ runs[current][LastRun] \in Run
          /\ runs[current] # <<>> /\ runs[current][LastRun].actions = todo
          /\ at = runs[current][LastRun].succeeded + 1 /\ current \in Message
          /\ runs \in [Message -> Seq(Run)] /\ todo \in Seq(ActionRow)
      BY <2>1, TheRun DEF WorkerInv, RunTypes, LocalTypes
    <2>3. /\ \A n \in Message : Len(runs'[n]) = Len(runs[n])
          /\ \A n \in Message : n # current => runs'[n] = runs[n]
          /\ \A k \in 1..Len(runs[current]) : k # LastRun => runs'[current][k] = runs[current][k]
          /\ runs'[current][LastRun] =
               [runs[current][LastRun] EXCEPT !.status = status, !.cause = cause]
          /\ runs' \in [Message -> Seq(Run)]
      BY <2>1, <2>2, RunEnds
    <2>4. /\ runs'[current][LastRun].status = status
          /\ runs'[current][LastRun].actions = todo
          /\ runs'[current][LastRun].succeeded = runs[current][LastRun].succeeded
          /\ runs[current][LastRun].succeeded \in Nat
      BY <2>2, <2>3 DEF Run
    <2>5. \A n \in Message : DOMAIN runs'[n] = DOMAIN runs[n] /\ DOMAIN runs[n] = 1..Len(runs[n])
      BY <2>2, <2>3
    <2>6. \A m \in Message : \A i \in DOMAIN runs[m] :
            /\ runs'[m][i].actions = runs[m][i].actions
            /\ runs'[m][i].succeeded = runs[m][i].succeeded
      BY <2>2, <2>3, <2>4, <2>5
    <2>7. status = "Succeeded" => runs[current][LastRun].succeeded = Len(todo)
      BY <2>1, <2>2, <2>4 DEF SuccessInv
    <2>8. \A m \in Message : \A i \in DOMAIN runs'[m] :
            runs'[m][i].status = "Succeeded" => runs'[m][i].succeeded = Len(runs'[m][i].actions)
      <3> SUFFICES ASSUME NEW m \in Message, NEW i \in DOMAIN runs'[m], runs'[m][i].status = "Succeeded"
                   PROVE  runs'[m][i].succeeded = Len(runs'[m][i].actions)
        OBVIOUS
      <3>1. CASE m = current /\ i = LastRun
        BY <2>4, <2>7, <3>1
      <3>2. CASE ~(m = current /\ i = LastRun)
        <4>1. runs'[m][i] = runs[m][i] /\ i \in DOMAIN runs[m]
          BY <2>3, <2>5, <3>2
        <4> QED
          BY <4>1 DEF SuccessInv
      <3> QED
        BY <3>1, <3>2
    <2>9. \A m \in Message : \A i \in DOMAIN runs'[m] : \A k \in DOMAIN runs'[m][i].actions :
            /\ k <= runs'[m][i].succeeded
            /\ ShouldSend(message'[m].event, runs'[m][i].actions[k].type)
            => SentBy(m, i, k)' \in effects'
      BY <1>2, <2>5, <2>6 DEF SuccessInv, SentBy
    <2> QED
      BY <1>2, <2>8, <2>9 DEF SuccessInv
  <1> QED
    BY <1>3, <1>4

\* What a success stands for holds of every behaviour.
LEMMA Successes == Spec => [](EventInv /\ SuccessInv)
  <1>1. Init => SuccessInv
    BY DEF Init, SuccessInv
  <1>2. EventInv /\ SuccessInv /\ [Next]_vars => SuccessInv'
    <2> SUFFICES ASSUME EventInv, SuccessInv, [Next]_vars PROVE SuccessInv'
      OBVIOUS
    <2>1. UserInv /\ WorkerInv
      BY DEF EventInv
    <2>2. CASE UNCHANGED vars
      <3>1. /\ UNCHANGED <<message, runs, effects, place, current, todo, at, script>>
            /\ UNCHANGED TheEvent
        BY <2>2 DEF vars, queueVars, localVars, TheEvent
      <3> QED
        BY <2>1, <3>1, SuccessKept
    <2>3. CASE User
      <3>1. UNCHANGED workerVars
        BY <2>1, <2>3, UserSteps DEF WorkerInv, QueueTypes
      <3>2. /\ UNCHANGED <<message, runs, effects, place, current, todo, at, script>>
            /\ UNCHANGED TheEvent
        BY <3>1 DEF workerVars, localVars, TheEvent
      <3> QED
        BY <2>1, <3>2, SuccessKept
    <2>4. CASE \/ \E m \in Message, e \in Event, a \in EventAction \cup {Null}, attached \in BOOLEAN :
                    GitHubSends(m, e, a, attached)
               \/ \E m \in Message : Deliver(m)
      <3>1. UNCHANGED <<runs, effects>>
        BY <2>1, <2>4, QueueSteps
      <3>2. /\ \A m \in Message : runs[m] # <<>> => message'[m] = message[m]
            /\ place' \in {"execute", "finish"} =>
                 place' = place /\ UNCHANGED <<TheEvent, current, todo, at, script>>
        <4>1. CASE \E m \in Message : Deliver(m)
          BY <4>1 DEF Deliver
        <4>2. CASE \E m \in Message, e \in Event, a \in EventAction \cup {Null}, attached \in BOOLEAN :
                     GitHubSends(m, e, a, attached)
          <5>1. PICK m \in Message, e \in Event, a \in EventAction \cup {Null}, attached \in BOOLEAN :
                  GitHubSends(m, e, a, attached)
            BY <4>2
          <5>2. /\ queue[m] = "unsent"
                /\ message' = [message EXCEPT ![m] = [event |-> e, action |-> a, attached |-> attached]]
                /\ UNCHANGED <<place, current, todo, at, script>>
            BY <5>1 DEF GitHubSends, localVars
          <5>3. \A n \in Message : n # m => message'[n] = message[n]
            BY <2>1, <5>2 DEF WorkerInv, QueueTypes
          <5>4. runs[m] = <<>>
            BY <2>1, <5>2 DEF WorkerInv, MessageInv
          <5>5. place # "idle" => current \in Message /\ current # m
            BY <2>1, <5>2 DEF WorkerInv, MessageInv
          <5>6. place # "idle" => UNCHANGED TheEvent
            BY <5>2, <5>3, <5>5 DEF TheEvent
          <5> QED
            BY <5>2, <5>3, <5>4, <5>6
        <4> QED
          BY <2>4, <4>1, <4>2
      <3> QED
        BY <2>1, <3>1, <3>2, SuccessKept
    <2>5. CASE HandlerStep
      <3>1. UpkeepStep \/ FindWorkflow \/ FindActions \/ CreateRun \/ ExecutorStep \/ FinishAction
              \/ EndStep
        BY <2>5, HandlerSteps
      <3>2. CASE FindWorkflow \/ FindActions
        <4>1. UNCHANGED <<message, runs, effects>> /\ place' \notin {"execute", "finish"}
          BY <3>2 DEF FindWorkflow, FindActions
        <4> QED
          BY <2>1, <4>1, SuccessKept
      <3>3. CASE UpkeepStep
        <4>1. UNCHANGED <<message, runs, effects>> /\ place' \notin {"execute", "finish"}
          BY <2>1, <3>3, UpkeepSteps
        <4> QED
          BY <2>1, <4>1, SuccessKept
      <3> QED
        BY <2>1, <3>1, <3>2, <3>3, SuccessCreateRun, SuccessExecutor, SuccessFinishAction, SuccessEnd
    <2> QED
      BY <2>2, <2>3, <2>4, <2>5 DEF Next
  <1> QED
    BY <1>1, <1>2, EventInit, EventNext, PTL DEF Spec

\* A run that reports success has made the call of each of its email actions
\* and webhooks, in every handler that has a branch for them.
THEOREM RealSuccess == Spec => []SuccessIsReal
  <1>1. EventInv /\ SuccessInv => SuccessIsReal
    <2> SUFFICES ASSUME EventInv, SuccessInv, NEW m \in Message, NEW i \in DOMAIN runs[m],
                        runs[m][i].status = "Succeeded",
                        NEW k \in DOMAIN runs[m][i].actions,
                        ShouldSend(message[m].event, runs[m][i].actions[k].type)
                 PROVE  SentBy(m, i, k) \in effects
      BY DEF SuccessIsReal, SentBy
    <2>1. runs[m] \in Seq(Run)
      BY DEF EventInv, WorkerInv, RunTypes
    <2>2. runs[m][i] \in Run
      BY <2>1
    <2>3. runs[m][i].actions \in Seq(ActionRow)
      BY <2>2 DEF Run
    <2>4. k <= Len(runs[m][i].actions)
      BY <2>3
    <2> QED
      BY <2>4 DEF SuccessInv
  <1> QED
    BY <1>1, Successes, PTL
-----------------------------------------------------------------------------
(* Nobody waits in vain.                                                   *)

\* A workflow that has waited for a message since it was sent still is what the
\* lookup of that message's handler asks for; the removal of the repository,
\* whose handler takes the workflow away itself, is none of those messages.
WaitInv ==
  \A m \in Message : ~Removal(m) => \A w \in due[m] :
    /\ message[m] \in MessageType
    /\ message[m].attached
    /\ w \in Rows
    /\ workflow[w].event = message[m].event
    /\ workflow[w].action = LookupAction(message[m].event, message[m].action)
    /\ workflow[w].enabled
    /\ actions[w] # <<>>

FoundInv == place \in HasChosen => chosen \in picked[current]

ServedInv == WaitInv /\ FoundInv /\ DueMeansServed

\* The handlers that do not ask for the payload's action are those of events
\* whose payloads name none.
LEMMA LookupIsPayload ==
  ASSUME NEW e \in HandledEvent, githubWorkflowActionRules[e] # {}, NEW a
  PROVE  LookupAction(e, a) = a
  <1>1. e \notin {"fork", "create", "delete", "push"}
    BY DEF HandledEvent, githubWorkflowActionRules, EventType
  <1>2. handlers[e].lookup = FromPayload
    BY <1>1 DEF HandledEvent, EventType, handlers, Handler, Star_event, Watch_event, Label_event,
      Issue_comment_event, Commit_comment_event, Pull_request_event,
      Pull_request_review_event, Repository_event, Issues_event, Workflow_run_event,
      Workflow_job_event
  <1> QED
    BY <1>2 DEF LookupAction

\* No workflow is stored for a payload without an action.
LEMMA NullIsNoAction == Null \notin EventAction
  <1>1. ASSUME NEW e \in EventType PROVE Null \notin githubWorkflowActionRules[e]
    BY DEF githubWorkflowActionRules, Null, EventType
  <1>2. Event \subseteq EventType
    BY EventAssumption DEF EventAssumption, HandledEvent
  <1> QED
    BY <1>1, <1>2 DEF EventAction

\* Messages that were acknowledged stay as they were: a workflow may only stop
\* to wait for them.
LEMMA ServedKept ==
  ASSUME DueMeansServed,
         \A m \in Message : runs[m] # <<>> => runs'[m] # <<>>,
         \A m \in Message : queue'[m] = "acked" =>
           /\ queue[m] = "acked" /\ due'[m] \subseteq due[m]
           /\ picked'[m] = picked[m] /\ message'[m] = message[m]
  PROVE  DueMeansServed'
  <1> SUFFICES ASSUME NEW m \in Message, queue'[m] = "acked", ~Removal(m)'
               PROVE  Served(m)'
    BY DEF DueMeansServed
  <1>1. /\ queue[m] = "acked" /\ due'[m] \subseteq due[m]
        /\ picked'[m] = picked[m] /\ message'[m] = message[m]
        /\ runs[m] # <<>> => runs'[m] # <<>>
    OBVIOUS
  <1>2. ~Removal(m)
    BY <1>1 DEF Removal
  <1>3. Served(m)
    BY <1>1, <1>2 DEF DueMeansServed
  <1> QED
    BY <1>1, <1>3 DEF Served

\* What the handler does leaves the waiting workflows alone.
LEMMA WaitKept ==
  ASSUME WaitInv, UNCHANGED <<userVars, message, due>>
  PROVE  WaitInv'
  BY DEF WaitInv, userVars, Rows, Removal

\* A user's edit takes its workflow from those that wait; a new one joins none.
LEMMA ServedEdit ==
  ASSUME UserInv, WorkerInv, ServedInv, User, ~Uninstall
  PROVE  ServedInv'
  <1>1. /\ workflow \in [Workflow -> WorkflowRow \cup {Absent}]
        /\ actions \in [Workflow -> Seq(ActionRow)]
        /\ due \in [Message -> SUBSET Workflow]
    BY DEF UserInv, UserTypes, WorkerInv, QueueTypes
  <1>2. UNCHANGED workerVars
    BY <1>1, UserSteps
  <1>3. \E v \in Workflow :
          /\ \A w \in Workflow : w # v => workflow'[w] = workflow[w] /\ actions'[w] = actions[w]
          /\ \A m \in Message : due'[m] \subseteq due[m]
          /\ \/ Changed(v)
             \/ workflow[v] = Absent
             \/ UNCHANGED <<workflow, actions>>
    <2>1. CASE \E w \in Workflow, e \in Event, a \in EventAction : CreateWorkflow(w, e, a)
      BY <1>1, <2>1 DEF CreateWorkflow
    <2>2. CASE \E w \in Workflow, e \in Event : UpdateEventType(w, e)
      BY <1>1, <2>2 DEF UpdateEventType, Changed
    <2>3. CASE \E w \in Workflow : UpdateEnabled(w)
      BY <1>1, <2>3 DEF UpdateEnabled, Changed
    <2>4. CASE \E w \in Workflow, action \in Sent : CreateActionReads(w, action)
      BY <2>4 DEF CreateActionReads
    <2>5. CASE CreateActionWrites \/ UpdateActionWrites
      <3>1. request.workflow \in Workflow
        BY <2>5 DEF UserInv, RequestInv, Rows, CreateActionWrites, UpdateActionWrites
      <3>2. /\ UNCHANGED workflow /\ Changed(request.workflow)
            /\ \A w \in Workflow : w # request.workflow => actions'[w] = actions[w]
        BY <1>1, <2>5 DEF CreateActionWrites, UpdateActionWrites
      <3> QED
        BY <1>1, <3>1, <3>2 DEF Changed
    <2>6. CASE \E w \in Workflow, i \in 1..MaxActions, action \in Sent :
                 UpdateActionReads(w, i, action)
      BY <2>6 DEF UpdateActionReads
    <2> QED
      BY <2>1, <2>2, <2>3, <2>4, <2>5, <2>6 DEF User
  <1>4. PICK v \in Workflow :
          /\ \A w \in Workflow : w # v => workflow'[w] = workflow[w] /\ actions'[w] = actions[w]
          /\ \A m \in Message : due'[m] \subseteq due[m]
          /\ \/ Changed(v)
             \/ workflow[v] = Absent
             \/ UNCHANGED <<workflow, actions>>
    BY <1>3
  <1>5. UNCHANGED <<message, queue, place, current, chosen, runs, picked>>
    BY <1>2 DEF workerVars, queueVars, localVars
  <1>6. WaitInv'
    <2> SUFFICES ASSUME NEW m \in Message, ~Removal(m)', NEW w \in due'[m]
                 PROVE  /\ message[m] \in MessageType
                        /\ message[m].attached
                        /\ w \in Workflow /\ workflow'[w] # Absent
                        /\ workflow'[w].event = message[m].event
                        /\ workflow'[w].action = LookupAction(message[m].event, message[m].action)
                        /\ workflow'[w].enabled
                        /\ actions'[w] # <<>>
      BY <1>5 DEF WaitInv, Rows
    <2>1. w \in due[m] /\ ~Removal(m)
      BY <1>4, <1>5 DEF Removal
    <2>2. /\ message[m] \in MessageType
          /\ message[m].attached
          /\ w \in Workflow /\ workflow[w] # Absent
          /\ workflow[w].event = message[m].event
          /\ workflow[w].action = LookupAction(message[m].event, message[m].action)
          /\ workflow[w].enabled
          /\ actions[w] # <<>>
      BY <2>1 DEF ServedInv, WaitInv, Rows
    <2>3. Changed(v) => w # v
      BY <1>1 DEF Changed
    <2>4. workflow'[w] = workflow[w] /\ actions'[w] = actions[w]
      BY <1>4, <2>2, <2>3
    <2> QED
      BY <2>2, <2>4
  <1>7. FoundInv'
    BY <1>5 DEF ServedInv, FoundInv
  <1>8. DueMeansServed'
    BY <1>4, <1>5, ServedKept DEF ServedInv
  <1> QED
    BY <1>6, <1>7, <1>8 DEF ServedInv

\* With the app removed nobody waits.
LEMMA ServedUser ==
  ASSUME UserInv, WorkerInv, ServedInv, User
  PROVE  ServedInv'
  <1>1. CASE Uninstall
    <2>1. /\ \A m \in Message : due'[m] = {}
          /\ UNCHANGED <<place, current, chosen, picked>>
      BY <1>1 DEF Uninstall
    <2>2. WaitInv'
      BY <2>1 DEF WaitInv
    <2>3. FoundInv'
      BY <2>1 DEF ServedInv, FoundInv
    <2>4. DueMeansServed'
      BY <2>1 DEF DueMeansServed, Served
    <2> QED
      BY <2>2, <2>3, <2>4 DEF ServedInv
  <1> QED
    BY <1>1, ServedEdit

\* What waits for a new message matches it, and a message that needs no handler
\* is waited for by none.
LEMMA ServedQueue ==
  ASSUME UserInv, WorkerInv, ServedInv,
         \/ \E m \in Message, e \in Event, a \in EventAction \cup {Null}, attached \in BOOLEAN :
              GitHubSends(m, e, a, attached)
         \/ \E m \in Message : Deliver(m)
  PROVE  ServedInv'
  <1>1. /\ workflow \in [Workflow -> WorkflowRow \cup {Absent}]
        /\ QueueTypes /\ MessageInv
        /\ WaitInv /\ FoundInv /\ DueMeansServed
    BY DEF UserInv, UserTypes, WorkerInv, ServedInv
  <1>2. ASSUME NEW m \in Message, NEW e \in Event, NEW a \in EventAction \cup {Null},
               NEW attached \in BOOLEAN, GitHubSends(m, e, a, attached)
        PROVE  ServedInv'
    <2> DEFINE new == [event |-> e, action |-> a, attached |-> attached]
    <2>1. /\ queue[m] = "unsent" /\ message' = [message EXCEPT ![m] = new]
          /\ queue' = [queue EXCEPT ![m] = "ready"]
          /\ due' = [due EXCEPT ![m] = IF attached THEN Expecting(e, a) ELSE {}]
          /\ IF githubWorkflowActionRules[e] = {} THEN a = Null
             ELSE a \in githubWorkflowActionRules[e]
          /\ UNCHANGED <<userVars, place, localVars, runs, picked>>
      BY <1>2 DEF GitHubSends
    <2>2. /\ new \in MessageType /\ new.event = e /\ new.action = a
          /\ new.attached = attached
      BY DEF MessageType
    <2> HIDE DEF new
    <2>3. /\ \A n \in Message : n # m =>
               message'[n] = message[n] /\ queue'[n] = queue[n] /\ due'[n] = due[n]
          /\ message'[m] = new /\ queue'[m] = "ready"
          /\ due'[m] = IF attached THEN Expecting(e, a) ELSE {}
      BY <1>1, <2>1 DEF QueueTypes
    <2>4. UNCHANGED <<workflow, actions, place, current, chosen, runs, picked>>
      BY <2>1 DEF userVars, localVars
    <2>5. ASSUME NEW w \in due'[m]
          PROVE  /\ attached /\ w \in Rows /\ workflow[w].event = e
                 /\ workflow[w].action = LookupAction(e, a)
                 /\ workflow[w].enabled /\ actions[w] # <<>>
      <3>1. /\ attached /\ w \in Rows /\ workflow[w].event = e /\ workflow[w].action = a
            /\ workflow[w].enabled /\ actions[w] # <<>>
        BY <2>3, <2>5 DEF Expecting
      <3>2. workflow[w].action \in EventAction
        BY <1>1, <3>1 DEF Rows, WorkflowRow
      <3>3. githubWorkflowActionRules[e] # {}
        BY <2>1, <3>1, <3>2, NullIsNoAction
      <3>4. e \in HandledEvent
        BY EventAssumption DEF EventAssumption
      <3>5. LookupAction(e, a) = a
        BY <3>3, <3>4, LookupIsPayload
      <3> QED
        BY <3>1, <3>5
    <2>6. WaitInv'
      <3> SUFFICES ASSUME NEW n \in Message, ~Removal(n)', NEW w \in due'[n]
                   PROVE  /\ message'[n] \in MessageType
                          /\ message'[n].attached
                          /\ w \in Rows
                          /\ workflow[w].event = message'[n].event
                          /\ workflow[w].action =
                               LookupAction(message'[n].event, message'[n].action)
                          /\ workflow[w].enabled
                          /\ actions[w] # <<>>
        BY <2>4 DEF WaitInv, Rows
      <3>1. CASE n = m
        BY <2>2, <2>3, <2>5, <3>1
      <3>2. CASE n # m
        <4>1. ~Removal(n)
          BY <2>3, <3>2 DEF Removal
        <4> QED
          BY <1>1, <2>3, <3>2, <4>1 DEF WaitInv
      <3> QED
        BY <3>1, <3>2
    <2>7. FoundInv'
      BY <1>1, <2>4 DEF FoundInv
    <2>8. DueMeansServed'
      BY <1>1, <2>3, <2>4, ServedKept
    <2> QED
      BY <2>6, <2>7, <2>8 DEF ServedInv
  <1>3. ASSUME NEW m \in Message, Deliver(m)
        PROVE  ServedInv'
    <2>1. /\ queue[m] = "ready"
          /\ UNCHANGED <<userVars, message, chosen, runs, due, picked>>
      BY <1>3 DEF Deliver
    <2>2. /\ queue' = [queue EXCEPT ![m] = IF Starts(m) THEN "handled" ELSE "acked"]
          /\ place' \in {"connection", "workflow"} \/ UNCHANGED <<place, current>>
      BY <1>3 DEF Deliver
    <2>3. WaitInv'
      BY <1>1, <2>1, WaitKept
    <2>4. FoundInv'
      BY <1>1, <2>1, <2>2 DEF FoundInv, HasChosen
    <2>5. CASE Starts(m)
      <3>1. \A n \in Message : queue'[n] = "acked" => queue[n] = "acked"
        BY <1>1, <2>2, <2>5 DEF QueueTypes
      <3> QED
        BY <1>1, <2>1, <2>3, <2>4, <3>1, ServedKept DEF ServedInv
    <2>6. CASE ~Starts(m)
      <3>1. \A n \in Message : n # m => queue'[n] = queue[n]
        BY <1>1, <2>2 DEF QueueTypes
      <3>2. ~Removal(m) /\ message[m].event \in Routed => due[m] = {}
        BY <1>1, <2>6 DEF WaitInv, Starts
      <3>3. DueMeansServed'
        BY <1>1, <2>1, <3>1, <3>2 DEF DueMeansServed, Served, Removal
      <3> QED
        BY <2>3, <2>4, <3>3 DEF ServedInv
    <2> QED
      BY <2>5, <2>6
  <1> QED
    BY <1>2, <1>3

\* A handler acknowledges a message when it finds no workflow, of which then
\* none waits; when the one it found has no actions, which then did not wait;
\* and after a run.
LEMMA ServedHandler ==
  ASSUME UserInv, WorkerInv, ServedInv, HandlerStep
  PROVE  ServedInv'
  <1>1. /\ QueueTypes /\ MessageInv /\ PlaceInv /\ RunTypes
        /\ WaitInv /\ FoundInv /\ DueMeansServed
    BY DEF WorkerInv, ServedInv
  <1>2. UpkeepStep \/ FindWorkflow \/ FindActions \/ CreateRun \/ ExecutorStep \/ FinishAction
          \/ EndStep
    BY HandlerSteps
  <1>3. current \in Message /\ queue[current] = "handled" /\ TheEvent \in Routed
    <2>1. place # "idle"
      BY <1>2, UpkeepSteps, ExecutorSteps, FinishActionSteps, EndSteps DEF FindWorkflow, FindActions, CreateRun
    <2> QED
      BY <1>1, <2>1 DEF MessageInv, TheEvent
  <1>4. CASE FindWorkflow
    <2>1. PICK w \in Rows : chosen' = w /\ picked' = [picked EXCEPT ![current] = @ \cup {w}]
      BY <1>4 DEF FindWorkflow
    <2>2. UNCHANGED <<userVars, message, due, queue, current, runs>>
      BY <1>4 DEF FindWorkflow, lookupFrame
    <2>3. WaitInv'
      BY <1>1, <2>2, WaitKept
    <2>4. FoundInv'
      BY <1>1, <1>3, <2>1, <2>2 DEF FoundInv, QueueTypes
    <2>5. \A m \in Message : queue[m] = "acked" => picked'[m] = picked[m]
      BY <1>1, <1>3, <2>1 DEF QueueTypes
    <2>6. DueMeansServed'
      BY <1>1, <2>2, <2>5, ServedKept
    <2> QED
      BY <2>3, <2>4, <2>6 DEF ServedInv
  <1>5. CASE FindActions \/ ExecutorStep \/ CreateRun \/ FinishAction
    <2>1. /\ UNCHANGED <<userVars, message, due, queue, current, chosen, picked>>
          /\ place \in HasChosen
          /\ \A m \in Message : runs[m] # <<>> => runs'[m] # <<>>
      <3>1. CASE FindActions
        BY <3>1 DEF FindActions, handlerFrame, lookupFrame, HasChosen
      <3>2. CASE ExecutorStep
        BY <3>2, ExecutorSteps DEF HasChosen
      <3>3. CASE CreateRun
        <4>1. /\ UNCHANGED <<userVars, message, due, queue, current, chosen, picked>>
              /\ place = "run"
              /\ runs' = [runs EXCEPT ![current] =
                            Append(@, [workflow |-> chosen, actions |-> todo, succeeded |-> 0,
                                       status |-> "Running", cause |-> None])]
          BY <3>3 DEF CreateRun, handlerFrame, lookupFrame
        <4>2. runs[current] \in Seq(Run)
          BY <1>1, <1>3 DEF RunTypes
        <4>3. runs'[current] # <<>> /\ \A m \in Message : m # current => runs'[m] = runs[m]
          BY <1>1, <1>3, <4>1, <4>2 DEF RunTypes
        <4> QED
          BY <4>1, <4>3 DEF HasChosen
      <3>4. CASE FinishAction
        <4>1. /\ place = "execute" /\ UNCHANGED <<handlerFrame, queue, current, chosen>>
              /\ runs' \in [Message -> Seq(Run)]
              /\ \A m \in Message : Len(runs'[m]) = Len(runs[m])
          BY <3>4, FinishActionSteps
        <4>2. \A m \in Message : runs[m] # <<>> => runs'[m] # <<>>
          BY <1>1, <4>1 DEF RunTypes
        <4> QED
          BY <4>1, <4>2 DEF handlerFrame, lookupFrame, HasChosen
      <3> QED
        BY <1>5, <3>1, <3>2, <3>3, <3>4
    <2>2. WaitInv'
      BY <1>1, <2>1, WaitKept
    <2>3. FoundInv'
      BY <1>1, <2>1 DEF FoundInv
    <2>4. DueMeansServed'
      BY <1>1, <2>1, ServedKept
    <2> QED
      BY <2>2, <2>3, <2>4 DEF ServedInv
  <1>6. CASE EndStep
    <2>1. /\ UNCHANGED <<handlerFrame, effects>>
          /\ \E outcome \in {"ready", "acked", "dead"} : Settle(outcome) /\ Outcome(outcome)
      BY <1>6, EndSteps
    <2>2. PICK outcome \in {"ready", "acked", "dead"} : Settle(outcome) /\ Outcome(outcome)
      BY <2>1
    <2>3. UNCHANGED <<userVars, message, due, picked>>
      BY <2>1 DEF handlerFrame, lookupFrame
    <2>4. /\ queue' = [queue EXCEPT ![current] = outcome] /\ place' = "idle"
          /\ \A m \in Message : m # current => queue'[m] = queue[m]
          /\ queue'[current] = outcome
      BY <1>1, <1>3, <2>2 DEF Settle, QueueTypes
    <2>5. WaitInv'
      BY <1>1, <2>3, WaitKept
    <2>6. FoundInv'
      BY <2>4 DEF FoundInv, HasChosen
    <2>7. \A m \in Message : runs[m] # <<>> => runs'[m] # <<>>
      <3>1. \/ runs' = runs
            \/ /\ place \in Running
               /\ \E status \in {"Succeeded", "Failed"},
                     cause \in {None, "refused", "unparsed", "threw"} : EndRun(status, cause)
        BY <2>2 DEF Outcome, Running
      <3>2. \A m \in Message : Len(runs'[m]) = Len(runs[m]) /\ runs'[m] \in Seq(Run)
        BY <1>1, <3>1, TheRun, RunEnds DEF RunTypes
      <3> QED
        BY <1>1, <3>2 DEF RunTypes
    <2>8. CASE outcome # "acked"
      <3>1. DueMeansServed'
        BY <1>1, <2>3, <2>4, <2>7, <2>8, ServedKept
      <3> QED
        BY <2>5, <2>6, <3>1 DEF ServedInv
    <2>9. CASE outcome = "acked"
      <3>1. FindNoConnection \/ FindNoWorkflow \/ FindNoActions \/ FinishRun
        <4>1. ASSUME NEW other \in {"ready", "dead"}, Settle(other) PROVE FALSE
          BY <1>1, <1>3, <2>4, <2>9, <4>1 DEF Settle, QueueTypes
        <4>2. ~FailRun
          BY <4>1 DEF FailRun
        <4>3. ~DatabaseFails
          BY <4>1 DEF DatabaseFails
        <4>4. ~DatabaseFailsTwice
          BY <4>1 DEF DatabaseFailsTwice
        <4> QED
          BY <1>6, <4>2, <4>3, <4>4 DEF EndStep
      <3>2. ~Removal(current) /\ due[current] # {} =>
              /\ picked[current] # {}
              /\ picked[current] \subseteq due[current] => runs'[current] # <<>>
        <4>0. CASE FindNoConnection
          <5>1. Rows = {}
            BY <4>0 DEF FindNoConnection, UserInv, UserTypes
          <5> QED
            BY <1>1, <1>3, <5>1 DEF WaitInv
        <4>1. CASE FindNoWorkflow
          <5>1. \A w \in Rows : ~Matches(w)
            BY <4>1 DEF FindNoWorkflow
          <5>2. ~Removal(current) => \A w \in due[current] : w \in Rows /\ Matches(w)
            BY <1>1, <1>3 DEF WaitInv, Matches, TheEvent
          <5> QED
            BY <5>1, <5>2
        <4>2. CASE FindNoActions
          <5>1. chosen \in picked[current] /\ actions[chosen] = <<>>
            BY <1>1, <4>2 DEF FindNoActions, FoundInv, HasChosen
          <5>2. ~Removal(current) => chosen \notin due[current]
            BY <1>1, <1>3, <5>1 DEF WaitInv
          <5> QED
            BY <5>1, <5>2
        <4>3. CASE FinishRun
          <5>1. place = "finish"
            BY <4>3 DEF FinishRun
          <5>2. chosen \in picked[current] /\ runs[current] # <<>>
            BY <1>1, <5>1 DEF FoundInv, HasChosen, PlaceInv, Running
          <5> QED
            BY <1>3, <2>7, <5>2
        <4> QED
          BY <3>1, <4>0, <4>1, <4>2, <4>3
      <3>3. DueMeansServed'
        <4> SUFFICES ASSUME NEW m \in Message, queue'[m] = "acked", ~Removal(m)'
                     PROVE  Served(m)'
          BY DEF DueMeansServed
        <4>0. ~Removal(m)
          BY <2>3 DEF Removal
        <4>1. CASE m = current
          BY <2>3, <3>2, <4>0, <4>1 DEF Served
        <4>2. CASE m # current
          BY <1>1, <2>3, <2>4, <2>7, <4>0, <4>2 DEF DueMeansServed, Served
        <4> QED
          BY <4>1, <4>2
      <3> QED
        BY <2>5, <2>6, <3>3 DEF ServedInv
    <2> QED
      BY <2>8, <2>9
  <1>7. CASE UpkeepStep
    <2>1. /\ place' \in {"table", "workflow"}
          /\ UNCHANGED <<message, picked, queue, localVars, runs>>
          /\ \/ UNCHANGED <<workflow, actions, due>>
             \/ /\ DeleteRepository
                /\ \A m \in Message : due'[m] = IF m = current THEN due[m] ELSE {}
      BY <1>7, UpkeepSteps
    <2>2. WaitInv'
      <3>1. CASE UNCHANGED <<workflow, actions, due>>
        BY <1>1, <2>1, <3>1 DEF WaitInv, Rows, Removal
      <3>2. CASE DeleteRepository /\ \A m \in Message : due'[m] = IF m = current THEN due[m] ELSE {}
        <4>1. Removal(current)'
          BY <2>1, <3>2 DEF DeleteRepository, Removal
        <4> QED
          BY <2>1, <3>2, <4>1 DEF WaitInv
      <3> QED
        BY <2>1, <3>1, <3>2
    <2>3. FoundInv'
      BY <2>1 DEF FoundInv, HasChosen
    <2>4. \A m \in Message : due'[m] \subseteq due[m]
      BY <2>1
    <2>5. DueMeansServed'
      BY <1>1, <2>1, <2>4, ServedKept
    <2> QED
      BY <2>2, <2>3, <2>5 DEF ServedInv
  <1> QED
    BY <1>2, <1>4, <1>5, <1>6, <1>7

\* A message of an event main has a case for is not acknowledged over the head
\* of a workflow that has waited for it unchanged, whatever else the user edits
\* or uninstalls meanwhile, unless it tells of the removal of its repository.
THEOREM NobodyWaitsInVain == Spec => []DueMeansServed
  <1>1. Init => ServedInv
    BY DEF Init, ServedInv, WaitInv, FoundInv, HasChosen, DueMeansServed
  <1>2. EventInv /\ ServedInv /\ [Next]_vars => ServedInv'
    <2> SUFFICES ASSUME EventInv, ServedInv, [Next]_vars PROVE ServedInv'
      OBVIOUS
    <2>1. UserInv /\ WorkerInv
      BY DEF EventInv
    <2>2. CASE UNCHANGED vars
      BY <2>2 DEF vars, userVars, queueVars, localVars, ServedInv, WaitInv, Rows, FoundInv,
        DueMeansServed, Served, Removal
    <2> QED
      BY <2>1, <2>2, ServedUser, ServedQueue, ServedHandler DEF Next
  <1>3. ServedInv => DueMeansServed
    BY DEF ServedInv
  <1> QED
    BY <1>1, <1>2, <1>3, EventInit, EventNext, PTL DEF Spec
-----------------------------------------------------------------------------
(* The handlers keep the promise of Automation.                            *)

\* Until it is sent, a message is not there.
SentInv == \A m \in Message : queue[m] = "unsent" => message[m] = Absent

PromiseMoves == Promise!Next \/ UNCHANGED <<message, runs, effects>>

\* What the user edits the promise does not mention.
LEMMA UserKeepsPromise ==
  ASSUME EventInv, SentInv, User
  PROVE  PromiseMoves /\ SentInv'
  <1>1. UserInv /\ due \in [Message -> SUBSET Workflow]
    BY DEF EventInv, WorkerInv, QueueTypes
  <1>2. UNCHANGED workerVars
    BY <1>1, UserSteps
  <1> QED
    BY <1>2 DEF PromiseMoves, SentInv, workerVars, queueVars

\* A message is received once, and handing it over is no step of the promise.
LEMMA QueueKeepsPromise ==
  ASSUME EventInv, SentInv,
         \/ \E m \in Message, e \in Event, a \in EventAction \cup {Null}, attached \in BOOLEAN :
              GitHubSends(m, e, a, attached)
         \/ \E m \in Message : Deliver(m)
  PROVE  PromiseMoves /\ SentInv'
  <1>1. /\ message \in [Message -> MessageType \cup {Absent}]
        /\ queue \in [Message -> {"unsent", "ready", "handled", "acked", "dead"}]
    BY DEF EventInv, WorkerInv, QueueTypes
  <1>2. ASSUME NEW m \in Message, NEW e \in Event, NEW a \in EventAction \cup {Null},
               NEW attached \in BOOLEAN, GitHubSends(m, e, a, attached)
        PROVE  PromiseMoves /\ SentInv'
    <2> DEFINE new == [event |-> e, action |-> a, attached |-> attached]
    <2>1. /\ queue[m] = "unsent" /\ queue' = [queue EXCEPT ![m] = "ready"]
          /\ message' = [message EXCEPT ![m] = new]
          /\ UNCHANGED <<runs, effects>>
      BY <1>2 DEF GitHubSends
    <2> HIDE DEF new
    <2>2. message[m] = Absent
      BY <2>1 DEF SentInv
    <2>3. message'[m] = new
      BY <1>1, <2>1
    <2>4. Promise!Receive(m)
      BY <2>1, <2>2, <2>3 DEF Promise!Receive
    <2>5. SentInv'
      BY <1>1, <2>1 DEF SentInv
    <2> QED
      BY <2>4, <2>5 DEF PromiseMoves, Promise!Next
  <1>3. ASSUME NEW m \in Message, Deliver(m) PROVE PromiseMoves /\ SentInv'
    <2>1. UNCHANGED <<message, runs, effects>> /\ \A n \in Message : queue'[n] = "unsent" => queue[n] = "unsent"
      BY <1>1, <1>3 DEF Deliver
    <2> QED
      BY <2>1 DEF PromiseMoves, SentInv
  <1> QED
    BY <1>2, <1>3

\* A run is created for a message that has none, or an interrupted one.
LEMMA CreateRunKeepsPromise ==
  ASSUME EventInv, DeliveryInv, CreateRun
  PROVE  Promise!Begin(current) /\ current \in Message
  <1> DEFINE new == [workflow |-> chosen, actions |-> todo, succeeded |-> 0,
                     status |-> "Running", cause |-> None]
  <1>1. /\ place = "run" /\ runs' = [runs EXCEPT ![current] = Append(@, new)]
        /\ UNCHANGED <<message, effects>>
    BY DEF CreateRun
  <1>2. WorkerInv
    BY DEF EventInv
  <1>3. /\ current \in Message /\ queue[current] = "handled" /\ todo # <<>>
        /\ runs \in [Message -> Seq(Run)]
        /\ message[current] \in MessageType
    BY <1>1, <1>2 DEF WorkerInv, MessageInv, PlaceInv, RunTypes
  <1>4. new.actions # <<>> /\ new.succeeded = 0 /\ new.status = "Running" /\ new.cause = "none"
    BY <1>3 DEF None
  <1> HIDE DEF new
  <1>5. runs[current] \in Seq(Run)
    BY <1>3
  <1>6. runs'[current] = Append(runs[current], new)
    BY <1>1, <1>3
  <1>7. Len(runs'[current]) = Len(runs[current]) + 1 /\ runs'[current][Len(runs[current]) + 1] = new
    BY <1>5, <1>6
  <1>8. message[current] # Absent
    BY <1>3, AbsentAssumption DEF AbsentAssumption
  <1>9. runs[current] # <<>> => Interrupted(runs[current][Len(runs[current])])
    BY <1>1, <1>3 DEF DeliveryInv, RepeatInv, Looking
  <1> QED
    BY <1>1, <1>3, <1>4, <1>7, <1>8, <1>9
    DEF Promise!Begin, Promise!Last, Promise!Interrupted, Interrupted

\* Where the handler is, the promise has its action at hand.
LEMMA AtHand ==
  ASSUME WorkerInv, place \in Running
  PROVE  /\ current \in Message /\ Promise!AtWork(current)
         /\ Promise!Step(current) = at
         /\ Promise!Last(current) = runs[current][LastRun]
         /\ place # "finish" => Promise!HasNext(current)
  <1>1. /\ current \in Message /\ runs[current] # <<>>
        /\ runs[current][LastRun] \in Run
        /\ runs[current][LastRun].actions = todo
        /\ runs[current][LastRun].status = "Running"
        /\ at = runs[current][LastRun].succeeded + 1
        /\ place # "finish" => at \in DOMAIN todo
        /\ todo \in Seq(ActionRow)
    BY TheRun DEF WorkerInv, LocalTypes
  <1>2. runs[current][LastRun].succeeded \in Nat
    BY <1>1 DEF Run
  <1>3. place # "finish" => runs[current][LastRun].succeeded < Len(todo)
    BY <1>1, <1>2
  <1> QED
    BY <1>1, <1>3 DEF Promise!AtWork, Promise!Step, Promise!Last, Promise!HasNext, LastRun

\* A step of an executor makes one call at most, for the action at hand.
LEMMA ExecutorKeepsPromise ==
  ASSUME WorkerInv, ExecutorStep
  PROVE  Promise!Act(current) \/ UNCHANGED <<message, runs, effects>>
  <1>1. /\ place \in {"begin", "execute"} /\ UNCHANGED <<message, runs>>
    BY ExecutorSteps
  <1>2. effects' = effects \/ \E call \in {"publish", "post"} : effects' = effects \cup {Effect(call)}
    <2>1. CASE BeginAction \/ LoadViewer \/ Ask("address") \/ Ask("analyse") \/ AnswerRefusal
      BY <2>1 DEF BeginAction, LoadViewer, Ask, AnswerRefusal
    <2>2. CASE Publish \/ Post
      BY <2>2 DEF Publish, Post
    <2>3. CASE CallThrows
      BY <2>3 DEF CallThrows
    <2> QED
      BY <2>1, <2>2, <2>3 DEF ExecutorStep
  <1>3. Promise!HasNext(current) /\ Promise!Step(current) = at
    BY <1>1, AtHand DEF Running
  <1>4. \A call : Effect(call) = Promise!Effect(current, call)
    BY <1>3 DEF Effect, Promise!Effect, LastRun
  <1> QED
    BY <1>1, <1>2, <1>3, <1>4 DEF Promise!Act

\* An action passes with its script used up, hence with its call made.
LEMMA FinishActionKeepsPromise ==
  ASSUME WorkerInv, SuccessInv, FinishAction
  PROVE  Promise!Pass(current)
  <1>1. /\ place = "execute" /\ script = <<>>
        /\ runs' = [runs EXCEPT ![current][LastRun].succeeded = at]
        /\ UNCHANGED <<message, effects>>
    BY DEF FinishAction
  <1>2. /\ Promise!HasNext(current) /\ Promise!Step(current) = at
        /\ Promise!Last(current) = runs[current][LastRun]
        /\ current \in Message
    BY <1>1, AtHand DEF Running
  <1>3. /\ runs[current][LastRun].actions = todo
        /\ at = runs[current][LastRun].succeeded + 1
    BY <1>1, TheRun DEF Running
  <1>4. ShouldSend(TheEvent, todo[at].type) =>
          SentBy(current, LastRun, at) \in effects
    <2>1. \A c : ~Sends(script, c)
      BY <1>1 DEF Sends
    <2> QED
      BY <1>1, <2>1 DEF SuccessInv
  <1>5. Promise!Type(current) = todo[at].type
    BY <1>2, <1>3 DEF Promise!Type
  <1>6. SentBy(current, LastRun, at) = Promise!Effect(current, Promise!Call(todo[at].type))
    BY <1>2, <1>3 DEF SentBy, Promise!Effect, Promise!Call, CallOf, LastRun
  <1>7. runs' = [runs EXCEPT ![current][Len(runs[current])].succeeded = @ + 1]
    BY <1>1, <1>3 DEF LastRun
  <1> QED
    BY <1>1, <1>2, <1>4, <1>5, <1>6, <1>7 DEF Promise!Pass, TheEvent

\* The message is answered, and its run, where it has one, ended as it went.
LEMMA EndKeepsPromise ==
  ASSUME WorkerInv, SuccessInv, EndStep
  PROVE  \/ place \in Running /\ (Promise!Succeed(current) \/ Promise!Fail(current))
         \/ UNCHANGED <<message, runs, effects>>
  <1>1. PICK outcome \in {"ready", "acked", "dead"} :
          UNCHANGED <<handlerFrame, effects>> /\ Outcome(outcome)
    BY EndSteps
  <1>2. UNCHANGED <<message, effects>>
    BY <1>1
  <1>3. CASE place = "finish" /\ EndRun("Succeeded", None)
    <2>1. /\ Promise!AtWork(current) /\ Promise!Step(current) = at
          /\ Promise!Last(current) = runs[current][LastRun]
      BY <1>3, AtHand DEF Running
    <2>2. /\ at = Len(todo) + 1 /\ runs[current][LastRun].actions = todo
          /\ at = runs[current][LastRun].succeeded + 1
          /\ runs[current][LastRun] \in Run /\ todo \in Seq(ActionRow)
      BY <1>3, TheRun DEF Running, SuccessInv, WorkerInv, LocalTypes
    <2>3. ~Promise!HasNext(current)
      <3>1. runs[current][LastRun].succeeded = Len(todo)
        BY <2>2 DEF Run
      <3> QED
        BY <2>1, <2>2, <3>1 DEF Promise!HasNext
    <2>4. Promise!End(current, "Succeeded", "none")
      BY <1>2, <1>3, <2>1 DEF Promise!End, EndRun, LastRun, None
    <2> QED
      BY <1>3, <2>3, <2>4 DEF Promise!Succeed, Running
  <1>4. CASE place \in Running /\ EndRun("Failed", "threw")
    <2>1. Promise!AtWork(current)
      BY <1>4, AtHand
    <2>2. Promise!End(current, "Failed", "threw")
      BY <1>2, <1>4, <2>1 DEF Promise!End, EndRun, LastRun
    <2> QED
      BY <1>4, <2>2 DEF Promise!Fail
  <1>5. ASSUME place = "fail", NEW cause \in {"refused", "unparsed"}, EndRun("Failed", cause)
        PROVE  place \in Running /\ Promise!Fail(current)
    <2>1. Promise!AtWork(current) /\ Promise!HasNext(current)
      BY <1>5, AtHand DEF Running
    <2>2. Promise!End(current, "Failed", cause)
      BY <1>2, <1>5, <2>1 DEF Promise!End, EndRun, LastRun
    <2> QED
      BY <1>5, <2>1, <2>2 DEF Promise!Fail, Running
  <1> QED
    BY <1>1, <1>2, <1>3, <1>4, <1>5 DEF Outcome

\* Every step of a handler is one of the promise, or none.
LEMMA HandlerKeepsPromise ==
  ASSUME EventInv, DeliveryInv, SuccessInv, SentInv, HandlerStep
  PROVE  PromiseMoves /\ SentInv'
  <1>1. WorkerInv
    BY DEF EventInv
  <1>2. UpkeepStep \/ FindWorkflow \/ FindActions \/ CreateRun \/ ExecutorStep \/ FinishAction
          \/ EndStep
    BY HandlerSteps
  <1>3. UpkeepStep => UNCHANGED <<message, queue, runs, effects>>
    BY <1>1, UpkeepSteps DEF EventInv
  <1>4. PromiseMoves
    <2>1. CASE UpkeepStep \/ FindWorkflow \/ FindActions
      BY <1>3, <2>1 DEF FindWorkflow, FindActions, PromiseMoves
    <2>2. CASE CreateRun
      BY <2>2, CreateRunKeepsPromise DEF PromiseMoves, Promise!Next
    <2>3. CASE ExecutorStep
      <3>1. place \in Running
        BY <1>1, <2>3, ExecutorSteps DEF Running
      <3>2. current \in Message
        BY <1>1, <3>1, AtHand
      <3> QED
        BY <1>1, <2>3, <3>2, ExecutorKeepsPromise DEF PromiseMoves, Promise!Next
    <2>4. CASE FinishAction
      <3>1. place \in Running
        BY <2>4 DEF FinishAction, Running
      <3>2. current \in Message
        BY <1>1, <3>1, AtHand
      <3> QED
        BY <1>1, <2>4, <3>2, FinishActionKeepsPromise DEF PromiseMoves, Promise!Next
    <2>5. CASE EndStep
      <3>1. place \in Running => current \in Message
        BY <1>1, AtHand
      <3> QED
        BY <1>1, <2>5, <3>1, EndKeepsPromise DEF PromiseMoves, Promise!Next
    <2> QED
      BY <1>2, <2>1, <2>2, <2>3, <2>4, <2>5
  <1>5. message' = message /\ \A m \in Message : queue'[m] = "unsent" => queue[m] = "unsent"
    <2>1. queue \in [Message -> {"unsent", "ready", "handled", "acked", "dead"}]
      BY <1>1 DEF WorkerInv, QueueTypes
    <2>2. CASE UpkeepStep \/ FindWorkflow \/ FindActions \/ CreateRun \/ FinishAction
      BY <1>3, <2>2 DEF FindWorkflow, FindActions, CreateRun, FinishAction
    <2>3. CASE ExecutorStep
      BY <1>1, <2>3, ExecutorSteps
    <2>4. CASE EndStep
      <3>1. PICK outcome \in {"ready", "acked", "dead"} :
              UNCHANGED <<handlerFrame, effects>> /\ Settle(outcome)
        BY <1>1, <2>4, EndSteps
      <3>2. queue' = [queue EXCEPT ![current] = outcome]
        BY <3>1 DEF Settle
      <3> QED
        BY <2>1, <3>1, <3>2
    <2> QED
      BY <1>2, <2>2, <2>3, <2>4
  <1> QED
    BY <1>4, <1>5 DEF SentInv

\* Every behaviour of users, queue and handlers is one of Automation: a new run
\* only after an interrupted one, calls for the action at hand alone, a success
\* only with all its actions passed and their calls made.
THEOREM PromiseKept == Spec => KeepsPromise
  <1>1. Init => Promise!Init /\ SentInv
    BY DEF Init, Promise!Init, SentInv
  <1>2. EventInv /\ DeliveryInv /\ SuccessInv /\ SentInv /\ [Next]_vars =>
          [Promise!Next]_(Promise!vars) /\ SentInv'
    <2> SUFFICES ASSUME EventInv, DeliveryInv, SuccessInv, SentInv, [Next]_vars
                 PROVE  PromiseMoves /\ SentInv'
      BY DEF PromiseMoves, Promise!vars
    <2>1. CASE UNCHANGED vars
      BY <2>1 DEF vars, queueVars, PromiseMoves, SentInv
    <2> QED
      BY <2>1, UserKeepsPromise, QueueKeepsPromise, HandlerKeepsPromise DEF Next
  <1> QED
    BY <1>1, <1>2, Deliveries, Successes, PTL DEF Spec, KeepsPromise, Promise!Spec

=============================================================================
