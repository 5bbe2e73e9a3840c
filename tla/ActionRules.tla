----------------------------- MODULE ActionRules -----------------------------
(***************************************************************************)
(* What the API accepts: which workflow (event type, event action) a user  *)
(* may create, which action types an event type supports, and the schemas  *)
(* an action's configuration is parsed with when it is created, updated    *)
(* and executed.  A configuration is the set of its keys: the executors    *)
(* ask for no more than whether a key is there ("key" in action.config).   *)
(* A value that does not validate counts as a key that is missing;         *)
(* "AI_analytics" stands for do_you_want_AI_analytics_of_push_data set to  *)
(* true, where the value is asked for.                                     *)
(***************************************************************************)

EventType ==
  {"installation", "star", "watch", "label", "issues", "issue_comment",
   "push", "pull_request", "repository", "commit_comment", "fork",
   "pull_request_review", "create", "delete", "workflow_job", "workflow_run"}

Universal ==
  {"collect_viewer_data", "send_email_to_who_send_the_trigger", "webhook",
   "send_telegram", "analytics_data_by_AI", "send_email", "send_email_to_me"}

PushTypes ==
  {"send_email_to_who_push_the_commit", "send_email_to_me_for_push_event",
   "send_email_for_push_event"}

IssuesTypes ==
  {"analytics_the_issue_and_give_rating", "send_email_for_issues_event",
   "send_email_to_me_for_issues_event"}

ActionTypes ==
  Universal \cup PushTypes \cup IssuesTypes
    \cup {"send_email_for_repository_event", "send_email_for_star_event"}

githubEventActionSupport == [e \in EventType |->
  Universal \cup
  CASE e = "repository" -> {"send_email_for_repository_event"}
    [] e = "issues"     -> IssuesTypes
    [] e = "push"       -> PushTypes
    [] e = "star"       -> {"send_email_for_star_event"}
    [] OTHER            -> {}]

-----------------------------------------------------------------------------
(* Schemas: the keys that must be there, those that may, and those a       *)
(* default fills in.  Zod drops every other key.                           *)

Keys(must, may, default) == [must |-> must, may |-> may, default |-> default]

NoConfig  == Keys({}, {}, {})
Url       == Keys({"url"}, {}, {})
Text      == Keys({"message"}, {}, {})
Letter    == Keys({"subject", "body"}, {}, {})
Addressed == Keys({"email", "subject", "body"}, {}, {})
AddressedWith(key) == Keys({"email"}, {"subject", "body"}, {key})

AboutPush ==
  Keys({"email", "subject", "body"}, {},
       {"do_you_want_to_send_push_info", "do_you_want_AI_analytics_of_push_data"})
AboutPushToMe ==
  Keys({}, {"subject", "body"},
       {"do_you_want_push_info", "do_you_want_AI_analytics_of_push_data"})
ToWhoPushed ==
  Keys({}, {"subject", "body", "AI_analytics"},
       {"do_you_want_AI_analytics_of_push_data"})

PushSchemas ==
  [send_email_for_push_event         |-> AboutPush,
   send_email_to_me_for_push_event   |-> AboutPushToMe,
   send_email_to_who_push_the_commit |-> ToWhoPushed]
RepositorySchema == AddressedWith("do_you_want_repo_info")
StarSchema       == AddressedWith("do_you_want_viewer_info")

\* The types an action may be created with; send_email_for_issues_event and
\* send_email_to_me_for_issues_event are in the table above and not here.
CreateTypes ==
  Universal \cup PushTypes
    \cup {"send_email_for_repository_event", "send_email_for_star_event",
          "analytics_the_issue_and_give_rating"}

baseCreateActionSchema == [t \in CreateTypes |->
  CASE t \in {"collect_viewer_data", "analytics_data_by_AI",
              "analytics_the_issue_and_give_rating"} -> NoConfig
    [] t = "webhook"       -> Url
    [] t = "send_telegram" -> Text
    [] t \in {"send_email_to_who_send_the_trigger",
              "send_email_to_me"} -> Letter
    [] t = "send_email"    -> Addressed
    [] t = "send_email_for_repository_event" -> RepositorySchema
    [] t = "send_email_for_star_event"       -> StarSchema
    [] t \in PushTypes     -> PushSchemas[t]]

\* The types an action may be updated to.
UpdateTypes ==
  CreateTypes \ {"collect_viewer_data", "analytics_data_by_AI",
                 "analytics_the_issue_and_give_rating"}

baseUpdateActionByIdSchema == [t \in UpdateTypes |->
  CASE t = "webhook"       -> Url
    [] t = "send_telegram" -> Text
    [] t \in {"send_email_to_who_send_the_trigger",
              "send_email_to_me"} -> Letter
    [] t = "send_email"    -> Addressed
    [] t = "send_email_for_repository_event" -> RepositorySchema
    [] t = "send_email_for_star_event"       -> StarSchema
    [] t \in PushTypes     -> PushSchemas[t]]

\* An action row, or the body of a request: a type and the keys of the config.
ConfigKey ==
  {"email", "subject", "body", "url", "message", "do_you_want_viewer_info",
   "do_you_want_repo_info", "do_you_want_push_info",
   "do_you_want_to_send_push_info", "do_you_want_AI_analytics_of_push_data",
   "AI_analytics"}

ActionRow == [type : ActionTypes, config : SUBSET ConfigKey]

createActionSchemaByEventType(event, action) ==
  /\ action.type \in CreateTypes
  /\ baseCreateActionSchema[action.type].must \subseteq action.config
  /\ action.type \in githubEventActionSupport[event]

updateActionSchemaByEventType_AnyEvent(event, action) ==
  /\ action.type \in UpdateTypes
  /\ baseUpdateActionByIdSchema[action.type].must \subseteq action.config

updateActionSchemaByEventType(event, action) ==
  /\ action.type \in UpdateTypes
  /\ baseUpdateActionByIdSchema[action.type].must \subseteq action.config
  /\ action.type \in githubEventActionSupport[event]

Kept(schema, config) ==
  (config \cap (schema.must \cup schema.may \cup schema.default)) \cup schema.default

\* parsedData: what is left of an action that parses.
ParsedCreate(action) ==
  [action EXCEPT !.config = Kept(baseCreateActionSchema[action.type], @)]
ParsedUpdate(action) ==
  [action EXCEPT !.config = Kept(baseUpdateActionByIdSchema[action.type], @)]

-----------------------------------------------------------------------------
githubWorkflowActionRules == [e \in EventType |->
  CASE e = "installation" ->
         {"created", "deleted", "new_permissions_accepted", "suspend", "unsuspend"}
    [] e = "star"  -> {"created", "deleted"}
    [] e = "watch" -> {"started"}
    [] e \in {"label", "issue_comment"} -> {"created", "deleted", "edited"}
    [] e = "issues" ->
         {"assigned", "closed", "deleted", "demilestoned", "edited", "labeled",
          "locked", "milestoned", "opened", "pinned", "reopened", "transferred",
          "typed", "unassigned", "unlabeled", "unlocked", "unpinned", "untyped"}
    [] e = "pull_request" ->
         {"assigned", "auto_merge_disabled", "auto_merge_enabled", "closed",
          "converted_to_draft", "demilestoned", "dequeued", "edited", "enqueued",
          "labeled", "locked", "milestoned", "opened", "ready_for_review",
          "reopened", "review_request_removed", "review_requested",
          "synchronize", "unassigned", "unlabeled", "unlocked"}
    [] e = "repository" ->
         {"archived", "created", "deleted", "edited", "privatized",
          "publicized", "renamed", "transferred", "unarchived"}
    [] e = "commit_comment"      -> {"created"}
    [] e = "pull_request_review" -> {"dismissed", "edited", "submitted"}
    [] e = "workflow_job" -> {"completed", "in_progress", "queued", "waiting"}
    [] e = "workflow_run" -> {"completed", "in_progress", "requested"}
    [] e \in {"push", "fork", "create", "delete"} -> {}]

\* An event without actions allows none and the schema requires one: a
\* workflow for push, fork, create or delete is refused whatever is sent.
createWorkflowSchema(event, action) ==
  action \in githubWorkflowActionRules[event]

=============================================================================
