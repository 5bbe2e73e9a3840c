---------------------------- MODULE EventScripts ----------------------------
(***************************************************************************)
(* The event handlers of the GitHub worker, one class per event type: what *)
(* each looks a workflow up by, when it gives a message back to the queue, *)
(* and what its executeSingleAction does for an action.                    *)
(*                                                                         *)
(* An execution is a script, the sequence of its calls that leave the      *)
(* process:                                                                *)
(*   "viewer"   the sender's profile from GitHub, loaded once per delivery *)
(*   "address"  the sender's email address from GitHub                     *)
(*   "analyse"  commit messages sent to Gemini                             *)
(*   "publish"  an email put on the sendEmail queue                        *)
(*   "post"     an HTTP POST to the user's URL                             *)
(*   "refuse"   no call: the executor answers failure                      *)
(* <<>> answers success and does nothing.  A "viewer", "address" or        *)
(* "analyse" that fails, a "post" answered outside 2xx and a "refuse" fail *)
(* the action for good; a call that throws has the message redelivered.    *)
(***************************************************************************)
EXTENDS ActionRules, Sequences

Step == {"viewer", "address", "analyse", "publish", "post", "refuse"}

If(condition, script) == IF condition THEN script ELSE <<>>
Refuse == <<"refuse">>
Done   == <<>>

\* The types every executor but push's, repository's and
\* pull_request_review's has a branch for.  `key' is the config key that adds
\* the viewer to an email, `viewer' how the viewer is loaded.
SharedTypes_NoWebhook ==
  {"collect_viewer_data", "send_email", "send_email_to_me",
   "send_email_to_who_send_the_trigger"}

SharedTypes ==
  {"collect_viewer_data", "send_email", "send_email_to_me",
   "send_email_to_who_send_the_trigger", "webhook"}

SharedScript(action, key, viewer) ==
  LET withViewer == If(key \in action.config, viewer)
  IN  CASE action.type = "collect_viewer_data" -> viewer
        [] action.type = "send_email" -> withViewer \o <<"publish">>
        [] action.type = "send_email_to_me" ->
             withViewer \o
             (IF "email" \in action.config THEN <<"publish">> ELSE Refuse)
        [] action.type = "send_email_to_who_send_the_trigger" ->
             <<"address", "publish">>
        [] action.type = "webhook" -> viewer \o <<"post">>

\* createViewerDataLoader passes organizations_url, or does not: then
\* collect_viewer_info returns GitHub's answer as it is, which has no
\* `success', and the caller takes that for a failure.
Viewer   == <<"viewer">>
NoViewer == Refuse

\* An executor that answers success for a type it has no branch for, and one
\* that refuses it.
Lenient(action, key, viewer) ==
  IF action.type \in SharedTypes THEN SharedScript(action, key, viewer) ELSE Done
Strict(action, key) ==
  IF action.type \in SharedTypes THEN SharedScript(action, key, Viewer) ELSE Refuse

PushInfo   == "do_you_want_push_info"
ViewerInfo == "do_you_want_viewer_info"
Analytics  == "do_you_want_AI_analytics_of_push_data"

-----------------------------------------------------------------------------
(* executeSingleAction of each handler                                     *)

Fork_execute(action)           == Lenient(action, PushInfo, NoViewer)
Commit_comment_execute(action) == Lenient(action, PushInfo, NoViewer)
Watch_execute(action)          == Lenient(action, ViewerInfo, Viewer)
Create_execute(action)         == Lenient(action, PushInfo, Viewer)
Issue_comment_execute(action)  == Lenient(action, PushInfo, Viewer)
Label_execute(action)          == Lenient(action, PushInfo, Viewer)
Pull_request_execute(action)   == Lenient(action, PushInfo, Viewer)
Issues_execute(action)         == Lenient(action, PushInfo, Viewer)

\* Its send_email_to_me never adds the viewer.
Delete_execute(action) ==
  IF action.type = "send_email_to_me"
  THEN SharedScript(action, "", Viewer)
  ELSE Lenient(action, PushInfo, Viewer)

Star_execute_Telegram(action) ==
  IF action.type = "send_telegram" THEN <<"telegram">> ELSE Strict(action, ViewerInfo)

Star_execute(action)         == Strict(action, ViewerInfo)
Workflow_run_execute(action) == Strict(action, ViewerInfo)
Workflow_job_execute(action) == Strict(action, ViewerInfo)

\* The branches of send_email and send_email_to_me are empty: both fall
\* through to the refusal at the end.
Pull_request_review_execute(action) ==
  IF action.type \in {"send_email", "send_email_to_me"}
  THEN Refuse
  ELSE Strict(action, ViewerInfo)

\* The pusher's address comes with the payload.
Push_execute(action) ==
  LET analyse(key) == If(key \in action.config, <<"analyse">>)
  IN  CASE action.type = "send_email" -> analyse(Analytics) \o <<"publish">>
        [] action.type = "send_email_to_me" ->
             analyse(Analytics) \o
             (IF "email" \in action.config THEN <<"publish">> ELSE Refuse)
        [] action.type = "send_email_to_who_push_the_commit" ->
             analyse("AI_analytics") \o <<"publish">>
        [] action.type = "webhook" -> <<"post">>
        [] action.type = "analytics_data_by_AI" -> <<"analyse">>
        [] OTHER -> Refuse

Repository_execute(action) == If(action.type = "send_email", <<"publish">>)

executeSingleAction(event, action) ==
  CASE event = "fork"           -> Fork_execute(action)
    [] event = "commit_comment" -> Commit_comment_execute(action)
    [] event = "watch"          -> Watch_execute(action)
    [] event = "create"         -> Create_execute(action)
    [] event = "delete"         -> Delete_execute(action)
    [] event = "issue_comment"  -> Issue_comment_execute(action)
    [] event = "label"          -> Label_execute(action)
    [] event = "pull_request"   -> Pull_request_execute(action)
    [] event = "issues"         -> Issues_execute(action)
    [] event = "star"           -> Star_execute(action)
    [] event = "workflow_run"   -> Workflow_run_execute(action)
    [] event = "workflow_job"   -> Workflow_job_execute(action)
    [] event = "push"           -> Push_execute(action)
    [] event = "repository"     -> Repository_execute(action)
    [] event = "pull_request_review" -> Pull_request_review_execute(action)

-----------------------------------------------------------------------------
(* What the handlers differ in.  `lookup' is the action the workflow is    *)
(* looked up by, where it is not the payload's; `retry' says whether an    *)
(* exception outside the executor gives the message back; `unattached'     *)
(* whether a payload without an installation is answered with success;     *)
(* `upkeep' whether the handler keeps the repository's row first.          *)

FromPayload == "payload.action"
Null        == "null"

Handler(lookup, retry, unattached) ==
  [lookup |-> lookup, retry |-> retry, unattached |-> unattached, upkeep |-> FALSE]

Star_event_Deleted   == Handler("deleted", TRUE, FALSE)

Star_event           == Handler(FromPayload, TRUE, FALSE)
Watch_event          == Handler(FromPayload, TRUE, FALSE)
Label_event          == Handler(FromPayload, TRUE, FALSE)
Issue_comment_event  == Handler(FromPayload, TRUE, FALSE)
Commit_comment_event == Handler(FromPayload, TRUE, FALSE)
Pull_request_event   == Handler(FromPayload, TRUE, FALSE)
Pull_request_review_event == Handler(FromPayload, TRUE, FALSE)
Repository_event     == [Handler(FromPayload, TRUE, FALSE) EXCEPT !.upkeep = TRUE]
Issues_event         == Handler(FromPayload, FALSE, FALSE)
Fork_event           == Handler("created", TRUE, FALSE)
Create_event         == Handler("created", TRUE, FALSE)
Delete_event         == Handler("deleted", TRUE, FALSE)
Push_event           == Handler(Null, TRUE, FALSE)
Workflow_run_event   == Handler(FromPayload, TRUE, TRUE)
Workflow_job_event   == Handler(FromPayload, TRUE, TRUE)

HandledEvent == EventType \ {"installation"}

handlers == [e \in HandledEvent |->
  CASE e = "star"           -> Star_event
    [] e = "watch"          -> Watch_event
    [] e = "label"          -> Label_event
    [] e = "issue_comment"  -> Issue_comment_event
    [] e = "commit_comment" -> Commit_comment_event
    [] e = "pull_request"   -> Pull_request_event
    [] e = "pull_request_review" -> Pull_request_review_event
    [] e = "repository"     -> Repository_event
    [] e = "issues"         -> Issues_event
    [] e = "fork"           -> Fork_event
    [] e = "create"         -> Create_event
    [] e = "delete"         -> Delete_event
    [] e = "push"           -> Push_event
    [] e = "workflow_run"   -> Workflow_run_event
    [] e = "workflow_job"   -> Workflow_job_event]

\* The events main's switch has a case for.
Routed ==
  {"installation", "repository", "star", "issues", "fork", "commit_comment",
   "issue_comment", "watch", "create", "delete", "workflow_job", "workflow_run"}

\* The action findWorkflow compares the workflow's with.
LookupAction(event, payloadAction) ==
  IF handlers[event].lookup = FromPayload
  THEN payloadAction
  ELSE handlers[event].lookup

=============================================================================
