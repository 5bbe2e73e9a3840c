--------------------------- MODULE MCEventActions ---------------------------
(***************************************************************************)
(* Small instances of EventActions for TLC: one or two workflows, one      *)
(* message, and the actions a user sends with the keys their schema asks   *)
(* for.                                                                    *)
(***************************************************************************)
EXTENDS EventActions, Functions, TLC

CONSTANTS w1, w2, m1, m2

Letters == {"subject", "body"}

Row(type, config) == [type |-> type, config |-> config]

Email    == Row("send_email", {"email", "subject", "body", "do_you_want_viewer_info"})
ToMe     == Row("send_email_to_me", {"email", "subject", "body"})
ToSender == Row("send_email_to_who_send_the_trigger", Letters)
Webhook  == Row("webhook", {"url"})
Telegram == Row("send_telegram", {"message"})
Collect  == Row("collect_viewer_data", {})
Analyse  == Row("analytics_data_by_AI", {})
Rating   == Row("analytics_the_issue_and_give_rating", {})
ForStar  == Row("send_email_for_star_event", {"email"})
ForRepo  == Row("send_email_for_repository_event", {"email"})
ForPush  == Row("send_email_for_push_event", {"email", "subject", "body"})
ToMePush == Row("send_email_to_me_for_push_event", {})
ToPusher == Row("send_email_to_who_push_the_commit", {"AI_analytics"})

\* Every action type a request can be made with.
AllSent ==
  {Email, ToMe, ToSender, Webhook, Telegram, Collect, Analyse, Rating,
   ForStar, ForRepo, ForPush, ToMePush, ToPusher}

\* What a user asks for when the mail is for themselves.
MailSent == {Email, ToMe}

(* Three instances in one run, which differ in what varies.                *)

Stored  == UNION {Range(actions[w]) : w \in Rows}
           \cup (IF request = Absent THEN {} ELSE {request.action})
Events  == {message[m].event : m \in {n \in Message : queue[n] # "unsent"}}
           \cup {workflow[w].event : w \in Rows}
Chained == \E w \in Rows : Len(actions[w]) > 1

\* Every handler and every action: a workflow of one action, mostly of the
\* message's event.
EveryHandler ==
  /\ Cardinality(Rows) <= 1
  /\ ~Chained
  /\ faults <= 1
  /\ Cardinality(Events) <= 1 \/ Events \subseteq {"star", "issues", "push"}

\* A strict and a lenient handler: two actions, two faults.
Chains ==
  /\ Cardinality(Rows) <= 1
  /\ Stored \subseteq {Email, Webhook, Telegram}
  /\ Events \subseteq {"star", "watch"}

\* Two workflows, perhaps with the same trigger.
Shared ==
  /\ Stored \subseteq {Email}
  /\ Events \subseteq {"star", "label"}
  /\ ~Chained
  /\ faults <= 1

SmallEnough == EveryHandler \/ Chains \/ Shared

Workflows == Permutations(Workflow)

=============================================================================
