# ShobApp24: a verification project

ShobApp24 is a NestJS service that runs its users' automations on GitHub events ("when a star is
created on this repository, send this email, then call this webhook") and sells them in three
plans. The HTTP API stores workflows and actions in PostgreSQL; webhooks from GitHub and Stripe are
queued in RabbitMQ and worked off by consumers in the same process. Almost everything that can go
wrong here goes wrong between two awaits: consumers without prefetch, handlers that outlive their
connection, tables that are edited under a running handler, checks and inserts that are separate
statements, webhooks that arrive twice or in the wrong order.

This directory holds TLA+ modules of that behaviour, the TLC runs that check them on small
instances, and theorems that TLAPS proves for instances of any size. `PROJECT.json` maps every
definition to the lines it models and lists runs, mutants, findings, hazards and theorems.
Paths below are relative to `src/src/` of the application unless they start with `prisma/`.

## 1. Inventory

| Component | State | Operations | Where |
|---|---|---|---|
| GitHub worker: consumer, dispatcher, engine | queue, handlers in flight, `workflow_run`, `action_run` | consume, find workflow, load actions, open run, run actions, settle run, answer | `worker/github/` |
| Event handlers (16) | as above, `github_repo` | which action selects the workflow; which calls an action's type makes; who is retried | `worker/github/core/event/` |
| Installation handler | `github_connections`, `github_repo` | created, deleted, repositories added and removed | `.../Installation/` |
| Workflow and action services | `workflow`, `action` | create, update, delete one or many; next step, renumbering | `workflow/`, `action/` |
| Plan limits | none (reads `subscriptions`, counts) | guard in front of the two create routes | `guards/`, `config/` |
| Request validation | none | schemas of workflows and actions, by event | `workflow/dto/`, `action/dto/`, `action/github.action.types.rules.ts`, `workflow/github-workflow-action-rules.ts` |
| Stripe worker | `subscriptions`, `payments` | five event handlers | `worker/stripe/` |
| Stripe HTTP service | `user.stripeCustomerId`; Stripe's own state | checkout, change of plan, cancel, portal, webhook hand-over | `stripe/` |
| RabbitMQ connection | connection, three channels | connect, declare queues and dead-letter queues, reconnect, publish | `utils/rabbitmq.ts` |
| Email worker | queue `sendEmail` | send, requeue | `worker/send-email/` |
| GitHub HTTP service | `github_connections`, states in Redis | connect, OAuth callback, webhook hand-over | `github/` |
| Authentication | better-auth's tables, cooldown keys in Redis | sign-up, sign-in, resend, reset | `auth/`, `lib/auth.ts` |
| Rate limiting, health, run history, bootstrap | none of their own worth a model | | |

How they interact: GitHub and Stripe call webhooks; the two HTTP services publish to a queue; the
workers consume it and write the tables; the API reads and writes the same tables at the same time;
the guard reads what the Stripe worker wrote; the engine and the authentication service publish to
the email queue. There is no
shared memory beyond the process's RabbitMQ channels: the database, Redis and the broker are the shared
state, and no read-then-write in the API or the workers is protected by a lock, except
the three deletions that run in a transaction.

What is hard, and what makes each part correct:

* **Engine.** Handlers interleave at every await; a delivery may be repeated while its old handler
  still runs; a write may have happened although its reply was an error. Correct: actions
  run in step order and stop at a failure; a run recorded as Succeeded has no action that did not
  succeed; a message is acknowledged only when its work is done, dead-lettered only for a recorded
  failure, and always answered in the end.
* **Event handlers and validation.** Sixteen executors, two sets of schemas and two tables of rules say
  what an action may be; a user changes a workflow's event under its actions. Correct: what
  is stored can be parsed when it is executed; success means the mail or the POST was really made, in order;
  only what may succeed later is run again; a workflow that waits for an event is found.
* **API.** The guard's count, the service's count and the insert are three statements. Correct: limits
  are not passed, steps are 1, 2, 3, ....
* **Billing.** Stripe promises neither order nor exactly-once. Correct: no order of events grants a
  plan that was not paid for; what was acknowledged is on record; a purchase ends up active.
* **GitHub accounts.** Installation and repository webhooks are handled several at a time and in any
  order, and race the browser that comes back from GitHub. Correct: the tables mirror
  GitHub; a connection outlives its installation only where somebody is told; a state is
  spent only on a link.
* **User accounts and mails.** A cooldown is read before the mail and set after it; a Stripe customer is looked
  for before it is created; mails are sent at least once over a connection that breaks. Correct: no second live token, no
  second customer without overlapping requests; every queued mail is sent.

## 2. Modules

| Module | Models | Kind |
|---|---|---|
| `WorkflowEngine` | GitHub worker with broker, connection, tables and user edits | detailed specification |
| `RunLedger` | what the run tables promise their reader | abstract specification |
| `WorkflowEngineProofs` | | 11 theorems about `WorkflowEngine` |
| `WorkflowEngineRefinement` | | the theorem that `WorkflowEngine` implements `RunLedger` |
| `WorkflowApi` | plan-limit guard, workflow and action services | detailed specification |
| `WorkflowApiProofs` | | 4 theorems about `WorkflowApi` |
| `StripeBilling` | Stripe, its webhooks, the queue and the five handlers | detailed specification |
| `BillingLedger` | what the billing tables promise their reader | abstract specification |
| `StripeBillingProofs` | | 10 theorems about `StripeBilling` |
| `ActionRules` | which workflows and actions a user can store; what a schema keeps and adds | definitions |
| `EventScripts` | the 15 handlers of workflow events: lookup, retry rule, calls per action type | definitions |
| `EventActions` | users' edits, the dispatcher and the handlers over the two above | detailed specification |
| `Automation` | what a message sets off, as its user may count on it | abstract specification |
| `EventActionsProofs` | | 9 theorems about `EventActions` |
| `GitHubAccount` | installation and repository handlers, connect and callback | detailed specification |
| `GitHubAccountProofs` | | 3 theorems about `GitHubAccount` |
| `GitHubAccountMirror` | | the theorem that webhooks handled in order make the tables mirror GitHub |
| `UserAccount` | cooldowns, the email queue and worker, the Stripe customer | detailed specification |
| `UserAccountProofs` | | 2 theorems about `UserAccount` |
| `MC...` | instances for TLC | |

Definitions named `Something_Variant` are `Something` with a plausible bug. No
specification uses them; each refutes a property, and shows that the property depends on that line.

The specifications overlap on purpose. `WorkflowEngine` has the interleavings of one handler's shape and abstracts what an
action does to "it succeeds or fails"; `EventActions` has what each of the handlers does for each action, and one handler at a
time, with the repository's row and its workflows coming and going; `GitHubAccount` has all the rows of accounts and repositories, with
webhooks handled several at a time.

### WorkflowEngine

One delivery of one message is `<<m, n>>`. It opens at most one `workflowRun`, so `run` and
`actionRun` are indexed by it; `pc[d]` says which await its handler is at.

| Action | Code |
|---|---|
| `Publish` | `GitHubService.receiveWebhookFromGitHub`, `sendGitHubWebhookData` |
| `Deliver` | the callback of `consume` (no prefetch) |
| `Connect`, `LoseConnection`, `Crash` | `rabbitmq()`, its close handler, a rejected reconnect or a kill |
| `FindWorkflow`, `LoadActions`, `CreateRun` | `Star_event` up to the run's `create`, `BaseEvent.findWorkflow` |
| `BeginAction`, `ExecuteAction`, `RecordSuccess`, `RecordFailure` | the loop of `BaseEvent.executeActions`, `executeSingleAction`, `markActionRunFailed` |
| `SettleRun`, `Recover` | the run's `update`; the catch block, and `main`'s catch when that fails too |
| `Respond` | ack or nack on the channel the message came on |
| `ToggleWorkflow`, `DeleteWorkflow`, `DeleteAction` | `updateWorkflow`, `deleteOneWorkflowById`, `deleteActionById` with the cascades |

The handler is that of the star event, whose shape the others share; messages in `IssuesMessage` have the
different catch block of the issues event. Which workflow an event selects is `Target`.
A user's other edits do not disturb a running handler: it holds a copy of what it loaded.

### RunLedger

A run is opened with a plan, its actions start one step after the other and only after all earlier
steps passed, and it is closed with a verdict that agrees. No broker, no handler, no failure.
`WorkflowEngine!ImplementsLedger` is the refinement: `plan` is the snapshot, once the run exists.

### WorkflowApi

One user; `Request` is a set of slots, each reused when its request is answered, so its size bounds
the requests in flight and nothing else. Every query is an action. The transactions' row
locks are `LockedForOthers`: under READ COMMITTED others still see a row whose deletion has
not committed, and wait before they write it. `updateMany` and the commit are one step, since nothing is
awaited from outside in between and no other request sees one without the other. `Fail` ends a request at any await: a body
that is refused, a database error, a deadlock that PostgreSQL resolves. `ChangePlan` is the Stripe
worker, seen from the guard; it also covers a user with two active subscriptions, of which
`findFirst` picks either.

The engine's `InitStep` may give two actions of a workflow the same step: the
races found here produce such tables, and the engine's theorems hold for them.

### StripeBilling

`CompleteCheckout`, `UpdateSubscription`, `ChangePlanInPortal`, `CancelSubscription`, `Renew`,
`Decline` and `Collect` change Stripe's state and report events; each event reaches the
queue by up to `MaxCopies` webhook calls, in any order. A message is `<<event, copy>>`. Every database
call of a handler is an action; a failing call may or may not have written. `Crash` puts back what is not acknowledged;
a handler that outlives its connection, and still writes, is what a second copy of
the event is. A repeated delivery on a channel that is open, and the answering discipline, are
the engine's subject and not repeated here. The metadata of a checkout belongs to the session,
not to the subscription, which is why the first `updated` event carries no plan.
`updateSubscription` is one step, though it awaits three times: it reads the row, then Stripe's subscription, then changes that. Between them the row may
stop being active, but it stays owned, which is what `PlanChangeSticks` rests on.
The first payment may be delayed: the checkout is then reported while its invoice is still open, which is what the
status `incomplete` of a fresh row is for.

### BillingLedger

Stripe tells of events; each may be entered any number of times, but only as what it says, in one table, and only once the row it
changes is there; it is settled when the tables hold what it is worth, and stays settled. No queue, copy, error or crash.
`StripeBilling!ImplementsLedger` is the refinement: `told` is `emitted`, and an event is settled when a copy of it was acknowledged.

### ActionRules, EventScripts, EventActions

An action is its type and the set of keys its configuration has: executors ask no more of it than
`"key" in action.config`. A Zod schema is the keys it demands, allows and fills in (`Keys`), parsing is `Kept`. An execution is
a script, the sequence of its calls that leave the process; `executeSingleAction` is the table of scripts, by event and type.

| Action | Code |
|---|---|
| `CreateWorkflow`, `UpdateEventType`, `UpdateEnabled` | `WorkflowService.createWorkflow`, `updateWorkflow` |
| `CreateActionReads`, `CreateActionWrites`, `UpdateActionReads`, `UpdateActionWrites` | `ActionService.createAction`, `updateActionById`: the check against the workflow that was read, and the write an await later |
| `GitHubSends`, `Deliver` | a webhook, and `main`'s switch |
| `FindConnection`, `FindNoConnection`, `UpsertRepository`, `DeleteRepository` | the first half of `Repository_event`: connection, table |
| `Uninstall` | `Installation_event`, case `deleted`: the connection goes, and by cascade the rest |
| `FindWorkflow`, `FindNoWorkflow`, `FindActions`, `FindNoActions`, `CreateRun` | `BaseEvent.findWorkflow` and the head of each handler |
| `BeginAction`, `FinishAction`, `FinishRun`, `FailRun` | `BaseEvent.executeActions`, with the parse of the stored action |
| `LoadViewer`, `Ask`, `AnswerRefusal`, `Publish`, `Post`, `CallThrows` | the calls of `executeSingleAction` and their answers |
| `DatabaseFails`, `DatabaseFailsTwice` | a query that throws, the handler's catch, `main`'s catch |

`known` says which of the connection's and the repository's rows there are, and `Cascade` what goes with them. `due[m]` are the workflows that
have waited for message `m` unchanged; a workflow that is deleted waits no more, except for the message on whose account it is deleted.

### Automation

A message has runs, a new one only when the last was interrupted; the actions of a run are taken in order, each with its calls, until
all have passed or one has failed. `EventActions!KeepsPromise` is the refinement, with `message`, `runs` and `effects` as they are. `RunLedger`
promises less of more: it has overlapping handlers and deletions, and knows no payloads, calls or causes.

### GitHubAccount

An account has the app installed once at most, so an account and its installation are one value. GitHub's side (`Install`,
`TransferRepo`, ...) reports by webhooks; the consumer begins any that is ready. `Installation_event` is one
transaction; the repository handler awaits at the connection, the table, the owner and the workflow. `born` counts how often a
connection's row was created: it is the row's id, which the foreign key of an upsert names. `Connect`, `CheckState`,
`CountConnections`, `SpendState` and `LinkUser` are the two endpoints of a user who installs the app.

### UserAccount

Requests (sign-up, resend, password reset, checkout's `getStripeCustomerId`) are slots as in `WorkflowApi`, each at an await. A mail is
known by its token; `cooldown[j]` is the number of tokens that were issued when the key was set. Tokens and keys last 300
seconds each, and the key is set later, so a key outlives the tokens issued before it (`KeyOutlives`). The email worker sends
what the queue has, several at a time, and requeues at every error; `LoseEmail` is a mail written to a connection that
breaks. Issuing a token and handing its mail to the channel is one step: nobody sees a token that is in no mail.

## 3. Runs

| Run | What is small | Shows |
|---|---|---|
| `engine_safety` | 1 message, 2 actions, 4 deliveries, 2 faults, 1 edit; or 2 messages (one issues), 1 action, 2 deliveries each, 1 fault | step order; truth of Succeeded, of ack and of dead letter; ownership; final records |
| `engine_liveness` | 1 message, 2 actions, 5 deliveries, 1 fault, 2 edits | every message is answered; refinement of `RunLedger`; the inductive `EngineInv`, types included |
| `api_safety` | 2 requests in flight, 3 plans, limits 1 and 2; 3 workflows with one action, or 1 workflow with 3 | how far the limits can be passed; steps stay sequential without overlap; `ApiInv` |
| `api_plan_race` | 2 requests, 3 workflows, the free plan | **violated:** the plan limit |
| `api_step_race` | 2 requests, 1 workflow, 3 actions | **violated:** sequential steps |
| `billing` | 1 subscription, 2 plans; 2 invoices with 1 change and 1 repeated webhook or 1 fault, or 1 invoice with up to 3 changes and faults | entitlement, checkout, dead letters, convergence; all but failed payments settle, and one deletion (below); refinement of `BillingLedger`, invoice records included; what leaves `canceled`, what undoes a change of plan; the inductive `BillingInv` |
| `billing_retry` | 2 invoices, 1 plan, 1 change, 1 fault | **violated:** failed payments settle |
| `events_safety` | 13 events, 13 action types, 1 message; chains of 2 actions with 2 faults; 2 workflows | what is stored parses; success is real; nobody waits in vain; refinement of `Automation`, which has the order and the repetition of effects |
| `events_email_to_me` | 1 event, 2 action types | **violated:** a `send_email_to_me` is sent |
| `events_removal` | 1 event, 1 workflow, 1 message | **violated:** the removal of a repository is served |
| `account_github` | 2 accounts, 1 repository, 1 user, 3 webhooks, 1 fault | the tables mirror GitHub; ghosts are on record; a spent state links; webhooks settle |
| `account_mails` | 1 user, 2 requests in flight, 2 mails, 1 fault | nothing is issued twice without overlap; every mail is sent |

The three runs whose name ends in `_safety`, and `billing`, join several small instances by a constraint `SmallEnough` in their `MC` module,
which says what may be large at once. That of `billing` is checked together with liveness: it cuts off changes, faults and repeated webhooks
only, for which no fairness is assumed, so no fair behaviour inside it loses a step that has to come.

`EffectsInOrder` and `RepeatNeedsThrow` follow from the refinement of `Automation`, `InvoiceIsRecorded` from that of `BillingLedger`, and
`TypeOK` of the engine from `EngineInv`: no run checks them again, and each is a theorem.

Why the bounds are enough. *Engine:* two faults allow a connection loss
followed by an error in the zombie handler, the shortest route to most wrong answers; more deliveries than faults and edits let the last
handler run undisturbed; two steps are the least with an order; a second message shows what handlers do to each other's rows. *API:* a race takes two
requests; three ids let a limit of two be passed; a plan of each sort (limited twice, unlimited)
lets it change under a request. *Billing:* subscriptions share no row and no event, so one shows
what each does; a paid and a failed invoice, and a change after the
checkout, make every pair of event kinds meet, and three changes and faults on one invoice are a change, its reversal or cancellation, and an error between. *Events:* handlers and types differ by tables, so every pair has to occur, one action at a
time; how a chain goes on depends only on how an executor ends, of which a strict and a lenient one have all ways. `push` and `label` stand for the
events without a case in `main`. *Accounts:* two accounts are the least for a transfer; three webhooks are a creation, a change and a removal. *Mails:* tokens
and keys are counted, so two of each show an overlap. A run's abstract specification is checked on the same states. What the bounds cut off is covered by the
theorems, which have none. Symmetry is used only in runs without liveness properties, over
request slots and workflows, which no definition tells apart; `billing` names the first plan and the first invoice instead (`Alike`), which keeps one of each
pair of mirrored behaviours.

Deadlock is not checked in the engine, billing, events and account runs: they may rightly come to rest, with every message
answered and the budgets of faults and changes spent. It is checked in the API runs.

Fairness. *Engine:* weak fairness of each handler (the event loop resumes it; each query ends with an
answer or an error), of delivery (the broker's job) and of reconnection (the close handler
reconnects; Docker restarts a dead process). None of faults, edits or publishing. *Billing:* weak fairness of the first webhook
call of each event (Stripe calls until it is answered), of consumption and of the handlers. *GitHub accounts:* weak fairness
of the worker on each message, none of GitHub or of the user. *Mails:* of reconnection, of the consumption of each mail and of Resend's answer; a refusal counts as
a fault, and faults end.

## 4. What the violated runs found

* `PlanEnforced` (`guards/plan-limit.guard.ts:44`): two creations sent together at one below the limit
  both pass the guard. README.md:60-66 states the limits without qualification. `WorkflowsBounded` says how
  far it can go: limit plus requests in flight, minus one.
* `StepsSequential` (`action/action.service.ts:92`): overlapping creations store the same step; `action/docs/action.md:329`
  says steps are sequential. `StepsSequentialUnlessRaced` holds.
* `FailedPaymentsSettle` (`worker/stripe/.../invoice-payment-failed-event.ts:39`): `create` where the other
  handler has `upsert`; a second delivery is requeued for ever, past the dead-letter queue.
* `EmailToMeSent` (`action/dto/create-action.dto.ts:34`): the schema of `send_email_to_me` drops the address that was filled in, so
  every executor refuses what `action/docs/action.md:149` promises.

* `RemovalIsServed` (`.../event/Repository/repository-event.ts:77`): for the payload `deleted` the handler deletes the
  repository's row, and by cascade its workflows, before it looks for the workflow at line 125; the message is acknowledged and
  nothing runs. `.../event/Repository/README.md:15-16` lists `deleted` among the actions that support `send-email`. `DueMeansServed` holds of every other
  message.

Met while modelling and allowed for by the properties, since no document says otherwise:

* *Billing.* An `invoice.paid` handled after the
  cancellation makes the subscription active again; a failed payment that is collected later keeps
  the status `payment_failed`; a plan changed in Stripe's portal does not reach the row; a subscription that
  is canceled before it was ever paid, after its checkout was dead-lettered, has no row, and its deletion is requeued for ever; a change of
  plan that overtakes the row is dead-lettered.
* *Engine.* A run may go from Succeeded to Failed when the reply to its last update is lost.
* *Events.* `main`'s switch has no case for push, label, pull_request and pull_request_review, whose handlers are never called; a workflow for push, fork, create or
  delete cannot be created, because their table of actions is empty; executors without a branch for a type
  answer success in most handlers and refusal in some; `send_telegram` is sent by none; an action edited under another event may stop parsing.
* *Accounts.* A repeated `installation.created` is requeued as long as its row is there; `github/docs/github.md:52` has the callback create a connection
  where there is none, but it only links one that the webhook has created; a repository that moves to an account without the app keeps its row.
* *Users.* An address Resend always refuses is requeued for ever and without delay; logout clears the cookie `better-auth.session_token`, where the session's is
  `__Secure-` prefixed; "previous token is not expired" is also said of a token that was used.
* *Health.* Its catch reports the database down whatever failed.

## 5. Theorems

All are proved without bounds: any sets of messages, workflows, actions, requests, subscriptions, invoices, accounts and users, any numbers of
deliveries, copies, faults and edits. They assume only the named assumptions of the modules (`EngineAssumption`, `ApiAssumption`,
`BillingAssumption`, `EventAssumption`, `AbsentAssumption`, `AccountAssumption`, `UserAssumption`): functions have their types, bounds are natural numbers,
the sets of the API that are counted are finite, and the values that stand for "none" are not ids.

**WorkflowEngineProofs.** `TypeCorrect`; then `OneOwnerHolds`: a message is unacknowledged exactly while its last
delivery is in flight and on an open channel. It is inductive with `Fresh` (deliveries not made yet are
idle), because `Deliver` must not revive an old one. `AnswersAreFinal` follows: only an owner answers.
`EngineInvariant` is the inductive invariant: for each place of the
handler what its rows look like (`HandlerInv`), the order of started actions
(`InOrder`), and that an acknowledged message's last handler returned success (`AckInv`). `StepsInOrder` alone is not inductive: that the next action may start
follows from "at `beginning`, every action begun has passed", and that from the same fact
about `executing` except for the current action. From it: `StepOrder`, `SuccessIsTrue`, `AckIsEarned`.
The proof that a handler's step keeps the invariant is done once for its own delivery (`WorkKept`), once for
the others (`WorkIsPrivate`), and once for the cascades (`ErasedKept`).
What is on record when a handler has made up its mind (`VerdictInv`), and when its message is dead (`DeadInv`), gives `DeathIsRecorded`; `RecordsFinal`
needs the place of the handler only. Faults and edits are counted in histories, so "only after a fault" is proved by saying where a fault must have
been: `FaultInv` (a delivery without a channel, a killed handler, an open run) for `OrphansNeedFaults`, and with `EditInv` (an action that has
vanished from a snapshot) `BlameInv` for `RetriesNeedCause`.

**WorkflowEngineRefinement.** `EngineKeepsLedger` is `Spec => ImplementsLedger`. The plan of the ledger is the handler's snapshot from the
moment the run exists; `PlanInv` adds what makes every step a step of the ledger: what was started was planned, and a
deleted run has no records left. `OpeningMaps`, `LoopMaps` and `ClosingMaps` map a handler's awaits before, in and after the loop,
`EditsErase` the cascades; the broker's steps stutter.

**WorkflowApiProofs.** `ApiCorrect` types each request at each await (`RequestInv`).
`WorkflowLimitHolds` and `ActionLimitHolds` count what is inserted together with what has passed the guard: a request
that passes found fewer rows than the limit, and at most every other slot is between guard and insert. The bound names a plan the user has had, because
the guard's plan may be stale. `StepsStaySequential`: a workflow that was never raced has one request at a time (`AloneInv`), whose count and step
are still what it read (`Carries`), and steps that are a bijection with 1..n (`Numbered`), which an append at the end and a shift after a deletion keep.

**StripeBillingProofs.** `BillingTypes`; `BillingInvariant`, which adds to the typing that messages and invoice events are
genuine (`Genuine`), that an active row has a paid invoice and its plan an event (`RowInv`), and what is on record at
a handler's second await, when it is about to answer, and after the ack (`HandlerInv`). `EntitlementIsPaidFor` is not
inductive: a handler may be about to write for an event, so the events must be tied to invoices first.
`HandlersGrow` (no handler takes away a row, an owner, a plan or a payment) carries records over other handlers' steps. From it:
`EntitlementHolds`, `CheckoutHolds`, `InvoiceRecordHolds`. `DropInv` (who may give up) gives `DeadLettersHaveCause`; `SoldInv`
(nothing is billed that was not sold) and `ActiveInv` (a handler of a payment has made the row active, and no other handler of a smooth
purchase takes that back) give `PurchaseConverges`. `CancelInv` (a deletion event, and a canceled row, come from a cancellation, which is final at
Stripe) gives the action property `CanceledHolds`. `PlanChangeHolds` needs that the events come in the right order though nothing orders the queue: `CalmInv` says
that, while nothing failed or was repeated, an owned row has its checkout worked off, a change of plan was made only on an owned row, and the plan worked off is
on the row; `TaleInv` that Stripe tells of one checkout for a subscription, `PlaceInv` that a handler's message is out.
`BillingKeepsLedger` is `Spec => ImplementsLedger`: each handler's call enters one event (`OneCallMaps`, `InvoiceMaps`), with the first fault's
"written or not" as an entry or a stutter; an acknowledgement settles, for which `HandlerInv` has what is on record by then (`RespondMaps`); crashes and
redeliveries stutter, because what is acknowledged stays so (`SettledSteady`).

**EventActionsProofs.** `EventInv` is `UserInv` (the tables, the request in flight, and that what both hold parses) and `WorkerInv` (the queue, and for each place what
the handler holds and what its last run says). The schemas enter by four lemmas (`CreateSchemas`, `UpdateSchemas`, `ParsingSettles`, `UpdatesCreate`): what an update keeps
a creation accepts, and parsing twice is parsing once. They give `EventTypes` and `StoredParses`. `DeliveryInv` adds the counting of runs and that a
message to be handled again has an interrupted run behind it; it gives `InOrder`, `OnePerDelivery`, `RepeatedOnThrow` and `DeathByVerdict`.
`SuccessInv` says of the action at work that its call was made or is still in the script, for which `ScriptsSend` goes through the scripts; it gives `RealSuccess`.
`PromiseKept` is `Spec => KeepsPromise`: creating a run is `Begin` by `RepeatInv`, an executor's step is `Act` or a stutter because a step makes one call at most and
the action at hand is `at` (`AtHand`), an action passes by `SuccessInv`, and `SentInv` (what is not sent is not there) makes a webhook `Receive`.
`NobodyWaitsInVain` ties `due` to the tables (`WaitInv`: who still waits still matches) and the workflow found to the history of lookups. It excepts the removal of the
repository, as `DueMeansServed` does, because the code does not serve it (section 4); `WaitInv` survives the deletion of the row, since every other message's `due` is emptied
with the workflows (`NothingLeft`), and the steps on the tables are proved apart from the rest of the handler (`UpkeepSteps`).

**GitHubAccountProofs.** `AccountInv` (types with the foreign keys, `MessageInv`, `CallbackInv`) gives `AccountTypes`. `LifeInv` adds what GitHub's messages say of an
account's life (`HistoryInv`: created once, removed once), when a row can be there without faults (`GhostInv`), and what a callback past the count relies on
(`LinkInv`): `NoSilentGhost`, `NoStateInVain`.

**GitHubAccountMirror.** `TablesMirror` follows from two invariants, one for each end of the queue. `StoryInv` reads GitHub off the webhooks sent: the creation of
an account is its first webhook and the deletion its last, and a repository is where the last webhook that mentions it says. `MirrorInv` reads the tables off
the webhooks handled, when nothing was disturbed: all before the one at work are answered and none after it is begun (`InOrderInv`), a connection is there between the handling of
its creation and of its deletion (`ConnectionInv`), and a row says what the last webhook handled says (`RowInv`). The creation writes rows nobody has written
(`MirrorCreation`), the deletion takes only the account's (`MirrorDeletion`). Once all are answered the last sent is the last handled (`MirrorAtRest`).

**UserAccountProofs.** `UserTypes` types keys, tokens and customers by each other, so that it says what a cooldown stands for. `NothingTwice` is inductive with `Alone` (a
user who was never raced has one request), `Registered`, `Guarded` (a live token has its key in front of it, or the request that will set it) and `OneCustomer`.

Every leaf of these proofs is found in a fifth of the provers' default time. Checked by TLC only: the liveness properties, which are out of the prover's reach (`EveryMessageAnswered`, `EventsSettle`, `WebhooksSettle`, `MailsSettle`).

## 6. What the models take from outside

* RabbitMQ puts unacknowledged messages back when their channel closes, and keeps
  its queues. Order on a queue is not assumed.
* `ack` and `nack` of amqplib throw on a closed channel; the throw in the callback's catch block rejects its
  promise, Node.js ends the process, Docker starts it again.
* A Prisma `upsert` of this shape is one SQL statement, so the `P2002` branch of the checkout handler is not
  reached. That of a payment, whose `update` is empty, may be a read and an insert; if another insert comes between, the unique index refuses this one and the
  message is requeued, as after any error. A call that fails may have been applied.
* PostgreSQL runs at READ COMMITTED and enforces foreign keys with their cascades, and unique indexes.
* What the webhooks publish is well-formed JSON with a payload, so the consumers' branches for other messages are not modelled.
* Stripe reports every change at least once, and a subscription is billed by invoices, each paid, or failed and perhaps collected later.
* GitHub reports a transfer to the new owner only. Its workflow_job and workflow_run payloads may leave the installation out.
* better-auth issues a token per mail, keeps users unique by address, and deletes a token that was used. Redis drops a key when its time is over; tokens and keys
  have the same life, and the key is set later.
* Resend answers or refuses; a request whose answer is lost may have been sent.

## 7. Plan

Done: the modules of section 2, their runs, a theorem for every safety property of a passing run, and three abstract specifications with the theorems that the
engine, the Stripe worker and the event handlers implement them. Left:

1. The order in which `rabbitmq()` opens its channels and registers consumers, and overlapping reconnects. The engine and the mails have the connection as one flag.

Not modelled, and not planned:

* Rate limiting: the counting is a library's, in Redis.
* Run history: reads only. `RunLedger` says what they may show.
* Health: pings, without state. Bootstrap: wiring.
* better-auth's own routes (mounted by `AuthModule.forRootAsync`, `app.module.ts:29`). They know no cooldown, so a second live token is one direct request
  away: `OneUnlessRaced` is about the application's own endpoints. Sessions: log-in, log-out and change of password hand over to the library.
* Formats of fields, pagination, the wording of mails, and messages that do not parse.
