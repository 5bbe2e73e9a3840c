---------------------------- MODULE StripeBilling ----------------------------
(***************************************************************************)
(* The Stripe side of ShobApp24: the subscriptions Stripe keeps, the       *)
(* events it reports about them by webhook (each at least once, in any     *)
(* order), the queue sendStripeWebhookData, and the worker whose handlers  *)
(* maintain the tables subscriptions and payments.  A handler awaits one   *)
(* or two database calls and then answers the broker; handlers of          *)
(* different messages interleave.                                          *)
(*                                                                         *)
(* A message is <<e, n>>: the n-th webhook call for event e.               *)
(***************************************************************************)
EXTENDS Naturals, FiniteSets

CONSTANTS
  Subscription,   \* Stripe's subscription ids
  Invoice,        \* Stripe's invoice ids
  InvoiceOf,      \* InvoiceOf[i]: the subscription invoice i is for
  Plan,           \* the plans that can be bought
  NoPlan,         \* an event or a row without a plan
  MaxCopies,      \* bound on the webhook calls for one event
  MaxRepeats,     \* bound on the webhook calls beyond the first, of all events
  MaxChanges,     \* bound on what happens at Stripe after the checkout
  MaxFaults       \* bound on database errors and process deaths

ASSUME BillingAssumption ==
  /\ InvoiceOf \in [Invoice -> Subscription]
  /\ NoPlan \notin Plan
  /\ MaxCopies \in Nat
  /\ MaxRepeats \in Nat
  /\ MaxChanges \in Nat
  /\ MaxFaults \in Nat

VARIABLES
  stripe,      \* Stripe's status of each subscription
  price,       \* the plan Stripe charges for
  metadata,    \* the plan in the subscription's metadata at Stripe
  invoice,     \* Stripe's status of each invoice
  emitted,     \* history: the events Stripe has reported
  changes,     \* changes at Stripe used up
  queue,       \* the broker's view of each message
  pc,          \* where the handler of each message awaits
  outcome,     \* the result it is going to return
  row,         \* the subscriptions table
  payment,     \* the status column of the payments table
  faults       \* faults used up

stripeVars == <<stripe, price, metadata, invoice, emitted, changes>>
workerVars == <<queue, pc, outcome>>
tableVars  == <<row, payment>>
vars == <<stripeVars, workerVars, tableVars, faults>>

Event ==
  [kind : {"checkout"}, sub : Subscription, plan : Plan]
  \cup [kind : {"updated"}, sub : Subscription, plan : Plan \cup {NoPlan}]
  \cup [kind : {"deleted"}, sub : Subscription]
  \cup {e \in [kind : {"paid", "failed"}, sub : Subscription, invoice : Invoice] :
          e.sub = InvoiceOf[e.invoice]}

Message == Event \X (1 .. MaxCopies)

Checkout(s, p) == [kind |-> "checkout", sub |-> s, plan |-> p]
Updated(s, p)  == [kind |-> "updated", sub |-> s, plan |-> p]
Deleted(s)     == [kind |-> "deleted", sub |-> s]
Paid(i)        == [kind |-> "paid", sub |-> InvoiceOf[i], invoice |-> i]
Failed(i)      == [kind |-> "failed", sub |-> InvoiceOf[i], invoice |-> i]

NoRow == [status |-> "none", owned |-> FALSE, plan |-> NoPlan]

RowType ==
  [status : {"none", "incomplete", "active", "unpaid", "canceled"},
   owned : BOOLEAN, plan : Plan \cup {NoPlan}]

TypeOK ==
  /\ stripe \in [Subscription -> {"none", "active", "past_due", "canceled"}]
  /\ price \in [Subscription -> Plan \cup {NoPlan}]
  /\ metadata \in [Subscription -> Plan \cup {NoPlan}]
  /\ invoice \in [Invoice -> {"none", "open", "failed", "paid"}]
  /\ emitted \subseteq Event
  /\ changes \in 0 .. MaxChanges
  /\ queue \in [Message -> {"unsent", "ready", "unacked", "acked", "dead"}]
  /\ pc \in [Message -> {"idle", "first", "second", "responding"}]
  /\ outcome \in [Message -> {"none", "success", "drop", "requeue"}]
  /\ row \in [Subscription -> RowType]
  /\ payment \in [Invoice -> {"none", "succeeded", "payment_failed"}]
  /\ faults \in 0 .. MaxFaults

Init ==
  /\ stripe = [s \in Subscription |-> "none"]
  /\ price = [s \in Subscription |-> NoPlan]
  /\ metadata = [s \in Subscription |-> NoPlan]
  /\ invoice = [i \in Invoice |-> "none"]
  /\ emitted = {}
  /\ changes = 0
  /\ queue = [m \in Message |-> "unsent"]
  /\ pc = [m \in Message |-> "idle"]
  /\ outcome = [m \in Message |-> "none"]
  /\ row = [s \in Subscription |-> NoRow]
  /\ payment = [i \in Invoice |-> "none"]
  /\ faults = 0

-----------------------------------------------------------------------------
(* What happens at Stripe, by way of StripeService or of Stripe's own pages *)
(* and billing cycle.                                                      *)

Emit(events) == emitted' = emitted \cup events

Change ==
  /\ changes < MaxChanges
  /\ changes' = changes + 1
  /\ UNCHANGED <<workerVars, tableVars, faults>>

\* The user completes the session createCheckoutSession opened.  The first
\* invoice is paid, or its payment is delayed and the invoice stays open.  The
\* metadata is the session's, not the subscription's.
CompleteCheckout(s, p, i) ==
  /\ stripe[s] = "none"
  /\ invoice[i] = "none" /\ InvoiceOf[i] = s
  /\ price' = [price EXCEPT ![s] = p]
  /\ \/ /\ stripe' = [stripe EXCEPT ![s] = "active"]
        /\ invoice' = [invoice EXCEPT ![i] = "paid"]
        /\ Emit({Checkout(s, p), Paid(i), Updated(s, metadata[s])})
     \/ /\ stripe' = [stripe EXCEPT ![s] = "past_due"]
        /\ invoice' = [invoice EXCEPT ![i] = "open"]
        /\ Emit({Checkout(s, p)})
  /\ UNCHANGED <<metadata, changes, workerVars, tableVars, faults>>

UpdateSubscription_Unowned(s, p) ==
  /\ Change
  /\ row[s].status = "active"
  /\ stripe[s] \in {"active", "past_due"}
  /\ price[s] # p
  /\ price' = [price EXCEPT ![s] = p]
  /\ metadata' = [metadata EXCEPT ![s] = p]
  /\ Emit({Updated(s, p)})
  /\ UNCHANGED <<stripe, invoice>>

\* updateSubscription wants an active row with an owner, and another plan; it
\* writes the plan into the subscription's metadata.
UpdateSubscription(s, p) ==
  /\ Change
  /\ row[s].status = "active" /\ row[s].owned
  /\ stripe[s] \in {"active", "past_due"}
  /\ price[s] # p
  /\ price' = [price EXCEPT ![s] = p]
  /\ metadata' = [metadata EXCEPT ![s] = p]
  /\ Emit({Updated(s, p)})
  /\ UNCHANGED <<stripe, invoice>>

\* In the portal of createBillingPortalSession the metadata stays.
ChangePlanInPortal(s, p) ==
  /\ Change
  /\ stripe[s] \in {"active", "past_due"}
  /\ price[s] # p
  /\ price' = [price EXCEPT ![s] = p]
  /\ Emit({Updated(s, metadata[s])})
  /\ UNCHANGED <<stripe, metadata, invoice>>

\* cancelSubscription, the portal, or Stripe itself.
CancelSubscription(s) ==
  /\ Change
  /\ stripe[s] \in {"active", "past_due"}
  /\ stripe' = [stripe EXCEPT ![s] = "canceled"]
  /\ Emit({Deleted(s)})
  /\ UNCHANGED <<price, metadata, invoice>>

Due(i) == stripe[InvoiceOf[i]] \in {"active", "past_due"}

\* Stripe reports a change of status together with the metadata.
StatusUpdate(i) == Updated(InvoiceOf[i], metadata[InvoiceOf[i]])

\* The next period's invoice is paid, or its payment fails.
Renew(i) ==
  /\ Change
  /\ Due(i)
  /\ invoice[i] = "none"
  /\ \/ /\ invoice' = [invoice EXCEPT ![i] = "paid"]
        /\ Emit({Paid(i), StatusUpdate(i)})
        /\ UNCHANGED stripe
     \/ /\ invoice' = [invoice EXCEPT ![i] = "failed"]
        /\ Emit({Failed(i), StatusUpdate(i)})
        /\ stripe' = [stripe EXCEPT ![InvoiceOf[i]] = "past_due"]
  /\ UNCHANGED <<price, metadata>>

\* A delayed payment fails.
Decline(i) ==
  /\ Change
  /\ Due(i)
  /\ invoice[i] = "open"
  /\ invoice' = [invoice EXCEPT ![i] = "failed"]
  /\ Emit({Failed(i)})
  /\ UNCHANGED <<stripe, price, metadata>>

\* A delayed or failed payment is collected later.
Collect(i) ==
  /\ Change
  /\ stripe[InvoiceOf[i]] = "past_due"
  /\ invoice[i] \in {"open", "failed"}
  /\ invoice' = [invoice EXCEPT ![i] = "paid"]
  /\ stripe' = [stripe EXCEPT ![InvoiceOf[i]] = "active"]
  /\ Emit({Paid(i), StatusUpdate(i)})
  /\ UNCHANGED <<price, metadata>>

-----------------------------------------------------------------------------
(* The webhook, the queue and the consumer.                                *)

Repeats == {m \in Message : m[2] > 1 /\ queue[m] # "unsent"}

\* StripeService.webhook checks the signature and publishes.  Stripe calls
\* again when it saw no answer, or for no reason.
Webhook(e, n) ==
  /\ e \in emitted
  /\ queue[<<e, n>>] = "unsent"
  /\ \A k \in 1 .. (n - 1) : queue[<<e, k>>] # "unsent"
  /\ n > 1 => Cardinality(Repeats) < MaxRepeats
  /\ queue' = [queue EXCEPT ![<<e, n>>] = "ready"]
  /\ UNCHANGED <<stripeVars, pc, outcome, tableVars, faults>>

\* stripeWebhookConsumer: there is no prefetch.
Consume(m) ==
  /\ queue[m] = "ready"
  /\ queue' = [queue EXCEPT ![m] = "unacked"]
  /\ pc' = [pc EXCEPT ![m] = "first"]
  /\ UNCHANGED <<stripeVars, outcome, tableVars, faults>>

Fault == faults < MaxFaults /\ faults' = faults + 1

\* The process dies or loses its connection.  What a handler that outlives the
\* connection still writes is what the handler of a second copy writes.
Crash ==
  /\ Fault
  /\ queue' = [m \in Message |-> IF queue[m] = "unacked" THEN "ready" ELSE queue[m]]
  /\ pc' = [m \in Message |-> "idle"]
  /\ outcome' = [m \in Message |-> "none"]
  /\ UNCHANGED <<stripeVars, tableVars>>

\* ack; nack to the dead-letter queue; nack with requeue.
Respond(m) ==
  /\ pc[m] = "responding"
  /\ pc' = [pc EXCEPT ![m] = "idle"]
  /\ outcome' = [outcome EXCEPT ![m] = "none"]
  /\ queue' = [queue EXCEPT ![m] = IF outcome[m] = "success" THEN "acked"
                                   ELSE IF outcome[m] = "drop" THEN "dead" ELSE "ready"]
  /\ UNCHANGED <<stripeVars, tableVars, faults>>

-----------------------------------------------------------------------------
(* The handlers.                                                           *)

Sub(m) == m[1].sub
Exists(s) == row[s].status # "none"

At(m, kind, place) == m[1].kind = kind /\ pc[m] = place

Return(m, result) ==
  /\ pc' = [pc EXCEPT ![m] = "responding"]
  /\ outcome' = [outcome EXCEPT ![m] = result]

\* The one database call of a handler writes the row and the handler returns
\* success; or it fails, perhaps after writing, and the catch block returns.
OnlyCall(m, new, caught) ==
  /\ \/ /\ row' = [row EXCEPT ![Sub(m)] = new]
        /\ Return(m, "success")
        /\ UNCHANGED faults
     \/ /\ Fault
        /\ row' = row \/ row' = [row EXCEPT ![Sub(m)] = new]
        /\ Return(m, caught)
  /\ UNCHANGED <<stripeVars, queue, payment>>

\* What the upsert of a checkout makes of the row: the status is only set when
\* the row is new.
CheckedOut_Active(r, p) == [status |-> "active", owned |-> TRUE, plan |-> p]

CheckedOut_Reset(r, p) == [status |-> "incomplete", owned |-> TRUE, plan |-> p]

CheckedOut(r, p) ==
  [status |-> IF r.status = "none" THEN "incomplete" ELSE r.status,
   owned |-> TRUE, plan |-> p]

HandleCheckout_Swallowed(m) ==
  /\ At(m, "checkout", "first")
  /\ OnlyCall(m, CheckedOut(row[Sub(m)], m[1].plan), "success")

HandleCheckout(m) ==
  /\ At(m, "checkout", "first")
  /\ OnlyCall(m, CheckedOut(row[Sub(m)], m[1].plan), "drop")

Replanned_Cleared(r, p) == [r EXCEPT !.plan = p]

\* Metadata without a plan leaves the column alone.
Replanned(r, p) == IF p = NoPlan THEN r ELSE [r EXCEPT !.plan = p]

\* An update of a row that is not there throws; it is dead-lettered.
HandleUpdated(m) ==
  /\ At(m, "updated", "first")
  /\ \/ /\ Exists(Sub(m))
        /\ OnlyCall(m, Replanned(row[Sub(m)], m[1].plan), "drop")
     \/ /\ ~Exists(Sub(m))
        /\ Return(m, "drop")
        /\ UNCHANGED <<stripeVars, queue, tableVars, faults>>

HandleDeleted_Dropped(m) ==
  /\ At(m, "deleted", "first")
  /\ \/ /\ Exists(Sub(m))
        /\ OnlyCall(m, [row[Sub(m)] EXCEPT !.status = "canceled"], "requeue")
     \/ /\ ~Exists(Sub(m))
        /\ Return(m, "drop")
        /\ UNCHANGED <<stripeVars, queue, tableVars, faults>>

\* The same for a deletion, which is requeued instead.
HandleDeleted(m) ==
  /\ At(m, "deleted", "first")
  /\ \/ /\ Exists(Sub(m))
        /\ OnlyCall(m, [row[Sub(m)] EXCEPT !.status = "canceled"], "requeue")
     \/ /\ ~Exists(Sub(m))
        /\ Return(m, "requeue")
        /\ UNCHANGED <<stripeVars, queue, tableVars, faults>>

UpsertStatus_UpdateOnly(m, status) ==
  /\ row' = IF Exists(Sub(m)) THEN [row EXCEPT ![Sub(m)].status = status] ELSE row
  /\ pc' = [pc EXCEPT ![m] = "second"]
  /\ UNCHANGED <<stripeVars, outcome, queue, payment, faults>>

\* The upsert both invoice handlers start with.
UpsertStatus(m, status) ==
  LET new == [row EXCEPT ![Sub(m)] = [@ EXCEPT !.status = status]] IN
  /\ \/ /\ row' = new
        /\ pc' = [pc EXCEPT ![m] = "second"]
        /\ UNCHANGED <<outcome, faults>>
     \/ /\ Fault
        /\ row' = row \/ row' = new
        /\ Return(m, "requeue")
  /\ UNCHANGED <<stripeVars, queue, payment>>

InvoicePaid(m)   == At(m, "paid", "first") /\ UpsertStatus(m, "active")
InvoiceFailed(m) == At(m, "failed", "first") /\ UpsertStatus(m, "unpaid")

\* The insert into payments; its outcome when the invoice has a row already.
RecordPayment(m, status, ifThere) ==
  LET i == m[1].invoice
      new == [payment EXCEPT ![i] = status]
  IN
  /\ \/ /\ payment[i] = "none"
        /\ payment' = new
        /\ Return(m, "success")
        /\ UNCHANGED faults
     \/ /\ payment[i] # "none"
        /\ Return(m, ifThere)
        /\ UNCHANGED <<payment, faults>>
     \/ /\ Fault
        /\ payment' = payment \/ (payment[i] = "none" /\ payment' = new)
        /\ Return(m, "requeue")
  /\ UNCHANGED <<stripeVars, queue, row>>

RecordPaid_Twice(m) == At(m, "paid", "second") /\ RecordPayment(m, "succeeded", "requeue")

\* payments.upsert with nothing to update.
RecordPaid(m) == At(m, "paid", "second") /\ RecordPayment(m, "succeeded", "success")

\* payments.create: a second row for the invoice is refused, and the handler
\* asks for a requeue.
RecordFailed(m) == At(m, "failed", "second") /\ RecordPayment(m, "payment_failed", "requeue")

Handle(m) ==
  \/ HandleCheckout(m) \/ HandleUpdated(m) \/ HandleDeleted(m)
  \/ InvoicePaid(m)    \/ RecordPaid(m)
  \/ InvoiceFailed(m)  \/ RecordFailed(m)
  \/ Respond(m)

-----------------------------------------------------------------------------

AtStripe ==
  \/ \E s \in Subscription, p \in Plan :
       \/ \E i \in Invoice : CompleteCheckout(s, p, i)
       \/ UpdateSubscription(s, p)
       \/ ChangePlanInPortal(s, p)
  \/ \E s \in Subscription : CancelSubscription(s)
  \/ \E i \in Invoice : Renew(i) \/ Decline(i) \/ Collect(i)

Next ==
  \/ AtStripe
  \/ \E e \in emitted, n \in 1 .. MaxCopies : Webhook(e, n)
  \/ \E m \in Message : Consume(m) \/ Handle(m)
  \/ Crash

Spec == Init /\ [][Next]_vars

\* Stripe calls a webhook until it is answered; the broker delivers what is
\* ready; every database call ends and the event loop resumes its handler.
Fairness ==
  /\ \A e \in Event : WF_vars(Webhook(e, 1))
  /\ \A m \in Message : WF_vars(Consume(m)) /\ WF_vars(Handle(m))

FairSpec == Spec /\ Fairness

-----------------------------------------------------------------------------
(* What the billing tables promise.                                        *)

Acked(e) == \E n \in 1 .. MaxCopies : queue[<<e, n>>] = "acked"
Dead(e)  == \E n \in 1 .. MaxCopies : queue[<<e, n>>] = "dead"

\* The plan-limit guard grants a plan on an active row with an owner and a plan.
\* No order of events, duplicates and failures makes one without a checkout of
\* that plan or a change to it, and a paid invoice.  Checkout and invoice.paid
\* handlers.
EntitlementIsPaidFor ==
  \A s \in Subscription :
    row[s].status = "active" /\ row[s].owned /\ row[s].plan # NoPlan =>
      /\ \E i \in Invoice : InvoiceOf[i] = s /\ invoice[i] = "paid"
      /\ Checkout(s, row[s].plan) \in emitted \/ Updated(s, row[s].plan) \in emitted

\* An acknowledged checkout has given the subscription an owner and a plan, and
\* nothing that arrives later, in any order, takes them away.
CheckoutSticks ==
  \A s \in Subscription, p \in Plan : Acked(Checkout(s, p)) =>
    row[s].owned /\ row[s].plan # NoPlan /\ Exists(s)

\* An acknowledged invoice event has left a payment on record, and a
\* subscription row to hang it on.
InvoiceIsRecorded ==
  \A i \in Invoice : Acked(Paid(i)) \/ Acked(Failed(i)) =>
    payment[i] # "none" /\ Exists(InvoiceOf[i])

\* Without database errors the dead-letter queue gets only plan changes that
\* overtook the creation of the row.
DeadNeedsCause ==
  faults = 0 => \A e \in Event : Dead(e) => e.kind = "updated"

\* A subscription that was paid for and never failed or was canceled ends up
\* active and owned, with a plan, in whatever order and how often its events
\* arrive, once each was acknowledged (a plan change may be dead-lettered).
HappyPathConverges ==
  \A s \in Subscription :
    LET mine == {e \in emitted : e.sub = s} IN
    /\ \E e \in mine : e.kind = "paid"
    /\ \A e \in mine : e.kind \notin {"failed", "deleted"} /\ (Acked(e) \/ e.kind = "updated")
    => row[s].status = "active" /\ row[s].owned /\ row[s].plan # NoPlan

(* The strengthening that makes EntitlementIsPaidFor, CheckoutSticks and    *)
(* InvoiceIsRecorded inductive.                                            *)

\* Messages, and the invoices events speak of, are real.
Genuine ==
  /\ \A m \in Message : queue[m] # "unsent" \/ pc[m] # "idle" => m[1] \in emitted
  /\ \A i \in Invoice : Paid(i) \in emitted => invoice[i] = "paid"

\* Every column of a row comes from an event.
RowInv(s) ==
  /\ row[s].status = "active" => \E i \in Invoice : InvoiceOf[i] = s /\ invoice[i] = "paid"
  /\ row[s].plan # NoPlan =>
       Checkout(s, row[s].plan) \in emitted \/ Updated(s, row[s].plan) \in emitted

\* What is on record once a handler is done with its message.
Recorded(m) ==
  /\ Exists(Sub(m))
  /\ m[1].kind = "checkout" => row[Sub(m)].owned /\ row[Sub(m)].plan # NoPlan
  /\ m[1].kind \in {"paid", "failed"} => payment[m[1].invoice] # "none"

HandlerInv(m) ==
  /\ pc[m] = "second" => m[1].kind \in {"paid", "failed"} /\ Exists(Sub(m))
  /\ pc[m] = "responding" /\ outcome[m] = "success" => Recorded(m)
  /\ queue[m] = "acked" => Recorded(m)

BillingInv ==
  /\ TypeOK
  /\ Genuine
  /\ \A s \in Subscription : RowInv(s)
  /\ \A m \in Message : HandlerInv(m)

\* A canceled row is right about Stripe, and only an invoice's handler that
\* overtook it, or was overtaken, makes it anything else: no checkout and no
\* change of plan that is handled late revives it.  Checkout and update handlers.
CanceledIsLeftByInvoices ==
  [][\A s \in Subscription : row[s].status = "canceled" /\ row'[s].status # "canceled" =>
       /\ stripe[s] = "canceled"
       /\ \E m \in Message : /\ Sub(m) = s /\ m[1].kind \in {"paid", "failed"}
                            /\ pc[m] = "first" /\ pc'[m] # "first"]_vars

\* As long as nothing fails or is repeated, a change of plan by the API is not
\* undone by the checkout's event: updateSubscription finds only rows with an
\* owner, which are those whose checkout was handled.
PlanChangeSticks ==
  faults = 0 /\ Repeats = {} => \A s \in Subscription, p \in Plan :
    /\ Acked(Updated(s, p))
    /\ \A q \in Plan : Updated(s, q) \in emitted => q = p
    => row[s].plan = p

\* A deletion that overtook its row waits for it; only a checkout that was
\* dead-lettered keeps it waiting.
Waits(m) ==
  /\ m[1].kind = "deleted"
  /\ ~Exists(Sub(m))
  /\ \E p \in Plan : Dead(Checkout(Sub(m), p))

\* Every event but a failed payment reaches the queue and is settled there,
\* acknowledged or dead-lettered, in the end, its repeated copies too; the one
\* exception is a deletion that waits.  The worker's handlers.
EventsSettle ==
  <>[](\A m \in Message : m[1].kind # "failed" =>
         \/ queue[m] \in {"acked", "dead"}
         \/ queue[m] = "unsent" /\ (m[1] \notin emitted \/ m[2] > 1)
         \/ Waits(m))

\* The README: RabbitMQ workers handle all Stripe events, with dead-letter
\* queues.  Said of failed payments.
FailedPaymentsSettle ==
  \A m \in Message : m[1].kind = "failed" =>
    (queue[m] = "ready" ~> queue[m] \in {"acked", "dead"})

\* What a reader of the billing tables sees: an event is settled when one of its
\* copies was acknowledged.
Ledger == INSTANCE BillingLedger WITH
  told <- emitted,
  settled <- {e \in Event : Acked(e)}

\* The worker, with its copies, errors, crashes and interleaved handlers,
\* implements the billing ledger.
ImplementsLedger == Ledger!Spec

=============================================================================
