------------------------- MODULE StripeBillingProofs -------------------------
(***************************************************************************)
(* Theorems about StripeBilling for any subscriptions, invoices, plans and *)
(* bounds: any number of copies of every event, in any order.              *)
(***************************************************************************)
EXTENDS StripeBilling, TLAPS

USE DEF stripeVars, workerVars, tableVars

\* Every event Stripe reports is an event.
LEMMA EventTypes ==
  /\ \A s \in Subscription, p \in Plan : Checkout(s, p) \in Event
  /\ \A s \in Subscription, p \in Plan \cup {NoPlan} : Updated(s, p) \in Event
  /\ \A s \in Subscription : Deleted(s) \in Event
  /\ \A i \in Invoice : Paid(i) \in Event /\ Failed(i) \in Event
  BY BillingAssumption DEF BillingAssumption, Event, Checkout, Updated, Deleted, Paid, Failed

\* An event is about one of Stripe's subscriptions; an invoice event is about
\* an invoice of it, a checkout about a plan.
LEMMA EventFields ==
  ASSUME NEW e \in Event
  PROVE  /\ e.sub \in Subscription
         /\ e.kind \in {"paid", "failed"} => e.invoice \in Invoice /\ e.sub = InvoiceOf[e.invoice]
         /\ e.kind = "checkout" => e.plan \in Plan
         /\ e.kind = "updated" => e.plan \in Plan \cup {NoPlan}
  BY DEF Event

\* What happens at Stripe keeps the types.
LEMMA StripeTyping ==
  ASSUME TypeOK, AtStripe
  PROVE  TypeOK'
  <1> USE EventTypes, BillingAssumption DEF TypeOK, BillingAssumption, Emit, Change
  <1>1. ASSUME NEW s \in Subscription, NEW p \in Plan, NEW i \in Invoice, CompleteCheckout(s, p, i)
        PROVE  TypeOK'
    BY <1>1 DEF CompleteCheckout
  <1>2. ASSUME NEW s \in Subscription, NEW p \in Plan,
               UpdateSubscription(s, p) \/ ChangePlanInPortal(s, p)
        PROVE  TypeOK'
    BY <1>2 DEF UpdateSubscription, ChangePlanInPortal
  <1>3. ASSUME NEW s \in Subscription, CancelSubscription(s) PROVE TypeOK'
    BY <1>3 DEF CancelSubscription, Change
  <1>4. ASSUME NEW i \in Invoice, Renew(i) \/ Decline(i) \/ Collect(i) PROVE TypeOK'
    BY <1>4 DEF Renew, Decline, Collect, Due, StatusUpdate
  <1> QED
    BY <1>1, <1>2, <1>3, <1>4 DEF AtStripe

\* What the consumer and its handlers do keeps the types.
LEMMA WorkerTyping ==
  ASSUME TypeOK, NEW m \in Message, Consume(m) \/ Handle(m)
  PROVE  TypeOK'
  <1> USE BillingAssumption DEF BillingAssumption
  <1>0. m[1] \in Event
    BY DEF Message
  <1>1. CASE Consume(m) \/ Respond(m)
    BY <1>1 DEF TypeOK, Consume, Respond
  <1>2. ASSUME NEW new \in RowType, NEW caught \in {"drop", "requeue"}, OnlyCall(m, new, caught)
        PROVE  TypeOK'
    BY <1>2, <1>0, EventFields DEF TypeOK, OnlyCall, Return, Fault, Sub
  <1>3. CASE HandleCheckout(m)
    <2>0. row[Sub(m)] \in RowType /\ m[1].plan \in Plan
      BY <1>3, <1>0, EventFields DEF TypeOK, Sub, HandleCheckout, At
    <2>1. CheckedOut(row[Sub(m)], m[1].plan) \in RowType
      BY <2>0 DEF RowType, CheckedOut
    <2> QED
      BY <1>2, <1>3, <2>1 DEF HandleCheckout
  <1>4. CASE HandleUpdated(m)
    <2>0. row[Sub(m)] \in RowType /\ m[1].plan \in Plan \cup {NoPlan}
      BY <1>4, <1>0, EventFields DEF TypeOK, Sub, HandleUpdated, At
    <2>1. Replanned(row[Sub(m)], m[1].plan) \in RowType
      BY <2>0 DEF RowType, Replanned
    <2> QED
      BY <1>2, <1>4, <2>1 DEF HandleUpdated, Return, TypeOK
  <1>5. CASE HandleDeleted(m)
    <2>0. row[Sub(m)] \in RowType
      BY <1>0, EventFields DEF TypeOK, Sub
    <2>1. [row[Sub(m)] EXCEPT !.status = "canceled"] \in RowType
      BY <2>0 DEF RowType
    <2> QED
      BY <1>2, <1>5, <2>1 DEF HandleDeleted, Return, TypeOK
  <1>6. ASSUME NEW status \in {"active", "unpaid"}, UpsertStatus(m, status)
        PROVE  TypeOK'
    <2>0. Sub(m) \in Subscription /\ row[Sub(m)] \in RowType
      BY <1>0, EventFields DEF TypeOK, Sub
    <2>1. [row[Sub(m)] EXCEPT !.status = status] \in RowType
      BY <2>0 DEF RowType
    <2>2. row' \in [Subscription -> RowType]
      BY <1>6, <2>0, <2>1 DEF TypeOK, UpsertStatus
    <2>3. faults' \in 0 .. MaxFaults
      BY <1>6 DEF TypeOK, UpsertStatus, Fault
    <2>4. /\ pc' \in [Message -> {"idle", "first", "second", "responding"}]
          /\ outcome' \in [Message -> {"none", "success", "drop", "requeue"}]
      BY <1>6 DEF TypeOK, UpsertStatus, Return
    <2> QED
      BY <1>6, <2>2, <2>3, <2>4 DEF TypeOK, UpsertStatus
  <1>7. ASSUME NEW status \in {"succeeded", "payment_failed"}, NEW there \in {"success", "requeue"},
               m[1].kind \in {"paid", "failed"}, RecordPayment(m, status, there)
        PROVE  TypeOK'
    BY <1>7, <1>0, EventFields DEF TypeOK, RecordPayment, Return, Fault
  <1> QED
    BY <1>1, <1>3, <1>4, <1>5, <1>6, <1>7 DEF Handle, InvoicePaid, InvoiceFailed, RecordPaid, RecordFailed, At

\* Every variable keeps its type.
THEOREM BillingTypes == Spec => []TypeOK
  <1>1. Init => TypeOK
    BY BillingAssumption DEF Init, TypeOK, RowType, NoRow, BillingAssumption
  <1>2. TypeOK /\ [Next]_vars => TypeOK'
    <2> SUFFICES ASSUME TypeOK, [Next]_vars PROVE TypeOK'
      OBVIOUS
    <2>1. CASE AtStripe
      BY <2>1, StripeTyping
    <2>2. ASSUME NEW e \in emitted, NEW n \in 1 .. MaxCopies, Webhook(e, n)
          PROVE  TypeOK'
      <3>1. UNCHANGED <<stripeVars, pc, outcome, tableVars, faults>>
        BY <2>2 DEF Webhook
      <3>2. queue' \in [Message -> {"unsent", "ready", "unacked", "acked", "dead"}]
        BY <2>2 DEF TypeOK, Webhook
      <3> QED
        BY <3>1, <3>2 DEF TypeOK
    <2>3. CASE \E m \in Message : Consume(m) \/ Handle(m)
      BY <2>3, WorkerTyping
    <2>4. CASE Crash
      BY <2>4, BillingAssumption DEF TypeOK, Crash, Fault, BillingAssumption
    <2>5. CASE UNCHANGED vars
      BY <2>5 DEF TypeOK, vars
    <2> QED
      BY <2>1, <2>2, <2>3, <2>4, <2>5 DEF Next
  <1> QED
    BY <1>1, <1>2, PTL DEF Spec

-----------------------------------------------------------------------------
(* What the tables rest on.                                                *)

\* Events of different kinds, and of different invoices, are different.
LEMMA EventsDiffer ==
  ASSUME NEW i
  PROVE  /\ \A j : Paid(j) = Paid(i) => j = i
         /\ \A j : Failed(j) # Paid(i)
         /\ \A s, p : Checkout(s, p) # Paid(i) /\ Updated(s, p) # Paid(i)
         /\ \A s : Deleted(s) # Paid(i)
  <1>1. /\ \A j : Paid(j).kind = "paid" /\ Paid(j).invoice = j
        /\ \A j : Failed(j).kind = "failed"
        /\ \A s, p : Checkout(s, p).kind = "checkout" /\ Updated(s, p).kind = "updated"
        /\ \A s : Deleted(s).kind = "deleted"
    BY DEF Paid, Failed, Checkout, Updated, Deleted
  <1> QED
    BY <1>1

\* What happens at Stripe adds events and paid invoices, and leaves the worker
\* and its tables alone.
LEMMA StripeKept ==
  ASSUME BillingInv, AtStripe
  PROVE  BillingInv'
  <1>0. TypeOK'
    BY StripeTyping DEF BillingInv
  <1>1. UNCHANGED <<workerVars, tableVars>>
    BY DEF AtStripe, CompleteCheckout, UpdateSubscription, ChangePlanInPortal, CancelSubscription,
       Renew, Decline, Collect, Change
  <1>2. emitted \subseteq emitted'
    BY DEF AtStripe, CompleteCheckout, UpdateSubscription, ChangePlanInPortal, CancelSubscription,
       Renew, Decline, Collect, Emit
  <1>3. \A i \in Invoice : invoice[i] = "paid" => invoice'[i] = "paid"
    <2>1. invoice \in [Invoice -> {"none", "open", "failed", "paid"}]
      BY DEF BillingInv, TypeOK
    <2>2. CASE \E i \in Invoice : Renew(i) \/ Decline(i) \/ Collect(i)
      BY <2>1, <2>2 DEF Renew, Decline, Collect
    <2>3. CASE \E s \in Subscription, p \in Plan, i \in Invoice : CompleteCheckout(s, p, i)
      BY <2>1, <2>3 DEF CompleteCheckout
    <2>4. CASE invoice' = invoice
      BY <2>4
    <2> QED
      BY <2>2, <2>3, <2>4
      DEF AtStripe, UpdateSubscription, ChangePlanInPortal, CancelSubscription
  <1>4. ASSUME NEW i \in Invoice, Paid(i) \in emitted' PROVE invoice'[i] = "paid"
    <2>1. CASE Paid(i) \in emitted
      BY <2>1, <1>3 DEF BillingInv, Genuine
    <2>2. CASE Paid(i) \notin emitted
      <3>1. ASSUME NEW s \in Subscription, NEW p \in Plan, NEW j \in Invoice, CompleteCheckout(s, p, j)
            PROVE  invoice'[i] = "paid"
        BY <1>4, <2>2, <3>1, EventsDiffer DEF CompleteCheckout, Emit, BillingInv, TypeOK
      <3>2. ASSUME NEW s \in Subscription, NEW p \in Plan,
                   UpdateSubscription(s, p) \/ ChangePlanInPortal(s, p)
            PROVE  FALSE
        BY <1>4, <2>2, <3>2, EventsDiffer DEF UpdateSubscription, ChangePlanInPortal, Emit
      <3>3. ASSUME NEW s \in Subscription, CancelSubscription(s) PROVE FALSE
        BY <1>4, <2>2, <3>3, EventsDiffer DEF CancelSubscription, Emit
      <3>4. ASSUME NEW j \in Invoice, Renew(j) \/ Decline(j) \/ Collect(j)
            PROVE  invoice'[i] = "paid"
        BY <1>4, <2>2, <3>4, EventsDiffer DEF Renew, Decline, Collect, StatusUpdate, Emit, BillingInv, TypeOK
      <3> QED
        BY <3>1, <3>2, <3>3, <3>4 DEF AtStripe
    <2> QED
      BY <2>1, <2>2
  <1>5. Genuine'
    BY <1>1, <1>2, <1>4 DEF BillingInv, Genuine
  <1>6. ASSUME NEW s \in Subscription PROVE RowInv(s)'
    BY <1>1, <1>2, <1>3 DEF BillingInv, RowInv
  <1>7. ASSUME NEW m \in Message PROVE HandlerInv(m)'
    BY <1>1 DEF BillingInv, HandlerInv, Recorded, Exists
  <1> QED
    BY <1>0, <1>5, <1>6, <1>7 DEF BillingInv

\* Rows appear and columns are filled, never the other way round.
RowsGrow ==
  /\ \A s \in Subscription :
       /\ Exists(s) => Exists(s)'
       /\ row[s].owned => row'[s].owned
       /\ row[s].plan # NoPlan => row'[s].plan # NoPlan
  /\ \A i \in Invoice : payment[i] # "none" => payment'[i] # "none"

\* What is on record for a message stays on record.
LEMMA RecordedKept ==
  ASSUME NEW m \in Message, RowsGrow, Recorded(m)
  PROVE  Recorded(m)'
  <1>1. m[1] \in Event
    BY DEF Message
  <1> QED
    BY <1>1, EventFields DEF RowsGrow, Recorded, Exists, Sub

\* No handler takes away a row, an owner, a plan or a payment.
LEMMA HandlersGrow ==
  ASSUME BillingInv, NEW m \in Message, Consume(m) \/ Handle(m)
  PROVE  RowsGrow
  <1>0. /\ m[1] \in Event /\ Sub(m) \in Subscription
        /\ row \in [Subscription -> RowType]
        /\ payment \in [Invoice -> {"none", "succeeded", "payment_failed"}]
    BY EventFields DEF Message, Sub, BillingInv, TypeOK
  <1>1. CASE Consume(m) \/ Respond(m)
    BY <1>1 DEF Consume, Respond, RowsGrow, Exists
  <1>2. ASSUME NEW new \in RowType, NEW caught, OnlyCall(m, new, caught), new.status # "none",
               row[Sub(m)].owned => new.owned, row[Sub(m)].plan # NoPlan => new.plan # NoPlan
        PROVE  RowsGrow
    BY <1>2, <1>0 DEF OnlyCall, RowsGrow, Exists
  <1>3. CASE HandleCheckout(m)
    <2>1. CheckedOut(row[Sub(m)], m[1].plan) \in RowType
      BY <1>3, <1>0, EventFields DEF RowType, CheckedOut, HandleCheckout, At
    <2>2. /\ CheckedOut(row[Sub(m)], m[1].plan).status # "none"
          /\ CheckedOut(row[Sub(m)], m[1].plan).owned
          /\ CheckedOut(row[Sub(m)], m[1].plan).plan # NoPlan
      BY <1>3, <1>0, EventFields, BillingAssumption DEF CheckedOut, HandleCheckout, At, BillingAssumption
    <2> QED
      BY <1>2, <1>3, <2>1, <2>2 DEF HandleCheckout
  <1>4. CASE HandleUpdated(m)
    <2>1. CASE Exists(Sub(m)) /\ OnlyCall(m, Replanned(row[Sub(m)], m[1].plan), "drop")
      <3> DEFINE new == Replanned(row[Sub(m)], m[1].plan)
      <3>0. row[Sub(m)] \in RowType
        BY <1>0
      <3>1. new \in RowType
        BY <1>4, <1>0, <3>0, EventFields DEF RowType, Replanned, HandleUpdated, At
      <3>2. /\ new.status = row[Sub(m)].status
            /\ new.owned = row[Sub(m)].owned
            /\ row[Sub(m)].plan # NoPlan => new.plan # NoPlan
        BY <3>0 DEF Replanned, RowType
      <3> QED
        BY <1>2, <2>1, <3>1, <3>2 DEF Exists
    <2>2. CASE UNCHANGED tableVars
      BY <2>2 DEF RowsGrow, Exists
    <2> QED
      BY <1>4, <2>1, <2>2 DEF HandleUpdated
  <1>5. CASE HandleDeleted(m)
    <2>1. CASE OnlyCall(m, [row[Sub(m)] EXCEPT !.status = "canceled"], "requeue")
      <3> DEFINE new == [row[Sub(m)] EXCEPT !.status = "canceled"]
      <3>0. row[Sub(m)] \in RowType
        BY <1>0
      <3>1. new \in RowType /\ new.status # "none" /\ new.owned = row[Sub(m)].owned
            /\ new.plan = row[Sub(m)].plan
        BY <3>0 DEF RowType
      <3> QED
        BY <1>2, <2>1, <3>1
    <2>2. CASE UNCHANGED tableVars
      BY <2>2 DEF RowsGrow, Exists
    <2> QED
      BY <1>5, <2>1, <2>2 DEF HandleDeleted
  <1>6. ASSUME NEW status \in {"active", "unpaid"}, UpsertStatus(m, status)
        PROVE  RowsGrow
    <2>0. row[Sub(m)] \in RowType
      BY <1>0
    <2>1. /\ [row[Sub(m)] EXCEPT !.status = status].status = status
          /\ [row[Sub(m)] EXCEPT !.status = status].owned = row[Sub(m)].owned
          /\ [row[Sub(m)] EXCEPT !.status = status].plan = row[Sub(m)].plan
      BY <2>0 DEF RowType
    <2> QED
      BY <1>6, <1>0, <2>1 DEF UpsertStatus, RowsGrow, Exists
  <1>7. ASSUME NEW status \in {"succeeded", "payment_failed"}, NEW there, RecordPayment(m, status, there)
        PROVE  RowsGrow
    BY <1>7, <1>0 DEF RecordPayment, RowsGrow, Exists
  <1> QED
    BY <1>1, <1>3, <1>4, <1>5, <1>6, <1>7 DEF Handle, InvoicePaid, InvoiceFailed, RecordPaid, RecordFailed

\* A handler writes into a row what its event says.
LEMMA RowsGenuine ==
  ASSUME BillingInv, NEW m \in Message, Consume(m) \/ Handle(m), NEW s \in Subscription
  PROVE  RowInv(s)'
  <1>0. /\ m[1] \in Event /\ Sub(m) \in Subscription
        /\ row \in [Subscription -> RowType]
        /\ row[Sub(m)] \in RowType
        /\ RowInv(s)
    BY EventFields DEF Message, Sub, BillingInv, TypeOK
  <1>1. /\ UNCHANGED <<emitted, invoice>>
        /\ pc[m] # "idle" => m[1] \in emitted
    BY DEF Consume, Handle, HandleCheckout, HandleUpdated, HandleDeleted, InvoicePaid, InvoiceFailed,
       RecordPaid, RecordFailed, Respond, OnlyCall, UpsertStatus, RecordPayment, BillingInv, Genuine
  <1>2. CASE row' = row
    BY <1>0, <1>1, <1>2 DEF RowInv
  <1>3. ASSUME NEW new, OnlyCall(m, new, "drop") \/ OnlyCall(m, new, "requeue"), row' # row
        PROVE  row' = [row EXCEPT ![Sub(m)] = new]
    BY <1>3 DEF OnlyCall
  <1>4. CASE HandleCheckout(m) /\ row' # row
    <2> DEFINE new == CheckedOut(row[Sub(m)], m[1].plan)
    <2>1. row' = [row EXCEPT ![Sub(m)] = new]
      BY <1>3, <1>4 DEF HandleCheckout
    <2>2. m[1] = Checkout(Sub(m), new.plan) /\ m[1] \in emitted
      BY <1>0, <1>1, <1>4 DEF HandleCheckout, At, Event, Checkout, Sub, CheckedOut
    <2>3. new.status = "active" => row[Sub(m)].status = "active"
      BY DEF CheckedOut
    <2> QED
      BY <1>0, <1>1, <2>1, <2>2, <2>3 DEF RowInv
  <1>5. CASE HandleUpdated(m) /\ row' # row
    <2> DEFINE new == Replanned(row[Sub(m)], m[1].plan)
    <2>1. row' = [row EXCEPT ![Sub(m)] = new]
      BY <1>3, <1>5 DEF HandleUpdated
    <2>2. m[1] = Updated(Sub(m), m[1].plan) /\ m[1] \in emitted
      BY <1>0, <1>1, <1>5 DEF HandleUpdated, At, Event, Updated, Sub
    <2>3. new.status = row[Sub(m)].status /\ (new.plan = row[Sub(m)].plan \/ new.plan = m[1].plan)
      BY <1>0 DEF Replanned, RowType
    <2> QED
      BY <1>0, <1>1, <2>1, <2>2, <2>3 DEF RowInv
  <1>6. CASE HandleDeleted(m) /\ row' # row
    <2> DEFINE new == [row[Sub(m)] EXCEPT !.status = "canceled"]
    <2>1. row' = [row EXCEPT ![Sub(m)] = new]
      BY <1>3, <1>6 DEF HandleDeleted
    <2>2. new.status # "active" /\ new.plan = row[Sub(m)].plan
      BY <1>0 DEF RowType
    <2> QED
      BY <1>0, <1>1, <2>1, <2>2 DEF RowInv
  <1>7. ASSUME NEW status, UpsertStatus(m, status), row' # row
        PROVE  /\ row' = [row EXCEPT ![Sub(m)] = [@ EXCEPT !.status = status]]
               /\ [row[Sub(m)] EXCEPT !.status = status].status = status
               /\ [row[Sub(m)] EXCEPT !.status = status].plan = row[Sub(m)].plan
    BY <1>0, <1>7 DEF UpsertStatus, RowType
  <1>8. CASE InvoicePaid(m) /\ row' # row
    <2> DEFINE i == m[1].invoice
    <2>1. m[1] = Paid(i) /\ i \in Invoice /\ InvoiceOf[i] = Sub(m) /\ m[1] \in emitted
      <3>1. At(m, "paid", "first") /\ m[1] \in emitted
        BY <1>1, <1>8 DEF InvoicePaid, At
      <3>2. i \in Invoice
        BY <1>0, <3>1, EventFields DEF At
      <3>3. m[1] = Paid(i)
        BY <1>0, <3>1, EventFields DEF At, Event, Paid
      <3> QED
        BY <3>1, <3>2, <3>3 DEF Paid, Sub
    <2>2. invoice[i] = "paid"
      BY <2>1 DEF BillingInv, Genuine
    <2>3. /\ row'[s].plan = row[s].plan
          /\ row'[s].status = "active" => s = Sub(m) \/ row[s].status = "active"
      BY <1>0, <1>7, <1>8 DEF InvoicePaid
    <2> HIDE DEF i
    <2>4. \E j \in Invoice : InvoiceOf[j] = Sub(m) /\ invoice[j] = "paid"
      BY <2>1, <2>2
    <2> QED
      BY <1>0, <1>1, <2>3, <2>4 DEF RowInv
  <1>9. CASE InvoiceFailed(m) /\ row' # row
    <2> DEFINE new == [row[Sub(m)] EXCEPT !.status = "unpaid"]
    <2>0. row' = [row EXCEPT ![Sub(m)] = new]
      BY <1>7, <1>9 DEF InvoiceFailed
    <2>1. row'[s].plan = row[s].plan /\ (row'[s].status = "active" => row[s].status = "active")
      BY <1>0, <2>0 DEF RowType
    <2> QED
      BY <1>0, <1>1, <2>1 DEF RowInv
  <1>10. CASE Consume(m) \/ Respond(m) \/ RecordPaid(m) \/ RecordFailed(m)
    BY <1>2, <1>10 DEF Consume, Respond, RecordPaid, RecordFailed, RecordPayment
  <1> QED
    BY <1>2, <1>4, <1>5, <1>6, <1>8, <1>9, <1>10 DEF Handle

\* What a handler has on record when it answers, and what an acknowledged
\* message has.
LEMMA RecordsMade ==
  ASSUME BillingInv, NEW m \in Message, Consume(m) \/ Handle(m)
  PROVE  HandlerInv(m)'
  <1>0. /\ m[1] \in Event /\ Sub(m) \in Subscription
        /\ m[1].kind \in {"paid", "failed"} => m[1].invoice \in Invoice
        /\ row \in [Subscription -> RowType]
        /\ row[Sub(m)] \in RowType
        /\ payment \in [Invoice -> {"none", "succeeded", "payment_failed"}]
        /\ pc \in [Message -> {"idle", "first", "second", "responding"}]
        /\ outcome \in [Message -> {"none", "success", "drop", "requeue"}]
        /\ queue \in [Message -> {"unsent", "ready", "unacked", "acked", "dead"}]
        /\ HandlerInv(m)
    BY EventFields DEF Message, Sub, BillingInv, TypeOK
  <1>1. Recorded(m) => Recorded(m)'
    BY HandlersGrow, RecordedKept
  <1>2. CASE Consume(m) \/ Respond(m)
    BY <1>0, <1>1, <1>2 DEF Consume, Respond, HandlerInv
  <1>3. ASSUME NEW result \in {"success", "drop", "requeue"}, Return(m, result), UNCHANGED queue,
               result = "success" => Recorded(m)'
        PROVE  HandlerInv(m)'
    BY <1>0, <1>1, <1>3 DEF Return, HandlerInv
  <1>4. ASSUME NEW new, NEW caught \in {"drop", "requeue"}, OnlyCall(m, new, caught),
               m[1].kind \in {"checkout", "updated", "deleted"},
               m[1].kind = "checkout" => new.owned /\ new.plan # NoPlan,
               new.status # "none"
        PROVE  HandlerInv(m)'
    BY <1>0, <1>3, <1>4 DEF OnlyCall, Recorded, Exists
  <1>5. CASE HandleCheckout(m)
    BY <1>0, <1>4, <1>5, EventFields, BillingAssumption
    DEF HandleCheckout, At, CheckedOut, BillingAssumption
  <1>6. CASE HandleUpdated(m) \/ HandleDeleted(m)
    <2>1. Exists(Sub(m)) => Replanned(row[Sub(m)], m[1].plan).status # "none"
      BY <1>0 DEF Exists, Replanned, RowType
    <2>2. [row[Sub(m)] EXCEPT !.status = "canceled"].status # "none"
      BY <1>0 DEF RowType
    <2> QED
      BY <1>3, <1>4, <1>6, <2>1, <2>2 DEF HandleUpdated, HandleDeleted, At
  <1>7. ASSUME NEW status \in {"active", "unpaid"}, UpsertStatus(m, status),
               m[1].kind \in {"paid", "failed"}
        PROVE  HandlerInv(m)'
    <2>1. CASE Return(m, "requeue")
      BY <1>3, <1>7, <2>1 DEF UpsertStatus
    <2>2. CASE row' = [row EXCEPT ![Sub(m)] = [@ EXCEPT !.status = status]]
               /\ pc' = [pc EXCEPT ![m] = "second"] /\ UNCHANGED outcome
      <3>1. Exists(Sub(m))'
        BY <1>0, <2>2 DEF Exists, RowType, Sub
      <3> QED
        BY <1>0, <1>1, <1>7, <2>2, <3>1 DEF HandlerInv, UpsertStatus, Sub
    <2> QED
      BY <1>7, <2>1, <2>2 DEF UpsertStatus
  <1>8. ASSUME NEW status \in {"succeeded", "payment_failed"}, NEW there \in {"success", "requeue"},
               RecordPayment(m, status, there), m[1].kind \in {"paid", "failed"}, pc[m] = "second"
        PROVE  HandlerInv(m)'
    <2>1. Exists(Sub(m))'
      BY <1>0, <1>8 DEF HandlerInv, RecordPayment, Exists, Sub
    <2>2. CASE Return(m, "requeue")
      BY <1>3, <1>8, <2>2 DEF RecordPayment
    <2>3. CASE payment'[m[1].invoice] # "none"
      BY <1>0, <1>3, <1>8, <2>1, <2>3 DEF RecordPayment, Recorded
    <2> QED
      BY <1>0, <1>8, <2>2, <2>3 DEF RecordPayment
  <1> QED
    BY <1>2, <1>5, <1>6, <1>7, <1>8 DEF Handle, InvoicePaid, InvoiceFailed, RecordPaid, RecordFailed, At

\* The consumer and its handlers keep the invariant.
LEMMA WorkerKept ==
  ASSUME BillingInv, NEW m \in Message, Consume(m) \/ Handle(m)
  PROVE  BillingInv'
  <1>1. TypeOK'
    BY WorkerTyping DEF BillingInv
  <1>2. /\ UNCHANGED <<emitted, invoice>>
        /\ \A n \in Message : n # m =>
             pc'[n] = pc[n] /\ outcome'[n] = outcome[n] /\ queue'[n] = queue[n]
    BY DEF Consume, Handle, HandleCheckout, HandleUpdated, HandleDeleted, InvoicePaid, InvoiceFailed,
       RecordPaid, RecordFailed, Respond, OnlyCall, UpsertStatus, RecordPayment, Return, BillingInv, TypeOK
  <1>3. queue[m] # "unsent" \/ pc[m] # "idle"
    BY DEF Consume, Handle, HandleCheckout, HandleUpdated, HandleDeleted, InvoicePaid, InvoiceFailed,
       RecordPaid, RecordFailed, Respond, At
  <1>4. Genuine'
    BY <1>2, <1>3 DEF BillingInv, Genuine
  <1>5. ASSUME NEW n \in Message, n # m PROVE HandlerInv(n)'
    <2>1. HandlerInv(n) /\ (Recorded(n) => Recorded(n)')
      BY HandlersGrow, RecordedKept DEF BillingInv
    <2>2. Exists(Sub(n)) => Exists(Sub(n))'
      BY HandlersGrow, EventFields DEF RowsGrow, Message, Sub, Exists
    <2> QED
      BY <1>2, <1>5, <2>1, <2>2 DEF HandlerInv
  <1> QED
    BY <1>1, <1>4, <1>5, RowsGenuine, RecordsMade DEF BillingInv

\* The tables and the handlers satisfy their invariant in every state.
THEOREM BillingInvariant == Spec => []BillingInv
  <1>1. Init => BillingInv
    <2> SUFFICES ASSUME Init PROVE BillingInv
      OBVIOUS
    <2>1. TypeOK
      BY BillingAssumption DEF Init, TypeOK, RowType, NoRow, BillingAssumption
    <2> QED
      BY <2>1 DEF Init, BillingInv, Genuine, RowInv, HandlerInv, NoRow
  <1>2. BillingInv /\ [Next]_vars => BillingInv'
    <2> SUFFICES ASSUME BillingInv, [Next]_vars PROVE BillingInv'
      OBVIOUS
    <2> USE DEF BillingInv, Genuine, RowInv, HandlerInv, Recorded, Exists
    <2>1. CASE AtStripe
      BY <2>1, StripeKept
    <2>2. ASSUME NEW e \in emitted, NEW n \in 1 .. MaxCopies, Webhook(e, n) PROVE BillingInv'
      <3>1. TypeOK'
        BY <2>2 DEF TypeOK, Webhook
      <3>2. \A m \in Message : m # <<e, n>> => queue'[m] = queue[m]
        BY <2>2 DEF TypeOK, Webhook
      <3>3. queue'[<<e, n>>] # "acked"
        BY <2>2 DEF TypeOK, Webhook, Message
      <3> QED
        BY <2>2, <3>1, <3>2, <3>3 DEF Webhook
    <2>3. CASE \E m \in Message : Consume(m) \/ Handle(m)
      BY <2>3, WorkerKept
    <2>4. CASE Crash
      <3>1. TypeOK'
        BY <2>4, BillingAssumption DEF TypeOK, Crash, Fault, BillingAssumption
      <3>2. \A m \in Message : pc'[m] = "idle" /\ (queue'[m] = "acked" => queue[m] = "acked")
                                /\ (queue'[m] # "unsent" => queue[m] # "unsent")
        BY <2>4 DEF Crash
      <3> QED
        BY <2>4, <3>1, <3>2 DEF Crash
    <2>5. CASE UNCHANGED vars
      BY <2>5 DEF vars, TypeOK, Sub
    <2> QED
      BY <2>1, <2>2, <2>3, <2>4, <2>5 DEF Next
  <1> QED
    BY <1>1, <1>2, PTL DEF Spec

\* A row that grants a plan was paid for, and its plan comes from a checkout or
\* a change of plan.
THEOREM EntitlementHolds == Spec => []EntitlementIsPaidFor
  <1>1. BillingInv => EntitlementIsPaidFor
    BY DEF BillingInv, RowInv, EntitlementIsPaidFor
  <1> QED
    BY <1>1, BillingInvariant, PTL

\* An acknowledged checkout stays on record whatever arrives later.
THEOREM CheckoutHolds == Spec => []CheckoutSticks
  <1>1. BillingInv => CheckoutSticks
    <2> SUFFICES ASSUME BillingInv, NEW s \in Subscription, NEW p \in Plan,
                        NEW n \in 1 .. MaxCopies, queue[<<Checkout(s, p), n>>] = "acked"
                 PROVE  row[s].owned /\ row[s].plan # NoPlan /\ Exists(s)
      BY DEF CheckoutSticks, Acked
    <2>1. <<Checkout(s, p), n>> \in Message
      BY EventTypes DEF Message
    <2>2. Recorded(<<Checkout(s, p), n>>)
      BY <2>1 DEF BillingInv, HandlerInv
    <2> QED
      BY <2>2 DEF Recorded, Checkout, Sub
  <1> QED
    BY <1>1, BillingInvariant, PTL

\* An acknowledged invoice event has its payment and its row.
THEOREM InvoiceRecordHolds == Spec => []InvoiceIsRecorded
  <1>1. BillingInv => InvoiceIsRecorded
    <2> SUFFICES ASSUME BillingInv, NEW i \in Invoice, NEW e \in {Paid(i), Failed(i)},
                        NEW n \in 1 .. MaxCopies, queue[<<e, n>>] = "acked"
                 PROVE  payment[i] # "none" /\ Exists(InvoiceOf[i])
      BY DEF InvoiceIsRecorded, Acked
    <2>1. <<e, n>> \in Message
      BY EventTypes DEF Message
    <2>2. Recorded(<<e, n>>)
      BY <2>1 DEF BillingInv, HandlerInv
    <2>3. e.kind \in {"paid", "failed"} /\ e.invoice = i /\ e.sub = InvoiceOf[i]
      BY DEF Paid, Failed
    <2> QED
      BY <2>2, <2>3 DEF Recorded, Sub
  <1> QED
    BY <1>1, BillingInvariant, PTL

-----------------------------------------------------------------------------
(* What is thrown away, and what a purchase comes to.                      *)

\* Without faults a handler gives up only on a change of plan.
DropInv ==
  faults = 0 => \A m \in Message :
    outcome[m] = "drop" \/ queue[m] = "dead" => m[1].kind = "updated"

\* A handler gives up because of a fault, or on a change of plan.
LEMMA DropKept ==
  ASSUME TypeOK, DropInv, NEW m \in Message, Consume(m) \/ Handle(m)
  PROVE  DropInv'
  <1>0. /\ faults \in Nat
        /\ pc \in [Message -> {"idle", "first", "second", "responding"}]
        /\ outcome \in [Message -> {"none", "success", "drop", "requeue"}]
        /\ queue \in [Message -> {"unsent", "ready", "unacked", "acked", "dead"}]
    BY BillingAssumption DEF TypeOK, BillingAssumption
  <1>1. CASE Consume(m) \/ Respond(m)
    BY <1>0, <1>1 DEF Consume, Respond, DropInv
  <1>2. CASE Fault
    BY <1>0, <1>2 DEF Fault, DropInv
  <1>3. ASSUME NEW result, Return(m, result), UNCHANGED <<queue, faults>>,
               result = "drop" => m[1].kind = "updated"
        PROVE  DropInv'
    BY <1>0, <1>3 DEF Return, DropInv
  <1>4. CASE UNCHANGED <<outcome, queue, faults>>
    BY <1>4 DEF DropInv
  <1>5. ASSUME NEW new, NEW caught, OnlyCall(m, new, caught) PROVE DropInv'
    BY <1>2, <1>3, <1>5 DEF OnlyCall
  <1>6. CASE HandleCheckout(m) \/ HandleUpdated(m) \/ HandleDeleted(m)
    BY <1>3, <1>5, <1>6 DEF HandleCheckout, HandleUpdated, HandleDeleted, At
  <1>7. CASE InvoicePaid(m) \/ InvoiceFailed(m)
    BY <1>2, <1>4, <1>7 DEF InvoicePaid, InvoiceFailed, UpsertStatus
  <1>8. CASE RecordPaid(m) \/ RecordFailed(m)
    BY <1>2, <1>3, <1>8 DEF RecordPaid, RecordFailed, RecordPayment
  <1> QED
    BY <1>1, <1>6, <1>7, <1>8 DEF Handle

\* As long as the database answers, only changes of plan are dead-lettered.
THEOREM DeadLettersHaveCause == Spec => []DeadNeedsCause
  <1>1. Init => DropInv
    BY DEF Init, DropInv
  <1>2. TypeOK /\ DropInv /\ [Next]_vars => DropInv'
    <2> SUFFICES ASSUME TypeOK, DropInv, [Next]_vars PROVE DropInv'
      OBVIOUS
    <2>1. CASE AtStripe
      <3>1. UNCHANGED <<outcome, queue, faults>>
        BY <2>1 DEF AtStripe, CompleteCheckout, UpdateSubscription, ChangePlanInPortal,
           CancelSubscription, Renew, Decline, Collect, Change
      <3> QED
        BY <3>1 DEF DropInv
    <2>2. ASSUME NEW e \in emitted, NEW n \in 1 .. MaxCopies, Webhook(e, n) PROVE DropInv'
      BY <2>2 DEF Webhook, TypeOK, DropInv
    <2>3. CASE \E m \in Message : Consume(m) \/ Handle(m)
      BY <2>3, DropKept
    <2>4. CASE Crash
      BY <2>4, BillingAssumption DEF Crash, Fault, TypeOK, DropInv, BillingAssumption
    <2>5. CASE UNCHANGED vars
      BY <2>5 DEF vars, DropInv
    <2> QED
      BY <2>1, <2>2, <2>3, <2>4, <2>5 DEF Next
  <1>3. TypeOK /\ DropInv => DeadNeedsCause
    BY DEF TypeOK, DropInv, DeadNeedsCause, Dead, Message
  <1> QED
    BY <1>1, <1>2, <1>3, BillingTypes, PTL DEF Spec

\* A subscription is billed only after its checkout.
SoldInv ==
  /\ \A s \in Subscription : stripe[s] # "none" => \E p \in Plan : Checkout(s, p) \in emitted
  /\ \A i \in Invoice : invoice[i] # "none" => stripe[InvoiceOf[i]] # "none"

\* Nothing but purchases has been reported of the subscription.
Smooth(s) == \A e \in emitted : e.sub = s => e.kind \notin {"failed", "deleted"}

\* Its handlers are done with the status, once a payment has been seen.
ActiveInv(s) ==
  Smooth(s) => \A m \in Message :
    /\ Sub(m) = s /\ m[1].kind = "paid"
    /\ pc[m] = "second" \/ (pc[m] = "responding" /\ outcome[m] = "success") \/ queue[m] = "acked"
    => row[s].status = "active"

\* Checkouts come first, and nothing is unsold.
LEMMA SoldKept ==
  ASSUME TypeOK, SoldInv, [Next]_vars
  PROVE  SoldInv'
  <1> USE BillingAssumption DEF TypeOK, SoldInv, BillingAssumption, Emit, Change
  <1>1. ASSUME NEW s \in Subscription, NEW p \in Plan, NEW i \in Invoice, CompleteCheckout(s, p, i)
        PROVE  SoldInv'
    BY <1>1 DEF CompleteCheckout
  <1>2. ASSUME NEW s \in Subscription, NEW p \in Plan,
               UpdateSubscription(s, p) \/ ChangePlanInPortal(s, p)
        PROVE  SoldInv'
    BY <1>2 DEF UpdateSubscription, ChangePlanInPortal
  <1>3. ASSUME NEW s \in Subscription, CancelSubscription(s) PROVE SoldInv'
    BY <1>3 DEF CancelSubscription, Change
  <1>4. ASSUME NEW i \in Invoice, Renew(i) \/ Decline(i) \/ Collect(i) PROVE SoldInv'
    BY <1>4 DEF Renew, Decline, Collect, Due, StatusUpdate
  <1>5. CASE UNCHANGED <<stripe, invoice, emitted>>
    BY <1>5
  <1>6. ASSUME NEW m \in Message, Consume(m) \/ Handle(m) PROVE UNCHANGED <<stripe, invoice, emitted>>
    BY <1>6 DEF Consume, Handle, HandleCheckout, HandleUpdated, HandleDeleted, InvoicePaid, InvoiceFailed,
       RecordPaid, RecordFailed, Respond, OnlyCall, UpsertStatus, RecordPayment
  <1>7. CASE (\E e \in emitted, n \in 1 .. MaxCopies : Webhook(e, n)) \/ Crash \/ UNCHANGED vars
    BY <1>5, <1>7 DEF Webhook, Crash, vars
  <1> QED
    BY <1>1, <1>2, <1>3, <1>4, <1>5, <1>6, <1>7 DEF Next, AtStripe

\* A handler takes an active row's status away only for a failed payment or a
\* deletion.
LEMMA StaysActive ==
  ASSUME BillingInv, NEW m \in Message, Consume(m) \/ Handle(m),
         NEW s \in Subscription, Smooth(s), row[s].status = "active"
  PROVE  row'[s].status = "active"
  <1>0. /\ m[1] \in Event /\ Sub(m) \in Subscription
        /\ row \in [Subscription -> RowType]
        /\ row[Sub(m)] \in RowType
        /\ pc[m] # "idle" => m[1] \in emitted
    BY EventFields DEF Message, Sub, BillingInv, TypeOK, Genuine
  <1>1. CASE row' = row
    BY <1>1
  <1>2. ASSUME NEW new, NEW caught, OnlyCall(m, new, caught), new.status = row[Sub(m)].status \/ Sub(m) # s
        PROVE  row'[s].status = "active"
    BY <1>0, <1>2 DEF OnlyCall
  <1>3. CASE HandleCheckout(m)
    <2>1. Sub(m) = s => CheckedOut(row[Sub(m)], m[1].plan).status = row[Sub(m)].status
      BY DEF CheckedOut
    <2> QED
      BY <1>2, <1>3, <2>1 DEF HandleCheckout
  <1>4. CASE HandleUpdated(m)
    <2>1. Replanned(row[Sub(m)], m[1].plan).status = row[Sub(m)].status
      BY <1>0 DEF Replanned, RowType
    <2> QED
      BY <1>1, <1>2, <1>4, <2>1 DEF HandleUpdated
  <1>5. CASE HandleDeleted(m)
    <2>1. Sub(m) # s
      BY <1>0, <1>5 DEF HandleDeleted, At, Smooth, Sub
    <2> QED
      BY <1>1, <1>2, <1>5, <2>1 DEF HandleDeleted
  <1>6. CASE InvoicePaid(m)
    BY <1>0, <1>6 DEF InvoicePaid, UpsertStatus, RowType
  <1>7. CASE InvoiceFailed(m)
    <2>1. Sub(m) # s
      BY <1>0, <1>7 DEF InvoiceFailed, At, Smooth, Sub
    <2> QED
      BY <1>0, <1>7, <2>1 DEF InvoiceFailed, UpsertStatus
  <1>8. CASE Consume(m) \/ Respond(m) \/ RecordPaid(m) \/ RecordFailed(m)
    BY <1>1, <1>8 DEF Consume, Respond, RecordPaid, RecordFailed, RecordPayment
  <1> QED
    BY <1>3, <1>4, <1>5, <1>6, <1>7, <1>8 DEF Handle

\* A handler of a payment has made the row active before it goes on.
LEMMA ActiveKept ==
  ASSUME BillingInv, NEW m \in Message, Consume(m) \/ Handle(m),
         NEW s \in Subscription, ActiveInv(s)
  PROVE  ActiveInv(s)'
  <1>0. /\ m[1] \in Event /\ Sub(m) \in Subscription
        /\ row \in [Subscription -> RowType]
        /\ row[Sub(m)] \in RowType
        /\ pc \in [Message -> {"idle", "first", "second", "responding"}]
        /\ outcome \in [Message -> {"none", "success", "drop", "requeue"}]
        /\ queue \in [Message -> {"unsent", "ready", "unacked", "acked", "dead"}]
    BY EventFields DEF Message, Sub, BillingInv, TypeOK
  <1>1. /\ UNCHANGED emitted
        /\ \A n \in Message : n # m =>
             pc'[n] = pc[n] /\ outcome'[n] = outcome[n] /\ queue'[n] = queue[n]
    BY <1>0 DEF Consume, Handle, HandleCheckout, HandleUpdated, HandleDeleted, InvoicePaid, InvoiceFailed,
       RecordPaid, RecordFailed, Respond, OnlyCall, UpsertStatus, RecordPayment, Return
  <1>2. SUFFICES ASSUME Smooth(s), NEW n \in Message, Sub(n) = s, n[1].kind = "paid",
                        \/ pc'[n] = "second"
                        \/ pc'[n] = "responding" /\ outcome'[n] = "success"
                        \/ queue'[n] = "acked"
                 PROVE  row'[s].status = "active"
    BY <1>1 DEF ActiveInv, Smooth, Sub
  <1>3. CASE row[s].status = "active"
    BY <1>2, <1>3, StaysActive
  <1>4. CASE row[s].status # "active"
    <2>1. n = m
      BY <1>1, <1>2, <1>4 DEF ActiveInv
    <2>2. /\ ~(pc[n] = "second")
          /\ ~(pc[n] = "responding" /\ outcome[n] = "success")
          /\ ~(queue[n] = "acked")
      BY <1>2, <1>4 DEF ActiveInv
    <2>3. InvoicePaid(m)
      BY <1>0, <1>2, <2>1, <2>2 DEF Handle, Consume, Respond, HandleCheckout, HandleUpdated, HandleDeleted,
         InvoiceFailed, RecordPaid, RecordFailed, At
    <2>4. row' = [row EXCEPT ![Sub(m)] = [@ EXCEPT !.status = "active"]]
      BY <1>0, <1>2, <2>1, <2>2, <2>3 DEF InvoicePaid, UpsertStatus, Return
    <2> QED
      BY <1>0, <1>2, <2>1, <2>4 DEF RowType
  <1> QED
    BY <1>3, <1>4

\* What was sold and which rows are active hold of every behaviour.
LEMMA Purchases == Spec => [](SoldInv /\ \A s \in Subscription : ActiveInv(s))
  <1>1. Init => SoldInv /\ \A s \in Subscription : ActiveInv(s)
    BY DEF Init, SoldInv, ActiveInv
  <1>2. BillingInv /\ SoldInv /\ [Next]_vars => SoldInv'
    BY SoldKept DEF BillingInv
  <1>3. BillingInv /\ (\A s \in Subscription : ActiveInv(s)) /\ [Next]_vars
        => (\A s \in Subscription : ActiveInv(s))'
    <2> SUFFICES ASSUME BillingInv, NEW s \in Subscription, ActiveInv(s), [Next]_vars
                 PROVE  ActiveInv(s)'
      OBVIOUS
    <2>1. ASSUME UNCHANGED row, emitted \subseteq emitted',
                 \A m \in Message : /\ pc'[m] = "second" => pc[m] = "second"
                                    /\ pc'[m] = "responding" /\ outcome'[m] = "success"
                                       => pc[m] = "responding" /\ outcome[m] = "success"
                                    /\ queue'[m] = "acked" => queue[m] = "acked"
          PROVE  ActiveInv(s)'
      BY <2>1 DEF ActiveInv, Smooth, Sub
    <2>2. CASE AtStripe
      <3>1. UNCHANGED <<workerVars, tableVars>> /\ emitted \subseteq emitted'
        BY <2>2 DEF AtStripe, CompleteCheckout, UpdateSubscription, ChangePlanInPortal, CancelSubscription,
           Renew, Decline, Collect, Change, Emit
      <3> QED
        BY <2>1, <3>1
    <2>3. ASSUME NEW e \in emitted, NEW n \in 1 .. MaxCopies, Webhook(e, n) PROVE ActiveInv(s)'
      BY <2>1, <2>3 DEF Webhook, BillingInv, TypeOK
    <2>4. CASE \E m \in Message : Consume(m) \/ Handle(m)
      BY <2>4, ActiveKept
    <2>5. CASE Crash
      BY <2>1, <2>5 DEF Crash
    <2>6. CASE UNCHANGED vars
      BY <2>1, <2>6 DEF vars
    <2> QED
      BY <2>2, <2>3, <2>4, <2>5, <2>6 DEF Next
  <1> QED
    BY <1>1, <1>2, <1>3, BillingInvariant, PTL DEF Spec

\* A purchase that was only paid ends up active, owned and with a plan, in
\* whatever order and however often its events are handled.
THEOREM PurchaseConverges == Spec => []HappyPathConverges
  <1>1. BillingInv /\ SoldInv /\ (\A s \in Subscription : ActiveInv(s)) => HappyPathConverges
    <2> SUFFICES ASSUME BillingInv, SoldInv, NEW s \in Subscription, ActiveInv(s),
                        NEW e \in emitted, e.sub = s, e.kind = "paid",
                        \A f \in emitted : f.sub = s =>
                          f.kind \notin {"failed", "deleted"} /\ (Acked(f) \/ f.kind = "updated")
                 PROVE  row[s].status = "active" /\ row[s].owned /\ row[s].plan # NoPlan
      BY DEF HappyPathConverges
    <2>0. emitted \subseteq Event /\ e \in Event
      BY DEF BillingInv, TypeOK
    <2>1. row[s].status = "active"
      <3>1. PICK n \in 1 .. MaxCopies : queue[<<e, n>>] = "acked"
        BY DEF Acked
      <3>2. <<e, n>> \in Message /\ Sub(<<e, n>>) = s /\ <<e, n>>[1].kind = "paid"
        BY <2>0 DEF Message, Sub
      <3> QED
        BY <3>1, <3>2 DEF ActiveInv, Smooth
    <2>2. row[s].owned /\ row[s].plan # NoPlan
      <3>1. e.invoice \in Invoice /\ e.sub = InvoiceOf[e.invoice] /\ e = Paid(e.invoice)
        BY <2>0, EventFields DEF Event, Paid
      <3>2. invoice[e.invoice] = "paid"
        BY <3>1 DEF BillingInv, Genuine
      <3>3. PICK p \in Plan : Checkout(s, p) \in emitted
        BY <3>1, <3>2 DEF SoldInv
      <3>4. PICK n \in 1 .. MaxCopies : queue[<<Checkout(s, p), n>>] = "acked"
        BY <3>3 DEF Checkout, Acked
      <3>5. <<Checkout(s, p), n>> \in Message
        BY EventTypes DEF Message
      <3>6. Recorded(<<Checkout(s, p), n>>)
        BY <3>4, <3>5 DEF BillingInv, HandlerInv
      <3> QED
        BY <3>6 DEF Recorded, Checkout, Sub
    <2> QED
      BY <2>1, <2>2
  <1> QED
    BY <1>1, BillingInvariant, Purchases, PTL

-----------------------------------------------------------------------------
(* Late events: what revives a canceled row, and what keeps a plan.        *)

\* A row that is there changes its status for an invoice or a deletion only.
LEMMA StatusChanges ==
  ASSUME TypeOK, NEW m \in Message, Consume(m) \/ Handle(m),
         NEW s \in Subscription, row[s].status # "none", row'[s].status # row[s].status
  PROVE  /\ Sub(m) = s
         /\ \/ InvoicePaid(m) \/ InvoiceFailed(m)
            \/ HandleDeleted(m) /\ row'[s].status = "canceled"
  <1>0. /\ m[1] \in Event /\ Sub(m) \in Subscription
        /\ row \in [Subscription -> RowType]
        /\ row[Sub(m)] \in RowType
    BY EventFields DEF Message, Sub, TypeOK
  <1>1. row' # row
    OBVIOUS
  <1>2. ASSUME NEW new, NEW caught, OnlyCall(m, new, caught)
        PROVE  row' = [row EXCEPT ![Sub(m)] = new]
    BY <1>1, <1>2 DEF OnlyCall
  <1>3. CASE HandleCheckout(m)
    <2>1. row' = [row EXCEPT ![Sub(m)] = CheckedOut(row[Sub(m)], m[1].plan)]
      BY <1>2, <1>3 DEF HandleCheckout
    <2> QED
      BY <1>0, <2>1 DEF CheckedOut
  <1>4. CASE HandleUpdated(m)
    <2>1. row' = [row EXCEPT ![Sub(m)] = Replanned(row[Sub(m)], m[1].plan)]
      BY <1>1, <1>2, <1>4 DEF HandleUpdated
    <2>2. Replanned(row[Sub(m)], m[1].plan).status = row[Sub(m)].status
      BY <1>0 DEF Replanned, RowType
    <2> QED
      BY <1>0, <2>1, <2>2
  <1>5. CASE HandleDeleted(m)
    <2>1. row' = [row EXCEPT ![Sub(m)] = [row[Sub(m)] EXCEPT !.status = "canceled"]]
      BY <1>1, <1>2, <1>5 DEF HandleDeleted
    <2> QED
      BY <1>0, <1>5, <2>1 DEF RowType
  <1>6. CASE InvoicePaid(m) \/ InvoiceFailed(m)
    <2>1. \A r \in Subscription : r # Sub(m) => row'[r] = row[r]
      BY <1>0, <1>6 DEF InvoicePaid, InvoiceFailed, UpsertStatus
    <2> QED
      BY <1>6, <2>1
  <1>7. CASE Consume(m) \/ Respond(m) \/ RecordPaid(m) \/ RecordFailed(m)
    BY <1>1, <1>7 DEF Consume, Respond, RecordPaid, RecordFailed, RecordPayment
  <1> QED
    BY <1>3, <1>4, <1>5, <1>6, <1>7 DEF Handle

\* Stripe never forgets a cancellation, and a canceled row comes from one.
CancelInv ==
  \A s \in Subscription :
    Deleted(s) \in emitted \/ row[s].status = "canceled" => stripe[s] = "canceled"

\* At Stripe a cancellation is the end.
LEMMA CancellationIsFinal ==
  ASSUME TypeOK, AtStripe, NEW s \in Subscription
  PROVE  /\ stripe[s] = "canceled" => stripe'[s] = "canceled"
         /\ Deleted(s) \in emitted' /\ Deleted(s) \notin emitted => stripe'[s] = "canceled"
  <1>0. /\ stripe \in [Subscription -> {"none", "active", "past_due", "canceled"}]
        /\ \A i \in Invoice : InvoiceOf[i] \in Subscription
    BY BillingAssumption DEF TypeOK, BillingAssumption
  <1>1. /\ \A t \in Subscription : Deleted(t) = Deleted(s) => t = s
        /\ \A t, p : Checkout(t, p) # Deleted(s) /\ Updated(t, p) # Deleted(s)
        /\ \A i : Paid(i) # Deleted(s) /\ Failed(i) # Deleted(s)
    <2>1. Deleted(s).kind = "deleted"
      BY DEF Deleted
    <2>2. \A t : Deleted(t).sub = t
      BY DEF Deleted
    <2>3. /\ \A t, p : Checkout(t, p).kind = "checkout" /\ Updated(t, p).kind = "updated"
          /\ \A i : Paid(i).kind = "paid" /\ Failed(i).kind = "failed"
      BY DEF Checkout, Updated, Paid, Failed
    <2> QED
      BY <2>1, <2>2, <2>3
  <1>2. ASSUME NEW t \in Subscription, NEW p \in Plan, NEW i \in Invoice, CompleteCheckout(t, p, i)
        PROVE  /\ stripe[s] = "canceled" => stripe'[s] = "canceled"
               /\ Deleted(s) \in emitted' => Deleted(s) \in emitted
    BY <1>0, <1>1, <1>2 DEF CompleteCheckout, Emit
  <1>3. ASSUME NEW t \in Subscription, NEW p \in Plan,
               UpdateSubscription(t, p) \/ ChangePlanInPortal(t, p)
        PROVE  /\ stripe' = stripe
               /\ Deleted(s) \in emitted' => Deleted(s) \in emitted
    BY <1>1, <1>3 DEF UpdateSubscription, ChangePlanInPortal, Emit
  <1>4. ASSUME NEW t \in Subscription, CancelSubscription(t)
        PROVE  /\ stripe[s] = "canceled" => stripe'[s] = "canceled"
               /\ Deleted(s) \in emitted' /\ Deleted(s) \notin emitted => stripe'[s] = "canceled"
    BY <1>0, <1>1, <1>4 DEF CancelSubscription, Emit
  <1>5. ASSUME NEW i \in Invoice, Renew(i) \/ Decline(i) \/ Collect(i)
        PROVE  /\ stripe[s] = "canceled" => stripe'[s] = "canceled"
               /\ Deleted(s) \in emitted' => Deleted(s) \in emitted
    BY <1>0, <1>1, <1>5 DEF Renew, Decline, Collect, Due, StatusUpdate, Emit
  <1> QED
    BY <1>2, <1>3, <1>4, <1>5 DEF AtStripe

\* The worker takes over a cancellation only from an event that reports it.
LEMMA CancelKept ==
  ASSUME BillingInv, CancelInv, NEW m \in Message, Consume(m) \/ Handle(m)
  PROVE  CancelInv'
  <1>0. /\ m[1] \in Event /\ Sub(m) \in Subscription
        /\ row \in [Subscription -> RowType]
        /\ row[Sub(m)] \in RowType
        /\ pc[m] # "idle" => m[1] \in emitted
    BY EventFields DEF Message, Sub, BillingInv, TypeOK, Genuine
  <1>1. UNCHANGED <<stripe, emitted>>
    BY DEF Consume, Handle, HandleCheckout, HandleUpdated, HandleDeleted, InvoicePaid, InvoiceFailed,
       RecordPaid, RecordFailed, Respond, OnlyCall, UpsertStatus, RecordPayment
  <1> SUFFICES ASSUME NEW s \in Subscription, row'[s].status = "canceled", row[s].status # "canceled"
               PROVE  stripe[s] = "canceled"
    BY <1>1 DEF CancelInv, Deleted
  <1>2. CASE HandleDeleted(m)
    <2>1. Sub(m) = s
      BY <1>0, <1>2 DEF HandleDeleted, OnlyCall
    <2>2. m[1] = Deleted(s) /\ m[1] \in emitted
      BY <1>0, <1>2, <2>1 DEF HandleDeleted, At, Event, Deleted, Sub
    <2> QED
      BY <2>2 DEF CancelInv
  <1>3. CASE HandleCheckout(m)
    <2>1. CheckedOut(row[Sub(m)], m[1].plan).status \in {"incomplete", row[Sub(m)].status}
      BY DEF CheckedOut
    <2> QED
      BY <1>0, <1>3, <2>1 DEF HandleCheckout, OnlyCall
  <1>4. CASE HandleUpdated(m)
    <2>1. Replanned(row[Sub(m)], m[1].plan).status = row[Sub(m)].status
      BY <1>0 DEF Replanned, RowType
    <2> QED
      BY <1>0, <1>4, <2>1 DEF HandleUpdated, OnlyCall
  <1>5. CASE InvoicePaid(m) \/ InvoiceFailed(m)
    BY <1>0, <1>5 DEF InvoicePaid, InvoiceFailed, UpsertStatus, RowType
  <1>6. CASE Consume(m) \/ Respond(m) \/ RecordPaid(m) \/ RecordFailed(m)
    BY <1>6 DEF Consume, Respond, RecordPaid, RecordFailed, RecordPayment
  <1> QED
    BY <1>2, <1>3, <1>4, <1>5, <1>6 DEF Handle

\* A canceled row is right about Stripe, and only the handler of an invoice that
\* crossed the cancellation makes it anything else.
THEOREM CanceledHolds == Spec => CanceledIsLeftByInvoices
  <1>1. Init => CancelInv
    BY DEF Init, CancelInv, NoRow
  <1>2. BillingInv /\ CancelInv /\ [Next]_vars => CancelInv'
    <2> SUFFICES ASSUME BillingInv, CancelInv, [Next]_vars PROVE CancelInv'
      OBVIOUS
    <2>1. CASE AtStripe
      <3>1. UNCHANGED row
        BY <2>1 DEF AtStripe, CompleteCheckout, UpdateSubscription, ChangePlanInPortal, CancelSubscription,
           Renew, Decline, Collect, Change
      <3>2. TypeOK
        BY DEF BillingInv
      <3> SUFFICES ASSUME NEW s \in Subscription, (Deleted(s) \in emitted \/ row[s].status = "canceled")'
                   PROVE  stripe'[s] = "canceled"
        BY DEF CancelInv
      <3> QED
        BY <2>1, <3>1, <3>2, CancellationIsFinal DEF CancelInv, Deleted
    <2>2. CASE \E m \in Message : Consume(m) \/ Handle(m)
      BY <2>2, CancelKept
    <2>3. CASE (\E e \in emitted, n \in 1 .. MaxCopies : Webhook(e, n)) \/ Crash \/ UNCHANGED vars
      BY <2>3 DEF Webhook, Crash, vars, CancelInv, Deleted
    <2> QED
      BY <2>1, <2>2, <2>3 DEF Next
  <1>3. BillingInv /\ CancelInv /\ [Next]_vars =>
          [\A s \in Subscription : row[s].status = "canceled" /\ row'[s].status # "canceled" =>
             /\ stripe[s] = "canceled"
             /\ \E m \in Message : /\ Sub(m) = s /\ m[1].kind \in {"paid", "failed"}
                                  /\ pc[m] = "first" /\ pc'[m] # "first"]_vars
    <2> SUFFICES ASSUME BillingInv, CancelInv, [Next]_vars,
                        NEW s \in Subscription, row[s].status = "canceled", row'[s].status # "canceled"
                 PROVE  \E m \in Message : /\ Sub(m) = s /\ m[1].kind \in {"paid", "failed"}
                                           /\ pc[m] = "first" /\ pc'[m] # "first"
      BY DEF CancelInv
    <2>1. PICK m \in Message : Consume(m) \/ Handle(m)
      <3>1. row' # row
        OBVIOUS
      <3> QED
        BY <3>1 DEF Next, AtStripe, CompleteCheckout, UpdateSubscription, ChangePlanInPortal,
           CancelSubscription, Renew, Decline, Collect, Change, Webhook, Crash, vars
    <2>2. TypeOK
      BY DEF BillingInv
    <2>3. Sub(m) = s /\ (InvoicePaid(m) \/ InvoiceFailed(m))
      BY <2>1, <2>2, StatusChanges
    <2>4. pc \in [Message -> {"idle", "first", "second", "responding"}]
      BY <2>2 DEF TypeOK
    <2> QED
      BY <2>3, <2>4 DEF InvoicePaid, InvoiceFailed, At, UpsertStatus, Return
  <1> QED
    BY <1>1, <1>2, <1>3, BillingInvariant, PTL DEF Spec, CanceledIsLeftByInvoices

\* What Stripe tells of a subscription begins with its one checkout, and names
\* the plan the metadata hold.
TaleInv ==
  /\ \A e \in emitted : stripe[e.sub] # "none"
  /\ \A s \in Subscription, p, q \in Plan :
       Checkout(s, p) \in emitted /\ Checkout(s, q) \in emitted => p = q
  /\ \A s \in Subscription : metadata[s] # NoPlan => Updated(s, metadata[s]) \in emitted

\* A message at a handler is out.
PlaceInv == \A m \in Message : pc[m] # "idle" => queue[m] = "unacked"

Calm == faults = 0 /\ Repeats = {}

\* The first copy of the event was handled with success.
Worked(e) ==
  /\ <<e, 1>> \in Message
  /\ \/ queue[<<e, 1>>] = "acked"
     \/ pc[<<e, 1>>] = "responding" /\ outcome[<<e, 1>>] = "success"

\* An owner comes from the checkout, a change of plan needs an owner, and the
\* one plan that was changed to stays.
CalmInv(s) ==
  Calm =>
    /\ row[s].owned => \E p \in Plan : Checkout(s, p) \in emitted /\ Worked(Checkout(s, p))
    /\ \A p \in Plan : Updated(s, p) \in emitted => row[s].owned
    /\ \A p \in Plan :
         /\ Updated(s, p) \in emitted /\ Worked(Updated(s, p))
         /\ \A q \in Plan : Updated(s, q) \in emitted => q = p
         => row[s].plan = p

\* Events are told apart by their kinds, subscriptions and plans.
LEMMA PlanEventsDiffer ==
  ASSUME NEW s, NEW p
  PROVE  /\ \A t, q : Checkout(t, q) = Checkout(s, p) => t = s /\ q = p
         /\ \A t, q : Updated(t, q) = Updated(s, p) => t = s /\ q = p
         /\ \A t, q : Checkout(t, q) # Updated(s, p)
         /\ \A t : Deleted(t) # Updated(s, p) /\ Deleted(t) # Checkout(s, p)
         /\ \A i : /\ Paid(i) # Updated(s, p) /\ Failed(i) # Updated(s, p)
                   /\ Paid(i) # Checkout(s, p) /\ Failed(i) # Checkout(s, p)
  <1>1. /\ \A t, q : Checkout(t, q).sub = t /\ Checkout(t, q).plan = q
        /\ \A t, q : Updated(t, q).sub = t /\ Updated(t, q).plan = q
    BY DEF Checkout, Updated
  <1>2. /\ \A t, q : Checkout(t, q).kind = "checkout" /\ Updated(t, q).kind = "updated"
        /\ \A t : Deleted(t).kind = "deleted"
        /\ \A i : Paid(i).kind = "paid" /\ Failed(i).kind = "failed"
    BY DEF Checkout, Updated, Deleted, Paid, Failed
  <1> QED
    BY <1>1, <1>2

LEMMA EventSubs ==
  /\ \A s, p : Checkout(s, p).sub = s /\ Updated(s, p).sub = s
  /\ \A s : Deleted(s).sub = s
  /\ \A i : Paid(i).sub = InvoiceOf[i] /\ Failed(i).sub = InvoiceOf[i]
  BY DEF Checkout, Updated, Deleted, Paid, Failed

\* What Stripe adds to its tale keeps it in order.
LEMMA TaleAtStripe ==
  ASSUME TypeOK, TaleInv, AtStripe
  PROVE  TaleInv'
  <1>0. /\ stripe \in [Subscription -> {"none", "active", "past_due", "canceled"}]
        /\ metadata \in [Subscription -> Plan \cup {NoPlan}]
        /\ \A i \in Invoice : InvoiceOf[i] \in Subscription
        /\ \A e \in emitted : e.sub \in Subscription
    BY EventFields, BillingAssumption DEF TypeOK, BillingAssumption
  <1>1. ASSUME \A s \in Subscription : stripe[s] # "none" => stripe'[s] # "none",
               NEW new, emitted' = emitted \cup new, \A e \in new : stripe'[e.sub] # "none"
        PROVE  \A e \in emitted' : stripe'[e.sub] # "none"
    BY <1>0, <1>1 DEF TaleInv
  <1>2. ASSUME NEW new, emitted' = emitted \cup new, \A s, p : Checkout(s, p) \notin new
        PROVE  \A s \in Subscription, p, q \in Plan :
                 Checkout(s, p) \in emitted' /\ Checkout(s, q) \in emitted' => p = q
    BY <1>2 DEF TaleInv
  <1>3. ASSUME emitted \subseteq emitted', metadata' = metadata
        PROVE  \A s \in Subscription : metadata'[s] # NoPlan => Updated(s, metadata'[s]) \in emitted'
    BY <1>3 DEF TaleInv
  <1>4. ASSUME NEW s \in Subscription, NEW p \in Plan, NEW i \in Invoice, CompleteCheckout(s, p, i)
        PROVE  TaleInv'
    <2>0. /\ stripe'[s] # "none"
          /\ \A t \in Subscription : stripe[t] # "none" => stripe'[t] # "none"
          /\ metadata' = metadata /\ InvoiceOf[i] = s /\ stripe[s] = "none"
      BY <1>0, <1>4 DEF CompleteCheckout
    <2>1. PICK new : /\ emitted' = emitted \cup new
                     /\ new \subseteq {Checkout(s, p), Paid(i), Updated(s, metadata[s])}
      BY <1>4, Zenon DEF CompleteCheckout, Emit
    <2>2. \A e \in new : stripe'[e.sub] # "none"
      BY <2>0, <2>1, EventSubs
    <2>3. ASSUME NEW t \in Subscription, NEW q \in Plan, NEW r \in Plan,
                 Checkout(t, q) \in emitted', Checkout(t, r) \in emitted'
          PROVE  q = r
      <3>1. CASE t = s
        <4>1. \A x \in Plan : Checkout(s, x) \notin emitted
          BY <2>0, EventSubs DEF TaleInv
        <4> QED
          BY <2>1, <2>3, <3>1, <4>1, PlanEventsDiffer
      <3>2. CASE t # s
        <4>1. Checkout(t, q) \in emitted /\ Checkout(t, r) \in emitted
          BY <2>1, <2>3, <3>2, PlanEventsDiffer
        <4> QED
          BY <4>1 DEF TaleInv
      <3> QED
        BY <3>1, <3>2
    <2> QED
      BY <1>1, <1>3, <2>0, <2>1, <2>2, <2>3 DEF TaleInv
  <1>5. ASSUME NEW s \in Subscription, NEW p \in Plan, UpdateSubscription(s, p)
        PROVE  TaleInv'
    <2>0. /\ emitted' = emitted \cup {Updated(s, p)} /\ stripe' = stripe /\ stripe[s] # "none"
          /\ metadata' = [metadata EXCEPT ![s] = p]
      BY <1>5 DEF UpdateSubscription, Emit
    <2>1. \A t \in Subscription : metadata'[t] # NoPlan => Updated(t, metadata'[t]) \in emitted'
      BY <1>0, <2>0 DEF TaleInv
    <2>2. \A e \in {Updated(s, p)} : stripe'[e.sub] # "none"
      BY <2>0, EventSubs
    <2>3. \A t, q : Checkout(t, q) \notin {Updated(s, p)}
      BY PlanEventsDiffer
    <2> QED
      BY <1>1, <1>2, <2>0, <2>1, <2>2, <2>3 DEF TaleInv
  <1>6. ASSUME NEW new, emitted' = emitted \cup new, metadata' = metadata,
               \A s \in Subscription : stripe[s] # "none" => stripe'[s] # "none",
               \A e \in new : stripe'[e.sub] # "none",
               \A s, p : Checkout(s, p) \notin new
        PROVE  TaleInv'
    BY <1>1, <1>2, <1>3, <1>6 DEF TaleInv
  <1>7. ASSUME NEW s \in Subscription, NEW p \in Plan, ChangePlanInPortal(s, p)
        PROVE  TaleInv'
    <2>1. /\ emitted' = emitted \cup {Updated(s, metadata[s])} /\ stripe' = stripe /\ stripe[s] # "none"
          /\ metadata' = metadata
      BY <1>7 DEF ChangePlanInPortal, Emit
    <2>2. \A e \in {Updated(s, metadata[s])} : stripe'[e.sub] # "none"
      BY <2>1, EventSubs
    <2>3. \A t, q : Checkout(t, q) \notin {Updated(s, metadata[s])}
      BY PlanEventsDiffer
    <2> QED
      BY <1>6, <2>1, <2>2, <2>3
  <1>8. ASSUME NEW s \in Subscription, CancelSubscription(s)
        PROVE  TaleInv'
    <2>1. /\ emitted' = emitted \cup {Deleted(s)} /\ stripe' = [stripe EXCEPT ![s] = "canceled"]
          /\ metadata' = metadata
      BY <1>8 DEF CancelSubscription, Emit
    <2>2. \A e \in {Deleted(s)} : stripe'[e.sub] # "none"
      BY <1>0, <2>1, EventSubs
    <2>3. \A t, q : Checkout(t, q) \notin {Deleted(s)}
      BY PlanEventsDiffer
    <2>4. \A t \in Subscription : stripe[t] # "none" => stripe'[t] # "none"
      BY <1>0, <2>1
    <2> QED
      BY <1>6, <2>1, <2>2, <2>3, <2>4
  <1>9. ASSUME NEW i \in Invoice, Renew(i) \/ Decline(i) \/ Collect(i)
        PROVE  TaleInv'
    <2> DEFINE s == InvoiceOf[i]
    <2>1. /\ stripe[s] # "none" /\ metadata' = metadata
          /\ \E t \in {"active", "past_due"} : stripe' = stripe \/ stripe' = [stripe EXCEPT ![s] = t]
      BY <1>0, <1>9 DEF Renew, Decline, Collect, Due
    <2>2. PICK new : /\ emitted' = emitted \cup new
                     /\ new \subseteq {Paid(i), Failed(i), Updated(s, metadata[s])}
      <3>1. CASE Renew(i)
        BY <3>1, Zenon DEF Renew, Emit, StatusUpdate
      <3>2. CASE Decline(i)
        BY <3>2, Zenon DEF Decline, Emit
      <3>3. CASE Collect(i)
        BY <3>3, Zenon DEF Collect, Emit, StatusUpdate
      <3> QED
        BY <1>9, <3>1, <3>2, <3>3
    <2>3. stripe'[s] # "none" /\ \A t \in Subscription : stripe[t] # "none" => stripe'[t] # "none"
      BY <1>0, <2>1
    <2>4. \A e \in new : stripe'[e.sub] # "none"
      BY <2>2, <2>3, EventSubs
    <2>5. \A t, q : Checkout(t, q) \notin new
      BY <2>2, PlanEventsDiffer
    <2> QED
      BY <1>6, <2>1, <2>2, <2>3, <2>4, <2>5
  <1> QED
    BY <1>4, <1>5, <1>7, <1>8, <1>9 DEF AtStripe

\* A plan is first reported for a subscription that has an owner here.
LEMMA FirstPlanOwned ==
  ASSUME TypeOK, TaleInv, AtStripe, NEW s \in Subscription, NEW p \in Plan,
         Updated(s, p) \in emitted', Updated(s, p) \notin emitted
  PROVE  row[s].owned
  <1>0. /\ metadata \in [Subscription -> Plan \cup {NoPlan}]
        /\ NoPlan \notin Plan
        /\ \A i \in Invoice : InvoiceOf[i] \in Subscription
    BY BillingAssumption DEF TypeOK, BillingAssumption
  <1>1. ASSUME NEW t \in Subscription, Updated(s, p) = Updated(t, metadata[t]) PROVE FALSE
    BY <1>0, <1>1, PlanEventsDiffer DEF TaleInv
  <1>2. ASSUME NEW t \in Subscription, NEW q \in Plan, NEW i \in Invoice, CompleteCheckout(t, q, i)
        PROVE  FALSE
    <2>1. Updated(s, p) \in emitted \cup {Checkout(t, q), Paid(i), Updated(t, metadata[t])}
      BY <1>2 DEF CompleteCheckout, Emit
    <2> QED
      BY <1>1, <2>1, PlanEventsDiffer
  <1>3. ASSUME NEW t \in Subscription, NEW q \in Plan, ChangePlanInPortal(t, q) PROVE FALSE
    BY <1>1, <1>3, PlanEventsDiffer DEF ChangePlanInPortal, Emit
  <1>4. ASSUME NEW t \in Subscription, CancelSubscription(t) PROVE FALSE
    BY <1>4, PlanEventsDiffer DEF CancelSubscription, Emit
  <1>5. ASSUME NEW i \in Invoice, Renew(i) \/ Decline(i) \/ Collect(i) PROVE FALSE
    <2>1. Updated(s, p) \in emitted \cup {Paid(i), Failed(i), Updated(InvoiceOf[i], metadata[InvoiceOf[i]])}
      BY <1>5 DEF Renew, Decline, Collect, Emit, StatusUpdate
    <2> QED
      BY <1>0, <1>1, <2>1, PlanEventsDiffer
  <1>6. ASSUME NEW t \in Subscription, NEW q \in Plan, UpdateSubscription(t, q) PROVE row[s].owned
    BY <1>6, PlanEventsDiffer DEF UpdateSubscription, Emit
  <1> QED
    BY <1>2, <1>3, <1>4, <1>5, <1>6 DEF AtStripe

\* What happens at Stripe disturbs no handler.
LEMMA StripeIsElsewhere ==
  ASSUME AtStripe
  PROVE  UNCHANGED <<queue, pc, faults>>
  <1>1. ASSUME NEW s \in Subscription, NEW p \in Plan, NEW i \in Invoice, CompleteCheckout(s, p, i)
        PROVE  UNCHANGED <<queue, pc, faults>>
    BY <1>1 DEF CompleteCheckout
  <1>2. ASSUME NEW s \in Subscription, NEW p \in Plan,
               UpdateSubscription(s, p) \/ ChangePlanInPortal(s, p)
        PROVE  UNCHANGED <<queue, pc, faults>>
    BY <1>2 DEF UpdateSubscription, ChangePlanInPortal, Change
  <1>3. ASSUME NEW s \in Subscription, CancelSubscription(s) PROVE UNCHANGED <<queue, pc, faults>>
    BY <1>3 DEF CancelSubscription, Change
  <1>4. ASSUME NEW i \in Invoice, Renew(i) \/ Decline(i) \/ Collect(i)
        PROVE  UNCHANGED <<queue, pc, faults>>
    BY <1>4 DEF Renew, Decline, Collect, Change
  <1> QED
    BY <1>1, <1>2, <1>3, <1>4 DEF AtStripe

\* Nothing that was repeated or went wrong is forgotten.
LEMMA CalmBefore ==
  ASSUME TypeOK, [Next]_vars, Calm'
  PROVE  Calm
  <1>0. /\ faults \in Nat
        /\ queue \in [Message -> {"unsent", "ready", "unacked", "acked", "dead"}]
    BY BillingAssumption DEF TypeOK, BillingAssumption
  <1>1. faults' = faults \/ faults' = faults + 1
    <2>1. ASSUME NEW m \in Message, Handle(m) PROVE faults' = faults \/ faults' = faults + 1
      BY <2>1 DEF Handle, HandleCheckout, HandleUpdated, HandleDeleted, InvoicePaid, InvoiceFailed,
         RecordPaid, RecordFailed, Respond, OnlyCall, UpsertStatus, RecordPayment, Fault
    <2>2. ASSUME NEW m \in Message, Consume(m) PROVE faults' = faults
      BY <2>2 DEF Consume
    <2>3. ASSUME NEW e \in emitted, NEW n \in 1 .. MaxCopies, Webhook(e, n) PROVE faults' = faults
      BY <2>3 DEF Webhook
    <2> QED
      BY <2>1, <2>2, <2>3, StripeIsElsewhere DEF Next, Crash, Fault, vars
  <1>2. \A n \in Message : queue[n] # "unsent" => queue'[n] # "unsent"
    <2>1. CASE queue' = queue
      BY <2>1
    <2>2. ASSUME NEW m \in Message, Consume(m) \/ Respond(m)
          PROVE  \A n \in Message : queue[n] # "unsent" => queue'[n] # "unsent"
      BY <1>0, <2>2 DEF Consume, Respond
    <2>3. ASSUME NEW e \in emitted, NEW n \in 1 .. MaxCopies, Webhook(e, n)
          PROVE  \A m \in Message : queue[m] # "unsent" => queue'[m] # "unsent"
      BY <1>0, <2>3 DEF Webhook
    <2>4. CASE Crash
      BY <2>4 DEF Crash
    <2>5. CASE AtStripe
      BY <2>1, <2>5, StripeIsElsewhere
    <2>6. ASSUME NEW m \in Message, Handle(m), ~Respond(m) PROVE queue' = queue
      BY <2>6 DEF Handle, HandleCheckout, HandleUpdated, HandleDeleted, InvoicePaid, InvoiceFailed,
         RecordPaid, RecordFailed, OnlyCall, UpsertStatus, RecordPayment
    <2> QED
      BY <2>1, <2>2, <2>3, <2>4, <2>5, <2>6 DEF Next, vars
  <1> QED
    BY <1>0, <1>1, <1>2 DEF Calm, Repeats

\* A row that is there changes its plan for a checkout, or for the plan of an
\* update.
LEMMA PlanChanges ==
  ASSUME TypeOK, NEW m \in Message, Consume(m) \/ Handle(m),
         NEW s \in Subscription, row'[s].plan # row[s].plan
  PROVE  /\ Sub(m) = s
         /\ HandleCheckout(m) \/ (HandleUpdated(m) /\ m[1].plan \in Plan /\ row'[s].plan = m[1].plan)
  <1>0. /\ m[1] \in Event /\ Sub(m) \in Subscription
        /\ row \in [Subscription -> RowType]
        /\ row[Sub(m)] \in RowType
    BY EventFields DEF Message, Sub, TypeOK
  <1>1. row' # row
    OBVIOUS
  <1>2. ASSUME NEW new, NEW caught, OnlyCall(m, new, caught)
        PROVE  row' = [row EXCEPT ![Sub(m)] = new]
    BY <1>1, <1>2 DEF OnlyCall
  <1>3. CASE HandleCheckout(m)
    <2>1. row' = [row EXCEPT ![Sub(m)] = CheckedOut(row[Sub(m)], m[1].plan)]
      BY <1>2, <1>3 DEF HandleCheckout
    <2> QED
      BY <1>0, <1>3, <2>1
  <1>4. CASE HandleUpdated(m)
    <2>1. row' = [row EXCEPT ![Sub(m)] = Replanned(row[Sub(m)], m[1].plan)]
      BY <1>1, <1>2, <1>4 DEF HandleUpdated
    <2>2. m[1].plan \in Plan \cup {NoPlan}
      BY <1>0, <1>4, EventFields DEF HandleUpdated, At
    <2> QED
      BY <1>0, <1>4, <2>1, <2>2 DEF Replanned, RowType
  <1>5. CASE HandleDeleted(m)
    <2>1. row' = [row EXCEPT ![Sub(m)] = [row[Sub(m)] EXCEPT !.status = "canceled"]]
      BY <1>1, <1>2, <1>5 DEF HandleDeleted
    <2> QED
      BY <1>0, <2>1 DEF RowType
  <1>6. CASE InvoicePaid(m) \/ InvoiceFailed(m)
    BY <1>0, <1>6 DEF InvoicePaid, InvoiceFailed, UpsertStatus, RowType
  <1>7. CASE Consume(m) \/ Respond(m) \/ RecordPaid(m) \/ RecordFailed(m)
    BY <1>1, <1>7 DEF Consume, Respond, RecordPaid, RecordFailed, RecordPayment
  <1> QED
    BY <1>3, <1>4, <1>5, <1>6, <1>7 DEF Handle

\* A new owner is the buyer of the checkout at hand.
LEMMA OwnerChanges ==
  ASSUME TypeOK, NEW m \in Message, Consume(m) \/ Handle(m),
         NEW s \in Subscription, row'[s].owned, ~row[s].owned
  PROVE  Sub(m) = s /\ HandleCheckout(m)
  <1>0. /\ m[1] \in Event /\ Sub(m) \in Subscription
        /\ row \in [Subscription -> RowType]
        /\ row[Sub(m)] \in RowType
    BY EventFields DEF Message, Sub, TypeOK
  <1>1. row' # row
    OBVIOUS
  <1>2. ASSUME NEW new, NEW caught, OnlyCall(m, new, caught)
        PROVE  row' = [row EXCEPT ![Sub(m)] = new]
    BY <1>1, <1>2 DEF OnlyCall
  <1>3. CASE HandleCheckout(m)
    <2>1. row' = [row EXCEPT ![Sub(m)] = CheckedOut(row[Sub(m)], m[1].plan)]
      BY <1>2, <1>3 DEF HandleCheckout
    <2> QED
      BY <1>0, <1>3, <2>1
  <1>4. CASE HandleUpdated(m)
    <2>1. row' = [row EXCEPT ![Sub(m)] = Replanned(row[Sub(m)], m[1].plan)]
      BY <1>1, <1>2, <1>4 DEF HandleUpdated
    <2> QED
      BY <1>0, <2>1 DEF Replanned, RowType
  <1>5. CASE HandleDeleted(m)
    <2>1. row' = [row EXCEPT ![Sub(m)] = [row[Sub(m)] EXCEPT !.status = "canceled"]]
      BY <1>1, <1>2, <1>5 DEF HandleDeleted
    <2> QED
      BY <1>0, <2>1 DEF RowType
  <1>6. CASE InvoicePaid(m) \/ InvoiceFailed(m)
    BY <1>0, <1>6 DEF InvoicePaid, InvoiceFailed, UpsertStatus, RowType
  <1>7. CASE Consume(m) \/ Respond(m) \/ RecordPaid(m) \/ RecordFailed(m)
    BY <1>1, <1>7 DEF Consume, Respond, RecordPaid, RecordFailed, RecordPayment
  <1> QED
    BY <1>3, <1>4, <1>5, <1>6, <1>7 DEF Handle

\* A handler runs for a message that is out.
LEMMA PlaceKept ==
  ASSUME TypeOK, PlaceInv, [Next]_vars
  PROVE  PlaceInv'
  <1>0. /\ pc \in [Message -> {"idle", "first", "second", "responding"}]
        /\ queue \in [Message -> {"unsent", "ready", "unacked", "acked", "dead"}]
    BY DEF TypeOK
  <1>1. CASE UNCHANGED <<pc, queue>>
    BY <1>1 DEF PlaceInv
  <1>2. ASSUME NEW m \in Message, Consume(m) \/ Respond(m) PROVE PlaceInv'
    BY <1>0, <1>2 DEF Consume, Respond, PlaceInv
  <1>3. ASSUME NEW m \in Message, Handle(m), ~Respond(m) PROVE PlaceInv'
    <2>1. /\ queue' = queue
          /\ pc[m] # "idle"
          /\ \A n \in Message : n # m => pc'[n] = pc[n]
      BY <1>0, <1>3 DEF Handle, HandleCheckout, HandleUpdated, HandleDeleted, InvoicePaid, InvoiceFailed,
         RecordPaid, RecordFailed, OnlyCall, UpsertStatus, RecordPayment, At, Return
    <2> QED
      BY <2>1 DEF PlaceInv
  <1>4. ASSUME NEW e \in emitted, NEW n \in 1 .. MaxCopies, Webhook(e, n) PROVE PlaceInv'
    BY <1>0, <1>4 DEF Webhook, PlaceInv
  <1>5. CASE Crash
    BY <1>5 DEF Crash, PlaceInv
  <1>6. CASE AtStripe
    BY <1>1, <1>6, StripeIsElsewhere
  <1> QED
    BY <1>1, <1>2, <1>3, <1>4, <1>5, <1>6 DEF Next, vars

\* As long as all is calm, what was worked off stays so, and a handler that has
\* just returned success has worked off its own message.
LEMMA WorkedKept ==
  ASSUME TypeOK, PlaceInv, NEW m \in Message, Consume(m) \/ Handle(m), Calm, Calm',
         NEW e \in Event
  PROVE  /\ <<e, 1>> \in Message
         /\ pc[m] # "idle" => m = <<m[1], 1>>
         /\ Worked(e) => Worked(e)'
         /\ Worked(e)' /\ ~Worked(e) =>
              /\ m = <<e, 1>> /\ pc'[m] = "responding" /\ outcome'[m] = "success"
              /\ pc[m] \in {"first", "second"}
         /\ Worked(e) /\ m = <<e, 1>> => pc[m] \notin {"first", "second"}
  <1>0. /\ pc \in [Message -> {"idle", "first", "second", "responding"}]
        /\ outcome \in [Message -> {"none", "success", "drop", "requeue"}]
        /\ queue \in [Message -> {"unsent", "ready", "unacked", "acked", "dead"}]
    BY DEF TypeOK
  <1>1. <<e, 1>> \in Message /\ m = <<m[1], m[2]>> /\ m[2] \in 1 .. MaxCopies
    BY BillingAssumption DEF Message, BillingAssumption
  <1>2. pc[m] # "idle" => m = <<m[1], 1>>
    BY <1>1, BillingAssumption DEF PlaceInv, Calm, Repeats, BillingAssumption
  <1>3. Worked(e) /\ m = <<e, 1>> => pc[m] \notin {"first", "second"}
    BY <1>0, <1>1 DEF Worked, PlaceInv
  <1>4. CASE Consume(m)
    BY <1>0, <1>1, <1>2, <1>3, <1>4 DEF Consume, Worked, PlaceInv
  <1>5. CASE Respond(m)
    BY <1>0, <1>1, <1>2, <1>3, <1>5 DEF Respond, Worked, PlaceInv
  <1>6. CASE Handle(m) /\ ~Respond(m)
    <2>1. /\ queue' = queue
          /\ pc[m] \in {"first", "second"}
          /\ \A n \in Message : n # m => pc'[n] = pc[n] /\ outcome'[n] = outcome[n]
      BY <1>0, <1>6 DEF Handle, HandleCheckout, HandleUpdated, HandleDeleted, InvoicePaid, InvoiceFailed,
         RecordPaid, RecordFailed, OnlyCall, UpsertStatus, RecordPayment, At, Return
    <2> QED
      BY <1>0, <1>1, <1>2, <1>3, <2>1 DEF Worked
  <1> QED
    BY <1>4, <1>5, <1>6

\* Without faults, a handler that changes the row returns success.
LEMMA CalmSuccess ==
  ASSUME TypeOK, NEW m \in Message, NEW new, NEW caught, OnlyCall(m, new, caught), Calm'
  PROVE  /\ row' = [row EXCEPT ![Sub(m)] = new]
         /\ pc'[m] = "responding" /\ outcome'[m] = "success"
  BY BillingAssumption DEF TypeOK, OnlyCall, Fault, Return, Calm, BillingAssumption

\* The worker keeps owners and plans, as long as all is calm.
LEMMA CalmWorker ==
  ASSUME BillingInv, TaleInv, PlaceInv, NEW m \in Message, Consume(m) \/ Handle(m), Calm, Calm',
         NEW s \in Subscription, CalmInv(s)
  PROVE  CalmInv(s)'
  <1>0. /\ TypeOK /\ m[1] \in Event /\ Sub(m) \in Subscription
        /\ row \in [Subscription -> RowType]
        /\ row[Sub(m)] \in RowType
        /\ pc[m] # "idle" => m[1] \in emitted
        /\ NoPlan \notin Plan
    BY EventFields, BillingAssumption DEF Message, Sub, BillingInv, TypeOK, Genuine, BillingAssumption
  <1>1. UNCHANGED emitted
    BY DEF Consume, Handle, HandleCheckout, HandleUpdated, HandleDeleted, InvoicePaid, InvoiceFailed,
       RecordPaid, RecordFailed, Respond, OnlyCall, UpsertStatus, RecordPayment
  <1>2. /\ row[s].owned => \E p \in Plan : Checkout(s, p) \in emitted /\ Worked(Checkout(s, p))
        /\ \A p \in Plan : Updated(s, p) \in emitted => row[s].owned
        /\ \A p \in Plan :
             /\ Updated(s, p) \in emitted /\ Worked(Updated(s, p))
             /\ \A q \in Plan : Updated(s, q) \in emitted => q = p
             => row[s].plan = p
    BY DEF CalmInv
  <1>3. ASSUME HandleCheckout(m), Sub(m) = s
        PROVE  /\ m[1].plan \in Plan /\ m[1] = Checkout(s, m[1].plan) /\ Checkout(s, m[1].plan) \in emitted
               /\ m = <<m[1], 1>> /\ pc[m] = "first"
               /\ ~row[s].owned
    <2>1. m[1].plan \in Plan /\ m[1] = Checkout(s, m[1].plan)
      BY <1>0, <1>3, EventFields DEF HandleCheckout, At, Event, Checkout, Sub
    <2>2. pc[m] = "first" /\ m[1] \in emitted
      BY <1>0, <1>3 DEF HandleCheckout, At
    <2>3. m = <<m[1], 1>>
      BY <1>0, <2>2, WorkedKept
    <2>4. ASSUME row[s].owned PROVE FALSE
      <3>1. PICK p \in Plan : Checkout(s, p) \in emitted /\ Worked(Checkout(s, p))
        BY <1>2, <2>4
      <3>2. m[1] = Checkout(s, p)
        BY <2>1, <2>2, <3>1 DEF TaleInv
      <3> QED
        BY <1>0, <2>2, <2>3, <3>1, <3>2, WorkedKept
    <2> QED
      BY <2>1, <2>2, <2>3, <2>4
  <1>4. row'[s].owned => \E p \in Plan : Checkout(s, p) \in emitted /\ Worked(Checkout(s, p))'
    <2>1. CASE row[s].owned
      <3>1. PICK p \in Plan : Checkout(s, p) \in emitted /\ Worked(Checkout(s, p))
        BY <1>2, <2>1
      <3>2. Checkout(s, p) \in Event
        BY EventTypes
      <3>3. Worked(Checkout(s, p))'
        BY <1>0, <3>1, <3>2, WorkedKept
      <3> QED
        BY <3>1, <3>3
    <2>2. CASE ~row[s].owned /\ row'[s].owned
      <3>1. Sub(m) = s /\ HandleCheckout(m)
        BY <1>0, <2>2, OwnerChanges
      <3>2. pc'[m] = "responding" /\ outcome'[m] = "success"
        BY <1>0, <3>1, CalmSuccess DEF HandleCheckout
      <3>3. m = <<Checkout(s, m[1].plan), 1>>
        BY <1>3, <3>1
      <3>4. Worked(Checkout(s, m[1].plan))'
        BY <3>2, <3>3 DEF Worked
      <3> QED
        BY <1>3, <3>1, <3>4
    <2> QED
      BY <2>1, <2>2
  <1>5. ASSUME NEW p \in Plan, Updated(s, p) \in emitted PROVE row'[s].owned
    BY <1>2, <1>5, HandlersGrow DEF RowsGrow
  <1>6. ASSUME NEW p \in Plan, Updated(s, p) \in emitted, Worked(Updated(s, p))',
               \A q \in Plan : Updated(s, q) \in emitted => q = p
        PROVE  row'[s].plan = p
    <2>0. Updated(s, p) \in Event
      BY EventTypes
    <2>1. ASSUME HandleUpdated(m), Sub(m) = s, m[1].plan \in Plan PROVE m[1].plan = p
      <3>1. m[1] = Updated(s, m[1].plan) /\ m[1] \in emitted
        BY <1>0, <2>1 DEF HandleUpdated, At, Event, Updated, Sub
      <3> QED
        BY <1>6, <2>1, <3>1
    <2>2. CASE Worked(Updated(s, p))
      <3>1. row[s].plan = p /\ row[s].owned
        BY <1>2, <1>6, <2>2
      <3>2. CASE row'[s].plan # row[s].plan
        <4>1. /\ Sub(m) = s
              /\ HandleCheckout(m) \/ (HandleUpdated(m) /\ m[1].plan \in Plan /\ row'[s].plan = m[1].plan)
          BY <1>0, <3>2, PlanChanges
        <4>2. ~HandleCheckout(m)
          BY <1>3, <3>1, <4>1
        <4> QED
          BY <2>1, <4>1, <4>2
      <3> QED
        BY <3>1, <3>2
    <2>3. CASE ~Worked(Updated(s, p))
      <3>1. /\ m = <<Updated(s, p), 1>> /\ pc'[m] = "responding" /\ outcome'[m] = "success"
            /\ pc[m] \in {"first", "second"}
        BY <1>0, <1>6, <2>0, <2>3, WorkedKept
      <3>2. m[1].kind = "updated" /\ m[1].plan = p /\ Sub(m) = s
        BY <3>1 DEF Updated, Sub
      <3>3. ~Consume(m) /\ ~Respond(m)
        BY <1>0, <3>1 DEF Consume, Respond, TypeOK
      <3>6. HandleUpdated(m)
        BY <3>2, <3>3 DEF Handle, HandleCheckout, HandleDeleted, InvoicePaid, InvoiceFailed,
           RecordPaid, RecordFailed, At
      <3>4. OnlyCall(m, Replanned(row[s], p), "drop")
        BY <1>0, <3>1, <3>2, <3>6 DEF HandleUpdated, Return, TypeOK
      <3>5. row' = [row EXCEPT ![s] = Replanned(row[s], p)]
        BY <1>0, <3>2, <3>4, CalmSuccess
      <3> QED
        BY <1>0, <3>2, <3>5 DEF Replanned, RowType
    <2> QED
      BY <2>2, <2>3
  <1> QED
    BY <1>1, <1>4, <1>5, <1>6 DEF CalmInv

\* What Stripe adds, and a webhook that puts a first copy into the queue, keep
\* them too.
LEMMA CalmElsewhere ==
  ASSUME BillingInv, TaleInv, UNCHANGED row, emitted \subseteq emitted',
         NEW s \in Subscription, CalmInv(s), Calm,
         \A e \in Event : Worked(e) <=> Worked(e)',
         \A p \in Plan : Updated(s, p) \in emitted' /\ Updated(s, p) \notin emitted => row[s].owned
  PROVE  CalmInv(s)'
  <1>0. \A p \in Plan : Checkout(s, p) \in Event /\ Updated(s, p) \in Event
    BY EventTypes
  <1>1. /\ row[s].owned => \E p \in Plan : Checkout(s, p) \in emitted /\ Worked(Checkout(s, p))
        /\ \A p \in Plan : Updated(s, p) \in emitted => row[s].owned
        /\ \A p \in Plan :
             /\ Updated(s, p) \in emitted /\ Worked(Updated(s, p))
             /\ \A q \in Plan : Updated(s, q) \in emitted => q = p
             => row[s].plan = p
    BY DEF CalmInv
  <1>2. row'[s].owned => \E p \in Plan : Checkout(s, p) \in emitted' /\ Worked(Checkout(s, p))'
    BY <1>0, <1>1
  <1>3. \A p \in Plan : Updated(s, p) \in emitted' => row'[s].owned
    BY <1>1
  <1>4. ASSUME NEW p \in Plan, Worked(Updated(s, p))',
               \A q \in Plan : Updated(s, q) \in emitted' => q = p
        PROVE  row'[s].plan = p
    <2>1. Worked(Updated(s, p))
      BY <1>0, <1>4
    <2>2. Updated(s, p) \in emitted
      <3>1. <<Updated(s, p), 1>> \in Message
        BY <2>1 DEF Worked
      <3>2. \/ queue[<<Updated(s, p), 1>>] # "unsent"
            \/ pc[<<Updated(s, p), 1>>] # "idle"
        BY <2>1 DEF Worked
      <3>3. <<Updated(s, p), 1>>[1] \in emitted
        BY <3>1, <3>2 DEF BillingInv, Genuine
      <3> QED
        BY <3>3
    <2> QED
      BY <1>1, <1>4, <2>1, <2>2
  <1> QED
    BY <1>2, <1>3, <1>4 DEF CalmInv

\* All that makes a change of plan stick.
CalmAll == TaleInv /\ PlaceInv /\ \A s \in Subscription : CalmInv(s)

\* No step of anyone makes an unfailing worker lose an owner or a plan.
LEMMA CalmKept ==
  ASSUME BillingInv, CalmAll, [Next]_vars
  PROVE  CalmAll'
  <1>0. TypeOK /\ TaleInv /\ PlaceInv /\ PlaceInv' /\ \A s \in Subscription : CalmInv(s)
    BY PlaceKept DEF BillingInv, CalmAll
  <1>1. ASSUME UNCHANGED <<stripe, emitted, metadata>> PROVE TaleInv'
    BY <1>0, <1>1 DEF TaleInv
  <1>2. ASSUME UNCHANGED workerVars PROVE \A e \in Event : Worked(e) <=> Worked(e)'
    BY <1>2 DEF Worked
  <1>3. SUFFICES TaleInv' /\ (Calm' => \A s \in Subscription : CalmInv(s)')
    BY <1>0 DEF CalmAll, CalmInv
  <1>4. Calm' => Calm
    BY <1>0, CalmBefore
  <1>5. CASE AtStripe
    <2>1. UNCHANGED <<workerVars, tableVars>> /\ emitted \subseteq emitted'
      BY <1>5 DEF AtStripe, CompleteCheckout, UpdateSubscription, ChangePlanInPortal, CancelSubscription,
         Renew, Decline, Collect, Change, Emit
    <2>2. TaleInv'
      BY <1>0, <1>5, TaleAtStripe
    <2>3. ASSUME Calm', NEW s \in Subscription PROVE CalmInv(s)'
      <3>1. \A p \in Plan : Updated(s, p) \in emitted' /\ Updated(s, p) \notin emitted => row[s].owned
        BY <1>0, <1>5, FirstPlanOwned
      <3> QED
        BY <1>0, <1>2, <1>4, <2>1, <2>3, <3>1, CalmElsewhere
    <2> QED
      BY <2>2, <2>3
  <1>6. ASSUME NEW e \in emitted, NEW n \in 1 .. MaxCopies, Webhook(e, n)
        PROVE  TaleInv' /\ (Calm' => \A s \in Subscription : CalmInv(s)')
    <2>1. /\ UNCHANGED <<stripeVars, pc, outcome, tableVars>>
          /\ queue[<<e, n>>] = "unsent" /\ queue' = [queue EXCEPT ![<<e, n>>] = "ready"]
          /\ queue \in [Message -> {"unsent", "ready", "unacked", "acked", "dead"}]
      BY <1>0, <1>6 DEF Webhook, TypeOK
    <2>2. \A f \in Event : Worked(f) <=> Worked(f)'
      BY <2>1 DEF Worked
    <2>3. ASSUME Calm', NEW s \in Subscription PROVE CalmInv(s)'
      BY <1>0, <1>4, <2>1, <2>2, <2>3, CalmElsewhere
    <2> QED
      BY <1>1, <2>1, <2>3
  <1>7. ASSUME NEW m \in Message, Consume(m) \/ Handle(m)
        PROVE  TaleInv' /\ (Calm' => \A s \in Subscription : CalmInv(s)')
    <2>1. UNCHANGED <<stripe, emitted, metadata>>
      BY <1>7 DEF Consume, Handle, HandleCheckout, HandleUpdated, HandleDeleted, InvoicePaid, InvoiceFailed,
         RecordPaid, RecordFailed, Respond, OnlyCall, UpsertStatus, RecordPayment
    <2>2. ASSUME Calm', NEW s \in Subscription PROVE CalmInv(s)'
      BY <1>0, <1>4, <1>7, <2>2, CalmWorker
    <2> QED
      BY <1>1, <2>1, <2>2
  <1>8. CASE Crash
    <2>1. ~Calm'
      BY <1>0, <1>8, BillingAssumption DEF Crash, Fault, Calm, TypeOK, BillingAssumption
    <2> QED
      BY <1>1, <1>8, <2>1 DEF Crash
  <1>9. CASE UNCHANGED vars
    <2>1. UNCHANGED <<stripe, emitted, metadata, row>> /\ UNCHANGED workerVars
      BY <1>9 DEF vars
    <2>2. ASSUME Calm', NEW s \in Subscription PROVE CalmInv(s)'
      BY <1>0, <1>2, <1>4, <2>1, <2>2, CalmElsewhere
    <2> QED
      BY <1>1, <2>1, <2>2
  <1> QED
    BY <1>5, <1>6, <1>7, <1>8, <1>9 DEF Next

\* What Stripe tells, where messages are, and owners and plans, in every
\* behaviour.
LEMMA CalmAlways == Spec => []CalmAll
  <1>1. Init => CalmAll
    BY DEF Init, CalmAll, TaleInv, PlaceInv, CalmInv, NoRow
  <1> QED
    BY <1>1, CalmKept, BillingInvariant, PTL DEF Spec

\* A plan that was changed to by the API stays, as long as nothing fails or is
\* repeated.
THEOREM PlanChangeHolds == Spec => []PlanChangeSticks
  <1>1. BillingInv /\ CalmAll => PlanChangeSticks
    <2> SUFFICES ASSUME BillingInv, CalmAll, Calm, NEW s \in Subscription, NEW p \in Plan,
                        NEW n \in 1 .. MaxCopies, queue[<<Updated(s, p), n>>] = "acked",
                        \A q \in Plan : Updated(s, q) \in emitted => q = p
                 PROVE  row[s].plan = p
      BY DEF PlanChangeSticks, Acked, Calm
    <2>1. <<Updated(s, p), n>> \in Message /\ <<Updated(s, p), 1>> \in Message
      BY EventTypes, BillingAssumption DEF Message, BillingAssumption
    <2>2. n = 1
      BY <2>1, BillingAssumption DEF Calm, Repeats, BillingAssumption
    <2>3. <<Updated(s, p), n>>[1] \in emitted
      BY <2>1 DEF BillingInv, Genuine
    <2>4. Worked(Updated(s, p))
      BY <2>1, <2>2 DEF Worked
    <2> QED
      BY <2>3, <2>4 DEF CalmAll, CalmInv
  <1> QED
    BY <1>1, CalmAlways, BillingInvariant, PTL

-----------------------------------------------------------------------------
(* The worker implements the billing ledger.                               *)

\* What a reader of the tables sees as settled.
Settled == {e \in Event : Acked(e)}

\* A step of the worker is a step of the ledger, or cannot be seen in it.
LedgerMoves == Ledger!Next \/ UNCHANGED <<emitted, row, payment, Settled>>

\* An event is settled by an acknowledgement and by nothing else.
LEMMA SettledSteady ==
  ASSUME \A m \in Message : queue'[m] = "acked" <=> queue[m] = "acked"
  PROVE  Settled' = Settled
  <1>1. \A e \in Event, n \in 1 .. MaxCopies : <<e, n>> \in Message
    BY DEF Message
  <1>2. \A e \in Event : Acked(e)' <=> Acked(e)
    BY <1>1 DEF Acked
  <1> QED
    BY <1>2 DEF Settled

\* The one call of a handler enters its event, or does not.
LEMMA OneCallMaps ==
  ASSUME BillingInv, NEW m \in Message, HandleCheckout(m) \/ HandleUpdated(m) \/ HandleDeleted(m)
  PROVE  LedgerMoves
  <1>0. /\ m[1] \in Event /\ m[1] \in emitted /\ Sub(m) = m[1].sub /\ Sub(m) \in Subscription
        /\ row \in [Subscription -> RowType]
        /\ row[Sub(m)] \in RowType
    BY EventFields
    DEF Message, Sub, BillingInv, TypeOK, Genuine, HandleCheckout, HandleUpdated, HandleDeleted, At
  <1>1. UNCHANGED <<emitted, payment, queue>>
    BY DEF HandleCheckout, HandleUpdated, HandleDeleted, OnlyCall
  <1>2. Settled' = Settled
    BY <1>1, SettledSteady
  <1>3. CASE row' = row
    BY <1>1, <1>2, <1>3 DEF LedgerMoves
  <1>4. ASSUME NEW new, NEW caught, OnlyCall(m, new, caught), row' # row
        PROVE  row' = [row EXCEPT ![Sub(m)] = new]
    BY <1>4 DEF OnlyCall
  <1>5. CASE HandleCheckout(m) /\ row' # row
    <2>1. row' = [row EXCEPT ![Sub(m)] = CheckedOut(row[Sub(m)], m[1].plan)]
      BY <1>4, <1>5 DEF HandleCheckout
    <2>2. Ledger!CheckOut(m[1])
      BY <1>0, <1>1, <1>2, <1>5, <2>1
      DEF Ledger!CheckOut, Ledger!OnRow, Ledger!Exists, CheckedOut, HandleCheckout, At, Settled
    <2> QED
      BY <1>0, <2>2 DEF LedgerMoves, Ledger!Next
  <1>6. CASE HandleUpdated(m) /\ row' # row
    <2>1. Exists(Sub(m)) /\ row' = [row EXCEPT ![Sub(m)] = Replanned(row[Sub(m)], m[1].plan)]
      BY <1>4, <1>6 DEF HandleUpdated
    <2>2. m[1].plan # NoPlan
      BY <1>0, <1>6, <2>1 DEF Replanned
    <2>3. Ledger!ChangePlan(m[1])
      BY <1>0, <1>1, <1>2, <1>6, <2>1, <2>2
      DEF Ledger!ChangePlan, Ledger!OnRow, Ledger!Exists, Replanned, Exists, HandleUpdated, At, Settled
    <2> QED
      BY <1>0, <2>3 DEF LedgerMoves, Ledger!Next
  <1>7. CASE HandleDeleted(m) /\ row' # row
    <2>1. Exists(Sub(m)) /\ row' = [row EXCEPT ![Sub(m)] = [row[Sub(m)] EXCEPT !.status = "canceled"]]
      BY <1>4, <1>7 DEF HandleDeleted
    <2>2. Ledger!Cancel(m[1])
      BY <1>0, <1>1, <1>2, <1>7, <2>1
      DEF Ledger!Cancel, Ledger!OnRow, Ledger!Exists, Exists, HandleDeleted, At, Settled
    <2> QED
      BY <1>0, <2>2 DEF LedgerMoves, Ledger!Next
  <1> QED
    BY <1>3, <1>5, <1>6, <1>7

\* The two calls of an invoice's handler are two steps of the ledger.
LEMMA InvoiceMaps ==
  ASSUME BillingInv, NEW m \in Message,
         InvoicePaid(m) \/ InvoiceFailed(m) \/ RecordPaid(m) \/ RecordFailed(m)
  PROVE  LedgerMoves
  <1>0. /\ m[1] \in Event /\ m[1] \in emitted /\ Sub(m) = m[1].sub /\ Sub(m) \in Subscription
        /\ row \in [Subscription -> RowType]
        /\ row[Sub(m)] \in RowType
    BY EventFields
    DEF Message, Sub, BillingInv, TypeOK, Genuine, InvoicePaid, InvoiceFailed, RecordPaid, RecordFailed, At
  <1>1. UNCHANGED <<emitted, queue>>
    BY DEF InvoicePaid, InvoiceFailed, RecordPaid, RecordFailed, UpsertStatus, RecordPayment
  <1>2. Settled' = Settled
    BY <1>1, SettledSteady
  <1>3. CASE InvoicePaid(m) \/ InvoiceFailed(m)
    <2>1. UNCHANGED payment
      BY <1>3 DEF InvoicePaid, InvoiceFailed, UpsertStatus
    <2>2. CASE row' = row
      BY <1>1, <1>2, <2>1, <2>2 DEF LedgerMoves
    <2>3. CASE row' # row
      <3>1. \/ m[1].kind = "paid" /\ row' = [row EXCEPT ![Sub(m)] = [row[Sub(m)] EXCEPT !.status = "active"]]
            \/ m[1].kind = "failed" /\ row' = [row EXCEPT ![Sub(m)] = [row[Sub(m)] EXCEPT !.status = "unpaid"]]
        BY <1>3, <2>3 DEF InvoicePaid, InvoiceFailed, UpsertStatus, At
      <3>2. Ledger!Bill(m[1])
        BY <1>0, <1>1, <1>2, <2>1, <3>1 DEF Ledger!Bill, Ledger!OnRow, Settled
      <3> QED
        BY <1>0, <3>2 DEF LedgerMoves, Ledger!Next
    <2> QED
      BY <2>2, <2>3
  <1>4. CASE RecordPaid(m) \/ RecordFailed(m)
    <2>0. UNCHANGED row /\ Exists(Sub(m)) /\ m[1].kind \in {"paid", "failed"}
      BY <1>4 DEF RecordPaid, RecordFailed, RecordPayment, At, BillingInv, HandlerInv
    <2>1. CASE payment' = payment
      BY <1>1, <1>2, <2>0, <2>1 DEF LedgerMoves
    <2>2. CASE payment' # payment
      <3>1. /\ payment[m[1].invoice] = "none"
            /\ \/ m[1].kind = "paid" /\ payment' = [payment EXCEPT ![m[1].invoice] = "succeeded"]
               \/ m[1].kind = "failed" /\ payment' = [payment EXCEPT ![m[1].invoice] = "payment_failed"]
        BY <1>4, <2>2 DEF RecordPaid, RecordFailed, RecordPayment, At
      <3>2. Ledger!Pay(m[1])
        BY <1>0, <1>1, <1>2, <2>0, <3>1 DEF Ledger!Pay, Ledger!Exists, Exists, Settled
      <3> QED
        BY <1>0, <3>2 DEF LedgerMoves, Ledger!Next
    <2> QED
      BY <2>1, <2>2
  <1> QED
    BY <1>3, <1>4

\* An acknowledgement settles an event the tables hold.
LEMMA RespondMaps ==
  ASSUME BillingInv, PlaceInv, NEW m \in Message, Respond(m)
  PROVE  LedgerMoves
  <1>0. /\ m[1] \in Event /\ m[1] \in emitted /\ Sub(m) = m[1].sub /\ m[2] \in 1 .. MaxCopies
        /\ m = <<m[1], m[2]>>
        /\ queue \in [Message -> {"unsent", "ready", "unacked", "acked", "dead"}]
        /\ UNCHANGED <<emitted, row, payment>>
    BY DEF Message, Sub, BillingInv, TypeOK, Genuine, Respond
  <1>1. CASE outcome[m] = "success"
    <2>1. /\ Recorded(m)
          /\ queue' = [queue EXCEPT ![m] = "acked"]
      BY <1>1 DEF Respond, BillingInv, HandlerInv
    <2>2. Exists(Sub(m))
      BY <2>1 DEF Recorded
    <2>3. Settled' = Settled \cup {m[1]}
      <3>1. Acked(m[1])'
        BY <1>0, <2>1 DEF Acked
      <3>2. ASSUME NEW e \in Event, e # m[1] PROVE Acked(e)' <=> Acked(e)
        <4>1. \A n \in 1 .. MaxCopies : <<e, n>> # m /\ <<e, n>> \in Message
          BY <1>0, <3>2 DEF Message
        <4> QED
          BY <1>0, <2>1, <4>1 DEF Acked
      <3> QED
        BY <1>0, <3>1, <3>2 DEF Settled
    <2>4. Ledger!Settle(m[1])
      BY <1>0, <2>1, <2>2, <2>3 DEF Ledger!Settle, Ledger!Exists, Exists, Recorded, Settled
    <2> QED
      BY <1>0, <2>4 DEF LedgerMoves, Ledger!Next
  <1>2. CASE outcome[m] # "success"
    <2>1. /\ queue[m] = "unacked" /\ queue'[m] # "acked"
          /\ \A n \in Message \ {m} : queue'[n] = queue[n]
      BY <1>0, <1>2 DEF Respond, PlaceInv
    <2> QED
      BY <1>0, <2>1, SettledSteady DEF LedgerMoves
  <1> QED
    BY <1>1, <1>2

\* Whatever copies, errors, crashes and interleavings there are, the billing
\* tables behave as BillingLedger says: they change only by what an event says,
\* and an event is settled only once they hold what it is worth.
THEOREM BillingKeepsLedger == Spec => ImplementsLedger
  <1>1. Init => Ledger!Init
    <2> SUFFICES ASSUME Init PROVE Ledger!Init
      OBVIOUS
    <2>1. Settled = {}
      BY DEF Init, Settled, Acked, Message
    <2> QED
      BY <2>1 DEF Init, NoRow, Ledger!Init, Settled
  <1>2. BillingInv /\ CalmAll /\ [Next]_vars => [Ledger!Next]_(Ledger!vars)
    <2> SUFFICES ASSUME BillingInv, CalmAll, [Next]_vars PROVE LedgerMoves
      BY DEF LedgerMoves, Ledger!vars, Settled
    <2>1. CASE AtStripe
      <3>1. UNCHANGED <<workerVars, tableVars>> /\ emitted \subseteq emitted'
        BY <2>1 DEF AtStripe, CompleteCheckout, UpdateSubscription, ChangePlanInPortal, CancelSubscription,
           Renew, Decline, Collect, Change, Emit
      <3>2. Settled' = Settled
        BY <3>1, SettledSteady
      <3>3. Ledger!Tell
        BY <3>1, <3>2 DEF Ledger!Tell, Settled
      <3> QED
        BY <3>3 DEF LedgerMoves, Ledger!Next
    <2>2. ASSUME NEW e \in emitted, NEW n \in 1 .. MaxCopies, Webhook(e, n) PROVE LedgerMoves
      <3>1. \A m \in Message : queue'[m] = "acked" <=> queue[m] = "acked"
        BY <2>2 DEF Webhook, BillingInv, TypeOK
      <3> QED
        BY <2>2, <3>1, SettledSteady DEF Webhook, LedgerMoves
    <2>3. ASSUME NEW m \in Message, Consume(m) PROVE LedgerMoves
      <3>1. \A n \in Message : queue'[n] = "acked" <=> queue[n] = "acked"
        BY <2>3 DEF Consume, BillingInv, TypeOK
      <3> QED
        BY <2>3, <3>1, SettledSteady DEF Consume, LedgerMoves
    <2>4. ASSUME NEW m \in Message, Handle(m) PROVE LedgerMoves
      BY <2>4, OneCallMaps, InvoiceMaps, RespondMaps DEF Handle, CalmAll
    <2>5. CASE Crash
      <3>1. \A n \in Message : queue'[n] = "acked" <=> queue[n] = "acked"
        BY <2>5 DEF Crash
      <3> QED
        BY <2>5, <3>1, SettledSteady DEF Crash, LedgerMoves
    <2>6. CASE UNCHANGED vars
      <3>1. \A n \in Message : queue'[n] = "acked" <=> queue[n] = "acked"
        BY <2>6 DEF vars
      <3> QED
        BY <2>6, <3>1, SettledSteady DEF vars, LedgerMoves
    <2> QED
      BY <2>1, <2>2, <2>3, <2>4, <2>5, <2>6 DEF Next
  <1> QED
    BY <1>1, <1>2, BillingInvariant, CalmAlways, PTL DEF Spec, ImplementsLedger, Ledger!Spec

=============================================================================
