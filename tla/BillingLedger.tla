---------------------------- MODULE BillingLedger ----------------------------
(***************************************************************************)
(* What the billing tables of ShobApp24 promise, with no queue, handler,   *)
(* duplicate, error or crash in sight.  Stripe tells of events.  An event  *)
(* may be entered any number of times, at any time, but only as what it    *)
(* says, in one place, and only once the row it changes is there.  An      *)
(* event is settled only when the tables hold what it is worth, and what   *)
(* is settled stays settled.  Nothing else touches the tables.             *)
(* StripeBilling implements this specification.                            *)
(***************************************************************************)

CONSTANTS
  Subscription,   \* Stripe's subscription ids
  Invoice,        \* Stripe's invoice ids
  NoPlan          \* a row without a plan

VARIABLES
  told,      \* the events Stripe has told of
  row,       \* the row of each subscription
  payment,   \* the status of the payment of each invoice
  settled    \* the events that are done with

vars == <<told, row, payment, settled>>

Init ==
  /\ told = {}
  /\ row = [s \in Subscription |-> [status |-> "none", owned |-> FALSE, plan |-> NoPlan]]
  /\ payment = [i \in Invoice |-> "none"]
  /\ settled = {}

Exists(s) == row[s].status # "none"

Tell ==
  /\ told \subseteq told'
  /\ UNCHANGED <<row, payment, settled>>

OnRow(e) == e \in told /\ UNCHANGED <<told, payment, settled>>

\* A checkout makes the row the buyer's; only a new row gets a status by it.
CheckOut(e) ==
  /\ OnRow(e) /\ e.kind = "checkout"
  /\ row' = [row EXCEPT ![e.sub] =
               [status |-> IF Exists(e.sub) THEN row[e.sub].status ELSE "incomplete",
                owned |-> TRUE, plan |-> e.plan]]

ChangePlan(e) ==
  /\ OnRow(e) /\ e.kind = "updated" /\ Exists(e.sub)
  /\ e.plan # NoPlan
  /\ row' = [row EXCEPT ![e.sub].plan = e.plan]

Cancel(e) ==
  /\ OnRow(e) /\ e.kind = "deleted" /\ Exists(e.sub)
  /\ row' = [row EXCEPT ![e.sub].status = "canceled"]

\* An invoice may be what makes the row.
Bill(e) ==
  /\ OnRow(e)
  /\ \/ e.kind = "paid" /\ row' = [row EXCEPT ![e.sub].status = "active"]
     \/ e.kind = "failed" /\ row' = [row EXCEPT ![e.sub].status = "unpaid"]

\* The first to enter an invoice has the last word on its payment.
Pay(e) ==
  /\ e \in told
  /\ e.kind \in {"paid", "failed"} /\ Exists(e.sub)
  /\ payment[e.invoice] = "none"
  /\ payment' = [payment EXCEPT ![e.invoice] =
                   IF e.kind = "paid" THEN "succeeded" ELSE "payment_failed"]
  /\ UNCHANGED <<told, row, settled>>

Settle(e) ==
  /\ e \in told
  /\ Exists(e.sub)
  /\ e.kind = "checkout" => row[e.sub].owned /\ row[e.sub].plan # NoPlan
  /\ e.kind \in {"paid", "failed"} => payment[e.invoice] # "none"
  /\ settled' = settled \cup {e}
  /\ UNCHANGED <<told, row, payment>>

Next ==
  \/ Tell
  \/ \E e \in told : CheckOut(e) \/ ChangePlan(e) \/ Cancel(e) \/ Bill(e) \/ Pay(e) \/ Settle(e)

Spec == Init /\ [][Next]_vars

=============================================================================
