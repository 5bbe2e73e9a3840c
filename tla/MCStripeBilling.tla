--------------------------- MODULE MCStripeBilling ---------------------------
(***************************************************************************)
(* Small instances of StripeBilling for TLC: one subscription with two     *)
(* invoices and two plans.  Subscriptions share no row and no event, so    *)
(* one of them shows what any of them does.                                *)
(***************************************************************************)
EXTENDS StripeBilling

CONSTANTS s1, i1, i2, basic, pro

MCInvoiceOf == [i \in Invoice |-> s1]

\* Plans are alike, and so are invoices: the checkout is of the plan basic, and
\* the first invoice is i1.
Alike ==
  /\ Checkout(s1, pro) \notin emitted
  /\ invoice[i2] # "none" => invoice[i1] # "none"

\* Two invoices, with one change of the subscription and one repeated webhook
\* or fault; or one invoice, with up to three changes and faults together.
\* What is cut off are changes, faults and repeated webhooks: no fairness is
\* assumed of any of them.
SmallEnough ==
  /\ Alike
  /\ \/ /\ changes <= 1
        /\ faults = 0 \/ (faults = 1 /\ Repeats = {})
     \/ /\ changes + faults <= 3
        /\ invoice[i2] = "none"
        /\ Repeats = {}

=============================================================================
