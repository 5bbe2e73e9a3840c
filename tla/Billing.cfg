\* Under fairness: one subscription, two plans, and two invoices with one change
\* and one repeated webhook or fault, or one invoice with up to three of them.
\* The system may settle: nothing happens once the bounds are used up.
SPECIFICATION FairSpec
CONSTANTS
  s1 = s1  i1 = i1  i2 = i2  basic = basic  pro = pro
  Subscription = {s1}
  Invoice = {i1, i2}
  InvoiceOf <- MCInvoiceOf
  Plan = {basic, pro}
  NoPlan = NoPlan
  MaxCopies = 2
  MaxRepeats = 1
  MaxChanges = 2
  MaxFaults = 2
CONSTRAINT SmallEnough
INVARIANTS EntitlementIsPaidFor CheckoutSticks DeadNeedsCause HappyPathConverges
INVARIANTS BillingInv PlanChangeSticks
PROPERTIES EventsSettle CanceledIsLeftByInvoices ImplementsLedger
CHECK_DEADLOCK FALSE
