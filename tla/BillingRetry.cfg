\* Under fairness, a second invoice whose payment fails, and one fault.
SPECIFICATION FairSpec
CONSTANTS
  s1 = s1  i1 = i1  i2 = i2  basic = basic  pro = pro
  Subscription = {s1}
  Invoice = {i1, i2}
  InvoiceOf <- MCInvoiceOf
  Plan = {basic}
  NoPlan = NoPlan
  MaxCopies = 1
  MaxRepeats = 0
  MaxChanges = 1
  MaxFaults = 1
PROPERTIES FailedPaymentsSettle
CHECK_DEADLOCK FALSE
