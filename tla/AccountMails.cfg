\* Sign-ups, resends, password resets and checkouts of a user, two at a time.
SPECIFICATION FairSpec
CONSTANTS
  u1 = u1  q1 = q1  q2 = q2
  User = {u1}
  Request = {q1, q2}
  MaxMails = 2
  MaxFaults = 1
  None = None
CHECK_DEADLOCK FALSE
INVARIANTS TypeOK OneUnlessRaced
PROPERTIES MailsSettle
