\* A send_email_to_me action on a star.
SPECIFICATION Spec
CONSTANTS
  w1 = w1  w2 = w2  m1 = m1  m2 = m2
  Workflow = {w1}
  Message = {m1}
  Event = {"star"}
  Payload = {"created"}
  Sent <- MailSent
  MaxActions = 1
  MaxFaults = 0
  MaxEdits = 0
  Absent = Absent
CHECK_DEADLOCK FALSE
INVARIANT EmailToMeSent
