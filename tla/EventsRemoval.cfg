\* A workflow on the removal of its repository.
SPECIFICATION Spec
CONSTANTS
  w1 = w1  w2 = w2  m1 = m1  m2 = m2
  Workflow = {w1}
  Message = {m1}
  Event = {"repository"}
  Payload = {"created", "deleted"}
  Sent <- MailSent
  MaxActions = 1
  MaxFaults = 0
  MaxEdits = 0
  Absent = Absent
CHECK_DEADLOCK FALSE
INVARIANT RemovalIsServed
