\* Every handler and every type of action with one workflow of one action and one
\* message; chains of two actions with two faults; two workflows.
\* push and label stand for the events that are not dispatched.
SPECIFICATION Spec
CONSTANTS
  w1 = w1  w2 = w2  m1 = m1  m2 = m2
  Workflow = {w1, w2}
  Message = {m1}
  Event = {"star", "watch", "label", "issues", "issue_comment", "push", "repository", "commit_comment", "fork", "create", "delete", "workflow_job", "workflow_run"}
  Payload = {"created", "completed", "started", "opened", "deleted"}
  Sent <- AllSent
  MaxActions = 2
  MaxFaults = 2
  MaxEdits = 1
  Absent = Absent
CONSTRAINT SmallEnough
SYMMETRY Workflows
CHECK_DEADLOCK FALSE
INVARIANTS TypeOK StoredActionsParse SuccessIsReal DeathNeedsVerdict OneRunPerDelivery DueMeansServed
PROPERTY KeepsPromise
