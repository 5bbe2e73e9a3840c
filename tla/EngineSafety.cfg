\* Two webhooks, one of them of the event "issues", a workflow of two steps,
\* faults and edits: SmallEnough says how many of what at once.
SPECIFICATION Spec
CONSTANTS
  m1 = m1
  m2 = m2
  a1 = a1
  a2 = a2
  w1 = w1
  Message = {m1, m2}
  IssuesMessage = {m2}
  Workflow = {w1}
  Action = {a1, a2}
  Target <- MCTarget
  WorkflowOf <- MCWorkflowOf
  InitStep <- MCInitStep
  MaxDeliveries = 4
  MaxFaults = 2
  MaxEdits = 1
CONSTRAINT SmallEnough
CHECK_DEADLOCK FALSE
INVARIANTS
  StepsInOrder
  SucceededMeansAllPassed
  AckedMeansDone
  DeadMeansRejected
  OneOwner
  OrphanNeedsFault
  RetryNeedsCause
PROPERTIES
  AnswerIsFinal
  RecordsAreFinal
