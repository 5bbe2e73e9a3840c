\* Under fairness, with one fault and two edits, every message is answered; and the
\* engine implements RunLedger.
SPECIFICATION FairSpec
CONSTANTS
  m1 = m1
  m2 = m2
  a1 = a1
  a2 = a2
  w1 = w1
  Message = {m1}
  IssuesMessage = {}
  Workflow = {w1}
  Action = {a1, a2}
  Target <- MCTarget
  WorkflowOf <- MCWorkflowOf
  InitStep <- MCInitStep
  MaxDeliveries = 5
  MaxFaults = 1
  MaxEdits = 2
CHECK_DEADLOCK FALSE
INVARIANTS
  EngineInv
PROPERTIES
  EveryMessageAnswered
  ImplementsLedger
