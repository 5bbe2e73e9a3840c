\* Two requests while the plan changes, on up to three workflows or on up to
\* three actions of one.
SPECIFICATION Spec
CONSTANTS
  r1 = r1  r2 = r2  w1 = w1  w2 = w2  w3 = w3  a1 = a1  a2 = a2  a3 = a3
  free = free  basic = basic  pro = pro
  Request = {r1, r2}
  Workflow = {w1, w2, w3}
  Action = {a1, a2, a3}
  Plan = {free, basic, pro}
  Free = free
  Unlimited = {pro}
  WorkflowOf <- MCWorkflowOf
  WorkflowLimit <- MCWorkflowLimit
  ActionLimit <- MCActionLimit
CONSTRAINT SmallEnough
SYMMETRY Slots
INVARIANTS ApiInv WorkflowsBounded ActionsBounded StepsSequentialUnlessRaced
