\* A user without a subscription sends two requests at the limit.
SPECIFICATION Spec
CONSTANTS
  r1 = r1  r2 = r2  w1 = w1  w2 = w2  w3 = w3  a1 = a1  a2 = a2  a3 = a3
  free = free  basic = basic  pro = pro
  Request = {r1, r2}
  Workflow = {w1, w2, w3}
  Action = {a1}
  Plan = {free}
  Free = free
  Unlimited = {}
  WorkflowOf <- MCWorkflowOf
  WorkflowLimit <- MCWorkflowLimit
  ActionLimit <- MCActionLimit
SYMMETRY Slots
INVARIANTS PlanEnforced
