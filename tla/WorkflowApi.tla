----------------------------- MODULE WorkflowApi -----------------------------
(***************************************************************************)
(* The HTTP requests of one user of ShobApp24 that create and delete       *)
(* workflows and actions: the plan-limit guard in front of the two create  *)
(* routes, and WorkflowService and ActionService behind it.  Every await   *)
(* is a step boundary, so the requests of a user with several tabs or      *)
(* retries interleave; deletions run in a database transaction (READ       *)
(* COMMITTED), whose row locks make other writers wait.                    *)
(*                                                                         *)
(* A request slot is reused when its request has been answered; the number *)
(* of slots bounds how many requests are in flight.                        *)
(***************************************************************************)
EXTENDS Naturals, FiniteSets

CONSTANTS
  Request,        \* slots for requests in flight
  Workflow,       \* workflow ids; an id is used once
  Action,         \* action ids; an id is used once
  WorkflowOf,     \* WorkflowOf[a]: the workflow an action with id a is created in
  Plan,           \* the plans, the one without a subscription included
  Free,           \* that plan
  Unlimited,      \* the plans whose limits are Infinity
  WorkflowLimit,  \* WorkflowLimit[p]: how many workflows plan p allows
  ActionLimit     \* ActionLimit[p]: how many actions per workflow

None == "none"

ASSUME ApiAssumption ==
  /\ IsFiniteSet(Request) /\ Request # {}
  /\ IsFiniteSet(Workflow) /\ None \notin Workflow
  /\ IsFiniteSet(Action)
  /\ WorkflowOf \in [Action -> Workflow]
  /\ Free \in Plan
  /\ Unlimited \subseteq Plan
  /\ WorkflowLimit \in [Plan -> Nat]
  /\ ActionLimit \in [Plan -> Nat]

VARIABLES
  plan,       \* the plan of the user's active subscription, or Free
  plansHeld,  \* history: the plans the user has had
  workflows,  \* the user's workflow rows
  oldIds,     \* history: workflow ids used so far
  step,       \* the step column of the action rows, 0 for no row
  oldActions, \* history: action ids used so far
  raced,      \* history: workflows two overlapping requests changed actions of
  pc,         \* where each request awaits
  about,      \* the workflow whose actions a request is about
  row,        \* the action a request deletes
  ids,        \* the workflows a request deletes
  seen        \* what a request read: a plan, a step, the next step

planVars    == <<plan, plansHeld>>
tableVars   == <<workflows, oldIds, step, oldActions>>
requestVars == <<pc, about, row, ids, seen>>
vars == <<planVars, tableVars, raced, requestVars>>

Place == {"idle", "planForWorkflow", "countWorkflows", "insertWorkflow",
          "planForAction", "ownWorkflow", "countActions", "findWorkflow",
          "countSteps", "insertAction", "findAction", "deleteAction",
          "shiftSteps", "findForAll", "deleteAll", "matchIds", "deleteIds"}

Rows(w) == {a \in Action : WorkflowOf[a] = w /\ step[a] > 0}

\* Rows deleted by a transaction that has not committed: other transactions
\* still read them, and wait before they write them.
LockedBy(r) == IF pc[r] = "shiftSteps" THEN {row[r]} ELSE {}
LockedForOthers(r) == UNION {LockedBy(s) : s \in Request \ {r}}

TypeOK ==
  /\ plan \in plansHeld
  /\ plansHeld \subseteq Plan
  /\ workflows \subseteq oldIds
  /\ oldIds \subseteq Workflow
  /\ step \in [Action -> Nat]
  /\ oldActions \subseteq Action
  /\ \A a \in Action : step[a] > 0 => a \in oldActions /\ WorkflowOf[a] \in workflows
  /\ raced \subseteq Workflow
  /\ pc \in [Request -> Place]
  /\ about \in [Request -> Workflow \cup {None}]
  /\ row \in [Request -> Action \cup {None}]
  /\ ids \in [Request -> SUBSET Workflow]
  /\ seen \in [Request -> Nat \cup Plan]

Init ==
  /\ plan = Free
  /\ plansHeld = {Free}
  /\ workflows = {}
  /\ oldIds = {}
  /\ step = [a \in Action |-> 0]
  /\ oldActions = {}
  /\ raced = {}
  /\ pc = [r \in Request |-> "idle"]
  /\ about = [r \in Request |-> None]
  /\ row = [r \in Request |-> None]
  /\ ids = [r \in Request |-> {}]
  /\ seen = [r \in Request |-> 0]

-----------------------------------------------------------------------------

At(r, place) == pc[r] = place

\* The request is answered, with a result or an error; its slot is cleared.
End(r) ==
  /\ pc' = [pc EXCEPT ![r] = "idle"]
  /\ about' = [about EXCEPT ![r] = None]
  /\ row' = [row EXCEPT ![r] = None]
  /\ ids' = [ids EXCEPT ![r] = {}]
  /\ seen' = [seen EXCEPT ![r] = 0]

\* A request about the actions of w starts while another one is in flight.
Overlap(r, w) == \E s \in Request \ {r} : about[s] = w

Start(r, place, w, a, ws) ==
  /\ At(r, "idle")
  /\ pc' = [pc EXCEPT ![r] = place]
  /\ about' = [about EXCEPT ![r] = w]
  /\ row' = [row EXCEPT ![r] = a]
  /\ ids' = [ids EXCEPT ![r] = ws]
  /\ raced' = IF w # None /\ Overlap(r, w) THEN raced \cup {w} ELSE raced
  /\ UNCHANGED <<planVars, tableVars, seen>>

\* The request goes on to its next await; what it is about stays.
Proceed(r, place) ==
  /\ pc' = [pc EXCEPT ![r] = place]
  /\ UNCHANGED <<about, row, ids, seen>>

\* The same, with something read on the way.
ProceedWith(r, place, value) ==
  /\ pc' = [pc EXCEPT ![r] = place]
  /\ seen' = [seen EXCEPT ![r] = value]
  /\ UNCHANGED <<about, row, ids>>

ReadOnly == UNCHANGED <<planVars, tableVars, raced>>

-----------------------------------------------------------------------------
(* POST /workflow: guard, then service.                                    *)

PostWorkflow(r) == Start(r, "planForWorkflow", None, None, {})

\* The guard reads the plan of the active subscription.
PlanForWorkflow(r) ==
  /\ At(r, "planForWorkflow")
  /\ ProceedWith(r, IF plan \in Unlimited THEN "insertWorkflow" ELSE "countWorkflows", plan)
  /\ ReadOnly

Reached_OffByOne(count, limit) == count > limit

\* The guard's test: count >= limit.
Reached(count, limit) == count >= limit

CountWorkflows(r) ==
  /\ At(r, "countWorkflows")
  /\ IF Reached(Cardinality(workflows), WorkflowLimit[seen[r]])
     THEN End(r)
     ELSE Proceed(r, "insertWorkflow")
  /\ ReadOnly

\* WorkflowService.createWorkflow.
InsertWorkflow(r) ==
  /\ At(r, "insertWorkflow")
  /\ \E w \in Workflow \ oldIds :
       /\ workflows' = workflows \cup {w}
       /\ oldIds' = oldIds \cup {w}
  /\ End(r)
  /\ UNCHANGED <<planVars, step, oldActions, raced>>

-----------------------------------------------------------------------------
(* POST /action/:workflowId: guard, then service.                          *)

PostAction(r, w) ==
  /\ w \in oldIds
  /\ Start(r, "planForAction", w, None, {})

PlanForAction(r) ==
  /\ At(r, "planForAction")
  /\ ProceedWith(r, IF plan \in Unlimited THEN "findWorkflow" ELSE "ownWorkflow", plan)
  /\ ReadOnly

\* The guard makes sure that the workflow is the user's.
OwnWorkflow(r) ==
  /\ At(r, "ownWorkflow")
  /\ IF about[r] \in workflows THEN Proceed(r, "countActions") ELSE End(r)
  /\ ReadOnly

CountActions(r) ==
  /\ At(r, "countActions")
  /\ IF Reached(Cardinality(Rows(about[r])), ActionLimit[seen[r]])
     THEN End(r)
     ELSE Proceed(r, "findWorkflow")
  /\ ReadOnly

\* ActionService.createAction looks the workflow up again.
FindWorkflow(r) ==
  /\ At(r, "findWorkflow")
  /\ IF about[r] \in workflows THEN Proceed(r, "countSteps") ELSE End(r)
  /\ ReadOnly

NextStep(w) == Cardinality(Rows(w)) + 1

\* A body that does not parse, or names another step than the next, is refused.
CountSteps(r) ==
  /\ At(r, "countSteps")
  /\ \/ ProceedWith(r, "insertAction", NextStep(about[r]))
     \/ End(r)
  /\ ReadOnly

HasParent_Unchecked(r) == TRUE

\* The foreign key refuses an action of a workflow deleted meanwhile.
HasParent(r) == about[r] \in workflows

InsertAction(r) ==
  /\ At(r, "insertAction")
  /\ \/ /\ HasParent(r)
        /\ \E a \in Action \ oldActions :
             /\ WorkflowOf[a] = about[r]
             /\ step' = [step EXCEPT ![a] = seen[r]]
             /\ oldActions' = oldActions \cup {a}
     \/ /\ ~HasParent(r)
        /\ UNCHANGED <<step, oldActions>>
  /\ End(r)
  /\ UNCHANGED <<planVars, workflows, oldIds, raced>>

-----------------------------------------------------------------------------
(* DELETE /action/id/:id, a transaction.                                   *)

DeleteActionById(r, a) ==
  /\ a \in oldActions
  /\ Start(r, "findAction", WorkflowOf[a], a, {})

FindAction(r) ==
  /\ At(r, "findAction")
  /\ IF step[row[r]] > 0 THEN ProceedWith(r, "deleteAction", step[row[r]]) ELSE End(r)
  /\ ReadOnly

\* Another transaction that has deleted the row is waited for; once it has
\* committed there is no row, and this transaction rolls back.
DeleteAction(r) ==
  /\ At(r, "deleteAction")
  /\ row[r] \notin LockedForOthers(r)
  /\ IF step[row[r]] > 0 THEN Proceed(r, "shiftSteps") ELSE End(r)
  /\ ReadOnly

Later_FromZero(r) == {b \in Rows(about[r]) \ {row[r]} : step[b] > 1}

\* The rows updateMany moves: the step to compare with was read before.
Later(r) == {b \in Rows(about[r]) \ {row[r]} : step[b] > seen[r]}

\* updateMany and the commit: nobody sees one without the other.  It waits for
\* rows other transactions have deleted.
ShiftSteps(r) ==
  /\ At(r, "shiftSteps")
  /\ Later(r) \cap LockedForOthers(r) = {}
  /\ step' = [b \in Action |-> IF b = row[r] THEN 0
                               ELSE IF b \in Later(r) THEN step[b] - 1 ELSE step[b]]
  /\ End(r)
  /\ UNCHANGED <<planVars, workflows, oldIds, oldActions, raced>>

-----------------------------------------------------------------------------
(* DELETE /action/:workflowId, a transaction.                              *)

DeleteAllActionsByWorkflowId(r, w) ==
  /\ w \in oldIds
  /\ Start(r, "findForAll", w, None, {})

FindForAll(r) ==
  /\ At(r, "findForAll")
  /\ IF about[r] \in workflows THEN Proceed(r, "deleteAll") ELSE End(r)
  /\ ReadOnly

DeleteAll(r) ==
  /\ At(r, "deleteAll")
  /\ Rows(about[r]) \cap LockedForOthers(r) = {}
  /\ step' = [a \in Action |-> IF a \in Rows(about[r]) THEN 0 ELSE step[a]]
  /\ End(r)
  /\ UNCHANGED <<planVars, workflows, oldIds, oldActions, raced>>

-----------------------------------------------------------------------------
(* DELETE /workflow/:id and DELETE /workflow: one id, or all or nothing of  *)
(* several.                                                                *)

DeleteWorkflows(r, ws) ==
  /\ ws # {} /\ ws \subseteq oldIds
  /\ Start(r, "matchIds", None, None, ws)

MatchIds(r) ==
  /\ At(r, "matchIds")
  /\ IF ids[r] \subseteq workflows THEN Proceed(r, "deleteIds") ELSE End(r)
  /\ ReadOnly

\* The foreign keys cascade to the actions.
DeleteIds(r) ==
  /\ At(r, "deleteIds")
  /\ \A w \in ids[r] : Rows(w) \cap LockedForOthers(r) = {}
  /\ workflows' = workflows \ ids[r]
  /\ step' = [a \in Action |-> IF WorkflowOf[a] \in ids[r] THEN 0 ELSE step[a]]
  /\ End(r)
  /\ UNCHANGED <<planVars, oldIds, oldActions, raced>>

-----------------------------------------------------------------------------

\* A body the service refuses, a database error, a deadlock the database
\* resolves: the request is answered with an error and rolled back.
Fail(r) ==
  /\ ~At(r, "idle")
  /\ End(r)
  /\ ReadOnly

\* The Stripe worker changes the subscription under the requests.
ChangePlan ==
  /\ \E p \in Plan :
       /\ plan' = p
       /\ plansHeld' = plansHeld \cup {p}
  /\ UNCHANGED <<tableVars, raced, requestVars>>

Begin(r) ==
  \/ PostWorkflow(r)
  \/ \E w \in Workflow : PostAction(r, w) \/ DeleteAllActionsByWorkflowId(r, w)
  \/ \E a \in Action : DeleteActionById(r, a)
  \/ \E ws \in SUBSET Workflow : DeleteWorkflows(r, ws)

Continue(r) ==
  \/ PlanForWorkflow(r) \/ CountWorkflows(r) \/ InsertWorkflow(r)
  \/ PlanForAction(r)   \/ OwnWorkflow(r)    \/ CountActions(r)
  \/ FindWorkflow(r)    \/ CountSteps(r)     \/ InsertAction(r)
  \/ FindAction(r)      \/ DeleteAction(r)   \/ ShiftSteps(r)
  \/ FindForAll(r)      \/ DeleteAll(r)
  \/ MatchIds(r)        \/ DeleteIds(r)

Next ==
  \/ \E r \in Request : Begin(r) \/ Continue(r) \/ Fail(r)
  \/ ChangePlan

Spec == Init /\ [][Next]_vars

-----------------------------------------------------------------------------
(* What the API promises.                                                  *)

\* What a request has read and is about, at each of its awaits.
RequestInv(r) ==
  /\ pc[r] \in {"countWorkflows", "ownWorkflow", "countActions"} => seen[r] \in plansHeld
  /\ pc[r] = "insertAction" => seen[r] \in Nat \ {0}
  /\ pc[r] \in {"planForAction", "ownWorkflow", "countActions", "findWorkflow",
               "countSteps", "insertAction", "findForAll", "deleteAll"} =>
       about[r] \in Workflow
  /\ pc[r] \in {"findAction", "deleteAction", "shiftSteps"} =>
       row[r] \in Action /\ about[r] = WorkflowOf[row[r]]

ApiInv == TypeOK /\ \A r \in Request : RequestInv(r)

\* Without an unlimited plan the guard lets at most one request per slot past
\* the largest limit the user ever had: check and insert are apart, but each
\* request in flight can add only one row, and what has passed the guard and
\* not inserted yet counts already.  PlanLimitGuard.canActivate.
InsertingWorkflow == {r \in Request : At(r, "insertWorkflow")}

WorkflowsBounded ==
  plansHeld \cap Unlimited = {} =>
    \E p \in plansHeld :
      Cardinality(workflows) + Cardinality(InsertingWorkflow)
        < WorkflowLimit[p] + Cardinality(Request)

InsertingAction(w) ==
  {r \in Request : about[r] = w /\ pc[r] \in {"findWorkflow", "countSteps", "insertAction"}}

\* The same for the actions of one workflow.
ActionsBounded ==
  plansHeld \cap Unlimited = {} =>
    \A w \in Workflow : \E p \in plansHeld :
      Cardinality(Rows(w)) + Cardinality(InsertingAction(w))
        < ActionLimit[p] + Cardinality(Request)

Sequential(w) ==
  {step[a] : a \in Rows(w)} = 1 .. Cardinality(Rows(w))

\* The steps of a workflow's actions are 1, 2, 3, ... as long as no two
\* requests about its actions ever overlapped: no order of creations, deletions
\* and failures leaves a gap or a duplicate.  createAction, deleteActionById.
StepsSequentialUnlessRaced ==
  \A w \in Workflow \ raced : Sequential(w)

\* What the documentation of the action API says of every state.
StepsSequential == \A w \in workflows : Sequential(w)

\* What the README says the guard enforces: the user's plan, or one they had,
\* allows what they have.
PlanEnforced ==
  plansHeld \cap Unlimited = {} =>
    \E p \in plansHeld : Cardinality(workflows) <= WorkflowLimit[p]

=============================================================================
