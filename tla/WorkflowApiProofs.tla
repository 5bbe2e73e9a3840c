------------------------- MODULE WorkflowApiProofs -------------------------
(***************************************************************************)
(* Theorems about WorkflowApi for any number of requests in flight, any    *)
(* ids, plans and limits.                                                  *)
(***************************************************************************)
EXTENDS WorkflowApi, FiniteSetTheorems, TLAPS

USE DEF planVars, tableVars, requestVars

-----------------------------------------------------------------------------
(* Types, and what a request carries from one await to the next.           *)

\* A request that starts carries what its route says.
LEMMA BeginTyping ==
  ASSUME ApiInv, NEW r \in Request, Begin(r)
  PROVE  ApiInv'
  <1>1. CASE PostWorkflow(r)
    BY <1>1, ApiAssumption DEF ApiInv, TypeOK, RequestInv, PostWorkflow, Start, At, Place, ApiAssumption
  <1>2. ASSUME NEW w \in Workflow, PostAction(r, w) PROVE ApiInv'
    BY <1>2, ApiAssumption DEF ApiInv, TypeOK, RequestInv, PostAction, Start, At, Place, ApiAssumption
  <1>3. ASSUME NEW w \in Workflow, DeleteAllActionsByWorkflowId(r, w) PROVE ApiInv'
    BY <1>3, ApiAssumption DEF ApiInv, TypeOK, RequestInv, DeleteAllActionsByWorkflowId, Start, At, Place, ApiAssumption
  <1>4. ASSUME NEW a \in Action, DeleteActionById(r, a) PROVE ApiInv'
    BY <1>4, ApiAssumption DEF ApiInv, TypeOK, RequestInv, DeleteActionById, Start, At, Place, ApiAssumption
  <1>5. ASSUME NEW ws \in SUBSET Workflow, DeleteWorkflows(r, ws) PROVE ApiInv'
    BY <1>5, ApiAssumption DEF ApiInv, TypeOK, RequestInv, DeleteWorkflows, Start, At, Place, ApiAssumption
  <1> QED
    BY <1>1, <1>2, <1>3, <1>4, <1>5 DEF Begin

\* A request that ends carries nothing.
LEMMA EndTyping ==
  ASSUME ApiInv, NEW r \in Request, End(r), UNCHANGED <<planVars, tableVars, raced>>
  PROVE  ApiInv'
  BY ApiAssumption DEF ApiInv, TypeOK, RequestInv, End, Place, ApiAssumption

\* The rows of a workflow can be counted.
LEMMA RowsCounted ==
  ASSUME NEW w
  PROVE  IsFiniteSet(Rows(w)) /\ Cardinality(Rows(w)) \in Nat
  <1>1. Rows(w) \subseteq Action
    BY DEF Rows
  <1> QED
    BY <1>1, FS_Subset, FS_CardinalityType, ApiAssumption DEF ApiAssumption

\* Every await of a request keeps the types, and what the request carries.
LEMMA ContinueTyping ==
  ASSUME ApiInv, NEW r \in Request, Continue(r)
  PROVE  ApiInv'
  <1> USE ApiAssumption DEF ApiAssumption
  <1>1. CASE \/ PlanForWorkflow(r) \/ CountWorkflows(r)
             \/ PlanForAction(r) \/ OwnWorkflow(r) \/ CountActions(r) \/ FindWorkflow(r)
    BY <1>1 DEF ApiInv, TypeOK, RequestInv, PlanForWorkflow, CountWorkflows, PlanForAction,
       OwnWorkflow, CountActions, FindWorkflow, Proceed, ProceedWith, End, ReadOnly, At, Place
  <1>2. CASE InsertWorkflow(r)
    BY <1>2 DEF ApiInv, TypeOK, RequestInv, InsertWorkflow, End, At, Place
  <1>3. CASE CountSteps(r)
    <2>1. NextStep(about[r]) \in Nat \ {0}
      BY RowsCounted DEF NextStep
    <2> QED
      BY <1>3, <2>1 DEF ApiInv, TypeOK, RequestInv, CountSteps, ProceedWith, End, ReadOnly, At, Place
  <1>4. CASE InsertAction(r)
    BY <1>4 DEF ApiInv, TypeOK, RequestInv, InsertAction, HasParent, End, At, Place
  <1>5. CASE FindAction(r) \/ DeleteAction(r) \/ FindForAll(r) \/ MatchIds(r)
    BY <1>5 DEF ApiInv, TypeOK, RequestInv, FindAction, DeleteAction, FindForAll, MatchIds,
       Proceed, ProceedWith, End, ReadOnly, At, Place
  <1>6. CASE ShiftSteps(r)
    BY <1>6 DEF ApiInv, TypeOK, RequestInv, ShiftSteps, Later, Rows, End, At, Place
  <1>7. CASE DeleteAll(r)
    BY <1>7 DEF ApiInv, TypeOK, RequestInv, DeleteAll, Rows, End, At, Place
  <1>8. CASE DeleteIds(r)
    BY <1>8 DEF ApiInv, TypeOK, RequestInv, DeleteIds, Rows, End, At, Place
  <1> QED
    BY <1>1, <1>2, <1>3, <1>4, <1>5, <1>6, <1>7, <1>8 DEF Continue

\* Every variable keeps its type; no action row lacks its workflow, no shift
\* takes a step below zero, and each request carries what its await needs.
THEOREM ApiCorrect == Spec => []ApiInv
  <1>1. Init => ApiInv
    BY ApiAssumption DEF Init, ApiInv, TypeOK, RequestInv, Place, ApiAssumption
  <1>2. ApiInv /\ [Next]_vars => ApiInv'
    <2> SUFFICES ASSUME ApiInv, [Next]_vars PROVE ApiInv'
      OBVIOUS
    <2>1. CASE \E r \in Request : Begin(r)
      BY <2>1, BeginTyping
    <2>2. CASE \E r \in Request : Continue(r)
      BY <2>2, ContinueTyping
    <2>3. CASE \E r \in Request : Fail(r)
      BY <2>3, EndTyping DEF Fail, ReadOnly
    <2>4. CASE ChangePlan
      BY <2>4 DEF ChangePlan, ApiInv, TypeOK, RequestInv
    <2>5. CASE UNCHANGED vars
      BY <2>5 DEF vars, ApiInv, TypeOK, RequestInv
    <2> QED
      BY <2>1, <2>2, <2>3, <2>4, <2>5 DEF Next
  <1> QED
    BY <1>1, <1>2, PTL DEF Spec

-----------------------------------------------------------------------------
(* The plan limits.                                                        *)

\* A plan the user has had stays on record.
LEMMA PlansGrow ==
  ASSUME [Next]_vars
  PROVE  plansHeld \subseteq plansHeld'
  BY DEF Next, vars, ChangePlan, Begin, Continue, Fail, ReadOnly, PostWorkflow, PostAction,
     DeleteAllActionsByWorkflowId, DeleteActionById, DeleteWorkflows, Start, PlanForWorkflow,
     CountWorkflows, InsertWorkflow, PlanForAction, OwnWorkflow, CountActions, FindWorkflow,
     CountSteps, InsertAction, FindAction, DeleteAction, ShiftSteps, FindForAll, DeleteAll,
     MatchIds, DeleteIds

\* Fewer rows and fewer requests past the guard keep a bound.
LEMMA SmallerBounded ==
  ASSUME NEW S, NEW T, IsFiniteSet(S), IsFiniteSet(T),
         NEW S1 \in SUBSET S, NEW T1 \in SUBSET T, NEW limit \in Nat,
         Cardinality(S) + Cardinality(T) < limit
  PROVE  Cardinality(S1) + Cardinality(T1) < limit
  <1>1. /\ IsFiniteSet(S1) /\ Cardinality(S1) <= Cardinality(S)
        /\ IsFiniteSet(T1) /\ Cardinality(T1) <= Cardinality(T)
    BY FS_Subset
  <1>2. /\ Cardinality(S) \in Nat /\ Cardinality(S1) \in Nat
        /\ Cardinality(T) \in Nat /\ Cardinality(T1) \in Nat
    BY <1>1, FS_CardinalityType
  <1> QED
    BY <1>1, <1>2

\* A request that passes the guard: what is there is below the limit, and no
\* more requests can be on their way than there are slots.
LEMMA PassingBounded ==
  ASSUME NEW S, NEW T, IsFiniteSet(S), T \subseteq Request,
         NEW limit \in Nat, Cardinality(S) < limit
  PROVE  Cardinality(S) + Cardinality(T) < limit + Cardinality(Request)
  BY FS_Subset, FS_CardinalityType, ApiAssumption DEF ApiAssumption

\* A request that inserts trades its place on the way for a row.
LEMMA InsertingBounded ==
  ASSUME NEW S, NEW T, IsFiniteSet(S), IsFiniteSet(T),
         NEW x, x \notin S, NEW r \in T, NEW limit \in Nat,
         Cardinality(S) + Cardinality(T) < limit
  PROVE  Cardinality(S \cup {x}) + Cardinality(T \ {r}) < limit
  <1>1. Cardinality(S \cup {x}) = Cardinality(S) + 1
    BY FS_AddElement
  <1>2. Cardinality(T \ {r}) = Cardinality(T) - 1
    BY FS_RemoveElement
  <1>3. Cardinality(S) \in Nat /\ Cardinality(T) \in Nat
    BY FS_CardinalityType
  <1> QED
    BY <1>1, <1>2, <1>3

\* The guard's promise as an inductive invariant: without an unlimited plan the
\* user's workflows, with the inserts on their way, stay within a plan they had
\* by less than one for each request slot.
THEOREM WorkflowLimitHolds == Spec => []WorkflowsBounded
  <1> DEFINE Limit(p) == WorkflowLimit[p] + Cardinality(Request)
  <1>0. Cardinality(Request) \in Nat \ {0} /\ IsFiniteSet(Request)
    BY FS_CardinalityType, FS_EmptySet, ApiAssumption DEF ApiAssumption
  <1>1. Init => WorkflowsBounded
    <2> SUFFICES ASSUME Init PROVE WorkflowsBounded
      OBVIOUS
    <2>1. workflows = {} /\ InsertingWorkflow = {}
      BY DEF Init, InsertingWorkflow, At
    <2>2. Cardinality({}) = 0
      BY FS_EmptySet
    <2>3. Free \in plansHeld /\ WorkflowLimit[Free] \in Nat
      BY ApiAssumption DEF Init, ApiAssumption
    <2>4. 0 + 0 < WorkflowLimit[Free] + Cardinality(Request)
      BY <1>0, <2>3
    <2> QED
      BY <2>1, <2>2, <2>3, <2>4 DEF WorkflowsBounded
  <1>2. ApiInv /\ ApiInv' /\ WorkflowsBounded /\ [Next]_vars => WorkflowsBounded'
    <2> SUFFICES ASSUME ApiInv, ApiInv', WorkflowsBounded, [Next]_vars,
                        plansHeld' \cap Unlimited = {}
                 PROVE  \E p \in plansHeld' :
                          Cardinality(workflows') + Cardinality(InsertingWorkflow') < Limit(p)
      BY DEF WorkflowsBounded
    <2>1. plansHeld \subseteq plansHeld' /\ \A p \in plansHeld' : WorkflowLimit[p] \in Nat
      BY PlansGrow, ApiAssumption DEF ApiInv, TypeOK, ApiAssumption
    <2>2. IsFiniteSet(workflows) /\ IsFiniteSet(InsertingWorkflow)
      BY <1>0, FS_Subset, ApiAssumption DEF ApiInv, TypeOK, InsertingWorkflow, ApiAssumption
    <2>3. PICK p \in plansHeld : Cardinality(workflows) + Cardinality(InsertingWorkflow) < Limit(p)
      BY <2>1 DEF WorkflowsBounded
    <2>4. Limit(p) \in Nat /\ p \in plansHeld'
      BY <1>0, <2>1, <2>3
    <2>5. CASE workflows' \subseteq workflows /\ InsertingWorkflow' \subseteq InsertingWorkflow
      BY <2>2, <2>3, <2>4, <2>5, SmallerBounded
    <2>6. ASSUME NEW r \in Request, CountWorkflows(r), ~At(r, "insertWorkflow"),
                 At(r, "insertWorkflow")'
          PROVE  \E q \in plansHeld' :
                   Cardinality(workflows') + Cardinality(InsertingWorkflow') < Limit(q)
      <3>1. seen[r] \in plansHeld
        BY <2>6 DEF ApiInv, RequestInv, CountWorkflows, At
      <3>2. Cardinality(workflows) < WorkflowLimit[seen[r]] /\ workflows' = workflows
        BY <2>1, <2>2, <2>6, <3>1, FS_CardinalityType
        DEF CountWorkflows, Reached, End, At, ReadOnly, ApiInv, TypeOK
      <3>3. InsertingWorkflow' \subseteq Request
        BY DEF InsertingWorkflow
      <3> QED
        BY <2>1, <2>2, <3>1, <3>2, <3>3, PassingBounded
    <2>7. ASSUME NEW r \in Request, InsertWorkflow(r)
          PROVE  Cardinality(workflows') + Cardinality(InsertingWorkflow') < Limit(p)
      <3>1. PICK w \in Workflow \ oldIds : workflows' = workflows \cup {w}
        BY <2>7 DEF InsertWorkflow
      <3>2. r \in InsertingWorkflow /\ InsertingWorkflow' = InsertingWorkflow \ {r}
        BY <2>7 DEF InsertWorkflow, InsertingWorkflow, At, End, ApiInv, TypeOK
      <3>3. w \notin workflows
        BY <3>1 DEF ApiInv, TypeOK
      <3> QED
        BY <2>2, <2>3, <2>4, <3>1, <3>2, <3>3, InsertingBounded
    <2>8. ASSUME NEW r \in Request, Continue(r), ~CountWorkflows(r), ~InsertWorkflow(r)
          PROVE  workflows' \subseteq workflows /\ InsertingWorkflow' \subseteq InsertingWorkflow
      <3>1. CASE PlanForWorkflow(r)
        <4>1. plan \notin Unlimited
          BY <3>1 DEF PlanForWorkflow, ReadOnly, ApiInv, TypeOK
        <4> QED
          BY <3>1, <4>1 DEF PlanForWorkflow, ProceedWith, ReadOnly, InsertingWorkflow, At, ApiInv, TypeOK
      <3>2. CASE PlanForAction(r) \/ OwnWorkflow(r) \/ CountActions(r) \/ FindWorkflow(r) \/ CountSteps(r)
        BY <3>2 DEF PlanForAction, OwnWorkflow, CountActions, FindWorkflow, CountSteps, Proceed,
           ProceedWith, End, ReadOnly, InsertingWorkflow, At, ApiInv, TypeOK
      <3>3. CASE InsertAction(r) \/ ShiftSteps(r) \/ DeleteAll(r) \/ DeleteIds(r)
        BY <3>3 DEF InsertAction, ShiftSteps, DeleteAll, DeleteIds, End, InsertingWorkflow, At, ApiInv, TypeOK
      <3>4. CASE FindAction(r) \/ DeleteAction(r) \/ FindForAll(r) \/ MatchIds(r)
        BY <3>4 DEF FindAction, DeleteAction, FindForAll, MatchIds, Proceed, ProceedWith, End, ReadOnly,
           InsertingWorkflow, At, ApiInv, TypeOK
      <3> QED
        BY <2>8, <3>1, <3>2, <3>3, <3>4 DEF Continue
    <2>9. ASSUME NEW r \in Request, CountWorkflows(r), ~At(r, "insertWorkflow")'
          PROVE  workflows' \subseteq workflows /\ InsertingWorkflow' \subseteq InsertingWorkflow
      BY <2>9 DEF CountWorkflows, Proceed, End, ReadOnly, InsertingWorkflow, At, ApiInv, TypeOK
    <2>10. ASSUME NEW r \in Request, Begin(r)
           PROVE  workflows' \subseteq workflows /\ InsertingWorkflow' \subseteq InsertingWorkflow
      BY <2>10 DEF Begin, PostWorkflow, PostAction, DeleteAllActionsByWorkflowId, DeleteActionById,
         DeleteWorkflows, Start, InsertingWorkflow, At, ApiInv, TypeOK
    <2>11. CASE (\E r \in Request : Fail(r)) \/ ChangePlan \/ UNCHANGED vars
      BY <2>5, <2>4, <2>11 DEF Fail, End, ReadOnly, ChangePlan, vars, InsertingWorkflow, At, ApiInv, TypeOK
    <2>12. ASSUME NEW r \in Request, CountWorkflows(r) PROVE ~At(r, "insertWorkflow")
      BY <2>12 DEF CountWorkflows, At
    <2> QED
      BY <2>4, <2>5, <2>6, <2>7, <2>8, <2>9, <2>10, <2>11, <2>12 DEF Next
  <1> QED
    BY <1>1, <1>2, ApiCorrect, PTL DEF Spec

\* The same for the actions of each workflow.
THEOREM ActionLimitHolds == Spec => []ActionsBounded
  <1> DEFINE Limit(p) == ActionLimit[p] + Cardinality(Request)
  <1>0. Cardinality(Request) \in Nat \ {0} /\ IsFiniteSet(Request)
    BY FS_CardinalityType, FS_EmptySet, ApiAssumption DEF ApiAssumption
  <1>1. Init => ActionsBounded
    <2> SUFFICES ASSUME Init, NEW w \in Workflow
                 PROVE  Cardinality(Rows(w)) + Cardinality(InsertingAction(w)) < Limit(Free)
      BY DEF Init, ActionsBounded
    <2>1. Rows(w) = {} /\ InsertingAction(w) = {}
      BY DEF Init, Rows, InsertingAction
    <2>2. Cardinality({}) = 0
      BY FS_EmptySet
    <2>3. ActionLimit[Free] \in Nat
      BY ApiAssumption DEF ApiAssumption
    <2>4. 0 + 0 < Limit(Free)
      BY <1>0, <2>3
    <2> QED
      BY <2>1, <2>2, <2>4
  <1>2. ApiInv /\ ApiInv' /\ ActionsBounded /\ [Next]_vars => ActionsBounded'
    <2> SUFFICES ASSUME ApiInv, ApiInv', ActionsBounded, [Next]_vars,
                        plansHeld' \cap Unlimited = {}, NEW w \in Workflow
                 PROVE  \E p \in plansHeld' :
                          Cardinality(Rows(w)') + Cardinality(InsertingAction(w)') < Limit(p)
      BY DEF ActionsBounded
    <2>1. plansHeld \subseteq plansHeld' /\ \A p \in plansHeld' : ActionLimit[p] \in Nat
      BY PlansGrow, ApiAssumption DEF ApiInv, TypeOK, ApiAssumption
    <2>2. IsFiniteSet(Rows(w)) /\ IsFiniteSet(InsertingAction(w))
      BY <1>0, RowsCounted, FS_Subset DEF InsertingAction
    <2>3. PICK p \in plansHeld : Cardinality(Rows(w)) + Cardinality(InsertingAction(w)) < Limit(p)
      BY <2>1 DEF ActionsBounded
    <2>4. Limit(p) \in Nat /\ p \in plansHeld'
      BY <1>0, <2>1, <2>3
    <2> DEFINE Shrinks == Rows(w)' \subseteq Rows(w) /\ InsertingAction(w)' \subseteq InsertingAction(w)
    <2>5. CASE Shrinks
      BY <2>2, <2>3, <2>4, <2>5, SmallerBounded
    <2>6. ASSUME NEW r \in Request, CountActions(r), At(r, "findWorkflow")', about[r] = w
          PROVE  \E q \in plansHeld' :
                   Cardinality(Rows(w)') + Cardinality(InsertingAction(w)') < Limit(q)
      <3>1. seen[r] \in plansHeld
        BY <2>6 DEF ApiInv, RequestInv, CountActions, At
      <3>2. Cardinality(Rows(w)) < ActionLimit[seen[r]] /\ Rows(w)' = Rows(w)
        BY <2>1, <2>2, <2>6, <3>1, FS_CardinalityType
        DEF CountActions, Reached, End, At, ReadOnly, Rows, ApiInv, TypeOK
      <3>3. InsertingAction(w)' \subseteq Request
        BY DEF InsertingAction
      <3> QED
        BY <2>1, <2>2, <3>1, <3>2, <3>3, PassingBounded
    <2>7. ASSUME NEW r \in Request, CountActions(r), ~(At(r, "findWorkflow")' /\ about[r] = w)
          PROVE  Shrinks
      BY <2>7 DEF CountActions, Proceed, End, ReadOnly, InsertingAction, Rows, At, ApiInv, TypeOK
    <2>8. ASSUME NEW r \in Request, InsertAction(r)
          PROVE  Cardinality(Rows(w)') + Cardinality(InsertingAction(w)') < Limit(p)
      <3>1. CASE about[r] = w /\ HasParent(r)
        <4>1. PICK a \in Action \ oldActions :
                WorkflowOf[a] = w /\ step' = [step EXCEPT ![a] = seen[r]]
          BY <2>8, <3>1 DEF InsertAction
        <4>2. seen[r] \in Nat \ {0}
          BY <2>8 DEF InsertAction, At, ApiInv, RequestInv
        <4>3. a \notin Rows(w) /\ Rows(w)' = Rows(w) \cup {a}
          BY <4>1, <4>2 DEF Rows, ApiInv, TypeOK
        <4>4. r \in InsertingAction(w) /\ InsertingAction(w)' = InsertingAction(w) \ {r}
          BY <2>8, <3>1 DEF InsertAction, InsertingAction, At, End, ApiInv, TypeOK
        <4> QED
          BY <2>2, <2>3, <2>4, <4>3, <4>4, InsertingBounded
      <3>2. CASE ~(about[r] = w /\ HasParent(r))
        <4>1. Shrinks
          BY <2>8, <3>2 DEF InsertAction, InsertingAction, Rows, At, End, ApiInv, TypeOK
        <4> QED
          BY <2>2, <2>3, <2>4, <4>1, SmallerBounded
      <3> QED
        BY <3>1, <3>2
    <2>9. ASSUME NEW r \in Request, Continue(r), ~CountActions(r), ~InsertAction(r)
          PROVE  Shrinks
      <3>1. CASE PlanForAction(r)
        <4>1. plan \notin Unlimited
          BY <3>1 DEF PlanForAction, ReadOnly, ApiInv, TypeOK
        <4> QED
          BY <3>1, <4>1 DEF PlanForAction, ProceedWith, ReadOnly, InsertingAction, Rows, At, ApiInv, TypeOK
      <3>2. CASE PlanForWorkflow(r) \/ CountWorkflows(r) \/ OwnWorkflow(r) \/ MatchIds(r)
        BY <3>2 DEF PlanForWorkflow, CountWorkflows, OwnWorkflow, MatchIds, Proceed, ProceedWith, End,
           ReadOnly, InsertingAction, Rows, At, ApiInv, TypeOK
      <3>3. CASE FindWorkflow(r) \/ CountSteps(r) \/ FindAction(r) \/ DeleteAction(r) \/ FindForAll(r)
        BY <3>3 DEF FindWorkflow, CountSteps, FindAction, DeleteAction, FindForAll, Proceed, ProceedWith,
           End, ReadOnly, InsertingAction, Rows, At, ApiInv, TypeOK
      <3>4. CASE InsertWorkflow(r)
        BY <3>4 DEF InsertWorkflow, End, InsertingAction, Rows, At, ApiInv, TypeOK
      <3>5. CASE ShiftSteps(r)
        <4>1. Rows(w)' \subseteq Rows(w)
          BY <3>5 DEF ShiftSteps, Later, Rows, ApiInv, TypeOK
        <4>2. InsertingAction(w)' \subseteq InsertingAction(w)
          BY <3>5 DEF ShiftSteps, End, InsertingAction, At, ApiInv, TypeOK
        <4> QED
          BY <4>1, <4>2
      <3>6. CASE DeleteAll(r) \/ DeleteIds(r)
        BY <3>6 DEF DeleteAll, DeleteIds, End, InsertingAction, Rows, At, ApiInv, TypeOK
      <3> QED
        BY <2>9, <3>1, <3>2, <3>3, <3>4, <3>5, <3>6 DEF Continue
    <2>10. ASSUME NEW r \in Request, Begin(r) PROVE Shrinks
      BY <2>10 DEF Begin, PostWorkflow, PostAction, DeleteAllActionsByWorkflowId, DeleteActionById,
         DeleteWorkflows, Start, InsertingAction, Rows, At, ApiInv, TypeOK
    <2>11. CASE (\E r \in Request : Fail(r)) \/ ChangePlan \/ UNCHANGED vars
      <3>1. Shrinks
        BY <2>11 DEF Fail, End, ReadOnly, ChangePlan, vars, InsertingAction, Rows, At, ApiInv, TypeOK
      <3> QED
        BY <2>5, <3>1
    <2> QED
      BY <2>4, <2>5, <2>6, <2>7, <2>8, <2>9, <2>10, <2>11 DEF Next
  <1> QED
    BY <1>1, <1>2, ApiCorrect, PTL DEF Spec

-----------------------------------------------------------------------------
(* The steps of a workflow.                                                *)

\* The steps of the rows are 1, 2, 3, ..., each once.
Numbered(w) ==
  /\ \A a \in Rows(w) : step[a] \in 1 .. Cardinality(Rows(w))
  /\ \A a, b \in Rows(w) : step[a] = step[b] => a = b
  /\ \A k \in 1 .. Cardinality(Rows(w)) : \E a \in Rows(w) : step[a] = k

\* What a request has read is still true of its workflow, if that is there.
Carries(r) ==
  about[r] \in workflows =>
    /\ pc[r] = "insertAction" => seen[r] = NextStep(about[r])
    /\ pc[r] \in {"deleteAction", "shiftSteps"} => step[row[r]] > 0 /\ seen[r] = step[row[r]]

\* Requests and actions are about workflows that are or were there.
KnownInv ==
  /\ \A r \in Request : about[r] \in oldIds \cup {None}
  /\ \A a \in oldActions : WorkflowOf[a] \in oldIds

\* A workflow whose requests never overlapped has one at a time, which finds
\* what it has read, and steps without gaps.
AloneInv(w) ==
  w \notin raced =>
    /\ Numbered(w)
    /\ \A r, s \in Request : about[r] = w /\ about[s] = w => r = s
    /\ \A r \in Request : about[r] = w => Carries(r)

\* No row is numbered without a gap.
LEMMA NumberedEmpty ==
  ASSUME NEW w, Rows(w) = {}
  PROVE  Numbered(w)
  BY FS_EmptySet DEF Numbered

\* An action that is added with the next step continues the numbers.
LEMMA NumberedAdd ==
  ASSUME TypeOK, NEW w \in Workflow, Numbered(w), NEW a \in Action \ Rows(w), WorkflowOf[a] = w,
         step' = [step EXCEPT ![a] = NextStep(w)]
  PROVE  Numbered(w)'
  <1> DEFINE n == Cardinality(Rows(w))
  <1>0. n \in Nat /\ IsFiniteSet(Rows(w)) /\ step \in [Action -> Nat]
    BY RowsCounted DEF TypeOK
  <1>1. step'[a] = n + 1 /\ \A b \in Action \ {a} : step'[b] = step[b]
    BY <1>0 DEF NextStep
  <1>2. Rows(w)' = Rows(w) \cup {a}
    BY <1>0, <1>1 DEF Rows
  <1>3. Cardinality(Rows(w)') = n + 1
    BY <1>0, <1>2, FS_AddElement
  <1>4. \A b \in Rows(w) : b \in Action /\ step'[b] = step[b] /\ step[b] \in 1 .. n
    BY <1>1 DEF Numbered, Rows
  <1>5. \A k \in 1 .. (n + 1) : k = n + 1 \/ \E b \in Rows(w) : step[b] = k
    BY <1>0 DEF Numbered
  <1>6. \A b, c \in Rows(w) : step[b] = step[c] => b = c
    BY DEF Numbered
  <1> HIDE DEF n
  <1>7. \A b \in Rows(w)' : step'[b] \in 1 .. (n + 1)
    BY <1>0, <1>1, <1>2, <1>4
  <1>8. \A b, c \in Rows(w)' : step'[b] = step'[c] => b = c
    <2>1. \A b \in Rows(w) : step'[b] # n + 1
      BY <1>0, <1>4
    <2> QED
      BY <1>1, <1>2, <1>4, <1>6, <2>1
  <1>9. \A k \in 1 .. (n + 1) : \E b \in Rows(w)' : step'[b] = k
    BY <1>1, <1>2, <1>4, <1>5
  <1> QED
    BY <1>3, <1>7, <1>8, <1>9 DEF Numbered

\* An action that is deleted while the later ones move down leaves no gap.
LEMMA NumberedShift ==
  ASSUME TypeOK, NEW w \in Workflow, Numbered(w), NEW a \in Rows(w),
         step' = [b \in Action |-> IF b = a THEN 0
                                   ELSE IF b \in {c \in Rows(w) \ {a} : step[c] > step[a]}
                                        THEN step[b] - 1 ELSE step[b]]
  PROVE  Numbered(w)'
  <1> DEFINE n == Cardinality(Rows(w))
             k == step[a]
  <1>0. n \in Nat /\ IsFiniteSet(Rows(w)) /\ step \in [Action -> Nat] /\ a \in Action
    BY RowsCounted DEF TypeOK, Rows
  <1>1. k \in 1 .. n
    BY DEF Numbered
  <1>2. \A b \in Rows(w) \ {a} :
          /\ step[b] \in 1 .. n /\ step[b] # k
          /\ step'[b] = IF step[b] > k THEN step[b] - 1 ELSE step[b]
    BY <1>0 DEF Numbered, Rows
  <1>3. /\ step'[a] = 0
        /\ \A b \in Action \ Rows(w) : step'[b] = step[b]
    BY <1>0
  <1>4. Rows(w)' = Rows(w) \ {a}
    <2>1. \A b \in Rows(w) \ {a} : step'[b] > 0
      BY <1>0, <1>1, <1>2
    <2> QED
      BY <1>0, <1>3, <2>1 DEF Rows
  <1>5. Cardinality(Rows(w)') = n - 1
    BY <1>0, <1>4, FS_RemoveElement
  <1>6. \A b \in Rows(w) \ {a} : step'[b] \in 1 .. (n - 1)
    BY <1>0, <1>1, <1>2
  <1>7. \A b, c \in Rows(w) \ {a} : step'[b] = step'[c] => b = c
    <2> SUFFICES ASSUME NEW b \in Rows(w) \ {a}, NEW c \in Rows(w) \ {a}, step'[b] = step'[c]
                 PROVE  step[b] = step[c]
      BY DEF Numbered
    <2> QED
      BY <1>0, <1>1, <1>2
  <1>8. ASSUME NEW j \in 1 .. (n - 1) PROVE \E b \in Rows(w) \ {a} : step'[b] = j
    <2>1. CASE j < k
      <3>1. PICK b \in Rows(w) : step[b] = j
        BY <1>0 DEF Numbered
      <3> QED
        BY <1>0, <1>1, <1>2, <2>1, <3>1
    <2>2. CASE j >= k
      <3>1. PICK b \in Rows(w) : step[b] = j + 1
        BY <1>0, <1>1 DEF Numbered
      <3> QED
        BY <1>0, <1>1, <1>2, <2>2, <3>1
    <2> QED
      BY <1>0, <1>1, <2>1, <2>2
  <1> HIDE DEF n, k
  <1> QED
    BY <1>4, <1>5, <1>6, <1>7, <1>8 DEF Numbered

\* A step that leaves the actions of a workflow alone.
LEMMA Undisturbed ==
  ASSUME ApiInv, KnownInv, NEW w \in Workflow, AloneInv(w), NEW r \in Request, raced' = raced,
         \A s \in Request \ {r} : /\ pc'[s] = pc[s] /\ about'[s] = about[s]
                                  /\ row'[s] = row[s] /\ seen'[s] = seen[s],
         about'[r] = about[r] \/ about'[r] = None,
         w \in workflows' => w \in workflows \/ w \notin oldIds,
         \A a \in Action : WorkflowOf[a] = w => step'[a] = step[a],
         about'[r] = w => Carries(r)'
  PROVE  AloneInv(w)'
  <1>0. None # w
    BY ApiAssumption DEF ApiAssumption
  <1>1. Rows(w)' = Rows(w)
    BY DEF Rows
  <1>2. Numbered(w) => Numbered(w)'
    <2>1. \A a \in Rows(w) : step'[a] = step[a]
      BY DEF Rows
    <2> QED
      BY <1>1, <2>1 DEF Numbered
  <1>3. ASSUME NEW s \in Request, s # r, about[s] = w, Carries(s) PROVE Carries(s)'
    <2>1. w \in workflows' => w \in workflows
      BY <1>0, <1>3 DEF KnownInv
    <2>2. pc[s] \in {"deleteAction", "shiftSteps"} => step'[row[s]] = step[row[s]]
      BY <1>3 DEF ApiInv, RequestInv
    <2> QED
      BY <1>1, <1>3, <2>1, <2>2 DEF Carries, NextStep
  <1>4. \A s \in Request : about'[s] = w => about[s] = w
    BY <1>0
  <1> QED
    BY <1>2, <1>3, <1>4 DEF AloneInv

\* A step that ends the only request about a workflow, or deletes the workflow.
LEMMA Disturbed ==
  ASSUME ApiInv, NEW w \in Workflow, AloneInv(w), NEW r \in Request, raced' = raced, End(r),
         about[r] = w \/ w \notin workflows',
         Numbered(w) => Numbered(w)'
  PROVE  AloneInv(w)'
  <1>1. /\ about'[r] = None /\ None # w
        /\ \A s \in Request \ {r} : pc'[s] = pc[s] /\ about'[s] = about[s]
    BY ApiAssumption DEF ApiInv, TypeOK, End, ApiAssumption
  <1>2. \A s \in Request : about'[s] = w => about[s] = w
    BY <1>1
  <1>3. ASSUME w \notin raced, NEW s \in Request, about'[s] = w PROVE Carries(s)'
    <2>1. w \notin workflows'
      BY <1>1, <1>2, <1>3 DEF AloneInv
    <2> QED
      BY <1>3, <2>1 DEF Carries
  <1> QED
    BY <1>2, <1>3 DEF AloneInv

\* A request that starts has read nothing, and marks an overlap.
LEMMA BeginAlone ==
  ASSUME ApiInv, KnownInv, NEW w \in Workflow, AloneInv(w), NEW r \in Request, Begin(r)
  PROVE  AloneInv(w)'
  <1>0. None # w
    BY ApiAssumption DEF ApiAssumption
  <1>1. PICK place \in {"planForWorkflow", "planForAction", "findAction", "findForAll", "matchIds"},
             v \in oldIds \cup {None}, a \in Action \cup {None}, ws \in SUBSET Workflow :
               Start(r, place, v, a, ws)
    BY DEF Begin, PostWorkflow, PostAction, DeleteAllActionsByWorkflowId, DeleteActionById,
       DeleteWorkflows, KnownInv
  <1>2. /\ UNCHANGED tableVars
        /\ about'[r] = v /\ pc'[r] = place
        /\ \A s \in Request \ {r} : /\ pc'[s] = pc[s] /\ about'[s] = about[s]
                                    /\ row'[s] = row[s] /\ seen'[s] = seen[s]
        /\ w \notin raced' => w \notin raced /\ (v = w => \A s \in Request \ {r} : about[s] # w)
    BY <1>0, <1>1 DEF Start, Overlap, ApiInv, TypeOK
  <1>3. Numbered(w) => Numbered(w)'
    BY <1>2 DEF Numbered, Rows
  <1>4. ASSUME NEW s \in Request \ {r}, Carries(s) PROVE Carries(s)'
    <2>1. Rows(about[s])' = Rows(about[s])
      BY <1>2 DEF Rows
    <2> QED
      BY <1>2, <1>4, <2>1 DEF Carries, NextStep
  <1>5. Carries(r)'
    BY <1>2 DEF Carries
  <1> QED
    BY <1>2, <1>3, <1>4, <1>5 DEF AloneInv

\* A request that begins knows nothing yet.
LEMMA BeginKnown ==
  ASSUME ApiInv, KnownInv, NEW r \in Request, Begin(r)
  PROVE  KnownInv'
  <1>1. PICK v \in oldIds \cup {None} : about' = [about EXCEPT ![r] = v]
    BY DEF Begin, PostWorkflow, PostAction, DeleteAllActionsByWorkflowId, DeleteActionById,
       DeleteWorkflows, Start, KnownInv
  <1>2. UNCHANGED <<oldIds, oldActions>>
    BY DEF Begin, PostWorkflow, PostAction, DeleteAllActionsByWorkflowId, DeleteActionById,
       DeleteWorkflows, Start
  <1> QED
    BY <1>1, <1>2 DEF KnownInv, ApiInv, TypeOK

\* What a request does at an await.
LEMMA ContinueAlone ==
  ASSUME ApiInv, KnownInv, NEW w \in Workflow, AloneInv(w), NEW r \in Request, Continue(r) \/ Fail(r)
  PROVE  AloneInv(w)'
  <1> DEFINE Others == \A s \in Request \ {r} : /\ pc'[s] = pc[s] /\ about'[s] = about[s]
                                                /\ row'[s] = row[s] /\ seen'[s] = seen[s]
  <1>0. /\ None # w
        /\ pc \in [Request -> Place] /\ about \in [Request -> Workflow \cup {None}]
        /\ row \in [Request -> Action \cup {None}] /\ seen \in [Request -> Nat \cup Plan]
        /\ step \in [Action -> Nat] /\ workflows \subseteq oldIds /\ RequestInv(r)
        /\ \A a \in Action : step[a] > 0 => a \in oldActions /\ WorkflowOf[a] \in workflows
    BY ApiAssumption DEF ApiAssumption, ApiInv, TypeOK
  <1>1. ASSUME End(r), ReadOnly PROVE AloneInv(w)'
    <2>1. Others /\ about'[r] = None
      BY <1>0, <1>1 DEF End
    <2> QED
      BY <1>0, <1>1, <2>1, Undisturbed DEF ReadOnly
  <1>2. ASSUME NEW place, NEW value, ReadOnly,
               Proceed(r, place) \/ ProceedWith(r, place, value),
               about[r] = w => Carries(r)'
        PROVE  AloneInv(w)'
    <2>1. Others /\ about' = about
      BY <1>0, <1>2 DEF Proceed, ProceedWith
    <2> QED
      BY <1>2, <2>1, Undisturbed DEF ReadOnly
  <1>3. ASSUME NEW place, NEW value, Proceed(r, place) \/ ProceedWith(r, place, value),
               place \notin {"insertAction", "deleteAction", "shiftSteps"}
        PROVE  Carries(r)'
    BY <1>0, <1>3 DEF Proceed, ProceedWith, Carries
  <1>4. CASE \/ PlanForWorkflow(r) \/ CountWorkflows(r) \/ PlanForAction(r) \/ OwnWorkflow(r)
             \/ CountActions(r) \/ FindWorkflow(r) \/ FindForAll(r) \/ MatchIds(r) \/ Fail(r)
    <2>1. ASSUME NEW place \in Place \ {"insertAction", "deleteAction", "shiftSteps"}, NEW value,
                 ReadOnly, Proceed(r, place) \/ ProceedWith(r, place, value)
          PROVE  AloneInv(w)'
      BY <1>2, <1>3, <2>1
    <2>2. CASE PlanForWorkflow(r)
      BY <2>1, <2>2 DEF PlanForWorkflow, Place
    <2>3. CASE PlanForAction(r)
      BY <2>1, <2>3 DEF PlanForAction, Place
    <2>4. CASE CountWorkflows(r)
      BY <1>1, <2>1, <2>4 DEF CountWorkflows, Place
    <2>5. CASE OwnWorkflow(r) \/ CountActions(r)
      BY <1>1, <2>1, <2>5 DEF OwnWorkflow, CountActions, Place
    <2>6. CASE FindWorkflow(r) \/ FindForAll(r) \/ MatchIds(r)
      BY <1>1, <2>1, <2>6 DEF FindWorkflow, FindForAll, MatchIds, Place
    <2>7. CASE Fail(r)
      BY <1>1, <2>7 DEF Fail
    <2> QED
      BY <1>4, <2>2, <2>3, <2>4, <2>5, <2>6, <2>7
  <1>5. CASE CountSteps(r)
    <2>1. CASE ProceedWith(r, "insertAction", NextStep(about[r])) /\ ReadOnly
      <3>1. Carries(r)'
        BY <1>0, <2>1 DEF ProceedWith, ReadOnly, Carries, NextStep, Rows
      <3> QED
        BY <1>2, <2>1, <3>1
    <2> QED
      BY <1>1, <1>5, <2>1 DEF CountSteps
  <1>6. CASE FindAction(r)
    <2>1. CASE step[row[r]] > 0 /\ ProceedWith(r, "deleteAction", step[row[r]]) /\ ReadOnly
      <3>1. Carries(r)'
        BY <1>0, <2>1 DEF ProceedWith, ReadOnly, Carries
      <3> QED
        BY <1>2, <2>1, <3>1
    <2> QED
      BY <1>1, <1>6, <2>1 DEF FindAction
  <1>7. CASE DeleteAction(r)
    <2>1. CASE At(r, "deleteAction") /\ Proceed(r, "shiftSteps") /\ ReadOnly
      <3>1. ASSUME w \notin raced, about[r] = w PROVE Carries(r)'
        <4>1. Carries(r)
          BY <3>1 DEF AloneInv
        <4> QED
          BY <1>0, <2>1, <4>1 DEF At, Proceed, ReadOnly, Carries
      <3>2. CASE w \in raced
        BY <2>1, <3>2 DEF ReadOnly, AloneInv
      <3> QED
        BY <1>2, <2>1, <3>1, <3>2
    <2> QED
      BY <1>1, <1>7, <2>1 DEF DeleteAction
  <1>8. CASE InsertWorkflow(r)
    <2>1. Others /\ about'[r] = None /\ raced' = raced /\ step' = step
      BY <1>0, <1>8 DEF InsertWorkflow, End
    <2>2. w \in workflows' => w \in workflows \/ w \notin oldIds
      BY <1>8 DEF InsertWorkflow
    <2> QED
      BY <1>0, <2>1, <2>2, Undisturbed
  <1>9. ASSUME End(r), raced' = raced, workflows' = workflows, about[r] # w,
               \A a \in Action : WorkflowOf[a] = w => step'[a] = step[a]
        PROVE  AloneInv(w)'
    <2>1. Others /\ about'[r] = None
      BY <1>0, <1>9 DEF End
    <2> QED
      BY <1>0, <1>9, <2>1, Undisturbed
  <1>10. CASE InsertAction(r)
    <2>1. End(r) /\ raced' = raced /\ workflows' = workflows /\ about[r] \in Workflow
      BY <1>0, <1>10 DEF InsertAction, At, RequestInv
    <2>2. CASE UNCHANGED step
      BY <1>1, <1>9, <1>10, <2>1, <2>2, Disturbed, <1>0 DEF Numbered, Rows
    <2>3. ASSUME about[r] \in workflows, NEW a \in Action \ oldActions, WorkflowOf[a] = about[r],
                 step' = [step EXCEPT ![a] = seen[r]]
          PROVE  AloneInv(w)'
      <3>1. CASE about[r] # w
        BY <1>0, <1>9, <2>1, <2>3, <3>1
      <3>2. CASE about[r] = w /\ w \in raced
        BY <2>1, <3>2 DEF AloneInv
      <3>3. CASE about[r] = w /\ w \notin raced
        <4>1. Carries(r) /\ Numbered(w)
          BY <3>3 DEF AloneInv
        <4>2. seen[r] = NextStep(w)
          BY <1>10, <2>3, <3>3, <4>1 DEF Carries, InsertAction, At
        <4>3. a \in Action \ Rows(w)
          BY <1>0, <2>3 DEF Rows
        <4>4. Numbered(w)'
          BY <2>3, <3>3, <4>1, <4>2, <4>3, NumberedAdd DEF ApiInv
        <4> QED
          BY <2>1, <3>3, <4>4, Disturbed
      <3> QED
        BY <3>1, <3>2, <3>3
    <2> QED
      BY <1>10, <2>2, <2>3 DEF InsertAction, HasParent
  <1>11. CASE ShiftSteps(r)
    <2>1. /\ End(r) /\ raced' = raced /\ workflows' = workflows /\ pc[r] = "shiftSteps"
          /\ row[r] \in Action /\ about[r] = WorkflowOf[row[r]]
          /\ step' = [b \in Action |-> IF b = row[r] THEN 0
                                       ELSE IF b \in Later(r) THEN step[b] - 1 ELSE step[b]]
      BY <1>0, <1>11 DEF ShiftSteps, At, RequestInv
    <2>2. CASE about[r] # w
      <3>1. \A a \in Action : WorkflowOf[a] = w => step'[a] = step[a]
        BY <2>1, <2>2 DEF Later, Rows
      <3> QED
        BY <1>9, <2>1, <2>2, <3>1
    <2>3. CASE about[r] = w /\ w \in raced
      BY <2>1, <2>3 DEF AloneInv
    <2>4. CASE about[r] = w /\ w \notin raced
      <3>1. Carries(r) /\ Numbered(w)
        BY <2>4 DEF AloneInv
      <3>2. CASE w \in workflows
        <4>1. row[r] \in Rows(w) /\ seen[r] = step[row[r]]
          BY <2>1, <2>4, <3>1, <3>2 DEF Carries, Rows
        <4>2. Later(r) = {c \in Rows(w) \ {row[r]} : step[c] > step[row[r]]}
          BY <2>4, <4>1 DEF Later
        <4>3. Numbered(w)'
          BY <2>1, <3>1, <4>1, <4>2, NumberedShift DEF ApiInv
        <4> QED
          BY <2>1, <2>4, <4>3, Disturbed
      <3>3. CASE w \notin workflows
        <4>1. Rows(w) = {}
          BY <1>0, <3>3 DEF Rows
        <4>2. Rows(w)' = {}
          BY <1>0, <2>1, <2>4, <4>1 DEF Later, Rows
        <4>3. Numbered(w)'
          BY <4>2, NumberedEmpty, FS_EmptySet DEF Numbered
        <4> QED
          BY <2>1, <2>4, <4>3, Disturbed
      <3> QED
        BY <3>2, <3>3
    <2> QED
      BY <2>2, <2>3, <2>4
  <1>12. CASE DeleteAll(r)
    <2>1. /\ End(r) /\ raced' = raced /\ workflows' = workflows
          /\ step' = [a \in Action |-> IF a \in Rows(about[r]) THEN 0 ELSE step[a]]
      BY <1>12 DEF DeleteAll
    <2>2. CASE about[r] # w
      <3>1. \A a \in Action : WorkflowOf[a] = w => step'[a] = step[a]
        BY <2>1, <2>2 DEF Rows
      <3> QED
        BY <1>9, <2>1, <2>2, <3>1
    <2>3. CASE about[r] = w
      <3>1. Rows(w)' = {}
        BY <1>0, <2>1, <2>3 DEF Rows
      <3>2. Numbered(w)'
        BY <3>1, FS_EmptySet DEF Numbered
      <3> QED
        BY <2>1, <2>3, <3>2, Disturbed
    <2> QED
      BY <2>2, <2>3
  <1>13. CASE DeleteIds(r)
    <2>1. /\ End(r) /\ raced' = raced /\ workflows' = workflows \ ids[r]
          /\ step' = [a \in Action |-> IF WorkflowOf[a] \in ids[r] THEN 0 ELSE step[a]]
      BY <1>13 DEF DeleteIds
    <2>2. CASE w \in ids[r]
      <3>1. Rows(w)' = {} /\ w \notin workflows'
        BY <2>1, <2>2 DEF Rows
      <3>2. Numbered(w)'
        BY <3>1, FS_EmptySet DEF Numbered
      <3> QED
        BY <2>1, <3>1, <3>2, Disturbed
    <2>3. CASE w \notin ids[r]
      <3>1. Others /\ about'[r] = None
        BY <1>0, <2>1 DEF End
      <3>2. \A a \in Action : WorkflowOf[a] = w => step'[a] = step[a]
        BY <2>1, <2>3
      <3> QED
        BY <1>0, <2>1, <3>1, <3>2, Undisturbed
    <2> QED
      BY <2>2, <2>3
  <1> QED
    BY <1>4, <1>5, <1>6, <1>7, <1>8, <1>10, <1>11, <1>12, <1>13 DEF Continue

\* What a request that was never overlapped has read is still so.
LEMMA ContinueKnown ==
  ASSUME ApiInv, KnownInv, NEW r \in Request, Continue(r) \/ Fail(r)
  PROVE  KnownInv'
  <1>0. /\ about \in [Request -> Workflow \cup {None}] /\ workflows \subseteq oldIds
        /\ oldIds \subseteq oldIds'
        /\ about' = about \/ about' = [about EXCEPT ![r] = None]
    BY DEF ApiInv, TypeOK, Continue, Fail, ReadOnly, PlanForWorkflow, CountWorkflows, InsertWorkflow,
       PlanForAction, OwnWorkflow, CountActions, FindWorkflow, CountSteps, InsertAction, FindAction,
       DeleteAction, ShiftSteps, FindForAll, DeleteAll, MatchIds, DeleteIds, Proceed, ProceedWith, End
  <1>1. \A s \in Request : about'[s] \in oldIds' \cup {None}
    BY <1>0 DEF KnownInv
  <1>2. ASSUME NEW a \in oldActions' PROVE WorkflowOf[a] \in oldIds'
    <2>1. CASE a \in oldActions
      BY <1>0, <2>1 DEF KnownInv
    <2>2. CASE InsertAction(r)
      BY <1>0, <1>2, <2>1, <2>2 DEF InsertAction, HasParent
    <2>3. CASE oldActions' = oldActions
      BY <1>2, <2>1, <2>3
    <2> QED
      BY <2>2, <2>3 DEF Continue, Fail, ReadOnly, PlanForWorkflow, CountWorkflows, InsertWorkflow,
       PlanForAction, OwnWorkflow, CountActions, FindWorkflow, CountSteps, FindAction,
       DeleteAction, ShiftSteps, FindForAll, DeleteAll, MatchIds, DeleteIds
  <1> QED
    BY <1>1, <1>2 DEF KnownInv

\* Without overlapping requests the steps of a workflow stay 1, 2, 3, ...: no
\* order of creations, deletions, failures and plan changes leaves a gap or
\* gives two actions one step.
THEOREM StepsStaySequential == Spec => []StepsSequentialUnlessRaced
  <1>1. Init => KnownInv /\ \A w \in Workflow : AloneInv(w)
    <2> SUFFICES ASSUME Init, NEW w \in Workflow PROVE KnownInv /\ AloneInv(w)
      BY DEF Init, KnownInv
    <2>1. Rows(w) = {}
      BY DEF Init, Rows
    <2>2. None # w
      BY ApiAssumption DEF ApiAssumption
    <2> QED
      BY <2>1, <2>2, NumberedEmpty DEF Init, KnownInv, AloneInv
  <1>2. ApiInv /\ KnownInv /\ (\A w \in Workflow : AloneInv(w)) /\ [Next]_vars
        => KnownInv' /\ (\A w \in Workflow : AloneInv(w))'
    <2> SUFFICES ASSUME ApiInv, KnownInv, \A w \in Workflow : AloneInv(w), [Next]_vars
                 PROVE  KnownInv' /\ \A w \in Workflow : AloneInv(w)'
      OBVIOUS
    <2>1. ASSUME NEW r \in Request, Begin(r) PROVE KnownInv' /\ \A w \in Workflow : AloneInv(w)'
      BY <2>1, BeginAlone, BeginKnown
    <2>2. ASSUME NEW r \in Request, Continue(r) \/ Fail(r)
          PROVE  KnownInv' /\ \A w \in Workflow : AloneInv(w)'
      BY <2>2, ContinueAlone, ContinueKnown
    <2>3. CASE ChangePlan \/ UNCHANGED vars
      <3>1. UNCHANGED <<tableVars, raced, requestVars>>
        BY <2>3 DEF ChangePlan, vars
      <3>2. ASSUME NEW w PROVE Rows(w)' = Rows(w)
        BY <3>1 DEF Rows
      <3>3. \A r \in Request : Carries(r) => Carries(r)'
        BY <3>1, <3>2 DEF Carries, NextStep
      <3>4. ASSUME NEW w \in Workflow PROVE AloneInv(w)'
        BY <3>1, <3>2, <3>3 DEF AloneInv, Numbered
      <3> QED
        BY <3>1, <3>4 DEF KnownInv
    <2> QED
      BY <2>1, <2>2, <2>3 DEF Next
  <1>3. ApiInv /\ (\A w \in Workflow : AloneInv(w)) => StepsSequentialUnlessRaced
    <2> SUFFICES ASSUME NEW w \in Workflow \ raced, Numbered(w) PROVE Sequential(w)
      BY DEF AloneInv, StepsSequentialUnlessRaced
    <2> QED
      BY DEF Numbered, Sequential
  <1> QED
    BY <1>1, <1>2, <1>3, ApiCorrect, PTL DEF Spec

=============================================================================
