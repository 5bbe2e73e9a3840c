---------------------------- MODULE MCWorkflowApi ----------------------------
(***************************************************************************)
(* Small instances of WorkflowApi for TLC: one user, two or three requests *)
(* in flight, and limits small enough to be reached.                       *)
(***************************************************************************)
EXTENDS WorkflowApi, TLC

CONSTANTS r1, r2, w1, w2, w3, a1, a2, a3, free, basic, pro

MCWorkflowOf == [a \in Action |-> w1]
MCWorkflowLimit == [p \in Plan |-> IF p = free THEN 1 ELSE 2]
MCActionLimit == [p \in Plan |-> IF p = free THEN 1 ELSE 2]

\* Up to three workflows with one action, or one workflow with three.
SmallEnough == oldActions \subseteq {a1} \/ oldIds \subseteq {w1}

\* The slots are alike.
Slots == Permutations(Request)

=============================================================================
