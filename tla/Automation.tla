----------------------------- MODULE Automation -----------------------------
(***************************************************************************)
(* What a message of GitHub sets off, as its user may count on it, with no *)
(* queue, handler, query or edit in sight.  A message has runs, one after  *)
(* the other, and a new one only when the last was interrupted.  The       *)
(* actions of a run are taken in their order, each with its calls, until   *)
(* all have passed or one has failed.  What was written is not rewritten,  *)
(* and what was sent stays sent.  EventActions implements this.            *)
(***************************************************************************)
EXTENDS Naturals, Sequences

CONSTANTS
  Message,    \* what GitHub sends
  Absent,     \* a message that is not there yet
  ShouldSend(_, _) \* whether a type of action is to send something for an event

VARIABLES
  message,    \* the messages
  runs,       \* the runs of each message, in their order
  effects     \* the calls made: of which message, run and step

vars == <<message, runs, effects>>

Init ==
  /\ message = [m \in Message |-> Absent]
  /\ runs = [m \in Message |-> <<>>]
  /\ effects = {}

Last(m) == runs[m][Len(runs[m])]

AtWork(m) == runs[m] # <<>> /\ Last(m).status = "Running"

Interrupted(r) == r.status = "Running" \/ r.cause = "threw"

\* The action at hand: the first of the run that has not passed.
HasNext(m) == AtWork(m) /\ Last(m).succeeded < Len(Last(m).actions)
Step(m)    == Last(m).succeeded + 1
Type(m)    == Last(m).actions[Step(m)].type
Call(type) == IF type = "webhook" THEN "post" ELSE "publish"

Effect(m, call) == [message |-> m, run |-> Len(runs[m]), step |-> Step(m), call |-> call]

Receive(m) ==
  /\ message[m] = Absent
  /\ message' = [message EXCEPT ![m] = message'[m]]
  /\ UNCHANGED <<runs, effects>>

\* A run begins with a workflow's actions, none of which has passed.
Begin(m) ==
  /\ message[m] # Absent
  /\ runs[m] # <<>> => Interrupted(Last(m))
  /\ Len(runs'[m]) = Len(runs[m]) + 1
  /\ LET new == runs'[m][Len(runs[m]) + 1] IN
       /\ runs' = [runs EXCEPT ![m] = Append(@, new)]
       /\ new.actions # <<>> /\ new.succeeded = 0
       /\ new.status = "Running" /\ new.cause = "none"
  /\ UNCHANGED <<message, effects>>

\* A call is made for the action at hand and no other.
Act(m) ==
  /\ HasNext(m)
  /\ \E call \in {"publish", "post"} : effects' = effects \cup {Effect(m, call)}
  /\ UNCHANGED <<message, runs>>

\* An action that is to send something passes when it was sent.
Pass(m) ==
  /\ HasNext(m)
  /\ ShouldSend(message[m].event, Type(m)) => Effect(m, Call(Type(m))) \in effects
  /\ runs' = [runs EXCEPT ![m][Len(runs[m])].succeeded = @ + 1]
  /\ UNCHANGED <<message, effects>>

End(m, status, cause) ==
  /\ AtWork(m)
  /\ runs' = [runs EXCEPT ![m][Len(runs[m])].status = status,
                          ![m][Len(runs[m])].cause = cause]
  /\ UNCHANGED <<message, effects>>

Succeed(m) == ~HasNext(m) /\ End(m, "Succeeded", "none")

\* Only an action at hand can be refused; a query can throw at any time.
Fail(m) ==
  \/ \E cause \in {"refused", "unparsed"} : HasNext(m) /\ End(m, "Failed", cause)
  \/ End(m, "Failed", "threw")

Next ==
  \E m \in Message : Receive(m) \/ Begin(m) \/ Act(m) \/ Pass(m) \/ Succeed(m) \/ Fail(m)

Spec == Init /\ [][Next]_vars

=============================================================================
