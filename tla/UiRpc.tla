------------------------------- MODULE UiRpc -------------------------------
(***************************************************************************)
(* What a caller of app_manager_request_*() may rely on: a remote call     *)
(* with at-most-once execution.  A call is executed once or not at all,    *)
(* perhaps only after its caller stopped waiting; a caller that gets a     *)
(* reply gets the result of its own call, and one that gives up learns     *)
(* nothing about whether the call took effect.                             *)
(***************************************************************************)
EXTENDS Integers

CONSTANTS
  Callers,   \* tasks that call
  Outcomes,  \* what executing a call can result in
  Nothing,   \* what a task that has not called yet was returned
  Expired,   \* what a caller that gives up is returned
  Encode(_)  \* what a caller sees of an outcome

VARIABLES
  made,     \* calls made so far; calls are numbered by it
  open,     \* the number of the call each caller is in, 0 when in none
  done,     \* calls executed, each with its outcome
  returned  \* what each caller's last call returned

rpcVars == <<made, open, done, returned>>

Init ==
  /\ made = 0
  /\ open = [c \in Callers |-> 0]
  /\ done = {}
  /\ returned = [c \in Callers |-> Nothing]

Begin(c) ==
  /\ open[c] = 0
  /\ made' = made + 1
  /\ open' = [open EXCEPT ![c] = made + 1]
  /\ UNCHANGED <<done, returned>>

Perform(n, e) ==
  /\ n \in 1..made
  /\ \A x \in done : x.n # n
  /\ done' = done \cup {[n |-> n, err |-> e]}
  /\ UNCHANGED <<made, open, returned>>

Finish(c) ==
  /\ open[c] # 0
  /\ \E x \in done :
       /\ x.n = open[c]
       /\ returned' = [returned EXCEPT ![c] =
            [n |-> open[c], from |-> "reply", err |-> Encode(x.err)]]
  /\ open' = [open EXCEPT ![c] = 0]
  /\ UNCHANGED <<made, done>>

Abandon(c) ==
  /\ open[c] # 0
  /\ returned' = [returned EXCEPT ![c] =
                    [n |-> open[c], from |-> "gave_up", err |-> Expired]]
  /\ open' = [open EXCEPT ![c] = 0]
  /\ UNCHANGED <<made, done>>

Next ==
  \/ \E c \in Callers : Begin(c) \/ Finish(c) \/ Abandon(c)
  \/ \E n \in 1..made, e \in Outcomes : Perform(n, e)

Spec == Init /\ [][Next]_rpcVars
=============================================================================
