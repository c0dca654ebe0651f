----------------------------- MODULE UiControl -----------------------------
(***************************************************************************)
(* The control channel of core_app_manager: tasks other than the LVGL task *)
(* ask it to switch the foreground app, to drive the screensaver or to     *)
(* take a screenshot.  request_ui_control() puts a request on a bounded    *)
(* FreeRTOS queue and then waits, for a limited time, for a direct-to-task *)
(* notification that carries the request's 16-bit id; post_ui_control()    *)
(* only queues.  app_manager_process_ui_events() takes the requests out.   *)
(*                                                                         *)
(* What a request does to the screen is not the subject here: Execute(e)   *)
(* leaves the result open, and AppManager says which result it is.         *)
(***************************************************************************)
EXTENDS Integers, Sequences, FiniteSets

CONSTANTS
  Requesters,   \* tasks that call app_manager_request_*()
  Ops,          \* what a request can ask for
  Results,      \* the esp_err_t values executing a request can produce
  CtlQueueLen,  \* UI_CONTROL_QUEUE_LEN
  MaxId,        \* the largest value of the request counter (UINT16_MAX)
  MaxCalls,     \* bound: requests made in one behaviour
  NoTask,       \* the NULL waiter_task of a posted request
  NoRequest,    \* the LVGL task is between two requests
  NoNote,       \* no notification is pending
  NoResult,     \* the task has not called yet
  Running       \* execute_ui_control() has not returned

VARIABLES
  seq,     \* s_ui_control_request_seq
  ctl,     \* s_ui_control_queue
  cur,     \* the LVGL task's control_request
  curErr,  \* its result once execute_ui_control() has returned
  pc,      \* where each requester is in request_ui_control()
  mine,    \* each requester's queued_request
  notify,  \* each requester's notification value
  result,  \* what request_ui_control() last returned to it
  calls,   \* history: ids drawn so far, the number n of the latest request
  ran      \* history: the requests executed, each with its result

ctlVars == <<seq, ctl, cur, curErr, pc, mine, notify, result, calls, ran>>

(***************************************************************************)
(* Values                                                                  *)
(***************************************************************************)
Tasks == Requesters \cup {NoTask}
Ok == 0
Timeout == 263                     \* ESP_ERR_TIMEOUT, 0x107

\* pack_ui_control_result / unpack_ui_control_result: 16 bits of the result.
Truncate(err) == err % 65536
Codes == 0..65535

\* A queued request; n numbers it, for the properties only (0: posted).
Request == [n : Nat, id : 0..MaxId, waiter : Tasks, op : Ops]
Note == [n : Nat, id : 0..MaxId, err : Codes]
Returned == [n : Nat, from : {"reply", "gave_up"}, err : Codes]

CtlConstants ==
  /\ CtlQueueLen \in Nat \ {0}
  /\ MaxId \in Nat \ {0, 1}
  /\ MaxCalls \in Nat
  /\ Results \subseteq Int
  /\ NoTask \notin Requesters
  /\ Running \notin Results
  /\ NoRequest \notin Request
  /\ NoNote \notin Note
  /\ NoResult \notin Returned

ASSUME CtlAssumption == CtlConstants

(***************************************************************************)
(* next_ui_control_request_id(): a 16-bit counter that skips 0.            *)
(***************************************************************************)
NextId == IF seq = MaxId THEN 1 ELSE seq + 1

\* Requests whose answer could still meet a waiting requester other than t.
Outstanding(t) ==
  {ctl[i].n : i \in {j \in 1..Len(ctl) : ctl[j].waiter # NoTask}}
    \cup (IF cur # NoRequest /\ cur.waiter # NoTask THEN {cur.n} ELSE {})
    \cup {mine[u].n : u \in {v \in Requesters \ {t} : pc[v] # "idle"}}
    \cup {notify[u].n : u \in {v \in Requesters \ {t} :
                                 pc[v] # "idle" /\ notify[v] # NoNote}}

\* Bound: fewer than MaxId ids are drawn while one request is outstanding.
\* In the firmware that is 65535 ids, each costing its caller at least one
\* queue or notification wait of 2 s or more: over 36 hours.
IdWindow(t) == \A n \in Outstanding(t) : calls + 1 - n < MaxId

(***************************************************************************)
(* The requester: request_ui_control()                                     *)
(***************************************************************************)

\* Draw an id and clear a notification an earlier, abandoned call left.
CallKeepsNote(t, op) ==
  /\ pc[t] = "idle"
  /\ calls < MaxCalls
  /\ IdWindow(t)
  /\ seq' = NextId
  /\ calls' = calls + 1
  /\ mine' = [mine EXCEPT ![t] =
                [n |-> calls + 1, id |-> NextId, waiter |-> t, op |-> op]]
  /\ pc' = [pc EXCEPT ![t] = "sending"]
  /\ UNCHANGED <<ctl, cur, curErr, notify, result, ran>>

Call(t, op) ==
  /\ pc[t] = "idle"
  /\ calls < MaxCalls
  /\ IdWindow(t)
  /\ seq' = NextId
  /\ calls' = calls + 1
  /\ mine' = [mine EXCEPT ![t] =
                [n |-> calls + 1, id |-> NextId, waiter |-> t, op |-> op]]
  /\ notify' = [notify EXCEPT ![t] = NoNote]
  /\ pc' = [pc EXCEPT ![t] = "sending"]
  /\ UNCHANGED <<ctl, cur, curErr, result, ran>>

\* xQueueSend() finds room.
SendOverfull(t) ==
  /\ pc[t] = "sending"
  /\ Len(ctl) <= CtlQueueLen
  /\ ctl' = Append(ctl, mine[t])
  /\ pc' = [pc EXCEPT ![t] = "waiting"]
  /\ UNCHANGED <<seq, cur, curErr, mine, notify, result, calls, ran>>

Send(t) ==
  /\ pc[t] = "sending"
  /\ Len(ctl) < CtlQueueLen
  /\ ctl' = Append(ctl, mine[t])
  /\ pc' = [pc EXCEPT ![t] = "waiting"]
  /\ UNCHANGED <<seq, cur, curErr, mine, notify, result, calls, ran>>

GiveUp(t) ==
  /\ pc' = [pc EXCEPT ![t] = "idle"]
  /\ result' = [result EXCEPT ![t] =
                  [n |-> mine[t].n, from |-> "gave_up", err |-> Timeout]]

\* xQueueSend() timed out on a full queue.
SendTimeout(t) ==
  /\ pc[t] = "sending"
  /\ Len(ctl) = CtlQueueLen
  /\ GiveUp(t)
  /\ UNCHANGED <<seq, ctl, cur, curErr, mine, notify, calls, ran>>

\* The notification bears this call's id: its result is the call's result.
AcceptAny(t) ==
  /\ pc[t] = "waiting"
  /\ notify[t] # NoNote
  /\ result' = [result EXCEPT ![t] =
                  [n |-> mine[t].n, from |-> "reply", err |-> notify[t].err]]
  /\ notify' = [notify EXCEPT ![t] = NoNote]
  /\ pc' = [pc EXCEPT ![t] = "idle"]
  /\ UNCHANGED <<seq, ctl, cur, curErr, mine, calls, ran>>

Accept(t) ==
  /\ pc[t] = "waiting"
  /\ notify[t] # NoNote
  /\ notify[t].id = mine[t].id
  /\ result' = [result EXCEPT ![t] =
                  [n |-> mine[t].n, from |-> "reply", err |-> notify[t].err]]
  /\ notify' = [notify EXCEPT ![t] = NoNote]
  /\ pc' = [pc EXCEPT ![t] = "idle"]
  /\ UNCHANGED <<seq, ctl, cur, curErr, mine, calls, ran>>

\* A notification for an abandoned call: consumed; wait for what is left.
DiscardStale(t) ==
  /\ pc[t] = "waiting"
  /\ notify[t] # NoNote
  /\ notify[t].id # mine[t].id
  /\ notify' = [notify EXCEPT ![t] = NoNote]
  /\ UNCHANGED <<seq, ctl, cur, curErr, pc, mine, result, calls, ran>>

\* ... or the stale notification came as the time ran out.
GiveUpAfterStale(t) ==
  /\ pc[t] = "waiting"
  /\ notify[t] # NoNote
  /\ notify[t].id # mine[t].id
  /\ notify' = [notify EXCEPT ![t] = NoNote]
  /\ GiveUp(t)
  /\ UNCHANGED <<seq, ctl, cur, curErr, mine, calls, ran>>

\* xTaskNotifyWaitIndexed() timed out; the request stays where it is.
WaitTimeout(t) ==
  /\ pc[t] = "waiting"
  /\ notify[t] = NoNote
  /\ GiveUp(t)
  /\ UNCHANGED <<seq, ctl, cur, curErr, mine, notify, calls, ran>>

(***************************************************************************)
(* post_ui_control(): no waiter and no id; refused when the queue is full. *)
(***************************************************************************)
Post(op) ==
  /\ Len(ctl) < CtlQueueLen
  /\ ctl' = Append(ctl, [n |-> 0, id |-> 0, waiter |-> NoTask, op |-> op])
  /\ UNCHANGED <<seq, cur, curErr, pc, mine, notify, result, calls, ran>>

(***************************************************************************)
(* The LVGL task: the control loop of app_manager_process_ui_events().     *)
(***************************************************************************)
TakeKeeping ==
  /\ cur = NoRequest
  /\ ctl # <<>>
  /\ cur' = Head(ctl)
  /\ UNCHANGED <<seq, ctl, curErr, pc, mine, notify, result, calls, ran>>

Take ==
  /\ cur = NoRequest
  /\ ctl # <<>>
  /\ cur' = Head(ctl)
  /\ ctl' = Tail(ctl)
  /\ UNCHANGED <<seq, curErr, pc, mine, notify, result, calls, ran>>

\* execute_ui_control() returns err.
Execute(err) ==
  /\ cur # NoRequest
  /\ curErr = Running
  /\ curErr' = err
  /\ ran' = IF cur.waiter = NoTask THEN ran
            ELSE ran \cup {[n |-> cur.n, err |-> err]}
  /\ UNCHANGED <<seq, ctl, cur, pc, mine, notify, result, calls>>

\* xTaskNotifyIndexed(eSetValueWithOverwrite), when somebody waits.
ReplyUnlessPending ==
  /\ cur # NoRequest
  /\ curErr # Running
  /\ notify' = IF cur.waiter = NoTask THEN notify
               ELSE IF notify[cur.waiter] # NoNote THEN notify
               ELSE [notify EXCEPT ![cur.waiter] =
                       [n |-> cur.n, id |-> cur.id, err |-> Truncate(curErr)]]
  /\ cur' = NoRequest
  /\ curErr' = Running
  /\ UNCHANGED <<seq, ctl, pc, mine, result, calls, ran>>

ReplyOnlyOk ==
  /\ cur # NoRequest
  /\ curErr # Running
  /\ notify' = IF cur.waiter = NoTask \/ curErr # Ok THEN notify
               ELSE [notify EXCEPT ![cur.waiter] =
                       [n |-> cur.n, id |-> cur.id, err |-> Truncate(curErr)]]
  /\ cur' = NoRequest
  /\ curErr' = Running
  /\ UNCHANGED <<seq, ctl, pc, mine, result, calls, ran>>

Reply ==
  /\ cur # NoRequest
  /\ curErr # Running
  /\ notify' = IF cur.waiter = NoTask THEN notify
               ELSE [notify EXCEPT ![cur.waiter] =
                       [n |-> cur.n, id |-> cur.id, err |-> Truncate(curErr)]]
  /\ cur' = NoRequest
  /\ curErr' = Running
  /\ UNCHANGED <<seq, ctl, pc, mine, result, calls, ran>>

(***************************************************************************)
(* Specification                                                           *)
(***************************************************************************)
Init ==
  /\ seq = 0
  /\ ctl = <<>>
  /\ cur = NoRequest
  /\ curErr = Running
  /\ pc = [t \in Requesters |-> "idle"]
  /\ mine = [t \in Requesters |-> NoRequest]
  /\ notify = [t \in Requesters |-> NoNote]
  /\ result = [t \in Requesters |-> NoResult]
  /\ calls = 0
  /\ ran = {}

Requester(t) ==
  \/ \E op \in Ops : Call(t, op)
  \/ Send(t)
  \/ SendTimeout(t)
  \/ Accept(t)
  \/ DiscardStale(t)
  \/ GiveUpAfterStale(t)
  \/ WaitTimeout(t)

Lvgl ==
  \/ Take
  \/ \E err \in Results : Execute(err)
  \/ Reply

Next ==
  \/ \E t \in Requesters : Requester(t)
  \/ \E op \in Ops : Post(op)
  \/ Lvgl

Spec == Init /\ [][Next]_ctlVars

\* The LVGL task keeps running, and a task blocked in a queue send or in a
\* notification wait is woken when it can proceed.  Nothing is assumed of
\* the timeouts: a caller may be as patient as it likes.
Fairness ==
  /\ WF_ctlVars(Lvgl)
  /\ \A t \in Requesters : WF_ctlVars(Send(t) \/ Accept(t) \/ DiscardStale(t))

FairSpec == Spec /\ Fairness

(***************************************************************************)
(* Properties                                                              *)
(***************************************************************************)

\* Every variable of the channel keeps its type and the queue its bound.
TypeOK ==
  /\ seq \in 0..MaxId
  /\ ctl \in Seq(Request)
  /\ Len(ctl) <= CtlQueueLen
  /\ cur \in Request \cup {NoRequest}
  /\ curErr \in Results \cup {Running}
  /\ pc \in [Requesters -> {"idle", "sending", "waiting"}]
  /\ mine \in [Requesters -> Request \cup {NoRequest}]
  /\ \A t \in Requesters : pc[t] # "idle" => mine[t] # NoRequest
  /\ notify \in [Requesters -> Note \cup {NoNote}]
  /\ result \in [Requesters -> Returned \cup {NoResult}]
  /\ calls \in Nat
  /\ ran \subseteq [n : Nat, err : Results]

\* A call that returns a reply returns the result of its own request, never
\* that of an earlier request it gave up on, although both answers arrive
\* through the same notification value and ids are reused.
ReplyIsOwn ==
  \A t \in Requesters :
    (result[t] # NoResult /\ result[t].from = "reply") =>
      \E x \in ran : x.n = result[t].n /\ Truncate(x.err) = result[t].err

\* While a call waits, its answer is still to come or is pending: no late
\* answer to an abandoned call overwrites it in the notification value.
ReplyNotLost ==
  \A t \in Requesters :
    pc[t] = "waiting" =>
      \/ \E i \in 1..Len(ctl) : ctl[i] = mine[t]
      \/ cur = mine[t]
      \/ notify[t] # NoNote /\ notify[t].n = mine[t].n

\* A call that is waiting returns, however patient it is: no wake-up is
\* lost between the queue, the execution and the notification.
WaitingReturns ==
  \A t \in Requesters : pc[t] = "waiting" ~> pc[t] = "idle"

Rpc == INSTANCE UiRpc WITH
  Callers <- Requesters, Outcomes <- Results, Nothing <- NoResult,
  Expired <- Timeout, Encode <- Truncate,
  made <- calls, done <- ran, returned <- result,
  open <- [t \in Requesters |-> IF pc[t] = "idle" THEN 0 ELSE mine[t].n]

\* The channel is an at-most-once remote call: no request is executed twice
\* or invented, and a caller is answered for the call it is in.
ImplementsRpc == Rpc!Spec
=============================================================================
