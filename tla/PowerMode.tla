----------------------------- MODULE PowerMode -----------------------------
(***************************************************************************)
(* How a change of the foreground app or of the Wi-Fi state reaches the    *)
(* backlight and the market service.  system_state keeps the input of the  *)
(* power policy, power_policy the output computed from it, each under its  *)
(* own mutex; APP_EVENT_POWER_CHANGED is published once both are released, *)
(* and event_bus_publish() runs the subscribers in the publishing task:    *)
(* power_runtime queues a command for its own task, market_service copies  *)
(* the output and then stores the market mode under a mutex of its own.    *)
(*                                                                         *)
(* The event carries no payload: a subscriber queries what is current when *)
(* it runs.  What the market service queues after that is not modelled.    *)
(***************************************************************************)
EXTENDS Integers, FiniteSets

CONSTANTS
  UiTask,          \* the LVGL task (during boot the boot task, under its lock)
  NetTasks,        \* the tasks net_manager runs in
  FgApps,          \* apps that can be in the foreground
  Home, Trading,   \* two of them: APP_ID_HOME and APP_ID_TRADING
  Free,            \* nobody holds system_state's mutex
  RuntimeQueueLen  \* POWER_RUNTIME_QUEUE_LEN

VARIABLES
  input,      \* system_state: s_input
  sysMutex,   \* system_state: the holder of s_mutex
  polIn,      \* power_policy: s_input
  polMode,    \* power_policy: s_output.market_mode
  mode,       \* market_service: s_refresh_mode
  pc,         \* where each task is in system_state_set_*()
  changed,    \* its local of that name: publish or not
  policy,     \* the market handler's copy of the output, in that task
  cmds,       \* power_runtime: commands in s_cmd_queue
  runtime,    \* power_runtime: where its task is
  copyFresh,  \* history: no change since the task copied the output
  litFresh,   \* history: the backlight shows the current output
  raced       \* history: two runs of the market handler have overlapped

taskVars == <<pc, changed, policy>>
policyVars == <<polIn, polMode>>
runtimeVars == <<cmds, runtime>>
freshVars == <<copyFresh, litFresh>>
vars == <<input, sysMutex, policyVars, mode, taskVars, runtimeVars,
          freshVars, raced>>

Tasks == NetTasks \cup {UiTask}
Modes == {"background_cache", "realtime"}
Inputs == [fg : FgApps, wifi : BOOLEAN]

ASSUME PowerAssumption ==
  /\ UiTask \notin NetTasks
  /\ Home \in FgApps /\ Trading \in FgApps /\ Home # Trading
  /\ Free \notin Tasks
  /\ RuntimeQueueLen \in Nat \ {0}

\* compute_output(): the brightness is 100 whatever the input.
ComputeMode(in) ==
  IF in.fg = Trading THEN "realtime" ELSE "background_cache"

(***************************************************************************)
(* system_state_set_foreground_app(), system_state_set_wifi_connected()    *)
(***************************************************************************)
SetInput(t, in) ==
  /\ pc[t] = "idle"
  /\ sysMutex = Free
  /\ sysMutex' = t
  /\ input' = in
  /\ pc' = [pc EXCEPT ![t] = "recompute"]
  /\ UNCHANGED <<policyVars, mode, changed, policy, runtimeVars, freshVars, raced>>

SetForegroundApp(a) == SetInput(UiTask, [input EXCEPT !.fg = a])
SetWifiConnected(t, b) == SetInput(t, [input EXCEPT !.wifi = b])

\* What power_policy_on_input_changed() compares.
Differs == polIn # input \/ polMode # ComputeMode(input)

\* The copy and the backlight stop being current (history).
Outdate == copyFresh' = (copyFresh /\ ~ Differs) /\ litFresh' = (litFresh /\ ~ Differs)

\* Faulty variant: s_input is stored only when the output changes.
RecomputeOutputOnly(t) ==
  /\ pc[t] = "recompute"
  /\ changed' = [changed EXCEPT ![t] = polMode # ComputeMode(input)]
  /\ polIn' = IF polMode # ComputeMode(input) THEN input ELSE polIn
  /\ polMode' = ComputeMode(input)
  /\ pc' = [pc EXCEPT ![t] = "give"]
  /\ Outdate
  /\ UNCHANGED <<input, sysMutex, mode, policy, runtimeVars, raced>>

\* Faulty variant: the comparison follows the assignment.
RecomputeComparesLate(t) ==
  /\ pc[t] = "recompute"
  /\ polIn' = input
  /\ polMode' = ComputeMode(input)
  /\ changed' = [changed EXCEPT ![t] = polIn' # input]
  /\ pc' = [pc EXCEPT ![t] = "give"]
  /\ Outdate
  /\ UNCHANGED <<input, sysMutex, mode, policy, runtimeVars, raced>>

\* recompute_locked() -> power_policy_on_input_changed(): one section of
\* power_policy's mutex, inside one of system_state's.
Recompute(t) ==
  /\ pc[t] = "recompute"
  /\ changed' = [changed EXCEPT ![t] = Differs]
  /\ polIn' = input
  /\ polMode' = ComputeMode(input)
  /\ pc' = [pc EXCEPT ![t] = "give"]
  /\ Outdate
  /\ UNCHANGED <<input, sysMutex, mode, policy, runtimeVars, raced>>

\* xSemaphoreGive(); publish_power_changed() follows only after a change.
Give(t) ==
  /\ pc[t] = "give"
  /\ sysMutex' = Free
  /\ pc' = [pc EXCEPT ![t] = IF changed[t] THEN "runtime" ELSE "idle"]
  /\ UNCHANGED <<input, policyVars, mode, changed, policy, runtimeVars,
                 freshVars, raced>>

(***************************************************************************)
(* The subscribers, in the publishing task, in subscription order.         *)
(***************************************************************************)

\* Faulty variant: no command while the task is busy with one.
NotifyWhenIdle(t) ==
  /\ pc[t] = "runtime"
  /\ cmds' = IF cmds < RuntimeQueueLen /\ runtime = "idle" THEN cmds + 1 ELSE cmds
  /\ pc' = [pc EXCEPT ![t] = "read"]
  /\ UNCHANGED <<input, sysMutex, policyVars, mode, changed, policy, runtime,
                 freshVars, raced>>

NotifyUnbounded(t) ==
  /\ pc[t] = "runtime"
  /\ cmds' = cmds + 1
  /\ pc' = [pc EXCEPT ![t] = "read"]
  /\ UNCHANGED <<input, sysMutex, policyVars, mode, changed, policy, runtime,
                 freshVars, raced>>

\* power_runtime_event_handler(): xQueueSend() without waiting, and without
\* looking at its result.
NotifyRuntime(t) ==
  /\ pc[t] = "runtime"
  /\ cmds' = IF cmds < RuntimeQueueLen THEN cmds + 1 ELSE cmds
  /\ pc' = [pc EXCEPT ![t] = "read"]
  /\ UNCHANGED <<input, sysMutex, policyVars, mode, changed, policy, runtime,
                 freshVars, raced>>

\* market_service_event_handler(): power_policy_get_output() ...
ReadPolicy(t) ==
  /\ pc[t] = "read"
  /\ policy' = [policy EXCEPT ![t] = polMode]
  /\ pc' = [pc EXCEPT ![t] = "write"]
  /\ raced' = (raced \/ \E u \in Tasks : pc[u] = "write")
  /\ UNCHANGED <<input, sysMutex, policyVars, mode, changed, runtimeVars, freshVars>>

\* ... and s_refresh_mode, under s_mutex.
WriteMode(t) ==
  /\ pc[t] = "write"
  /\ mode' = policy[t]
  /\ pc' = [pc EXCEPT ![t] = "idle"]
  /\ UNCHANGED <<input, sysMutex, policyVars, changed, policy, runtimeVars,
                 freshVars, raced>>

(***************************************************************************)
(* power_runtime_task()                                                    *)
(***************************************************************************)
TakeCommand ==
  /\ runtime = "idle"
  /\ cmds > 0
  /\ cmds' = cmds - 1
  /\ runtime' = "taken"
  /\ UNCHANGED <<input, sysMutex, policyVars, mode, taskVars, freshVars, raced>>

CopyOutput ==
  /\ runtime = "taken"
  /\ runtime' = "copied"
  /\ copyFresh' = TRUE
  /\ UNCHANGED <<input, sysMutex, policyVars, mode, taskVars, cmds, litFresh, raced>>

SetBacklight ==
  /\ runtime = "copied"
  /\ runtime' = "idle"
  /\ litFresh' = copyFresh
  /\ UNCHANGED <<input, sysMutex, policyVars, mode, taskVars, cmds, copyFresh, raced>>

(***************************************************************************)
(* Specification                                                           *)
(***************************************************************************)

\* After bootstrap_start() up to net_manager_start(): power_runtime_init()
\* has queued the first command.
Init ==
  /\ input = [fg |-> Home, wifi |-> FALSE]
  /\ sysMutex = Free
  /\ polIn = input
  /\ polMode = ComputeMode(input)
  /\ mode = polMode
  /\ pc = [t \in Tasks |-> "idle"]
  /\ changed = [t \in Tasks |-> FALSE]
  /\ policy = [t \in Tasks |-> polMode]
  /\ cmds = 1
  /\ runtime = "idle"
  /\ copyFresh = FALSE
  /\ litFresh = FALSE
  /\ raced = FALSE

SetterRuns(t) ==
  \/ Recompute(t)
  \/ Give(t)
  \/ NotifyRuntime(t)
  \/ ReadPolicy(t)
  \/ WriteMode(t)

RuntimeTask == TakeCommand \/ CopyOutput \/ SetBacklight

Next ==
  \/ \E a \in FgApps : SetForegroundApp(a)
  \/ \E t \in NetTasks, b \in BOOLEAN : SetWifiConnected(t, b)
  \/ \E t \in Tasks : SetterRuns(t)
  \/ RuntimeTask

Spec == Init /\ [][Next]_vars

\* A task inside a call is scheduled until the call returns, and so is the
\* power runtime's task; whether anything changes again is left open.
Fairness ==
  /\ \A t \in Tasks : WF_vars(SetterRuns(t))
  /\ WF_vars(RuntimeTask)

FairSpec == Spec /\ Fairness

(***************************************************************************)
(* Properties                                                              *)
(***************************************************************************)
Quiet == \A t \in Tasks : pc[t] = "idle"

\* Every variable keeps its type, and the command queue its bound.
TypeOK ==
  /\ input \in Inputs
  /\ sysMutex \in Tasks \cup {Free}
  /\ polIn \in Inputs
  /\ polMode \in Modes
  /\ mode \in Modes
  /\ pc \in [Tasks -> {"idle", "recompute", "give", "runtime", "read", "write"}]
  /\ changed \in [Tasks -> BOOLEAN]
  /\ policy \in [Tasks -> Modes]
  /\ cmds \in 0..RuntimeQueueLen
  /\ runtime \in {"idle", "taken", "copied"}
  /\ copyFresh \in BOOLEAN
  /\ litFresh \in BOOLEAN
  /\ raced \in BOOLEAN

\* When nobody is inside system_state_set_*(), the policy was computed from
\* the input system_state holds: two setters never leave the older input, or
\* an output of another input, behind in power_policy.
PolicyAgrees ==
  sysMutex = Free => polIn = input /\ polMode = ComputeMode(input)

\* Once everything is delivered the market service runs in the mode the
\* policy asks for, unless two runs of its handler overlapped between the
\* copy of the output and the store of the mode.
ModeAgreesUnlessRaced == Quiet /\ ~ raced => mode = polMode

\* Some task has announced a change to the backlight, or is about to.
Announced == \E t \in Tasks : pc[t] = "runtime" \/ (pc[t] = "give" /\ changed[t])

\* While the backlight does not show the current output somebody is going to
\* put it there: a command is queued or just taken, the current output is
\* copied, or its change is still to be announced.  A command dropped at a full
\* queue, and one that finds an old copy in use, lose nothing.
BacklightOwed ==
  ~ litFresh =>
    \/ Announced
    \/ cmds > 0
    \/ runtime = "taken"
    \/ runtime = "copied" /\ copyFresh

\* When the inputs stop changing the backlight ends up showing the current
\* output for good: neither a command dropped at a full queue nor a change
\* between the copy and the write leaves an old one on.
BacklightSettles == <>[]Quiet => <>[]litFresh
=============================================================================
