---------------------------- MODULE AppManager ----------------------------
(***************************************************************************)
(* core_app_manager: which app is in the foreground.  The LVGL task serves *)
(* the control queue (module UiControl, instantiated here) and the UI      *)
(* event queue under the LVGL lock, and turns swipes into switches.  The   *)
(* boot task registers the apps while the LVGL task and the device link    *)
(* reader already run, and makes the first switch itself, under the lock.  *)
(* switch_to_locked() is cut where another task can see or touch what it   *)
(* leaves: after suspend(), after the new foreground is published, and     *)
(* after the roots have been swapped.                                      *)
(***************************************************************************)
EXTENDS Integers, Sequences, FiniteSets

CONSTANTS
  Requesters, CtlQueueLen, MaxId, MaxCalls, NoTask, NoRequest, NoNote,
  NoResult, Running,  \* as in UiControl
  EvQueueLen,         \* UI_EVENT_QUEUE_LEN
  MaxInputs,          \* bound: swipes and taps in one behaviour
  NoApp,              \* APP_ID_INVALID
  NoSwitch            \* the task is not in switch_to_locked()

VARIABLES
  seq, ctl, cur, curErr, pc, mine, notify, result, calls, ran, \* UiControl
  registered,  \* slots in_use, by app id
  inited,      \* apps whose init() has returned
  created,     \* slots with root_created
  live,        \* apps whose runtime holds the view it created
  shown,       \* roots without LV_OBJ_FLAG_HIDDEN
  resumed,     \* apps resumed and not suspended since
  fg,          \* s_foreground_app
  sysFg,       \* system_state's s_input.foreground_app
  lock,        \* holder of the LVGL mutex
  sw,          \* each task's progress in switch_to_locked()
  phase,       \* where the LVGL task is in its loop
  evq,         \* s_ui_event_queue
  boot,        \* where the boot task is in bootstrap_start()
  sent,        \* history: the last event dispatched to an app
  inputs       \* history: swipes and taps so far

ctlVars == <<seq, ctl, cur, curErr, pc, mine, notify, result, calls, ran>>
slotVars == <<registered, inited, created, live, shown, resumed>>
fgVars == <<fg, sysFg, sw>>
loopVars == <<lock, phase, evq, boot, sent, inputs>>
vars == <<ctlVars, slotVars, fgVars, loopVars>>

(***************************************************************************)
(* Values                                                                  *)
(***************************************************************************)
Apps == {"home", "trading", "settings"}
AppTasks == {"lvgl", "boot"}
Free == "free"

Switch(a) == [kind |-> "switch", app |-> a]
Saver == [kind |-> "saver", app |-> "home"]
Screenshot == [kind |-> "screenshot", app |-> NoApp]
Ops == {Switch(a) : a \in Apps} \cup {Saver, Screenshot}

Ok == 0
Fail == -1
InvalidState == 259    \* ESP_ERR_INVALID_STATE
NotFound == 261        \* ESP_ERR_NOT_FOUND
Results == {Ok, Fail, InvalidState, NotFound}

Ctl == INSTANCE UiControl

\* An app event as far as process_ui_events() tells events apart.
Events == {"left_swipe", "right_swipe", "other"}
AtSteps == {"foreground", "show", "resume"}
Progress == [to : Apps, from : Apps \cup {NoApp}, at : AtSteps]

BootOrder == <<"home", "trading", "settings">>
BootSteps ==
  [step : {"slot", "init"}, i : 1..Len(BootOrder)]
    \cup [step : {"lock", "locked", "up", "failed"}, i : {0}]

ASSUME AppAssumption ==
  /\ Ctl!CtlConstants
  /\ EvQueueLen \in Nat
  /\ MaxInputs \in Nat
  /\ NoApp \notin Apps
  /\ NoSwitch \notin Progress

\* swipe_target_for_touch(): a left swipe from the right edge goes one app
\* on in app_order, a right swipe from the left edge one back.
SwipeTarget(a, e) ==
  CASE a = "home" /\ e = "left_swipe" -> "trading"
    [] a = "trading" /\ e = "right_swipe" -> "home"
    [] OTHER -> NoApp

EnqueueAlways(q, e) == Append(q, e)

\* app_manager_on_event(): an event that finds the queue full is dropped.
Enqueue(q, e) == IF Len(q) < EvQueueLen THEN Append(q, e) ELSE q

\* system_state_set_foreground_app() publishes when the input changed.
Publish(q, a) == IF sysFg = a THEN q ELSE Enqueue(q, "other")

(***************************************************************************)
(* switch_to_locked(), for task k and a registered app other than fg.      *)
(***************************************************************************)
BeginSwitch(k, a) ==
  /\ a \in registered
  /\ a # fg
  /\ resumed' = resumed \ {fg}
  /\ sw' = [sw EXCEPT ![k] = [to |-> a, from |-> fg, at |-> "foreground"]]
  /\ UNCHANGED <<registered, inited, created, live, shown, fg, sysFg>>

SetForegroundForgetsState(k) ==
  /\ sw[k] # NoSwitch
  /\ sw[k].at = "foreground"
  /\ fg' = sw[k].to
  /\ sw' = [sw EXCEPT ![k].at = "show"]
  /\ UNCHANGED <<ctlVars, slotVars, sysFg, lock, phase, evq, boot, sent, inputs>>

SetForeground(k) ==
  /\ sw[k] # NoSwitch
  /\ sw[k].at = "foreground"
  /\ fg' = sw[k].to
  /\ sysFg' = sw[k].to
  /\ evq' = Publish(evq, sw[k].to)
  /\ sw' = [sw EXCEPT ![k].at = "show"]
  /\ UNCHANGED <<ctlVars, slotVars, lock, phase, boot, sent, inputs>>

ShowWithoutHide(k) ==
  /\ sw[k] # NoSwitch
  /\ sw[k].at = "show"
  /\ shown' = shown \cup {sw[k].to}
  /\ created' = created \cup {sw[k].to}
  /\ live' = IF sw[k].to \in created THEN live ELSE live \cup {sw[k].to}
  /\ sw' = [sw EXCEPT ![k].at = "resume"]
  /\ UNCHANGED <<ctlVars, registered, inited, resumed, fg, sysFg, loopVars>>

\* Hide the old root, create the new one if need be, show it.
Show(k) ==
  /\ sw[k] # NoSwitch
  /\ sw[k].at = "show"
  /\ shown' = (shown \ {sw[k].from}) \cup {sw[k].to}
  /\ created' = created \cup {sw[k].to}
  /\ live' = IF sw[k].to \in created THEN live ELSE live \cup {sw[k].to}
  /\ sw' = [sw EXCEPT ![k].at = "resume"]
  /\ UNCHANGED <<ctlVars, registered, inited, resumed, fg, sysFg, loopVars>>

\* resume(), APP_EVENT_ENTER to the new app, APP_EVENT_LEAVE to the old one.
EndSwitch(k) ==
  /\ sw[k] # NoSwitch
  /\ sw[k].at = "resume"
  /\ resumed' = resumed \cup {sw[k].to}
  /\ sw' = [sw EXCEPT ![k] = NoSwitch]
  /\ UNCHANGED <<registered, inited, created, live, shown, fg, sysFg>>

KeepBySystemState(a) ==
  /\ a \in registered
  /\ a = sysFg
  /\ sysFg' = a
  /\ evq' = Publish(evq, a)
  /\ UNCHANGED <<slotVars, fg, sw>>

\* The target is in the foreground already: only system_state is told.
KeepForeground(a) ==
  /\ a \in registered
  /\ a = fg
  /\ sysFg' = a
  /\ evq' = Publish(evq, a)
  /\ UNCHANGED <<slotVars, fg, sw>>

(***************************************************************************)
(* The LVGL task: lock, control queue, event queue, lv_timer_handler().    *)
(***************************************************************************)
LvglLock ==
  /\ phase = "out"
  /\ lock = Free
  /\ lock' = "lvgl"
  /\ phase' = "control"
  /\ UNCHANGED <<ctlVars, slotVars, fgVars, evq, boot, sent, inputs>>

TakeControl ==
  /\ phase = "control"
  /\ Ctl!Take
  /\ UNCHANGED <<slotVars, fgVars, loopVars>>

Executing == phase = "control" /\ cur # NoRequest /\ curErr = Running

\* UI_CONTROL_SWITCH_TO, and the first half of UI_CONTROL_HOME_SCREENSAVER.
ControlNotFound ==
  /\ Executing
  /\ cur.op.kind \in {"switch", "saver"}
  /\ cur.op.app \notin registered
  /\ Ctl!Execute(NotFound)
  /\ UNCHANGED <<slotVars, fgVars, loopVars>>

ControlBegins ==
  /\ Executing
  /\ sw["lvgl"] = NoSwitch
  /\ cur.op.kind \in {"switch", "saver"}
  /\ BeginSwitch("lvgl", cur.op.app)
  /\ UNCHANGED <<ctlVars, loopVars>>

\* handle_control() of Home refuses when its runtime lost the view.
OutcomeOf(op) ==
  IF op.kind = "saver" /\ op.app \notin live THEN InvalidState ELSE Ok

ControlKeeps ==
  /\ Executing
  /\ sw["lvgl"] = NoSwitch
  /\ cur.op.kind \in {"switch", "saver"}
  /\ KeepForeground(cur.op.app)
  /\ Ctl!Execute(OutcomeOf(cur.op))
  /\ UNCHANGED <<lock, phase, boot, sent, inputs>>

EnterBeforeResume ==
  /\ Executing
  /\ EndSwitch("lvgl")
  /\ Ctl!Execute(OutcomeOf(cur.op))
  /\ sent' = [app |-> cur.op.app, resumed |-> resumed]
  /\ UNCHANGED <<lock, phase, evq, boot, inputs>>

ControlEnds ==
  /\ Executing
  /\ EndSwitch("lvgl")
  /\ Ctl!Execute(OutcomeOf(cur.op))
  /\ sent' = [app |-> cur.op.app, resumed |-> resumed']
  /\ UNCHANGED <<lock, phase, evq, boot, inputs>>

\* UI_CONTROL_SCREENSHOT: needs a foreground app, and of Home its view.  The
\* screen can be missing, and the capture can fail: Fail stands for the codes
\* that nothing tells apart (ESP_FAIL, ESP_ERR_NO_MEM, ESP_ERR_INVALID_ARG).
ViewLost == fg = "home" /\ fg \notin live
ControlScreenshot(err) ==
  /\ Executing
  /\ cur.op.kind = "screenshot"
  /\ fg \notin registered => err = NotFound
  /\ fg \in registered /\ ViewLost => err = InvalidState
  /\ fg \in registered => err # NotFound
  /\ Ctl!Execute(err)
  /\ UNCHANGED <<slotVars, fgVars, loopVars>>

ReplyControl ==
  /\ phase = "control"
  /\ Ctl!Reply
  /\ UNCHANGED <<slotVars, fgVars, loopVars>>

ControlDone ==
  /\ phase = "control"
  /\ cur = NoRequest
  /\ ctl = <<>>
  /\ phase' = "events"
  /\ UNCHANGED <<ctlVars, slotVars, fgVars, lock, evq, boot, sent, inputs>>

TakingEvent == phase = "events" /\ sw["lvgl"] = NoSwitch /\ evq # <<>>

\* Nobody is in the foreground yet: the event is consumed.
DiscardEvent ==
  /\ TakingEvent
  /\ fg \notin registered
  /\ evq' = Tail(evq)
  /\ UNCHANGED <<ctlVars, slotVars, fgVars, lock, phase, boot, sent, inputs>>

DispatchPeeks ==
  /\ TakingEvent
  /\ fg \in registered
  /\ SwipeTarget(fg, Head(evq)) = NoApp
  /\ sent' = [app |-> fg, resumed |-> resumed]
  /\ UNCHANGED <<ctlVars, slotVars, fgVars, lock, phase, evq, boot, inputs>>

DispatchEvent ==
  /\ TakingEvent
  /\ fg \in registered
  /\ SwipeTarget(fg, Head(evq)) = NoApp
  /\ evq' = Tail(evq)
  /\ sent' = [app |-> fg, resumed |-> resumed]
  /\ UNCHANGED <<ctlVars, slotVars, fgVars, lock, phase, boot, inputs>>

GestureBegins ==
  /\ TakingEvent
  /\ fg \in registered
  /\ SwipeTarget(fg, Head(evq)) # NoApp
  /\ BeginSwitch("lvgl", SwipeTarget(fg, Head(evq)))
  /\ evq' = Tail(evq)
  /\ UNCHANGED <<ctlVars, lock, phase, boot, sent, inputs>>

\* The target of the swipe is not registered yet: logged, and consumed.
GestureFails ==
  /\ TakingEvent
  /\ fg \in registered
  /\ SwipeTarget(fg, Head(evq)) \notin registered \cup {NoApp}
  /\ evq' = Tail(evq)
  /\ UNCHANGED <<ctlVars, slotVars, fgVars, lock, phase, boot, sent, inputs>>

GestureEnds ==
  /\ phase = "events"
  /\ EndSwitch("lvgl")
  /\ sent' = [app |-> sw["lvgl"].to, resumed |-> resumed']
  /\ UNCHANGED <<ctlVars, lock, phase, evq, boot, inputs>>

EventsDone ==
  /\ phase = "events"
  /\ sw["lvgl"] = NoSwitch
  /\ evq = <<>>
  /\ phase' = "handler"
  /\ UNCHANGED <<ctlVars, slotVars, fgVars, lock, evq, boot, sent, inputs>>

\* lv_timer_handler(): the settings button of Home, the home button of
\* Settings, an edge swipe on the touch screen.
Tap ==
  /\ phase = "handler"
  /\ inputs < MaxInputs
  /\ \/ "home" \in shown /\ Ctl!Post(Switch("settings"))
     \/ "settings" \in shown /\ Ctl!Post(Switch("home"))
  /\ inputs' = inputs + 1
  /\ UNCHANGED <<slotVars, fgVars, lock, phase, evq, boot, sent>>

Swipe(e) ==
  /\ phase = "handler"
  /\ inputs < MaxInputs
  /\ evq' = Enqueue(evq, e)
  /\ inputs' = inputs + 1
  /\ UNCHANGED <<ctlVars, slotVars, fgVars, lock, phase, boot, sent>>

LvglKeepsLock ==
  /\ phase = "handler"
  /\ phase' = "out"
  /\ UNCHANGED <<ctlVars, slotVars, fgVars, lock, evq, boot, sent, inputs>>

LvglUnlock ==
  /\ phase = "handler"
  /\ lock' = Free
  /\ phase' = "out"
  /\ UNCHANGED <<ctlVars, slotVars, fgVars, evq, boot, sent, inputs>>

(***************************************************************************)
(* The boot task: register_apps(), then app_manager_switch_to(HOME).       *)
(* app_manager_register() marks the slot in use before it calls init().    *)
(***************************************************************************)
BootApp == BootOrder[boot.i]

RegisterSlot ==
  /\ boot.step = "slot"
  /\ registered' = registered \cup {BootApp}
  /\ boot' = [step |-> "init", i |-> boot.i]
  /\ UNCHANGED <<ctlVars, inited, created, live, shown, resumed, fgVars,
                 lock, phase, evq, sent, inputs>>

\* home_runtime_init() and trading_runtime_init() clear the runtime, the view
\* included; app_settings_init() does nothing.
RegisterInit ==
  /\ boot.step = "init"
  /\ inited' = inited \cup {BootApp}
  /\ live' = IF BootApp = "settings" THEN live ELSE live \ {BootApp}
  /\ boot' = IF boot.i < Len(BootOrder) THEN [step |-> "slot", i |-> boot.i + 1]
             ELSE [step |-> "lock", i |-> 0]
  /\ UNCHANGED <<ctlVars, registered, created, shown, resumed, fgVars,
                 lock, phase, evq, sent, inputs>>

BootLockIgnored ==
  /\ boot.step = "lock"
  /\ lock' = "boot"
  /\ boot' = [step |-> "locked", i |-> 0]
  /\ UNCHANGED <<ctlVars, slotVars, fgVars, phase, evq, sent, inputs>>

BootLock ==
  /\ boot.step = "lock"
  /\ lock = Free
  /\ lock' = "boot"
  /\ boot' = [step |-> "locked", i |-> 0]
  /\ UNCHANGED <<ctlVars, slotVars, fgVars, phase, evq, sent, inputs>>

\* bsp_board_lock(2000) gives up, and bootstrap_start() fails.
BootLockTimeout ==
  /\ boot.step = "lock"
  /\ lock # Free
  /\ boot' = [step |-> "failed", i |-> 0]
  /\ UNCHANGED <<ctlVars, slotVars, fgVars, lock, phase, evq, sent, inputs>>

BootBegins ==
  /\ boot.step = "locked"
  /\ sw["boot"] = NoSwitch
  /\ BeginSwitch("boot", "home")
  /\ UNCHANGED <<ctlVars, loopVars>>

BootUnlocks == lock' = Free /\ boot' = [step |-> "up", i |-> 0]

BootKeeps ==
  /\ boot.step = "locked"
  /\ sw["boot"] = NoSwitch
  /\ KeepForeground("home")
  /\ BootUnlocks
  /\ UNCHANGED <<ctlVars, phase, sent, inputs>>

BootEnds ==
  /\ EndSwitch("boot")
  /\ sent' = [app |-> "home", resumed |-> resumed']
  /\ BootUnlocks
  /\ UNCHANGED <<ctlVars, phase, evq, inputs>>

(***************************************************************************)
(* The other tasks: event publishers, and the device link reader.          *)
(***************************************************************************)
PublishEvent ==
  /\ evq' = Enqueue(evq, "other")
  /\ UNCHANGED <<ctlVars, slotVars, fgVars, lock, phase, boot, sent, inputs>>

Request(t) ==
  /\ Ctl!Requester(t)
  /\ UNCHANGED <<slotVars, fgVars, loopVars>>

(***************************************************************************)
(* Specification                                                           *)
(***************************************************************************)
Init ==
  /\ Ctl!Init
  /\ registered = {} /\ inited = {} /\ created = {} /\ live = {}
  /\ shown = {} /\ resumed = {}
  /\ fg = NoApp
  /\ sysFg = "home"
  /\ lock = Free
  /\ sw = [k \in AppTasks |-> NoSwitch]
  /\ phase = "out"
  /\ evq = <<>>
  /\ boot = [step |-> "slot", i |-> 1]
  /\ sent = [app |-> NoApp, resumed |-> {}]
  /\ inputs = 0

LvglTask ==
  \/ LvglLock \/ LvglUnlock
  \/ TakeControl \/ ReplyControl \/ ControlDone
  \/ ControlNotFound \/ ControlBegins \/ ControlKeeps \/ ControlEnds
  \/ \E err \in Results : ControlScreenshot(err)
  \/ DiscardEvent \/ DispatchEvent \/ EventsDone
  \/ GestureBegins \/ GestureFails \/ GestureEnds
  \/ SetForeground("lvgl") \/ Show("lvgl")

BootTask ==
  \/ RegisterSlot \/ RegisterInit
  \/ BootLock \/ BootBegins \/ BootKeeps \/ BootEnds
  \/ SetForeground("boot") \/ Show("boot")

Inputs == Tap \/ PublishEvent \/ \E e \in {"left_swipe", "right_swipe"} : Swipe(e)

Next ==
  \/ LvglTask
  \/ BootTask
  \/ BootLockTimeout
  \/ Inputs
  \/ \E t \in Requesters : Request(t)

Spec == Init /\ [][Next]_vars

\* Both tasks keep running, and a blocked requester is woken when it can go
\* on.  The boot task waits for a lock the LVGL task keeps taking: it gets it
\* (or times out) because the LVGL task sleeps in vTaskDelay() after each
\* unlock, hence strong fairness for that step alone.
Fairness ==
  /\ WF_vars(LvglTask)
  /\ WF_vars(BootTask)
  /\ SF_vars(BootLock)
  /\ \A t \in Requesters :
       WF_vars((Ctl!Send(t) \/ Ctl!Accept(t) \/ Ctl!DiscardStale(t))
                 /\ UNCHANGED <<slotVars, fgVars, loopVars>>)

FairSpec == Spec /\ Fairness

(***************************************************************************)
(* Properties                                                              *)
(***************************************************************************)
Switching == \E k \in AppTasks : sw[k] # NoSwitch

\* Every variable keeps its type, and the event queue its bound.
TypeOK ==
  /\ Ctl!TypeOK
  /\ registered \subseteq Apps /\ inited \subseteq registered
  /\ created \subseteq registered /\ live \subseteq created
  /\ shown \subseteq created /\ resumed \subseteq created
  /\ fg \in Apps \cup {NoApp} /\ sysFg \in Apps
  /\ lock \in AppTasks \cup {Free}
  /\ sw \in [AppTasks -> Progress \cup {NoSwitch}]
  /\ phase \in {"out", "control", "events", "handler"}
  /\ evq \in Seq(Events) /\ Len(evq) <= EvQueueLen
  /\ boot \in BootSteps
  /\ sent \in [app : Apps \cup {NoApp}, resumed : SUBSET Apps]
  /\ inputs \in 0..MaxInputs

\* The boot task and the LVGL task are never both inside a switch.
OneSwitch == sw["lvgl"] = NoSwitch \/ sw["boot"] = NoSwitch

\* Between switches s_foreground_app, the system state, the one root that is
\* shown and the one app that is resumed are the same app, however control
\* requests, swipes and the boot task's own switch interleave.
ForegroundAgrees ==
  (fg # NoApp /\ ~ Switching) =>
    sysFg = fg /\ shown = {fg} /\ resumed = {fg}

\* An app gets events only while it is resumed (LEAVE, not modelled, apart).
SentToResumed == sent.app # NoApp => sent.app \in sent.resumed

\* A switch that is answered ESP_OK has brought its app to the foreground by
\* the time it is answered, and no swipe has taken it away again.
OkMeansShown ==
  (cur # NoRequest /\ cur.op.kind \in {"switch", "saver"} /\ curErr = Ok) =>
    fg = cur.op.app /\ cur.op.app \in shown /\ cur.op.app \in resumed

\* Events stop coming.  process_ui_events() drains the event queue to the end
\* in every round, with the LVGL lock taken, so publishers that keep it filled
\* keep the loop from its control queue and the boot task from the lock: without
\* this premise the code promises neither of the next two properties.  (So would
\* requests without end, which MaxCalls excludes.)
EventsCease == <>[][~PublishEvent]_vars

\* The LVGL loop serves the control channel; and, if events stop coming, it is
\* the fair server UiControl assumes, although it also waits for the LVGL lock,
\* drains the event queue and competes with the boot task.
ServesControl == Ctl!Spec /\ (EventsCease => Ctl!Fairness)

\* Boot ends if events stop coming: the boot task gets the lock and shows Home,
\* or gives up.
BootFinishes == EventsCease => <>(boot.step \in {"up", "failed"})

\* What the design document promises of an app's life cycle: init() first.
InitBeforeCreateRoot == created \subseteq inited
=============================================================================
