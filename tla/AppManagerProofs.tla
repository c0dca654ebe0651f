-------------------------- MODULE AppManagerProofs --------------------------
(***************************************************************************)
(* Proofs about AppManager, for any number of requesters, any queue and id *)
(* width and any number of inputs.  First, whatever the app manager does   *)
(* besides, it is a control channel, so that the theorems of UiControl     *)
(* hold of it; then the foreground.                                        *)
(*                                                                         *)
(* ForegroundAgrees speaks of the moments between two switches only.  The  *)
(* invariant (FgInv) says what holds after each step of a switch too, and  *)
(* that the LVGL lock keeps the boot task and the LVGL task apart.         *)
(***************************************************************************)
EXTENDS AppManager, SequenceTheorems, TLAPS

CtlP == INSTANCE UiControlProofs

\* A step of the app manager is a step of the control channel or none.
LEMMA ControlStep == [Next]_vars => [Ctl!Next]_ctlVars
<1> SUFFICES ASSUME [Next]_vars PROVE [Ctl!Next]_ctlVars OBVIOUS
<1>1. CASE UNCHANGED vars BY <1>1 DEF vars
<1>2. CASE LvglTask
  <2>1. CASE TakeControl \/ ReplyControl
    BY <2>1 DEF TakeControl, ReplyControl, Ctl!Next, Ctl!Lvgl
  <2>2. CASE ControlNotFound
    BY <2>2 DEF ControlNotFound, Ctl!Next, Ctl!Lvgl, Results
  <2>3. CASE ControlKeeps
    BY <2>3 DEF ControlKeeps, OutcomeOf, Ctl!Next, Ctl!Lvgl, Results
  <2>4. CASE ControlEnds
    BY <2>4 DEF ControlEnds, OutcomeOf, Ctl!Next, Ctl!Lvgl, Results
  <2>5. CASE \E err \in Results : ControlScreenshot(err)
    BY <2>5 DEF ControlScreenshot, Ctl!Next, Ctl!Lvgl
  <2>6. CASE LvglLock \/ LvglUnlock \/ ControlDone \/ ControlBegins
    BY <2>6 DEF LvglLock, LvglUnlock, ControlDone, ControlBegins
  <2>7. CASE DiscardEvent \/ DispatchEvent \/ EventsDone \/ GestureBegins
    BY <2>7 DEF DiscardEvent, DispatchEvent, EventsDone, GestureBegins
  <2>8. CASE GestureFails \/ GestureEnds \/ SetForeground("lvgl") \/ Show("lvgl")
    BY <2>8 DEF GestureFails, GestureEnds, SetForeground, Show
  <2> QED BY <1>2, <2>1, <2>2, <2>3, <2>4, <2>5, <2>6, <2>7, <2>8 DEF LvglTask
<1>3. CASE BootTask \/ BootLockTimeout
  <2>1. CASE RegisterSlot \/ RegisterInit \/ BootLock \/ BootLockTimeout
    BY <2>1 DEF RegisterSlot, RegisterInit, BootLock, BootLockTimeout
  <2>2. CASE BootBegins \/ BootKeeps \/ BootEnds
    BY <2>2 DEF BootBegins, BootKeeps, BootEnds
  <2>3. CASE SetForeground("boot") \/ Show("boot")
    BY <2>3 DEF SetForeground, Show
  <2> QED BY <1>3, <2>1, <2>2, <2>3 DEF BootTask
<1>4. CASE Inputs
  <2>1. CASE Tap BY <2>1 DEF Tap, Ctl!Next, Ops, Switch, Apps
  <2>2. CASE PublishEvent \/ \E e \in {"left_swipe", "right_swipe"} : Swipe(e)
    BY <2>2 DEF PublishEvent, Swipe
  <2> QED BY <1>4, <2>1, <2>2 DEF Inputs
<1>5. CASE \E t \in Requesters : Request(t)
  BY <1>5 DEF Request, Ctl!Next
<1> QED BY <1>1, <1>2, <1>3, <1>4, <1>5 DEF Next

\* The app manager's loop, whatever else it does, is a control channel.
THEOREM ImplementsControl == Spec => Ctl!Spec
<1>1. Init => Ctl!Init BY DEF Init
<1>2. [Next]_vars => [Ctl!Next]_Ctl!ctlVars BY ControlStep DEF Ctl!ctlVars, ctlVars
<1> QED BY <1>1, <1>2, PTL DEF Spec, Ctl!Spec

\* The two instances of the channel name the same thing.
LEMMA SameNext == Ctl!Next <=> CtlP!Next
<1>1. \A t \in Requesters : Ctl!Requester(t) <=> CtlP!Requester(t)
  BY DEF Ctl!Requester, Ctl!Call, Ctl!Send, Ctl!SendTimeout, Ctl!Accept,
         Ctl!DiscardStale, Ctl!GiveUpAfterStale, Ctl!WaitTimeout, Ctl!GiveUp,
         Ctl!NextId, Ctl!IdWindow, Ctl!Outstanding, Ctl!Timeout,
         CtlP!Requester, CtlP!Call, CtlP!Send, CtlP!SendTimeout, CtlP!Accept,
         CtlP!DiscardStale, CtlP!GiveUpAfterStale, CtlP!WaitTimeout, CtlP!GiveUp,
         CtlP!NextId, CtlP!IdWindow, CtlP!Outstanding, CtlP!Timeout
<1>2. Ctl!Lvgl <=> CtlP!Lvgl
  BY DEF Ctl!Lvgl, Ctl!Take, Ctl!Execute, Ctl!Reply, Ctl!Truncate,
         CtlP!Lvgl, CtlP!Take, CtlP!Execute, CtlP!Reply, CtlP!Truncate
<1>3. \A op \in Ops : Ctl!Post(op) <=> CtlP!Post(op)
  BY DEF Ctl!Post, CtlP!Post
<1> QED BY <1>1, <1>2, <1>3 DEF Ctl!Next, CtlP!Next

\* Every behaviour of the app manager is one of the channel proved about.
LEMMA SameSpec == Spec => CtlP!Spec
<1>1. Init => CtlP!Init BY DEF Init, Ctl!Init, CtlP!Init
<1>2. [Next]_vars => [CtlP!Next]_CtlP!ctlVars
  BY ControlStep, SameNext DEF CtlP!ctlVars, ctlVars
<1> QED BY <1>1, <1>2, PTL DEF Spec, CtlP!Spec

\* The constants are those the channel's theorems assume.
LEMMA ControlConstants == CtlP!CtlConstants
<1>1. CtlP!Codes = Ctl!Codes BY DEF CtlP!Codes, Ctl!Codes
<1>2. CtlP!Request = Ctl!Request BY DEF CtlP!Request, Ctl!Request, CtlP!Tasks, Ctl!Tasks
<1>3. CtlP!Note = Ctl!Note BY <1>1 DEF CtlP!Note, Ctl!Note
<1>4. CtlP!Returned = Ctl!Returned BY <1>1 DEF CtlP!Returned, Ctl!Returned
<1>5. Ctl!CtlConstants BY AppAssumption
<1> QED BY <1>2, <1>3, <1>4, <1>5 DEF Ctl!CtlConstants, CtlP!CtlConstants

\* A task that asks the app manager for a switch, the screensaver or a
\* screenshot gets the result of that request, or none.
THEOREM RepliesAreOwn == Spec => []Ctl!ReplyIsOwn
<1>1. CtlP!ReplyIsOwn => Ctl!ReplyIsOwn
  BY DEF CtlP!ReplyIsOwn, Ctl!ReplyIsOwn, CtlP!Truncate, Ctl!Truncate
<1>2. CtlP!Spec => []CtlP!ReplyIsOwn BY ControlConstants, CtlP!RepliesAreOwn
<1> QED BY <1>1, <1>2, SameSpec, PTL

\* The channel's part of the type invariant.
LEMMA ControlTypes == Spec => []Ctl!TypeOK
<1>1. CtlP!Codes = Ctl!Codes BY DEF CtlP!Codes, Ctl!Codes
<1>2. CtlP!Request = Ctl!Request BY DEF CtlP!Request, Ctl!Request, CtlP!Tasks, Ctl!Tasks
<1>3. CtlP!Note = Ctl!Note BY <1>1 DEF CtlP!Note, Ctl!Note
<1>4. CtlP!Returned = Ctl!Returned BY <1>1 DEF CtlP!Returned, Ctl!Returned
<1>5. CtlP!TypeOK => Ctl!TypeOK
  BY <1>2, <1>3, <1>4 DEF CtlP!TypeOK, Ctl!TypeOK
<1>6. CtlP!Spec => []CtlP!TypeOK BY ControlConstants, CtlP!TypeCorrect
<1> QED BY <1>5, <1>6, SameSpec, PTL

(***************************************************************************)
(* The invariant                                                           *)
(***************************************************************************)
SlotTypes ==
  /\ registered \subseteq Apps /\ inited \subseteq registered
  /\ created \subseteq registered /\ live \subseteq created
  /\ shown \subseteq created /\ resumed \subseteq created

FgTypes ==
  /\ fg \in Apps \cup {NoApp} /\ sysFg \in Apps
  /\ sw \in [AppTasks -> Progress \cup {NoSwitch}]

LoopTypes ==
  /\ lock \in AppTasks \cup {Free}
  /\ phase \in {"out", "control", "events", "handler"}
  /\ evq \in Seq(Events) /\ Len(evq) <= EvQueueLen
  /\ boot \in BootSteps
  /\ sent \in [app : Apps \cup {NoApp}, resumed : SUBSET Apps]
  /\ inputs \in 0..MaxInputs

\* Each task switches only with the LVGL lock in hand.
LockInv ==
  /\ phase # "out" <=> lock = "lvgl"
  /\ boot.step = "locked" <=> lock = "boot"
  /\ sw["lvgl"] # NoSwitch => phase \in {"control", "events"}
  /\ sw["boot"] # NoSwitch => boot.step = "locked"

\* init() is called for an app whose slot is in use already.
BootInv == boot.step = "init" => BootApp \in registered

\* What a switch has done by each of its steps.
Stage(s) ==
  /\ s.to \in registered
  /\ s.to # s.from
  /\ s.from \in created \cup {NoApp}
  /\ resumed = {}
  /\ fg = IF s.at = "foreground" THEN s.from ELSE s.to
  /\ s.at # "foreground" => sysFg = s.to
  /\ shown = IF s.at = "resume" THEN {s.to} ELSE {s.from} \ {NoApp}

FgInv ==
  /\ fg \in registered \cup {NoApp}
  /\ \A k \in AppTasks : sw[k] # NoSwitch => Stage(sw[k])
  /\ ~ Switching =>
       IF fg = NoApp THEN shown = {} /\ resumed = {}
       ELSE sysFg = fg /\ shown = {fg} /\ resumed = {fg}

IInv == SlotTypes /\ FgTypes /\ LoopTypes /\ LockInv /\ BootInv /\ FgInv

\* Init establishes the invariant.
LEMMA Initially == Init => IInv
<1> SUFFICES ASSUME Init PROVE IInv OBVIOUS
<1> USE DEF Init
<1>1. SlotTypes BY DEF SlotTypes
<1>2. FgTypes BY DEF FgTypes, Apps
<1>3. LoopTypes
  <2>1. boot \in BootSteps BY DEF BootSteps, BootOrder
  <2>2. evq \in Seq(Events) /\ Len(evq) <= EvQueueLen BY AppAssumption
  <2>3. inputs \in 0..MaxInputs BY AppAssumption
  <2> QED BY <2>1, <2>2, <2>3 DEF LoopTypes, AppTasks, Free
<1>4. LockInv BY DEF LockInv, AppTasks, Free
<1>5. FgInv BY DEF FgInv, Switching
<1>6. BootInv BY DEF BootInv
<1> QED BY <1>1, <1>2, <1>3, <1>4, <1>5, <1>6 DEF IInv

(***************************************************************************)
(* The switch                                                              *)
(***************************************************************************)
FgGood == SlotTypes /\ FgTypes /\ FgInv

\* The lock keeps the two tasks' switches apart.
LEMMA Exclusive ==
  ASSUME LockInv, sw["lvgl"] # NoSwitch
  PROVE  sw["boot"] = NoSwitch
  BY DEF LockInv

\* A task in a switch is the only one.
LEMMA Alone ==
  ASSUME LockInv, NEW k \in AppTasks, sw[k] # NoSwitch, NEW j \in AppTasks, j # k
  PROVE  sw[j] = NoSwitch
  BY Exclusive DEF AppTasks

\* Steps that leave the slots and the foreground alone.
LEMMA FgKept ==
  ASSUME FgGood, UNCHANGED <<slotVars, fgVars>>
  PROVE  FgGood'
  BY DEF FgGood, SlotTypes, FgTypes, FgInv, Stage, Switching, slotVars, fgVars

\* suspend() of the old app.
LEMMA BeginStep ==
  ASSUME FgGood, ~ Switching, NEW k \in AppTasks, NEW a, BeginSwitch(k, a)
  PROVE  FgGood'
<1> DEFINE s == [to |-> a, from |-> fg, at |-> "foreground"]
<1>1. s \in Progress /\ s # NoSwitch
  BY AppAssumption DEF FgGood, SlotTypes, FgTypes, BeginSwitch, Progress, AtSteps
<1>2. sw' = [sw EXCEPT ![k] = s] BY DEF BeginSwitch
<1>3. SlotTypes' BY DEF FgGood, SlotTypes, BeginSwitch
<1>4. FgTypes' BY <1>1, <1>2 DEF FgGood, FgTypes, BeginSwitch
<1>5. sw'[k] = s /\ \A j \in AppTasks \ {k} : sw'[j] = NoSwitch
  BY <1>2 DEF FgGood, FgTypes, Switching
<1>6. IF fg = NoApp THEN shown = {} /\ resumed = {}
      ELSE sysFg = fg /\ shown = {fg} /\ resumed = {fg}
  BY DEF FgGood, FgInv
<1>7. Stage(s)'
  BY <1>6, AppAssumption DEF FgGood, FgTypes, SlotTypes, Stage, BeginSwitch
<1>8. Switching' BY <1>1, <1>5 DEF Switching
<1>9. FgInv'
  BY <1>5, <1>7, <1>8 DEF FgGood, FgInv, BeginSwitch
<1> QED BY <1>3, <1>4, <1>9 DEF FgGood

\* The new foreground is stored, here and in system_state.
LEMMA SetForegroundStep ==
  ASSUME FgGood, LockInv, NEW k \in AppTasks, SetForeground(k)
  PROVE  FgGood'
<1> DEFINE s == [sw[k] EXCEPT !.at = "show"]
<1>0. sw[k] \in Progress /\ Stage(sw[k]) /\ sw[k].at = "foreground"
  BY DEF FgGood, FgTypes, FgInv, SetForeground
<1>1. s \in Progress /\ s # NoSwitch /\ s.to = sw[k].to /\ s.from = sw[k].from
      /\ s.at = "show"
  BY <1>0, AppAssumption DEF Progress, AtSteps
<1>2. sw' = [sw EXCEPT ![k] = s] BY DEF SetForeground
<1>3. SlotTypes' BY DEF FgGood, SlotTypes, SetForeground, slotVars
<1>4. FgTypes' BY <1>0, <1>1, <1>2 DEF FgGood, FgTypes, SetForeground, Progress
<1>5. sw'[k] = s /\ \A j \in AppTasks \ {k} : sw'[j] = NoSwitch
  BY <1>2, Alone DEF FgGood, FgTypes, SetForeground
<1>6. Stage(s)'
  BY <1>0, <1>1 DEF Stage, SetForeground, slotVars
<1>7. Switching' BY <1>1, <1>5 DEF Switching
<1>8. fg' \in registered' \cup {NoApp}
  BY <1>0 DEF Stage, SetForeground, slotVars
<1>9. FgInv' BY <1>5, <1>6, <1>7, <1>8 DEF FgInv
<1> QED BY <1>3, <1>4, <1>9 DEF FgGood

\* The roots are swapped.
LEMMA ShowStep ==
  ASSUME FgGood, LockInv, NEW k \in AppTasks, Show(k)
  PROVE  FgGood'
<1> DEFINE s == [sw[k] EXCEPT !.at = "resume"]
<1>0. sw[k] \in Progress /\ Stage(sw[k]) /\ sw[k].at = "show"
  BY DEF FgGood, FgTypes, FgInv, Show
<1>1. s \in Progress /\ s # NoSwitch /\ s.to = sw[k].to /\ s.from = sw[k].from
      /\ s.at = "resume"
  BY <1>0, AppAssumption DEF Progress, AtSteps
<1>2. sw' = [sw EXCEPT ![k] = s] BY DEF Show
<1>3. SlotTypes' BY <1>0 DEF FgGood, SlotTypes, Show, Stage
<1>4. FgTypes' BY <1>1, <1>2 DEF FgGood, FgTypes, Show
<1>5. sw'[k] = s /\ \A j \in AppTasks \ {k} : sw'[j] = NoSwitch
  BY <1>2, Alone DEF FgGood, FgTypes, Show
<1>6. Stage(s)'
  BY <1>0, <1>1 DEF Stage, Show
<1>7. Switching' BY <1>1, <1>5 DEF Switching
<1>8. FgInv' BY <1>5, <1>6, <1>7 DEF FgGood, FgInv, Show
<1> QED BY <1>3, <1>4, <1>8 DEF FgGood

\* resume() of the new app ends the switch.
LEMMA EndStep ==
  ASSUME FgGood, LockInv, NEW k \in AppTasks, EndSwitch(k)
  PROVE  FgGood'
<1>0. sw[k] \in Progress /\ Stage(sw[k]) /\ sw[k].at = "resume"
  BY DEF FgGood, FgTypes, FgInv, EndSwitch
<1>1. sw' = [sw EXCEPT ![k] = NoSwitch] BY DEF EndSwitch
<1>2. SlotTypes' BY <1>0 DEF FgGood, SlotTypes, EndSwitch, Stage
<1>3. FgTypes' BY <1>1 DEF FgGood, FgTypes, EndSwitch
<1>4. \A j \in AppTasks : sw'[j] = NoSwitch
  BY <1>1, Alone DEF FgGood, FgTypes, EndSwitch
<1>5. fg = sw[k].to /\ sysFg = fg /\ shown = {fg} /\ resumed' = {fg} /\ fg \in registered
  BY <1>0 DEF Stage, EndSwitch
<1>6. fg # NoApp BY <1>5, AppAssumption DEF FgGood, SlotTypes
<1>7. FgInv' BY <1>4, <1>5, <1>6 DEF FgInv, EndSwitch
<1> QED BY <1>2, <1>3, <1>7 DEF FgGood

\* A switch to the app that is in the foreground already.
LEMMA KeepStep ==
  ASSUME FgGood, ~ Switching, NEW a, KeepForeground(a)
  PROVE  FgGood'
<1>1. SlotTypes' BY DEF FgGood, SlotTypes, KeepForeground, slotVars
<1>2. FgTypes' BY DEF FgGood, SlotTypes, FgTypes, KeepForeground
<1>3. a # NoApp BY AppAssumption DEF KeepForeground, FgGood, SlotTypes
<1>4. FgInv'
  BY <1>3 DEF FgGood, FgInv, Switching, KeepForeground, slotVars
<1> QED BY <1>1, <1>2, <1>4 DEF FgGood

\* app_manager_register() while switches go on: a slot gains an owner, and
\* init() takes a view away from its app at most.
LEMMA RegisterStep ==
  ASSUME FgGood, LoopTypes, RegisterSlot \/ RegisterInit, inited' \subseteq registered'
  PROVE  FgGood'
<1>1. registered \subseteq registered' /\ registered' \subseteq registered \cup {BootApp}
  BY DEF RegisterSlot, RegisterInit
<1>2. RegisterSlot => BootApp \in Apps
  BY DEF LoopTypes, BootSteps, BootOrder, BootApp, Apps, RegisterSlot
<1>3. live' \subseteq live /\ UNCHANGED <<created, shown, resumed, fg, sysFg, sw>>
  BY DEF RegisterSlot, RegisterInit, fgVars
<1>4. registered' \subseteq Apps BY <1>1, <1>2 DEF FgGood, SlotTypes, RegisterSlot, RegisterInit
<1>5. SlotTypes' BY <1>1, <1>3, <1>4 DEF FgGood, SlotTypes
<1>6. FgTypes' BY <1>3 DEF FgGood, FgTypes
<1>7. FgInv' BY <1>1, <1>3 DEF FgGood, FgInv, Stage, Switching
<1> QED BY <1>5, <1>6, <1>7 DEF FgGood

(***************************************************************************)
(* The lock                                                                *)
(***************************************************************************)
LEMMA LvglLockStep ==
  ASSUME IInv, LvglTask
  PROVE  LockInv'
<1> USE DEF IInv, LockInv, AppTasks, Free
<1>1. CASE LvglLock \/ LvglUnlock \/ ControlDone \/ EventsDone
  BY <1>1 DEF LvglLock, LvglUnlock, ControlDone, EventsDone, fgVars
<1>2. CASE \/ TakeControl \/ ReplyControl \/ ControlNotFound
           \/ DiscardEvent \/ DispatchEvent \/ GestureFails
           \/ \E err \in Results : ControlScreenshot(err)
  BY <1>2 DEF TakeControl, ReplyControl, ControlNotFound, DiscardEvent, DispatchEvent,
       GestureFails, ControlScreenshot, fgVars, loopVars
<1>3. CASE ControlKeeps
  BY <1>3 DEF ControlKeeps, KeepForeground
<1>4. CASE ControlBegins \/ GestureBegins
  BY <1>4 DEF ControlBegins, GestureBegins, BeginSwitch, Executing, TakingEvent,
       FgTypes, loopVars
<1>5. CASE ControlEnds \/ GestureEnds
  BY <1>5 DEF ControlEnds, GestureEnds, EndSwitch, FgTypes
<1>6. CASE SetForeground("lvgl") \/ Show("lvgl")
  BY <1>6 DEF SetForeground, Show, FgTypes, loopVars
<1> QED BY <1>1, <1>2, <1>3, <1>4, <1>5, <1>6 DEF LvglTask

\* The boot task's steps keep the lock's discipline.
LEMMA BootLockStep ==
  ASSUME IInv, BootTask \/ BootLockTimeout
  PROVE  LockInv'
<1> USE DEF IInv, LockInv, AppTasks, Free
<1>1. CASE RegisterSlot \/ RegisterInit \/ BootLock \/ BootLockTimeout
  BY <1>1 DEF RegisterSlot, RegisterInit, BootLock, BootLockTimeout, fgVars
<1>2. CASE BootBegins
  BY <1>2 DEF BootBegins, BeginSwitch, FgTypes, loopVars
<1>3. CASE BootKeeps
  BY <1>3 DEF BootKeeps, KeepForeground, BootUnlocks
<1>4. CASE BootEnds
  BY <1>4 DEF BootEnds, EndSwitch, BootUnlocks, FgTypes
<1>5. CASE SetForeground("boot") \/ Show("boot")
  BY <1>5 DEF SetForeground, Show, FgTypes, loopVars
<1> QED BY <1>1, <1>2, <1>3, <1>4, <1>5 DEF BootTask

(***************************************************************************)
(* The loop's types                                                        *)
(***************************************************************************)
LEMMA EnqueueType ==
  ASSUME NEW q \in Seq(Events), Len(q) <= EvQueueLen, NEW e \in Events
  PROVE  Enqueue(q, e) \in Seq(Events) /\ Len(Enqueue(q, e)) <= EvQueueLen
<1>1. CASE Len(q) < EvQueueLen
  <2>1. Append(q, e) \in Seq(Events) /\ Len(Append(q, e)) = Len(q) + 1 OBVIOUS
  <2> QED BY <1>1, <2>1, AppAssumption DEF Enqueue
<1>2. CASE ~ (Len(q) < EvQueueLen) BY <1>2 DEF Enqueue
<1> QED BY <1>1, <1>2

\* Publishing a foreground keeps the event queue within its bound.
LEMMA PublishType ==
  ASSUME LoopTypes, NEW a
  PROVE  Publish(evq, a) \in Seq(Events) /\ Len(Publish(evq, a)) <= EvQueueLen
<1>1. "other" \in Events BY DEF Events
<1> QED BY <1>1, EnqueueType DEF Publish, LoopTypes

\* Taking an event keeps the queue's type.
LEMMA TailType ==
  ASSUME LoopTypes, evq # <<>>
  PROVE  Tail(evq) \in Seq(Events) /\ Len(Tail(evq)) <= EvQueueLen
  BY AppAssumption DEF LoopTypes

\* The LVGL task's steps.
LEMMA LvglTypes ==
  ASSUME IInv, Ctl!TypeOK, LvglTask
  PROVE  LoopTypes'
<1> USE DEF IInv, AppTasks, Free
<1>1. CASE LvglLock \/ LvglUnlock \/ ControlDone \/ EventsDone
  BY <1>1 DEF LoopTypes, LvglLock, LvglUnlock, ControlDone, EventsDone
<1>2. CASE \/ TakeControl \/ ReplyControl \/ ControlNotFound \/ ControlBegins
           \/ \E err \in Results : ControlScreenshot(err)
  BY <1>2 DEF LoopTypes, TakeControl, ReplyControl, ControlNotFound,
       ControlBegins, ControlScreenshot, loopVars
<1>3. CASE ControlKeeps
  BY <1>3, PublishType DEF LoopTypes, ControlKeeps, KeepForeground
<1>4. CASE DiscardEvent \/ GestureFails \/ GestureBegins
  BY <1>4, TailType DEF LoopTypes, DiscardEvent, GestureFails, GestureBegins, TakingEvent
<1>5. CASE DispatchEvent
  <2>1. resumed \subseteq Apps /\ fg \in Apps \cup {NoApp} BY DEF SlotTypes, FgTypes
  <2> QED BY <1>5, <2>1, TailType DEF LoopTypes, DispatchEvent, TakingEvent
<1>6. CASE ControlEnds
  <2>1. cur \in Ctl!Request BY <1>6 DEF ControlEnds, Executing, Ctl!TypeOK
  <2>2. cur.op \in Ops BY <2>1 DEF Ctl!Request
  <2>3. cur.op.app \in Apps \cup {NoApp} BY <2>2 DEF Ops, Switch, Saver, Screenshot, Apps
  <2>4. resumed' \subseteq Apps
    BY <1>6 DEF ControlEnds, EndSwitch, SlotTypes, FgTypes, Progress
  <2> QED BY <1>6, <2>3, <2>4 DEF LoopTypes, ControlEnds
<1>7. CASE GestureEnds
  <2>1. sw["lvgl"].to \in Apps
    BY <1>7 DEF GestureEnds, EndSwitch, FgTypes, Progress
  <2>2. resumed' \subseteq Apps
    BY <1>7, <2>1 DEF GestureEnds, EndSwitch, SlotTypes
  <2> QED BY <1>7, <2>1, <2>2 DEF LoopTypes, GestureEnds
<1>8. CASE SetForeground("lvgl")
  BY <1>8, PublishType DEF LoopTypes, SetForeground
<1>9. CASE Show("lvgl")
  BY <1>9 DEF LoopTypes, Show, loopVars
<1> QED BY <1>1, <1>2, <1>3, <1>4, <1>5, <1>6, <1>7, <1>8, <1>9 DEF LvglTask

\* The boot task's steps.
LEMMA BootTypes ==
  ASSUME IInv, BootTask \/ BootLockTimeout
  PROVE  LoopTypes'
<1> USE DEF IInv, AppTasks, Free
<1>1. CASE RegisterSlot \/ RegisterInit
  <2>1. boot' \in BootSteps
    BY <1>1 DEF LoopTypes, RegisterSlot, RegisterInit, BootSteps, BootOrder
  <2> QED BY <1>1, <2>1 DEF LoopTypes, RegisterSlot, RegisterInit
<1>2. CASE BootLock \/ BootLockTimeout
  BY <1>2 DEF LoopTypes, BootLock, BootLockTimeout, BootSteps
<1>3. CASE BootBegins
  BY <1>3 DEF LoopTypes, BootBegins, loopVars
<1>4. [step |-> "up", i |-> 0] \in BootSteps BY DEF BootSteps
<1>5. CASE BootKeeps
  BY <1>4, <1>5, PublishType DEF LoopTypes, BootKeeps, BootUnlocks, KeepForeground
<1>6. CASE BootEnds
  <2>1. resumed' \subseteq Apps
    BY <1>6 DEF BootEnds, EndSwitch, SlotTypes, FgTypes, Progress
  <2> QED BY <1>4, <1>6, <2>1 DEF LoopTypes, BootEnds, BootUnlocks, Apps
<1>7. CASE SetForeground("boot")
  BY <1>7, PublishType DEF LoopTypes, SetForeground
<1>8. CASE Show("boot")
  BY <1>8 DEF LoopTypes, Show, loopVars
<1> QED BY <1>1, <1>2, <1>3, <1>5, <1>6, <1>7, <1>8 DEF BootTask

(***************************************************************************)
(* Every step                                                              *)
(***************************************************************************)
LEMMA FgStep ==
  ASSUME IInv, [Next]_vars
  PROVE  FgGood'
<1>0. FgGood BY DEF IInv, FgGood
<1>1. CASE BootTask \/ BootLockTimeout
  <2>1. CASE RegisterSlot \/ RegisterInit
    <3>1. inited' \subseteq registered'
      BY <2>1 DEF IInv, SlotTypes, BootInv, RegisterSlot, RegisterInit
    <3> QED BY <1>0, <2>1, <3>1, RegisterStep DEF IInv
  <2>2. CASE BootLock \/ BootLockTimeout
    BY <1>0, <2>2, FgKept DEF BootLock, BootLockTimeout
  <2>3. CASE BootBegins
    <3>1. ~ Switching BY <2>3 DEF BootBegins, Switching, AppTasks, IInv, LockInv, Free
    <3> QED BY <1>0, <2>3, <3>1, BeginStep DEF BootBegins, AppTasks
  <2>4. CASE BootKeeps
    <3>1. ~ Switching BY <2>4 DEF BootKeeps, Switching, AppTasks, IInv, LockInv, Free
    <3> QED BY <1>0, <2>4, <3>1, KeepStep DEF BootKeeps
  <2>5. CASE BootEnds BY <1>0, <2>5, EndStep DEF BootEnds, AppTasks, IInv
  <2>6. CASE SetForeground("boot") BY <1>0, <2>6, SetForegroundStep DEF AppTasks, IInv
  <2>7. CASE Show("boot") BY <1>0, <2>7, ShowStep DEF AppTasks, IInv
  <2> QED BY <1>1, <2>1, <2>2, <2>3, <2>4, <2>5, <2>6, <2>7 DEF BootTask
<1>2. CASE LvglTask
  <2>1. phase # "out" /\ sw["lvgl"] = NoSwitch => ~ Switching
    BY DEF IInv, LockInv, Switching, AppTasks
  <2>2. CASE \/ LvglLock \/ LvglUnlock \/ TakeControl \/ ReplyControl \/ ControlDone
             \/ ControlNotFound \/ \E err \in Results : ControlScreenshot(err)
    BY <1>0, <2>2, FgKept DEF LvglLock, LvglUnlock, TakeControl, ReplyControl,
         ControlDone, ControlNotFound, ControlScreenshot
  <2>3. CASE DiscardEvent \/ DispatchEvent \/ EventsDone \/ GestureFails
    BY <1>0, <2>3, FgKept DEF DiscardEvent, DispatchEvent, EventsDone, GestureFails
  <2>4. CASE ControlBegins
    BY <1>0, <2>1, <2>4, BeginStep DEF ControlBegins, Executing, AppTasks
  <2>5. CASE GestureBegins
    BY <1>0, <2>1, <2>5, BeginStep DEF GestureBegins, TakingEvent, AppTasks
  <2>6. CASE ControlKeeps
    BY <1>0, <2>1, <2>6, KeepStep DEF ControlKeeps, Executing
  <2>7. CASE ControlEnds \/ GestureEnds
    BY <1>0, <2>7, EndStep DEF ControlEnds, GestureEnds, AppTasks, IInv
  <2>8. CASE SetForeground("lvgl") BY <1>0, <2>8, SetForegroundStep DEF AppTasks, IInv
  <2>9. CASE Show("lvgl") BY <1>0, <2>9, ShowStep DEF AppTasks, IInv
  <2> QED BY <1>2, <2>2, <2>3, <2>4, <2>5, <2>6, <2>7, <2>8, <2>9 DEF LvglTask
<1>3. CASE Inputs \/ (\E t \in Requesters : Request(t)) \/ UNCHANGED vars
  BY <1>0, <1>3, FgKept DEF Inputs, Tap, PublishEvent, Swipe, Request, vars
<1> QED BY <1>1, <1>2, <1>3 DEF Next

\* Only the boot task moves in the registration, and no slot is given back.
LEMMA BootInvStep ==
  ASSUME IInv, [Next]_vars
  PROVE  BootInv'
<1>1. ASSUME UNCHANGED <<boot, registered>> PROVE BootInv'
  BY <1>1 DEF IInv, BootInv, BootApp
<1>2. CASE BootTask \/ BootLockTimeout
  <2>1. CASE RegisterSlot
    BY <2>1 DEF RegisterSlot, BootInv, BootApp, IInv, LoopTypes
  <2>2. CASE RegisterInit \/ BootLock \/ BootLockTimeout
    BY <2>2 DEF RegisterInit, BootLock, BootLockTimeout, BootInv
  <2>3. CASE BootKeeps \/ BootEnds
    BY <2>3 DEF BootKeeps, BootEnds, BootUnlocks, BootInv
  <2>4. CASE BootBegins \/ SetForeground("boot") \/ Show("boot")
    BY <1>1, <2>4 DEF BootBegins, BeginSwitch, SetForeground, Show, slotVars, loopVars
  <2> QED BY <1>2, <2>1, <2>2, <2>3, <2>4 DEF BootTask
<1>3. CASE LvglTask
  <2>1. CASE \/ LvglLock \/ LvglUnlock \/ TakeControl \/ ReplyControl \/ ControlDone
             \/ ControlNotFound \/ \E err \in Results : ControlScreenshot(err)
    BY <1>1, <2>1 DEF LvglLock, LvglUnlock, TakeControl, ReplyControl,
         ControlDone, ControlNotFound, ControlScreenshot, slotVars, loopVars
  <2>2. CASE \/ DiscardEvent \/ DispatchEvent \/ EventsDone \/ GestureFails
             \/ ControlKeeps
    BY <1>1, <2>2 DEF DiscardEvent, DispatchEvent, EventsDone, GestureFails,
         ControlKeeps, KeepForeground, slotVars
  <2>3. CASE ControlBegins \/ GestureBegins \/ ControlEnds \/ GestureEnds
    BY <1>1, <2>3 DEF ControlBegins, GestureBegins, ControlEnds, GestureEnds,
         BeginSwitch, EndSwitch, loopVars
  <2>4. CASE SetForeground("lvgl") \/ Show("lvgl")
    BY <1>1, <2>4 DEF SetForeground, Show, slotVars, loopVars
  <2> QED BY <1>3, <2>1, <2>2, <2>3, <2>4 DEF LvglTask
<1>4. CASE Inputs \/ (\E t \in Requesters : Request(t)) \/ UNCHANGED vars
  BY <1>1, <1>4 DEF Inputs, Tap, PublishEvent, Swipe, Request, vars, slotVars, loopVars
<1> QED BY <1>2, <1>3, <1>4 DEF Next

\* Every step preserves the invariant.
LEMMA Inductive == IInv /\ Ctl!TypeOK /\ [Next]_vars => IInv'
<1> SUFFICES ASSUME IInv, Ctl!TypeOK, [Next]_vars PROVE IInv' OBVIOUS
<1>1. FgGood' BY FgStep
<1>2. LockInv' /\ LoopTypes'
  <2>1. CASE LvglTask BY <2>1, LvglLockStep, LvglTypes
  <2>2. CASE BootTask \/ BootLockTimeout BY <2>2, BootLockStep, BootTypes
  <2>3. CASE Inputs
    <3>1. LockInv' BY <2>3 DEF IInv, LockInv, Inputs, Tap, PublishEvent, Swipe, fgVars
    <3>2. inputs' \in 0..MaxInputs
      <4>1. inputs' = inputs \/ (inputs < MaxInputs /\ inputs' = inputs + 1)
        BY <2>3 DEF Inputs, Tap, PublishEvent, Swipe
      <4> QED BY <4>1, AppAssumption DEF IInv, LoopTypes
    <3>3. UNCHANGED <<lock, phase, boot, sent>>
      BY <2>3 DEF Inputs, Tap, PublishEvent, Swipe
    <3>4. evq' \in Seq(Events) /\ Len(evq') <= EvQueueLen
      <4>1. evq' = evq \/ \E e \in Events : evq' = Enqueue(evq, e)
        BY <2>3 DEF Inputs, Tap, PublishEvent, Swipe, Events
      <4> QED BY <4>1, EnqueueType DEF IInv, LoopTypes
    <3>5. LoopTypes' BY <3>2, <3>3, <3>4 DEF IInv, LoopTypes
    <3> QED BY <3>1, <3>5
  <2>4. CASE (\E t \in Requesters : Request(t)) \/ UNCHANGED vars
    BY <2>4 DEF IInv, LockInv, LoopTypes, Request, vars, fgVars, loopVars
  <2> QED BY <2>1, <2>2, <2>3, <2>4 DEF Next
<1> QED BY <1>1, <1>2, BootInvStep DEF IInv, FgGood

\* The invariant holds in every reachable state.
LEMMA Invariance == Spec => []IInv
  BY Initially, Inductive, ControlTypes, PTL DEF Spec

\* Every variable keeps its type, whatever the queues' lengths.
THEOREM TypeCorrect == Spec => []TypeOK
<1>1. IInv /\ Ctl!TypeOK => TypeOK
  BY DEF IInv, SlotTypes, FgTypes, LoopTypes, TypeOK
<1> QED BY <1>1, Invariance, ControlTypes, PTL

\* The boot task and the LVGL task never switch at the same time.
THEOREM SwitchesExclude == Spec => []OneSwitch
<1>1. IInv => OneSwitch BY DEF IInv, LockInv, OneSwitch
<1> QED BY <1>1, Invariance, PTL

\* Between switches the app manager, system_state, the shown root and the
\* resumed app agree, for any number of requests, swipes and events.
THEOREM OneForeground == Spec => []ForegroundAgrees
<1>1. IInv => ForegroundAgrees BY DEF IInv, FgInv, ForegroundAgrees
<1> QED BY <1>1, Invariance, PTL

(***************************************************************************)
(* What a request is told, and who gets events                             *)
(***************************************************************************)
\* A switch the LVGL task makes for a request is that request's, the request
\* is unanswered until it ends, and the boot task switches to Home alone.
ServeInv ==
  /\ cur = NoRequest => curErr = Running
  /\ cur # NoRequest => phase = "control"
  /\ (sw["lvgl"] # NoSwitch /\ phase = "control") =>
       cur # NoRequest /\ curErr = Running /\ sw["lvgl"].to = cur.op.app
  /\ sw["boot"] # NoSwitch => sw["boot"].to = "home"
  /\ SentToResumed
  /\ OkMeansShown

\* Init establishes it.
LEMMA ServeInit == Init => ServeInv
  BY DEF Init, Ctl!Init, ServeInv, SentToResumed, OkMeansShown, AppTasks

\* A result is never the mark of a request that still runs.
LEMMA Answered == \A err \in Results : err # Running
  BY AppAssumption DEF Ctl!CtlConstants

\* What the current step of a switch says of a task that ends it.
LEMMA AtEnd ==
  ASSUME IInv, NEW k \in AppTasks, EndSwitch(k)
  PROVE  /\ fg = sw[k].to /\ shown = {fg} /\ resumed' = {fg}
         /\ UNCHANGED <<fg, shown>>
         /\ sw' = [sw EXCEPT ![k] = NoSwitch]
<1>1. Stage(sw[k]) /\ sw[k].at = "resume"
  BY DEF IInv, FgInv, EndSwitch
<1> QED BY <1>1 DEF Stage, EndSwitch

\* Between switches the foreground, if any, is what is shown and resumed.
LEMMA AtRest ==
  ASSUME IInv, phase # "out", sw["lvgl"] = NoSwitch, fg \in registered
  PROVE  shown = {fg} /\ resumed = {fg}
<1>1. ~ Switching BY DEF IInv, LockInv, Switching, AppTasks
<1>2. fg # NoApp BY AppAssumption DEF IInv, SlotTypes
<1> QED BY <1>1, <1>2 DEF IInv, FgInv

\* The LVGL task's steps.
LEMMA LvglServes ==
  ASSUME IInv, Ctl!TypeOK, ServeInv, LvglTask
  PROVE  ServeInv'
<1> USE DEF ServeInv, SentToResumed, OkMeansShown
<1>1. CASE LvglLock \/ LvglUnlock \/ ControlDone \/ EventsDone
  BY <1>1 DEF LvglLock, LvglUnlock, ControlDone, EventsDone, IInv, LockInv,
       ctlVars, slotVars, fgVars
<1>2. CASE TakeControl \/ ReplyControl
  <2>1. Ok # Running BY Answered DEF Ok, Results
  <2> QED BY <1>2, <2>1 DEF TakeControl, ReplyControl, Ctl!Take, Ctl!Reply, IInv, LockInv,
        slotVars, fgVars, loopVars
<1>3. CASE ControlNotFound \/ \E err \in Results : ControlScreenshot(err)
  <2>1. phase = "control" /\ cur # NoRequest /\ curErr = Running
    BY <1>3 DEF ControlNotFound, ControlScreenshot, Executing
  <2>2. cur.op.app \notin registered
    <3>1. ControlNotFound => cur.op.app \notin registered BY DEF ControlNotFound
    <3>2. cur.op \in Ops BY <2>1 DEF Ctl!TypeOK, Ctl!Request
    <3>3. cur.op.kind = "screenshot" => cur.op.app = NoApp
      BY <3>2 DEF Ops, Switch, Saver, Screenshot
    <3>4. NoApp \notin registered BY AppAssumption DEF IInv, SlotTypes
    <3> QED BY <1>3, <3>1, <3>3, <3>4 DEF ControlScreenshot
  <2>3. sw["lvgl"] = NoSwitch
    BY <2>1, <2>2 DEF IInv, FgInv, Stage, AppTasks
  <2>4. UNCHANGED <<cur, phase, sw, fg, shown, resumed, sent>>
    BY <1>3 DEF ControlNotFound, ControlScreenshot, Ctl!Execute, slotVars, fgVars, loopVars
  <2>5. curErr' # Ok \/ cur.op.kind = "screenshot"
    BY <1>3 DEF ControlNotFound, ControlScreenshot, Ctl!Execute, NotFound, Ok
  <2> QED BY <2>1, <2>3, <2>4, <2>5
<1>4. CASE ControlBegins \/ GestureBegins
  BY <1>4 DEF ControlBegins, GestureBegins, BeginSwitch, Executing, TakingEvent, IInv,
       FgTypes, AppTasks, ctlVars, loopVars
<1>5. CASE ControlKeeps
  <2>1. shown = {fg} /\ resumed = {fg} /\ fg = cur.op.app
    BY <1>5, AtRest DEF ControlKeeps, Executing, KeepForeground
  <2> QED BY <1>5, <2>1 DEF ControlKeeps, Executing, KeepForeground, Ctl!Execute, slotVars
<1>6. CASE ControlEnds
  <2>1. sw["lvgl"] # NoSwitch BY <1>6 DEF ControlEnds, EndSwitch
  <2>2. fg = cur.op.app /\ shown = {fg} /\ resumed' = {fg} /\ UNCHANGED <<fg, shown>>
    BY <1>6, <2>1, AtEnd DEF ControlEnds, Executing, AppTasks
  <2>3. sw' = [sw EXCEPT !["lvgl"] = NoSwitch] BY <1>6 DEF ControlEnds, EndSwitch
  <2> QED BY <1>6, <2>2, <2>3 DEF ControlEnds, Executing, Ctl!Execute, IInv, FgTypes, AppTasks
<1>7. CASE GestureEnds
  <2>1. resumed' = {sw["lvgl"].to} BY <1>7, AtEnd DEF GestureEnds, AppTasks
  <2>2. sw' = [sw EXCEPT !["lvgl"] = NoSwitch] BY <1>7 DEF GestureEnds, EndSwitch
  <2> QED BY <1>7, <2>1, <2>2 DEF GestureEnds, IInv, FgTypes, AppTasks, ctlVars
<1>8. CASE DiscardEvent \/ GestureFails
  BY <1>8 DEF DiscardEvent, GestureFails, ctlVars, slotVars, fgVars
<1>9. CASE DispatchEvent
  <2>1. resumed = {fg} BY <1>9, AtRest DEF DispatchEvent, TakingEvent
  <2> QED BY <1>9, <2>1 DEF DispatchEvent, ctlVars, slotVars, fgVars
<1>10. CASE SetForeground("lvgl") \/ Show("lvgl")
  <2>1. sw["lvgl"] # NoSwitch /\ phase \in {"control", "events"}
    BY <1>10 DEF SetForeground, Show, IInv, LockInv
  <2>2. curErr # Ok \/ cur = NoRequest
    BY <2>1, Answered DEF Ok, Results
  <2>3. sw'["lvgl"].to = sw["lvgl"].to /\ sw'["boot"] = sw["boot"]
    BY <1>10 DEF SetForeground, Show, IInv, FgTypes, Progress, AppTasks
  <2> QED BY <1>10, <2>1, <2>2, <2>3 DEF SetForeground, Show, ctlVars, slotVars, loopVars
<1> QED BY <1>1, <1>2, <1>3, <1>4, <1>5, <1>6, <1>7, <1>8, <1>9, <1>10 DEF LvglTask

\* The boot task's steps.
LEMMA BootServes ==
  ASSUME IInv, ServeInv, BootTask \/ BootLockTimeout
  PROVE  ServeInv'
<1> USE DEF ServeInv, SentToResumed, OkMeansShown
<1>1. CASE RegisterSlot \/ RegisterInit \/ BootLock \/ BootLockTimeout
  BY <1>1 DEF RegisterSlot, RegisterInit, BootLock, BootLockTimeout, ctlVars, slotVars, fgVars
<1>2. boot.step = "locked" => cur = NoRequest /\ sw["lvgl"] = NoSwitch
  BY DEF IInv, LockInv
<1>3. CASE BootBegins
  BY <1>2, <1>3 DEF BootBegins, BeginSwitch, IInv, FgTypes, AppTasks, ctlVars, loopVars
<1>4. CASE BootKeeps
  BY <1>2, <1>4 DEF BootKeeps, KeepForeground, ctlVars
<1>5. CASE BootEnds
  <2>1. sw["boot"] # NoSwitch BY <1>5 DEF BootEnds, EndSwitch
  <2>2. resumed' = {"home"} BY <1>5, <2>1, AtEnd DEF BootEnds, AppTasks
  <2>3. sw' = [sw EXCEPT !["boot"] = NoSwitch] BY <1>5 DEF BootEnds, EndSwitch
  <2>4. cur = NoRequest /\ sw["lvgl"] = NoSwitch BY <1>2, <2>1 DEF IInv, LockInv
  <2> QED BY <1>5, <2>2, <2>3, <2>4 DEF BootEnds, IInv, FgTypes, AppTasks, ctlVars
<1>6. CASE SetForeground("boot") \/ Show("boot")
  <2>1. sw["boot"] # NoSwitch BY <1>6 DEF SetForeground, Show
  <2>2. cur = NoRequest /\ sw["lvgl"] = NoSwitch BY <1>2, <2>1 DEF IInv, LockInv
  <2>3. sw'["boot"].to = sw["boot"].to /\ sw'["lvgl"] = sw["lvgl"]
    BY <1>6 DEF SetForeground, Show, IInv, FgTypes, Progress, AppTasks
  <2> QED BY <1>6, <2>1, <2>2, <2>3 DEF SetForeground, Show, ctlVars, slotVars, loopVars
<1> QED BY <1>1, <1>3, <1>4, <1>5, <1>6 DEF BootTask

\* Every step preserves it.
LEMMA ServeStep == IInv /\ Ctl!TypeOK /\ ServeInv /\ [Next]_vars => ServeInv'
<1> SUFFICES ASSUME IInv, Ctl!TypeOK, ServeInv, [Next]_vars PROVE ServeInv' OBVIOUS
<1>1. CASE LvglTask BY <1>1, LvglServes
<1>2. CASE BootTask \/ BootLockTimeout BY <1>2, BootServes
<1>3. CASE Inputs \/ (\E t \in Requesters : Request(t)) \/ UNCHANGED vars
  <2>1. UNCHANGED <<cur, curErr>>
    BY <1>3 DEF Inputs, Tap, PublishEvent, Swipe, Request, vars, ctlVars, Ctl!Post,
         Ctl!Requester, Ctl!Call, Ctl!Send, Ctl!SendTimeout, Ctl!Accept,
         Ctl!DiscardStale, Ctl!GiveUpAfterStale, Ctl!WaitTimeout
  <2>2. UNCHANGED <<slotVars, fgVars, phase, sent>>
    BY <1>3 DEF Inputs, Tap, PublishEvent, Swipe, Request, vars, loopVars
  <2> QED BY <2>1, <2>2 DEF ServeInv, SentToResumed, OkMeansShown, slotVars, fgVars
<1> QED BY <1>1, <1>2, <1>3 DEF Next

\* It holds in every reachable state.
LEMMA Serving == Spec => []ServeInv
  BY ServeInit, ServeStep, Invariance, ControlTypes, PTL DEF Spec

\* No app gets an event before it is resumed or after it is suspended.
THEOREM EventsToResumed == Spec => []SentToResumed
<1>1. ServeInv => SentToResumed BY DEF ServeInv
<1> QED BY <1>1, Serving, PTL

\* A switch that is answered ESP_OK shows its app, for any number of
\* requesters, requests and swipes.
THEOREM OkIsShown == Spec => []OkMeansShown
<1>1. ServeInv => OkMeansShown BY DEF ServeInv
<1> QED BY <1>1, Serving, PTL
=============================================================================
