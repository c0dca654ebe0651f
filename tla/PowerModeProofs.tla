-------------------------- MODULE PowerModeProofs --------------------------
(***************************************************************************)
(* PowerMode's invariants, for any number of tasks, apps and queue places. *)
(* PolicyAgrees needs to know what the task inside system_state's mutex is *)
(* doing; ModeAgreesUnlessRaced needs to know which task still owes the    *)
(* market service the current mode.  BacklightOwed needs to know that an   *)
(* old copy of the output is not the last one to be written.               *)
(***************************************************************************)
EXTENDS PowerMode, TLAPS

\* A task is inside the mutex exactly from the assignment to the release.
MutexInv ==
  \A t \in Tasks : pc[t] \in {"recompute", "give"} <=> sysMutex = t

\* Only a task that has not recomputed yet leaves the policy behind the input.
PolicyInv ==
  (polIn = input /\ polMode = ComputeMode(input))
    \/ \E t \in Tasks : pc[t] = "recompute"

\* A task that has announced, or will announce, a change has still to copy
\* the output, or holds a current copy.
Owes(t) ==
  \/ pc[t] = "give" /\ changed[t]
  \/ pc[t] \in {"runtime", "read"}
  \/ pc[t] = "write" /\ policy[t] = polMode

\* Until two runs overlap, one task at a time has a copy to store, and the
\* market mode differs from the policy's only while some task owes it; a
\* task about to store an old copy is followed by one that owes the new one.
ModeInv ==
  ~ raced =>
    /\ \A t, u \in Tasks : pc[t] = "write" /\ pc[u] = "write" => t = u
    /\ mode = polMode \/ \E t \in Tasks : Owes(t)
    /\ \A t \in Tasks : pc[t] = "write" =>
         policy[t] = polMode \/ \E u \in Tasks : Owes(u)

\* An old copy about to be written is followed by a command, or by a change
\* that is still to be announced.
CopyInv == runtime = "copied" /\ ~ copyFresh => Announced \/ cmds > 0

LightInv == BacklightOwed /\ CopyInv

IInv == TypeOK /\ MutexInv /\ PolicyInv /\ ModeInv /\ LightInv

\* The mode of any input is one of the two.
LEMMA ModeType == ASSUME NEW in PROVE ComputeMode(in) \in Modes
  BY DEF ComputeMode, Modes

\* Init establishes the invariant.
LEMMA Initially == Init => IInv
<1> SUFFICES ASSUME Init PROVE IInv OBVIOUS
<1> USE DEF Init
<1>1. TypeOK
  <2>1. input \in Inputs BY PowerAssumption DEF Inputs
  <2>2. polMode \in Modes BY ModeType
  <2>3. 1 \in 0..RuntimeQueueLen BY PowerAssumption
  <2>4. pc \in [Tasks -> {"idle", "recompute", "give", "runtime", "read", "write"}]
    OBVIOUS
  <2>5. changed \in [Tasks -> BOOLEAN] /\ policy \in [Tasks -> Modes] BY <2>2
  <2>6. copyFresh \in BOOLEAN /\ litFresh \in BOOLEAN /\ raced \in BOOLEAN OBVIOUS
  <2> QED BY <2>1, <2>2, <2>3, <2>4, <2>5, <2>6 DEF TypeOK
<1>2. MutexInv BY PowerAssumption DEF MutexInv
<1>3. PolicyInv BY DEF PolicyInv
<1>4. ModeInv BY DEF ModeInv
<1>5. LightInv BY DEF LightInv, BacklightOwed, CopyInv
<1> QED BY <1>1, <1>2, <1>3, <1>4, <1>5 DEF IInv

\* A call of either setter.
LEMMA SetInputStep ==
  ASSUME IInv, NEW t \in Tasks, NEW in \in Inputs, SetInput(t, in)
  PROVE  IInv'
<1>1. TypeOK' BY DEF IInv, TypeOK, SetInput, policyVars, runtimeVars, freshVars
<1>2. MutexInv'
  BY PowerAssumption DEF IInv, TypeOK, MutexInv, SetInput
<1>3. PolicyInv'
  BY DEF IInv, TypeOK, PolicyInv, SetInput
<1>4. ModeInv'
  BY DEF IInv, TypeOK, ModeInv, Owes, SetInput, policyVars, runtimeVars
<1>5. LightInv'
  <2>1. Announced => Announced' BY DEF IInv, TypeOK, Announced, SetInput
  <2> QED BY <2>1 DEF IInv, LightInv, BacklightOwed, CopyInv, SetInput, runtimeVars, freshVars
<1> QED BY <1>1, <1>2, <1>3, <1>4, <1>5 DEF IInv

\* The policy follows the input; a change makes its announcer owe the mode.
LEMMA RecomputeStep ==
  ASSUME IInv, NEW t \in Tasks, Recompute(t)
  PROVE  IInv'
<1> USE DEF IInv, Recompute
<1>1. TypeOK'
  BY ModeType DEF TypeOK, Outdate, Differs, runtimeVars
<1>2. MutexInv' BY DEF TypeOK, MutexInv
<1>3. PolicyInv' BY DEF PolicyInv
<1>4. ModeInv'
  <2> SUFFICES ASSUME ~ raced PROVE ModeInv' BY DEF ModeInv
  <2>1. \A a, b \in Tasks : pc'[a] = "write" /\ pc'[b] = "write" => a = b
    BY DEF ModeInv, TypeOK
  <2>2. CASE Differs
    <3>1. pc'[t] = "give" /\ changed'[t] = TRUE BY <2>2 DEF TypeOK
    <3> QED BY <2>1, <3>1 DEF ModeInv, Owes
  <2>3. CASE ~ Differs
    <3>1. polMode' = polMode BY <2>3 DEF Differs
    <3>2. ASSUME NEW u \in Tasks, Owes(u) PROVE Owes(u)'
      BY <3>1, <3>2 DEF Owes, TypeOK
    <3>3. \A u \in Tasks : pc'[u] = "write" => pc[u] = "write" BY DEF TypeOK
    <3> QED BY <2>1, <3>1, <3>2, <3>3 DEF ModeInv
  <2> QED BY <2>2, <2>3
<1>5. LightInv'
  <2>1. CASE Differs
    <3>1. Announced' BY <2>1 DEF TypeOK, Announced
    <3> QED BY <3>1 DEF LightInv, BacklightOwed, CopyInv
  <2>2. CASE ~ Differs
    <3>1. Announced => Announced' BY DEF TypeOK, Announced
    <3>2. UNCHANGED <<cmds, runtime>> BY DEF runtimeVars
    <3>3. copyFresh' = copyFresh /\ litFresh' = litFresh
      BY <2>2 DEF Outdate, TypeOK
    <3> QED BY <3>1, <3>2, <3>3 DEF LightInv, BacklightOwed, CopyInv
  <2> QED BY <2>1, <2>2
<1> QED BY <1>1, <1>2, <1>3, <1>4, <1>5

\* Nobody stops owing the mode when the mutex is released.
LEMMA GiveStep ==
  ASSUME IInv, NEW t \in Tasks, Give(t)
  PROVE  IInv'
<1> USE DEF IInv, Give
<1>1. TypeOK' BY DEF TypeOK, policyVars, runtimeVars, freshVars
<1>2. MutexInv' BY PowerAssumption DEF TypeOK, MutexInv
<1>3. PolicyInv' BY DEF TypeOK, PolicyInv, policyVars
<1>4. ModeInv'
  <2>1. ASSUME NEW u \in Tasks, Owes(u) PROVE Owes(u)'
    BY <2>1 DEF Owes, TypeOK, policyVars
  <2>2. \A u \in Tasks : pc'[u] = "write" => pc[u] = "write" BY DEF TypeOK
  <2> QED BY <2>1, <2>2 DEF ModeInv, policyVars
<1>5. LightInv'
  <2>1. Announced => Announced' BY DEF TypeOK, Announced
  <2> QED BY <2>1 DEF LightInv, BacklightOwed, CopyInv, runtimeVars, freshVars
<1> QED BY <1>1, <1>2, <1>3, <1>4, <1>5

\* Queueing a command for the backlight changes nothing else.
LEMMA NotifyRuntimeStep ==
  ASSUME IInv, NEW t \in Tasks, NotifyRuntime(t)
  PROVE  IInv'
<1> USE DEF IInv, NotifyRuntime
<1>1. TypeOK' BY PowerAssumption DEF TypeOK, policyVars, freshVars
<1>2. MutexInv' BY DEF TypeOK, MutexInv
<1>3. PolicyInv' BY DEF TypeOK, PolicyInv, policyVars
<1>4. ModeInv'
  <2>1. ASSUME NEW u \in Tasks, Owes(u) PROVE Owes(u)'
    BY <2>1 DEF Owes, TypeOK, policyVars
  <2>2. \A u \in Tasks : pc'[u] = "write" => pc[u] = "write" BY DEF TypeOK
  <2> QED BY <2>1, <2>2 DEF ModeInv, policyVars
<1>5. LightInv'
  <2>1. cmds' > 0 BY PowerAssumption DEF TypeOK
  <2> QED BY <2>1 DEF LightInv, BacklightOwed, CopyInv
<1> QED BY <1>1, <1>2, <1>3, <1>4, <1>5

\* The copy is current, and nobody else holds one unless the runs overlap.
LEMMA ReadPolicyStep ==
  ASSUME IInv, NEW t \in Tasks, ReadPolicy(t)
  PROVE  IInv'
<1> USE DEF IInv, ReadPolicy
<1>1. TypeOK' BY DEF TypeOK, policyVars, runtimeVars, freshVars
<1>2. MutexInv' BY DEF TypeOK, MutexInv
<1>3. PolicyInv' BY DEF TypeOK, PolicyInv, policyVars
<1>4. ModeInv'
  <2> SUFFICES ASSUME ~ raced' PROVE ModeInv' BY DEF ModeInv
  <2>1. ~ raced /\ \A u \in Tasks : pc[u] # "write" OBVIOUS
  <2>2. \A u \in Tasks : pc'[u] = "write" => u = t BY <2>1 DEF TypeOK
  <2>3. Owes(t)' BY DEF Owes, TypeOK, policyVars
  <2> QED BY <2>2, <2>3 DEF ModeInv
<1>5. LightInv'
  <2>1. Announced => Announced' BY DEF TypeOK, Announced
  <2> QED BY <2>1 DEF LightInv, BacklightOwed, CopyInv, runtimeVars, freshVars
<1> QED BY <1>1, <1>2, <1>3, <1>4, <1>5

\* The task that stores a mode held the only copy: if it was an old one,
\* another task owes the new one.
LEMMA WriteModeStep ==
  ASSUME IInv, NEW t \in Tasks, WriteMode(t)
  PROVE  IInv'
<1> USE DEF IInv, WriteMode
<1>1. TypeOK' BY DEF TypeOK, policyVars, runtimeVars, freshVars
<1>2. MutexInv' BY DEF TypeOK, MutexInv
<1>3. PolicyInv' BY DEF TypeOK, PolicyInv, policyVars
<1>4. ModeInv'
  <2> SUFFICES ASSUME ~ raced PROVE ModeInv' BY DEF ModeInv
  <2>1. \A u \in Tasks : pc'[u] # "write" BY DEF ModeInv, TypeOK
  <2>2. CASE policy[t] = polMode
    BY <2>1, <2>2 DEF ModeInv, policyVars
  <2>3. CASE policy[t] # polMode
    <3>1. PICK u \in Tasks : Owes(u) BY <2>3 DEF ModeInv
    <3>2. u # t BY <2>3, <3>1 DEF Owes
    <3>3. Owes(u)' BY <3>1, <3>2 DEF Owes, TypeOK, policyVars
    <3> QED BY <2>1, <3>3 DEF ModeInv
  <2> QED BY <2>2, <2>3
<1>5. LightInv'
  <2>1. Announced => Announced' BY DEF TypeOK, Announced
  <2> QED BY <2>1 DEF LightInv, BacklightOwed, CopyInv, runtimeVars, freshVars
<1> QED BY <1>1, <1>2, <1>3, <1>4, <1>5

\* The backlight's task only reads the policy; it writes an old copy only when
\* a command for the new one is queued or still to come.
LEMMA RuntimeStep ==
  ASSUME IInv, RuntimeTask
  PROVE  IInv'
<1> USE DEF RuntimeTask, TakeCommand, CopyOutput, SetBacklight
<1>1. TypeOK'
  <2>1. cmds' \in 0..RuntimeQueueLen /\ runtime' \in {"idle", "taken", "copied"}
    BY PowerAssumption DEF IInv, TypeOK
  <2>2. copyFresh' \in BOOLEAN /\ litFresh' \in BOOLEAN
    BY DEF IInv, TypeOK, freshVars
  <2> QED BY <2>1, <2>2 DEF IInv, TypeOK, policyVars, taskVars
<1>2. UNCHANGED <<input, sysMutex, polIn, polMode, mode, pc, changed, policy, raced>>
  BY DEF policyVars, taskVars
<1>3. MutexInv' /\ PolicyInv' /\ ModeInv'
  BY <1>2 DEF IInv, MutexInv, PolicyInv, ModeInv, Owes
<1>4. LightInv'
  <2>1. Announced <=> Announced' BY <1>2 DEF Announced
  <2>2. CASE TakeCommand
    BY <2>1, <2>2 DEF IInv, LightInv, BacklightOwed, CopyInv, freshVars
  <2>3. CASE CopyOutput
    BY <2>1, <2>3 DEF IInv, LightInv, BacklightOwed, CopyInv
  <2>4. CASE SetBacklight
    BY <2>1, <2>4 DEF IInv, LightInv, BacklightOwed, CopyInv
  <2> QED BY <2>2, <2>3, <2>4
<1> QED BY <1>1, <1>3, <1>4 DEF IInv

\* Every step preserves the invariant.
LEMMA Inductive == IInv /\ [Next]_vars => IInv'
<1> SUFFICES ASSUME IInv, [Next]_vars PROVE IInv' OBVIOUS
<1>1. ASSUME NEW a \in FgApps, SetForegroundApp(a) PROVE IInv'
  <2>1. [input EXCEPT !.fg = a] \in Inputs BY DEF IInv, TypeOK, Inputs
  <2>2. UiTask \in Tasks BY DEF Tasks
  <2> QED BY <1>1, <2>1, <2>2, SetInputStep DEF SetForegroundApp
<1>2. ASSUME NEW t \in NetTasks, NEW b \in BOOLEAN, SetWifiConnected(t, b) PROVE IInv'
  <2>1. [input EXCEPT !.wifi = b] \in Inputs BY DEF IInv, TypeOK, Inputs
  <2>2. t \in Tasks BY DEF Tasks
  <2> QED BY <1>2, <2>1, <2>2, SetInputStep DEF SetWifiConnected
<1>3. ASSUME NEW t \in Tasks, SetterRuns(t) PROVE IInv'
  BY <1>3, RecomputeStep, GiveStep, NotifyRuntimeStep, ReadPolicyStep, WriteModeStep
     DEF SetterRuns
<1>4. CASE UNCHANGED vars
  BY <1>4 DEF IInv, TypeOK, MutexInv, PolicyInv, ModeInv, LightInv, BacklightOwed,
              CopyInv, Announced, Owes, vars, policyVars,
              taskVars, runtimeVars, freshVars
<1> QED BY <1>1, <1>2, <1>3, <1>4, RuntimeStep DEF Next

\* The invariant holds in every reachable state.
LEMMA Invariance == Spec => []IInv
  BY Initially, Inductive, PTL DEF Spec

\* Every variable keeps its type, whatever the number of setters.
THEOREM TypeCorrect == Spec => []TypeOK
<1>1. IInv => TypeOK BY DEF IInv
<1> QED BY <1>1, Invariance, PTL

\* system_state and power_policy agree whenever the mutex is free: the
\* nesting of the two mutexes leaves no window between them.
THEOREM PoliciesAgree == Spec => []PolicyAgrees
<1>1. IInv => PolicyAgrees
  BY PowerAssumption DEF IInv, MutexInv, PolicyInv, PolicyAgrees
<1> QED BY <1>1, Invariance, PTL

\* The market service gets the right mode, except by one way: two runs of
\* its handler that overlap.
THEOREM OnlyRacesLoseTheMode == Spec => []ModeAgreesUnlessRaced
<1>1. IInv => ModeAgreesUnlessRaced
  BY DEF IInv, ModeInv, Owes, Quiet, ModeAgreesUnlessRaced
<1> QED BY <1>1, Invariance, PTL

\* The backlight is never left showing an old output with nobody to replace it,
\* whatever the number of setters and however short the command queue.
THEOREM NoOutputIsLost == Spec => []BacklightOwed
<1>1. IInv => BacklightOwed BY DEF IInv, LightInv
<1> QED BY <1>1, Invariance, PTL
=============================================================================
