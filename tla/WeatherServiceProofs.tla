------------------------ MODULE WeatherServiceProofs ------------------------
(***************************************************************************)
(* WeatherService's invariants, for any locations, any tasks that request  *)
(* a refresh, any queue length and any intervals.  The three are inductive *)
(* together: REFRESHING leaves the snapshot by the step that ends the      *)
(* fetch, or by the one that clears the flag during it.                    *)
(***************************************************************************)
EXTENDS WeatherService, TLAPS

IInv == TypeOK /\ RefreshingIsReal /\ DataIsKept

\* Never is no age that has passed.
LEMMA AgeFacts ==
  ASSUME NEW limit \in Nat
  PROVE  /\ limit # Never /\ Never \in Ages(limit) /\ 0 \in Ages(limit) /\ 0 # Never
         /\ \A age \in Ages(limit) :
              Older(age, limit) \in Ages(limit) /\ (Older(age, limit) = Never <=> age = Never)
<1>1. ASSUME NEW age \in 0..limit
      PROVE  Older(age, limit) \in Ages(limit) /\ Older(age, limit) # Never
  BY DEF Never, Ages, Older
<1> QED BY <1>1 DEF Never, Ages, Older

\* The two limits.
LEMMA Limits == Guard \in Nat /\ Interval \in Nat
  BY WeatherAssumption

\* Init establishes the invariant.
LEMMA Initially == Init => IInv
<1> SUFFICES ASSUME Init PROVE IInv OBVIOUS
<1>1. TypeOK
  <2>1. First \in Locations /\ 0 \in 0..QueueLen BY WeatherAssumption
  <2>2. pc \in [Tasks -> {"idle", "copy", "online", "attempt", "guard", "send", "applied"}]
    BY DEF Init
  <2> QED BY <2>1, <2>2, AgeFacts, Limits DEF Init, TypeOK
<1>2. RefreshingIsReal /\ DataIsKept BY DEF Init, RefreshingIsReal, DataIsKept
<1> QED BY <1>1, <1>2 DEF IInv

\* Marking a snapshot stale, for a tick or for a reader.
LEMMA MarkStaleStep ==
  ASSUME IInv, MarkStale, UNCHANGED <<sinceSuccess, worker, inProgress>>
  PROVE  /\ RefreshingIsReal' /\ DataIsKept'
         /\ snapshot' \in [state : {"EMPTY", "LIVE", "STALE", "REFRESHING", "ERROR"},
                           city : Locations]
  BY DEF IInv, TypeOK, RefreshingIsReal, DataIsKept, MarkStale

\* Steps that only move a task on, or time.
LEMMA Kept ==
  ASSUME IInv, UNCHANGED <<snapshot, inProgress, worker>>,
         sinceSuccess' = Never <=> sinceSuccess = Never
  PROVE  RefreshingIsReal' /\ DataIsKept'
  BY DEF IInv, RefreshingIsReal, DataIsKept

PcType == pc \in [Tasks -> {"idle", "copy", "online", "attempt", "guard", "send", "applied"}]

\* Sending a task to a step.
LEMMA GotoType ==
  ASSUME PcType, NEW t, Goto(t, "idle") \/ Goto(t, "copy") \/ Goto(t, "online")
                 \/ Goto(t, "attempt") \/ Goto(t, "guard") \/ Goto(t, "send")
                 \/ Goto(t, "applied")
  PROVE  PcType'
  BY DEF PcType, Goto

\* A step of a task that is on its way.
LEMMA ContinueStep ==
  ASSUME IInv, NEW t \in Tasks, Continue(t)
  PROVE  IInv'
<1>0. PcType BY DEF IInv, TypeOK, PcType
<1>1. CASE CopyState(t)
  <2>1. PcType' BY <1>0, <1>1, GotoType DEF CopyState
  <2> QED BY <1>1, <2>1, Kept DEF IInv, TypeOK, PcType, CopyState, ageVars, workerVars, netVars
<1>2. CASE CheckOnline(t)
  <2>1. PcType' BY <1>0, <1>2, GotoType DEF CheckOnline, AfterOnline
  <2> QED BY <1>2, <2>1, Kept DEF IInv, TypeOK, PcType, CheckOnline, ageVars, workerVars, netVars
<1>3. CASE CheckAttempt
  <2>1. PcType' BY <1>0, <1>3, GotoType DEF CheckAttempt
  <2> QED BY <1>3, <2>1, Kept DEF IInv, TypeOK, PcType, CheckAttempt, ageVars, workerVars, netVars
<1>4. CASE AfterApply
  <2>1. PcType' BY <1>0, <1>4, GotoType DEF AfterApply
  <2> QED BY <1>4, <2>1, Kept DEF IInv, TypeOK, PcType, AfterApply, ageVars, workerVars, netVars
<1>5. CASE CheckGuard(t)
  <2>1. PcType' BY <1>0, <1>5, GotoType DEF CheckGuard
  <2>2. sinceRequest' \in Ages(Guard) BY <1>5, AgeFacts, Limits DEF IInv, TypeOK, CheckGuard
  <2> QED BY <1>5, <2>1, <2>2, Kept DEF IInv, TypeOK, PcType, CheckGuard, workerVars, netVars
<1>6. CASE Send(t)
  <2>1. PcType' BY <1>0, <1>6, GotoType DEF Send
  <2>2. cmds' \in 0..QueueLen
    BY <1>6, WeatherAssumption DEF IInv, TypeOK, Send, Enqueued
  <2> QED BY <1>6, <2>1, <2>2, Kept DEF IInv, TypeOK, PcType, Send, ageVars, workerVars, netVars
<1> QED BY <1>1, <1>2, <1>3, <1>4, <1>5, <1>6 DEF Continue

\* A step of the worker.
LEMMA WorkerStep ==
  ASSUME IInv, Worker
  PROVE  IInv'
<1> USE DEF IInv
<1>0. First \in Locations BY WeatherAssumption
<1>1. CASE TakeCommand
  <2>1. cmds' \in 0..QueueLen BY <1>1, WeatherAssumption DEF TypeOK, TakeCommand
  <2> QED BY <1>1, <2>1 DEF TypeOK, RefreshingIsReal, DataIsKept, TakeCommand, ageVars, netVars
<1>2. CASE WorkerOnline
  BY <1>2 DEF TypeOK, RefreshingIsReal, DataIsKept, WorkerOnline, ageVars, netVars
<1>3. CASE StartFetch
  BY <1>3 DEF TypeOK, RefreshingIsReal, DataIsKept, StartFetch, ageVars, netVars
<1>4. CASE FetchSucceeds
  BY <1>4, <1>0, AgeFacts, Limits
  DEF TypeOK, RefreshingIsReal, DataIsKept, FetchSucceeds, WorkerIdle, netVars
<1>5. CASE FetchFails
  BY <1>5, <1>0, AgeFacts, Limits
  DEF TypeOK, RefreshingIsReal, DataIsKept, FetchFails, WorkerIdle, netVars
<1> QED BY <1>1, <1>2, <1>3, <1>4, <1>5 DEF Worker

\* A new location forgets the data together with their age.
LEMMA ApplyStep ==
  ASSUME IInv, NEW l \in Locations, ApplyLocation(l)
  PROVE  IInv'
<1>1. PcType' BY GotoType DEF IInv, TypeOK, PcType, ApplyLocation
<1> QED BY <1>1, AgeFacts, Limits DEF IInv, TypeOK, PcType, RefreshingIsReal, DataIsKept, ApplyLocation,
           workerVars, netVars

\* Every step preserves the invariant.
LEMMA Inductive == IInv /\ [Next]_vars => IInv'
<1> SUFFICES ASSUME IInv, [Next]_vars PROVE IInv' OBVIOUS
<1>0. PcType BY DEF IInv, TypeOK, PcType
<1>1. CASE Tick
  <2>1. PcType' BY <1>0, <1>1, GotoType DEF Tick
  <2> QED BY <1>1, <2>1, MarkStaleStep DEF Tick, IInv, TypeOK, PcType, ageVars, workerVars, netVars
<1>2. CASE \E up \in BOOLEAN : NetChanges(up)
  <2>1. PcType' BY <1>0, <1>2, GotoType DEF NetChanges
  <2> QED BY <1>2, <2>1, Kept DEF NetChanges, IInv, TypeOK, PcType, ageVars, workerVars
<1>3. CASE \E t \in UiTasks : RequestRefresh(t)
  <2>1. PcType' BY <1>0, <1>3, GotoType DEF RequestRefresh
  <2> QED BY <1>3, <2>1, Kept DEF RequestRefresh, IInv, TypeOK, PcType, ageVars, workerVars, netVars
<1>4. CASE GetSnapshot
  BY <1>4, MarkStaleStep DEF GetSnapshot, IInv, TypeOK, ageVars, workerVars, netVars
<1>5. CASE TimePasses
  BY <1>5, Kept, AgeFacts, Limits DEF TimePasses, IInv, TypeOK, workerVars, netVars
<1>6. CASE ServerChanges
  BY <1>6, Kept DEF ServerChanges, IInv, TypeOK, ageVars, workerVars
<1>7. CASE UNCHANGED vars
  BY <1>7, Kept DEF vars, IInv, TypeOK, ageVars, workerVars, netVars
<1> QED BY <1>1, <1>2, <1>3, <1>4, <1>5, <1>6, <1>7, ApplyStep, ContinueStep, WorkerStep DEF Next

\* The invariant holds in every reachable state.
LEMMA Invariance == Spec => []IInv
  BY Initially, Inductive, PTL DEF Spec

\* Every variable keeps its type, whatever the constants.
THEOREM TypeCorrect == Spec => []TypeOK
<1>1. IInv => TypeOK BY DEF IInv
<1> QED BY <1>1, Invariance, PTL

\* Requirement R1: a snapshot says REFRESHING only during a fetch that the
\* flag announces, even when a location is applied in the middle of one.
THEOREM RefreshingOnlyWhileFetching == Spec => []RefreshingIsReal
<1>1. IInv => RefreshingIsReal BY DEF IInv
<1> QED BY <1>1, Invariance, PTL

\* Data that were fetched stay on display, stale if need be, until another
\* location is applied.
THEOREM DataAreKept == Spec => []DataIsKept
<1>1. IInv => DataIsKept BY DEF IInv
<1> QED BY <1>1, Invariance, PTL
=============================================================================
