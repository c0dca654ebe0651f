--------------------------- MODULE WeatherService ---------------------------
(***************************************************************************)
(* service_weather: a cached snapshot of one location's weather.  A worker *)
(* task takes refresh commands from a queue and fetches; commands come     *)
(* from the event bus handlers (each tick, each network change), from the  *)
(* UI's refresh button and from a new location applied by the device link. *)
(* All of them decide from copies taken under s_mutex and act after it is  *)
(* released.                                                               *)
(*                                                                         *)
(* Times are ages in minutes, up to the limits they are compared with.     *)
(* The server's answer is its location; texts and icons are left out.      *)
(***************************************************************************)
EXTENDS Integers, FiniteSets

CONSTANTS
  Locations,   \* the configurations that can be applied
  First,       \* the one loaded from NVS at boot
  UiTasks,     \* the tasks that request a refresh: the LVGL task
  QueueLen,    \* length of s_command_queue
  Guard,       \* WEATHER_MANUAL_REFRESH_GUARD_US
  Interval     \* WEATHER_REFRESH_INTERVAL_US

VARIABLES
  snapshot,   \* s_snapshot: its state, and the city it shows
  location,   \* s_location_config
  sinceRequest, sinceAttempt, sinceSuccess,
              \* age of s_last_request_us, s_last_attempt_us, s_last_success_us
  inProgress, \* s_refresh_in_progress
  cmds,       \* commands in s_command_queue
  worker,     \* where weather_service_task() is
  fetching,   \* its local: the location it fetches
  pc,         \* where each of the other tasks is
  connected,  \* net_manager_is_connected()
  reachable   \* external: the weather server answers

ageVars == <<sinceRequest, sinceAttempt, sinceSuccess>>
workerVars == <<worker, fetching>>
netVars == <<connected, reachable>>
vars == <<snapshot, location, ageVars, inProgress, cmds, workerVars, pc, netVars>>

Never == -1
Ages(limit) == 0..limit \cup {Never}

\* The timer task publishes ticks, the net task network changes; the device
\* link applies a location.
Handlers == {"timer", "net"}
Callers == UiTasks \cup {"link"}
Tasks == Handlers \cup Callers

ASSUME WeatherAssumption ==
  /\ First \in Locations
  /\ UiTasks \cap {"timer", "net", "link"} = {}
  /\ QueueLen \in Nat \ {0}
  /\ Guard \in Nat \ {0}
  /\ Interval \in Nat
  /\ Guard < Interval

Goto(t, step) == pc' = [pc EXCEPT ![t] = step]
Enqueued == IF cmds < QueueLen THEN cmds + 1 ELSE cmds

(***************************************************************************)
(* weather_service_event_handler()                                         *)
(***************************************************************************)

\* weather_service_mark_stale_if_needed()
MarkStale ==
  snapshot' = IF snapshot.state = "LIVE" /\ sinceSuccess = Interval
              THEN [snapshot EXCEPT !.state = "STALE"] ELSE snapshot

Tick ==
  /\ pc["timer"] = "idle"
  /\ MarkStale
  /\ Goto("timer", "copy")
  /\ UNCHANGED <<location, ageVars, inProgress, cmds, workerVars, netVars>>

\* external: net_manager publishes APP_EVENT_NET_CHANGED.
NetChanges(up) ==
  /\ pc["net"] = "idle"
  /\ connected' = up
  /\ Goto("net", "copy")
  /\ UNCHANGED <<snapshot, location, ageVars, inProgress, cmds, workerVars, reachable>>

FirstFetchDue == sinceRequest = Never \/ sinceRequest >= Guard

\* What the copy of the runtime state says: weather_service_should_auto_refresh()
\* for a tick, weather_service_should_refresh_on_reconnect() for a network change.
Due(t) ==
  /\ ~ inProgress
  /\ IF sinceSuccess = Never THEN FirstFetchDue
     ELSE IF t = "timer" THEN sinceSuccess >= Interval
     ELSE snapshot.state \in {"STALE", "ERROR"}

CopyState(t) ==
  /\ pc[t] = "copy"
  /\ Goto(t, IF Due(t) THEN "online" ELSE "idle")
  /\ UNCHANGED <<snapshot, location, ageVars, inProgress, cmds, workerVars, netVars>>

\* Each path asks net_manager_is_connected() outside the mutex.
AfterOnline(t) ==
  CASE t = "timer" -> "attempt"
    [] t = "net" -> "send"
    [] OTHER -> "guard"

CheckOnline(t) ==
  /\ pc[t] = "online"
  /\ Goto(t, IF connected THEN AfterOnline(t) ELSE "idle")
  /\ UNCHANGED <<snapshot, location, ageVars, inProgress, cmds, workerVars, netVars>>

\* A tick does not retry sooner than a minute after a failure.
CheckAttempt ==
  /\ pc["timer"] = "attempt"
  /\ Goto("timer", IF sinceAttempt = Never \/ sinceAttempt >= Guard
                   THEN "send" ELSE "idle")
  /\ UNCHANGED <<snapshot, location, ageVars, inProgress, cmds, workerVars, netVars>>

\* xQueueSend(..., 0); a full queue drops the command.
SendUnbounded(t) ==
  /\ pc[t] = "send"
  /\ cmds' = cmds + 1
  /\ Goto(t, "idle")
  /\ UNCHANGED <<snapshot, location, ageVars, inProgress, workerVars, netVars>>

Send(t) ==
  /\ pc[t] = "send"
  /\ cmds' = Enqueued
  /\ Goto(t, "idle")
  /\ UNCHANGED <<snapshot, location, ageVars, inProgress, workerVars, netVars>>

(***************************************************************************)
(* weather_service_request_refresh()                                       *)
(***************************************************************************)
RequestRefresh(t) ==
  /\ pc[t] = "idle"
  /\ Goto(t, "online")
  /\ UNCHANGED <<snapshot, location, ageVars, inProgress, cmds, workerVars, netVars>>

RequestAllowed ==
  ~ inProgress /\ (sinceRequest = Never \/ sinceRequest >= Guard)

\* Faulty variant: the request itself announces the refresh.
GuardAnnounces(t) ==
  /\ pc[t] = "guard"
  /\ sinceRequest' = IF RequestAllowed THEN 0 ELSE sinceRequest
  /\ snapshot' = IF RequestAllowed /\ sinceSuccess # Never
                 THEN [snapshot EXCEPT !.state = "REFRESHING"] ELSE snapshot
  /\ Goto(t, IF RequestAllowed THEN "send" ELSE "idle")
  /\ UNCHANGED <<location, sinceAttempt, sinceSuccess, inProgress, cmds,
                 workerVars, netVars>>

CheckGuard(t) ==
  /\ pc[t] = "guard"
  /\ sinceRequest' = IF RequestAllowed THEN 0 ELSE sinceRequest
  /\ Goto(t, IF RequestAllowed THEN "send" ELSE "idle")
  /\ UNCHANGED <<snapshot, location, sinceAttempt, sinceSuccess, inProgress,
                 cmds, workerVars, netVars>>

(***************************************************************************)
(* weather_service_apply_location_config()                                 *)
(***************************************************************************)

\* The location is saved; everything known of the old one is forgotten.  A
\* failed save returns before anything changes.
ApplyLocation(l) ==
  /\ pc["link"] = "idle"
  /\ location' = l
  /\ snapshot' = [state |-> "EMPTY", city |-> l]
  /\ sinceRequest' = Never
  /\ sinceAttempt' = Never
  /\ sinceSuccess' = Never
  /\ inProgress' = FALSE
  /\ Goto("link", "applied")
  /\ UNCHANGED <<cmds, workerVars, netVars>>

\* Only a connected device requests the first refresh; the request asks again.
AfterApply ==
  /\ pc["link"] = "applied"
  /\ Goto("link", IF connected THEN "online" ELSE "idle")
  /\ UNCHANGED <<snapshot, location, ageVars, inProgress, cmds, workerVars, netVars>>

(***************************************************************************)
(* weather_service_task()                                                  *)
(***************************************************************************)
TakeCommand ==
  /\ worker = "idle"
  /\ cmds > 0
  /\ cmds' = cmds - 1
  /\ worker' = "taken"
  /\ UNCHANGED <<snapshot, location, ageVars, inProgress, fetching, pc, netVars>>

WorkerOnline ==
  /\ worker = "taken"
  /\ worker' = IF connected THEN "start" ELSE "idle"
  /\ UNCHANGED <<snapshot, location, ageVars, inProgress, cmds, fetching, pc, netVars>>

\* A flag that is set makes the command void.  Only the worker sets it, so
\* that does not happen while every fetch clears it.
StartFetch ==
  /\ worker = "start"
  /\ IF inProgress
     THEN worker' = "idle" /\ UNCHANGED <<inProgress, snapshot, fetching>>
     ELSE /\ worker' = "fetching"
          /\ inProgress' = TRUE
          /\ snapshot' = IF sinceSuccess = Never THEN snapshot
                         ELSE [snapshot EXCEPT !.state = "REFRESHING"]
          /\ fetching' = location
  /\ UNCHANGED <<location, ageVars, cmds, pc, netVars>>

\* What is fetched is a local of the loop's body.
WorkerIdle == worker' = "idle" /\ fetching' = First

\* weather_service_update_success(), and the flag.
FetchSucceeds ==
  /\ worker = "fetching"
  /\ reachable
  /\ snapshot' = [state |-> "LIVE", city |-> fetching]
  /\ sinceSuccess' = 0
  /\ inProgress' = FALSE
  /\ WorkerIdle
  /\ UNCHANGED <<location, sinceRequest, sinceAttempt, cmds, pc, netVars>>

FailToError ==
  /\ worker = "fetching"
  /\ ~ reachable
  /\ snapshot' = [snapshot EXCEPT !.state = "ERROR"]
  /\ sinceAttempt' = 0
  /\ inProgress' = FALSE
  /\ WorkerIdle
  /\ UNCHANGED <<location, sinceRequest, sinceSuccess, cmds, pc, netVars>>

FailKeepsFlag ==
  /\ worker = "fetching"
  /\ ~ reachable
  /\ snapshot' = [snapshot EXCEPT !.state =
                    IF sinceSuccess = Never THEN "ERROR" ELSE "STALE"]
  /\ sinceAttempt' = 0
  /\ WorkerIdle
  /\ UNCHANGED <<location, sinceRequest, sinceSuccess, inProgress, cmds, pc, netVars>>

\* weather_service_update_failure(), and the flag.
FetchFails ==
  /\ worker = "fetching"
  /\ ~ reachable
  /\ snapshot' = [snapshot EXCEPT !.state =
                    IF sinceSuccess = Never THEN "ERROR" ELSE "STALE"]
  /\ sinceAttempt' = 0
  /\ inProgress' = FALSE
  /\ WorkerIdle
  /\ UNCHANGED <<location, sinceRequest, sinceSuccess, cmds, pc, netVars>>

(***************************************************************************)
(* Readers, time and the network                                           *)
(***************************************************************************)

\* weather_service_get_snapshot()
GetSnapshot ==
  /\ MarkStale
  /\ UNCHANGED <<location, ageVars, inProgress, cmds, workerVars, pc, netVars>>

Older(age, limit) == IF age = Never \/ age = limit THEN age ELSE age + 1

TimePasses ==
  /\ sinceRequest' = Older(sinceRequest, Guard)
  /\ sinceAttempt' = Older(sinceAttempt, Guard)
  /\ sinceSuccess' = Older(sinceSuccess, Interval)
  /\ UNCHANGED <<snapshot, location, inProgress, cmds, workerVars, pc, netVars>>

\* external
ServerChanges ==
  /\ reachable' = ~ reachable
  /\ UNCHANGED <<snapshot, location, ageVars, inProgress, cmds, workerVars, pc, connected>>

(***************************************************************************)
(* Specification                                                           *)
(***************************************************************************)
Init ==
  /\ snapshot = [state |-> "EMPTY", city |-> First]
  /\ location = First
  /\ sinceRequest = Never /\ sinceAttempt = Never /\ sinceSuccess = Never
  /\ inProgress = FALSE
  /\ cmds = 0
  /\ worker = "idle"
  /\ fetching = First
  /\ pc = [t \in Tasks |-> "idle"]
  /\ connected = FALSE
  /\ reachable \in BOOLEAN

Continue(t) ==
  \/ t \in Handlers /\ CopyState(t)
  \/ CheckOnline(t)
  \/ t = "timer" /\ CheckAttempt
  \/ t = "link" /\ AfterApply
  \/ t \in Callers /\ CheckGuard(t)
  \/ Send(t)

Worker ==
  \/ TakeCommand \/ WorkerOnline \/ StartFetch
  \/ FetchSucceeds \/ FetchFails

Next ==
  \/ Tick
  \/ \E up \in BOOLEAN : NetChanges(up)
  \/ \E t \in UiTasks : RequestRefresh(t)
  \/ \E l \in Locations : ApplyLocation(l)
  \/ \E t \in Tasks : Continue(t)
  \/ Worker
  \/ GetSnapshot
  \/ TimePasses
  \/ ServerChanges

Spec == Init /\ [][Next]_vars

\* Time passes, the 1 s timer fires, and every task that is on its way goes
\* on.  Nobody need press refresh, and the network need not come back.
Fairness ==
  /\ WF_vars(TimePasses)
  /\ WF_vars(Tick)
  /\ WF_vars(Worker)
  /\ \A t \in Tasks : WF_vars(Continue(t))

FairSpec == Spec /\ Fairness

(***************************************************************************)
(* Properties                                                              *)
(***************************************************************************)

\* Every variable keeps its type, and the command queue its bound.
TypeOK ==
  /\ snapshot \in [state : {"EMPTY", "LIVE", "STALE", "REFRESHING", "ERROR"},
                   city : Locations]
  /\ location \in Locations
  /\ sinceRequest \in Ages(Guard) /\ sinceAttempt \in Ages(Guard) /\ sinceSuccess \in Ages(Interval)
  /\ inProgress \in BOOLEAN
  /\ cmds \in 0..QueueLen
  /\ worker \in {"idle", "taken", "start", "fetching"}
  /\ fetching \in Locations
  /\ pc \in [Tasks -> {"idle", "copy", "online", "attempt", "guard", "send", "applied"}]
  /\ connected \in BOOLEAN /\ reachable \in BOOLEAN

\* Requirement R1: a snapshot says REFRESHING only while the worker fetches
\* and the flag says so, whatever is requested, dropped, applied or lost.
RefreshingIsReal ==
  snapshot.state = "REFRESHING" => worker = "fetching" /\ inProgress

\* A snapshot that has data keeps it: whether it is EMPTY or ERROR depends on
\* the location ever having been fetched, and on nothing that failed since.
DataIsKept ==
  sinceSuccess = Never <=> snapshot.state \in {"EMPTY", "ERROR"}

\* If the network and the server stay up and no more locations are applied,
\* the snapshot ends up showing the current location for good, although a
\* fetch for the previous one may have overwritten it.
LocationIsFetched ==
  (<>[](connected /\ reachable) /\ <>[](pc["link"] = "idle"))
    => <>[](snapshot.city = location /\ sinceSuccess # Never)
=============================================================================
