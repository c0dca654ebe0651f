----------------------------- MODULE NetManager -----------------------------
(***************************************************************************)
(* net_manager: keeps the device on one of the saved Wi-Fi networks.  Its  *)
(* functions run in the boot task, in the tasks that edit the profiles or  *)
(* scan (the device link's and the settings service's), in the event loop  *)
(* task, which delivers what the driver reports, and in the timer task,    *)
(* which runs the retry callback.  They share the profiles, the candidate  *)
(* list and the snapshot under a mutex, and without it the retry counter,  *)
(* the rescan flag and the flag that has one disconnection ignored.        *)
(*                                                                         *)
(* A profile is its network; its place in the table is what the code works *)
(* with.  The driver is external: connecting while connecting fails, while *)
(* associated it does nothing, and an idle driver reports no disconnection. *)
(* It reports an address and the end of an attempt or a connection, but    *)
(* nothing of an association that gets no address.                         *)
(***************************************************************************)
EXTENDS Integers, Sequences, FiniteSets

CONSTANTS
  Networks,     \* networks that can be saved
  Users,        \* tasks that edit profiles and scan
  MaxProfiles,  \* NET_PROFILE_MAX
  FastRetries,  \* NET_FAST_RETRY_COUNT
  MaxEvents,    \* bound: events waiting when the air or the timer does something
  MaxOps        \* bound: edits and scans in one behaviour

VARIABLES
  profiles,    \* s_profiles, a sequence of networks
  cur,         \* s_current_profile_idx + 1
  candidates,  \* s_candidates: places in the table
  tried,       \* s_candidate_pos
  state,       \* s_snapshot.state
  connected,   \* s_snapshot.wifi_connected and ip_ready
  failures,    \* s_disconnect_count
  rescan,      \* s_retry_requires_rescan
  ignore,      \* s_ignore_disconnect_event
  retry,       \* s_retry_timer is running
  driver,      \* external: what the Wi-Fi driver does
  config,      \* external: the network it is configured for
  target,      \* external: the network of the attempt under way
  open,        \* external: the networks that let the device in
  events,      \* external: reports the event loop has yet to deliver
  missed,      \* history: since the last attempt began the flag has swallowed an
               \* access point's own leave
  pc,          \* where each task is
  local,       \* its locals: the profile or the table copied, the force flag
  ops,         \* history: edits and scans so far
  disturbed    \* history: users have overlapped, or an edit was not persisted

listVars == <<candidates, tried>>
snapVars == <<cur, state, connected>>
retryVars == <<failures, rescan, retry>>
driverVars == <<driver, config, target, events, missed>>
histVars == <<ops, disturbed>>
vars == <<profiles, listVars, snapVars, retryVars, ignore, driverVars, open, pc,
          local, histVars>>

Tasks == Users \cup {"boot", "event", "timer"}
NoNetwork == "none"

\* The reasons to disconnect that the code tells apart.  "leave" answers the
\* device's own disconnect; "kicked" is the access point's, with the same code.
Leaving == {"leave", "kicked"}
Failing == {"lost", "auth", "kicked"}
Reports == {"start", "ip"} \cup Leaving \cup Failing

ASSUME NetAssumption ==
  /\ Users \cap {"boot", "event", "timer"} = {}
  /\ NoNetwork \notin Networks
  /\ MaxProfiles \in Nat \ {0}
  /\ FastRetries \in Nat
  /\ MaxEvents \in Nat \ {0}
  /\ MaxOps \in Nat

\* then: where a task goes on after it has disconnected.
Nothing ==
  [profile |-> NoNetwork, table |-> <<>>, force |-> FALSE, then |-> "idle"]
Goto(t, step) == pc' = [pc EXCEPT ![t] = step]
Leave(t) == Goto(t, "idle") /\ local' = [local EXCEPT ![t] = Nothing]

(***************************************************************************)
(* The driver's calls                                                      *)
(***************************************************************************)

\* esp_wifi_connect(): an attempt starts if the driver is idle and configured.
Connect ==
  /\ IF driver = "idle" /\ config # NoNetwork
     THEN driver' = "connecting" /\ target' = config /\ missed' = FALSE
     ELSE UNCHANGED <<driver, target, missed>>
  /\ UNCHANGED <<config, events>>

\* esp_wifi_disconnect(): an idle driver reports nothing.
Disconnect ==
  /\ IF driver = "idle" THEN UNCHANGED events
     ELSE events' = Append(events, "leave")
  /\ driver' = "idle"
  /\ target' = NoNetwork
  /\ UNCHANGED <<config, missed>>

\* schedule_retry()
ScheduleRetry(slow) == rescan' = slow /\ retry' = TRUE

(***************************************************************************)
(* advance_to_next_candidate(), start_connection_to_profile()              *)
(***************************************************************************)

\* The candidate is taken and the profile looked up in two sections of the
\* mutex; a table edited in between is one edited before the first, since
\* the candidates hold places that may be out of date anyway.
NextCandidate(t) ==
  /\ pc[t] = "advance"
  /\ tried < Len(candidates)
  /\ tried' = tried + 1
  /\ LET place == candidates[tried + 1] IN
       IF place > Len(profiles) THEN UNCHANGED <<snapVars, failures, rescan, pc, local>>
       ELSE /\ cur' = place
            /\ state' = "connecting" /\ connected' = FALSE
            /\ failures' = 0 /\ rescan' = FALSE
            /\ local' = [local EXCEPT ![t].profile = profiles[place],
                                      ![t].then = "connect"]
            /\ Goto(t, "stop")
  /\ UNCHANGED <<profiles, candidates, retry, ignore, driverVars, open, histVars>>

\* No candidate is left: the callbacks retry later, the other callers return
\* an error.
NoneLeft(t) ==
  /\ pc[t] = "advance"
  /\ tried = Len(candidates)
  /\ IF t \in {"event", "timer"} THEN ScheduleRetry(TRUE) ELSE UNCHANGED <<rescan, retry>>
  /\ failures' = IF t = "event" THEN FastRetries ELSE failures
  /\ Leave(t)
  /\ UNCHANGED <<profiles, listVars, snapVars, ignore, driverVars, open, histVars>>

StopTimer(t) ==
  /\ pc[t] = "stop"
  /\ retry' = FALSE
  /\ Goto(t, IF local[t].then = "connect" THEN "configure" ELSE "ignore")
  /\ UNCHANGED <<profiles, listVars, snapVars, failures, rescan, ignore, driverVars, open,
                 local, histVars>>

Configure(t) ==
  /\ pc[t] = "configure"
  /\ config' = local[t].profile
  /\ Goto(t, "ignore")
  /\ UNCHANGED <<profiles, listVars, snapVars, retryVars, ignore, driver, target, events, missed,
                 open, local, histVars>>

\* esp_wifi_set_config() may fail while an attempt is under way.
ConfigureFails(t) ==
  /\ pc[t] = "configure"
  /\ driver = "connecting"
  /\ Goto(t, "advance")
  /\ UNCHANGED <<profiles, listVars, snapVars, retryVars, ignore, driverVars, open, local, histVars>>

IgnoreNext(t) ==
  /\ pc[t] = "ignore"
  /\ ignore' = TRUE
  /\ Goto(t, "disconnect")
  /\ UNCHANGED <<profiles, listVars, snapVars, retryVars, driverVars, open, local, histVars>>

DisconnectNow(t) ==
  /\ pc[t] = "disconnect"
  /\ Disconnect
  /\ IF local[t].then = "idle" THEN Leave(t)
     ELSE Goto(t, local[t].then) /\ UNCHANGED local
  /\ UNCHANGED <<profiles, listVars, snapVars, retryVars, ignore, open, histVars>>

\* esp_wifi_connect() fails when another task's attempt is under way.
ConnectNow(t) ==
  /\ pc[t] = "connect"
  /\ Connect
  /\ IF driver = "connecting" THEN Goto(t, "advance") /\ UNCHANGED local ELSE Leave(t)
  /\ UNCHANGED <<profiles, listVars, snapVars, retryVars, ignore, open, histVars>>

Advance(t) ==
  \/ NextCandidate(t) \/ NoneLeft(t)
  \/ StopTimer(t) \/ Configure(t) \/ ConfigureFails(t)
  \/ IgnoreNext(t) \/ DisconnectNow(t) \/ ConnectNow(t)

(***************************************************************************)
(* wifi_event_handler(), in the event loop task                            *)
(***************************************************************************)
Delivers(reports) ==
  /\ pc["event"] = "idle"
  /\ events # <<>>
  /\ Head(events) \in reports
  /\ events' = Tail(events)
  /\ UNCHANGED <<profiles, listVars, driver, config, target, open, local, histVars>>

\* WIFI_EVENT_STA_START
Started ==
  /\ Delivers({"start"})
  /\ state' = IF profiles # <<>> THEN "connecting" ELSE "down"
  /\ Goto("event", IF cur # 0 THEN "reconnect" ELSE "idle")
  /\ UNCHANGED <<cur, connected, retryVars, ignore, missed>>

\* Mutant: the flag has the next disconnection ignored whatever its reason.
IgnoredAny ==
  /\ Delivers(Leaving \cup Failing)
  /\ ignore
  /\ ignore' = FALSE
  /\ missed' = (missed \/ Head(events) = "kicked")
  /\ UNCHANGED <<snapVars, retryVars, pc>>

\* WIFI_EVENT_STA_DISCONNECTED, taken for the answer to the device's own
\* disconnect: it goes by the reason, and the flag may be left from a
\* disconnect that had no answer.
Ignored ==
  /\ Delivers(Leaving)
  /\ ignore
  /\ ignore' = FALSE
  /\ missed' = (missed \/ Head(events) = "kicked")
  /\ UNCHANGED <<snapVars, retryVars, pc>>

\* WIFI_EVENT_STA_DISCONNECTED, for any other reason or without the flag
Disconnected ==
  /\ Delivers(Leaving \cup Failing)
  /\ ignore => Head(events) \notin Leaving
  /\ ignore' = FALSE
  /\ state' = IF profiles # <<>> THEN "connecting" ELSE "down"
  /\ connected' = FALSE
  /\ Goto("event", IF profiles = <<>> THEN "idle"
                   ELSE IF Head(events) = "auth" THEN "advance" ELSE "lost")
  /\ UNCHANGED <<cur, retryVars, missed>>

\* The rest of it, for a reason other than authentication.
Lost ==
  /\ pc["event"] = "lost"
  /\ ScheduleRetry(failures >= FastRetries)
  /\ failures' = IF failures < FastRetries THEN failures + 1 ELSE failures
  /\ Goto("event", "idle")
  /\ UNCHANGED <<profiles, listVars, snapVars, ignore, driverVars, open, local, histVars>>

\* IP_EVENT_STA_GOT_IP
GotIp ==
  /\ Delivers({"ip"})
  /\ failures' = 0 /\ rescan' = FALSE
  /\ state' = "up" /\ connected' = TRUE
  /\ UNCHANGED <<cur, retry, ignore, missed, pc>>

\* esp_wifi_connect() whose result is ignored: after STA_START and by the
\* retry callback.
Reconnect(t) ==
  /\ pc[t] = "reconnect"
  /\ Connect
  /\ Goto(t, "idle")
  /\ UNCHANGED <<profiles, listVars, snapVars, retryVars, ignore, open, local, histVars>>

EventTask ==
  \/ Started \/ Ignored \/ Disconnected \/ Lost \/ GotIp
  \/ Reconnect("event") \/ Advance("event")

(***************************************************************************)
(* retry_timer_cb(), in the timer task                                     *)
(***************************************************************************)
Fire ==
  /\ pc["timer"] = "idle"
  /\ retry
  /\ Len(events) < MaxEvents
  /\ retry' = FALSE
  /\ Goto("timer", IF profiles = <<>> THEN "idle" ELSE IF rescan THEN "wrap" ELSE "again")
  /\ UNCHANGED <<profiles, listVars, snapVars, failures, rescan, ignore, driverVars, open,
                 local, histVars>>

\* Mutant: the list is not started again.
WrapNever ==
  /\ pc["timer"] = "wrap"
  /\ rescan' = FALSE
  /\ Goto("timer", "advance")
  /\ UNCHANGED <<profiles, listVars, snapVars, failures, retry, ignore, driverVars, open,
                 local, histVars>>

\* On to the next stored profile, from the first once all have been tried.
Wrap ==
  /\ pc["timer"] = "wrap"
  /\ rescan' = FALSE
  /\ tried' = IF tried >= Len(candidates) THEN 0 ELSE tried
  /\ Goto("timer", "advance")
  /\ UNCHANGED <<profiles, candidates, snapVars, failures, retry, ignore, driverVars, open,
                 local, histVars>>

\* Mutant: the retry clears the connection too.
AgainClears ==
  /\ pc["timer"] = "again"
  /\ state' = "connecting" /\ connected' = FALSE
  /\ Goto("timer", "reconnect")
  /\ UNCHANGED <<profiles, listVars, cur, retryVars, ignore, driverVars, open,
                 local, histVars>>

\* The same profile again.
Again ==
  /\ pc["timer"] = "again"
  /\ state' = "connecting"
  /\ Goto("timer", "reconnect")
  /\ UNCHANGED <<profiles, listVars, cur, connected, retryVars, ignore, driverVars, open,
                 local, histVars>>

TimerTask == Fire \/ Wrap \/ Again \/ Reconnect("timer") \/ Advance("timer")

(***************************************************************************)
(* Editing the profiles and scanning                                       *)
(***************************************************************************)
Saved == {profiles[i] : i \in 1..Len(profiles)}
Place(n) == CHOOSE i \in 1..Len(profiles) : profiles[i] = n

Enter(u) ==
  /\ pc[u] = "idle" /\ pc["boot"] = "idle"
  /\ ops < MaxOps
  /\ ops' = ops + 1
  /\ disturbed' = (disturbed \/ \E v \in Users \ {u} : pc[v] # "idle")

\* net_manager_add_or_update_profile() of a saved network: with another
\* password for the current one it has to reconnect.
UpdateProfile(u, n, changed) ==
  /\ Enter(u)
  /\ n \in Saved
  /\ local' = [local EXCEPT ![u].force = changed /\ cur = Place(n)]
  /\ Goto(u, "persist")
  /\ UNCHANGED <<profiles, listVars, snapVars, retryVars, ignore, driverVars, open>>

AddProfile(u, n) ==
  /\ Enter(u)
  /\ n \notin Saved
  /\ Len(profiles) < MaxProfiles
  /\ profiles' = Append(profiles, n)
  /\ Goto(u, "persist")
  /\ UNCHANGED <<listVars, snapVars, retryVars, ignore, driverVars, open, local>>

\* Mutant: the current profile's place does not move up with it.
RemoveKeepsPlace(u, n) ==
  /\ Enter(u)
  /\ n \in Saved
  /\ LET p == Place(n) IN
       /\ profiles' = SubSeq(profiles, 1, p - 1) \o SubSeq(profiles, p + 1, Len(profiles))
       /\ cur' = IF cur = p THEN 0 ELSE cur
       /\ local' = [local EXCEPT ![u].force = (cur = p)]
  /\ IF Len(profiles) = 1
     THEN /\ state' = "down" /\ connected' = FALSE
          /\ candidates' = <<>> /\ tried' = 0
     ELSE UNCHANGED <<state, connected, listVars>>
  /\ Goto(u, "persist")
  /\ UNCHANGED <<retryVars, ignore, driverVars, open>>

\* net_manager_remove_profile(): later profiles move up.
RemoveProfile(u, n) ==
  /\ Enter(u)
  /\ n \in Saved
  /\ LET p == Place(n) IN
       /\ profiles' = SubSeq(profiles, 1, p - 1) \o SubSeq(profiles, p + 1, Len(profiles))
       /\ cur' = IF cur = p THEN 0 ELSE IF cur > p THEN cur - 1 ELSE cur
       /\ local' = [local EXCEPT ![u].force = (cur = p)]
  /\ IF Len(profiles) = 1
     THEN /\ state' = "down" /\ connected' = FALSE
          /\ candidates' = <<>> /\ tried' = 0
     ELSE UNCHANGED <<state, connected, listVars>>
  /\ Goto(u, "persist")
  /\ UNCHANGED <<retryVars, ignore, driverVars, open>>

\* persist_profiles_to_nvs(): a failure ends the edit, which stays in the
\* table but takes no effect on the connection.
Persist(u) ==
  /\ pc[u] = "persist"
  /\ \/ Goto(u, "rebuild") /\ UNCHANGED <<local, disturbed>>
     \/ Leave(u) /\ disturbed' = TRUE
  /\ UNCHANGED <<profiles, listVars, snapVars, retryVars, ignore, driverVars, open, ops>>

\* rebuild_candidate_list(): the table is copied ...
CopyTable(u) ==
  /\ pc[u] = "rebuild"
  /\ IF profiles = <<>>
     THEN /\ candidates' = <<>> /\ tried' = 0
          /\ Goto(u, "down") /\ UNCHANGED local
     ELSE /\ local' = [local EXCEPT ![u].table = profiles]
          /\ Goto(u, "install") /\ UNCHANGED listVars
  /\ UNCHANGED <<profiles, snapVars, retryVars, ignore, driverVars, open, histVars>>

\* ... and ordered: what a scan finds by strength, then the hidden ones, then
\* the rest.  Scans and strengths are external, so any order can result.
Orders(n) == {o \in [1..n -> 1..n] : \A i, j \in 1..n : o[i] = o[j] => i = j}

InstallCandidates(u) ==
  /\ pc[u] = "install"
  /\ candidates' \in Orders(Len(local[u].table))
  /\ tried' = 0
  /\ local' = [local EXCEPT ![u].table = <<>>]
  /\ Goto(u, IF u = "boot" THEN "advance" ELSE "review")
  /\ UNCHANGED <<profiles, snapVars, retryVars, ignore, driverVars, open, histVars>>

\* reconcile_connection_after_profile_change()
Keeps(u) ==
  /\ ~ local[u].force
  /\ candidates # <<>> /\ cur = candidates[1]
  /\ connected \/ state = "connecting"

Review(u) ==
  /\ pc[u] = "review"
  /\ IF Keeps(u) THEN Leave(u) ELSE Goto(u, "advance") /\ UNCHANGED local
  /\ UNCHANGED <<profiles, listVars, snapVars, retryVars, ignore, driverVars, open, histVars>>

\* The same, without a profile.
GoDown(u) ==
  /\ pc[u] = "down"
  /\ cur' = 0 /\ state' = "down" /\ connected' = FALSE
  /\ Goto(u, "stop")
  /\ UNCHANGED <<profiles, listVars, retryVars, ignore, driverVars, open, local, histVars>>

\* net_manager_scan_access_points() while there is no connection; with one,
\* or without profiles, a scan changes nothing here.
Scan(u) ==
  /\ Enter(u)
  /\ ~ connected /\ profiles # <<>>
  /\ retry' = FALSE
  /\ local' = [local EXCEPT ![u].then = "scan"]
  /\ Goto(u, "ignore")
  /\ UNCHANGED <<profiles, listVars, snapVars, failures, rescan, ignore, driverVars, open>>

ScanEnds(u) ==
  /\ pc[u] = "scan"
  /\ ScheduleRetry(FALSE)
  /\ Leave(u)
  /\ UNCHANGED <<profiles, listVars, snapVars, failures, ignore, driverVars, open, histVars>>

Begins(u) ==
  \/ \E n \in Networks :
       \/ \E changed \in BOOLEAN : UpdateProfile(u, n, changed)
       \/ AddProfile(u, n) \/ RemoveProfile(u, n)
  \/ Scan(u)

Continues(u) ==
  \/ Persist(u) \/ CopyTable(u) \/ InstallCandidates(u) \/ Review(u) \/ GoDown(u)
  \/ ScanEnds(u) \/ Advance(u)

\* net_manager_start(), whose scan has started the driver.
BootTask == InstallCandidates("boot") \/ Advance("boot")

(***************************************************************************)
(* External: the driver and the air                                        *)
(***************************************************************************)
Report(reports) ==
  /\ Len(events) < MaxEvents
  /\ \E r \in reports : events' = Append(events, r)

\* The network lets the device in, or the attempt fails.
AttemptEnds ==
  /\ driver = "connecting"
  /\ IF target \in open THEN driver' = "associated" /\ UNCHANGED events
     ELSE driver' = "idle" /\ Report(Failing)
  /\ target' = NoNetwork
  /\ UNCHANGED <<profiles, listVars, snapVars, retryVars, ignore, config, missed, open, pc,
                 local, histVars>>

\* The network's DHCP server answers, which it need not.
AddressGiven ==
  /\ driver = "associated"
  /\ driver' = "online"
  /\ Report({"ip"})
  /\ UNCHANGED <<profiles, listVars, snapVars, retryVars, ignore, config, target, missed, open,
                 pc, local, histVars>>

LinkDrops ==
  /\ driver \in {"associated", "online"}
  /\ driver' = "idle"
  /\ Report(Failing)
  /\ UNCHANGED <<profiles, listVars, snapVars, retryVars, ignore, config, target, missed, open,
                 pc, local, histVars>>

AirChanges(n) ==
  /\ open' = IF n \in open THEN open \ {n} ELSE open \cup {n}
  /\ UNCHANGED <<profiles, listVars, snapVars, retryVars, ignore, driverVars, pc, local, histVars>>

(***************************************************************************)
(* Specification                                                           *)
(***************************************************************************)
Tables == UNION {[1..k -> Networks] : k \in 0..MaxProfiles}

Init ==
  /\ profiles \in {p \in Tables : \A i, j \in DOMAIN p : p[i] = p[j] => i = j}
  /\ cur = 0
  /\ candidates = <<>> /\ tried = 0
  /\ state = "down" /\ connected = FALSE
  /\ failures = 0 /\ rescan = FALSE /\ retry = FALSE
  /\ ignore = FALSE
  /\ driver = "idle" /\ config = NoNetwork /\ target = NoNetwork
  /\ events = <<"start">> /\ missed = FALSE
  /\ open \in SUBSET Networks
  /\ pc = [t \in Tasks |-> IF t = "boot" /\ profiles # <<>> THEN "install" ELSE "idle"]
  /\ local = [t \in Tasks |-> IF t = "boot" THEN [Nothing EXCEPT !.table = profiles]
                              ELSE Nothing]
  /\ ops = 0 /\ disturbed = FALSE

Next ==
  \/ BootTask \/ EventTask \/ TimerTask
  \/ \E u \in Users : Begins(u) \/ Continues(u)
  \/ AttemptEnds \/ AddressGiven \/ LinkDrops
  \/ \E n \in Networks : AirChanges(n)

Spec == Init /\ [][Next]_vars

\* Every task goes on, the timer fires and an attempt ends some day: the driver
\* gives up by itself.  Nobody need edit or scan, no network need let the device
\* in, and one that does need not give it an address.
Fairness ==
  /\ WF_vars(BootTask) /\ WF_vars(EventTask) /\ WF_vars(TimerTask)
  /\ \A u \in Users : WF_vars(Continues(u))
  /\ WF_vars(AttemptEnds)

FairSpec == Spec /\ Fairness

(***************************************************************************)
(* Properties                                                              *)
(***************************************************************************)
Quiet == events = <<>> /\ \A t \in Tasks : pc[t] = "idle"

Steps == {"idle", "advance", "stop", "configure", "ignore", "disconnect", "connect",
          "reconnect", "lost", "wrap", "again", "persist", "rebuild", "install", "review",
          "down", "scan"}
Locals == [profile : Networks \cup {NoNetwork}, table : Seq(Networks), force : BOOLEAN,
           then : {"idle", "connect", "scan"}]

\* Every variable keeps its type, the places they hold are in the table.
TypeOK ==
  /\ profiles \in Seq(Networks) /\ Len(profiles) <= MaxProfiles
  /\ cur \in 0..Len(profiles)
  /\ candidates \in Seq(1..MaxProfiles)
  /\ tried \in 0..Len(candidates)
  /\ state \in {"down", "connecting", "up"}
  /\ connected \in BOOLEAN
  /\ failures \in 0..FastRetries
  /\ rescan \in BOOLEAN /\ retry \in BOOLEAN /\ ignore \in BOOLEAN
  /\ driver \in {"idle", "connecting", "associated", "online"}
  /\ config \in Networks \cup {NoNetwork}
  /\ target \in Networks \cup {NoNetwork}
  /\ driver = "connecting" => target # NoNetwork
  /\ events \in Seq(Reports) /\ missed \in BOOLEAN
  /\ open \subseteq Networks
  /\ pc \in [Tasks -> Steps]
  /\ local \in [Tasks -> Locals]
  /\ \A t \in Tasks : Len(local[t].table) <= MaxProfiles
  /\ ops \in 0..MaxOps /\ disturbed \in BOOLEAN

\* With a profile saved the device never stops trying: it is associated or
\* connecting, or a retry is armed, or a report or a task is on its way,
\* unless two users' edits or scans have overlapped, one was not persisted, or
\* the flag has swallowed an access point's leave since the last attempt.
RetryChainAlive ==
  (profiles # <<>> /\ ~ disturbed /\ ~ missed) => driver # "idle" \/ retry \/ ~ Quiet

\* A connection is shown once everything is handled.
OnlineIsShown ==
  (Quiet /\ driver = "online" /\ ~ disturbed) => connected

\* From some point on the retry timer, of seconds, fires after the tasks have
\* ended what they do, reports waiting and attempts under way included.
Timely == <>[][Fire => Quiet /\ driver # "connecting"]_vars

\* A device that associates again and again, or stays associated, is given an
\* address again and again.
AddressesGiven == SF_vars(AddressGiven)

\* A saved network that stays open is found, whatever the order the candidates
\* are tried in and however the other networks refuse the device, as long as
\* those that let it in give it an address and no access point's leave has been
\* swallowed: nothing watches an association without an address, and nobody
\* tries again after a swallowed leave.
Connects ==
  \A n \in Networks :
    (Timely /\ AddressesGiven /\ <>[](n \in Saved /\ n \in open /\ ~ disturbed /\ ~ missed))
      => []<>(driver = "online")

\* src/docs/plan/wifi-credential-optimization.md: without a profile the device
\* quietly waits to be configured.
NoProfileMeansDown ==
  (profiles = <<>> /\ Quiet /\ ~ disturbed) => state = "down" /\ ~ connected
=============================================================================
