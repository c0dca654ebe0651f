-------------------------- MODULE NetManagerProofs --------------------------
(***************************************************************************)
(* NetManager's types and the life of its retry chain, for any networks,   *)
(* any tasks that edit and scan, any table size and any number of fast     *)
(* retries.                                                                *)
(*                                                                         *)
(* RetryChainAlive is not inductive: that something goes on does not say   *)
(* that it ends in an attempt.  Chain lists what keeps the device trying;  *)
(* every step that uses up one of its disjuncts makes another one true.    *)
(* The one that is lost is a failure the flag swallows, which missed tells. *)
(* Only a first profile starts without it, and then the task that adds it  *)
(* (or the boot task) is on its way to a candidate nobody has taken.       *)
(*                                                                         *)
(* OnlineIsShown needs what comes before Quiet: a connection that is not   *)
(* shown yet is still to be reported, with no bad report behind that one,  *)
(* or a task is about to end it.                                           *)
(***************************************************************************)
EXTENDS NetManager, SequenceTheorems, TLAPS

Actors == Users \cup {"boot"}
Trying == {"stop", "configure", "ignore", "disconnect", "connect"}

\* What keeps the device trying.
Chain ==
  \/ driver # "idle" \/ retry
  \/ \E i \in 1..Len(events) : events[i] \in Failing
  \/ pc["event"] \in Trying \cup {"lost", "advance"}
  \/ pc["timer"] \in Trying \cup {"wrap", "again", "reconnect", "advance"}
  \/ \E u \in Actors : (pc[u] \in Trying /\ local[u].then # "idle") \/ pc[u] = "scan"

\* A task that brings up the first profile.
Bringing(u) ==
  /\ cur = 0
  /\ \/ pc[u] \in {"persist", "rebuild"}
     \/ pc[u] = "install" /\ local[u].table = profiles
     \/ /\ pc[u] \in {"review", "advance"}
        /\ tried < Len(candidates)
        /\ \A i \in 1..Len(candidates) : candidates[i] <= Len(profiles)

Alive == (profiles # <<>> /\ ~ disturbed /\ ~ missed) => Chain \/ \E u \in Actors : Bringing(u)

\* Until users have overlapped only one task at a time edits, scans or boots.
Sole == ~ disturbed =>
  \A u, v \in Actors : pc[u] # "idle" /\ pc[v] # "idle" => u = v

\* Where a task goes on after it has disconnected.
ThenInv ==
  /\ \A t \in Tasks : pc[t] \in {"configure", "connect"} => local[t].then = "connect"
  /\ \A t \in Tasks : pc[t] = "stop" => local[t].then # "scan"
  /\ \A t \in Tasks \ Users : pc[t] \in Trying => local[t].then = "connect"
  /\ \A t \in Tasks : pc[t] \in Trying /\ local[t].then = "connect"
                        => local[t].profile \in Networks
  /\ \A u \in Users : pc[u] \in {"idle", "persist", "rebuild", "install", "review", "down"}
                        => local[u].then = "idle"

\* Each task keeps to its own steps.
PlaceInv ==
  /\ pc["boot"] \in Trying \cup {"idle", "install", "advance"}
  /\ pc["event"] \in Trying \cup {"idle", "reconnect", "lost", "advance"}
  /\ pc["timer"] \in Trying \cup {"idle", "wrap", "again", "reconnect", "advance"}
  /\ \A u \in Users : pc[u] \in Trying \cup {"idle", "persist", "rebuild", "install",
                                             "review", "down", "advance", "scan"}

\* A task gives the connection up only without a profile.
DownInv == ~ disturbed =>
  \A u \in Actors :
    pc[u] = "down" \/ (pc[u] \in Trying /\ local[u].then = "idle") => profiles = <<>>

\* Until the driver is configured nothing has been started that relies on it.
Unstarted ==
  /\ driver = "idle" /\ ~ retry /\ ~ missed
  /\ \A i \in 1..Len(events) : events[i] = "start"
  /\ pc["event"] \in {"idle", "reconnect"}
  /\ pc["timer"] = "idle"
  /\ \A u \in Actors :
       /\ pc[u] \notin {"connect", "scan"}
       /\ pc[u] \in {"ignore", "disconnect"} => local[u].then = "idle"

ConfigInv == ~ disturbed => config # NoNetwork \/ Unstarted

\* The parts of TypeOK.
PcType == pc \in [Tasks -> Steps]
LocalType ==
  local \in [Tasks -> Locals] /\ \A t \in Tasks : Len(local[t].table) <= MaxProfiles
DataTypes ==
  /\ profiles \in Seq(Networks) /\ Len(profiles) <= MaxProfiles
  /\ cur \in 0..Len(profiles)
  /\ candidates \in Seq(1..MaxProfiles) /\ tried \in 0..Len(candidates)
  /\ state \in {"down", "connecting", "up"} /\ connected \in BOOLEAN
  /\ failures \in 0..FastRetries
  /\ rescan \in BOOLEAN /\ retry \in BOOLEAN /\ ignore \in BOOLEAN
  /\ driver \in {"idle", "connecting", "associated", "online"}
  /\ config \in Networks \cup {NoNetwork} /\ target \in Networks \cup {NoNetwork}
  /\ driver = "connecting" => target # NoNetwork
  /\ events \in Seq(Reports) /\ missed \in BOOLEAN
  /\ open \subseteq Networks
  /\ ops \in 0..MaxOps /\ disturbed \in BOOLEAN

IInv == /\ PcType /\ LocalType /\ DataTypes
        /\ PlaceInv /\ Sole /\ ThenInv /\ DownInv /\ ConfigInv /\ Alive

\* The sequences have lengths.
LEMMA Lengths ==
  ASSUME DataTypes
  PROVE  Len(profiles) \in Nat /\ Len(candidates) \in Nat /\ Len(events) \in Nat
  BY LenProperties DEF DataTypes

\* A task leaves: its locals are cleared.
LEMMA LeaveTypes ==
  ASSUME PcType, LocalType, NEW t \in Tasks, Leave(t)
  PROVE  PcType' /\ LocalType'
<1>1. PcType' BY DEF PcType, Steps, Leave, Goto
<1>2. Nothing \in Locals /\ Len(Nothing.table) <= MaxProfiles
  <2>1. <<>> \in Seq(Networks) /\ Len(<<>>) = 0 BY EmptySeq
  <2> QED BY <2>1, NetAssumption DEF Nothing, Locals
<1>3. local' = [local EXCEPT ![t] = Nothing] BY DEF Leave
<1>4. LocalType' BY <1>2, <1>3 DEF LocalType
<1> QED BY <1>1, <1>4

\* A task takes over a copy of the table, or drops it.
LEMMA TableType ==
  ASSUME LocalType, DataTypes, NEW t \in Tasks, NEW s \in {profiles, <<>>},
         local' = [local EXCEPT ![t].table = s]
  PROVE  LocalType'
<1>1. s \in Seq(Networks) /\ Len(s) <= MaxProfiles
  <2>1. CASE s = profiles BY <2>1 DEF DataTypes
  <2>2. CASE s = <<>>
    <3>1. Len(s) = 0 /\ s \in Seq(Networks) BY <2>2, EmptySeq
    <3> QED BY <3>1, NetAssumption
  <2> QED BY <2>1, <2>2
<1>2. [local[t] EXCEPT !.table = s] \in Locals BY <1>1 DEF LocalType, Locals
<1>3. local' = [local EXCEPT ![t] = [local[t] EXCEPT !.table = s]] BY DEF LocalType
<1>4. local' \in [Tasks -> Locals] BY <1>2, <1>3 DEF LocalType
<1>5. ASSUME NEW v \in Tasks PROVE Len(local'[v].table) <= MaxProfiles
  <2>1. CASE v = t
    <3>1. local'[v] = [local[t] EXCEPT !.table = s] BY <2>1, <1>3 DEF LocalType
    <3>2. local'[v].table = s BY <3>1 DEF LocalType, Locals
    <3> QED BY <3>2, <1>1
  <2>2. CASE v # t
    <3>1. local'[v] = local[v] BY <2>2, <1>3 DEF LocalType
    <3> QED BY <3>1 DEF LocalType
  <2> QED BY <2>1, <2>2
<1> QED BY <1>4, <1>5 DEF LocalType

\* A report joins the queue, or is delivered.
LEMMA ReportTypes ==
  ASSUME events \in Seq(Reports)
  PROVE  /\ \A r \in Reports : Append(events, r) \in Seq(Reports)
         /\ events # <<>> => Tail(events) \in Seq(Reports) /\ Head(events) \in Reports
  BY AppendProperties, HeadTailProperties

\* The candidate taken is a place a table can have.
LEMMA Taken ==
  ASSUME DataTypes, tried < Len(candidates)
  PROVE  /\ tried + 1 \in 1..Len(candidates)
         /\ candidates[tried + 1] \in 1..MaxProfiles
         /\ candidates[tried + 1] <= Len(profiles)
              => candidates[tried + 1] \in 1..Len(profiles)
                 /\ profiles[candidates[tried + 1]] \in Networks
<1>1. tried + 1 \in 1..Len(candidates) BY Lengths DEF DataTypes
<1>2. candidates[tried + 1] \in 1..MaxProfiles BY <1>1, ElementOfSeq DEF DataTypes
<1>3. ASSUME candidates[tried + 1] <= Len(profiles)
      PROVE  candidates[tried + 1] \in 1..Len(profiles)
             /\ profiles[candidates[tried + 1]] \in Networks
  <2>1. candidates[tried + 1] \in 1..Len(profiles) BY <1>2, <1>3, Lengths, NetAssumption
  <2> QED BY <2>1, ElementOfSeq DEF DataTypes
<1> QED BY <1>1, <1>2, <1>3

\* A report that waits behind the first is still there when that is delivered.
LEMMA Waiting ==
  ASSUME DataTypes, events # <<>>, events' = Tail(events),
         NEW S, Head(events) \notin S, NEW i \in 1..Len(events), events[i] \in S
  PROVE  \E j \in 1..Len(events') : events'[j] \in S
<1>1. /\ Len(events') = Len(events) - 1 /\ Len(events) \in Nat
      /\ \A j \in 1..Len(events') : events'[j] = events[j + 1]
  BY HeadTailProperties, Lengths DEF DataTypes
<1>2. i # 1 BY DEF DataTypes
<1>3. i - 1 \in 1..Len(events') /\ events'[i - 1] = events[i] BY <1>1, <1>2
<1> QED BY <1>3

\* An empty table has no place.
LEMMA NoPlace == \A i \in 1..Len(<<>>) : FALSE
  BY EmptySeq

(***************************************************************************)
(* advance_to_next_candidate(), in whatever task                           *)
(***************************************************************************)

\* A candidate is taken, or passed over when its place is no longer in the table.
LEMMA NextCandidateStep ==
  ASSUME IInv, NEW t \in Tasks, NextCandidate(t)
  PROVE  IInv'
<1> USE DEF IInv
<1> DEFINE place == candidates[tried + 1]
<1>1. tried + 1 \in 1..Len(candidates) /\ place \in 1..MaxProfiles /\ pc[t] = "advance"
  BY Taken DEF NextCandidate
<1>2. tried' \in 0..Len(candidates) BY <1>1, Lengths DEF NextCandidate, DataTypes
<1>3. CASE place > Len(profiles)
  <2>1. UNCHANGED <<profiles, candidates, cur, state, connected, failures, rescan, retry, ignore,
                    driver, config, target, events, missed, open, pc, local, ops, disturbed>>
    BY <1>3 DEF NextCandidate, snapVars, driverVars, histVars
  <2>2. PcType' /\ LocalType' /\ DataTypes' BY <1>2, <2>1 DEF PcType, LocalType, DataTypes
  <2>3. PlaceInv' /\ Sole' /\ ThenInv' /\ DownInv' /\ ConfigInv'
    BY <2>1 DEF PlaceInv, Sole, ThenInv, DownInv, ConfigInv, Unstarted
  <2>4. ASSUME NEW u \in Actors, Bringing(u), profiles # <<>>, ~ disturbed PROVE Chain \/ Bringing(u)'
    <3> SUFFICES ASSUME ~ Chain PROVE Bringing(u)' OBVIOUS
    <3>1. t \in Actors /\ pc[u] # "idle"
      BY <1>1, <2>4 DEF Chain, Bringing, Actors, Tasks
    <3>2. u = t BY <1>1, <2>4, <3>1 DEF Sole
    <3>3. place <= Len(profiles) BY <1>1, <2>4, <3>2 DEF Bringing
    <3> QED BY <1>1, <1>3, <3>3, Lengths, NetAssumption
  <2>5. Chain' = Chain BY <2>1 DEF Chain
  <2>6. Alive' BY <2>1, <2>4, <2>5 DEF Alive
  <2> QED BY <2>2, <2>3, <2>6
<1>4. CASE ~ (place > Len(profiles))
  <2>1. place \in 1..Len(profiles) /\ profiles[place] \in Networks
    <3>1. tried < Len(candidates) BY DEF NextCandidate
    <3>2. place <= Len(profiles) BY <1>1, <1>4, Lengths, NetAssumption
    <3> QED BY <3>1, <3>2, Taken
  <2>2. /\ cur' = place /\ state' = "connecting" /\ connected' = FALSE
        /\ failures' = 0 /\ rescan' = FALSE
        /\ local' = [local EXCEPT ![t].profile = profiles[place], ![t].then = "connect"]
        /\ pc' = [pc EXCEPT ![t] = "stop"]
        /\ UNCHANGED <<profiles, candidates, retry, ignore, driver, config, target, events, missed, open,
                       ops, disturbed>>
    BY <1>4 DEF NextCandidate, Goto, driverVars, histVars
  <2> HIDE DEF place
  <2>3. PcType' BY <2>2 DEF PcType, Steps
  <2>4. LocalType' BY <2>1, <2>2 DEF LocalType, Locals
  <2>5. DataTypes'
    <3>1. 0 \in 0..FastRetries /\ place \in 0..Len(profiles) BY <2>1, Lengths, NetAssumption
    <3> QED BY <1>2, <2>2, <3>1 DEF DataTypes
  <2>6. pc'[t] = "stop" /\ local'[t].then = "connect" /\ local'[t].profile \in Networks
    BY <2>1, <2>2 DEF PcType, LocalType, Locals
  <2>7. \A v \in Tasks \ {t} : pc'[v] = pc[v] /\ local'[v] = local[v]
    BY <2>2 DEF PcType, LocalType
  <2>8. PlaceInv' BY <2>6, <2>7, NetAssumption DEF PlaceInv, Tasks, Trying
  <2>9. Sole' BY <1>1, <2>2, <2>6, <2>7 DEF Sole, Actors, Tasks
  <2>10. ThenInv' BY <2>6, <2>7 DEF ThenInv, Tasks, Trying
  <2>11. DownInv' BY <2>2, <2>6, <2>7 DEF DownInv, Actors, Tasks, Trying
  <2>12. ConfigInv'
    <3> SUFFICES ASSUME ~ disturbed, Unstarted PROVE Unstarted' BY <2>2 DEF ConfigInv
    <3>1. t \in Actors /\ t \notin {"event", "timer"}
      BY <1>1, NetAssumption DEF Unstarted, Actors, Tasks
    <3>2. "event" \in Tasks \ {t} /\ "timer" \in Tasks \ {t} BY <3>1 DEF Tasks
    <3>3. \A v \in Actors \ {t} : pc'[v] = pc[v] /\ local'[v] = local[v]
      BY <2>7 DEF Actors, Tasks
    <3>4. /\ driver' = driver /\ config' = config /\ events' = events
          /\ pc'["event"] = pc["event"] /\ pc'["timer"] = pc["timer"]
      BY <2>2, <2>7, <3>2
    <3>5. ASSUME NEW u \in Actors
          PROVE  /\ pc'[u] \notin {"connect", "scan"}
                 /\ pc'[u] \in {"ignore", "disconnect"} => local'[u].then = "idle"
      BY <2>6, <3>3 DEF Unstarted
    <3>6. retry' = retry /\ missed' = missed BY <2>2
    <3> QED BY <3>4, <3>5, <3>6 DEF Unstarted
  <2>13. Alive' BY <2>6 DEF Alive, Chain, Actors, Tasks, Trying
  <2> QED BY <2>3, <2>4, <2>5, <2>8, <2>9, <2>10, <2>11, <2>12, <2>13
<1> QED BY <1>3, <1>4

\* The types when no candidate is left.
LEMMA NoneLeftTypes ==
  ASSUME IInv, NEW t \in Tasks, NoneLeft(t)
  PROVE  DataTypes'
<1> USE DEF IInv
<1>1. rescan' \in BOOLEAN /\ retry' \in BOOLEAN BY DEF DataTypes, NoneLeft, ScheduleRetry
<1>2. failures' \in 0..FastRetries BY NetAssumption DEF DataTypes, NoneLeft
<1> QED BY <1>1, <1>2 DEF DataTypes, NoneLeft, listVars, snapVars, driverVars, histVars

\* No candidate is left: the callbacks arm the timer, a user never gets here first.
LEMMA NoneLeftStep ==
  ASSUME IInv, NEW t \in Tasks, NoneLeft(t)
  PROVE  IInv'
<1> USE DEF IInv, NoneLeft, ScheduleRetry, Leave, Goto, Nothing, listVars, snapVars,
     driverVars, histVars
<1>1. PcType' /\ PlaceInv' /\ Sole'
  BY NetAssumption DEF PcType, Steps, Tasks, PlaceInv, Trying, Sole
<1>2. DataTypes'
  BY NoneLeftTypes
<1>3. LocalType'
  BY NetAssumption DEF LocalType, Locals
<1>4. ThenInv' /\ DownInv'
  BY NetAssumption DEF ThenInv, PcType, LocalType, Locals, Tasks, PlaceInv, Trying,
     Actors, DataTypes, DownInv
<1>5. ConfigInv'
  BY NetAssumption DEF ConfigInv, Unstarted
<1>6. Alive'
  BY NetAssumption DEF Alive, Chain, Bringing, Actors, Trying, PcType, LocalType, Tasks,
     ThenInv, DataTypes
<1> QED BY <1>1, <1>2, <1>3, <1>4, <1>5, <1>6

\* The timer is stopped by a task that is about to connect or has no profile.
LEMMA StopTimerStep ==
  ASSUME IInv, NEW t \in Tasks, StopTimer(t)
  PROVE  IInv'
<1> USE DEF IInv, StopTimer, Goto, listVars, snapVars, driverVars, histVars
<1>1. PcType' /\ PlaceInv' /\ Sole'
  BY NetAssumption DEF PcType, Steps, Tasks, PlaceInv, Trying, Sole
<1>2. LocalType' /\ DataTypes'
  BY NetAssumption DEF LocalType, DataTypes
<1>3. ThenInv' /\ DownInv'
  BY NetAssumption DEF ThenInv, PcType, LocalType, Locals, Tasks, PlaceInv, Trying,
     Actors, DataTypes, DownInv
<1>4. ConfigInv'
  BY NetAssumption DEF ConfigInv, Unstarted, Actors, PcType, LocalType, Locals, Tasks,
     ThenInv, PlaceInv, Trying, DataTypes, Alive, Chain, Bringing, Sole
<1>5. Alive'
  BY NetAssumption DEF Alive, Chain, Bringing, Actors, Trying, PcType, LocalType,
     Locals, Tasks, ThenInv, PlaceInv, DataTypes, DownInv, ConfigInv, Unstarted, Sole
<1> QED BY <1>1, <1>2, <1>3, <1>4, <1>5

\* The driver is configured, which Unstarted no longer needs to promise.
LEMMA ConfigureStep ==
  ASSUME IInv, NEW t \in Tasks, Configure(t)
  PROVE  IInv'
<1> USE DEF IInv, Configure, Goto, listVars, snapVars, retryVars, histVars
<1>1. PcType' /\ PlaceInv' /\ Sole'
  BY NetAssumption DEF PcType, Steps, Tasks, PlaceInv, Trying, Sole
<1>2. LocalType' /\ DataTypes'
  BY NetAssumption DEF LocalType, DataTypes, Reports, Leaving, Failing, Locals, ThenInv
<1>3. ThenInv' /\ DownInv'
  BY NetAssumption DEF ThenInv, PcType, LocalType, Locals, Tasks, PlaceInv, Trying,
     Actors, DataTypes, DownInv
<1>4. ConfigInv'
  BY NetAssumption DEF ConfigInv, Unstarted, Actors, PcType, LocalType, Tasks, ThenInv,
     PlaceInv, Trying, DataTypes
<1>5. Alive'
  BY NetAssumption DEF Alive, Chain, Bringing, Actors, Trying, PcType, LocalType, Tasks,
     ThenInv, DataTypes
<1> QED BY <1>1, <1>2, <1>3, <1>4, <1>5

\* The driver refuses the configuration: an attempt is under way.
LEMMA ConfigureFailsStep ==
  ASSUME IInv, NEW t \in Tasks, ConfigureFails(t)
  PROVE  IInv'
<1> USE DEF IInv, ConfigureFails, Goto, listVars, snapVars, retryVars, driverVars,
     histVars
<1>1. PcType' /\ PlaceInv' /\ Sole'
  BY NetAssumption DEF PcType, Steps, Tasks, PlaceInv, Trying, Sole
<1>2. LocalType' /\ DataTypes'
  BY NetAssumption DEF LocalType, DataTypes
<1>3. ThenInv' /\ DownInv'
  BY NetAssumption DEF ThenInv, PcType, LocalType, Locals, Tasks, PlaceInv, Trying,
     Actors, DataTypes, DownInv
<1>4. ConfigInv'
  BY NetAssumption DEF ConfigInv, Unstarted
<1>5. Alive'
  BY NetAssumption DEF Alive, Chain, Bringing
<1> QED BY <1>1, <1>2, <1>3, <1>4, <1>5

\* The flag is set for the disconnection that follows.
LEMMA IgnoreNextStep ==
  ASSUME IInv, NEW t \in Tasks, IgnoreNext(t)
  PROVE  IInv'
<1> USE DEF IInv, IgnoreNext, Goto, listVars, snapVars, retryVars, driverVars, histVars
<1>1. PcType' /\ PlaceInv' /\ Sole'
  BY NetAssumption DEF PcType, Steps, Tasks, PlaceInv, Trying, Sole
<1>2. LocalType' /\ DataTypes'
  BY NetAssumption DEF LocalType, DataTypes
<1>3. ThenInv' /\ DownInv'
  BY NetAssumption DEF ThenInv, PcType, LocalType, Locals, Tasks, PlaceInv, Trying,
     Actors, DataTypes, DownInv
<1>4. ConfigInv'
  BY NetAssumption DEF ConfigInv, Unstarted
<1>5. Alive'
  BY NetAssumption DEF Alive, Chain, Bringing, Actors, Trying, PcType, LocalType, Tasks,
     ThenInv, DataTypes
<1> QED BY <1>1, <1>2, <1>3, <1>4, <1>5

\* The types when the driver is disconnected.
LEMMA DisconnectNowTypes ==
  ASSUME IInv, NEW t \in Tasks, DisconnectNow(t)
  PROVE  PcType' /\ LocalType' /\ DataTypes' /\ ThenInv'
<1> USE DEF IInv
<1>1. DataTypes'
  <2>1. "leave" \in Reports BY DEF Reports, Leaving
  <2>2. events' \in Seq(Reports) BY <2>1, ReportTypes DEF DataTypes, DisconnectNow, Disconnect
  <2> QED BY <2>2 DEF DataTypes, DisconnectNow, Disconnect, listVars, snapVars, retryVars, histVars
<1>2. CASE local[t].then = "idle"
  <2>1. Leave(t) BY <1>2 DEF DisconnectNow
  <2> QED BY <1>1, <2>1, LeaveTypes DEF ThenInv, Trying, PcType, LocalType, Leave, Goto, Nothing, Tasks
<1>3. CASE local[t].then # "idle"
  <2>1. local[t].then \in {"connect", "scan"} BY <1>3 DEF LocalType, Locals
  <2>2. pc' = [pc EXCEPT ![t] = local[t].then] /\ local' = local BY <1>3 DEF DisconnectNow, Goto
  <2>3. PcType' /\ LocalType' BY <2>1, <2>2 DEF PcType, LocalType, Steps
  <2>4. pc[t] = "disconnect" BY DEF DisconnectNow
  <2> QED BY <1>1, <2>1, <2>2, <2>3, <2>4 DEF ThenInv, PcType, Trying
<1> QED BY <1>2, <1>3

\* The driver is disconnected by a task that goes on to connect or to scan.
LEMMA DisconnectNowStep ==
  ASSUME IInv, NEW t \in Tasks, DisconnectNow(t)
  PROVE  IInv'
<1> USE DEF IInv, DisconnectNow, Disconnect, Leave, Goto, Nothing, listVars, snapVars,
     retryVars, histVars
<1>1. PcType'
  BY DisconnectNowTypes
<1>2. PlaceInv'
  BY NetAssumption DEF PlaceInv, PcType, Trying, Tasks, ThenInv, LocalType, Locals
<1>3. Sole'
  BY NetAssumption DEF Sole, Actors, PcType, Tasks
<1>4. LocalType' /\ DataTypes'
  BY DisconnectNowTypes
<1>5. ThenInv'
  BY DisconnectNowTypes
<1>6. DownInv'
  BY NetAssumption DEF DownInv, Actors, Trying, PcType, Tasks, ThenInv, PlaceInv,
     LocalType, Locals, Sole, DataTypes
<1>7. ConfigInv'
  BY NetAssumption DEF ConfigInv, Unstarted, Actors, PcType, LocalType, Tasks
<1>8. Alive'
  BY NetAssumption DEF Alive, Chain, Bringing, Actors, Trying, PcType, LocalType,
     Locals, Tasks, ThenInv, PlaceInv, DataTypes, DownInv, ConfigInv, Unstarted, Sole
<1> QED BY <1>1, <1>2, <1>3, <1>4, <1>5, <1>6, <1>7, <1>8

\* The types when an attempt is started.
LEMMA ConnectNowTypes ==
  ASSUME IInv, NEW t \in Tasks, ConnectNow(t)
  PROVE  PcType' /\ LocalType' /\ ThenInv'
<1> USE DEF IInv
<1>1. CASE driver = "connecting"
  <2>1. Goto(t, "advance") /\ local' = local BY <1>1 DEF ConnectNow
  <2>2. LocalType' BY <2>1 DEF LocalType
  <2> QED BY <2>1, <2>2 DEF ThenInv, Trying, PcType, Steps, Goto
<1>2. CASE driver # "connecting"
  <2>1. Leave(t) BY <1>2 DEF ConnectNow
  <2> QED BY <2>1, LeaveTypes DEF ThenInv, Trying, PcType, LocalType, Leave, Goto, Nothing, Tasks
<1> QED BY <1>1, <1>2

\* An attempt starts, or one is under way already.
LEMMA ConnectNowStep ==
  ASSUME IInv, NEW t \in Tasks, ConnectNow(t)
  PROVE  IInv'
<1> USE DEF IInv, ConnectNow, Connect, Goto, Leave, Nothing, listVars, snapVars,
     retryVars, histVars
<1>1. PcType'
  BY ConnectNowTypes
<1>2. PlaceInv' /\ Sole'
  BY NetAssumption DEF PlaceInv, PcType, Trying, Tasks, Sole, Actors
<1>3. LocalType'
  BY ConnectNowTypes
<1>4. DataTypes'
  BY NetAssumption DEF DataTypes
<1>5. ThenInv'
  BY ConnectNowTypes
<1>6. DownInv'
  BY NetAssumption DEF DownInv, Actors, Trying, PcType, Tasks, ThenInv, LocalType
<1>7. ConfigInv'
  BY NetAssumption DEF ConfigInv, Unstarted, Actors, PcType, LocalType, Tasks
<1>8. Alive'
  BY NetAssumption DEF Alive, Chain, Bringing, Actors, Trying, PcType, LocalType,
     Locals, Tasks, ThenInv, PlaceInv, DataTypes, DownInv, ConfigInv, Unstarted, Sole
<1> QED BY <1>1, <1>2, <1>3, <1>4, <1>5, <1>6, <1>7, <1>8

(***************************************************************************)
(* wifi_event_handler()                                                    *)
(***************************************************************************)

\* The report that the driver has started uses up nothing.
LEMMA StartedAlive ==
  ASSUME IInv, Started
  PROVE  Alive'
<1> USE DEF IInv
<1>1. /\ events # <<>> /\ Head(events) = "start" /\ events' = Tail(events)
      /\ pc["event"] = "idle"
      /\ pc' = [pc EXCEPT !["event"] = IF cur # 0 THEN "reconnect" ELSE "idle"]
      /\ UNCHANGED <<profiles, candidates, tried, cur, driver, missed, retry, local, disturbed>>
  BY DEF Started, Delivers, Goto, listVars, retryVars, histVars
<1>2. "event" \in Tasks /\ "event" \notin Actors BY NetAssumption DEF Actors, Tasks
<1>3. \A v \in Tasks \ {"event"} : pc'[v] = pc[v] BY <1>1 DEF PcType
<1>4. ASSUME NEW i \in 1..Len(events), events[i] \in Failing
      PROVE  \E j \in 1..Len(events') : events'[j] \in Failing
  <2>1. Head(events) \notin Failing BY <1>1 DEF Failing
  <2> QED BY <1>1, <1>4, <2>1, Waiting
<1>5. Chain => Chain'
  BY <1>1, <1>2, <1>3, <1>4 DEF Chain, Actors, Tasks, Trying
<1>6. \A v \in Actors : Bringing(v) => Bringing(v)'
  BY <1>1, <1>2, <1>3 DEF Bringing, Actors, Tasks
<1> QED BY <1>1, <1>5, <1>6 DEF Alive

\* The driver's start is reported.
LEMMA StartedStep ==
  ASSUME IInv, Started
  PROVE  IInv'
<1> USE DEF IInv, Started, Delivers, Goto, listVars, retryVars, histVars
<1>1. PcType' /\ PlaceInv' /\ Sole'
  BY NetAssumption DEF PcType, Steps, Tasks, PlaceInv, Trying, Sole, Actors
<1>2. LocalType' /\ DataTypes'
  BY NetAssumption DEF LocalType, DataTypes
<1>3. ThenInv' /\ DownInv'
  BY NetAssumption DEF ThenInv, PcType, LocalType, Locals, Tasks, PlaceInv, Trying,
     Actors, DataTypes, DownInv
<1>4. ConfigInv'
  BY NetAssumption DEF ConfigInv, Unstarted
<1>5. Alive'
  BY StartedAlive
<1> QED BY <1>1, <1>2, <1>3, <1>4, <1>5

\* The types when a report is handled.
LEMMA HandledTypes ==
  ASSUME IInv, Disconnected \/ GotIp \/ Ignored
  PROVE  DataTypes'
<1> USE DEF IInv
<1>1. events' \in Seq(Reports)
  BY ReportTypes DEF DataTypes, Disconnected, GotIp, Ignored, Delivers
<1>2. CASE Disconnected
  BY <1>1, <1>2 DEF DataTypes, Disconnected, Delivers, listVars, retryVars, histVars
<1>3. CASE Ignored
  BY <1>1, <1>3 DEF DataTypes, Ignored, Delivers, listVars, snapVars, retryVars, histVars
<1>4. CASE GotIp
  <2>1. failures' \in 0..FastRetries /\ rescan' \in BOOLEAN /\ connected' \in BOOLEAN
    <3>1. failures' = 0 BY <1>4 DEF GotIp
    <3>2. rescan' = FALSE /\ connected' = TRUE BY <1>4 DEF GotIp
    <3>3. 0 \in 0..FastRetries BY NetAssumption
    <3> QED BY <3>1, <3>2, <3>3
  <2> QED BY <1>1, <1>4, <2>1 DEF DataTypes, GotIp, Delivers, listVars, histVars
<1> QED BY <1>2, <1>3, <1>4

\* A disconnection somebody asked for is ignored: that task goes on.
LEMMA IgnoredStep ==
  ASSUME IInv, Ignored
  PROVE  IInv'
<1> USE DEF IInv, Ignored, Delivers, listVars, snapVars, retryVars, histVars
<1>1. PcType' /\ PlaceInv' /\ Sole'
  BY NetAssumption DEF PcType, Steps, Tasks, PlaceInv, Trying, Sole
<1>2. DataTypes'
  BY HandledTypes
<1>3. LocalType'
  BY NetAssumption DEF LocalType
<1>4. ThenInv' /\ DownInv'
  BY NetAssumption DEF ThenInv, DownInv
<1>5. ConfigInv'
  <2>1. Head(events) = events[1] /\ 1 \in 1..Len(events)
    BY HeadTailProperties, EmptySeq, Lengths DEF DataTypes
  <2>2. ~ Unstarted BY <2>1 DEF Unstarted, Leaving
  <2> QED BY <2>2 DEF ConfigInv
<1>6. Alive'
  <2>1. CASE Head(events) = "kicked" BY <2>1 DEF Alive
  <2>2. CASE Head(events) # "kicked"
    <3>1. Head(events) \notin Failing BY <2>2 DEF Leaving, Failing
    <3>2. ASSUME NEW i \in 1..Len(events), events[i] \in Failing
          PROVE  \E j \in 1..Len(events') : events'[j] \in Failing
      BY <3>1, <3>2, Waiting
    <3>3. Chain => Chain' BY <3>2 DEF Chain
    <3>4. \A v \in Actors : Bringing(v) => Bringing(v)' BY DEF Bringing
    <3>5. missed' = missed BY <2>2 DEF DataTypes
    <3> QED BY <3>3, <3>4, <3>5 DEF Alive
  <2> QED BY <2>1, <2>2
<1> QED BY <1>1, <1>2, <1>3, <1>4, <1>5, <1>6

\* A disconnection nobody asked for is handled by the event task.
LEMMA DisconnectedStep ==
  ASSUME IInv, Disconnected
  PROVE  IInv'
<1> USE DEF IInv, Disconnected, Delivers, Goto, listVars, retryVars, histVars
<1>1. PcType' /\ PlaceInv' /\ Sole'
  BY NetAssumption DEF PcType, Steps, Tasks, PlaceInv, Trying, Sole, Actors
<1>2. DataTypes'
  BY HandledTypes
<1>3. LocalType'
  BY NetAssumption DEF LocalType
<1>4. ThenInv' /\ DownInv'
  BY NetAssumption DEF ThenInv, PcType, LocalType, Locals, Tasks, PlaceInv, Trying,
     Actors, DataTypes, DownInv
<1>5. ConfigInv'
  <2>1. Head(events) = events[1] /\ 1 \in 1..Len(events)
    BY HeadTailProperties, EmptySeq, Lengths DEF DataTypes
  <2>2. ~ Unstarted BY <2>1 DEF Unstarted, Leaving, Failing
  <2> QED BY <2>2 DEF ConfigInv
<1>6. Alive'
  BY NetAssumption DEF Alive, Chain, Bringing, Actors, PcType, LocalType, Tasks
<1> QED BY <1>1, <1>2, <1>3, <1>4, <1>5, <1>6

\* The event task arms the timer.
LEMMA LostStep ==
  ASSUME IInv, Lost
  PROVE  IInv'
<1> USE DEF IInv, Lost, ScheduleRetry, Goto, listVars, snapVars, driverVars, histVars
<1>1. PcType' /\ PlaceInv' /\ Sole'
  BY NetAssumption DEF PcType, Steps, Tasks, PlaceInv, Trying, Sole
<1>2. LocalType' /\ DataTypes'
  BY NetAssumption DEF LocalType, DataTypes
<1>3. ThenInv' /\ DownInv'
  BY NetAssumption DEF ThenInv, PcType, LocalType, Locals, Tasks, PlaceInv, Trying,
     Actors, DataTypes, DownInv
<1>4. ConfigInv'
  BY NetAssumption DEF ConfigInv, Unstarted
<1>5. Alive'
  BY NetAssumption DEF Alive, Chain, Bringing
<1> QED BY <1>1, <1>2, <1>3, <1>4, <1>5

\* An address is reported.
LEMMA GotIpStep ==
  ASSUME IInv, GotIp
  PROVE  IInv'
<1> USE DEF IInv, GotIp, Delivers, listVars, histVars
<1>1. PcType' /\ PlaceInv' /\ Sole'
  BY NetAssumption DEF PcType, Steps, Tasks, PlaceInv, Trying, Sole
<1>2. DataTypes'
  BY HandledTypes
<1>3. LocalType'
  BY NetAssumption DEF LocalType
<1>4. ThenInv' /\ DownInv'
  BY NetAssumption DEF ThenInv, DownInv
<1>5. ConfigInv'
  BY NetAssumption DEF ConfigInv, Unstarted
<1>6. Alive'
  <2>1. Head(events) \notin Failing BY DEF Failing
  <2>2. ASSUME NEW i \in 1..Len(events), events[i] \in Failing
        PROVE  \E j \in 1..Len(events') : events'[j] \in Failing
    BY <2>1, <2>2, Waiting
  <2> QED BY <2>2 DEF Alive, Chain, Bringing
<1> QED BY <1>1, <1>2, <1>3, <1>4, <1>5, <1>6

\* An attempt whose result nobody looks at.
LEMMA ReconnectStep ==
  ASSUME IInv, NEW t \in {"event", "timer"}, Reconnect(t)
  PROVE  IInv'
<1> USE DEF IInv, Reconnect, Connect, Goto, listVars, snapVars, retryVars, histVars
<1>1. PcType' /\ PlaceInv' /\ Sole'
  BY NetAssumption DEF PcType, Steps, Tasks, PlaceInv, Trying, Sole
<1>2. LocalType' /\ DataTypes'
  BY NetAssumption DEF LocalType, DataTypes
<1>3. ThenInv' /\ DownInv'
  BY NetAssumption DEF ThenInv, PcType, LocalType, Locals, Tasks, PlaceInv, Trying,
     Actors, DataTypes, DownInv
<1>4. ConfigInv'
  BY NetAssumption DEF ConfigInv, Unstarted
<1>5. Alive'
  BY NetAssumption DEF Alive, Chain, Bringing, Actors, Trying, PcType, LocalType,
     Locals, Tasks, ThenInv, PlaceInv, DataTypes, DownInv, ConfigInv, Unstarted, Sole
<1> QED BY <1>1, <1>2, <1>3, <1>4, <1>5

(***************************************************************************)
(* retry_timer_cb()                                                        *)
(***************************************************************************)

\* The timer fires: its task takes over.
LEMMA FireStep ==
  ASSUME IInv, Fire
  PROVE  IInv'
<1> USE DEF IInv, Fire, Goto, listVars, snapVars, driverVars, histVars
<1>1. PcType' /\ PlaceInv' /\ Sole'
  BY NetAssumption DEF PcType, Steps, Tasks, PlaceInv, Trying, Sole, Actors
<1>2. LocalType' /\ DataTypes'
  BY NetAssumption DEF LocalType, DataTypes
<1>3. ThenInv' /\ DownInv'
  BY NetAssumption DEF ThenInv, PcType, LocalType, Locals, Tasks, PlaceInv, Trying,
     Actors, DataTypes, DownInv
<1>4. ConfigInv'
  BY NetAssumption DEF ConfigInv, Unstarted
<1>5. Alive'
  BY NetAssumption DEF Alive, Chain, Bringing, Actors, PcType, LocalType, Tasks
<1> QED BY <1>1, <1>2, <1>3, <1>4, <1>5

\* The types when the list starts again.
LEMMA WrapTypes ==
  ASSUME IInv, Wrap
  PROVE  DataTypes'
<1> USE DEF IInv
<1>1. tried' \in 0..Len(candidates) BY Lengths DEF DataTypes, Wrap
<1> QED BY <1>1 DEF DataTypes, Wrap, snapVars, driverVars, histVars

\* The timer task goes on to the next candidate.
LEMMA WrapStep ==
  ASSUME IInv, Wrap
  PROVE  IInv'
<1> USE DEF IInv, Wrap, Goto, snapVars, driverVars, histVars
<1>1. PcType' /\ PlaceInv' /\ Sole'
  BY NetAssumption DEF PcType, Steps, Tasks, PlaceInv, Trying, Sole
<1>2. DataTypes'
  BY WrapTypes
<1>3. LocalType'
  BY NetAssumption DEF LocalType
<1>4. ThenInv' /\ DownInv'
  BY NetAssumption DEF ThenInv, PcType, LocalType, Locals, Tasks, PlaceInv, Trying,
     Actors, DataTypes, DownInv
<1>5. ConfigInv'
  BY NetAssumption DEF ConfigInv, Unstarted
<1>6. Alive'
  BY NetAssumption DEF Alive, Chain, Bringing
<1> QED BY <1>1, <1>2, <1>3, <1>4, <1>5, <1>6

\* The timer task tries the same profile again.
LEMMA AgainStep ==
  ASSUME IInv, Again
  PROVE  IInv'
<1> USE DEF IInv, Again, Goto, listVars, retryVars, driverVars, histVars
<1>1. PcType' /\ PlaceInv' /\ Sole'
  BY NetAssumption DEF PcType, Steps, Tasks, PlaceInv, Trying, Sole
<1>2. LocalType' /\ DataTypes'
  BY NetAssumption DEF LocalType, DataTypes
<1>3. ThenInv' /\ DownInv'
  BY NetAssumption DEF ThenInv, PcType, LocalType, Locals, Tasks, PlaceInv, Trying,
     Actors, DataTypes, DownInv
<1>4. ConfigInv'
  BY NetAssumption DEF ConfigInv, Unstarted
<1>5. Alive'
  BY NetAssumption DEF Alive, Chain, Bringing
<1> QED BY <1>1, <1>2, <1>3, <1>4, <1>5

(***************************************************************************)
(* Editing the profiles and scanning                                       *)
(***************************************************************************)

\* A saved network is edited.
LEMMA UpdateProfileStep ==
  ASSUME IInv, NEW u \in Users, NEW n \in Networks, NEW changed \in BOOLEAN, UpdateProfile(u, n, changed)
  PROVE  IInv'
<1> USE DEF IInv, UpdateProfile, Enter, Saved, Place, Goto, listVars, snapVars,
     retryVars, driverVars
<1>1. PcType' /\ PlaceInv' /\ Sole'
  BY NetAssumption DEF PcType, Steps, Tasks, PlaceInv, Trying, Sole, Actors
<1>2. LocalType'
  <2> HIDE DEF IInv, Place, Saved
  <2>1. LocalType /\ u \in Tasks BY DEF IInv, Tasks
  <2>2. local' = [local EXCEPT ![u].force = changed /\ cur = Place(n)] OBVIOUS
  <2> HIDE DEF UpdateProfile
  <2>3. (changed /\ cur = Place(n)) \in BOOLEAN OBVIOUS
  <2> QED BY <2>1, <2>2, <2>3 DEF LocalType, Locals
<1>3. DataTypes'
  <2> HIDE DEF IInv, Place, Saved
  <2>1. DataTypes BY DEF IInv
  <2>2. disturbed' \in BOOLEAN BY <2>1 DEF DataTypes
  <2>3. ops' \in 0..MaxOps BY <2>1, NetAssumption DEF DataTypes
  <2>4. UNCHANGED <<profiles, listVars, snapVars, retryVars, ignore, driverVars, open>>
    OBVIOUS
  <2> HIDE DEF UpdateProfile, Enter
  <2> QED BY <2>1, <2>2, <2>3, <2>4 DEF DataTypes
<1>4. ThenInv'
  BY NetAssumption DEF ThenInv
<1>5. DownInv'
  BY NetAssumption DEF DownInv, Actors, Trying, PcType, Tasks, ThenInv, LocalType
<1>6. ConfigInv'
  BY NetAssumption DEF ConfigInv, Unstarted, Actors, PcType, LocalType, Tasks
<1>7. Alive'
  BY NetAssumption DEF Alive, Chain, Bringing, Actors, Trying, PcType, LocalType, Tasks,
     ThenInv, DataTypes
<1> QED BY <1>1, <1>2, <1>3, <1>4, <1>5, <1>6, <1>7

\* A network is added: the first one brings its task on the way.
LEMMA AddProfileStep ==
  ASSUME IInv, NEW u \in Users, NEW n \in Networks, AddProfile(u, n)
  PROVE  IInv'
<1> USE DEF IInv, AddProfile, Enter, Saved, Goto, listVars, snapVars, retryVars,
     driverVars
<1>1. PcType' /\ PlaceInv' /\ Sole'
  BY NetAssumption DEF PcType, Steps, Tasks, PlaceInv, Trying, Sole, Actors
<1>2. LocalType' /\ DataTypes'
  BY NetAssumption DEF LocalType, DataTypes
<1>3. ThenInv' /\ DownInv'
  BY NetAssumption DEF ThenInv, DownInv, Actors, Trying, PcType, Tasks, LocalType
<1>4. ConfigInv'
  BY NetAssumption DEF ConfigInv, Unstarted, Actors, PcType, LocalType, Tasks
<1>5. Alive'
  BY NetAssumption DEF Alive, Chain, Bringing, Actors, Trying, PcType, LocalType, Tasks,
     ThenInv, DataTypes
<1> QED BY <1>1, <1>2, <1>3, <1>4, <1>5

\* The types when a profile is removed.
LEMMA RemoveTypes ==
  ASSUME IInv, NEW u \in Users, NEW n \in Networks, RemoveProfile(u, n)
  PROVE  LocalType' /\ DataTypes' /\ Len(profiles') = Len(profiles) - 1
<1> USE DEF IInv
<1>0. u \in Tasks BY DEF Tasks
<1>1. DEFINE p == Place(n)
             front == SubSeq(profiles, 1, p - 1)
             back == SubSeq(profiles, p + 1, Len(profiles))
<1>2. p \in 1..Len(profiles) BY DEF RemoveProfile, Saved, Place
<1>3. profiles' = front \o back BY DEF RemoveProfile
<1>4. profiles' \in Seq(Networks) /\ Len(profiles') = Len(profiles) - 1
  <2> HIDE DEF p
  <2>1. Len(profiles) \in Nat BY Lengths
  <2>2. front \in Seq(Networks) /\ Len(front) = p - 1
    BY <1>2, <2>1, SubSeqProperties DEF DataTypes
  <2>3. back \in Seq(Networks) /\ Len(back) = Len(profiles) - p
    BY <1>2, <2>1, SubSeqProperties DEF DataTypes
  <2> HIDE DEF front, back
  <2>4. front \o back \in Seq(Networks) /\ Len(front \o back) = Len(front) + Len(back)
    BY <2>2, <2>3, ConcatProperties
  <2> QED BY <1>2, <1>3, <2>1, <2>2, <2>3, <2>4
<1>5. cur' \in 0..Len(profiles')
  <2>1. cur' = IF cur = p THEN 0 ELSE IF cur > p THEN cur - 1 ELSE cur BY DEF RemoveProfile
  <2> HIDE DEF p
  <2> QED BY <1>2, <1>4, <2>1, Lengths DEF DataTypes
<1>6. LocalType'
  <2>1. local' = [local EXCEPT ![u].force = (cur = p)] BY DEF RemoveProfile
  <2> HIDE DEF p
  <2> QED BY <1>0, <2>1 DEF LocalType, Locals
<1>7. Len(profiles') <= MaxProfiles BY <1>4, Lengths, NetAssumption DEF DataTypes
<1>8. candidates' \in Seq(1..MaxProfiles) /\ tried' \in 0..Len(candidates')
  <2>1. CASE Len(profiles) = 1 BY <2>1, EmptySeq DEF RemoveProfile
  <2>2. CASE Len(profiles) # 1 BY <2>2 DEF RemoveProfile, listVars, DataTypes
  <2> QED BY <2>1, <2>2
<1>9. state' \in {"down", "connecting", "up"} /\ connected' \in BOOLEAN
  BY DEF RemoveProfile, DataTypes
<1>10. ops' \in 0..MaxOps /\ disturbed' \in BOOLEAN
  <2>1. Enter(u) BY DEF RemoveProfile
  <2> QED BY <2>1, NetAssumption DEF DataTypes, Enter
<1>11. DataTypes'
  BY <1>4, <1>5, <1>7, <1>8, <1>9, <1>10 DEF DataTypes, RemoveProfile, retryVars, driverVars
<1> QED BY <1>4, <1>6, <1>11

\* What goes on still goes on when a profile is removed.
LEMMA RemoveAlive ==
  ASSUME IInv, NEW u \in Users, NEW n \in Networks, RemoveProfile(u, n)
  PROVE  Alive'
<1> USE DEF IInv
<1>1. /\ pc[u] = "idle" /\ pc["boot"] = "idle"
      /\ pc' = [pc EXCEPT ![u] = "persist"]
      /\ UNCHANGED <<retry, driver, events, missed>>
      /\ disturbed' = (disturbed \/ \E v \in Users \ {u} : pc[v] # "idle")
  BY DEF RemoveProfile, Enter, Goto, retryVars, driverVars
<1>2. \A v \in Tasks : local'[v].then = local[v].then
  BY DEF RemoveProfile, LocalType, Locals
<1> SUFFICES ASSUME profiles' # <<>>, ~ disturbed', ~ missed PROVE Chain'
  BY <1>1 DEF Alive
<1>3. ~ disturbed /\ \A v \in Actors : pc[v] = "idle" BY <1>1 DEF Actors, DataTypes
<1>4. Chain
  <2>1. profiles # <<>> BY NoPlace DEF RemoveProfile, Saved
  <2>2. \A v \in Actors : ~ Bringing(v) BY <1>3 DEF Bringing
  <2> QED BY <1>3, <2>1, <2>2 DEF Alive
<1>5. pc'["event"] = pc["event"] /\ pc'["timer"] = pc["timer"]
  BY <1>1, NetAssumption DEF PcType, Tasks
<1> QED BY <1>1, <1>3, <1>4, <1>5 DEF Chain, Trying

\* A profile is removed.
LEMMA RemoveProfileStep ==
  ASSUME IInv, NEW u \in Users, NEW n \in Networks, RemoveProfile(u, n)
  PROVE  IInv'
<1> USE DEF IInv, RemoveProfile, Enter, Saved, Place, Goto, listVars, retryVars,
     driverVars
<1>1. PcType' /\ PlaceInv' /\ Sole'
  BY NetAssumption DEF PcType, Steps, Tasks, PlaceInv, Trying, Sole, Actors
<1>2. LocalType' /\ DataTypes'
  BY RemoveTypes
<1>3. ThenInv'
  BY NetAssumption DEF ThenInv
<1>4. DownInv'
  BY NetAssumption DEF DownInv, Actors, Trying, PcType, Tasks, ThenInv, LocalType
<1>5. ConfigInv'
  BY NetAssumption DEF ConfigInv, Unstarted, Actors, PcType, LocalType, Tasks
<1>6. Alive'
  BY RemoveAlive
<1> QED BY <1>1, <1>2, <1>3, <1>4, <1>5, <1>6

\* The types when an edit is persisted or fails to be.
LEMMA PersistTypes ==
  ASSUME IInv, NEW u \in Users, Persist(u)
  PROVE  LocalType'
<1> USE DEF IInv
<1>0. u \in Tasks BY DEF Tasks
<1>1. CASE UNCHANGED local BY <1>1 DEF LocalType
<1>2. CASE Leave(u) BY <1>0, <1>2, LeaveTypes
<1> QED BY <1>1, <1>2 DEF Persist

\* An edit is persisted, or the history remembers that it was not.
LEMMA PersistStep ==
  ASSUME IInv, NEW u \in Users, Persist(u)
  PROVE  IInv'
<1> USE DEF IInv, Persist, Goto, Leave, Nothing, listVars, snapVars, retryVars,
     driverVars
<1>1. PcType' /\ PlaceInv' /\ Sole'
  BY NetAssumption DEF PcType, Steps, Tasks, PlaceInv, Trying, Sole, Actors
<1>2. LocalType'
  BY PersistTypes
<1>3. DataTypes'
  <2> HIDE DEF IInv
  <2>1. DataTypes BY DEF IInv
  <2>2. disturbed' \in BOOLEAN BY <2>1 DEF DataTypes
  <2>3. UNCHANGED <<profiles, listVars, snapVars, retryVars, ignore, driverVars, open, ops>>
    OBVIOUS
  <2> HIDE DEF Persist
  <2> QED BY <2>1, <2>2, <2>3 DEF DataTypes
<1>4. ThenInv' /\ DownInv'
  BY NetAssumption DEF ThenInv, PcType, LocalType, Tasks, DownInv, Actors, Trying
<1>5. ConfigInv'
  BY NetAssumption DEF ConfigInv, Unstarted, Actors, PcType, LocalType, Tasks
<1>6. Alive'
  BY NetAssumption DEF Alive, Chain, Bringing, Actors, Trying, PcType, LocalType, Tasks,
     ThenInv, DataTypes
<1> QED BY <1>1, <1>2, <1>3, <1>4, <1>5, <1>6

\* The types when the table is copied.
LEMMA CopyTableTypes ==
  ASSUME IInv, NEW u \in Users, CopyTable(u)
  PROVE  LocalType' /\ ThenInv'
<1> USE DEF IInv
<1>0. u \in Tasks BY DEF Tasks
<1>1. CASE profiles = <<>>
  BY <1>0, <1>1 DEF CopyTable, Goto, LocalType, ThenInv, Trying, PcType, Tasks
<1>2. CASE profiles # <<>>
  <2>1. local' = [local EXCEPT ![u].table = profiles] BY <1>2 DEF CopyTable
  <2>2. LocalType' BY <1>0, <2>1, TableType
  <2>3. \A t \in Tasks : local'[t].then = local[t].then /\ local'[t].profile = local[t].profile
    BY <2>1 DEF LocalType, Locals
  <2>4. pc' = [pc EXCEPT ![u] = "install"] BY <1>2 DEF CopyTable, Goto
  <2> QED BY <2>2, <2>3, <2>4, <1>0 DEF ThenInv, PcType, CopyTable, Tasks, Trying
<1> QED BY <1>1, <1>2

\* The table is copied: no other task can edit it before it is installed.
LEMMA CopyTableStep ==
  ASSUME IInv, NEW u \in Users, CopyTable(u)
  PROVE  IInv'
<1> USE DEF IInv, CopyTable, Goto, listVars, snapVars, retryVars, driverVars, histVars
<1>1. PcType' /\ PlaceInv' /\ Sole'
  BY NetAssumption DEF PcType, Steps, Tasks, PlaceInv, Trying, Sole, Actors
<1>2. LocalType'
  BY CopyTableTypes
<1>3. DataTypes'
  BY NetAssumption DEF DataTypes
<1>4. ThenInv'
  BY CopyTableTypes
<1>5. DownInv'
  BY NetAssumption DEF DownInv, Actors, Trying, PcType, Tasks, ThenInv, LocalType
<1>6. ConfigInv'
  BY NetAssumption DEF ConfigInv, Unstarted, Actors, PcType, LocalType, Tasks
<1>7. Alive'
  BY NetAssumption DEF Alive, Chain, Bringing, Actors, Trying, PcType, LocalType,
     Locals, Tasks, ThenInv, PlaceInv, DataTypes, DownInv, ConfigInv, Unstarted, Sole
<1> QED BY <1>1, <1>2, <1>3, <1>4, <1>5, <1>6, <1>7

\* The types when the candidates are installed.
LEMMA InstallTypes ==
  ASSUME IInv, NEW u \in Actors, InstallCandidates(u)
  PROVE  /\ LocalType' /\ DataTypes'
         /\ Len(candidates') = Len(local[u].table)
         /\ candidates' \in [1..Len(local[u].table) -> 1..Len(local[u].table)]
<1> USE DEF IInv
<1>0. u \in Tasks BY DEF Tasks, Actors
<1>1. LocalType' BY <1>0, TableType DEF InstallCandidates
<1>2. DEFINE n == Len(local[u].table)
<1>3. n \in 0..MaxProfiles
  <2>1. local[u].table \in Seq(Networks) BY <1>0 DEF LocalType, Locals
  <2> QED BY <2>1, <1>0, LenProperties, NetAssumption DEF LocalType
<1>4. candidates' \in [1..n -> 1..n] BY DEF InstallCandidates, Orders
<1>5. candidates' \in Seq(1..MaxProfiles) /\ Len(candidates') = n
  <2> HIDE DEF n
  <2>2. candidates' \in [1..n -> 1..MaxProfiles] BY <1>3, <1>4, NetAssumption
  <2>3. candidates' \in Seq(1..MaxProfiles)
    <3>1. n \in Nat BY <1>3
    <3> QED BY <3>1, <2>2, SeqDef
  <2> QED BY <2>3, <1>3, <1>4, LenProperties
<1>6. tried' \in 0..Len(candidates') BY <1>3, <1>5 DEF InstallCandidates
<1>7. DataTypes'
  BY <1>5, <1>6 DEF DataTypes, InstallCandidates, snapVars, retryVars, driverVars, histVars
<1> QED BY <1>1, <1>4, <1>5, <1>7

\* The candidates of a first profile are all in the table.
LEMMA InstallAlive ==
  ASSUME IInv, NEW u \in Actors, InstallCandidates(u),
         Len(candidates') = Len(local[u].table),
         candidates' \in [1..Len(local[u].table) -> 1..Len(local[u].table)]
  PROVE  Alive'
<1> USE DEF IInv
<1>1. /\ pc[u] = "install" /\ tried' = 0
      /\ pc' = [pc EXCEPT ![u] = IF u = "boot" THEN "advance" ELSE "review"]
      /\ UNCHANGED <<profiles, cur, retry, driver, events, missed, disturbed>>
  BY DEF InstallCandidates, Goto, snapVars, retryVars, driverVars, histVars
<1>2. \A v \in Tasks : local'[v].then = local[v].then
  BY DEF InstallCandidates, LocalType, Locals
<1>3. u \in Tasks /\ Actors \subseteq Tasks BY DEF Actors, Tasks
<1> SUFFICES ASSUME profiles # <<>>, ~ disturbed, ~ missed PROVE Chain' \/ \E v \in Actors : Bringing(v)'
  BY <1>1 DEF Alive
<1>4. CASE Chain
  <2>1. \A v \in Tasks \ {u} : pc'[v] = pc[v] BY <1>1 DEF PcType
  <2>2. u \notin {"event", "timer"} BY NetAssumption DEF Actors
  <2> QED BY <1>1, <1>2, <1>3, <1>4, <2>1, <2>2 DEF Chain, Trying, Tasks
<1>5. CASE ~ Chain
  <2>1. PICK v \in Actors : Bringing(v) BY <1>5 DEF Alive
  <2>2. v = u BY <1>1, <2>1 DEF Bringing, Sole
  <2>3. cur = 0 /\ local[u].table = profiles BY <1>1, <2>1, <2>2 DEF Bringing
  <2>4. Len(profiles) \in Nat /\ Len(profiles) # 0 BY Lengths, EmptySeq DEF DataTypes
  <2>5. pc'[u] \in {"review", "advance"} BY <1>1, <1>3 DEF PcType
  <2>6. Bringing(u)' BY <1>1, <2>3, <2>4, <2>5 DEF Bringing
  <2> QED BY <2>6
<1> QED BY <1>4, <1>5

\* The candidates are installed.
LEMMA InstallCandidatesStep ==
  ASSUME IInv, NEW u \in Actors, InstallCandidates(u)
  PROVE  IInv'
<1> USE DEF IInv, InstallCandidates, Orders, Goto, snapVars, retryVars, driverVars,
     histVars
<1>1. PcType'
  BY NetAssumption DEF PcType, Steps, Tasks
<1>2. PlaceInv'
  BY NetAssumption DEF PlaceInv, PcType, Trying, Tasks
<1>3. Sole'
  BY NetAssumption DEF Sole
<1>4. LocalType' /\ DataTypes'
  BY InstallTypes
<1>5. ThenInv' /\ DownInv'
  BY NetAssumption DEF ThenInv, PcType, LocalType, Locals, Tasks, PlaceInv, Trying,
     Actors, DataTypes, DownInv
<1>6. ConfigInv'
  BY NetAssumption DEF ConfigInv, Unstarted
<1>7. Alive'
  BY InstallTypes, InstallAlive
<1> QED BY <1>1, <1>2, <1>3, <1>4, <1>5, <1>6, <1>7

\* The types when the connection is reviewed.
LEMMA ReviewTypes ==
  ASSUME IInv, NEW u \in Users, Review(u)
  PROVE  LocalType'
<1> USE DEF IInv
<1>0. u \in Tasks BY DEF Tasks
<1>1. CASE UNCHANGED local BY <1>1 DEF LocalType
<1>2. CASE Leave(u) BY <1>0, <1>2, LeaveTypes
<1> QED BY <1>1, <1>2 DEF Review

\* The connection is kept only if there is one, or one is being made.
LEMMA ReviewStep ==
  ASSUME IInv, NEW u \in Users, Review(u)
  PROVE  IInv'
<1> USE DEF IInv, Review, Keeps, Leave, Goto, Nothing, listVars, snapVars, retryVars,
     driverVars, histVars
<1>1. PcType' /\ PlaceInv' /\ Sole'
  BY NetAssumption DEF PcType, Steps, Tasks, PlaceInv, Trying, Sole, Actors
<1>2. LocalType'
  BY ReviewTypes
<1>3. DataTypes'
  BY NetAssumption DEF DataTypes
<1>4. ThenInv' /\ DownInv'
  BY NetAssumption DEF ThenInv, PcType, LocalType, Tasks, DownInv, Actors, Trying
<1>5. ConfigInv'
  BY NetAssumption DEF ConfigInv, Unstarted, Actors, PcType, LocalType, Tasks
<1>6. Alive'
  BY NetAssumption DEF Alive, Chain, Bringing, Actors, Trying, PcType, LocalType, Tasks,
     ThenInv, DataTypes
<1> QED BY <1>1, <1>2, <1>3, <1>4, <1>5, <1>6

\* The types when the last profile is gone.
LEMMA GoDownTypes ==
  ASSUME IInv, NEW u \in Users, GoDown(u)
  PROVE  DataTypes'
<1> USE DEF IInv
<1>1. cur' \in 0..Len(profiles) BY Lengths DEF GoDown
<1> QED BY <1>1 DEF DataTypes, GoDown, listVars, retryVars, driverVars, histVars

\* The last profile is gone.
LEMMA GoDownStep ==
  ASSUME IInv, NEW u \in Users, GoDown(u)
  PROVE  IInv'
<1> USE DEF IInv, GoDown, Goto, listVars, retryVars, driverVars, histVars
<1>1. PcType' /\ PlaceInv' /\ Sole'
  BY NetAssumption DEF PcType, Steps, Tasks, PlaceInv, Trying, Sole
<1>2. DataTypes'
  BY GoDownTypes
<1>3. LocalType'
  BY NetAssumption DEF LocalType
<1>4. ThenInv' /\ DownInv'
  BY NetAssumption DEF ThenInv, DownInv
<1>5. ConfigInv'
  BY NetAssumption DEF ConfigInv, Unstarted
<1>6. Alive'
  BY NetAssumption DEF Alive, Chain, Bringing, Actors, Trying, PcType, LocalType, Tasks,
     ThenInv, DataTypes
<1> QED BY <1>1, <1>2, <1>3, <1>4, <1>5, <1>6

\* The types when a scan begins.
LEMMA ScanTypes ==
  ASSUME IInv, NEW u \in Users, Scan(u)
  PROVE  DataTypes'
<1> USE DEF IInv
<1>1. ops' \in 0..MaxOps /\ disturbed' \in BOOLEAN BY NetAssumption DEF DataTypes, Scan, Enter
<1> QED BY <1>1 DEF DataTypes, Scan, listVars, snapVars, driverVars

\* A scan stops the timer and owes to arm it.
LEMMA ScanStep ==
  ASSUME IInv, NEW u \in Users, Scan(u)
  PROVE  IInv'
<1> USE DEF IInv, Scan, Enter, Goto, listVars, snapVars, driverVars
<1>1. PcType' /\ PlaceInv' /\ Sole'
  BY NetAssumption DEF PcType, Steps, Tasks, PlaceInv, Trying, Sole, Actors
<1>2. DataTypes'
  BY ScanTypes
<1>3. LocalType'
  BY NetAssumption DEF LocalType, Locals
<1>4. ThenInv' /\ DownInv'
  BY NetAssumption DEF ThenInv, PcType, LocalType, Tasks, DownInv, Actors, Trying,
     PlaceInv, Locals, Sole, DataTypes
<1>5. ConfigInv'
  BY NetAssumption DEF ConfigInv, Unstarted, Actors, PcType, LocalType, Locals, Tasks,
     ThenInv, PlaceInv, Trying, DataTypes, Alive, Chain, Bringing, Sole, Failing
<1>6. Alive'
  BY NetAssumption DEF Alive, Chain, Bringing, Actors, Trying, PcType, LocalType, Tasks,
     ThenInv, DataTypes
<1> QED BY <1>1, <1>2, <1>3, <1>4, <1>5, <1>6

\* The scan arms the timer again.
LEMMA ScanEndsStep ==
  ASSUME IInv, NEW u \in Users, ScanEnds(u)
  PROVE  IInv'
<1> USE DEF IInv, ScanEnds, ScheduleRetry, Leave, Goto, Nothing, listVars, snapVars,
     driverVars, histVars
<1>1. PcType' /\ PlaceInv' /\ Sole'
  BY NetAssumption DEF PcType, Steps, Tasks, PlaceInv, Trying, Sole
<1>2. LocalType'
  BY NetAssumption DEF LocalType, Locals, Tasks, DataTypes
<1>3. DataTypes'
  BY NetAssumption DEF DataTypes
<1>4. ThenInv' /\ DownInv'
  BY NetAssumption DEF ThenInv, PcType, LocalType, Tasks, DownInv, Actors, Trying
<1>5. ConfigInv'
  BY NetAssumption DEF ConfigInv, Unstarted, Actors, PcType, LocalType, Tasks
<1>6. Alive'
  BY NetAssumption DEF Alive, Chain, Bringing
<1> QED BY <1>1, <1>2, <1>3, <1>4, <1>5, <1>6

(***************************************************************************)
(* The driver and the air                                                  *)
(***************************************************************************)

\* An attempt ends in an association, or in a report.
LEMMA AttemptEndsStep ==
  ASSUME IInv, AttemptEnds
  PROVE  IInv'
<1> USE DEF IInv, AttemptEnds, Report, listVars, snapVars, retryVars, histVars
<1>1. PcType' /\ PlaceInv' /\ Sole'
  BY NetAssumption DEF PcType, Steps, Tasks, PlaceInv, Trying, Sole
<1>2. LocalType' /\ DataTypes'
  <2>1. Failing \subseteq Reports BY DEF Reports
  <2>2. events' \in Seq(Reports) BY <2>1, ReportTypes DEF DataTypes
  <2>3. driver' \in {"associated", "idle"} /\ target' = NoNetwork OBVIOUS
  <2> QED BY <2>2, <2>3 DEF LocalType, DataTypes
<1>3. ThenInv' /\ DownInv'
  BY NetAssumption DEF ThenInv, DownInv
<1>4. ConfigInv'
  BY NetAssumption DEF ConfigInv, Unstarted
<1>5. Alive'
  BY NetAssumption DEF Alive, Chain, Bringing, DataTypes
<1> QED BY <1>1, <1>2, <1>3, <1>4, <1>5

\* An address is given, which is reported.
LEMMA AddressGivenStep ==
  ASSUME IInv, AddressGiven
  PROVE  IInv'
<1> USE DEF IInv, AddressGiven, Report, listVars, snapVars, retryVars, histVars
<1>1. PcType' /\ PlaceInv' /\ Sole'
  BY NetAssumption DEF PcType, Steps, Tasks, PlaceInv, Trying, Sole
<1>2. LocalType' /\ DataTypes'
  BY NetAssumption DEF LocalType, DataTypes, Reports, Leaving, Failing
<1>3. ThenInv' /\ DownInv'
  BY NetAssumption DEF ThenInv, DownInv
<1>4. ConfigInv'
  BY NetAssumption DEF ConfigInv, Unstarted
<1>5. Alive'
  BY NetAssumption DEF Alive, Chain, Bringing, DataTypes
<1> QED BY <1>1, <1>2, <1>3, <1>4, <1>5

\* The link drops, which is reported.
LEMMA LinkDropsStep ==
  ASSUME IInv, LinkDrops
  PROVE  IInv'
<1> USE DEF IInv, LinkDrops, Report, listVars, snapVars, retryVars, histVars
<1>1. PcType' /\ PlaceInv' /\ Sole'
  BY NetAssumption DEF PcType, Steps, Tasks, PlaceInv, Trying, Sole
<1>2. LocalType' /\ DataTypes'
  BY NetAssumption DEF LocalType, DataTypes, Reports, Leaving, Failing
<1>3. ThenInv' /\ DownInv'
  BY NetAssumption DEF ThenInv, DownInv
<1>4. ConfigInv'
  BY NetAssumption DEF ConfigInv, Unstarted
<1>5. Alive'
  BY NetAssumption DEF Alive, Chain, Bringing
<1> QED BY <1>1, <1>2, <1>3, <1>4, <1>5

\* A network appears or goes away.
LEMMA AirChangesStep ==
  ASSUME IInv, NEW n \in Networks, AirChanges(n)
  PROVE  IInv'
<1> USE DEF IInv, AirChanges, listVars, snapVars, retryVars, driverVars, histVars
<1>1. PcType' /\ PlaceInv' /\ Sole'
  BY NetAssumption DEF PcType, Steps, Tasks, PlaceInv, Trying, Sole
<1>2. LocalType' /\ DataTypes'
  BY NetAssumption DEF LocalType, DataTypes
<1>3. ThenInv' /\ DownInv'
  BY NetAssumption DEF ThenInv, DownInv
<1>4. ConfigInv'
  BY NetAssumption DEF ConfigInv, Unstarted
<1>5. Alive'
  BY NetAssumption DEF Alive, Chain, Bringing
<1> QED BY <1>1, <1>2, <1>3, <1>4, <1>5

(***************************************************************************)
(* The invariant                                                           *)
(***************************************************************************)

\* With profiles saved the boot task is on its way to the first.
LEMMA Initially == Init => IInv
<1> SUFFICES ASSUME Init PROVE IInv OBVIOUS
<1> USE NetAssumption DEF Init
<1>1. profiles \in Seq(Networks) /\ Len(profiles) \in 0..MaxProfiles
  <2>1. PICK k \in 0..MaxProfiles : profiles \in [1..k -> Networks] BY DEF Tables
  <2>2. k \in Nat /\ profiles \in Seq(Networks) BY <2>1, SeqDef
  <2> QED BY <2>1, <2>2, LenProperties
<1>2. <<>> \in Seq(Networks) /\ Len(<<>>) = 0 BY EmptySeq
<1>3. PcType BY DEF PcType, Steps
<1>4. LocalType
  <2>1. Nothing \in Locals /\ Len(Nothing.table) <= MaxProfiles
    BY <1>2 DEF Nothing, Locals
  <2>2. [Nothing EXCEPT !.table = profiles] \in Locals
        /\ [Nothing EXCEPT !.table = profiles].table = profiles
    BY <1>1 DEF Nothing, Locals
  <2> QED BY <1>1, <2>1, <2>2 DEF LocalType
<1>5. DataTypes
  <2>1. candidates \in Seq(1..MaxProfiles) /\ tried \in 0..Len(candidates) BY EmptySeq
  <2>2. events \in Seq(Reports) BY DEF Reports
  <2>3. 0 \in 0..Len(profiles) /\ 0 \in 0..FastRetries /\ 0 \in 0..MaxOps BY <1>1
  <2>4. Len(profiles) <= MaxProfiles BY <1>1
  <2>5. cur \in 0..Len(profiles) /\ failures \in 0..FastRetries /\ ops \in 0..MaxOps BY <2>3
  <2> QED BY <1>1, <2>1, <2>2, <2>4, <2>5 DEF DataTypes
<1>6. PlaceInv /\ Sole /\ ThenInv /\ DownInv
  BY DEF PlaceInv, Sole, ThenInv, DownInv, Tasks, Actors, Trying, Nothing
<1>7. ConfigInv BY DEF ConfigInv, Unstarted, Actors, Tasks
<1>8. Alive
  <2> SUFFICES ASSUME profiles # <<>> PROVE Bringing("boot") BY DEF Alive, Actors
  <2>1. pc["boot"] = "install" /\ local["boot"].table = profiles BY DEF Tasks, Nothing
  <2> QED BY <2>1 DEF Bringing
<1> QED BY <1>3, <1>4, <1>5, <1>6, <1>7, <1>8 DEF IInv

\* A step of connecting, in whatever task.
LEMMA AdvanceStep ==
  ASSUME IInv, NEW t \in Tasks, Advance(t)
  PROVE  IInv'
  BY NextCandidateStep, NoneLeftStep, StopTimerStep, ConfigureStep, ConfigureFailsStep,
     IgnoreNextStep, DisconnectNowStep, ConnectNowStep DEF Advance

\* Nothing changes.
LEMMA Stutter == IInv /\ UNCHANGED vars => IInv'
  BY DEF vars, listVars, snapVars, retryVars, driverVars, histVars, IInv, PcType, LocalType,
     DataTypes, PlaceInv, Sole, ThenInv, DownInv, ConfigInv, Unstarted, Alive, Chain, Bringing

\* Every step keeps the invariant.
LEMMA Inductive == IInv /\ [Next]_vars => IInv'
<1> SUFFICES ASSUME IInv, [Next]_vars PROVE IInv' OBVIOUS
<1>0. Users \cup {"boot", "event", "timer"} = Tasks /\ "boot" \in Actors /\ Users \subseteq Actors
  BY DEF Tasks, Actors
<1>1. CASE BootTask
  BY <1>0, <1>1, InstallCandidatesStep, AdvanceStep DEF BootTask
<1>2. CASE EventTask
  BY <1>0, <1>2, StartedStep, IgnoredStep, DisconnectedStep, LostStep, GotIpStep,
     ReconnectStep, AdvanceStep DEF EventTask
<1>3. CASE TimerTask
  BY <1>0, <1>3, FireStep, WrapStep, AgainStep, ReconnectStep, AdvanceStep DEF TimerTask
<1>4. CASE \E u \in Users : Begins(u)
  BY <1>4, UpdateProfileStep, AddProfileStep, RemoveProfileStep, ScanStep DEF Begins
<1>5. CASE \E u \in Users : Continues(u)
  BY <1>0, <1>5, PersistStep, CopyTableStep, InstallCandidatesStep, ReviewStep, GoDownStep,
     ScanEndsStep, AdvanceStep DEF Continues
<1>6. CASE AttemptEnds \/ AddressGiven \/ LinkDrops \/ \E n \in Networks : AirChanges(n)
  BY <1>6, AttemptEndsStep, AddressGivenStep, LinkDropsStep, AirChangesStep
<1>7. CASE UNCHANGED vars BY <1>7, Stutter
<1> QED BY <1>1, <1>2, <1>3, <1>4, <1>5, <1>6, <1>7 DEF Next

\* The places, counters and locals of the profile table, the candidates and
\* the driver keep their types: a place held after an edit is in the table.
THEOREM TypeCorrect == Spec => []TypeOK
<1>1. IInv => TypeOK BY DEF IInv, PcType, LocalType, DataTypes, TypeOK
<1> QED BY <1>1, Initially, Inductive, PTL DEF Spec

\* The retry chain never stops: with a profile saved the device is associated,
\* trying or about to try, unless two users have been in net_manager at once,
\* an edit was not persisted, or the flag has swallowed an access point's own
\* leave and no attempt has begun since.
THEOREM RetriesGoOn == Spec => []RetryChainAlive
<1>1. IInv => RetryChainAlive
  <2> SUFFICES ASSUME IInv, profiles # <<>>, ~ disturbed, ~ missed, Quiet
               PROVE  driver # "idle" \/ retry
    BY DEF RetryChainAlive
  <2>1. \A t \in Tasks : pc[t] = "idle" BY DEF Quiet
  <2>2. Len(events) = 0 BY EmptySeq DEF Quiet
  <2>3. Actors \subseteq Tasks BY DEF Actors, Tasks
  <2>4. ~ \E u \in Actors : Bringing(u) BY <2>1, <2>3 DEF Bringing
  <2>5. Chain BY <2>4 DEF IInv, Alive
  <2> QED BY <2>1, <2>2, <2>3, <2>5 DEF Chain, Trying, Tasks
<1> QED BY <1>1, Initially, Inductive, PTL DEF Spec

(***************************************************************************)
(* A connection is shown                                                   *)
(***************************************************************************)
Bad == Leaving \cup Failing

\* The connection is yet to be reported.
IpWaits ==
  \E i \in 1..Len(events) :
    events[i] = "ip" /\ \A j \in 1..Len(events) : j > i => events[j] \notin Bad

NothingBadWaits == \A i \in 1..Len(events) : events[i] \notin Bad

\* A task is about to end the connection.
Ending ==
  \/ \E t \in Tasks : pc[t] \in {"stop", "configure", "ignore", "disconnect"}
  \/ profiles = <<>> /\ \E u \in Users : pc[u] \in {"persist", "rebuild", "down"}

OnlineInv == (driver = "online" /\ ~ disturbed) =>
  IpWaits \/ (NothingBadWaits /\ (connected \/ Ending))

\* What delivering the first report leaves of the others.
LEMMA Delivery ==
  ASSUME DataTypes, events # <<>>, events' = Tail(events)
  PROVE  /\ IpWaits /\ Head(events) # "ip" => IpWaits'
         /\ IpWaits => IpWaits' \/ NothingBadWaits'
         /\ NothingBadWaits => NothingBadWaits' /\ Head(events) \notin Bad
<1>1. /\ Len(events') = Len(events) - 1 /\ Len(events) \in Nat
      /\ \A j \in 1..Len(events') : events'[j] = events[j + 1]
  BY HeadTailProperties, Lengths DEF DataTypes
<1>2. Head(events) = events[1] /\ 1 \in 1..Len(events)
  BY <1>1, HeadTailProperties, EmptySeq DEF DataTypes
<1>3. ASSUME NEW i \in 1..Len(events), events[i] = "ip",
             \A j \in 1..Len(events) : j > i => events[j] \notin Bad
      PROVE  IF i = 1 THEN NothingBadWaits' ELSE IpWaits'
  <2>1. CASE i = 1
    <3>1. \A j \in 1..Len(events') : events'[j] \notin Bad BY <1>1, <1>3, <2>1
    <3> QED BY <2>1, <3>1 DEF NothingBadWaits
  <2>2. CASE i # 1
    <3>1. i - 1 \in 1..Len(events') /\ events'[i - 1] = "ip" BY <1>1, <1>3, <2>2
    <3>2. \A j \in 1..Len(events') : j > i - 1 => events'[j] \notin Bad BY <1>1, <1>3
    <3> QED BY <2>2, <3>1, <3>2 DEF IpWaits
  <2> QED BY <2>1, <2>2
<1>4. NothingBadWaits => NothingBadWaits' BY <1>1 DEF NothingBadWaits
<1> QED BY <1>2, <1>3, <1>4 DEF IpWaits, NothingBadWaits

\* Every step keeps a connection shown, or its report or its end on the way.
LEMMA OnlineStep ==
  ASSUME IInv, OnlineInv, [Next]_vars
  PROVE  OnlineInv'
<1>0. Users \cup {"boot", "event", "timer"} = Tasks /\ "boot" \in Actors /\ Users \subseteq Actors
  BY DEF Tasks, Actors
<1>1. ASSUME NEW t \in Tasks, NextCandidate(t) PROVE OnlineInv'
  BY <1>1, NetAssumption DEF IInv, NextCandidate, Goto, snapVars, driverVars, histVars,
     OnlineInv, IpWaits, NothingBadWaits, Ending, PcType, Tasks
<1>2. ASSUME NEW t \in Tasks, NoneLeft(t) PROVE OnlineInv'
  BY <1>2, NetAssumption DEF IInv, NoneLeft, ScheduleRetry, Leave, Goto, Nothing,
     listVars, snapVars, driverVars, histVars, OnlineInv, IpWaits, NothingBadWaits,
     Ending
<1>3. ASSUME NEW t \in Tasks, StopTimer(t) PROVE OnlineInv'
  BY <1>3, NetAssumption DEF IInv, StopTimer, Goto, listVars, snapVars, driverVars,
     histVars, OnlineInv, IpWaits, NothingBadWaits, Ending
<1>4. ASSUME NEW t \in Tasks, Configure(t) PROVE OnlineInv'
  BY <1>4, NetAssumption DEF IInv, Configure, Goto, listVars, snapVars, retryVars,
     histVars, OnlineInv, IpWaits, NothingBadWaits, Ending
<1>5. ASSUME NEW t \in Tasks, ConfigureFails(t) PROVE OnlineInv'
  BY <1>5, NetAssumption DEF IInv, ConfigureFails, Goto, listVars, snapVars, retryVars,
     driverVars, histVars, OnlineInv, Ending
<1>6. ASSUME NEW t \in Tasks, IgnoreNext(t) PROVE OnlineInv'
  BY <1>6, NetAssumption DEF IInv, IgnoreNext, Goto, listVars, snapVars, retryVars,
     driverVars, histVars, OnlineInv, IpWaits, NothingBadWaits, Ending
<1>7. ASSUME NEW t \in Tasks, DisconnectNow(t) PROVE OnlineInv'
  BY <1>7, NetAssumption DEF IInv, DisconnectNow, Disconnect, Leave, Goto, Nothing,
     listVars, snapVars, retryVars, histVars, OnlineInv, Ending
<1>8. ASSUME NEW t \in Tasks, ConnectNow(t) PROVE OnlineInv'
  BY <1>8, NetAssumption DEF IInv, ConnectNow, Connect, Goto, Leave, Nothing, listVars,
     snapVars, retryVars, histVars, OnlineInv, IpWaits, NothingBadWaits, Ending, PcType,
     Tasks
<1>9. ASSUME Started PROVE OnlineInv'
  <2>1. /\ events # <<>> /\ Head(events) = "start" /\ events' = Tail(events)
        /\ UNCHANGED <<profiles, driver, connected, disturbed>>
        /\ pc["event"] = "idle" /\ \A t \in Tasks \ {"event"} : pc'[t] = pc[t]
    BY <1>9 DEF IInv, PcType, Started, Delivers, Goto, histVars
  <2>2. Ending => Ending' BY <2>1, NetAssumption DEF Ending, Tasks
  <2> QED BY <2>1, <2>2, Delivery DEF IInv, OnlineInv
<1>10. ASSUME Ignored PROVE OnlineInv'
  <2>1. /\ events # <<>> /\ Head(events) \in Bad /\ events' = Tail(events)
        /\ UNCHANGED <<driver, disturbed>>
    BY <1>10 DEF Ignored, Delivers, histVars, Bad
  <2>2. Head(events) # "ip" BY <2>1 DEF Bad, Leaving, Failing
  <2> QED BY <2>1, <2>2, Delivery DEF IInv, OnlineInv
<1>11. ASSUME Disconnected PROVE OnlineInv'
  <2>1. /\ events # <<>> /\ Head(events) \in Bad /\ events' = Tail(events)
        /\ UNCHANGED <<driver, disturbed>>
    BY <1>11 DEF Disconnected, Delivers, histVars, Bad
  <2>2. Head(events) # "ip" BY <2>1 DEF Bad, Leaving, Failing
  <2> QED BY <2>1, <2>2, Delivery DEF IInv, OnlineInv
<1>12. ASSUME Lost PROVE OnlineInv'
  BY <1>12, NetAssumption DEF IInv, Lost, ScheduleRetry, Goto, listVars, snapVars,
     driverVars, histVars, OnlineInv, IpWaits, NothingBadWaits, Ending
<1>13. ASSUME GotIp PROVE OnlineInv'
  <2>1. /\ events # <<>> /\ events' = Tail(events) /\ connected'
        /\ UNCHANGED <<driver, disturbed>>
    BY <1>13 DEF GotIp, Delivers, histVars
  <2> QED BY <2>1, Delivery DEF IInv, OnlineInv
<1>14. ASSUME NEW t \in {"event", "timer"}, Reconnect(t) PROVE OnlineInv'
  BY <1>14, NetAssumption DEF IInv, Reconnect, Connect, Goto, listVars, snapVars,
     retryVars, histVars, OnlineInv, IpWaits, NothingBadWaits, Ending
<1>15. ASSUME Fire PROVE OnlineInv'
  BY <1>15, NetAssumption DEF IInv, Fire, Goto, listVars, snapVars, driverVars,
     histVars, OnlineInv, IpWaits, NothingBadWaits, Ending
<1>16. ASSUME Wrap PROVE OnlineInv'
  BY <1>16, NetAssumption DEF IInv, Wrap, Goto, snapVars, driverVars, histVars,
     OnlineInv, IpWaits, NothingBadWaits, Ending
<1>17. ASSUME Again PROVE OnlineInv'
  BY <1>17, NetAssumption DEF IInv, Again, Goto, listVars, retryVars, driverVars,
     histVars, OnlineInv, IpWaits, NothingBadWaits, Ending
<1>18. ASSUME NEW u \in Users, NEW n \in Networks, NEW changed \in BOOLEAN, UpdateProfile(u, n, changed)
      PROVE  OnlineInv'
  BY <1>18, NetAssumption DEF IInv, UpdateProfile, Enter, Saved, Place, Goto, listVars,
     snapVars, retryVars, driverVars, OnlineInv, IpWaits, NothingBadWaits, Ending,
     PcType, Tasks
<1>19. ASSUME NEW u \in Users, NEW n \in Networks, AddProfile(u, n) PROVE OnlineInv'
  BY <1>19, NetAssumption DEF IInv, AddProfile, Enter, Saved, Goto, listVars, snapVars,
     retryVars, driverVars, OnlineInv, IpWaits, NothingBadWaits, Ending, PcType, Tasks
<1>20. ASSUME NEW u \in Users, NEW n \in Networks, RemoveProfile(u, n) PROVE OnlineInv'
  <2>1. /\ pc[u] = "idle" /\ pc' = [pc EXCEPT ![u] = "persist"] /\ u \in Tasks
        /\ disturbed' = (disturbed \/ \E v \in Users \ {u} : pc[v] # "idle")
        /\ UNCHANGED <<driver, events>>
    BY <1>20 DEF RemoveProfile, Enter, Goto, Tasks, driverVars
  <2>2. pc'[u] = "persist" /\ \A v \in Tasks \ {u} : pc'[v] = pc[v] BY <2>1 DEF IInv, PcType
  <2>3. CASE Len(profiles) = 1
    <3>1. profiles' \in Seq(Networks) /\ Len(profiles') = 0
      BY <1>20, <2>3, RemoveTypes DEF DataTypes
    <3>2. profiles' = <<>> BY <3>1, EmptySeq
    <3> QED BY <2>1, <2>2, <3>2 DEF OnlineInv, IpWaits, NothingBadWaits, Ending
  <2>4. CASE Len(profiles) # 1
    <3>1. connected' = connected BY <1>20, <2>4 DEF RemoveProfile
    <3>2. profiles # <<>> BY <1>20, NoPlace DEF RemoveProfile, Saved
    <3> QED BY <2>1, <2>2, <3>1, <3>2 DEF OnlineInv, IpWaits, NothingBadWaits, Ending
  <2> QED BY <2>3, <2>4
<1>21. ASSUME NEW u \in Users, Persist(u) PROVE OnlineInv'
  BY <1>21, NetAssumption DEF IInv, Persist, Goto, Leave, Nothing, listVars, snapVars,
     retryVars, driverVars, OnlineInv, IpWaits, NothingBadWaits, Ending, PcType, Tasks
<1>22. ASSUME NEW u \in Users, CopyTable(u) PROVE OnlineInv'
  BY <1>22, NetAssumption DEF IInv, CopyTable, Goto, listVars, snapVars, retryVars,
     driverVars, histVars, OnlineInv, IpWaits, NothingBadWaits, Ending, PcType, Tasks
<1>23. ASSUME NEW u \in Actors, InstallCandidates(u) PROVE OnlineInv'
  BY <1>23, NetAssumption DEF IInv, InstallCandidates, Orders, Goto, snapVars,
     retryVars, driverVars, histVars, OnlineInv, IpWaits, NothingBadWaits, Ending
<1>24. ASSUME NEW u \in Users, Review(u) PROVE OnlineInv'
  BY <1>24, NetAssumption DEF IInv, Review, Keeps, Leave, Goto, Nothing, listVars,
     snapVars, retryVars, driverVars, histVars, OnlineInv, IpWaits, NothingBadWaits,
     Ending, PcType, Tasks
<1>25. ASSUME NEW u \in Users, GoDown(u) PROVE OnlineInv'
  BY <1>25, NetAssumption DEF IInv, GoDown, Goto, listVars, retryVars, driverVars,
     histVars, OnlineInv, IpWaits, NothingBadWaits, Ending, PcType, Tasks
<1>26. ASSUME NEW u \in Users, Scan(u) PROVE OnlineInv'
  BY <1>26, NetAssumption DEF IInv, Scan, Enter, Goto, listVars, snapVars, driverVars,
     OnlineInv, IpWaits, NothingBadWaits, Ending, PcType, Tasks
<1>27. ASSUME NEW u \in Users, ScanEnds(u) PROVE OnlineInv'
  BY <1>27, NetAssumption DEF IInv, ScanEnds, ScheduleRetry, Leave, Goto, Nothing,
     listVars, snapVars, driverVars, histVars, OnlineInv, IpWaits, NothingBadWaits,
     Ending
<1>28. ASSUME AttemptEnds PROVE OnlineInv'
  BY <1>28, NetAssumption DEF IInv, AttemptEnds, Report, listVars, snapVars, retryVars,
     histVars, OnlineInv, IpWaits, NothingBadWaits, Ending
<1>39. ASSUME AddressGiven PROVE OnlineInv'
  BY <1>39, NetAssumption DEF IInv, AddressGiven, Report, DataTypes, OnlineInv, IpWaits
<1>29. ASSUME LinkDrops PROVE OnlineInv'
  BY <1>29, NetAssumption DEF IInv, LinkDrops, Report, listVars, snapVars, retryVars,
     histVars, OnlineInv, Ending
<1>30. ASSUME NEW n \in Networks, AirChanges(n) PROVE OnlineInv'
  BY <1>30, NetAssumption DEF IInv, AirChanges, listVars, snapVars, retryVars,
     driverVars, histVars, OnlineInv, IpWaits, NothingBadWaits, Ending
<1>31. ASSUME NEW t \in Tasks, Advance(t) PROVE OnlineInv'
  BY <1>31, <1>1, <1>2, <1>3, <1>4, <1>5, <1>6, <1>7, <1>8
     DEF Advance
<1>32. CASE BootTask
  BY <1>0, <1>32, <1>23, <1>31 DEF BootTask
<1>33. CASE EventTask
  BY <1>0, <1>33, <1>9, <1>10, <1>11, <1>12, <1>13, <1>14, <1>31 DEF EventTask
<1>34. CASE TimerTask
  BY <1>0, <1>34, <1>15, <1>16, <1>17, <1>14, <1>31 DEF TimerTask
<1>35. CASE \E u \in Users : Begins(u)
  BY <1>0, <1>35, <1>18, <1>19, <1>20, <1>26 DEF Begins
<1>36. CASE \E u \in Users : Continues(u)
  BY <1>0, <1>36, <1>21, <1>22, <1>23, <1>24, <1>25, <1>27, <1>31 DEF Continues
<1>37. CASE AttemptEnds \/ AddressGiven \/ LinkDrops \/ \E n \in Networks : AirChanges(n)
  BY <1>0, <1>37, <1>28, <1>39, <1>29, <1>30
<1>38. CASE UNCHANGED vars
  BY <1>38 DEF vars, listVars, snapVars, retryVars, driverVars, histVars, OnlineInv, IpWaits,
     NothingBadWaits, Ending
<1> QED BY <1>32, <1>33, <1>34, <1>35, <1>36, <1>37, <1>38 DEF Next

\* A connection is shown once every report is handled and every task idle,
\* unless two users have been in net_manager at once or an edit was not
\* persisted: no late report of an earlier disconnection hides it.
THEOREM ConnectionsAreShown == Spec => []OnlineIsShown
<1>1. Init => OnlineInv BY DEF Init, OnlineInv
<1>2. IInv /\ OnlineInv /\ [Next]_vars => OnlineInv' BY OnlineStep
<1>3. IInv /\ OnlineInv => OnlineIsShown
  <2> SUFFICES ASSUME IInv, OnlineInv, driver = "online", Quiet, ~ disturbed PROVE connected
    BY DEF OnlineIsShown
  <2>1. ~ IpWaits BY EmptySeq DEF IpWaits, Quiet
  <2>2. ~ Ending BY DEF Ending, Quiet, Tasks
  <2> QED BY <2>1, <2>2 DEF OnlineInv
<1> QED BY <1>1, <1>2, <1>3, Initially, Inductive, PTL DEF Spec
=============================================================================
