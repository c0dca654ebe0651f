# A TLA+ model of the my-esp32 dashboard

This directory holds a formal model of the firmware under `src/src/` (an ESP32
dashboard with three apps, driven by FreeRTOS tasks) and of the host tool under
`src/tools/esp32dash/` that talks to it over a serial line: TLA+ modules, TLC
configurations, and theorems whose proofs TLAPS checks.
`PROJECT.json` lists the same project in machine-readable form: components,
runs, mutants, the line of code behind each definition, hazards and theorems.

To check it, in this directory:

    tlc -workers 2 -config MCUiControl.cfg MCUiControl      # one per .cfg
    tlapm UiControlProofs.tla                               # one per *Proofs.tla

## 1. The system

### 1.1 Tasks

| task | runs | started |
|---|---|---|
| boot (`app_main`) | `bootstrap_start()`: init of every service, registration of the apps, first switch | first |
| LVGL | `lvgl_port_task()`: takes the LVGL lock, `app_manager_process_ui_events()`, then `lv_timer_handler()` (touch, widget callbacks), releases, sleeps | before the apps are registered |
| device link reader | reads frames, answers commands, asks the app manager to switch or to take a screenshot | before the apps are registered |
| event timer | publishes the 1 s tick, on which most services act | at the end of boot |
| event loop (`esp_event`) | `wifi_event_handler()`: what the Wi-Fi driver reports; publishes network changes and sets `wifi_connected` | with net_manager |
| FreeRTOS timer service | `retry_timer_cb()` | with net_manager |
| power runtime, weather worker, market workers | one command queue each | with their service |
| host: agent | one handler per hook request and a timer per held tool event on a thread pool, and the reconcile task | by the user's login |
| host: device worker | `worker_loop()`, one command channel | with the agent |
| host: command line | one process per hook or command | by Claude Code or the user |

`event_bus_publish()` is synchronous: every subscriber runs in the publisher's
task. Most races below come from that: a handler written as if it had a task of
its own runs in several.

### 1.2 Components

| component | state | operations | interacts through | hard part | correct when |
|---|---|---|---|---|---|
| core_app_manager | slots, `s_foreground_app`, control queue, event queue, request counter | register, switch, request/post, on_event, process_ui_events | LVGL lock, control queue + task notification, event bus, system_state | requests that time out and are answered later; switching from two tasks; boot overlapping requests | one foreground, own replies, at-most-once requests |
| core_system_state | policy input | set foreground, set wifi | mutex, event after it | two setters | policy follows the last input |
| power_policy | input and output | on_input_changed, get_output | mutex | called under another mutex | output is that of the input |
| power_runtime | command queue | handler, task | event bus, queue | dropped commands, late copies | backlight ends at the current output |
| service_weather | snapshot, location, flag, times | tick, net change, refresh, apply location, worker | event bus, queue, mutex | decisions from copies; a new location during a fetch | REFRESHING is real, data are not lost, the location is fetched |
| service_market | refresh mode, pair, candles, feeds | policy event, tick, select, workers | event bus, queues, mutex | REST against stream results, retained snapshots | mode follows policy; no old feed overwrites a new one |
| net_manager | connection state, profiles, retry timer, scan | connect, events, retry, scan | esp events, timers, mutex | intentional against real disconnects; a late retry against GOT_IP; edits and scans against both | with a profile it never stops trying; a connection is shown |
| device_link, device_protocol | line buffer, screenshot buffer | hello, config, claude.update, screenshot | serial line, app manager, services | half-applied configurations, buffers shared with requests | a command's answer is true |
| service_claude, service_home | snapshots | apply, staleness, merge | event bus | connection lost or late | stale snapshots are marked |
| service_settings, service_time, bootstrap | NVS, clock, boot order | save, load, sync | NVS, SNTP | power loss between two writes | settings are valid after any reset |
| bsp_board | LVGL lock, panel, touch, RTC | lock, swipe | event bus | lock held over callbacks | lock is exclusive |
| app_home, app_settings, app_trading | views | life cycle, callbacks | app manager, services | called before init or while suspended | life cycle respected |
| esp32dash agent | sessions, pending interactions, held tool event, snapshot, state file | hooks, flush, reconcile, save, restart | HTTP, files, device worker | saving and sending out of the lock, handlers dropped half way, one file for all saves | the snapshot shows sessions and interactions as they are; it is saved before it is sent |
| esp32dash device worker | serial session, pending snapshot, request ids | send, relay, pause, reconnect, resend | serial line, channel | lost, repeated snapshots; answers that come too late; other processes on the port | the last snapshot arrives, and never an older one after it |
| esp32dash command line | one request, one session | pause or relay, open the port, write, wait | agent, serial line | waiting for an agent that waits for the device | every command ends, and success means that it was done |

Fonts, themes, sprite and font tools, and cJSON keep no state and are left out.

## 2. What is modelled

### 2.1 UiRpc, UiControl: asking the LVGL task for something

`UiRpc` is the promise: a remote call with at-most-once execution, where a
caller that gives up learns nothing. `UiControl` is the code:
`request_ui_control()` draws a 16-bit id, queues the request, and waits for a
*direct-to-task notification* whose value packs id and result. The notification
value is one word per task and is overwritten (`eSetValueWithOverwrite`), so an
answer to an abandoned request can arrive while the next call waits, and ids
wrap.

| code (`app_manager.c`) | module |
|---|---|
| `next_ui_control_request_id`, clearing the old notification (144-157, 305-324) | `Call` |
| `xQueueSend` with a timeout (326-332) | `Send`, `SendTimeout` |
| the wait loop (335-354) | `Accept`, `DiscardStale`, `GiveUpAfterStale`, `WaitTimeout` |
| `post_ui_control` (284-303) | `Post` |
| one round of the control loop (592-599) | `Take`, `Execute`, `Reply` |

### 2.2 AppManager: the foreground

`AppManager` instantiates `UiControl` and says what executing a request does.
`switch_to_locked()` is cut at the points where somebody else can see or change
what it has done so far (`AtSteps`): after `suspend()`; after
`system_state_set_foreground_app()`, whose subscribers run inside the switch and
may queue UI events; after the roots are swapped. The LVGL task's loop is
`LvglLock`, the control phase, the event phase, the timer handler phase with its
touches (`Tap`, `Swipe`), `LvglUnlock`. The boot task registers apps
(`RegisterSlot`, `RegisterInit`) and makes the first switch (`BootLock` ...
`BootEnds`) while the other tasks already run, as `bootstrap.c` orders it.

### 2.3 PowerMode: from an input to the backlight and the market mode

Three kinds of task call `system_state_set_*()`. The setter assigns and
recomputes under `system_state`'s mutex, taking `power_policy`'s inside it
(`SetInput`, `Recompute`, `Give`), and publishes after both are released, so
subscribers run one after the other in the setter's task (`NotifyRuntime`,
`ReadPolicy`, `WriteMode`). `power_runtime`'s own task takes commands, copies
the output and sets the backlight (`TakeCommand`, `CopyOutput`, `SetBacklight`).

### 2.4 WeatherService: a cache and its worker

Ticks, network changes, the refresh button and new locations (`Tick`,
`NetChanges`, `RequestRefresh`, `ApplyLocation`) decide from copies, step by
step outside the mutex (`CheckOnline`, `CheckAttempt`, `CheckGuard`), and then
queue a command (`Send`). The worker rechecks (`WorkerOnline`),
starts (`StartFetch`) and ends (`FetchSucceeds`, `FetchFails`) the fetch; a
location can be applied in between. Times are ages capped at the interval.

### 2.5 NetManager: staying on a saved network

The driver is external: `esp_wifi_connect()` (`Connect`) starts an attempt if
the driver is idle and configured, `esp_wifi_disconnect()` (`Disconnect`) ends
what there is. An attempt ends (`AttemptEnds`) in a report of its failure, or in
an association, of which nothing is reported until an address is given
(`AddressGiven`), if one ever is. An association or a connection ends
(`LinkDrops`) in a report with any reason: a loss, an authentication failure, or
the access point's own leave (reason 8, `kicked`), which the handler cannot
tell from the device's (`leave`). Reports wait in `events`. `AirChanges` opens
and closes networks. Four kinds of task run the code:

| task | steps |
|---|---|
| boot | `net_manager_start()`, its first scan and attempt: `InstallCandidates`, `Advance` |
| event loop | `wifi_event_handler()`: `Started`, `Ignored`, `Disconnected` and `Lost`, `GotIp` |
| timer | `retry_timer_cb()`: `Fire`, then `Wrap` (next candidate) or `Again` (same one) |
| `Users` (device link, settings) | `AddProfile`, `UpdateProfile`, `RemoveProfile` with `Persist`, `CopyTable`, `InstallCandidates`, `Review`, `GoDown`; `Scan`, `ScanEnds` |

All of them reach `advance_to_next_candidate()` and
`start_connection_to_profile()` (`Advance`), which is cut wherever another task
can come in between: taking the candidate, stopping the timer, configuring the
driver, setting `s_ignore_disconnect_event`, disconnecting, connecting.
`then` is where a task goes on after it has disconnected. A profile is its
network; `cur` and `candidates` hold places in the table, as in the code, and
become wrong as in the code when the table is edited under them. A scan's
result is any order of the candidates (`Orders`).

Two things the code cannot do are named and excepted. One: the flag
`s_ignore_disconnect_event` stays set when the driver was idle, since an idle
disconnection is not reported, and `GOT_IP` does not clear it. The comment at
`net_manager.c:607-610` says that a later real failure is not swallowed, as only
the reasons of a leave are; but an access point that sends the device away with
reason 8 reports just that, and `wifi_event_handler()` drops it
(`net_manager.c:766-771`). From then on the snapshot says connected and nobody
tries again. The history variable `missed` says that it has happened since the
last attempt began; `RetryChainAlive` is claimed while it has not, and shows that
nothing else ends the retries. Two: nothing watches an association without an
address, so a network that lets the device in but whose DHCP server is silent
keeps it from every other (a premise of `Connects`).

The history variable `disturbed` of this module becomes true when a second user enters while
the first is in the component, or when an edit could not be stored. The code
does nothing about either (two entries under "hazards"), and after either a
saved profile may be left with nobody trying it; the properties are claimed up
to that point.

### 2.6 ClaudeAgent: from hooks to one snapshot

Every hook of Claude Code is one HTTP request to the agent. Its handler runs
through several sections under the state lock and works on what it remembers in
between; each section is one action, and so is each operation on the state file
and on the worker's channel after the lock.

| code (`agent.rs`) | module |
|---|---|
| `ingest()`: the request arrives; pending interactions its event settles | `Arrive`, `ClearForEvent`, `Refresh` |
| `handle_pre_tool()`, `handle_post_tool()`, `flush_pending_tool*()`: a tool event is held back for its end, for the next hook, or for its timer | `Store`, `Match`, `Flush`, `TakeHeld` |
| `process_event()`: submit an interaction; apply the event to the sessions | `Submit`, `Apply` |
| `finalize_guard_state()`: prune, select, number the snapshot | `Publish` (inside the actions that call it) |
| `persist_state()`: write `state.json.tmp`, rename it; then `send_snapshot()` | `Open`, `Write`; `OpenFails`, `WriteFails`; `Send` |
| `reconcile_sessions()`, `PendingQueue::drop_expired()` | `Reconcile`, `Expire` |
| `build_app_state()` after a crash | `Restart` |

`sessions`, `queue`, `snapshot` and `held` are the fields of `AgentState`; a task
carries `doing` (its event), `save` and `send` (what is left for after the lock).
`Cancel` is `ingest_from_stdin()`'s timeout of 100 ms: the client closes the
connection and the server drops the handler where it waits for the lock.
`Restart` may come at any step and leaves only the file. All saves go through
one temporary file; `mixed` are the tasks whose writes to it overlap, and such a
save may leave a file that is not JSON. A save may also fail by itself, at
`open()` or at any later call (`OpenFails`, `WriteFails`): its task only logs that
(`agent.rs:302-306`, `323-327`) and hands its snapshot over all the same.
`unsaved` is the highest number whose save failed and `forgotten` is what it was
when the agent last started: until the numbering has passed it again, the agent
is behind what the device may have seen. Four more history variables name what
the code does nothing about: `stale` (a change nobody is going to show until the
next event or reconciliation), `crossed` (a task numbered a snapshot while
another was carrying its own to the worker), `disturbed` (saves that overlapped
or overtook one another) and `excused` (sessions pruned to make room, or whose
handler was dropped).

A session is its number, a view is what `materially_equal()` compares. Texts,
and the emotions computed from them, are left out.

### 2.7 SnapshotRegister, SerialLink: host and device over one line

`SnapshotRegister` is the promise the agent relies on when it hands snapshots
over: a register written on one side and shown on the other, which may skip and
repeat snapshots and forgets everything at a restart, but never goes back, never
makes one up, and calls itself connected only when it has something to show. It
has `given` (the snapshots handed over), `shows`, `newest` (shown since the last
restart) and `link`. `SerialLink` implements it with `handed`, `shown`, `best` and
`conn`: everything in between, the channel, the pending snapshot and the frames
on the line, is hidden.

`SerialLink` is the code. It has both ends of the USB line: the agent's device worker, the
commands of the command line, and `device_link.c` with the snapshot that
`service_claude.c` keeps. `down` and `up` are the frames on the line, `commands`
the worker's channel.

| code | module |
|---|---|
| `worker_loop()`: open, hello, the pending snapshot | `Connect`, `ReadHello`, `NoHello`, `Greet` |
| its commands while connected, and reading in between | `PushSnapshot`, `PushEvent`, `PushRequest`, `Pause`, `PollFrame` |
| `perform_rpc()` | `ReadReply`, `RequestFails` |
| its commands while paused or waiting to reconnect | `Offline`, `Pause`, `Resume` |
| `send_snapshot()`, the reconcile task's heartbeat | `SendSnapshot`, `SendHeartbeat` |
| `run_request()`, `pause_agent()`, `rpc_via_agent()` (`main.rs`) | `Call`, `Called` |
| `request_direct()`, `send_protocol_event_direct()` | `OpenPort`, `AwaitHello`, `WriteEvent`, `WriteRequest`, `AwaitReply`, `Fail` |
| `hello_task()`, `handle_event_frame()`, `handle_request_frame()` | `SayHello`, `HandleEvent`, `TakeRequest`, `Respond` |
| `claude_service_check_staleness()` | `GoStale` |
| a restart of the device, the cable | `Reset`, `Unplug`, `Plug` |

The port is not opened exclusively, so any process that has it open may take any
frame off `up`. Frames are whole; one that finds `up` full is dropped, as
`write_protocol_json()` does when the host does not read. Request ids count from
1 in every process, which is why an answer can reach the wrong one: `reused`
are the ids under which a request was written while the same id was under way or
waited for. `wiped` are the commands whose test update was on the line when the
device restarted (`Reset` empties the line; the port stays open): their
`device.info` is answered by the restarted device. A snapshot is its number in the order in which the worker gets it
(`ClaudeAgent` shows in which order that is); `Test` is the one of `chibi test`.

## 3. The runs

| run | states what | result |
|---|---|---|
| `control` | `ReplyIsOwn`, `ReplyNotLost`, `ImplementsRpc` (refinement of `UiRpc`), `WaitingReturns` (a waiting call returns even if it never times out), `TypeOK` | holds |
| `app_manager` | `OneSwitch`, `ForegroundAgrees`, `SentToResumed`, `OkMeansShown`, `ServesControl` (if events stop coming the loop is the fair server of `UiControl`), `BootFinishes` (likewise), `TypeOK` | holds |
| `app_life_cycle` | `InitBeforeCreateRoot`, as `app-manager-event-bus.md` states it | **violated** |
| `power` | `PolicyAgrees`, `ModeAgreesUnlessRaced`, `BacklightOwed`, `BacklightSettles`, `TypeOK` | holds |
| `weather` | `RefreshingIsReal`, `DataIsKept`, `LocationIsFetched`, `TypeOK` | holds |
| `net` | `RetryChainAlive`, `OnlineIsShown`, `TypeOK` | holds |
| `net_live` | `Connects`: a saved network that stays open is found, if those that let the device in give it an address | holds |
| `net_down` | `NoProfileMeansDown`, as `wifi-credential-optimization.md` states it | **violated** |
| `claude_agent` | `LevelShown`, `NewestCarried`, `HandedInOrder`, `SavedBeforeSent`, `OneSessionPerProcess`, `PendingHasSession`, `Settles`, `TypeOK` | holds |
| `claude_seq` | `SeqGrows`: the `seq` the device gets only grows, as `dashboard-design.md` states it | **violated** |
| `serial` | `OkMeansHandled`, `LastIsOwed`, `CallsAreOwed`, `ImplementsRegister` (refinement of `SnapshotRegister`), `CommandsEnd`, `LastIsShown`, `TypeOK` | holds |
| `serial_reboot` | `HelloIsAnswered`: after a hello the device is sent the current snapshot, as `dashboard-design.md` states it | **violated** |

The four violations:

1. **An app's root may be created before its `init()`**. `app_manager_register()`
   sets `in_use` before it calls `init()`, and the device link reader and the
   LVGL task already run. A switch requested in between creates the root; the
   `init()` that follows clears the runtime's pointers to it, and Home's
   `resume()` and `handle_control()` return early from then on. The window is
   the boot, and the requester must be a host that asks for Home at that moment.
2. **Connected without a profile**. Removing the last profile clears the
   snapshot and then disconnects, with the flag set that has the disconnection
   ignored. An attempt that succeeds in between reports its address, the
   snapshot says UP, and the ignored disconnection never takes it back.
3. **The device can get a newer snapshot before an older one**.
   `dashboard-design.md:260` calls `seq` increasing. `process_event()` and
   `refresh_snapshot()` number the snapshot under the state lock and hand it to
   the worker after it (`agent.rs:331`, `309`), with a file written in between:
   two handlers can do so in either order. The device has no check of its own and
   shows the older one until the next change. `NewestCarried` says that the newest
   one is at least never lost, and `HandedInOrder` says what else can bring the
   order about: as long as no task numbers a snapshot while another carries one,
   no save is disturbed, and the agent has not restarted behind a snapshot whose
   save failed, the worker has the newest snapshot ever handed over, restarts of
   the agent included.
4. **A hello may go unanswered**. `dashboard-design.md:271-272` and `503` have the
   host answer a hello with the current snapshot. The worker does so when it
   opens the port; a hello it reads later, from a device that restarted while
   the port stayed open, only updates the status (`device.rs:418`). The device
   then shows nothing until the next change or reconnection. `LastIsShown` says
   that this, and a `chibi test`, are the only ways to end up without the last
   snapshot.

Two disagreements have no run of their own: the properties of the passing runs
name them as exceptions, and without its exception TLC finds each property
violated.

* The comment in `send_protocol_event_direct()` (`device.rs:232-234`) says that a
  successful response guarantees that the preceding event was handled, since the
  device handles frames in order. It does, but a device that restarts between the
  two loses the event and answers the request, over a port that stays open:
  `chibi test` then reports success for nothing (`OkMeansHandled`, `wiped`).
* The comment at `net_manager.c:607-610` says that the ignore flag never swallows a
  real failure; it swallows an access point's reason 8 (`RetryChainAlive`,
  `missed`; section 2.5).

Three weak spots that no document contradicts are named inside properties that
hold. A snapshot whose save failed is sent all the same (`SavedBeforeSent`). The market mode can stay behind the policy only if two runs of its handler
overlap (`ModeAgreesUnlessRaced`). Applying a location clears
`s_refresh_in_progress` during a fetch, and still the visible state never claims
a fetch that is not there (`RefreshingIsReal`) and the new location is fetched in
the end (`LocationIsFetched`).

`OnlineIsShown` speaks of `connected` (`wifi_connected`, `ip_ready`) and not of
the state: a retry that fires just as the address arrives sets the state back to
CONNECTING, since `retry_timer_cb()` does not look at it and `GOT_IP` does not
stop the timer. The connection itself stays, and is shown by `wifi_connected`. Likewise a scan
stops the timer and disconnects, but the event loop task may already be past its
checks (after the driver's start or an authentication failure) and starts an
attempt while the scan runs; `RetryChainAlive` says that the retries go on all
the same.

### 3.1 Bounds, and why they are enough

* `control`: two requesters, a queue of 2 (4 in the code), `MaxId` 3 (65535),
  4 calls. Two places are fewer than the requests that can be in flight (two
  calls, their abandoned predecessors, posts), so the full queue occurs; ids
  wrap after 3 calls. `IdWindow` keeps fewer than `MaxId` ids drawn while one
  request is outstanding; the firmware's window is 65535 ids. The theorems
  hold for every value.
* `app_manager`: one requester (the device link is the only one in the code),
  2 calls, a UI event queue of 2 (16), one touch, all three apps, any number
  of other events: enough for a touch and two requests to interleave with the
  boot task at every cut of a switch. The theorems have no bound.
* `power`: two net tasks beside the UI task, a runtime queue of 2 (8). A race
  needs two tasks; the third shows that two racing do not spoil a third.
* `weather`: two locations, one UI task beside the device link, a queue of one
  place (4), the case where commands are dropped most easily; ages up to 2, which
  separates "just now", "past the guard" and "past the interval".
* `net`: two networks in a table of two (`NET_PROFILE_MAX` is larger), one fast
  retry (3), and one edit or scan, at any moment, against the other three tasks.
  `MaxEvents` 2: the air and the timer wait while two reports are undelivered,
  so a disconnection and an address can be queued in either order;
  disconnections that the code asks for are always queued. The networks are
  interchangeable (symmetry). `net_live` has no edit (its premise is that from
  some point on there is none) and one waiting report, since its graph has to
  be searched for cycles. The theorems have none of these bounds.
* `claude_agent`: two handlers at a time, one timer, the reconcile task, two
  sessions in a map of one (`MAX_TRACKED_SESSIONS` is 16) so that pruning
  occurs; two of five events: a tool call's beginning, permission request and
  end, an elicitation in the session that replaces the first (`clear`), and its
  end. One fault: a restart, a dropped handler, an exit, an interaction or a
  session that ages, or a hook of the same process sent early; and the save of
  the first snapshot may fail by itself (`MaxUnsaved` 1), in every way and for
  every task that carries it. The properties need two tasks and one fault to break, and every mutant is found within these
  bounds; the theorems have none of them.
* `serial`: one command that asks and one that shows, of which one runs, beside
  the agent; two snapshots; two faults (a restart, unplugging, an error of the
  device's, an answer that comes too late, a silence); lines of two frames,
  which fill up. The theorems allow any
  number of all of these.

### 3.2 Fairness, and why the code justifies it

Every task that can go on goes on (weak fairness): FreeRTOS schedules each, and
every wait in the model is one the code makes. No timeout is assumed to occur
or not to occur. The boot task's wait for the LVGL lock needs strong fairness:
the LVGL task takes the lock again and again, but sleeps in `vTaskDelay()` after
each release, when the waiting task takes it. In `weather` time passes and
the 1 s timer fires; that the network and the server stay up, and that no more
locations are applied, are premises of the property and not fairness.

`ServesControl` and `BootFinishes` have a premise: events stop coming
(`EventsCease`). `process_ui_events()` drains its queue to the end in every round,
lock in hand, so publishers that keep pace with it keep the loop from its control
queue and the boot task from the lock. The model bounds the events in the queue
but not their number, and TLC finds both properties violated without the
premise. Requests are finitely many in the model (`MaxCalls`): a flood of them
would starve the boot task as well.

In `net_live` every task goes on, an armed timer fires, and an attempt ends some
day, by a failure or by an association: the driver has timeouts of its own. Nobody
need edit, no network need let the device in, and none need give it an address.
`Connects` has premises, each for something nothing in the code sees to.
`AddressesGiven`: a device that stays associated, or associates again and again,
is given an address; a network that associates and stays silent otherwise holds
the device for ever. From some point on no leave of an access point is swallowed
(`missed`), and no user edits (`disturbed`). The premise `Timely` of `Connects` is that in
the long run the timer fires only after the tasks have handled what is queued
and the attempt under way has ended: the delays are 2 s and 10 s. Without it a
retry can cut every attempt short, and nothing in the code prevents it.

In `claude_agent` the executor runs every task that can run, a spawned timer
fires, and the reconcile task's interval recurs. No hook need arrive.

In `serial` every process and thread goes on. `ReadReply`, `RequestFails`,
`Offline`, `Resume` and a command's `Fail` have fairness of their own, apart from
the other steps of their loop: each stands for a deadline, which passes however
many frames keep coming. Hellos recur; the cable need not be plugged in again,
and no fault need happen. A heartbeat is sent only when the last one is gone: its
period (10 s) is far above the time a frame takes.

`CHECK_DEADLOCK` stays on everywhere but in `claude_agent`, where the bounded
set of events runs out; no other model can stop.

## 4. The proofs

| module | theorem | says |
|---|---|---|
| `UiControlProofs` | `TypeCorrect`, `RepliesAreOwn`, `RepliesAreNotLost` | `Spec => []TypeOK`, `[]ReplyIsOwn`, `[]ReplyNotLost` |
| | `AtMostOnce` | `Spec => ImplementsRpc` |
| `AppManagerProofs` | `ImplementsControl`, `RepliesAreOwn` | the manager implements the channel, hence its theorems hold of it |
| | `TypeCorrect`, `SwitchesExclude`, `OneForeground` | `[]TypeOK`, `[]OneSwitch`, `[]ForegroundAgrees` |
| | `EventsToResumed`, `OkIsShown` | `[]SentToResumed`, `[]OkMeansShown` |
| `PowerModeProofs` | `TypeCorrect`, `PoliciesAgree`, `OnlyRacesLoseTheMode` | `[]TypeOK`, `[]PolicyAgrees`, `[]ModeAgreesUnlessRaced` |
| | `NoOutputIsLost` | `[]BacklightOwed` |
| `WeatherServiceProofs` | `TypeCorrect`, `RefreshingOnlyWhileFetching`, `DataAreKept` | `[]TypeOK`, `[]RefreshingIsReal`, `[]DataIsKept` |
| `NetManagerProofs` | `TypeCorrect`, `RetriesGoOn`, `ConnectionsAreShown` | `[]TypeOK`, `[]RetryChainAlive`, `[]OnlineIsShown` |
| `ClaudeAgentProofs` | `TypeCorrect`, `OneEntryPerProcess`, `LevelIsShown` | `[]TypeOK`, `[]OneSessionPerProcess`, `[]LevelShown` |
| | `NewestIsCarried`, `HandsOverInOrder` | `[]NewestCarried`, `[]HandedInOrder` |
| | `SavesBeforeItSends`, `PendingIsTracked` | `[]SavedBeforeSent`, `[]PendingHasSession` |
| `SerialLinkProofs` | `TypeCorrect`, `ConnectionsShow` | `[]TypeOK`, `[]ConnectedShows` |
| | `NewestStays`, `OkIsHandled` | `NeverBack`, `[]OkMeansHandled` |
| `SerialRegisterProofs` | `NoSnapshotIsLost`, `NobodyIsForgotten` | `[]LastIsOwed`, `[]CallsAreOwed` |
| | `LinkIsRegister` | `Spec => ImplementsRegister` |

They assume only the named assumptions on constants (`CtlAssumption`,
`AppAssumption`, `PowerAssumption`, `WeatherAssumption`, `NetAssumption`,
`AgentAssumption`, `LinkAssumption`), which TLC evaluates on every run: any
number of requesters, setters, UI tasks, locations, networks, handlers, sessions,
commands and faults, any queue length, table size and id width.

* **The channel.** `ReplyIsOwn` is not inductive: it has to be known that ids of
  requests in flight are distinct (`InFlight`, for every queued, executing and
  notified request), and that an answered id was executed with that
  result (`CurInv`, `NoteInv`). `ReplyNotLost` needs where the answer of a
  waiting call is (`AnswerInv`): in the queue, in service, or notified, and once
  notified no request of the same task is behind it that could overwrite it,
  because the queue is FIFO and the task calls again only after it stopped
  waiting. `AtMostOnce` adds that a request is in one place (`OnePlace`) and
  maps each step to a step of `UiRpc` or to a stutter.
* **The foreground.** `LockInv` ties each switch to the lock, which gives
  `OneSwitch`; `Stage` says what a switch has done by each of its cuts, and
  with it the end of a switch re-establishes agreement (`FgInv`). That the
  manager implements the channel is proved action by action; the channel's
  theorems are then imported by instantiating `UiControlProofs`.
* **The policy.** `MutexInv`: a task is between the assignment and the release
  exactly when it holds the mutex. `PolicyInv`: only such a task leaves the
  policy behind. `ModeInv`: until two handlers overlap, the mode differs from
  the policy's only while some task still owes a copy.
  `BacklightOwed` needs that a copy that has become old is not the last one
  (`CopyInv`): a command is queued behind it, or the change that made it old is
  still to be announced. The handler drops a command only when the queue is full, so then
  there is one.
* **The weather.** The three properties are inductive together.
* **The network.** `RetryChainAlive` says that something goes on, which is not
  enough to know that it ends in an attempt or a retry. `Chain` lists what
  does: an attempt, an armed timer, a bad report that is queued, a task on its
  way to connect. `Alive` says that one of them holds, or a task is `Bringing`
  up the first profile; then the driver is not configured yet or the
  candidates it has are all good. For that, `Sole` (one user at a time until
  `disturbed`), `ThenInv` and `PlaceInv` (where each task can be and where it
  goes on), `DownInv` (who disconnects for good has no profile) and `ConfigInv`
  (nothing is attempted before the driver is configured) are needed.
  `OnlineInv`, for the third theorem, follows a connection from the report that
  waits to the snapshot: either the address is queued with no bad report behind
  it, or it is shown, or a task is about to end it.

* **The agent.** `TypeInv` adds to `TypeOK` what the code relies on without
  saying so: the ages in the queue are bounded, so it has a freshest item
  (`Bounded`); no two sessions have the same process (`Distinct`); a task carries
  what its step needs (`Good`); and the view in the file is that of the sessions
  in it (`Restorable`). The choices of the displayed session, the freshest interaction
  and the session to prune are typed by showing that a least element exists.
  `LevelShown` holds because every section that changes sessions or queue ends in
  `Publish`, or leaves its task at a step that does (`Showing`), or sets
  `stale`. `SavedBeforeSent` is not inductive: `SavedInv` adds that, until
  a save is disturbed, the save of what a task is about to hand over was tried as
  well (`Tried`: the file is not behind it, or its save or a later one failed).
  `HandedInOrder` needs that until two are carried at once whoever carries a
  snapshot carries the newest (`OrderedInv`), and, for a restart, `SavedInv`: the
  number in the file is not below one the device has seen, or that one is not
  above `unsaved`, which then becomes `forgotten`.
* **The line.** Ids are bounded because a command's request is relayed at most
  once (`RelayInv`) and the ids drawn and the commands not yet served add up
  (`CountInv`). `NeverBack` needs the order of the snapshots from the channel
  (`ChannelInv`: none is older than the pending one) through the line (`LineInv`:
  none there is older than the one shown, or newer than the pending one).
  `OkMeansHandled` needs to know whose request and whose answer is under way:
  under an id never in use twice, whatever is on the line, in the device or on
  its way back belongs to whoever waits for it (`OwnInv`); the snapshot a command
  shows is ahead of its request, or handled, or lost in a restart (`ShowInv`); and what a command has been told by
  the agent was so (`ToldInv`).
* **The register.** `LastIsOwed` follows the last snapshot through the channel
  (`QueuedInv`: it is pending or waits there) and on to the device (`SentInv`:
  once greeted, the device shows the pending snapshot, or that is on the line).
  `SentInv` is not inductive without its second half: as long as *any*
  snapshot is on the line, the pending one is, or else handling the frame would
  put an older one in place of the shown one. That a snapshot does not overtake
  the pending one comes from the order in the channel (`ChannelInv`).
  `CallsAreOwed` is inductive together with the types. `LinkIsRegister` maps each
  step of both ends: `HandleEvent` is `Show`, `ShowSample` or `HearOf`, `Reset` is
  `Restart`, `SendSnapshot` is `Give`, `GoStale` is `Silence`, and every other step
  stutters. That `Show(n)` is a step of the register, with `n` between `newest` and
  `given`, is what `OrderInv` is for. `NeverBack` and `ConnectedShows` are
  consequences a host reads off the register; they are proved but not run.

Five of the safety theorems are the safety half of a liveness property, which is
what a proof can give for every number of tasks, commands and frames: that what
must still happen is always owed by somebody. `BacklightOwed` stands to
`BacklightSettles` as `LastIsOwed` to `LastIsShown`, `CallsAreOwed` to
`CommandsEnd`, `RetryChainAlive` to `Connects` and `ReplyNotLost` to
`WaitingReturns`. TLC shows on the small instances that with
fairness it then happens.

Taken together the theorems follow a change from a hook of Claude Code to the
display: the sessions as they are are in the snapshot (`LevelShown`), the newest
snapshot is handed to the worker or about to be (`NewestCarried`), after its save
was tried (`SavedBeforeSent`), the last one handed over is in the channel, pending, on the
line or shown (`LastIsOwed`), and the display never goes back behind it
(`ImplementsRegister`). The link in the middle is the weak one: that snapshots
are handed over in the order of their numbers holds only while no two are carried
at once and no restart follows a failed save (`HandedInOrder`, and the third
violation above).

Only model-checked: the liveness properties (`WaitingReturns`, `ServesControl`,
`BootFinishes`, `BacklightSettles`, `LocationIsFetched`, `Connects`, `Settles`,
`CommandsEnd`, `LastIsShown`), since fairness and ENABLED are out of the prover's
reach. Every safety property of a passing run is proved.

## 5. Not modelled, and the plan

Most lines of the repository are generated: fonts and sprite sheets (more than
115,000 of the 135,000 lines counted), which hold data and no behaviour. The
modules cover code that keeps state across tasks.

Left out of the modelled components: memory (who frees the screenshot buffer),
failing allocations at init, the persistence of the weather's location, what the
market service queues after it changed its mode, drawing and formatting; of
net_manager, the key-by-key loading and storing of the profiles (an edit is
stored or not), what its start does when the driver refuses to start, and the
copy of `wifi_connected` in system_state, which `PowerMode` takes as its input.
Of the agent, the emotions (their analysis and decay publish like an event) and
every text; of the line, `time.sync` frames, finding the port, the frames of a
screenshot, the demonstration commands, a resume by the user, `mark_read`, and
the switch to Home that an update with a new pending interaction asks for
(`AppManager` has that switch as a request). Not modelled because nothing in them
is a protocol: fonts, theme, sprites, asset tools, text helpers, and the parts of
the command line that only edit files.

Modules still to be written, the most important first:

1. `MarketService`: REST against stream results, the gate, pair switches.
2. `Settings` and `BootGuard`: NVS writes one by one against power loss, the
   boot guard's counter, the persistence of the weather's location.
3. `TimeService`, `LineAssembler`, `EmotionState`: pure parts against reference
   definitions.
4. A composition of `ClaudeAgent` and `SerialLink`: the number of a snapshot in
   the second is its place in the order in which the first hands snapshots over.
