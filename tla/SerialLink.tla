------------------------------ MODULE SerialLink ------------------------------
(***************************************************************************)
(* The USB serial line between the host and the device: the agent's device *)
(* worker (device.rs), the commands of the command line that ask it to     *)
(* stay off the port or to relay a request and then open the port          *)
(* themselves (main.rs), the reader and hello tasks of device_link.c, and  *)
(* the snapshot that service_claude.c keeps of the last update.            *)
(*                                                                         *)
(* The port is not opened exclusively: every process that has it open      *)
(* takes frames off the line.  A frame is written and read as a whole.  A  *)
(* snapshot is its number in the order in which the agent hands it to the  *)
(* worker; Test is the one a command shows.  Time is left to chance: a     *)
(* timeout may pass wherever the code waits for one.                       *)
(***************************************************************************)
EXTENDS Integers, Sequences, FiniteSets

CONSTANTS
  Showers,    \* commands that show a test snapshot on the device (chibi test)
  Askers,     \* commands that send one request (run_request)
  Agent,      \* the agent, as an opener of the port
  MaxSnaps,   \* bound on the snapshots
  MaxCommands,\* bound on the commands run
  MaxFaults,  \* bound on resets, on unplugging, on errors, on answers that come
              \* too late, and on silences long enough for the device to notice
  LineLen,    \* frames either direction of the line buffers
  None

VARIABLES
  handed,    \* the number of the last snapshot handed to the worker
  commands,  \* the worker's command channel
  worker,    \* where worker_loop() is; its next request id; whose request it relays
  pending,   \* pending_snapshot; 0 for none
  open,      \* the processes that have the port open and plugged
  plugged,
  down, up,  \* frames on the line, to the device and from it
  shown,     \* s_snapshot: 0 after a start, a snapshot, or Test
  conn,      \* s_snapshot.conn_state
  busy,      \* the request the reader task is handling
  cli,       \* where each command is
  reply,     \* what the agent has answered it
  faults,
  \* What happened, for the properties:
  done,      \* commands whose frame the device has handled
  wiped,     \* commands whose test update a restart of the device has lost
  asked,     \* the id under which a command's last request was written
  reused,    \* ids under which a request was written while another was not done
  best,      \* the highest snapshot the device has shown since it started
  altered    \* the display changed under the agent's open session

lineVars == <<open, plugged, down, up>>
deviceVars == <<shown, conn, busy, best, altered>>
workerVars == <<handed, commands, worker, pending>>
cliVars == <<cli, reply>>
history == <<done, wiped, asked, reused>>
vars == <<workerVars, lineVars, deviceVars, cliVars, faults, history>>

Clis == Showers \cup Askers
Openers == Clis \cup {Agent}
Test == -1
Snaps == 1..MaxSnaps
Ids == 1..(Cardinality(Askers) + 1)

ASSUME LinkAssumption ==
  /\ IsFiniteSet(Askers)
  /\ Showers \cap Askers = {}
  /\ Agent \notin Clis /\ None \notin Openers /\ None \notin {"ok", "error"}
  /\ MaxSnaps \in Nat /\ MaxCommands \in Nat /\ MaxFaults \in Nat /\ LineLen \in Nat \ {0}

Update(n) == [kind |-> "update", snap |-> n, id |-> 0, by |-> Agent]
TestUpdate(c) == [kind |-> "update", snap |-> Test, id |-> 0, by |-> c]
Heartbeat == [kind |-> "heartbeat", snap |-> 0, id |-> 0, by |-> Agent]
Request(i, c) == [kind |-> "request", snap |-> 0, id |-> i, by |-> c]
Hello == [kind |-> "hello", id |-> 0]
Response(i, kind) == [kind |-> kind, id |-> i]
Answers == {"ok", "error"}

Down == [kind : {"update", "heartbeat", "request"}, snap : Snaps \cup {0, Test},
         id : Ids \cup {0}, by : Openers]
Up == [kind : {"hello"} \cup Answers, id : Ids \cup {0}]
Command == [kind : {"snapshot", "event", "rpc", "pause"}, snap : Snaps \cup {0}, by : Openers]

Room == Len(down) < LineLen
Written(frame) == Append(down, frame)
\* Mutant: a frame waits for its reader.
TransmittedAlways(frame) == Append(up, frame)

\* A frame nobody reads in time is dropped.
Transmitted(frame) == IF Len(up) < LineLen THEN Append(up, frame) ELSE up
\* A request of that id, or the answer to it, is on its way.
UnderWay(i) ==
  \/ \E n \in 1..Len(down) : down[n].id = i
  \/ busy # None /\ busy.id = i
  \/ \E n \in 1..Len(up) : up[n].id = i
\* Some process waits for an answer under that id.
Awaited(i) ==
  \/ i = 1 /\ \E c \in Clis : cli[c] = "wait"
  \/ worker.at = "rpc" /\ worker.id - 1 = i
Ask(i, c) ==
  /\ down' = Written(Request(i, c))
  /\ asked' = [asked EXCEPT ![c] = i]
  /\ reused' = IF UnderWay(i) \/ Awaited(i) THEN reused \cup {i} ELSE reused

Fault == faults < MaxFaults /\ faults' = faults + 1

(***************************************************************************)
(* What the agent gives its worker                                         *)
(***************************************************************************)
Enqueue(kind, n, c) == commands' = Append(commands, [kind |-> kind, snap |-> n, by |-> c])

\* send_snapshot()
SendSnapshot ==
  /\ handed < MaxSnaps
  /\ handed' = handed + 1
  /\ Enqueue("snapshot", handed + 1, Agent)
  /\ UNCHANGED <<worker, pending, lineVars, deviceVars, cliVars, faults, history>>

\* send_protocol_event("claude.heartbeat"), so seldom that the last one is gone
SendHeartbeat ==
  /\ handed > 0
  /\ commands = <<>> /\ \A i \in 1..Len(down) : down[i].kind # "heartbeat"
  /\ Enqueue("event", 0, Agent)
  /\ UNCHANGED <<handed, worker, pending, lineVars, deviceVars, cliVars, faults, history>>

(***************************************************************************)
(* worker_loop()                                                           *)
(***************************************************************************)
WorkerAt(step) == worker.at = step
Go(step) == worker' = [worker EXCEPT !.at = step]
Closed == open' = open \ {Agent}
Mine == Agent \in open

\* connect_for_worker(): open the port, then wait for a hello.
Connect ==
  /\ WorkerAt("connect")
  /\ IF plugged THEN open' = open \cup {Agent} /\ Go("hello")
     ELSE UNCHANGED open /\ Go("delay")
  /\ UNCHANGED <<handed, commands, pending, plugged, down, up, deviceVars, cliVars, faults, history>>

\* wait_for_hello(): other frames are dropped.
ReadHello ==
  /\ WorkerAt("hello") /\ Mine /\ up # <<>>
  /\ up' = Tail(up)
  /\ IF Head(up).kind = "hello" THEN Go("greet") ELSE UNCHANGED worker
  /\ UNCHANGED <<handed, commands, pending, open, plugged, down, deviceVars, cliVars, faults, history>>

\* The device says hello once a second, so only another reader can keep it
\* from the worker for two.
NoHello ==
  /\ WorkerAt("hello")
  /\ ~Mine \/ open # {Agent}
  /\ Closed
  /\ Go("delay")
  /\ UNCHANGED <<handed, commands, pending, plugged, down, up, deviceVars, cliVars, faults, history>>

\* Mutant: a device that is found is only greeted.
GreetOnly ==
  /\ WorkerAt("greet")
  /\ Go("poll")
  /\ UNCHANGED <<handed, commands, pending, open, plugged, down, up, deviceVars, cliVars, faults, history>>

\* The pending snapshot is sent to every device that is found.
Greet ==
  /\ WorkerAt("greet")
  /\ \/ pending = 0 /\ Go("poll") /\ UNCHANGED down
     \/ pending # 0 /\ Mine /\ Room /\ down' = Written(Update(pending)) /\ Go("poll")
     \/ pending # 0 /\ ~Mine /\ Go("connect") /\ UNCHANGED down
  /\ UNCHANGED <<handed, commands, pending, open, plugged, up, deviceVars, cliVars, faults, history>>

Answer(c, value) == reply' = [reply EXCEPT ![c] = value]
Front == Head(commands)
Taken == commands' = Tail(commands)

\* Mutant: a snapshot still pending is kept.
KeepFirst(n) == pending' = IF pending = 0 THEN n ELSE pending

Remember(n) == pending' = n

\* A command while connected; a failed write makes the worker reconnect.
PushSnapshot ==
  /\ WorkerAt("poll") /\ commands # <<>> /\ Front.kind = "snapshot"
  /\ Taken
  /\ Remember(Front.snap)
  /\ \/ Mine /\ Room /\ down' = Written(Update(Front.snap)) /\ UNCHANGED worker
     \/ ~Mine /\ Go("connect") /\ UNCHANGED down
  /\ UNCHANGED <<handed, open, plugged, up, deviceVars, cliVars, faults, history>>

PushEvent ==
  /\ WorkerAt("poll") /\ commands # <<>> /\ Front.kind = "event"
  /\ Taken
  /\ \/ Mine /\ Room /\ down' = Written(Heartbeat) /\ UNCHANGED worker
     \/ ~Mine /\ Go("connect") /\ UNCHANGED down
  /\ UNCHANGED <<handed, pending, open, plugged, up, deviceVars, cliVars, faults, history>>

\* perform_rpc(): ids count up from 1 in every process.
PushRequest ==
  /\ WorkerAt("poll") /\ commands # <<>> /\ Front.kind = "rpc"
  /\ Taken
  /\ \/ /\ Mine /\ Room
        /\ Ask(worker.id, Front.by)
        /\ worker' = [at |-> "rpc", id |-> worker.id + 1, by |-> Front.by]
        /\ UNCHANGED reply
     \/ /\ ~Mine
        /\ Answer(Front.by, "error")
        /\ Go("connect")
        /\ UNCHANGED <<down, asked, reused>>
  /\ UNCHANGED <<handed, pending, open, plugged, up, deviceVars, cli, faults, done, wiped>>

\* Frames other than the response are dropped.  An error of the device's, too,
\* makes the worker reconnect.
ReadReply ==
  /\ WorkerAt("rpc") /\ Mine /\ up # <<>>
  /\ up' = Tail(up)
  /\ IF Head(up).id = worker.id - 1
     THEN /\ Answer(worker.by, Head(up).kind)
          /\ worker' = [worker EXCEPT !.by = None, !.at = IF Head(up).kind = "ok" THEN "poll" ELSE "connect"]
          /\ IF Head(up).kind = "ok" THEN UNCHANGED open ELSE Closed
     ELSE UNCHANGED <<worker, reply, open>>
  /\ UNCHANGED <<handed, commands, pending, plugged, down, deviceVars, cli, faults, history>>

\* RPC_TIMEOUT, or the session is gone: report it and reconnect.
RequestFails ==
  /\ WorkerAt("rpc")
  /\ IF Mine /\ UnderWay(worker.id - 1) THEN Fault ELSE UNCHANGED faults
  /\ Answer(worker.by, "error")
  /\ worker' = [worker EXCEPT !.at = "connect", !.by = None]
  /\ Closed
  /\ UNCHANGED <<handed, commands, pending, plugged, down, up, deviceVars, cli, history>>

\* Between two commands one frame is read; a hello only updates the status.
PollFrame ==
  /\ WorkerAt("poll")
  /\ \/ Mine /\ up # <<>> /\ up' = Tail(up) /\ UNCHANGED worker
     \/ ~Mine /\ Go("connect") /\ UNCHANGED up
  /\ UNCHANGED <<handed, commands, pending, open, plugged, down, deviceVars, cliVars, faults, history>>

\* A pause closes the port before it is acknowledged.
Pause ==
  /\ WorkerAt("poll") \/ WorkerAt("delay") \/ WorkerAt("paused")
  /\ commands # <<>> /\ Front.kind = "pause"
  /\ Taken
  /\ Closed
  /\ Go("paused")
  /\ Answer(Front.by, "ok")
  /\ UNCHANGED <<handed, pending, plugged, down, up, deviceVars, cli, faults, history>>

\* Mutant: a request is dropped with its reply channel kept open.
OfflineSilent ==
  /\ WorkerAt("paused") \/ WorkerAt("delay")
  /\ commands # <<>> /\ Front.kind # "pause"
  /\ Taken
  /\ IF Front.kind = "snapshot" THEN Remember(Front.snap) ELSE UNCHANGED pending
  /\ Go(IF WorkerAt("delay") THEN "connect" ELSE "paused")
  /\ UNCHANGED <<handed, lineVars, deviceVars, cliVars, faults, history>>

\* Mutant: what is handed over meanwhile is dropped.
OfflineForgets ==
  /\ WorkerAt("paused") \/ WorkerAt("delay")
  /\ commands # <<>> /\ Front.kind # "pause"
  /\ Taken
  /\ IF Front.kind = "rpc" THEN Answer(Front.by, "error") ELSE UNCHANGED reply
  /\ Go(IF WorkerAt("delay") THEN "connect" ELSE "paused")
  /\ UNCHANGED <<handed, pending, lineVars, deviceVars, cli, faults, history>>

\* The other commands while paused or waiting to reconnect.
Offline ==
  /\ WorkerAt("paused") \/ WorkerAt("delay")
  /\ commands # <<>> /\ Front.kind # "pause"
  /\ Taken
  /\ IF Front.kind = "snapshot" THEN Remember(Front.snap) ELSE UNCHANGED pending
  /\ IF Front.kind = "rpc" THEN Answer(Front.by, "error") ELSE UNCHANGED reply
  /\ Go(IF WorkerAt("delay") THEN "connect" ELSE "paused")
  /\ UNCHANGED <<handed, lineVars, deviceVars, cli, faults, history>>

\* The pause is over; or nothing came while the worker waited.
Resume ==
  /\ WorkerAt("paused") \/ (WorkerAt("delay") /\ commands = <<>>)
  /\ Go("connect")
  /\ UNCHANGED <<handed, commands, pending, lineVars, deviceVars, cliVars, faults, history>>

(***************************************************************************)
(* device_link.c and service_claude.c                                      *)
(***************************************************************************)
\* hello_task()
SayHello ==
  /\ plugged
  /\ up' = Transmitted(Hello)
  /\ UNCHANGED <<workerVars, open, plugged, down, deviceVars, cliVars, faults, history>>

\* claude_service_note_transport_alive()
NoteTransportAlive == conn' = IF shown # 0 THEN "connected" ELSE conn

\* handle_event_frame(): claude_service_apply_remote_snapshot() or
\* claude_service_note_transport_alive().
HandleEvent ==
  LET frame == Head(down)
  IN /\ busy = None /\ down # <<>> /\ frame.kind # "request"
     /\ down' = Tail(down)
     /\ IF frame.kind = "heartbeat"
        THEN /\ NoteTransportAlive
             /\ UNCHANGED <<shown, best, altered, done>>
        ELSE /\ shown' = frame.snap
             /\ conn' = "connected"
             /\ best' = IF frame.snap > best THEN frame.snap ELSE best
             /\ altered' = (frame.snap = Test /\ (altered \/ Mine))
             /\ done' = done \cup ({frame.by} \ {Agent})
     /\ UNCHANGED <<workerVars, open, plugged, up, busy, cliVars, faults, wiped, asked, reused>>

\* handle_request_frame() takes its time, some requests longer than the host
\* waits.
TakeRequest ==
  /\ busy = None /\ down # <<>> /\ Head(down).kind = "request"
  /\ busy' = Head(down)
  /\ down' = Tail(down)
  /\ UNCHANGED <<workerVars, open, plugged, up, shown, conn, best, altered, cliVars, faults, history>>

Respond ==
  /\ busy # None
  /\ \/ up' = Transmitted(Response(busy.id, "ok")) /\ UNCHANGED faults
     \/ up' = Transmitted(Response(busy.id, "error")) /\ Fault
  /\ busy' = None
  /\ done' = IF busy.by \in Askers THEN done \cup {busy.by} ELSE done
  /\ UNCHANGED <<workerVars, open, plugged, down, shown, conn, best, altered, cliVars, wiped, asked, reused>>

\* claude_service_check_staleness()
GoStale ==
  /\ conn = "connected"
  /\ Fault
  /\ conn' = "disconnected"
  /\ UNCHANGED <<workerVars, lineVars, shown, busy, best, altered, cliVars, history>>

\* The device restarts (device.reboot, a panic): the port stays, so a process
\* that has it open goes on as if nothing had happened.
Reset ==
  /\ Fault
  /\ shown' = 0 /\ best' = 0
  /\ conn' = "connecting"
  /\ busy' = None
  /\ down' = <<>> /\ up' = <<>>
  /\ altered' = Mine
  /\ wiped' = wiped \cup {down[i].by : i \in {i \in 1..Len(down) : down[i].snap = Test}}
  /\ UNCHANGED <<workerVars, open, plugged, cliVars, done, asked, reused>>

\* external: the cable; what is on the line is lost.
Unplug ==
  /\ plugged
  /\ Fault
  /\ plugged' = FALSE
  /\ open' = {}
  /\ down' = <<>> /\ up' = <<>>
  /\ UNCHANGED <<workerVars, deviceVars, cliVars, history>>

Plug ==
  /\ ~plugged
  /\ plugged' = TRUE
  /\ UNCHANGED <<workerVars, open, down, up, deviceVars, cliVars, faults, history>>

(***************************************************************************)
(* The command line                                                        *)
(***************************************************************************)
CliAt(c, step) == cli[c] = step
Step(c, step) == cli' = [cli EXCEPT ![c] = step]
End(c, result) == Step(c, result) /\ open' = open \ {c}
Has(c) == c \in open

\* pause_agent(), or rpc_via_agent()
Call(c) ==
  /\ CliAt(c, "start")
  /\ Cardinality({d \in Clis : ~CliAt(d, "start")}) < MaxCommands
  /\ Enqueue(IF c \in Showers THEN "pause" ELSE "rpc", 0, c)
  /\ Step(c, "calling")
  /\ UNCHANGED <<handed, worker, pending, lineVars, deviceVars, reply, faults, history>>

\* An answer; or pause_agent() gives up after 2 s, and goes on all the same.
Called(c) ==
  /\ CliAt(c, "calling")
  /\ \/ reply[c] # None /\ UNCHANGED faults
     \/ reply[c] = None /\ c \in Showers /\ Fault
  /\ Step(c, IF c \in Askers /\ reply[c] = "ok" THEN "ok" ELSE "connect")
  /\ UNCHANGED <<workerVars, lineVars, deviceVars, reply, history>>

\* send_protocol_event_direct(), request_direct(): connect_port()
OpenPort(c) ==
  /\ CliAt(c, "connect")
  /\ IF plugged THEN open' = open \cup {c} /\ Step(c, "hello") ELSE UNCHANGED open /\ Step(c, "failed")
  /\ UNCHANGED <<workerVars, plugged, down, up, deviceVars, reply, faults, history>>

AwaitHello(c) ==
  /\ CliAt(c, "hello") /\ Has(c) /\ up # <<>>
  /\ up' = Tail(up)
  /\ IF Head(up) = Hello THEN Step(c, IF c \in Showers THEN "write" ELSE "ask") ELSE UNCHANGED cli
  /\ UNCHANGED <<workerVars, open, plugged, down, deviceVars, reply, faults, history>>

\* Mutant: a write that fails goes unnoticed.
WriteUnchecked(c) ==
  /\ CliAt(c, "write")
  /\ down' = IF Has(c) /\ Room THEN Written(TestUpdate(c)) ELSE down
  /\ Step(c, "ask")
  /\ UNCHANGED <<workerVars, open, plugged, up, deviceVars, reply, faults, history>>

WriteEvent(c) ==
  /\ CliAt(c, "write") /\ Has(c) /\ Room
  /\ down' = Written(TestUpdate(c))
  /\ Step(c, "ask")
  /\ UNCHANGED <<workerVars, open, plugged, up, deviceVars, reply, faults, history>>

WriteRequest(c) ==
  /\ CliAt(c, "ask") /\ Has(c) /\ Room
  /\ Ask(1, c)
  /\ Step(c, "wait")
  /\ UNCHANGED <<workerVars, open, plugged, up, deviceVars, reply, faults, done, wiped>>

AwaitReply(c) ==
  /\ CliAt(c, "wait") /\ Has(c) /\ up # <<>>
  /\ up' = Tail(up)
  /\ IF Head(up).id = 1 THEN End(c, IF Head(up).kind = "ok" THEN "ok" ELSE "failed")
     ELSE UNCHANGED <<cli, open>>
  /\ UNCHANGED <<workerVars, plugged, down, deviceVars, reply, faults, history>>

\* The session is gone; nothing came for 2 s: a hello is missed only when
\* another process takes it.
Fail(c) ==
  /\ cli[c] \in {"hello", "write", "ask", "wait"}
  /\ \/ ~Has(c) /\ UNCHANGED faults
     \/ CliAt(c, "hello") /\ open # {c} /\ UNCHANGED faults
     \/ CliAt(c, "wait") /\ ~UnderWay(1) /\ UNCHANGED faults
     \/ CliAt(c, "wait") /\ UnderWay(1) /\ Fault
  /\ End(c, "failed")
  /\ UNCHANGED <<workerVars, plugged, down, up, deviceVars, reply, history>>

Init ==
  /\ handed = 0 /\ commands = <<>> /\ pending = 0
  /\ worker = [at |-> "connect", id |-> 1, by |-> None]
  /\ open = {} /\ plugged = TRUE /\ down = <<>> /\ up = <<>>
  /\ shown = 0 /\ conn = "connecting" /\ busy = None
  /\ cli = [c \in Clis |-> "start"]
  /\ reply = [c \in Clis |-> None]
  /\ faults = 0
  /\ done = {} /\ wiped = {} /\ asked = [c \in Clis |-> 0] /\ reused = {} /\ best = 0 /\ altered = FALSE

Connecting == Connect \/ ReadHello \/ NoHello \/ Greet
Polling == PushSnapshot \/ PushEvent \/ PushRequest \/ Pause

Device == HandleEvent \/ TakeRequest \/ Respond
Cli(c) ==
  \/ Called(c) \/ OpenPort(c) \/ AwaitHello(c) \/ WriteEvent(c) \/ WriteRequest(c)
  \/ AwaitReply(c) \/ Fail(c)

Next ==
  \/ SendSnapshot \/ SendHeartbeat
  \/ Connecting \/ Polling \/ PollFrame \/ ReadReply \/ RequestFails \/ Offline \/ Resume
  \/ Device \/ SayHello \/ GoStale \/ Reset \/ Unplug \/ Plug
  \/ \E c \in Clis : Call(c) \/ Cli(c)

Spec == Init /\ [][Next]_vars

\* Every thread runs, deadlines pass, and hellos recur; nobody has to plug the
\* cable in again.
Fairness ==
  /\ WF_vars(Connecting) /\ WF_vars(Polling) /\ WF_vars(PollFrame)
  /\ WF_vars(ReadReply) /\ WF_vars(RequestFails) /\ WF_vars(Offline) /\ WF_vars(Resume)
  /\ WF_vars(Device) /\ WF_vars(SayHello)
  /\ \A c \in Clis : WF_vars(Cli(c)) /\ WF_vars(Fail(c))

FairSpec == Spec /\ Fairness

(***************************************************************************)
(* Properties                                                              *)
(***************************************************************************)
CliSteps == {"start", "calling", "connect", "hello", "write", "ask", "wait", "ok", "failed"}
WorkerSteps == {"connect", "hello", "greet", "poll", "rpc", "paused", "delay"}

TypeOK ==
  /\ handed \in 0..MaxSnaps
  /\ commands \in Seq(Command)
  /\ worker \in [at : WorkerSteps, id : Ids, by : Askers \cup {None}]
  /\ pending \in 0..MaxSnaps
  /\ open \subseteq Openers
  /\ plugged \in BOOLEAN
  /\ down \in Seq(Down) /\ Len(down) <= LineLen
  /\ up \in Seq(Up) /\ Len(up) <= LineLen
  /\ shown \in Snaps \cup {0, Test}
  /\ best \in 0..MaxSnaps
  /\ conn \in {"connecting", "connected", "disconnected"}
  /\ busy \in Down \cup {None}
  /\ altered \in BOOLEAN
  /\ cli \in [Clis -> CliSteps]
  /\ reply \in [Clis -> Answers \cup {None}]
  /\ faults \in 0..MaxFaults
  /\ done \subseteq Clis /\ wiped \subseteq Clis
  /\ asked \in [Clis -> Ids \cup {0}]
  /\ reused \subseteq Ids

\* Whatever is sent again and however often the worker reconnects, the device
\* never shows an older snapshot of the agent's after a newer one.
NeverBack == [][shown' # shown /\ shown' > 0 => shown' >= best]_vars

\* A command that reports success did what it says: the device has handled its
\* frame.  There are two exceptions, each a way to report success for nothing: the
\* id of the command's request was in use by another process's; or the device
\* restarted with the command's update still on the line, and the restarted
\* device answered the device.info that was to prove the update handled.  (The
\* comment in send_protocol_event_direct() claims that proof without exception.)
OkMeansHandled ==
  \A c \in Clis : cli[c] = "ok" => c \in done \/ asked[c] \in reused \/ c \in wiped

\* The device calls itself connected only to something it can show.
ConnectedShows == conn = "connected" => shown # 0

\* No snapshot is lost: the last one handed over waits in the channel, or it is
\* pending; and while the worker is not about to greet the device again, it is on
\* the line or shown, unless the display was altered under the open session.
Greeted == worker.at \in {"poll", "rpc"} /\ Mine
LastIsOwed ==
  \/ \E n \in 1..Len(commands) : commands[n].kind = "snapshot" /\ commands[n].snap = handed
  \/ /\ pending = handed
     /\ Greeted =>
          \/ handed = 0 \/ shown = handed \/ altered
          \/ \E n \in 1..Len(down) : down[n].snap = handed

\* No command waits in vain: it has its answer, or its request or pause is in
\* the channel, or the worker relays its request.
CallsAreOwed ==
  \A c \in Clis : cli[c] = "calling" =>
    \/ reply[c] # None
    \/ \E n \in 1..Len(commands) : commands[n].kind \in {"rpc", "pause"} /\ commands[n].by = c
    \/ worker.at = "rpc" /\ worker.by = c

\* Channel, line and device together are a register: the display skips and
\* repeats snapshots but never goes back before its restart, shows none that was
\* not handed over, and is connected only to something it can show.
Register == INSTANCE SnapshotRegister
  WITH Sample <- Test, given <- handed, shows <- shown, newest <- best, link <- conn
ImplementsRegister == Register!Spec

\* Every command of the command line ends.
CommandsEnd == \A c \in Clis : cli[c] = "calling" ~> cli[c] \in {"ok", "failed"}

\* The display ends up with the last snapshot handed to the worker, whatever was
\* lost, paused or unplugged, unless it was altered under the open session.
LastIsShown == <>[](handed = 0 \/ shown = handed \/ ~plugged \/ altered)

\* After a hello the device is sent the current snapshot.
HelloIsAnswered == <>[](handed = 0 \/ shown = handed \/ ~plugged)
=============================================================================
