------------------------ MODULE SerialRegisterProofs ------------------------
(***************************************************************************)
(* The serial link as a register: it loses no snapshot, leaves no command  *)
(* waiting and implements SnapshotRegister, for any commands, any number   *)
(* of snapshots, faults and lost frames.  The types and the order of the   *)
(* channel and of the line come from SerialLinkProofs.                     *)
(***************************************************************************)
EXTENDS SerialLinkProofs

\* The last snapshot handed over is pending or waits in the channel.
QueuedInv ==
  \/ pending = handed
  \/ \E n \in 1..Len(commands) : IsSnap(n) /\ commands[n].snap = handed

\* The pending snapshot has been sent to a device that was greeted; as long as an
\* older one is on the line, so is the pending one.
Sent == \E n \in 1..Len(down) : down[n].snap = pending
SentInv ==
  Greeted =>
    /\ pending = 0 \/ shown = pending \/ altered \/ Sent
    /\ (\E n \in 1..Len(down) : down[n].snap > 0) => Sent

\* The channel passes the last snapshot on.
LEMMA QueuedNext ==
  ASSUME TypeInv, OrderInv, QueuedInv, [Next]_vars
  PROVE  QueuedInv'
<1> USE LinkAssumption
<1>1. /\ handed \in Int /\ pending \in Int /\ Len(commands) \in Nat
      /\ \A n \in 1..Len(commands) : commands[n].snap \in Int
  BY Members DEF TypeInv, Types, Given, Command, Snaps
<1>2. ASSUME UNCHANGED <<commands, handed, pending>> PROVE QueuedInv'
  BY <1>1, <1>2 DEF QueuedInv, IsSnap
<1>3. ASSUME NEW x \in Given, commands' = Append(commands, x), UNCHANGED pending,
             IF x.kind = "snapshot" THEN handed' = handed + 1 /\ x.snap = handed + 1 ELSE handed' = handed
      PROVE  QueuedInv'
  <2>1. /\ Len(commands') = Len(commands) + 1
        /\ \A i \in 1..Len(commands) : commands'[i] = commands[i] /\ i \in 1..Len(commands')
        /\ commands'[Len(commands) + 1] = x /\ Len(commands) + 1 \in 1..Len(commands')
    BY <1>1, <1>3, Appended DEF TypeInv, Types
  <2>2. QED
    BY <1>3, <2>1 DEF QueuedInv, IsSnap
<1>4. ASSUME commands # <<>>, Taken, UNCHANGED handed,
             IF Front.kind = "snapshot" THEN pending' = Front.snap ELSE UNCHANGED pending
      PROVE  QueuedInv'
  <2>1. /\ 1 \in 1..Len(commands) /\ Front = commands[1]
        /\ \A n \in 1..Len(commands) : n # 1 => n - 1 \in 1..Len(commands') /\ commands'[n - 1] = commands[n]
    <3>1. /\ Len(commands') = Len(commands) - 1 /\ Len(commands) \in Nat \ {0} /\ Front = commands[1]
          /\ \A i \in 1..Len(commands') : commands'[i] = commands[i + 1]
      BY <1>4, TakenOff DEF TypeInv, Types, Taken, Front
    <3>2. \A n \in 1..Len(commands) : n # 1 => n - 1 \in 1..Len(commands') /\ (n - 1) + 1 = n
      BY <3>1
    <3>3. QED
      BY <3>1, <3>2
  <2>2. CASE pending = handed
    BY <1>1, <1>4, <2>1, <2>2 DEF QueuedInv, OrderInv, ChannelInv, IsSnap
  <2>3. ASSUME NEW n \in 1..Len(commands), IsSnap(n), commands[n].snap = handed PROVE QueuedInv'
    BY <1>4, <2>1, <2>3 DEF QueuedInv, IsSnap
  <2>4. QED
    BY <2>2, <2>3 DEF QueuedInv
<1>5. CASE SendSnapshot
  <2>1. handed + 1 \in Snaps
    BY <1>5 DEF SendSnapshot, TypeInv, Types, Snaps
  <2>2. QED
    BY <1>3, <1>5, <2>1, BuiltCommands DEF SendSnapshot, Enqueue
<1>6. CASE SendHeartbeat
  BY <1>3, <1>6, BuiltCommands DEF SendHeartbeat, Enqueue
<1>7. CASE Connecting \/ PollFrame \/ Resume \/ ReadReply \/ RequestFails
  BY <1>2, <1>7 DEF Connecting, Connect, ReadHello, NoHello, Greet, PollFrame, Resume, ReadReply, RequestFails
<1>8. CASE Device \/ SayHello \/ GoStale \/ Reset \/ Unplug \/ Plug
  BY <1>2, <1>8 DEF Device, HandleEvent, TakeRequest, Respond, SayHello, GoStale, Reset, Unplug, Plug,
     workerVars
<1>9. CASE PushSnapshot
  BY <1>4, <1>9 DEF PushSnapshot, Remember
<1>10. CASE PushEvent \/ PushRequest \/ Pause
  BY <1>4, <1>10 DEF PushEvent, PushRequest, Pause
<1>11. CASE Offline
  BY <1>4, <1>11 DEF Offline, Remember
<1>12. ASSUME NEW c \in Clis, Call(c) PROVE QueuedInv'
  BY <1>3, <1>12, BuiltCommands DEF Call, Enqueue, Clis
<1>13. ASSUME NEW c \in Clis, Cli(c) PROVE QueuedInv'
  BY <1>2, <1>13 DEF Cli, Called, OpenPort, AwaitHello, WriteEvent, WriteRequest, AwaitReply, Fail, workerVars
<1>14. CASE UNCHANGED vars
  BY <1>2, <1>14 DEF vars, workerVars
<1>15. QED
  BY <1>5, <1>6, <1>7, <1>8, <1>9, <1>10, <1>11, <1>12, <1>13, <1>14 DEF Next, Polling

\* While the device is greeted the pending snapshot stays on its way.
LEMMA SentNext ==
  ASSUME TypeInv, OrderInv, SentInv, [Next]_vars
  PROVE  SentInv'
<1> USE LinkAssumption
<1>1. /\ best \in Int /\ 0 <= best /\ pending \in Int /\ Len(down) \in Nat /\ shown \in Int
      /\ \A n \in 1..Len(down) : down[n].snap \in Int
  <2>1. best \in Int /\ 0 <= best /\ pending \in Int /\ shown \in Int
    BY DEF TypeInv, Types, Snaps, Test
  <2>2. Len(down) \in Nat /\ \A n \in 1..Len(down) : down[n].snap \in Int
    BY Members DEF TypeInv, Types, Frame, Down, Snaps, Test
  <2>3. QED
    BY <2>1, <2>2
<1>2. ASSUME ~Greeted' PROVE SentInv'
  BY <1>2 DEF SentInv
<1>3. ASSUME Greeted' => Greeted, UNCHANGED <<pending, shown, altered, down>> PROVE SentInv'
  BY <1>3 DEF SentInv, Sent
<1>4. ASSUME NEW x \in Frame, down' = Append(down, x)
      PROVE  /\ Len(down') = Len(down) + 1
             /\ \A i \in 1..Len(down) : down'[i] = down[i] /\ i \in 1..Len(down')
             /\ down'[Len(down) + 1] = x /\ Len(down) + 1 \in 1..Len(down')
             /\ \A i \in 1..Len(down') : i \in 1..Len(down) \/ i = Len(down) + 1
  <2>1. /\ Len(down') = Len(down) + 1
        /\ \A i \in 1..Len(down) : down'[i] = down[i]
        /\ down'[Len(down) + 1] = x
    BY <1>4, Appended DEF TypeInv, Types
  <2>2. QED
    BY <1>1, <2>1
<1>5. ASSUME NEW x \in Frame, down' = Append(down, x), x.snap = pending' PROVE SentInv'
  BY <1>4, <1>5 DEF SentInv, Sent
<1>6. ASSUME NEW x \in Frame, down' = Append(down, x), ~(x.snap > 0), Greeted' => Greeted,
             UNCHANGED <<pending, shown, altered>>
      PROVE  SentInv'
  BY <1>4, <1>6 DEF SentInv, Sent
<1>7. ASSUME down # <<>>, down' = Tail(down), Greeted' => Greeted, UNCHANGED pending,
             Head(down).snap > 0 => shown' = Head(down).snap,
             ~(Head(down).snap > 0) => altered' \/ UNCHANGED <<shown, altered>>
      PROVE  SentInv'
  <2> SUFFICES ASSUME Greeted'
               PROVE  /\ pending' = 0 \/ shown' = pending' \/ altered' \/ Sent'
                      /\ (\E n \in 1..Len(down') : down'[n].snap > 0) => Sent'
    BY DEF SentInv
  <2>1. Greeted
    BY <1>7
  <2>2. /\ 1 \in 1..Len(down) /\ Head(down) = down[1] /\ Len(down') \in Nat
        /\ \A n \in 1..Len(down') : down'[n] = down[n + 1] /\ n + 1 \in 1..Len(down) /\ 1 < n + 1
        /\ \A n \in 1..Len(down) : n # 1 => n - 1 \in 1..Len(down') /\ down'[n - 1] = down[n]
    <3>1. /\ Len(down') = Len(down) - 1 /\ Len(down) \in Nat \ {0} /\ Head(down) = down[1]
          /\ \A i \in 1..Len(down') : down'[i] = down[i + 1]
      BY <1>7, TakenOff DEF TypeInv, Types
    <3>2. \A n \in 1..Len(down) : n # 1 => n - 1 \in 1..Len(down') /\ (n - 1) + 1 = n
      BY <3>1
    <3>3. QED
      BY <3>1, <3>2
  <2>3. Sent => Sent' \/ Head(down).snap = pending
    BY <1>7, <2>2 DEF Sent
  <2>4. ASSUME NEW n \in 1..Len(down'), down'[n].snap > 0 PROVE Sent'
    <3>1. down[n + 1] = down'[n] /\ n + 1 \in 1..Len(down) /\ 1 < n + 1
      BY <2>2
    <3>2. Sent
      BY <2>1, <2>4, <3>1 DEF SentInv
    <3>3. CASE Head(down).snap = pending /\ pending > 0
      <4>1. down[1].snap <= down[n + 1].snap /\ down[n + 1].snap <= pending
        BY <2>2, <2>4, <3>1, <3>3 DEF OrderInv, LineInv
      <4>2. down'[n].snap = pending'
        BY <1>1, <1>7, <2>2, <3>1, <3>3, <4>1
      <4>3. QED
        BY <4>2 DEF Sent
    <3>4. pending > 0
      BY <1>1, <2>4, <3>1 DEF OrderInv, LineInv
    <3>5. QED
      BY <2>3, <3>2, <3>3, <3>4
  <2>5. pending' = 0 \/ shown' = pending' \/ altered' \/ Sent'
    <3>1. CASE Head(down).snap > 0
      <4>1. Sent
        BY <2>1, <2>2, <3>1 DEF SentInv
      <4>2. QED
        BY <1>7, <2>3, <3>1, <4>1
    <3>2. CASE ~(Head(down).snap > 0) /\ ~altered'
      <4>1. UNCHANGED <<shown, altered>>
        BY <1>7, <3>2
      <4>2. pending = 0 \/ shown = pending \/ Sent
        BY <2>1, <3>2, <4>1 DEF SentInv
      <4>3. Sent => Sent' \/ pending = 0
        BY <1>1, <2>3, <3>2 DEF TypeInv, Types
      <4>4. QED
        BY <1>7, <4>1, <4>2, <4>3
    <3>3. QED
      BY <3>1, <3>2
  <2>6. QED
    BY <2>4, <2>5
<1>8. CASE SendSnapshot \/ SendHeartbeat
  BY <1>3, <1>8 DEF SendSnapshot, SendHeartbeat, lineVars, deviceVars, Greeted, Mine
<1>9. CASE Connect \/ ReadHello \/ NoHello \/ Pause \/ Offline \/ Resume \/ RequestFails \/ Unplug
  <2>1. worker'.at \notin {"poll", "rpc"} \/ Agent \notin open'
    BY <1>9 DEF Connect, ReadHello, NoHello, Pause, Offline, Resume, RequestFails, Unplug, Go, Closed, WorkerAt,
       TypeInv, Types
  <2>2. QED
    BY <1>2, <2>1 DEF Greeted, Mine
<1>10. CASE Greet
  <2>1. CASE pending = 0 /\ UNCHANGED <<down, pending, shown>>
    <3>1. \A n \in 1..Len(down) : ~(down[n].snap > 0)
      BY <1>1, <2>1 DEF OrderInv, LineInv
    <3>2. QED
      BY <2>1, <3>1 DEF SentInv
  <2>2. CASE pending # 0 /\ down' = Written(Update(pending)) /\ UNCHANGED pending
    <3>1. Update(pending) \in Frame /\ Update(pending).snap = pending
      BY <2>2, Built DEF Update, TypeInv, Types, Snaps
    <3>2. QED
      BY <1>5, <2>2, <3>1 DEF Written
  <2>3. CASE Go("connect")
    BY <1>2, <2>3 DEF Go, Greeted, TypeInv, Types
  <2>4. QED
    BY <1>10, <2>1, <2>2, <2>3 DEF Greet, deviceVars
<1>11. CASE PushSnapshot
  <2>1. Front.snap \in Snaps
    BY <1>11, TakenOff DEF PushSnapshot, Front, TypeInv, Types, Given
  <2>2. Update(Front.snap) \in Frame /\ Update(Front.snap).snap = Front.snap
    BY <2>1, Built DEF Update
  <2>3. CASE down' = Written(Update(Front.snap))
    BY <1>5, <1>11, <2>2, <2>3 DEF PushSnapshot, Written, Remember
  <2>4. CASE Go("connect")
    BY <1>2, <2>4 DEF Go, Greeted, TypeInv, Types
  <2>5. QED
    BY <1>11, <2>3, <2>4 DEF PushSnapshot
<1>12. CASE PushEvent
  <2>1. Heartbeat \in Frame /\ ~(Heartbeat.snap > 0)
    BY Built DEF Heartbeat
  <2>2. CASE down' = Written(Heartbeat) /\ UNCHANGED worker
    BY <1>6, <1>12, <2>1, <2>2 DEF PushEvent, Written, deviceVars, Greeted, Mine
  <2>3. CASE Go("connect")
    BY <1>2, <2>3 DEF Go, Greeted, TypeInv, Types
  <2>4. QED
    BY <1>12, <2>2, <2>3 DEF PushEvent
<1>13. CASE PushRequest
  <2>1. Front.by \in Clis /\ worker.id \in Ids
    BY <1>13, TakenOff, IdInBounds DEF PushRequest, Front, TypeInv, Types, Given, Clis
  <2>2. Request(worker.id, Front.by) \in Frame /\ ~(Request(worker.id, Front.by).snap > 0)
    BY <2>1, Built DEF Request
  <2>3. CASE Mine /\ Ask(worker.id, Front.by)
    BY <1>6, <1>13, <2>2, <2>3 DEF PushRequest, Ask, Written, WorkerAt, deviceVars, Greeted
  <2>4. CASE Go("connect")
    BY <1>2, <2>4 DEF Go, Greeted, TypeInv, Types
  <2>5. QED
    BY <1>13, <2>3, <2>4 DEF PushRequest
<1>14. CASE ReadReply
  <2>1. Greeted
    BY <1>14 DEF ReadReply, WorkerAt, Greeted
  <2>2. QED
    BY <1>3, <1>14, <2>1 DEF ReadReply, deviceVars
<1>15. CASE PollFrame
  <2>1. CASE Mine /\ UNCHANGED worker
    BY <1>3, <1>15, <2>1 DEF PollFrame, deviceVars, Greeted, Mine
  <2>2. CASE Go("connect")
    BY <1>2, <2>2 DEF Go, Greeted, TypeInv, Types
  <2>3. QED
    BY <1>15, <2>1, <2>2 DEF PollFrame
<1>16. CASE HandleEvent
  <2>1. down # <<>> /\ down' = Tail(down) /\ UNCHANGED <<pending, worker, open>>
    BY <1>16 DEF HandleEvent, workerVars
  <2>2. Greeted' <=> Greeted
    BY <2>1 DEF Greeted, Mine
  <2>3. Head(down) \in Frame
    BY <2>1, TakenOff DEF TypeInv, Types
  <2>4. CASE Head(down).kind = "heartbeat"
    <3>1. ~(Head(down).snap > 0)
      BY <2>3, <2>4 DEF Frame
    <3>2. UNCHANGED <<shown, altered>>
      BY <1>16, <2>4 DEF HandleEvent
    <3>3. QED
      BY <1>7, <2>1, <2>2, <3>1, <3>2
  <2>5. CASE Head(down).kind # "heartbeat"
    <3>1. shown' = Head(down).snap /\ altered' = (Head(down).snap = Test /\ (altered \/ Mine))
      BY <1>16, <2>5 DEF HandleEvent
    <3>2. Head(down).snap > 0 \/ Head(down).snap = Test
      BY <1>16, <2>3, <2>5 DEF HandleEvent, Frame, Down, Snaps
    <3>3. CASE Greeted
      BY <1>7, <2>1, <2>2, <3>1, <3>2, <3>3 DEF Greeted
    <3>4. QED
      BY <1>2, <2>2, <3>3
  <2>6. QED
    BY <2>4, <2>5
<1>17. CASE TakeRequest
  <2>1. down # <<>> /\ down' = Tail(down) /\ UNCHANGED <<pending, worker, open, shown, altered>>
    BY <1>17 DEF TakeRequest, workerVars
  <2>2. ~(Head(down).snap > 0)
    <3>1. Head(down) \in Frame /\ Head(down).kind = "request"
      BY <1>17, <2>1, TakenOff DEF TakeRequest, TypeInv, Types
    <3>2. Head(down).snap = 0
      BY <3>1 DEF Frame
    <3>3. QED
      BY <3>2
  <2>3. Greeted' <=> Greeted
    BY <2>1 DEF Greeted, Mine
  <2>4. QED
    BY <1>7, <2>1, <2>2, <2>3
<1>18. CASE Respond \/ SayHello \/ GoStale \/ Plug
  BY <1>3, <1>18 DEF Respond, SayHello, GoStale, Plug, workerVars, lineVars, deviceVars, Greeted, Mine
<1>19. CASE Reset
  <2>1. down' = <<>> /\ Len(<<>>) = 0 /\ altered' = Mine /\ UNCHANGED open
    BY <1>19 DEF Reset
  <2>2. \A n \in 1..Len(down') : FALSE
    BY <2>1
  <2>3. Greeted' => altered'
    BY <2>1 DEF Greeted, Mine
  <2>4. QED
    BY <2>2, <2>3 DEF SentInv
<1>20. ASSUME NEW c \in Clis, Call(c) \/ Called(c) \/ OpenPort(c) \/ AwaitHello(c) \/ AwaitReply(c) \/ Fail(c)
       PROVE  SentInv'
  <2>1. UNCHANGED <<pending, worker, down, shown, altered>>
    BY <1>20 DEF Call, Called, OpenPort, AwaitHello, AwaitReply, Fail, workerVars, lineVars, deviceVars
  <2>2. Agent \in open' => Agent \in open
    BY <1>20 DEF Call, Called, OpenPort, AwaitHello, AwaitReply, Fail, End, lineVars
  <2>3. QED
    BY <1>3, <2>1, <2>2 DEF Greeted, Mine
<1>21. ASSUME NEW c \in Clis, WriteEvent(c) PROVE SentInv'
  <2>1. c \in Showers
    BY <1>21 DEF WriteEvent, CliAt, TypeInv, Types, Clis
  <2>2. TestUpdate(c) \in Frame /\ ~(TestUpdate(c).snap > 0)
    BY <2>1, Built DEF TestUpdate, Test
  <2>3. QED
    BY <1>6, <1>21, <2>2 DEF WriteEvent, Written, workerVars, deviceVars, Greeted, Mine
<1>22. ASSUME NEW c \in Clis, WriteRequest(c) PROVE SentInv'
  <2>1. Request(1, c) \in Frame /\ ~(Request(1, c).snap > 0)
    BY <1>22, Built, IdsAreNumbers DEF Request
  <2>2. QED
    BY <1>6, <1>22, <2>1 DEF WriteRequest, Ask, Written, workerVars, deviceVars, Greeted, Mine
<1>23. CASE UNCHANGED vars
  BY <1>3, <1>23 DEF vars, workerVars, lineVars, deviceVars, Greeted, Mine
<1>24. QED
  BY <1>8, <1>9, <1>10, <1>11, <1>12, <1>13, <1>14, <1>15, <1>16, <1>17, <1>18, <1>19, <1>20, <1>21, <1>22,
     <1>23 DEF Next, Connecting, Polling, Device, Cli

\* The channel and the line are in order always.
LEMMA Ordered == Spec => []OrderInv
<1>1. Init => OrderInv
  BY DEF Init, OrderInv, ChannelInv, LineInv
<1>2. TypeInv /\ OrderInv /\ [Next]_vars => OrderInv'
  BY ChannelNext, LineNext DEF OrderInv
<1>3. QED
  BY <1>1, <1>2, Typed, PTL DEF Spec

\* No snapshot handed to worker_loop() is lost, whatever was paused, unplugged,
\* restarted or dropped on the way.
THEOREM NoSnapshotIsLost == Spec => []LastIsOwed
<1>1. Init => QueuedInv /\ SentInv
  BY DEF Init, QueuedInv, SentInv, Greeted
<1>2. TypeInv /\ OrderInv /\ QueuedInv /\ SentInv /\ [Next]_vars => QueuedInv' /\ SentInv'
  BY QueuedNext, SentNext
<1>3. QueuedInv /\ SentInv => LastIsOwed
  BY DEF QueuedInv, SentInv, Sent, LastIsOwed, IsSnap
<1>4. QED
  BY <1>1, <1>2, <1>3, Typed, Ordered, PTL DEF Spec

\* Each step keeps the answers owed.
LEMMA OwedNext ==
  ASSUME TypeInv, CallsAreOwed, [Next]_vars
  PROVE  CallsAreOwed'
<1> USE LinkAssumption
<1> DEFINE Queued(c) == \E n \in 1..Len(commands) : commands[n].kind \in {"rpc", "pause"} /\ commands[n].by = c
           Relayed(c) == worker.at = "rpc" /\ worker.by = c
           Owed(c) == reply[c] # None \/ Queued(c) \/ Relayed(c)
           Kept == \A c \in Clis : cli[c] = "calling" /\ Owed(c) => Owed(c)'
<1>1. /\ Len(commands) \in Nat
      /\ \A n \in 1..Len(commands) : commands[n] \in Given
  BY Members DEF TypeInv, Types
<1>2. ASSUME \A c \in Clis : cli'[c] = "calling" => cli[c] = "calling", Kept PROVE CallsAreOwed'
  BY <1>2 DEF CallsAreOwed
<1>3. ASSUME UNCHANGED <<commands, reply, worker>> PROVE Kept
  BY <1>3
<1>4. ASSUME UNCHANGED <<commands, reply>>, worker.at # "rpc" PROVE Kept
  BY <1>4
<1>5. ASSUME commands # <<>>, Taken
      PROVE  /\ Front \in Given
             /\ \A c \in Clis : Queued(c) =>
                  \/ Queued(c)'
                  \/ Front.kind \in {"rpc", "pause"} /\ Front.by = c
  <2>1. /\ Len(commands') = Len(commands) - 1 /\ Len(commands) \in Nat \ {0}
        /\ Front \in Given /\ Front = commands[1]
        /\ \A i \in 1..Len(commands') : commands'[i] = commands[i + 1]
    BY <1>5, TakenOff DEF TypeInv, Types, Taken, Front
  <2>2. \A n \in 1..Len(commands) : n # 1 => n - 1 \in 1..Len(commands') /\ (n - 1) + 1 = n
    BY <2>1
  <2>3. \A n \in 1..Len(commands) : n # 1 => n - 1 \in 1..Len(commands') /\ commands'[n - 1] = commands[n]
    BY <2>1, <2>2
  <2>4. QED
    BY <2>1, <2>3
<1>6. ASSUME NEW d \in Clis, NEW k \in Answers, Answer(d, k)
      PROVE  reply'[d] # None /\ \A c \in Clis : reply[c] # None => reply'[c] # None
  BY <1>6 DEF Answer, Answers, TypeInv, Types
<1>7. CASE SendSnapshot \/ SendHeartbeat
  <2>1. PICK x : commands' = Append(commands, x)
    BY <1>7 DEF SendSnapshot, SendHeartbeat, Enqueue
  <2>2. Len(commands') = Len(commands) + 1 /\ \A i \in 1..Len(commands) : commands'[i] = commands[i]
    BY <2>1 DEF TypeInv, Types
  <2>3. \A c \in Clis : Queued(c) => Queued(c)'
    BY <1>1, <2>2
  <2>4. UNCHANGED <<worker, cli, reply>>
    BY <1>7 DEF SendSnapshot, SendHeartbeat, cliVars
  <2>5. QED
    BY <1>2, <2>3, <2>4
<1>8. CASE Connecting \/ PollFrame \/ Resume
  <2>1. worker.at # "rpc" /\ UNCHANGED <<commands, cli, reply>>
    BY <1>8 DEF Connecting, Connect, ReadHello, NoHello, Greet, PollFrame, Resume, WorkerAt, cliVars
  <2>2. QED
    BY <1>2, <1>4, <2>1
<1>9. CASE PushSnapshot \/ PushEvent
  <2>1. /\ worker.at # "rpc" /\ commands # <<>> /\ Taken /\ UNCHANGED <<cli, reply>>
        /\ Front.kind \notin {"rpc", "pause"}
    BY <1>9 DEF PushSnapshot, PushEvent, WorkerAt, cliVars
  <2>2. Kept
    BY <1>5, <2>1
  <2>3. QED
    BY <1>2, <2>1, <2>2
<1>10. CASE PushRequest
  <2>1. /\ worker.at # "rpc" /\ commands # <<>> /\ Taken /\ UNCHANGED cli
        /\ Front.kind = "rpc"
    BY <1>10 DEF PushRequest, WorkerAt
  <2>2. Front.by \in Clis
    BY <1>5, <2>1 DEF Given, Clis
  <2>3. CASE worker' = [at |-> "rpc", id |-> worker.id + 1, by |-> Front.by] /\ UNCHANGED reply
    <3>1. worker'.at = "rpc" /\ worker'.by = Front.by
      BY <2>3
    <3>2. Kept
      BY <1>5, <2>1, <2>3, <3>1
    <3>3. QED
      BY <1>2, <2>1, <3>2
  <2>4. CASE Answer(Front.by, "error")
    <3>1. reply'[Front.by] # None /\ \A c \in Clis : reply[c] # None => reply'[c] # None
      BY <1>6, <2>2, <2>4 DEF Answers
    <3>2. Kept
      BY <1>5, <2>1, <3>1
    <3>3. QED
      BY <1>2, <2>1, <3>2
  <2>5. QED
    BY <1>10, <2>3, <2>4 DEF PushRequest
<1>11. CASE Pause \/ Offline
  <2>1. worker.at # "rpc" /\ commands # <<>> /\ Taken /\ UNCHANGED cli
    BY <1>11 DEF Pause, Offline, WorkerAt
  <2>2. Front.kind \in {"rpc", "pause"} => Front.by \in Clis /\ \E k \in Answers : Answer(Front.by, k)
    BY <1>5, <1>11, <2>1 DEF Pause, Offline, Given, Clis, Answers
  <2>3. Front.kind \notin {"rpc", "pause"} => UNCHANGED reply
    BY <1>11 DEF Pause, Offline
  <2>4. /\ \A c \in Clis : reply[c] # None => reply'[c] # None
        /\ Front.kind \in {"rpc", "pause"} => reply'[Front.by] # None
    BY <1>6, <2>2, <2>3
  <2>5. Kept
    BY <1>5, <2>1, <2>4
  <2>6. QED
    BY <1>2, <2>1, <2>5
<1>12. CASE ReadReply \/ RequestFails
  <2>1. worker.at = "rpc" /\ worker.by \in Clis /\ UNCHANGED <<commands, cli>>
    BY <1>12 DEF ReadReply, RequestFails, WorkerAt, TypeInv, RelayInv, Clis
  <2>2. CASE UNCHANGED <<worker, reply>>
    BY <1>2, <1>3, <2>1, <2>2
  <2>3. CASE \E k \in Answers : Answer(worker.by, k)
    <3>1. reply'[worker.by] # None /\ \A c \in Clis : reply[c] # None => reply'[c] # None
      BY <1>6, <2>1, <2>3
    <3>2. Kept
      BY <2>1, <3>1
    <3>3. QED
      BY <1>2, <2>1, <3>2
  <2>4. ReadReply /\ Head(up).id = worker.id - 1 => Head(up).kind \in Answers
    <3>1. ReadReply => Head(up) \in UpFrame
      BY TakenOff DEF ReadReply, TypeInv, Types
    <3>2. worker.id \in Nat /\ worker.id >= 2
      BY <2>1 DEF TypeInv, Types, RelayInv
    <3>3. QED
      BY <3>1, <3>2 DEF UpFrame
  <2>5. QED
    BY <1>12, <2>2, <2>3, <2>4 DEF ReadReply, RequestFails, Answers
<1>13. CASE Device \/ SayHello \/ GoStale \/ Reset \/ Unplug \/ Plug \/ UNCHANGED vars
  <2>1. UNCHANGED <<commands, reply, worker, cli>>
    BY <1>13 DEF Device, HandleEvent, TakeRequest, Respond, SayHello, GoStale, Reset, Unplug, Plug, vars,
       workerVars, cliVars
  <2>2. QED
    BY <1>2, <1>3, <2>1
<1>14. ASSUME NEW c \in Clis, Call(c) PROVE CallsAreOwed'
  <2>1. PICK k \in {"rpc", "pause"} : commands' = Append(commands, [kind |-> k, snap |-> 0, by |-> c])
    BY <1>14 DEF Call, Enqueue
  <2>2. /\ Len(commands') = Len(commands) + 1 /\ \A i \in 1..Len(commands) : commands'[i] = commands[i]
        /\ commands'[Len(commands) + 1] = [kind |-> k, snap |-> 0, by |-> c]
    BY <2>1 DEF TypeInv, Types
  <2>3. Queued(c)' /\ \A d \in Clis : Queued(d) => Queued(d)'
    BY <1>1, <2>2
  <2>4. UNCHANGED <<worker, reply>> /\ \A d \in Clis : d # c => cli'[d] = cli[d]
    BY <1>14 DEF Call, Step, TypeInv, Types
  <2>5. QED
    BY <2>3, <2>4 DEF CallsAreOwed
<1>15. ASSUME NEW c \in Clis, Cli(c) PROVE CallsAreOwed'
  <2>1. UNCHANGED <<commands, reply, worker>>
    BY <1>15 DEF Cli, Called, OpenPort, AwaitHello, WriteEvent, WriteRequest, AwaitReply, Fail, workerVars
  <2>2. cli' = cli \/ \E s \in {"ok", "connect", "hello", "failed", "write", "ask", "wait"} :
                        cli' = [cli EXCEPT ![c] = s]
    BY <1>15 DEF Cli, Called, OpenPort, AwaitHello, WriteEvent, WriteRequest, AwaitReply, Fail, Step, End
  <2>3. \A d \in Clis : cli'[d] = "calling" => cli[d] = "calling"
    BY <2>2 DEF TypeInv, Types
  <2>4. QED
    BY <1>2, <1>3, <2>1, <2>3
<1>16. QED
  BY <1>7, <1>8, <1>9, <1>10, <1>11, <1>12, <1>13, <1>14, <1>15 DEF Next, Polling

\* rpc_via_agent() and pause_agent() never wait for an answer that nobody has
\* still to give: every path of worker_loop() that takes a command answers it.
THEOREM NobodyIsForgotten == Spec => []CallsAreOwed
<1>1. Init => CallsAreOwed
  BY DEF Init, CallsAreOwed
<1>2. TypeInv /\ CallsAreOwed /\ [Next]_vars => CallsAreOwed'
  BY OwedNext
<1>3. QED
  BY <1>1, <1>2, Typed, PTL DEF Spec

\* Each step is a step of the register, or invisible to it.
LEMMA RegisterStep ==
  ASSUME TypeInv, OrderInv, [Next]_vars
  PROVE  [Register!Next]_<<handed, shown, best, conn>>
<1> USE LinkAssumption DEF Register!Next, Register!registerVars
<1>1. CASE UNCHANGED <<handed, shown, best, conn>>
  BY <1>1
<1>2. CASE SendSnapshot
  BY <1>2 DEF SendSnapshot, deviceVars, Register!Give
<1>3. CASE HandleEvent
  <2>1. down # <<>> /\ Head(down) \in Frame /\ Head(down).kind # "request" /\ UNCHANGED handed
        /\ 1 \in 1..Len(down) /\ Head(down) = down[1]
    BY <1>3, TakenOff DEF HandleEvent, TypeInv, Types, workerVars
  <2>2. CASE Head(down).kind = "heartbeat"
    BY <1>3, <2>1, <2>2 DEF HandleEvent, NoteTransportAlive, Register!HearOf
  <2>3. CASE Head(down).kind # "heartbeat" /\ Head(down).snap = Test
    <3>1. best \in Int /\ 0 <= best
      BY DEF TypeInv, Types
    <3>2. best' = best /\ shown' = Test /\ conn' = "connected"
      BY <1>3, <2>3, <3>1 DEF HandleEvent, Test
    <3>3. QED
      BY <2>1, <3>2 DEF Register!ShowSample
  <2>4. CASE Head(down).kind # "heartbeat" /\ Head(down).snap # Test
    <3> DEFINE n == Head(down).snap
    <3>1. n \in Nat /\ n > 0
      BY <2>1, <2>4 DEF Frame, Down, Snaps
    <3>2. best <= n /\ n <= pending /\ pending <= handed
      BY <2>1, <3>1 DEF OrderInv, LineInv, ChannelInv
    <3>3. best \in Int /\ pending \in Int /\ handed \in Int
      BY DEF TypeInv, Types
    <3>4. n \in best..handed
      BY <3>1, <3>2, <3>3
    <3>5. best' = n /\ shown' = n /\ conn' = "connected"
      BY <1>3, <2>4, <3>1, <3>2, <3>3 DEF HandleEvent
    <3>6. Register!Show(n)
      BY <2>1, <3>1, <3>5 DEF Register!Show
    <3>7. QED
      BY <3>4, <3>6
  <2>5. QED
    BY <2>2, <2>3, <2>4
<1>4. CASE GoStale
  BY <1>4 DEF GoStale, workerVars, Register!Silence
<1>5. CASE Reset
  BY <1>5 DEF Reset, workerVars, Register!Restart
<1>6. CASE SendHeartbeat \/ Connecting \/ Polling \/ PollFrame \/ ReadReply \/ RequestFails \/ Offline \/ Resume
  BY <1>1, <1>6 DEF SendHeartbeat, Connecting, Connect, ReadHello, NoHello, Greet, Polling, PushSnapshot,
     PushEvent, PushRequest, Pause, PollFrame, ReadReply, RequestFails, Offline, Resume, deviceVars
<1>7. CASE TakeRequest \/ Respond \/ SayHello \/ Unplug \/ Plug
  BY <1>1, <1>7 DEF TakeRequest, Respond, SayHello, Unplug, Plug, workerVars, deviceVars
<1>8. ASSUME NEW c \in Clis, Call(c) \/ Cli(c) PROVE UNCHANGED <<handed, shown, best, conn>>
  BY <1>8 DEF Call, Cli, Called, OpenPort, AwaitHello, WriteEvent, WriteRequest, AwaitReply, Fail, workerVars,
     deviceVars
<1>9. CASE UNCHANGED vars
  BY <1>1, <1>9 DEF vars, workerVars, deviceVars
<1>10. QED
  BY <1>1, <1>2, <1>3, <1>4, <1>5, <1>6, <1>7, <1>8, <1>9 DEF Next, Device

\* The channel, the line and the device implement the register: what the host
\* hands to its worker is what the display shows, never out of order.
THEOREM LinkIsRegister == Spec => ImplementsRegister
<1>1. Init => Register!Init
  BY DEF Init, Register!Init
<1>2. TypeInv /\ OrderInv /\ [Next]_vars => [Register!Next]_<<handed, shown, best, conn>>
  BY RegisterStep
<1>3. QED
  BY <1>1, <1>2, Typed, Ordered, PTL DEF Spec, ImplementsRegister, Register!Spec, Register!registerVars
=============================================================================
