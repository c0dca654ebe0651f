-------------------------- MODULE SerialLinkProofs --------------------------
(***************************************************************************)
(* SerialLink's types, what success means, what is never shown, for any    *)
(* commands, any number of snapshots, faults and lost frames.              *)
(***************************************************************************)
EXTENDS SerialLink, FiniteSetTheorems, TLAPS

\* Frames and commands as the code builds them.
Frame == {f \in Down :
  /\ f.kind = "request" => f.id \in Ids /\ f.by \in Clis
  /\ f.kind # "request" => f.id = 0
  /\ f.kind = "update" => f.snap # 0
  /\ f.snap = Test => f.kind = "update" /\ f.by \in Showers
  /\ f.snap # 0 => f.kind = "update"}
UpFrame == {f \in Up : f.id # 0 => f.kind \in Answers}
Given == {x \in Command :
  /\ x.kind = "snapshot" => x.snap \in Snaps
  /\ x.kind = "rpc" => x.by \in Askers
  /\ x.kind = "pause" => x.by \in Showers}

Types ==
  /\ handed \in 0..MaxSnaps
  /\ commands \in Seq(Given)
  /\ worker \in [at : WorkerSteps, id : Nat \ {0}, by : Askers \cup {None}]
  /\ pending \in 0..MaxSnaps
  /\ open \subseteq Openers
  /\ plugged \in BOOLEAN
  /\ down \in Seq(Frame) /\ Len(down) <= LineLen
  /\ up \in Seq(UpFrame) /\ Len(up) <= LineLen
  /\ shown \in Snaps \cup {0, Test}
  /\ best \in 0..MaxSnaps
  /\ conn \in {"connecting", "connected", "disconnected"}
  /\ busy \in {f \in Frame : f.kind = "request"} \cup {None}
  /\ altered \in BOOLEAN
  /\ cli \in [Clis -> CliSteps]
  /\ reply \in [Clis -> Answers \cup {None}]
  /\ faults \in 0..MaxFaults
  /\ done \subseteq Clis /\ wiped \subseteq Clis
  /\ asked \in [Clis -> Ids \cup {0}]
  /\ reused \subseteq Ids
  /\ \A c \in Askers : cli[c] # "write"

\* A request is relayed at most once, while its command waits for the answer.
IsRpc(n, c) == commands[n].kind = "rpc" /\ commands[n].by = c
RelayInv ==
  /\ \A n \in 1..Len(commands) : \A c \in Askers :
       IsRpc(n, c) => cli[c] = "calling" /\ reply[c] = None
  /\ \A m, n \in 1..Len(commands) : \A c \in Askers : IsRpc(m, c) /\ IsRpc(n, c) => m = n
  /\ \A c \in Askers : cli[c] = "start" => reply[c] = None
  /\ worker.at = "rpc" =>
       /\ worker.by \in Askers
       /\ worker.id >= 2
       /\ cli[worker.by] = "calling"
       /\ reply[worker.by] = None
       /\ asked[worker.by] = worker.id - 1
       /\ \A n \in 1..Len(commands) : ~IsRpc(n, worker.by)

\* Commands whose request the worker has not taken.
Unserved == {c \in Askers : cli[c] = "start" \/ \E n \in 1..Len(commands) : IsRpc(n, c)}
CountInv == worker.id + Cardinality(Unserved) <= Cardinality(Askers) + 1

TypeInv == Types /\ RelayInv /\ CountInv

\* What a sequence keeps when a frame is put at its end.
LEMMA Appended ==
  ASSUME NEW S, NEW s \in Seq(S), NEW x \in S
  PROVE  /\ Append(s, x) \in Seq(S)
         /\ Len(s) \in Nat
         /\ Len(Append(s, x)) = Len(s) + 1
         /\ \A i \in 1..Len(s) : Append(s, x)[i] = s[i]
         /\ Append(s, x)[Len(s) + 1] = x
OBVIOUS

\* What a sequence keeps when its first frame is taken.
LEMMA TakenOff ==
  ASSUME NEW S, NEW s \in Seq(S), s # <<>>
  PROVE  /\ Tail(s) \in Seq(S)
         /\ Len(s) \in Nat \ {0}
         /\ Len(Tail(s)) = Len(s) - 1
         /\ Head(s) \in S /\ Head(s) = s[1]
         /\ \A i \in 1..Len(Tail(s)) : Tail(s)[i] = s[i + 1]
OBVIOUS

\* The members of a sequence.
LEMMA Members ==
  ASSUME NEW S, NEW s \in Seq(S)
  PROVE  /\ Len(s) \in Nat
         /\ \A i \in 1..Len(s) : s[i] \in S
OBVIOUS

\* A sequence over a set is one over a larger set.
LEMMA Widened == ASSUME NEW S, NEW T, S \subseteq T, NEW s \in Seq(S) PROVE s \in Seq(T)
OBVIOUS

\* The bound on ids is a number.
LEMMA IdsAreNumbers == Cardinality(Askers) \in Nat /\ 1 \in Ids /\ Ids \subseteq Nat \ {0}
BY LinkAssumption, FS_CardinalityType DEF Ids

\* Every frame and command that is built is as described.
LEMMA Built ==
  /\ \A n \in Snaps : Update(n) \in Frame
  /\ \A c \in Showers : TestUpdate(c) \in Frame
  /\ Heartbeat \in Frame
  /\ \A i \in Ids, c \in Clis : Request(i, c) \in Frame
  /\ Hello \in UpFrame
  /\ \A i \in Ids, k \in Answers : Response(i, k) \in UpFrame
<1>1. Snaps \subseteq Nat \ {0} /\ Test \notin Snaps /\ Test # 0
  BY LinkAssumption DEF Snaps, Test
<1>2. Ids \subseteq Nat \ {0}
  BY IdsAreNumbers
<1>3. Showers \subseteq Clis /\ Clis \subseteq Openers /\ Agent \in Openers
  BY DEF Clis, Openers
<1>4. ASSUME NEW n \in Snaps PROVE Update(n) \in Frame
  BY <1>1, <1>3 DEF Update, Frame, Down
<1>5. ASSUME NEW c \in Showers PROVE TestUpdate(c) \in Frame
  BY <1>1, <1>3 DEF TestUpdate, Frame, Down
<1>6. Heartbeat \in Frame
  BY <1>1, <1>3 DEF Heartbeat, Frame, Down
<1>7. ASSUME NEW i \in Ids, NEW c \in Clis PROVE Request(i, c) \in Frame
  BY <1>1, <1>2, <1>3 DEF Request, Frame, Down
<1>8. Hello \in UpFrame
  BY DEF Hello, UpFrame, Up
<1>9. ASSUME NEW i \in Ids, NEW k \in Answers PROVE Response(i, k) \in UpFrame
  BY DEF Response, UpFrame, Up
<1>10. QED
  BY <1>4, <1>5, <1>6, <1>7, <1>8, <1>9

\* The same of the commands.
LEMMA BuiltCommands ==
  /\ \A n \in Snaps : [kind |-> "snapshot", snap |-> n, by |-> Agent] \in Given
  /\ [kind |-> "event", snap |-> 0, by |-> Agent] \in Given
  /\ \A c \in Askers : [kind |-> "rpc", snap |-> 0, by |-> c] \in Given
  /\ \A c \in Showers : [kind |-> "pause", snap |-> 0, by |-> c] \in Given
BY DEF Given, Command, Clis, Openers

\* Each step keeps the types.
LEMMA TypesNext ==
  ASSUME Types, RelayInv, worker.id \in Ids, [Next]_vars
  PROVE  Types'
<1> USE LinkAssumption DEF Types, vars, workerVars, lineVars, deviceVars, cliVars, history
<1>1. \A x \in Given : Append(commands, x) \in Seq(Given)
  BY Appended
<1>2. commands # <<>> => Head(commands) \in Given /\ Tail(commands) \in Seq(Given)
  BY TakenOff
<1>3. \A f \in Frame : Append(down, f) \in Seq(Frame) /\ (Len(down) < LineLen => Len(Append(down, f)) <= LineLen)
  BY Appended
<1>4. down # <<>> => Head(down) \in Frame /\ Tail(down) \in Seq(Frame) /\ Len(Tail(down)) <= LineLen
  BY TakenOff
<1>5. \A f \in UpFrame : Transmitted(f) \in Seq(UpFrame) /\ Len(Transmitted(f)) <= LineLen
  BY Appended DEF Transmitted
<1>6. up # <<>> => Head(up) \in UpFrame /\ Tail(up) \in Seq(UpFrame) /\ Len(Tail(up)) <= LineLen
  BY TakenOff
<1>7. \A i \in 1..Len(down) : down[i] \in Frame
  BY Members
<1>8. <<>> \in Seq(Frame) /\ <<>> \in Seq(UpFrame) /\ Len(<<>>) = 0
  OBVIOUS
<1>9. CASE SendSnapshot
  <2>1. handed + 1 \in Snaps /\ handed' \in 0..MaxSnaps
    BY <1>9 DEF SendSnapshot, Snaps
  <2>2. commands' \in Seq(Given)
    BY <1>9, <1>1, <2>1, BuiltCommands DEF SendSnapshot, Enqueue
  <2>3. QED
    BY <1>9, <2>1, <2>2 DEF SendSnapshot
<1>10. CASE SendHeartbeat
  BY <1>10, <1>1, BuiltCommands DEF SendHeartbeat, Enqueue
<1>11. CASE Connect
  <2>1. open' \subseteq Openers
    BY <1>11 DEF Connect, Openers
  <2>2. worker' = [worker EXCEPT !.at = "hello"] \/ worker' = [worker EXCEPT !.at = "delay"]
    BY <1>11 DEF Connect, Go
  <2>3. worker' \in [at : WorkerSteps, id : Nat \ {0}, by : Askers \cup {None}]
    BY <2>2 DEF WorkerSteps
  <2>4. QED
    BY <1>11, <2>1, <2>3 DEF Connect
<1>12. CASE ReadHello
  BY <1>12, <1>6 DEF ReadHello, WorkerAt, Go, WorkerSteps
<1>13. CASE NoHello
  BY <1>13 DEF NoHello, WorkerAt, Go, Closed, WorkerSteps
<1>14. CASE Greet
  <2>1. pending # 0 => Update(pending) \in Frame
    BY <1>14, Built DEF Greet, Snaps
  <2>2. down' \in Seq(Frame) /\ Len(down') <= LineLen
    BY <1>14, <2>1, <1>3 DEF Greet, Room, Written
  <2>3. worker' \in [at : WorkerSteps, id : Nat \ {0}, by : Askers \cup {None}]
    BY <1>14 DEF Greet, WorkerAt, Go, WorkerSteps
  <2>4. QED
    BY <1>14, <2>1, <2>2, <2>3 DEF Greet
<1>15. CASE PushSnapshot
  <2>1. Front \in Given /\ commands' \in Seq(Given)
    BY <1>15, <1>2 DEF PushSnapshot, Front, Taken
  <2>2. Front.snap \in Snaps
    BY <1>15, <2>1 DEF PushSnapshot, Given
  <2>3. down' \in Seq(Frame) /\ Len(down') <= LineLen
    <3>1. Update(Front.snap) \in Frame
      BY <2>2, Built
    <3>2. UNCHANGED down \/ (Len(down) < LineLen /\ down' = Append(down, Update(Front.snap)))
      BY <1>15 DEF PushSnapshot, Room, Written
    <3>3. QED
      BY <1>3, <3>1, <3>2
  <2>4. pending' \in 0..MaxSnaps
    BY <1>15, <2>2 DEF PushSnapshot, Remember, Snaps
  <2>5. worker' \in [at : WorkerSteps, id : Nat \ {0}, by : Askers \cup {None}]
    BY <1>15 DEF PushSnapshot, WorkerAt, Go, WorkerSteps
  <2>6. QED
    BY <1>15, <2>1, <2>2, <2>3, <2>4, <2>5 DEF PushSnapshot
<1>16. CASE PushEvent
  <2>1. commands' \in Seq(Given)
    BY <1>16, <1>2 DEF PushEvent, Taken
  <2>2. UNCHANGED down \/ (Len(down) < LineLen /\ down' = Append(down, Heartbeat))
    BY <1>16 DEF PushEvent, Room, Written
  <2>3. down' \in Seq(Frame) /\ Len(down') <= LineLen
    BY <1>3, <2>2, Built
  <2>4. worker' = worker \/ worker' = [worker EXCEPT !.at = "connect"]
    BY <1>16 DEF PushEvent, Go
  <2>5. worker' \in [at : WorkerSteps, id : Nat \ {0}, by : Askers \cup {None}]
    BY <2>4 DEF WorkerSteps
  <2>6. QED
    BY <1>16, <2>1, <2>3, <2>5 DEF PushEvent
<1>17. CASE PushRequest
  <2>1. Front \in Given /\ commands' \in Seq(Given)
    BY <1>17, <1>2 DEF PushRequest, Front, Taken
  <2>2. Front.by \in Askers /\ Front.by \in Clis
    BY <1>17, <2>1 DEF PushRequest, Given, Clis
  <2>3. Request(worker.id, Front.by) \in Frame
    BY <1>17, <2>2, Built DEF PushRequest
  <2>4. down' \in Seq(Frame) /\ Len(down') <= LineLen
    BY <1>17, <2>3, <1>3 DEF PushRequest, Room, Written, Ask
  <2>5. reused' \subseteq Ids /\ asked' \in [Clis -> Ids \cup {0}]
    BY <1>17, <2>2 DEF PushRequest, Ask
  <2>6. reply' \in [Clis -> Answers \cup {None}]
    BY <1>17, <2>2 DEF PushRequest, Answer, Answers
  <2>7. worker.id + 1 \in Nat \ {0}
    BY <1>17 DEF PushRequest
  <2>8. worker' = [worker EXCEPT !.at = "connect"] \/ worker' = [at |-> "rpc", id |-> worker.id + 1, by |-> Front.by]
    BY <1>17 DEF PushRequest, Go
  <2>9. worker' \in [at : WorkerSteps, id : Nat \ {0}, by : Askers \cup {None}]
    <3>1. CASE worker' = [worker EXCEPT !.at = "connect"]
      BY <3>1 DEF WorkerSteps
    <3>2. CASE worker' = [at |-> "rpc", id |-> worker.id + 1, by |-> Front.by]
      BY <2>2, <2>7, <3>2 DEF WorkerSteps
    <3>3. QED
      BY <2>8, <3>1, <3>2
  <2>10. QED
    BY <1>17, <2>1, <2>2, <2>3, <2>4, <2>5, <2>6, <2>7, <2>8, <2>9 DEF PushRequest
<1>18. CASE Pause
  BY <1>18, <1>2 DEF Pause, WorkerAt, Go, Closed, Front, Taken, Given, Answer, Answers, Clis, WorkerSteps
<1>19. CASE PollFrame
  BY <1>19, <1>6 DEF PollFrame, WorkerAt, Go, WorkerSteps
<1>20. CASE ReadReply
  <2>1. Head(up) \in UpFrame /\ up' \in Seq(UpFrame) /\ Len(up') <= LineLen
    BY <1>20, <1>6 DEF ReadReply
  <2>2. worker.by \in Clis /\ worker.id >= 2
    BY <1>20 DEF ReadReply, RelayInv, WorkerAt, Clis
  <2>3. Head(up).id = worker.id - 1 => Head(up).kind \in Answers
    BY <1>20, <2>1, <2>2 DEF ReadReply, UpFrame
  <2>4. reply' \in [Clis -> Answers \cup {None}]
    BY <1>20, <2>2, <2>3 DEF ReadReply, Answer
  <2>5. worker' \in [at : WorkerSteps, id : Nat \ {0}, by : Askers \cup {None}]
    <3>1. worker' = worker \/ \E s \in {"poll", "connect"} : worker' = [worker EXCEPT !.by = None, !.at = s]
      BY <1>20 DEF ReadReply
    <3>2. QED
      BY <3>1 DEF WorkerSteps
  <2>6. open' \subseteq Openers
    BY <1>20 DEF ReadReply, Closed
  <2>7. QED
    BY <1>20, <2>1, <2>2, <2>3, <2>4, <2>5, <2>6 DEF ReadReply
<1>21. CASE RequestFails
  <2>1. worker.by \in Clis
    BY <1>21 DEF RequestFails, RelayInv, WorkerAt, Clis
  <2>2. reply' \in [Clis -> Answers \cup {None}]
    BY <1>21, <2>1 DEF RequestFails, Answer, Answers
  <2>3. worker' \in [at : WorkerSteps, id : Nat \ {0}, by : Askers \cup {None}]
    BY <1>21 DEF RequestFails, WorkerSteps
  <2>4. open' \subseteq Openers
    BY <1>21 DEF RequestFails, Closed
  <2>5. faults' \in 0..MaxFaults
    BY <1>21 DEF RequestFails, Fault
  <2>6. QED
    BY <1>21, <2>1, <2>2, <2>3, <2>4, <2>5 DEF RequestFails
<1>22. CASE Offline
  <2>1. Front \in Given /\ commands' \in Seq(Given)
    BY <1>22, <1>2 DEF Offline, Front, Taken
  <2>2. pending' \in 0..MaxSnaps
    BY <1>22, <2>1 DEF Offline, Remember, Given, Snaps
  <2>3. reply' \in [Clis -> Answers \cup {None}]
    BY <1>22, <2>1 DEF Offline, Answer, Answers, Given, Clis
  <2>4. worker' \in [at : WorkerSteps, id : Nat \ {0}, by : Askers \cup {None}]
    BY <1>22 DEF Offline, Go, WorkerSteps
  <2>5. QED
    BY <1>22, <2>1, <2>2, <2>3, <2>4 DEF Offline
<1>23. CASE Resume
  BY <1>23 DEF Resume, WorkerAt, Go, WorkerSteps
<1>24. CASE HandleEvent
  <2>1. Head(down) \in Frame /\ Head(down).kind # "request" /\ down' \in Seq(Frame) /\ Len(down') <= LineLen
    BY <1>24, <1>4 DEF HandleEvent
  <2>2. Head(down).snap \in Snaps \cup {0, Test} /\ Head(down).by \in Openers
    BY <1>24, <2>1 DEF HandleEvent, Frame, Down
  <2>3. shown' \in Snaps \cup {0, Test}
    BY <1>24, <2>2 DEF HandleEvent
  <2>4. best' \in 0..MaxSnaps
    BY <1>24, <2>2 DEF HandleEvent, Snaps, Test
  <2>5. conn' \in {"connecting", "connected", "disconnected"}
    BY <1>24 DEF HandleEvent, NoteTransportAlive
  <2>6. done' \subseteq Clis
    BY <1>24, <2>2 DEF HandleEvent, Openers
  <2>7. altered' \in BOOLEAN
    BY <1>24 DEF HandleEvent, Mine
  <2>8. QED
    BY <1>24, <2>1, <2>2, <2>3, <2>4, <2>5, <2>6, <2>7 DEF HandleEvent
<1>25. CASE TakeRequest
  BY <1>25, <1>4 DEF TakeRequest
<1>26. CASE Respond
  <2>1. busy \in Frame /\ busy.kind = "request" /\ busy.id \in Ids
    BY <1>26 DEF Respond, Frame
  <2>2. \E k \in Answers : up' = Transmitted(Response(busy.id, k))
    BY <1>26 DEF Respond, Answers
  <2>3. up' \in Seq(UpFrame) /\ Len(up') <= LineLen
    BY <1>5, <2>1, <2>2, Built
  <2>4. faults' \in 0..MaxFaults
    BY <1>26 DEF Respond, Fault
  <2>5. done' \subseteq Clis
    BY <1>26 DEF Respond, Clis
  <2>6. QED
    BY <1>26, <2>3, <2>4, <2>5 DEF Respond
<1>27. CASE SayHello
  BY <1>27, <1>5, Built DEF SayHello
<1>28. CASE GoStale
  BY <1>28 DEF GoStale, Fault
<1>29. CASE Reset
  <2>1. \A i \in 1..Len(down) : down[i].snap = Test => down[i].by \in Clis
    BY <1>29, <1>7 DEF Reset, Frame, Clis
  <2>2. wiped' \subseteq Clis
    BY <1>29, <2>1 DEF Reset
  <2>3. faults' \in 0..MaxFaults
    BY <1>29 DEF Reset, Fault
  <2>4. altered' \in BOOLEAN
    BY <1>29 DEF Reset, Mine
  <2>5. down' \in Seq(Frame) /\ Len(down') <= LineLen /\ up' \in Seq(UpFrame) /\ Len(up') <= LineLen
    BY <1>29, <1>8 DEF Reset
  <2>6. QED
    BY <1>29, <2>1, <2>2, <2>3, <2>4, <2>5 DEF Reset
<1>30. CASE Unplug
  <2>1. faults' \in 0..MaxFaults
    BY <1>30 DEF Unplug, Fault
  <2>2. down' \in Seq(Frame) /\ Len(down') <= LineLen /\ up' \in Seq(UpFrame) /\ Len(up') <= LineLen
    BY <1>30, <1>8 DEF Unplug
  <2>3. QED
    BY <1>30, <2>1, <2>2 DEF Unplug
<1>31. CASE Plug
  BY <1>31 DEF Plug
<1>32. ASSUME NEW c \in Clis, Call(c) PROVE Types'
  BY <1>32, <1>1, BuiltCommands DEF Call, Enqueue, CliAt, Step, Clis, CliSteps
<1>33. ASSUME NEW c \in Clis, Called(c) PROVE Types'
  BY <1>33 DEF Called, CliAt, Step, CliSteps, Fault
<1>34. ASSUME NEW c \in Clis, OpenPort(c) PROVE Types'
  <2>1. open' \subseteq Openers
    BY <1>34 DEF OpenPort, Openers
  <2>2. cli' = [cli EXCEPT ![c] = "hello"] \/ cli' = [cli EXCEPT ![c] = "failed"]
    BY <1>34 DEF OpenPort, Step
  <2>3. cli' \in [Clis -> CliSteps]
    BY <2>2 DEF CliSteps
  <2>4. ASSUME NEW d \in Askers PROVE cli'[d] # "write"
    BY <2>2 DEF Clis
  <2>5. QED
    BY <1>34, <2>1, <2>3, <2>4 DEF OpenPort
<1>35. ASSUME NEW c \in Clis, AwaitHello(c) PROVE Types'
  <2>1. cli' = cli \/ cli' = [cli EXCEPT ![c] = "ask"] \/ (c \in Showers /\ cli' = [cli EXCEPT ![c] = "write"])
    BY <1>35 DEF AwaitHello, Step
  <2>2. cli' \in [Clis -> CliSteps]
    BY <2>1 DEF CliSteps
  <2>3. ASSUME NEW d \in Askers PROVE cli'[d] # "write"
    BY <2>1 DEF Clis
  <2>4. QED
    BY <1>35, <2>2, <2>3, <1>6 DEF AwaitHello
<1>36. ASSUME NEW c \in Clis, WriteEvent(c) PROVE Types'
  BY <1>36, <1>3, Built DEF WriteEvent, CliAt, Step, CliSteps, Room, Written, Clis
<1>37. ASSUME NEW c \in Clis, WriteRequest(c) PROVE Types'
  BY <1>37, <1>3, Built, IdsAreNumbers DEF WriteRequest, CliAt, Step, CliSteps, Room, Written, Ask
<1>38. ASSUME NEW c \in Clis, AwaitReply(c) PROVE Types'
  <2>1. cli' \in [Clis -> CliSteps] /\ \A d \in Askers : cli'[d] # "write"
    <3>1. cli' = cli \/ \E s \in {"ok", "failed"} : cli' = [cli EXCEPT ![c] = s]
      BY <1>38 DEF AwaitReply, Step, End
    <3>2. cli' \in [Clis -> CliSteps]
      BY <3>1 DEF CliSteps
    <3>3. ASSUME NEW d \in Askers PROVE cli'[d] # "write"
      BY <3>1 DEF Clis
    <3>4. QED
      BY <3>2, <3>3
  <2>2. open' \subseteq Openers
    BY <1>38 DEF AwaitReply, End
  <2>3. QED
    BY <1>38, <2>1, <2>2, <1>6 DEF AwaitReply
<1>39. ASSUME NEW c \in Clis, Fail(c) PROVE Types'
  BY <1>39 DEF Fail, CliAt, Step, CliSteps, End, Has, Fault
<1>40. CASE UNCHANGED vars
  BY <1>40
<1>41. QED
  BY <1>9, <1>10, <1>11, <1>12, <1>13, <1>14, <1>15, <1>16, <1>17, <1>18, <1>19, <1>20, <1>21, <1>22, <1>23,
     <1>24, <1>25, <1>26, <1>27, <1>28, <1>29, <1>30, <1>31, <1>32, <1>33, <1>34, <1>35, <1>36, <1>37,
     <1>38, <1>39, <1>40 DEF Next, Connecting, Polling, Device, Cli

\* Commands that are served leave the set and none enters it.
LEMMA CountKept ==
  ASSUME Types, CountInv, Unserved' \subseteq Unserved, worker'.id = worker.id
  PROVE  CountInv'
<1>1. IsFiniteSet(Unserved)
  BY LinkAssumption, FS_Subset DEF Unserved
<1>2. IsFiniteSet(Unserved') /\ Cardinality(Unserved') <= Cardinality(Unserved)
  BY <1>1, FS_Subset
<1>3. Cardinality(Unserved') \in Nat /\ Cardinality(Unserved) \in Nat /\ worker.id \in Nat
  BY <1>1, <1>2, FS_CardinalityType DEF Types
<1>4. QED
  BY <1>2, <1>3, IdsAreNumbers DEF CountInv

\* What is left when a command is taken off the channel.
LEMMA ChannelTaken ==
  ASSUME Types, RelayInv, commands # <<>>, commands' = Tail(commands)
  PROVE  /\ 1 \in 1..Len(commands) /\ Head(commands) = commands[1] /\ Head(commands) \in Given
         /\ \A n \in 1..Len(commands') : n + 1 \in 1..Len(commands) /\ n + 1 # 1
         /\ \A n \in 1..Len(commands'), c \in Askers : IsRpc(n, c)' <=> IsRpc(n + 1, c)
         /\ \A n \in 1..Len(commands'), c \in Askers : IsRpc(1, c) => ~IsRpc(n, c)'
<1>1. /\ Len(commands) \in Nat \ {0} /\ Len(commands') = Len(commands) - 1
      /\ Head(commands) = commands[1] /\ Head(commands) \in Given
      /\ \A n \in 1..Len(commands') : commands'[n] = commands[n + 1]
  BY TakenOff DEF Types
<1>2. 1 \in 1..Len(commands) /\ \A n \in 1..Len(commands') : n + 1 \in 1..Len(commands) /\ n + 1 # 1
  BY <1>1
<1>3. \A n \in 1..Len(commands'), c \in Askers : IsRpc(n, c)' <=> IsRpc(n + 1, c)
  BY <1>1 DEF IsRpc
<1>4. \A n \in 1..Len(commands'), c \in Askers : IsRpc(1, c) => ~IsRpc(n, c)'
  BY <1>2, <1>3 DEF RelayInv
<1>5. QED
  BY <1>1, <1>2, <1>3, <1>4

\* The same when one is put on it.
LEMMA ChannelGiven ==
  ASSUME Types, NEW x \in Given, commands' = Append(commands, x)
  PROVE  \A n \in 1..Len(commands'), c \in Askers :
           IsRpc(n, c)' => \/ n \in 1..Len(commands) /\ IsRpc(n, c)
                           \/ n = Len(commands) + 1 /\ x.kind = "rpc" /\ x.by = c
<1>1. /\ Len(commands) \in Nat /\ Len(commands') = Len(commands) + 1
      /\ \A i \in 1..Len(commands) : commands'[i] = commands[i]
      /\ commands'[Len(commands) + 1] = x
  BY Appended DEF Types
<1>2. \A n \in 1..Len(commands') : n \in 1..Len(commands) \/ n = Len(commands) + 1
  BY <1>1
<1>3. QED
  BY <1>1, <1>2 DEF IsRpc

\* Each step keeps requests relayed once, and their ids in bounds.
LEMMA RelayNext ==
  ASSUME Types, RelayInv, CountInv, [Next]_vars
  PROVE  RelayInv' /\ CountInv'
<1> USE LinkAssumption
<1>1. ASSUME UNCHANGED <<commands, cli, reply, asked>>, worker'.id = worker.id,
             worker' = worker \/ worker'.at # "rpc"
      PROVE  RelayInv' /\ CountInv'
  <2>1. RelayInv'
    BY <1>1 DEF RelayInv, IsRpc
  <2>2. Unserved' \subseteq Unserved
    BY <1>1 DEF Unserved, IsRpc
  <2>3. QED
    BY <1>1, <2>1, <2>2, CountKept
<1>2. ASSUME NEW c \in Clis, cli[c] # "start", UNCHANGED <<commands, worker, reply>>,
             c \in Askers /\ cli[c] = "calling" => reply[c] # None,
             NEW x, x # "start", cli' = [cli EXCEPT ![c] = x],
             asked' = asked \/ (cli[c] # "calling" /\ asked' = [asked EXCEPT ![c] = 1])
      PROVE  RelayInv' /\ CountInv'
  <2>1. RelayInv'
    BY <1>2 DEF RelayInv, IsRpc, Types, Clis
  <2>2. Unserved' \subseteq Unserved
    BY <1>2 DEF Unserved, IsRpc, Types, Clis
  <2>3. QED
    BY <1>2, <2>1, <2>2, CountKept
<1>3. ASSUME NEW y \in Given, y.kind # "rpc", commands' = Append(commands, y),
             UNCHANGED <<worker, reply, asked>>,
             cli' = cli \/ \E c \in Showers : cli' = [cli EXCEPT ![c] = "calling"]
      PROVE  RelayInv' /\ CountInv'
  <2>2. \A n \in 1..Len(commands'), c \in Askers : IsRpc(n, c)' => n \in 1..Len(commands) /\ IsRpc(n, c)
    BY <1>3, ChannelGiven
  <2>3. \A c \in Askers : cli'[c] = cli[c]
    BY <1>3 DEF Types, Clis
  <2>4. RelayInv'
    BY <1>3, <2>2, <2>3 DEF RelayInv
  <2>5. Unserved' \subseteq Unserved
    BY <2>2, <2>3 DEF Unserved
  <2>6. QED
    BY <1>3, <2>4, <2>5, CountKept
<1>4. ASSUME NEW c \in Askers, Call(c) PROVE RelayInv' /\ CountInv'
  <2>1. /\ cli[c] = "start" /\ cli' = [cli EXCEPT ![c] = "calling"] /\ c \in Clis
        /\ commands' = Append(commands, [kind |-> "rpc", snap |-> 0, by |-> c])
        /\ UNCHANGED <<worker, reply, asked>>
    BY <1>4 DEF Call, CliAt, Step, Enqueue, workerVars, history, Clis
  <2>2. [kind |-> "rpc", snap |-> 0, by |-> c] \in Given
    BY BuiltCommands
  <2>3. \A n \in 1..Len(commands'), d \in Askers :
          IsRpc(n, d)' => \/ n \in 1..Len(commands) /\ IsRpc(n, d)
                          \/ n = Len(commands) + 1 /\ d = c
    BY <2>1, <2>2, ChannelGiven
  <2>4. \A d \in Askers : cli'[d] = IF d = c THEN "calling" ELSE cli[d]
    BY <2>1 DEF Types, Clis
  <2>5. \A n \in 1..Len(commands'), d \in Askers :
          IsRpc(n, d)' => IF d = c THEN n = Len(commands) + 1 ELSE n \in 1..Len(commands) /\ IsRpc(n, d)
    BY <2>1, <2>3 DEF RelayInv
  <2>6. reply[c] = None
    BY <2>1 DEF RelayInv
  <2>7. RelayInv'
    <3>1. \A n \in 1..Len(commands') : \A d \in Askers : IsRpc(n, d)' => cli'[d] = "calling" /\ reply'[d] = None
      BY <2>1, <2>4, <2>5, <2>6 DEF RelayInv
    <3>2. \A m, n \in 1..Len(commands') : \A d \in Askers : IsRpc(m, d)' /\ IsRpc(n, d)' => m = n
      BY <2>5 DEF RelayInv
    <3>3. \A d \in Askers : cli'[d] = "start" => reply'[d] = None
      BY <2>1, <2>4 DEF RelayInv
    <3>4. worker.at = "rpc" => worker.by \in Askers /\ worker.by # c
      BY <2>1 DEF RelayInv
    <3>5. worker'.at = "rpc" =>
            /\ worker'.by \in Askers /\ worker'.id >= 2
            /\ cli'[worker'.by] = "calling" /\ reply'[worker'.by] = None
            /\ asked'[worker'.by] = worker'.id - 1
            /\ \A n \in 1..Len(commands') : ~IsRpc(n, worker.by)'
      BY <2>1, <2>4, <2>5, <3>4 DEF RelayInv
    <3>6. QED
      BY <2>1, <3>1, <3>2, <3>3, <3>5 DEF RelayInv
  <2>8. Unserved' \subseteq Unserved
    BY <2>1, <2>4, <2>5 DEF Unserved
  <2>9. QED
    BY <2>1, <2>7, <2>8, CountKept
<1>5. ASSUME commands # <<>>, Taken, UNCHANGED <<cli, asked>>, worker'.id = worker.id,
             worker.at # "rpc", worker'.at # "rpc",
             \/ reply' = reply
             \/ \E v \in Answers : reply' = [reply EXCEPT ![Front.by] = v] /\ Front.kind \in {"rpc", "pause"}
      PROVE  RelayInv' /\ CountInv'
  <2>1. commands' = Tail(commands)
    BY <1>5 DEF Taken
  <2>2. /\ 1 \in 1..Len(commands) /\ Front = commands[1] /\ Front \in Given
        /\ \A n \in 1..Len(commands') : n + 1 \in 1..Len(commands) /\ n + 1 # 1
        /\ \A n \in 1..Len(commands'), c \in Askers : IsRpc(n, c)' <=> IsRpc(n + 1, c)
        /\ \A n \in 1..Len(commands'), c \in Askers : IsRpc(1, c) => ~IsRpc(n, c)'
    BY <1>5, <2>1, ChannelTaken DEF Front
  <2>3. \A c \in Askers : reply'[c] = reply[c] \/ IsRpc(1, c)
    BY <1>5, <2>2 DEF IsRpc, Given, Types, Clis
  <2>4. \A n \in 1..Len(commands'), c \in Askers : IsRpc(n, c)' => cli'[c] = "calling" /\ reply'[c] = None
    BY <1>5, <2>2, <2>3 DEF RelayInv
  <2>5. \A m, n \in 1..Len(commands'), c \in Askers : IsRpc(m, c)' /\ IsRpc(n, c)' => m = n
    <3> SUFFICES ASSUME NEW m \in 1..Len(commands'), NEW n \in 1..Len(commands'), NEW c \in Askers,
                        IsRpc(m, c)', IsRpc(n, c)'
                 PROVE  m = n
      OBVIOUS
    <3>1. m + 1 = n + 1
      BY <2>2 DEF RelayInv
    <3>2. m \in Int /\ n \in Int
      BY <2>2, <2>1, TakenOff DEF Types
    <3>3. QED
      BY <3>1, <3>2
  <2>6. \A c \in Askers : cli'[c] = "start" => reply'[c] = None
    BY <1>5, <2>2, <2>3 DEF RelayInv
  <2>7. RelayInv'
    BY <1>5, <2>4, <2>5, <2>6 DEF RelayInv
  <2>8. Unserved' \subseteq Unserved
    BY <1>5, <2>2 DEF Unserved
  <2>9. QED
    BY <1>5, <2>7, <2>8, CountKept
<1>6. ASSUME PushRequest, Mine, Room, Ask(worker.id, Front.by),
             worker' = [at |-> "rpc", id |-> worker.id + 1, by |-> Front.by], UNCHANGED reply
      PROVE  RelayInv' /\ CountInv'
  <2> DEFINE c == Front.by
  <2>1. /\ commands # <<>> /\ commands' = Tail(commands) /\ UNCHANGED <<cli, reply>>
        /\ Front.kind = "rpc" /\ worker.at = "poll"
        /\ asked' = [asked EXCEPT ![c] = worker.id]
    BY <1>6 DEF PushRequest, Taken, Ask, WorkerAt
  <2>2. /\ 1 \in 1..Len(commands) /\ Front = commands[1] /\ Front \in Given
        /\ \A n \in 1..Len(commands') : n + 1 \in 1..Len(commands) /\ n + 1 # 1
        /\ \A n \in 1..Len(commands'), d \in Askers : IsRpc(n, d)' <=> IsRpc(n + 1, d)
        /\ \A n \in 1..Len(commands'), d \in Askers : IsRpc(1, d) => ~IsRpc(n, d)'
    BY <2>1, ChannelTaken DEF Front
  <2>3. c \in Askers /\ c \in Clis /\ IsRpc(1, c) /\ cli[c] = "calling" /\ reply[c] = None
    BY <2>1, <2>2 DEF Given, IsRpc, RelayInv, Clis
  <2>4. \A m, n \in 1..Len(commands'), d \in Askers : IsRpc(m, d)' /\ IsRpc(n, d)' => m = n
    <3> SUFFICES ASSUME NEW m \in 1..Len(commands'), NEW n \in 1..Len(commands'), NEW d \in Askers,
                        IsRpc(m, d)', IsRpc(n, d)'
                 PROVE  m = n
      OBVIOUS
    <3>1. m + 1 = n + 1
      BY <2>2 DEF RelayInv
    <3>2. m \in Int /\ n \in Int
      BY <2>2, <2>1, TakenOff DEF Types
    <3>3. QED
      BY <3>1, <3>2
  <2>5. worker.id \in Nat \ {0} /\ asked'[c] = worker.id
    BY <2>1, <2>3 DEF Types
  <2>6. RelayInv'
    <3>1. \A n \in 1..Len(commands'), d \in Askers : IsRpc(n, d)' => cli'[d] = "calling" /\ reply'[d] = None
      BY <2>1, <2>2 DEF RelayInv
    <3>2. \A d \in Askers : cli'[d] = "start" => reply'[d] = None
      BY <2>1 DEF RelayInv
    <3>3. worker'.by = c /\ worker'.id = worker.id + 1
      BY <1>6
    <3>4. /\ worker'.by \in Askers /\ worker'.id >= 2
          /\ cli'[worker'.by] = "calling" /\ reply'[worker'.by] = None
          /\ asked'[worker'.by] = worker'.id - 1
      BY <2>1, <2>3, <2>5, <3>3
    <3>5. \A n \in 1..Len(commands') : ~(commands'[n].kind = "rpc" /\ commands'[n].by = worker'.by)
      BY <2>2, <2>3, <3>3 DEF IsRpc
    <3>6. QED
      BY <2>4, <3>1, <3>2, <3>4, <3>5 DEF RelayInv, IsRpc
  <2>7. c \in Unserved /\ Unserved' \subseteq Unserved \ {c}
    BY <2>1, <2>2, <2>3 DEF Unserved
  <2>8. IsFiniteSet(Unserved)
    BY LinkAssumption, FS_Subset DEF Unserved
  <2>9. IsFiniteSet(Unserved \ {c}) /\ Cardinality(Unserved \ {c}) = Cardinality(Unserved) - 1
    BY <2>7, <2>8, FS_RemoveElement
  <2>10. IsFiniteSet(Unserved') /\ Cardinality(Unserved') <= Cardinality(Unserved \ {c})
    BY <2>7, <2>9, FS_Subset
  <2>11. Cardinality(Unserved') \in Nat /\ Cardinality(Unserved) \in Nat /\ Cardinality(Unserved \ {c}) \in Nat
    BY <2>8, <2>9, <2>10, FS_CardinalityType
  <2>12. CountInv'
    BY <1>6, <2>5, <2>9, <2>10, <2>11, IdsAreNumbers DEF CountInv
  <2>13. QED
    BY <2>6, <2>12
<1>7. ASSUME UNCHANGED <<commands, cli, asked>>, worker.at = "rpc", worker'.at # "rpc",
             worker'.id = worker.id, NEW v, reply' = [reply EXCEPT ![worker.by] = v]
      PROVE  RelayInv' /\ CountInv'
  <2>1. worker.by \in Askers /\ worker.by \in Clis
    BY <1>7 DEF RelayInv, Clis
  <2>2. RelayInv'
    BY <1>7, <2>1 DEF RelayInv, IsRpc, Types
  <2>3. Unserved' \subseteq Unserved
    BY <1>7 DEF Unserved, IsRpc
  <2>4. QED
    BY <1>7, <2>2, <2>3, CountKept
<1>8. CASE SendSnapshot
  <2>1. handed + 1 \in Snaps
    BY <1>8 DEF SendSnapshot, Types, Snaps
  <2>2. QED
    BY <1>8, <1>3, <2>1, BuiltCommands DEF SendSnapshot, Enqueue, workerVars, cliVars, history
<1>9. CASE SendHeartbeat
  BY <1>9, <1>3, BuiltCommands DEF SendHeartbeat, Enqueue, workerVars, cliVars, history
<1>10. CASE Connecting \/ PollFrame \/ Resume
  BY <1>10, <1>1 DEF Connecting, Connect, ReadHello, NoHello, Greet, PollFrame, Resume, WorkerAt, Go,
       Types, workerVars, cliVars, history
<1>11. CASE Device \/ SayHello \/ GoStale \/ Reset \/ Unplug \/ Plug
  BY <1>11, <1>1 DEF Device, HandleEvent, TakeRequest, Respond, SayHello, GoStale, Reset, Unplug, Plug,
       workerVars, cliVars, history
<1>12. CASE PushSnapshot \/ PushEvent
  BY <1>12, <1>5 DEF PushSnapshot, PushEvent, WorkerAt, Go, Types, workerVars, cliVars, history
<1>13. CASE Pause
  BY <1>13, <1>5 DEF Pause, WorkerAt, Go, Types, Answer, Answers, workerVars, cliVars, history
<1>14. CASE Offline
  BY <1>14, <1>5 DEF Offline, WorkerAt, Go, Types, Answer, Answers, workerVars, cliVars, history
<1>15. CASE PushRequest
  BY <1>15, <1>5, <1>6 DEF PushRequest, WorkerAt, Go, Types, Answer, Answers, workerVars, cliVars, history
<1>16. CASE ReadReply
  BY <1>16, <1>1, <1>7 DEF ReadReply, WorkerAt, Types, Answer, workerVars, cliVars, history
<1>17. CASE RequestFails
  BY <1>17, <1>7 DEF RequestFails, WorkerAt, Types, Answer, workerVars, cliVars, history
<1>18. ASSUME NEW c \in Clis, Call(c) PROVE RelayInv' /\ CountInv'
  <2>1. CASE c \in Askers
    BY <1>18, <2>1, <1>4
  <2>2. CASE c \in Showers
    BY <1>18, <2>2, <1>3, BuiltCommands DEF Call, Step, Enqueue, workerVars, history
  <2>3. QED
    BY <2>1, <2>2 DEF Clis
<1>19. ASSUME NEW c \in Clis, Called(c) PROVE RelayInv' /\ CountInv'
  BY <1>19, <1>2 DEF Called, CliAt, Step, workerVars, history
<1>20. ASSUME NEW c \in Clis, OpenPort(c) \/ AwaitHello(c) \/ WriteEvent(c) PROVE RelayInv' /\ CountInv'
  BY <1>20, <1>1, <1>2 DEF OpenPort, AwaitHello, WriteEvent, CliAt, Step, workerVars, history
<1>21. ASSUME NEW c \in Clis, WriteRequest(c) PROVE RelayInv' /\ CountInv'
  BY <1>21, <1>2 DEF WriteRequest, Ask, CliAt, Step, workerVars, history
<1>22. ASSUME NEW c \in Clis, AwaitReply(c) \/ Fail(c) PROVE RelayInv' /\ CountInv'
  BY <1>22, <1>1, <1>2 DEF AwaitReply, Fail, End, CliAt, Step, workerVars, history
<1>23. CASE UNCHANGED vars
  BY <1>23, <1>1 DEF vars, workerVars, cliVars, history
<1>24. QED
  BY <1>8, <1>9, <1>10, <1>11, <1>12, <1>13, <1>14, <1>15, <1>16, <1>17, <1>18, <1>19, <1>20, <1>21,
     <1>22, <1>23 DEF Next, Polling, Cli

\* The first state is typed.
LEMMA TypesInit == Init => TypeInv
<1> SUFFICES ASSUME Init PROVE TypeInv
  OBVIOUS
<1>1. Types
  <2>1. /\ commands \in Seq(Given) /\ down \in Seq(Frame) /\ up \in Seq(UpFrame)
        /\ Len(down) <= LineLen /\ Len(up) <= LineLen
    BY LinkAssumption DEF Init
  <2>2. /\ worker \in [at : WorkerSteps, id : Nat \ {0}, by : Askers \cup {None}]
        /\ cli \in [Clis -> CliSteps] /\ \A c \in Askers : cli[c] # "write"
    BY DEF Init, WorkerSteps, CliSteps, Clis
  <2>3. handed \in 0..MaxSnaps /\ pending \in 0..MaxSnaps /\ best \in 0..MaxSnaps /\ faults \in 0..MaxFaults
    BY LinkAssumption DEF Init
  <2>4. QED
    BY <2>1, <2>2, <2>3 DEF Init, Types
<1>2. RelayInv
  BY <1>1 DEF Init, RelayInv, IsRpc, Clis
<1>3. Unserved = Askers
  BY <1>1 DEF Init, Unserved, IsRpc, Clis
<1>4. CountInv
  BY <1>3, IdsAreNumbers DEF Init, CountInv
<1>5. QED
  BY <1>1, <1>2, <1>4 DEF TypeInv

\* The worker's ids stay in bounds.
LEMMA IdInBounds == ASSUME Types, CountInv PROVE worker.id \in Ids
<1>1. IsFiniteSet(Unserved)
  BY LinkAssumption, FS_Subset DEF Unserved
<1>2. Cardinality(Unserved) \in Nat /\ worker.id \in Nat \ {0}
  BY <1>1, FS_CardinalityType DEF Types
<1>3. QED
  BY <1>2, IdsAreNumbers DEF CountInv, Ids

\* The types are kept.
LEMMA TypeInvNext == TypeInv /\ [Next]_vars => TypeInv'
BY TypesNext, RelayNext, IdInBounds DEF TypeInv

\* A typed state is of the module's types.
LEMMA TypeInvTypes == TypeInv => TypeOK
<1> SUFFICES ASSUME TypeInv PROVE TypeOK
  OBVIOUS
<1> USE DEF TypeInv
<1>1. worker.id \in Ids
  BY IdInBounds
<1>2. commands \in Seq(Command)
  BY Widened DEF Types, Given
<1>3. down \in Seq(Down) /\ up \in Seq(Up)
  BY Widened DEF Types, Frame, UpFrame
<1>4. busy \in Down \cup {None}
  BY DEF Types, Frame
<1>5. worker \in [at : WorkerSteps, id : Ids, by : Askers \cup {None}]
  BY <1>1 DEF Types
<1>6. QED
  BY <1>2, <1>3, <1>4, <1>5 DEF Types, TypeOK

\* TypeOK holds for any commands, line and number of snapshots and faults:
\* worker_loop()'s request ids, too, stay below the number of requests.
THEOREM TypeCorrect == Spec => []TypeOK
<1>1. TypeInv /\ UNCHANGED vars => TypeInv'
  BY TypeInvNext
<1>2. QED
  BY TypesInit, TypeInvNext, TypeInvTypes, PTL DEF Spec

\* TypeInv holds always.
LEMMA Typed == Spec => []TypeInv
BY TypesInit, TypeInvNext, PTL DEF Spec

\* service_claude.c says connected only when it has a snapshot to show: neither
\* a heartbeat nor a restart nor silence breaks it.
THEOREM ConnectionsShow == Spec => []ConnectedShows
<1>1. Init => ConnectedShows
  BY DEF Init, ConnectedShows
<1>2. ASSUME TypeInv, ConnectedShows, [Next]_vars PROVE ConnectedShows'
  <2> USE DEF ConnectedShows
  <2>1. CASE UNCHANGED <<shown, conn>>
    BY <1>2, <2>1
  <2>2. CASE HandleEvent
    <3>1. Head(down) \in Frame /\ Head(down).kind # "request"
      BY <1>2, <2>2, TakenOff DEF HandleEvent, TypeInv, Types
    <3>2. Head(down).kind # "heartbeat" => Head(down).snap # 0
      BY <3>1 DEF Frame, Down
    <3>3. QED
      BY <1>2, <2>2, <3>2 DEF HandleEvent, NoteTransportAlive
  <2>3. CASE GoStale \/ Reset
    BY <1>2, <2>3 DEF GoStale, Reset
  <2>4. CASE SendSnapshot \/ SendHeartbeat \/ Connecting \/ Polling \/ PollFrame \/ ReadReply \/ RequestFails
             \/ Offline \/ Resume
    BY <2>1, <2>4 DEF SendSnapshot, SendHeartbeat, Connecting, Connect, ReadHello, NoHello, Greet, Polling,
       PushSnapshot, PushEvent, PushRequest, Pause, PollFrame, ReadReply, RequestFails, Offline, Resume, deviceVars
  <2>5. CASE TakeRequest \/ Respond \/ SayHello \/ Unplug \/ Plug
    BY <2>1, <2>5 DEF TakeRequest, Respond, SayHello, Unplug, Plug, deviceVars
  <2>6. CASE \E c \in Clis : Call(c) \/ Cli(c)
    BY <2>1, <2>6 DEF Call, Cli, Called, OpenPort, AwaitHello, WriteEvent, WriteRequest, AwaitReply, Fail,
       deviceVars
  <2>7. CASE UNCHANGED vars
    BY <2>1, <2>7 DEF vars, deviceVars
  <2>8. QED
    BY <1>2, <2>2, <2>3, <2>4, <2>5, <2>6, <2>7 DEF Next, Device
<1>3. QED
  BY <1>1, <1>2, Typed, PTL DEF Spec

\* Snapshots go through the channel in the order in which they were handed over,
\* the pending one ahead of those that wait.
IsSnap(n) == commands[n].kind = "snapshot"
ChannelInv ==
  /\ pending <= handed
  /\ \A n \in 1..Len(commands) : IsSnap(n) => pending <= commands[n].snap /\ commands[n].snap <= handed
  /\ \A m, n \in 1..Len(commands) : m < n /\ IsSnap(m) /\ IsSnap(n) => commands[m].snap <= commands[n].snap

\* And over the line, between what the device has shown and the pending one.
LineInv ==
  /\ best <= pending
  /\ \A n \in 1..Len(down) : down[n].snap > 0 => best <= down[n].snap /\ down[n].snap <= pending
  /\ \A m, n \in 1..Len(down) : m < n /\ down[m].snap > 0 /\ down[n].snap > 0 => down[m].snap <= down[n].snap

OrderInv == ChannelInv /\ LineInv

\* Each step keeps the channel in order, and the pending snapshot only grows.
LEMMA ChannelNext ==
  ASSUME TypeInv, ChannelInv, [Next]_vars
  PROVE  ChannelInv' /\ pending <= pending'
<1> USE LinkAssumption
<1>1. /\ handed \in Int /\ pending \in Int /\ Len(commands) \in Nat
      /\ \A n \in 1..Len(commands) : commands[n].snap \in Int
  BY Members DEF TypeInv, Types, Given, Command, Snaps
<1>2. ASSUME UNCHANGED <<commands, handed, pending>> PROVE ChannelInv' /\ pending <= pending'
  BY <1>1, <1>2 DEF ChannelInv, IsSnap
<1>3. ASSUME NEW x \in Given, commands' = Append(commands, x), UNCHANGED pending,
             IF x.kind = "snapshot" THEN handed' = handed + 1 /\ x.snap = handed + 1 ELSE handed' = handed
      PROVE  ChannelInv' /\ pending <= pending'
  <2>1. /\ Len(commands') = Len(commands) + 1
        /\ \A i \in 1..Len(commands) : commands'[i] = commands[i]
        /\ commands'[Len(commands) + 1] = x
    BY <1>3, Appended DEF TypeInv, Types
  <2>2. \A n \in 1..Len(commands') : n \in 1..Len(commands) \/ (n = Len(commands) + 1 /\ n > Len(commands))
    BY <1>1, <2>1
  <2>3. handed <= handed'
    BY <1>1, <1>3
  <2>4. \A n \in 1..Len(commands') : IsSnap(n)' => pending' <= commands'[n].snap /\ commands'[n].snap <= handed'
    BY <1>1, <1>3, <2>1, <2>2, <2>3 DEF ChannelInv, IsSnap
  <2>5. \A m, n \in 1..Len(commands') : m < n /\ IsSnap(m)' /\ IsSnap(n)' => commands'[m].snap <= commands'[n].snap
    BY <1>1, <1>3, <2>1, <2>2 DEF ChannelInv, IsSnap
  <2>6. QED
    BY <1>1, <1>3, <2>3, <2>4, <2>5 DEF ChannelInv
<1>4. ASSUME commands # <<>>, Taken, UNCHANGED handed,
             pending' = pending \/ (Front.kind = "snapshot" /\ pending' = Front.snap),
             Front.kind = "snapshot" => pending' = Front.snap
      PROVE  ChannelInv' /\ pending <= pending'
  <2>1. /\ Len(commands') = Len(commands) - 1
        /\ 1 \in 1..Len(commands) /\ Front = commands[1]
        /\ \A n \in 1..Len(commands') : commands'[n] = commands[n + 1] /\ n + 1 \in 1..Len(commands) /\ 1 < n + 1
    BY <1>4, TakenOff DEF TypeInv, Types, Taken, Front
  <2>2. pending <= pending' /\ pending' <= handed
    BY <1>1, <1>4, <2>1 DEF ChannelInv, IsSnap
  <2>3. \A n \in 1..Len(commands') : IsSnap(n)' => pending' <= commands'[n].snap /\ commands'[n].snap <= handed
    BY <1>1, <1>4, <2>1 DEF ChannelInv, IsSnap
  <2>4. \A m, n \in 1..Len(commands') : m < n /\ IsSnap(m)' /\ IsSnap(n)' => commands'[m].snap <= commands'[n].snap
    <3>1. \A m, n \in 1..Len(commands') : m < n => m + 1 < n + 1
      BY <1>1, <2>1
    <3>2. QED
      BY <1>1, <2>1, <3>1 DEF ChannelInv, IsSnap
  <2>5. QED
    BY <1>4, <2>2, <2>3, <2>4 DEF ChannelInv
<1>5. CASE SendSnapshot
  <2>1. handed + 1 \in Snaps
    BY <1>5 DEF SendSnapshot, TypeInv, Types, Snaps
  <2>2. QED
    BY <1>3, <1>5, <2>1, BuiltCommands DEF SendSnapshot, Enqueue
<1>6. CASE SendHeartbeat
  BY <1>3, <1>6, BuiltCommands DEF SendHeartbeat, Enqueue
<1>7. CASE Connecting \/ PollFrame \/ Resume \/ ReadReply \/ RequestFails
  BY <1>2, <1>7 DEF Connecting, Connect, ReadHello, NoHello, Greet, PollFrame, Resume, ReadReply, RequestFails
<1>8. CASE Device \/ SayHello \/ GoStale \/ Reset \/ Unplug \/ Plug
  BY <1>2, <1>8 DEF Device, HandleEvent, TakeRequest, Respond, SayHello, GoStale, Reset, Unplug, Plug,
     workerVars
<1>9. CASE PushSnapshot
  BY <1>4, <1>9 DEF PushSnapshot, Remember
<1>10. CASE PushEvent \/ PushRequest \/ Pause
  BY <1>4, <1>10 DEF PushEvent, PushRequest, Pause
<1>11. CASE Offline
  BY <1>4, <1>11 DEF Offline, Remember
<1>12. ASSUME NEW c \in Clis, Call(c) PROVE ChannelInv' /\ pending <= pending'
  BY <1>3, <1>12, BuiltCommands DEF Call, Enqueue, Clis
<1>13. ASSUME NEW c \in Clis, Cli(c) PROVE ChannelInv' /\ pending <= pending'
  BY <1>2, <1>13 DEF Cli, Called, OpenPort, AwaitHello, WriteEvent, WriteRequest, AwaitReply, Fail, workerVars
<1>14. CASE UNCHANGED vars
  BY <1>2, <1>14 DEF vars, workerVars
<1>15. QED
  BY <1>5, <1>6, <1>7, <1>8, <1>9, <1>10, <1>11, <1>12, <1>13, <1>14 DEF Next, Polling

\* Each step keeps the line in order, and what is shown is never older.
LEMMA LineNext ==
  ASSUME TypeInv, OrderInv, [Next]_vars
  PROVE  LineInv' /\ (shown' # shown /\ shown' > 0 => shown' >= best)
<1> DEFINE NotOlder == shown' # shown /\ shown' > 0 => shown' >= best
<1> USE LinkAssumption
<1>1. /\ best \in Int /\ 0 <= best /\ pending \in Int /\ pending' \in Int /\ Len(down) \in Nat /\ shown \in Int
      /\ \A n \in 1..Len(down) : down[n].snap \in Int
  <2>1. TypeInv'
    BY TypeInvNext
  <2>2. /\ best \in Int /\ 0 <= best /\ pending \in Int /\ pending' \in Int /\ shown \in Int
    BY <2>1 DEF TypeInv, Types, Snaps, Test
  <2>3. Len(down) \in Nat /\ \A n \in 1..Len(down) : down[n].snap \in Int
    BY Members DEF TypeInv, Types, Frame, Down, Snaps, Test
  <2>4. QED
    BY <2>2, <2>3
<1>2. pending <= pending'
  BY ChannelNext DEF OrderInv
<1>3. ASSUME UNCHANGED <<down, best>> PROVE LineInv'
  BY <1>1, <1>2, <1>3 DEF LineInv, OrderInv
<1>4. ASSUME NEW x \in Frame, down' = Append(down, x), UNCHANGED best, x.snap > 0 => x.snap = pending'
      PROVE  LineInv'
  <2>1. /\ Len(down') = Len(down) + 1
        /\ \A i \in 1..Len(down) : down'[i] = down[i]
        /\ down'[Len(down) + 1] = x
    BY <1>4, Appended DEF TypeInv, Types
  <2>2. \A n \in 1..Len(down') : n \in 1..Len(down) \/ (n = Len(down) + 1 /\ n > Len(down))
    BY <1>1, <2>1
  <2>3. best <= pending'
    BY <1>1, <1>2 DEF LineInv, OrderInv
  <2>4. \A n \in 1..Len(down') : down'[n].snap > 0 => best <= down'[n].snap /\ down'[n].snap <= pending'
    BY <1>1, <1>2, <1>4, <2>1, <2>2, <2>3 DEF LineInv, OrderInv
  <2>5. \A m, n \in 1..Len(down') :
          m < n /\ down'[m].snap > 0 /\ down'[n].snap > 0 => down'[m].snap <= down'[n].snap
    BY <1>1, <1>2, <1>4, <2>1, <2>2 DEF LineInv, OrderInv
  <2>6. QED
    BY <1>4, <2>3, <2>4, <2>5 DEF LineInv
<1>5. ASSUME down # <<>>, down' = Tail(down),
             best' = best \/ (Head(down).snap > best /\ best' = Head(down).snap)
      PROVE  LineInv'
  <2>1. /\ Len(down') = Len(down) - 1
        /\ 1 \in 1..Len(down) /\ Head(down) = down[1]
        /\ \A n \in 1..Len(down') : down'[n] = down[n + 1] /\ n + 1 \in 1..Len(down) /\ 1 < n + 1
    BY <1>5, TakenOff DEF TypeInv, Types
  <2>2. best' <= pending'
    BY <1>1, <1>2, <1>5, <2>1 DEF LineInv, OrderInv
  <2>3. \A n \in 1..Len(down') : down'[n].snap > 0 => best' <= down'[n].snap /\ down'[n].snap <= pending'
    <3> SUFFICES ASSUME NEW n \in 1..Len(down'), down'[n].snap > 0
                 PROVE  best' <= down'[n].snap /\ down'[n].snap <= pending'
      OBVIOUS
    <3>1. /\ down'[n] = down[n + 1] /\ n + 1 \in 1..Len(down) /\ 1 < n + 1
      BY <2>1
    <3>2. best <= down[n + 1].snap /\ down[n + 1].snap <= pending
      BY <3>1 DEF LineInv, OrderInv
    <3>3. best \in Int /\ (Head(down).snap > best => Head(down).snap > 0)
      BY <1>1, <2>1 DEF TypeInv, Types
    <3>4. Head(down).snap > 0 => Head(down).snap <= down[n + 1].snap
      BY <2>1, <3>1 DEF LineInv, OrderInv
    <3>5. QED
      BY <1>1, <1>2, <1>5, <3>1, <3>2, <3>3, <3>4
  <2>4. \A m, n \in 1..Len(down') :
          m < n /\ down'[m].snap > 0 /\ down'[n].snap > 0 => down'[m].snap <= down'[n].snap
    <3>1. \A m, n \in 1..Len(down') : m < n => m + 1 < n + 1
      BY <1>1, <2>1
    <3>2. QED
      BY <2>1, <3>1 DEF LineInv, OrderInv
  <2>5. QED
    BY <2>2, <2>3, <2>4 DEF LineInv
<1>6. ASSUME down' = <<>>, best' \in {0, best} PROVE LineInv'
  <2>1. 0 <= best
    BY DEF TypeInv, Types
  <2>2. QED
    BY <1>1, <1>2, <1>6, <2>1 DEF LineInv, OrderInv
<1>7. CASE SendSnapshot \/ SendHeartbeat \/ Pause \/ Offline \/ PollFrame \/ Resume \/ ReadReply \/ RequestFails
  BY <1>3, <1>7 DEF SendSnapshot, SendHeartbeat, Pause, Offline, PollFrame, Resume, ReadReply, RequestFails,
     lineVars, deviceVars
<1>8. CASE Connecting
  <2>1. CASE Connect \/ ReadHello \/ NoHello
    BY <1>3, <2>1 DEF Connect, ReadHello, NoHello, deviceVars
  <2>2. CASE Greet
    <3>1. pending # 0 => Update(pending) \in Frame /\ Update(pending).snap = pending
      BY Built DEF Update, TypeInv, Types, Snaps
    <3>2. QED
      BY <1>3, <1>4, <2>2, <3>1 DEF Greet, Written, deviceVars
  <2>3. QED
    BY <1>8, <2>1, <2>2 DEF Connecting
<1>9. CASE PushSnapshot
  <2>1. Front \in Given /\ Front.snap \in Snaps
    BY <1>9, TakenOff DEF PushSnapshot, Front, TypeInv, Types, Given
  <2>2. Update(Front.snap) \in Frame /\ Update(Front.snap).snap = Front.snap
    BY <2>1, Built DEF Update
  <2>3. QED
    BY <1>3, <1>4, <1>9, <2>2 DEF PushSnapshot, Written, Remember, deviceVars
<1>10. CASE PushEvent
  <2>1. Heartbeat \in Frame /\ Heartbeat.snap = 0
    BY Built DEF Heartbeat
  <2>2. QED
    BY <1>3, <1>4, <1>10, <2>1 DEF PushEvent, Written, deviceVars
<1>11. ASSUME NEW i, NEW c, Ask(i, c), Request(i, c) \in Frame, UNCHANGED <<best, shown>>
       PROVE  LineInv' /\ NotOlder
  <2>1. Request(i, c).snap = 0
    BY DEF Request
  <2>2. QED
    BY <1>4, <1>11, <2>1 DEF Ask, Written
<1>12. CASE PushRequest
  <2>1. Front.by \in Clis /\ worker.id \in Ids
    BY <1>12, TakenOff, IdInBounds DEF PushRequest, Front, TypeInv, Types, Given, Clis
  <2>2. Request(worker.id, Front.by) \in Frame
    BY <2>1, Built
  <2>3. QED
    BY <1>3, <1>11, <1>12, <2>2 DEF PushRequest, deviceVars
<1>13. CASE HandleEvent
  <2>1. down # <<>> /\ down' = Tail(down)
    BY <1>13 DEF HandleEvent
  <2>2. best' = best \/ (Head(down).snap > best /\ best' = Head(down).snap)
    BY <1>13 DEF HandleEvent
  <2>3. shown' = shown \/ shown' = Head(down).snap
    BY <1>13 DEF HandleEvent
  <2>4. 1 \in 1..Len(down) /\ Head(down) = down[1]
    BY <2>1, TakenOff DEF TypeInv, Types
  <2>5. Head(down).snap > 0 => Head(down).snap >= best
    BY <1>1, <2>4 DEF LineInv, OrderInv
  <2>6. QED
    BY <1>5, <2>1, <2>2, <2>3, <2>5
<1>14. CASE TakeRequest
  BY <1>5, <1>14 DEF TakeRequest
<1>15. CASE Respond \/ SayHello \/ GoStale \/ Plug
  BY <1>3, <1>15 DEF Respond, SayHello, GoStale, Plug, lineVars, deviceVars
<1>16. CASE Reset
  BY <1>6, <1>16 DEF Reset
<1>17. CASE Unplug
  BY <1>6, <1>17 DEF Unplug, deviceVars
<1>18. ASSUME NEW c \in Clis, Call(c) \/ Cli(c) PROVE LineInv' /\ NotOlder
  <2>1. CASE Call(c) \/ Called(c) \/ OpenPort(c) \/ AwaitHello(c) \/ AwaitReply(c) \/ Fail(c)
    BY <1>3, <2>1 DEF Call, Called, OpenPort, AwaitHello, AwaitReply, Fail, lineVars, deviceVars
  <2>2. CASE WriteEvent(c)
    <3>1. c \in Showers
      BY <2>2 DEF WriteEvent, CliAt, TypeInv, Types, Clis
    <3>2. TestUpdate(c) \in Frame /\ ~(TestUpdate(c).snap > 0)
      BY <3>1, Built DEF TestUpdate, Test
    <3>3. QED
      BY <1>4, <2>2, <3>2 DEF WriteEvent, Written, deviceVars
  <2>3. CASE WriteRequest(c)
    <3>1. Request(1, c) \in Frame
      BY Built, IdsAreNumbers
    <3>2. QED
      BY <1>11, <2>3, <3>1 DEF WriteRequest, deviceVars
  <2>4. QED
    BY <1>18, <2>1, <2>2, <2>3 DEF Cli
<1>19. CASE UNCHANGED vars
  BY <1>3, <1>19 DEF vars, lineVars, deviceVars
<1>20. QED
  BY <1>7, <1>8, <1>9, <1>10, <1>12, <1>13, <1>14, <1>15, <1>16, <1>17, <1>18, <1>19 DEF Next, Polling, Device

\* The device never shows an older snapshot of the agent's after a newer one,
\* however often the worker reconnects and sends the pending one again.
THEOREM NewestStays == Spec => NeverBack
<1>1. Init => OrderInv
  BY DEF Init, OrderInv, ChannelInv, LineInv
<1>2. TypeInv /\ OrderInv /\ [Next]_vars => OrderInv' /\ (shown' # shown /\ shown' > 0 => shown' >= best)
  BY ChannelNext, LineNext DEF OrderInv
<1>3. QED
  BY <1>1, <1>2, Typed, PTL DEF Spec, NeverBack

\* Who waits for an answer under an id.
Awaits(c, i) ==
  \/ i = 1 /\ cli[c] = "wait"
  \/ worker.at = "rpc" /\ worker.by = c /\ worker.id - 1 = i
AwaitsNext(c, i) ==
  \/ i = 1 /\ cli'[c] = "wait"
  \/ worker'.at = "rpc" /\ worker'.by = c /\ worker'.id - 1 = i

\* Commands with no frame of theirs left to handle.
Over == done \cup wiped

\* Under an id that was never in use twice at a time whatever is under way
\* belongs to whoever waits, and an answer means that nothing of it is left.
OwnInv ==
  \A c \in Clis :
    /\ \A n \in 1..Len(down) :
         down[n].kind = "request" /\ down[n].id \notin reused /\ Awaits(c, down[n].id) => down[n].by = c
    /\ busy # None /\ busy.id \notin reused /\ Awaits(c, busy.id) => busy.by = c
    /\ \A n \in 1..Len(up) :
         up[n].id # 0 /\ up[n].id \notin reused /\ Awaits(c, up[n].id) => c \in Over

\* A command that shows a snapshot asks after it: its frame is ahead of its
\* request, or handled, or lost in a restart.
ShowInv ==
  \A c \in Showers :
    /\ \A n \in 1..Len(down) : down[n].kind = "request" /\ down[n].by = c =>
         c \in Over \/ \E m \in 1..Len(down) : m < n /\ down[m] = TestUpdate(c)
    /\ busy # None /\ busy.by = c => c \in Over
    /\ cli[c] = "ask" /\ Has(c) => c \in Over \/ \E m \in 1..Len(down) : down[m] = TestUpdate(c)

\* What a command has been told, or waits to be told.
ToldInv ==
  /\ \A c \in Clis : cli[c] = "wait" => asked[c] = 1
  /\ \A c \in Askers : cli[c] = "calling" /\ reply[c] = "ok" => c \in Over \/ asked[c] \in reused

OkInv == OwnInv /\ ShowInv /\ ToldInv /\ OkMeansHandled

\* Frames already on a line stay in it in their order, or are taken.
LEMMA StillThere ==
  ASSUME NEW S, NEW s \in Seq(S)
  PROVE  /\ \A x \in S : \A n \in 1..Len(Append(s, x)) : (n \in 1..Len(s) /\ Append(s, x)[n] = s[n]) \/ Append(s, x)[n] = x
         /\ s # <<>> => \A n \in 1..Len(Tail(s)) : n + 1 \in 1..Len(s) /\ Tail(s)[n] = s[n + 1]
<1>1. ASSUME NEW x \in S, NEW n \in 1..Len(Append(s, x))
      PROVE  (n \in 1..Len(s) /\ Append(s, x)[n] = s[n]) \/ Append(s, x)[n] = x
  <2>1. /\ Len(s) \in Nat /\ Len(Append(s, x)) = Len(s) + 1 /\ Append(s, x)[Len(s) + 1] = x
        /\ \A i \in 1..Len(s) : Append(s, x)[i] = s[i]
    BY Appended
  <2>2. n \in 1..Len(s) \/ n = Len(s) + 1
    BY <2>1
  <2>3. QED
    BY <2>1, <2>2
<1>2. ASSUME s # <<>>, NEW n \in 1..Len(Tail(s)) PROVE n + 1 \in 1..Len(s) /\ Tail(s)[n] = s[n + 1]
  BY <1>2, TakenOff
<1>3. QED
  BY <1>1, <1>2

\* Each step keeps answers with those who wait for them.
LEMMA OwnNext ==
  ASSUME TypeInv, OwnInv, ShowInv, [Next]_vars
  PROVE  OwnInv'
<1> USE LinkAssumption DEF Over
<1> DEFINE OldDown == \A n \in 1..Len(down') : down'[n].kind = "request" =>
                        \E m \in 1..Len(down) : down'[n] = down[m]
           OldUp == \A n \in 1..Len(up') : up'[n].id # 0 => \E m \in 1..Len(up) : up'[n] = up[m]
           OldBusy == busy' = busy \/ busy' = None
           OldWait == /\ \A c \in Clis : cli'[c] = "wait" => cli[c] = "wait"
                      /\ worker'.at = "rpc" => worker' = worker
           Grown == Over \subseteq Over' /\ reused \subseteq reused'
<1>0. down \in Seq(Frame) /\ up \in Seq(UpFrame)
  BY DEF TypeInv, Types
<1>1. ASSUME OldDown, OldUp, OldBusy, OldWait, Grown PROVE OwnInv'
  <2> SUFFICES ASSUME NEW c \in Clis
               PROVE  /\ \A n \in 1..Len(down') : down'[n].kind = "request" /\ down'[n].id \notin reused'
                           /\ AwaitsNext(c, down'[n].id) => down'[n].by = c
                      /\ busy' # None /\ busy'.id \notin reused' /\ AwaitsNext(c, busy'.id) => busy'.by = c
                      /\ \A n \in 1..Len(up') : up'[n].id # 0 /\ up'[n].id \notin reused'
                           /\ AwaitsNext(c, up'[n].id) => c \in Over'
    BY DEF OwnInv, Awaits, AwaitsNext
  <2>1. \A i : AwaitsNext(c, i) => Awaits(c, i)
    BY <1>1 DEF Awaits, AwaitsNext
  <2>2. \A n \in 1..Len(down') : down'[n].kind = "request" /\ down'[n].id \notin reused'
           /\ AwaitsNext(c, down'[n].id) => down'[n].by = c
    BY <1>1, <2>1 DEF OwnInv, Awaits, AwaitsNext
  <2>3. busy' # None /\ busy'.id \notin reused' /\ AwaitsNext(c, busy'.id) => busy'.by = c
    BY <1>1, <2>1 DEF OwnInv, Awaits, AwaitsNext
  <2>4. \A n \in 1..Len(up') : up'[n].id # 0 /\ up'[n].id \notin reused' /\ AwaitsNext(c, up'[n].id) => c \in Over'
    BY <1>1, <2>1 DEF OwnInv, Awaits, AwaitsNext
  <2>5. QED
    BY <2>2, <2>3, <2>4
<1>2. UNCHANGED down => OldDown
  OBVIOUS
<1>3. ASSUME NEW x \in Frame, x.kind # "request", down' = Append(down, x) PROVE OldDown
  BY <1>0, <1>3, StillThere
<1>4. down # <<>> /\ down' = Tail(down) => OldDown
  BY <1>0, StillThere
<1>5. down' = <<>> => OldDown
  OBVIOUS
<1>6. UNCHANGED up => OldUp
  OBVIOUS
<1>7. up' = Transmitted(Hello) => OldUp
  BY <1>0, StillThere, Built DEF Transmitted, Hello
<1>8. up # <<>> /\ up' = Tail(up) => OldUp
  BY <1>0, StillThere
<1>9. up' = <<>> => OldUp
  OBVIOUS
<1> HIDE DEF OldDown, OldUp
<1>10. ASSUME NEW i \in Ids, NEW d \in Clis, Ask(i, d), UNCHANGED <<busy, up, Over>>,
              \A c \in Clis, j \in Ids : AwaitsNext(c, j) => Awaits(c, j) \/ (c = d /\ j = i)
       PROVE  OwnInv'
  <2>1. /\ down' = Append(down, Request(i, d)) /\ Request(i, d) \in Frame
        /\ reused \subseteq reused'
        /\ i \notin reused' => ~UnderWay(i) /\ ~Awaited(i)
    BY <1>10, Built DEF Ask, Written
  <2>2. Request(i, d).id = i /\ Request(i, d).by = d
    BY DEF Request
  <2>3. /\ \A n \in 1..Len(down) : down[n] \in Frame
        /\ \A n \in 1..Len(up) : up[n] \in UpFrame
        /\ busy # None => busy \in Frame /\ busy.kind = "request"
    BY <1>0, Members DEF TypeInv, Types
  <2>4. \A f \in Frame : f.kind = "request" => f.id \in Ids
    BY DEF Frame
  <2>5. \A f \in UpFrame : f.id # 0 => f.id \in Ids
    BY DEF UpFrame, Up
  <2>6. ASSUME NEW c \in Clis, NEW n \in 1..Len(down'), down'[n].kind = "request",
               down'[n].id \notin reused', AwaitsNext(c, down'[n].id)
        PROVE  down'[n].by = c
    <3>1. CASE n \in 1..Len(down) /\ down'[n] = down[n]
      <4>1. down[n].id \in Ids /\ down[n].id \notin reused
        BY <2>1, <2>3, <2>4, <2>6, <3>1
      <4>2. CASE Awaits(c, down[n].id)
        BY <2>6, <3>1, <4>1, <4>2 DEF OwnInv
      <4>3. CASE c = d /\ down[n].id = i
        BY <2>1, <2>6, <3>1, <4>3 DEF UnderWay
      <4>4. Awaits(c, down[n].id) \/ (c = d /\ down[n].id = i)
        <5>1. \A j : j = down'[n].id /\ j \in Ids => (Awaits(c, j) \/ (c = d /\ j = i))
          BY <1>10, <2>6 DEF Awaits, AwaitsNext
        <5>2. QED
          BY <5>1, <3>1, <4>1
      <4>5. QED
        BY <4>2, <4>3, <4>4
    <3>2. CASE down'[n] = Request(i, d)
      <4>1. Awaits(c, i) \/ c = d
        BY <1>10, <2>2, <2>6, <3>2 DEF Awaits, AwaitsNext
      <4>2. ~Awaits(c, i)
        BY <2>1, <2>2, <2>6, <3>2 DEF Awaits, Awaited
      <4>3. QED
        BY <2>2, <3>2, <4>1, <4>2
    <3>3. QED
      BY <1>0, <2>1, <3>1, <3>2, StillThere
  <2>7. ASSUME NEW c \in Clis, busy' # None, busy'.id \notin reused', AwaitsNext(c, busy'.id)
        PROVE  busy'.by = c
    <3>1. busy' = busy /\ busy.id \in Ids /\ busy.id \notin reused
      BY <1>10, <2>1, <2>3, <2>4, <2>7
    <3>2. Awaits(c, busy.id) \/ (c = d /\ busy.id = i)
      <4>1. \A j : j = busy'.id /\ j \in Ids => (Awaits(c, j) \/ (c = d /\ j = i))
        BY <1>10, <2>7 DEF Awaits, AwaitsNext
      <4>2. QED
        BY <4>1, <3>1
    <3>3. busy.id # i
      BY <2>1, <2>7, <3>1 DEF UnderWay
    <3>4. QED
      BY <2>7, <3>1, <3>2, <3>3 DEF OwnInv
  <2>8. ASSUME NEW c \in Clis, NEW n \in 1..Len(up'), up'[n].id # 0, up'[n].id \notin reused',
               AwaitsNext(c, up'[n].id)
        PROVE  c \in Over'
    <3>1. up' = up /\ n \in 1..Len(up) /\ up[n].id \in Ids /\ up[n].id \notin reused
      BY <1>10, <2>1, <2>3, <2>5, <2>8
    <3>2. Awaits(c, up[n].id) \/ (c = d /\ up[n].id = i)
      <4>1. \A j : j = up'[n].id /\ j \in Ids => (Awaits(c, j) \/ (c = d /\ j = i))
        BY <1>10, <2>8 DEF Awaits, AwaitsNext
      <4>2. QED
        BY <4>1, <3>1
    <3>3. up[n].id # i
      BY <2>1, <2>8, <3>1 DEF UnderWay
    <3>4. QED
      BY <1>10, <2>8, <3>1, <3>2, <3>3 DEF OwnInv
  <2>9. QED
    BY <2>6, <2>7, <2>8 DEF OwnInv, Awaits, AwaitsNext
<1>11. ASSUME NEW s, s # "rpc", Go(s) PROVE worker'.at # "rpc"
  BY <1>11 DEF Go, TypeInv, Types
<1>12. CASE SendSnapshot \/ SendHeartbeat \/ Offline \/ Resume \/ Pause
  <2>1. UNCHANGED <<down, up, busy, cli, Over, reused>>
    BY <1>12 DEF SendSnapshot, SendHeartbeat, Offline, Resume, Pause, lineVars, deviceVars, cliVars, history
  <2>2. UNCHANGED worker \/ worker'.at # "rpc"
    BY <1>11, <1>12 DEF SendSnapshot, SendHeartbeat, Offline, Resume, Pause
  <2>3. QED
    BY <1>1, <1>2, <1>6, <2>1, <2>2
<1>13. CASE Connect \/ ReadHello \/ NoHello \/ PollFrame \/ RequestFails
  <2>1. UNCHANGED <<down, busy, cli, Over, reused>>
    BY <1>13 DEF Connect, ReadHello, NoHello, PollFrame, RequestFails, deviceVars, cliVars, history
  <2>2. UNCHANGED worker \/ worker'.at # "rpc"
    <3>1. CASE Connect \/ ReadHello \/ NoHello \/ PollFrame
      BY <1>11, <3>1 DEF Connect, ReadHello, NoHello, PollFrame
    <3>2. CASE RequestFails
      BY <3>2 DEF RequestFails, TypeInv, Types
    <3>3. QED
      BY <1>13, <3>1, <3>2
  <2>3. UNCHANGED up \/ (up # <<>> /\ up' = Tail(up))
    BY <1>13 DEF Connect, ReadHello, NoHello, PollFrame, RequestFails
  <2>4. QED
    BY <1>1, <1>2, <1>6, <1>8, <2>1, <2>2, <2>3
<1>14. CASE ReadReply
  <2>1. worker' = worker \/ worker'.at # "rpc"
    BY <1>14 DEF ReadReply, TypeInv, Types
  <2>2. UNCHANGED <<down, busy, cli, Over, reused>> /\ up # <<>> /\ up' = Tail(up)
    BY <1>14 DEF ReadReply, deviceVars, history
  <2>3. QED
    BY <1>1, <1>2, <1>8, <2>1, <2>2
<1>15. CASE Greet
  <2>1. pending # 0 => Update(pending) \in Frame /\ Update(pending).kind # "request"
    BY Built DEF Update, TypeInv, Types, Snaps
  <2>2. OldDown
    BY <1>2, <1>3, <1>15, <2>1 DEF Greet, Written
  <2>3. worker'.at # "rpc"
    BY <1>11, <1>15 DEF Greet
  <2>4. UNCHANGED <<up, busy, cli, Over, reused>>
    BY <1>15 DEF Greet, deviceVars, cliVars, history
  <2>5. QED
    BY <1>1, <1>6, <2>2, <2>3, <2>4
<1>16. CASE PushSnapshot \/ PushEvent
  <2>1. Front \in Given
    BY <1>16, TakenOff DEF PushSnapshot, PushEvent, Front, TypeInv, Types
  <2>2. Front.kind = "snapshot" => Update(Front.snap) \in Frame /\ Update(Front.snap).kind # "request"
    BY <2>1, Built DEF Update, Given
  <2>3. Heartbeat \in Frame /\ Heartbeat.kind # "request"
    BY Built DEF Heartbeat
  <2>4. OldDown
    BY <1>2, <1>3, <1>16, <2>2, <2>3 DEF PushSnapshot, PushEvent, Written
  <2>5. worker' = worker \/ worker'.at # "rpc"
    BY <1>11, <1>16 DEF PushSnapshot, PushEvent
  <2>6. UNCHANGED <<up, busy, cli, Over, reused>>
    BY <1>16 DEF PushSnapshot, PushEvent, deviceVars, cliVars, history
  <2>7. QED
    BY <1>1, <1>6, <2>4, <2>5, <2>6
<1>17. CASE PushRequest
  <2>1. Front.by \in Clis /\ worker.id \in Ids
    BY <1>17, TakenOff, IdInBounds DEF PushRequest, Front, TypeInv, Types, Given, Clis
  <2>2. UNCHANGED <<up, busy, cli, Over>>
    BY <1>17 DEF PushRequest, deviceVars
  <2>3. CASE Ask(worker.id, Front.by) /\ worker' = [at |-> "rpc", id |-> worker.id + 1, by |-> Front.by]
    <3>1. worker.id \in Nat
      BY DEF TypeInv, Types
    <3>2. \A c \in Clis, j \in Ids : AwaitsNext(c, j) => Awaits(c, j) \/ (c = Front.by /\ j = worker.id)
      BY <2>2, <2>3, <3>1 DEF Awaits, AwaitsNext
    <3>3. QED
      BY <1>10, <2>1, <2>2, <2>3, <3>2
  <2>4. CASE Go("connect") /\ UNCHANGED <<down, reused>>
    <3>1. worker'.at # "rpc"
      BY <1>11, <2>4
    <3>2. QED
      BY <1>1, <1>2, <1>6, <2>2, <2>4, <3>1
  <2>5. QED
    BY <1>17, <2>3, <2>4 DEF PushRequest
<1>18. CASE HandleEvent
  <2>1. /\ down # <<>> /\ down' = Tail(down)
        /\ UNCHANGED <<worker, up, busy, cli, reused>>
        /\ Over \subseteq Over'
    BY <1>18 DEF HandleEvent, workerVars, cliVars
  <2>2. QED
    BY <1>1, <1>4, <1>6, <2>1
<1>19. CASE TakeRequest
  <2>1. /\ down # <<>> /\ down' = Tail(down) /\ busy = None /\ busy' = Head(down) /\ Head(down).kind = "request"
        /\ UNCHANGED <<worker, up, cli, Over, reused>>
    BY <1>19 DEF TakeRequest, workerVars, cliVars, history
  <2>2. /\ 1 \in 1..Len(down) /\ Head(down) = down[1]
        /\ \A n \in 1..Len(down') : n + 1 \in 1..Len(down) /\ down'[n] = down[n + 1]
    BY <1>0, <2>1, TakenOff, StillThere
  <2>3. \A c, i : AwaitsNext(c, i) <=> Awaits(c, i)
    BY <2>1 DEF Awaits, AwaitsNext
  <2>4. ASSUME NEW c \in Clis, NEW n \in 1..Len(down'), down'[n].kind = "request",
               down'[n].id \notin reused', AwaitsNext(c, down'[n].id)
        PROVE  down'[n].by = c
    BY <2>1, <2>2, <2>4 DEF OwnInv, Awaits, AwaitsNext
  <2>5. ASSUME NEW c \in Clis, busy'.id \notin reused', AwaitsNext(c, busy'.id) PROVE busy'.by = c
    BY <2>1, <2>2, <2>5 DEF OwnInv, Awaits, AwaitsNext
  <2>6. ASSUME NEW c \in Clis, NEW n \in 1..Len(up'), up'[n].id # 0, up'[n].id \notin reused',
               AwaitsNext(c, up'[n].id)
        PROVE  c \in Over'
    BY <2>1, <2>6 DEF OwnInv, Awaits, AwaitsNext
  <2>7. QED
    BY <2>4, <2>5, <2>6 DEF OwnInv, Awaits, AwaitsNext
<1>20. CASE Respond
  <2>1. /\ busy # None /\ busy' = None
        /\ UNCHANGED <<worker, down, cli, reused>>
        /\ Over \subseteq Over' /\ (busy.by \in Askers => busy.by \in Over')
    BY <1>20 DEF Respond, workerVars, cliVars
  <2>2. PICK k \in Answers : up' = Transmitted(Response(busy.id, k))
    BY <1>20 DEF Respond, Answers
  <2>3. busy \in Frame /\ busy.kind = "request" /\ busy.by \in Clis /\ busy.id \in Ids
    BY <2>1 DEF TypeInv, Types, Frame
  <2>4. Response(busy.id, k) \in UpFrame /\ Response(busy.id, k).id = busy.id
    BY <2>3, Built DEF Response
  <2>5. \A n \in 1..Len(up') : (n \in 1..Len(up) /\ up'[n] = up[n]) \/ up'[n] = Response(busy.id, k)
    BY <1>0, <2>2, <2>4, StillThere DEF Transmitted
  <2>6. busy.by \in Over'
    BY <2>1, <2>3 DEF ShowInv, Clis
  <2>7. ASSUME NEW c \in Clis, NEW n \in 1..Len(up'), up'[n].id # 0, up'[n].id \notin reused',
               AwaitsNext(c, up'[n].id)
        PROVE  c \in Over'
    <3>1. Awaits(c, up'[n].id)
      BY <2>1, <2>7 DEF Awaits, AwaitsNext
    <3>2. CASE n \in 1..Len(up) /\ up'[n] = up[n]
      BY <2>1, <2>7, <3>1, <3>2 DEF OwnInv
    <3>3. CASE up'[n] = Response(busy.id, k)
      BY <2>1, <2>4, <2>6, <2>7, <3>1, <3>3 DEF OwnInv
    <3>4. QED
      BY <2>5, <3>2, <3>3
  <2>8. ASSUME NEW c \in Clis, NEW n \in 1..Len(down'), down'[n].kind = "request",
               down'[n].id \notin reused', AwaitsNext(c, down'[n].id)
        PROVE  down'[n].by = c
    BY <2>1, <2>8 DEF OwnInv, Awaits, AwaitsNext
  <2>9. QED
    BY <2>1, <2>7, <2>8 DEF OwnInv, Awaits, AwaitsNext
<1>21. CASE SayHello \/ GoStale \/ Plug
  <2>1. UNCHANGED <<worker, down, busy, cli, Over, reused>> /\ (UNCHANGED up \/ up' = Transmitted(Hello))
    BY <1>21 DEF SayHello, GoStale, Plug, workerVars, lineVars, deviceVars, cliVars, history
  <2>2. QED
    BY <1>1, <1>2, <1>6, <1>7, <2>1
<1>22. CASE Reset \/ Unplug
  <2>1. /\ UNCHANGED <<worker, cli, reused>> /\ down' = <<>> /\ up' = <<>> /\ Over \subseteq Over'
        /\ (busy' = None \/ UNCHANGED busy)
    BY <1>22 DEF Reset, Unplug, workerVars, deviceVars, cliVars, history
  <2>2. QED
    BY <1>1, <1>5, <1>9, <2>1
<1>23. ASSUME NEW c \in Clis, Call(c) \/ Called(c) \/ OpenPort(c) \/ AwaitHello(c) \/ AwaitReply(c) \/ Fail(c)
       PROVE  OwnInv'
  <2>1. /\ UNCHANGED <<worker, down, busy, Over, reused>>
        /\ UNCHANGED up \/ (up # <<>> /\ up' = Tail(up))
    BY <1>23 DEF Call, Called, OpenPort, AwaitHello, AwaitReply, Fail, workerVars, lineVars, deviceVars, history
  <2>2. \A d \in Clis : cli'[d] = "wait" => cli[d] = "wait"
    BY <1>23 DEF Call, Called, OpenPort, AwaitHello, AwaitReply, Fail, Step, End, TypeInv, Types
  <2>3. QED
    BY <1>1, <1>2, <1>6, <1>8, <2>1, <2>2
<1>24. ASSUME NEW c \in Clis, WriteEvent(c) PROVE OwnInv'
  <2>1. c \in Showers
    BY <1>24 DEF WriteEvent, CliAt, TypeInv, Types, Clis
  <2>2. TestUpdate(c) \in Frame /\ TestUpdate(c).kind # "request"
    BY <2>1, Built DEF TestUpdate
  <2>3. UNCHANGED <<worker, up, busy, Over, reused>> /\ down' = Append(down, TestUpdate(c))
    BY <1>24 DEF WriteEvent, Written, workerVars, deviceVars, history
  <2>4. \A d \in Clis : cli'[d] = "wait" => cli[d] = "wait"
    BY <1>24 DEF WriteEvent, Step, TypeInv, Types
  <2>5. QED
    BY <1>1, <1>3, <1>6, <2>2, <2>3, <2>4
<1>25. ASSUME NEW c \in Clis, WriteRequest(c) PROVE OwnInv'
  <2>1. Ask(1, c) /\ 1 \in Ids /\ UNCHANGED <<worker, busy, up, Over>>
    BY <1>25, IdsAreNumbers DEF WriteRequest, workerVars, deviceVars
  <2>2. \A d \in Clis : cli'[d] = "wait" => cli[d] = "wait" \/ d = c
    BY <1>25 DEF WriteRequest, Step, TypeInv, Types
  <2>3. \A d \in Clis, j \in Ids : AwaitsNext(d, j) => Awaits(d, j) \/ (d = c /\ j = 1)
    BY <2>1, <2>2 DEF Awaits, AwaitsNext
  <2>4. QED
    BY <1>10, <2>1, <2>3
<1>26. CASE UNCHANGED vars
  BY <1>1, <1>2, <1>6, <1>26 DEF vars, workerVars, lineVars, deviceVars, cliVars, history
<1>27. QED
  BY <1>12, <1>13, <1>14, <1>15, <1>16, <1>17, <1>18, <1>19, <1>20, <1>21, <1>22, <1>23, <1>24, <1>25, <1>26
     DEF Next, Connecting, Polling, Device, Cli

\* Each step keeps a shown snapshot ahead of the request that follows it.
LEMMA ShowNext ==
  ASSUME TypeInv, ShowInv, [Next]_vars
  PROVE  ShowInv'
<1> USE LinkAssumption DEF Over
<1> DEFINE Quiet == busy' = busy \/ busy' = None
           Still == \A c \in Showers : cli'[c] = "ask" /\ c \in open' => cli[c] = "ask" /\ c \in open
<1>0. down \in Seq(Frame) /\ Showers \subseteq Clis
  BY DEF TypeInv, Types, Clis
<1>1. ASSUME UNCHANGED down, Quiet, Still, Over \subseteq Over' PROVE ShowInv'
  BY <1>1 DEF ShowInv, Has
<1>2. ASSUME NEW x \in Frame, down' = Append(down, x), Quiet, Over \subseteq Over',
             \A c \in Showers : x.kind = "request" /\ x.by = c => cli[c] = "ask" /\ c \in open,
             \A c \in Showers : cli'[c] = "ask" /\ c \in open' =>
                (cli[c] = "ask" /\ c \in open) \/ x = TestUpdate(c)
      PROVE  ShowInv'
  <2>1. /\ Len(down) \in Nat /\ Len(down') = Len(down) + 1
        /\ \A i \in 1..Len(down) : down'[i] = down[i]
        /\ down'[Len(down) + 1] = x
    BY <1>0, <1>2, Appended
  <2>2. ASSUME NEW c \in Showers, NEW n \in 1..Len(down'), down'[n].kind = "request", down'[n].by = c
        PROVE  c \in Over' \/ \E m \in 1..Len(down') : m < n /\ down'[m] = TestUpdate(c)
    <3>1. CASE n \in 1..Len(down)
      <4>1. c \in Over \/ \E m \in 1..Len(down) : m < n /\ down[m] = TestUpdate(c)
        BY <2>1, <2>2, <3>1 DEF ShowInv
      <4>2. QED
        BY <1>2, <2>1, <4>1
    <3>2. CASE n = Len(down) + 1
      <4>1. c \in Over \/ \E m \in 1..Len(down) : down[m] = TestUpdate(c)
        BY <1>2, <2>1, <2>2, <3>2 DEF ShowInv, Has
      <4>2. QED
        BY <1>2, <2>1, <3>2, <4>1
    <3>3. QED
      BY <2>1, <3>1, <3>2
  <2>3. ASSUME NEW c \in Showers, busy' # None, busy'.by = c PROVE c \in Over'
    BY <1>2, <2>3 DEF ShowInv
  <2>4. ASSUME NEW c \in Showers, cli'[c] = "ask", c \in open'
        PROVE  c \in Over' \/ \E m \in 1..Len(down') : down'[m] = TestUpdate(c)
    <3>1. CASE x = TestUpdate(c)
      BY <2>1, <3>1
    <3>2. CASE cli[c] = "ask" /\ c \in open
      <4>1. c \in Over \/ \E m \in 1..Len(down) : down[m] = TestUpdate(c)
        BY <3>2 DEF ShowInv, Has
      <4>2. QED
        BY <1>2, <2>1, <4>1
    <3>3. QED
      BY <1>2, <2>4, <3>1, <3>2
  <2>5. QED
    BY <2>2, <2>3, <2>4 DEF ShowInv, Has
<1>3. ASSUME down # <<>>, down' = Tail(down), Still, Over \subseteq Over',
             \A c \in Showers : Head(down) = TestUpdate(c) => c \in Over',
             Quiet \/ (busy' = Head(down) /\ Head(down).kind = "request")
      PROVE  ShowInv'
  <2>1. /\ Len(down) \in Nat \ {0} /\ Len(down') = Len(down) - 1 /\ Head(down) = down[1]
        /\ \A n \in 1..Len(down') : down'[n] = down[n + 1]
    BY <1>0, <1>3, TakenOff
  <2>2. ASSUME NEW c \in Showers, NEW n \in 1..Len(down'), down'[n].kind = "request", down'[n].by = c
        PROVE  c \in Over' \/ \E m \in 1..Len(down') : m < n /\ down'[m] = TestUpdate(c)
    <3>1. n + 1 \in 1..Len(down) /\ down[n + 1].kind = "request" /\ down[n + 1].by = c
      <4>1. n + 1 \in 1..Len(down) BY <2>1
      <4>2. down'[n] = down[n + 1] BY <2>1
      <4>3. QED BY <2>2, <4>1, <4>2
    <3>2. CASE c \in Over
      BY <1>3, <3>2
    <3>3. CASE c \notin Over
      <4>1. PICK m \in 1..Len(down) : m < n + 1 /\ down[m] = TestUpdate(c)
        BY <3>1, <3>3 DEF ShowInv
      <4>2. CASE m = 1
        BY <1>3, <2>1, <4>1, <4>2
      <4>3. CASE m > 1
        <5>1. m - 1 \in 1..Len(down') /\ m - 1 < n /\ down'[m - 1] = down[m]
          BY <2>1, <4>1, <4>3
        <5>2. QED
          BY <4>1, <5>1
      <4>4. QED
        BY <4>2, <4>3
    <3>4. QED
      BY <3>2, <3>3
  <2>3. ASSUME NEW c \in Showers, busy' # None, busy'.by = c PROVE c \in Over'
    <3>1. CASE Quiet
      BY <1>3, <2>3, <3>1 DEF ShowInv
    <3>2. CASE busy' = Head(down) /\ Head(down).kind = "request"
      <4>1. 1 \in 1..Len(down) /\ ~\E m \in 1..Len(down) : m < 1
        BY <2>1
      <4>2. QED
        BY <1>3, <2>1, <2>3, <3>2, <4>1 DEF ShowInv
    <3>3. QED
      BY <1>3, <3>1, <3>2
  <2>4. ASSUME NEW c \in Showers, cli'[c] = "ask", c \in open'
        PROVE  c \in Over' \/ \E m \in 1..Len(down') : down'[m] = TestUpdate(c)
    <3>1. CASE c \in Over
      BY <1>3, <3>1
    <3>2. CASE c \notin Over
      <4>1. PICK m \in 1..Len(down) : down[m] = TestUpdate(c)
        BY <1>3, <2>4, <3>2 DEF ShowInv, Has
      <4>2. CASE m = 1
        BY <1>3, <2>1, <4>1, <4>2
      <4>3. CASE m > 1
        <5>1. m - 1 \in 1..Len(down') /\ down'[m - 1] = down[m]
          BY <2>1, <4>1, <4>3
        <5>2. QED
          BY <4>1, <5>1
      <4>4. QED
        BY <4>2, <4>3
    <3>3. QED
      BY <3>1, <3>2
  <2>5. QED
    BY <2>2, <2>3, <2>4 DEF ShowInv, Has
<1>4. CASE SendSnapshot \/ SendHeartbeat \/ Offline \/ Resume \/ PollFrame \/ ReadHello
  <2>1. UNCHANGED <<down, busy, open, cli, Over>>
    BY <1>4 DEF SendSnapshot, SendHeartbeat, Offline, Resume, PollFrame, ReadHello, lineVars, deviceVars, cliVars, history
  <2>2. QED
    BY <1>1, <2>1
<1>5. CASE Connect \/ NoHello \/ Pause \/ ReadReply \/ RequestFails
  <2>1. UNCHANGED <<down, busy, cli, Over>>
    BY <1>5 DEF Connect, NoHello, Pause, ReadReply, RequestFails, deviceVars, cliVars, history
  <2>2. \A c \in Clis : c \in open' => c \in open
    BY <1>5 DEF Connect, NoHello, Pause, ReadReply, RequestFails, Closed
  <2>3. QED
    BY <1>0, <1>1, <2>1, <2>2
<1>6. CASE Greet \/ PushSnapshot \/ PushEvent
  <2>1. UNCHANGED <<busy, open, cli, Over>>
    BY <1>6 DEF Greet, PushSnapshot, PushEvent, deviceVars, cliVars, history
  <2>2. pending # 0 => Update(pending) \in Frame /\ Update(pending).kind # "request"
    BY Built DEF Update, TypeInv, Types, Snaps
  <2>3. commands # <<>> => Front \in Given
    BY TakenOff DEF Front, TypeInv, Types
  <2>4. commands # <<>> /\ Front.kind = "snapshot" =>
          Update(Front.snap) \in Frame /\ Update(Front.snap).kind # "request"
    BY <2>3, Built DEF Update, Given
  <2>5. Heartbeat \in Frame /\ Heartbeat.kind # "request"
    BY Built DEF Heartbeat
  <2>6. UNCHANGED down \/ \E x \in Frame : x.kind # "request" /\ down' = Append(down, x)
    BY <1>6, <2>2, <2>4, <2>5 DEF Greet, PushSnapshot, PushEvent, Written
  <2>7. QED
    BY <1>1, <1>2, <2>1, <2>6
<1>7. CASE PushRequest
  <2>1. Front.by \in Askers /\ worker.id \in Ids
    BY <1>7, TakenOff, IdInBounds DEF PushRequest, Front, TypeInv, Types, Given
  <2>2. UNCHANGED <<busy, open, cli, Over>>
    BY <1>7 DEF PushRequest, deviceVars
  <2>3. CASE Ask(worker.id, Front.by)
    <3>1. /\ down' = Append(down, Request(worker.id, Front.by)) /\ Request(worker.id, Front.by) \in Frame
          /\ Request(worker.id, Front.by).by \notin Showers
      BY <2>1, <2>3, Built DEF Ask, Written, Request, Clis
    <3>2. QED
      BY <1>2, <2>2, <3>1
  <2>4. CASE UNCHANGED down
    BY <1>1, <2>2, <2>4
  <2>5. QED
    BY <1>7, <2>3, <2>4 DEF PushRequest
<1>8. CASE HandleEvent
  <2>1. /\ down # <<>> /\ down' = Tail(down) /\ Head(down).kind # "request"
        /\ UNCHANGED <<busy, open, cli>> /\ Over \subseteq Over'
    BY <1>8 DEF HandleEvent, cliVars
  <2>2. \A c \in Showers : Head(down) = TestUpdate(c) => c \in Over'
    BY <1>0, <1>8 DEF HandleEvent, TestUpdate, Clis
  <2>3. QED
    BY <1>3, <2>1, <2>2
<1>9. CASE TakeRequest
  <2>1. /\ down # <<>> /\ down' = Tail(down) /\ Head(down).kind = "request" /\ busy' = Head(down)
        /\ UNCHANGED <<open, cli, Over>>
    BY <1>9 DEF TakeRequest, cliVars, history
  <2>2. \A c \in Showers : Head(down) # TestUpdate(c)
    BY <2>1 DEF TestUpdate
  <2>3. QED
    BY <1>3, <2>1, <2>2
<1>10. CASE Respond \/ SayHello \/ GoStale \/ Plug
  <2>1. UNCHANGED <<down, open, cli>> /\ Over \subseteq Over' /\ Quiet
    BY <1>10 DEF Respond, SayHello, GoStale, Plug, lineVars, deviceVars, cliVars, history
  <2>2. QED
    BY <1>1, <2>1
<1>11. CASE Reset
  <2>1. /\ busy' = None /\ down' = <<>> /\ UNCHANGED <<open, cli>>
        /\ Over' = Over \cup {down[i].by : i \in {i \in 1..Len(down) : down[i].snap = Test}}
    BY <1>11 DEF Reset, cliVars
  <2>2. ASSUME NEW c \in Showers, cli'[c] = "ask", c \in open' PROVE c \in Over'
    <3>1. c \in Over \/ \E m \in 1..Len(down) : down[m] = TestUpdate(c)
      BY <2>1, <2>2 DEF ShowInv, Has
    <3>2. \A m \in 1..Len(down) : down[m] = TestUpdate(c) => c \in Over'
      BY <2>1 DEF TestUpdate
    <3>3. QED
      BY <2>1, <3>1, <3>2
  <2>3. ~\E n \in 1..Len(down') : TRUE
    BY <2>1
  <2>4. QED
    BY <2>1, <2>2, <2>3 DEF ShowInv, Has
<1>12. CASE Unplug
  <2>1. /\ UNCHANGED <<busy, Over>> /\ down' = <<>> /\ open' = {}
    BY <1>12 DEF Unplug, deviceVars, history
  <2>2. ~\E n \in 1..Len(down') : TRUE
    BY <2>1
  <2>3. QED
    BY <2>1, <2>2 DEF ShowInv, Has
<1>13. ASSUME NEW c \in Clis, Call(c) \/ Called(c) \/ OpenPort(c) \/ AwaitHello(c) \/ AwaitReply(c) \/ Fail(c)
       PROVE  ShowInv'
  <2>1. UNCHANGED <<down, busy, Over>>
    BY <1>13 DEF Call, Called, OpenPort, AwaitHello, AwaitReply, Fail, workerVars, lineVars, deviceVars, history
  <2>2. CASE Call(c) \/ Called(c)
    BY <1>0, <1>1, <2>1, <2>2 DEF Call, Called, lineVars, Step, TypeInv, Types
  <2>3. CASE OpenPort(c)
    <3>1. cli' = [cli EXCEPT ![c] = "hello"] \/ cli' = [cli EXCEPT ![c] = "failed"]
      BY <2>3 DEF OpenPort, Step
    <3>2. open' = open \cup {c} \/ open' = open
      BY <2>3 DEF OpenPort
    <3>3. Still
      BY <1>0, <3>1, <3>2 DEF TypeInv, Types
    <3>4. QED
      BY <1>1, <2>1, <3>3
  <2>4. CASE AwaitHello(c)
    <3>1. cli' = cli \/ (c \in Showers /\ cli' = [cli EXCEPT ![c] = "write"])
                     \/ (c \notin Showers /\ cli' = [cli EXCEPT ![c] = "ask"])
      BY <2>4 DEF AwaitHello, Step
    <3>2. open' = open
      BY <2>4 DEF AwaitHello
    <3>3. Still
      BY <1>0, <3>1, <3>2 DEF TypeInv, Types
    <3>4. QED
      BY <1>1, <2>1, <3>3
  <2>5. CASE AwaitReply(c) \/ Fail(c)
    <3>1. cli' = cli \/ cli' = [cli EXCEPT ![c] = "ok"] \/ cli' = [cli EXCEPT ![c] = "failed"]
      BY <2>5 DEF AwaitReply, Fail, End, Step
    <3>2. \A d \in Clis : d \in open' => d \in open
      BY <2>5 DEF AwaitReply, Fail, End
    <3>3. Still
      BY <1>0, <3>1, <3>2 DEF TypeInv, Types
    <3>4. QED
      BY <1>1, <2>1, <3>3
  <2>6. QED
    BY <1>13, <2>2, <2>3, <2>4, <2>5
<1>14. ASSUME NEW c \in Clis, WriteEvent(c) PROVE ShowInv'
  <2>1. c \in Showers
    BY <1>14 DEF WriteEvent, CliAt, TypeInv, Types, Clis
  <2>2. TestUpdate(c) \in Frame /\ TestUpdate(c).kind # "request"
    BY <2>1, Built DEF TestUpdate
  <2>3. UNCHANGED <<busy, open, Over>> /\ down' = Append(down, TestUpdate(c)) /\ cli' = [cli EXCEPT ![c] = "ask"]
    BY <1>14 DEF WriteEvent, Written, deviceVars, history, Step
  <2>4. \A d \in Showers : cli'[d] = "ask" => cli[d] = "ask" \/ d = c
    BY <1>0, <2>3 DEF TypeInv, Types
  <2>5. QED
    BY <1>2, <2>2, <2>3, <2>4
<1>15. ASSUME NEW c \in Clis, WriteRequest(c) PROVE ShowInv'
  <2>1. /\ down' = Append(down, Request(1, c)) /\ Request(1, c) \in Frame /\ Request(1, c).by = c
        /\ UNCHANGED <<busy, open, Over>> /\ cli' = [cli EXCEPT ![c] = "wait"]
        /\ cli[c] = "ask" /\ c \in open
    BY <1>15, Built, IdsAreNumbers DEF WriteRequest, Ask, Written, Request, deviceVars, Step, CliAt, Has
  <2>2. \A d \in Showers : cli'[d] = "ask" => cli[d] = "ask"
    BY <1>0, <2>1 DEF TypeInv, Types
  <2>3. QED
    BY <1>2, <2>1, <2>2
<1>16. CASE UNCHANGED vars
  BY <1>1, <1>16 DEF vars, lineVars, deviceVars, cliVars, history
<1>17. QED
  BY <1>4, <1>5, <1>6, <1>7, <1>8, <1>9, <1>10, <1>11, <1>12, <1>13, <1>14, <1>15, <1>16
     DEF Next, Connecting, Polling, Device, Cli

\* Each step keeps what the commands have been told true.
LEMMA ToldNext ==
  ASSUME TypeInv, OkInv, [Next]_vars
  PROVE  ToldInv' /\ OkMeansHandled'
<1> USE LinkAssumption DEF Over
<1> DEFINE Grown == Over \subseteq Over' /\ reused \subseteq reused'
           Told == /\ \A c \in Clis : cli'[c] = "wait" => cli[c] = "wait"
                   /\ \A c \in Clis : cli'[c] = "ok" => cli[c] = "ok"
                   /\ \A c \in Askers : cli'[c] = "calling" /\ reply'[c] = "ok" =>
                                          cli[c] = "calling" /\ reply[c] = "ok"
           Good == ToldInv' /\ OkMeansHandled'
<1>0. Askers \subseteq Clis /\ Showers \subseteq Clis
  BY DEF Clis
<1>1. ASSUME Grown, UNCHANGED asked, Told PROVE Good
  BY <1>1 DEF OkInv, ToldInv, OkMeansHandled
<1>2. ASSUME NEW d \in Clis, \E k : k # "ok" /\ Answer(d, k), UNCHANGED cli PROVE Told
  BY <1>0, <1>2 DEF Answer, TypeInv, Types
<1>3. ASSUME UNCHANGED <<cli, reply>> PROVE Told
  BY <1>3
<1>4. CASE SendSnapshot \/ SendHeartbeat \/ Resume \/ PollFrame \/ Connecting \/ PushSnapshot \/ PushEvent
  <2>1. UNCHANGED <<cli, reply, Over, asked, reused>>
    BY <1>4 DEF SendSnapshot, SendHeartbeat, Resume, PollFrame, Connecting, Connect, ReadHello, NoHello, Greet,
       PushSnapshot, PushEvent, cliVars, history
  <2>2. QED
    BY <1>1, <1>3, <2>1
<1>5. CASE Device \/ SayHello \/ GoStale \/ Reset \/ Unplug \/ Plug
  <2>1. UNCHANGED <<cli, reply, asked, reused>> /\ Over \subseteq Over'
    BY <1>5 DEF Device, HandleEvent, TakeRequest, Respond, SayHello, GoStale, Reset, Unplug, Plug, cliVars, history
  <2>2. QED
    BY <1>1, <1>3, <2>1
<1>6. CASE RequestFails
  <2>1. worker.by \in Clis
    BY <1>0, <1>6 DEF RequestFails, WorkerAt, TypeInv, RelayInv
  <2>2. Told
    BY <1>2, <1>6, <2>1 DEF RequestFails
  <2>3. QED
    BY <1>1, <1>6, <2>2 DEF RequestFails, history
<1>7. CASE Offline
  <2>1. Front \in Given
    BY <1>7, TakenOff DEF Offline, Front, TypeInv, Types
  <2>2. Front.kind = "rpc" => Front.by \in Clis
    BY <1>0, <2>1 DEF Given
  <2>3. Told
    BY <1>2, <1>3, <1>7, <2>2 DEF Offline
  <2>4. QED
    BY <1>1, <1>7, <2>3 DEF Offline, history
<1>8. CASE Pause
  <2>1. Front \in Given /\ Front.kind = "pause"
    BY <1>8, TakenOff DEF Pause, Front, TypeInv, Types
  <2>2. Front.by \in Showers /\ Front.by \notin Askers
    BY <2>1 DEF Given
  <2>3. UNCHANGED <<cli, Over, asked, reused>> /\ reply' = [reply EXCEPT ![Front.by] = "ok"]
    BY <1>8 DEF Pause, Answer, history
  <2>4. Told
    BY <1>0, <2>2, <2>3 DEF TypeInv, Types
  <2>5. QED
    BY <1>1, <2>3, <2>4
<1>9. CASE PushRequest
  <2>1. /\ Front \in Given /\ Front.kind = "rpc"
        /\ 1 \in 1..Len(commands) /\ Front = commands[1]
    BY <1>9, TakenOff DEF PushRequest, Front, TypeInv, Types
  <2>2. Front.by \in Askers /\ Front.by \in Clis
    BY <1>0, <2>1 DEF Given
  <2>3. cli[Front.by] = "calling" /\ reply[Front.by] = None
    BY <2>1, <2>2 DEF TypeInv, RelayInv, IsRpc
  <2>4. UNCHANGED <<cli, Over>>
    BY <1>9 DEF PushRequest
  <2>5. CASE Ask(worker.id, Front.by) /\ UNCHANGED reply
    <3>1. reused \subseteq reused'
      BY <2>5 DEF Ask
    <3>2. \A c \in Clis : c # Front.by => asked'[c] = asked[c]
      BY <2>5 DEF Ask, TypeInv, Types
    <3>3. reply[Front.by] # "ok" /\ cli[Front.by] # "wait" /\ cli[Front.by] # "ok"
      BY <2>3
    <3>4. \A c \in Clis : cli[c] = "wait" => asked'[c] = 1
      BY <3>2, <3>3 DEF OkInv, ToldInv
    <3>5. \A c \in Askers : cli[c] = "calling" /\ reply[c] = "ok" => c \in Over \/ asked'[c] \in reused'
      BY <1>0, <3>1, <3>2, <3>3 DEF OkInv, ToldInv
    <3>6. \A c \in Clis : cli[c] = "ok" => c \in Over \/ asked'[c] \in reused'
      BY <3>1, <3>2, <3>3 DEF OkInv, OkMeansHandled
    <3>7. QED
      BY <2>4, <2>5, <3>4, <3>5, <3>6 DEF ToldInv, OkMeansHandled
  <2>6. CASE Answer(Front.by, "error") /\ UNCHANGED <<asked, reused>>
    BY <1>1, <1>2, <2>2, <2>4, <2>6
  <2>7. QED
    BY <1>9, <2>5, <2>6 DEF PushRequest
<1>10. CASE ReadReply
  <2>1. /\ worker.at = "rpc" /\ up # <<>>
        /\ UNCHANGED <<cli, Over, asked, reused>>
        /\ \/ Head(up).id = worker.id - 1 /\ Answer(worker.by, Head(up).kind)
           \/ UNCHANGED reply
    BY <1>10 DEF ReadReply, WorkerAt, history
  <2>2. CASE UNCHANGED reply
    BY <1>1, <1>3, <2>1, <2>2
  <2>3. CASE Head(up).id = worker.id - 1 /\ Answer(worker.by, Head(up).kind)
    <3>1. /\ worker.by \in Askers /\ worker.by \in Clis /\ worker.id \in Nat /\ worker.id >= 2
          /\ asked[worker.by] = worker.id - 1
      BY <1>0, <2>1 DEF TypeInv, Types, RelayInv
    <3>2. 1 \in 1..Len(up) /\ Head(up) = up[1]
      BY <2>1, TakenOff DEF TypeInv, Types
    <3>3. Awaits(worker.by, worker.id - 1) /\ Head(up).id # 0
      BY <2>1, <2>3, <3>1 DEF Awaits
    <3>4. worker.by \in Over \/ asked[worker.by] \in reused
      BY <2>3, <3>1, <3>2, <3>3 DEF OkInv, OwnInv
    <3>5. \A c \in Clis : c # worker.by => reply'[c] = reply[c]
      BY <2>3 DEF Answer, TypeInv, Types
    <3>6. QED
      BY <2>1, <3>4, <3>5, <1>0 DEF OkInv, ToldInv, OkMeansHandled
  <2>4. QED
    BY <2>1, <2>2, <2>3
<1>11. ASSUME NEW c \in Clis, Call(c) PROVE Good
  <2>1. /\ cli[c] = "start" /\ cli' = [cli EXCEPT ![c] = "calling"]
        /\ UNCHANGED <<reply, Over, asked, reused>>
    BY <1>11 DEF Call, CliAt, Step, history
  <2>2. c \in Askers => reply[c] = None
    BY <2>1 DEF TypeInv, RelayInv
  <2>3. Told
    BY <1>0, <2>1, <2>2 DEF TypeInv, Types
  <2>4. QED
    BY <1>1, <2>1, <2>3
<1>12. ASSUME NEW c \in Clis, Called(c) PROVE Good
  <2>1. /\ cli[c] = "calling"
        /\ UNCHANGED <<reply, Over, asked, reused>>
        /\ cli' = [cli EXCEPT ![c] = IF c \in Askers /\ reply[c] = "ok" THEN "ok" ELSE "connect"]
    BY <1>12 DEF Called, CliAt, Step, history
  <2>2. CASE c \in Askers /\ reply[c] = "ok"
    <3>1. c \in Over \/ asked[c] \in reused
      BY <2>1, <2>2 DEF OkInv, ToldInv
    <3>2. \A d \in Clis : IF d = c THEN cli'[d] = "ok" ELSE cli'[d] = cli[d]
      BY <2>1, <2>2 DEF TypeInv, Types
    <3>3. QED
      BY <1>0, <2>1, <3>1, <3>2 DEF OkInv, ToldInv, OkMeansHandled
  <2>3. CASE ~(c \in Askers /\ reply[c] = "ok")
    <3>1. Told
      BY <1>0, <2>1, <2>3 DEF TypeInv, Types
    <3>2. QED
      BY <1>1, <2>1, <3>1
  <2>4. QED
    BY <2>2, <2>3
<1>13. ASSUME NEW c \in Clis, OpenPort(c) \/ AwaitHello(c) \/ WriteEvent(c) \/ Fail(c) PROVE Good
  <2>1. UNCHANGED <<reply, Over, asked, reused>>
    BY <1>13 DEF OpenPort, AwaitHello, WriteEvent, Fail, history
  <2>2. cli' = cli \/ \E s \in {"hello", "write", "ask", "failed"} : cli' = [cli EXCEPT ![c] = s]
    BY <1>13 DEF OpenPort, AwaitHello, WriteEvent, Fail, Step, End
  <2>3. Told
    BY <1>0, <2>1, <2>2 DEF TypeInv, Types
  <2>4. QED
    BY <1>1, <2>1, <2>3
<1>14. ASSUME NEW c \in Clis, WriteRequest(c) PROVE Good
  <2>1. /\ UNCHANGED <<reply, Over>> /\ reused \subseteq reused'
        /\ cli' = [cli EXCEPT ![c] = "wait"] /\ asked' = [asked EXCEPT ![c] = 1]
    BY <1>14 DEF WriteRequest, Ask, Step
  <2>2. \A d \in Clis : IF d = c THEN cli'[d] = "wait" /\ asked'[d] = 1
                        ELSE cli'[d] = cli[d] /\ asked'[d] = asked[d]
    BY <2>1 DEF TypeInv, Types
  <2>3. \A d \in Clis : cli'[d] = "wait" => asked'[d] = 1
    BY <2>2 DEF OkInv, ToldInv
  <2>4. \A d \in Askers : cli'[d] = "calling" /\ reply'[d] = "ok" => d \in Over' \/ asked'[d] \in reused'
    BY <1>0, <2>1, <2>2 DEF OkInv, ToldInv
  <2>5. \A d \in Clis : cli'[d] = "ok" => d \in Over' \/ asked'[d] \in reused'
    BY <2>1, <2>2 DEF OkInv, OkMeansHandled
  <2>6. QED
    BY <2>3, <2>4, <2>5 DEF ToldInv, OkMeansHandled
<1>15. ASSUME NEW c \in Clis, AwaitReply(c) PROVE Good
  <2>1. /\ cli[c] = "wait" /\ up # <<>>
        /\ UNCHANGED <<reply, Over, asked, reused>>
        /\ \/ Head(up).id = 1 /\ \E s \in {"ok", "failed"} : cli' = [cli EXCEPT ![c] = s]
           \/ UNCHANGED cli
    BY <1>15 DEF AwaitReply, CliAt, End, Step, history
  <2>2. CASE UNCHANGED cli
    BY <1>1, <1>3, <2>1, <2>2
  <2>3. CASE Head(up).id = 1 /\ \E s \in {"ok", "failed"} : cli' = [cli EXCEPT ![c] = s]
    <3>1. 1 \in 1..Len(up) /\ Head(up) = up[1]
      BY <2>1, TakenOff DEF TypeInv, Types
    <3>2. Awaits(c, 1) /\ asked[c] = 1
      BY <2>1 DEF Awaits, OkInv, ToldInv
    <3>3. c \in Over \/ asked[c] \in reused
      BY <2>3, <3>1, <3>2 DEF OkInv, OwnInv
    <3>4. \A d \in Clis : IF d = c THEN cli'[d] \in {"ok", "failed"} ELSE cli'[d] = cli[d]
      BY <2>3 DEF TypeInv, Types
    <3>5. QED
      BY <1>0, <2>1, <3>3, <3>4 DEF OkInv, ToldInv, OkMeansHandled
  <2>4. QED
    BY <2>1, <2>2, <2>3
<1>16. CASE UNCHANGED vars
  BY <1>1, <1>3, <1>16 DEF vars, cliVars, history
<1>17. QED
  BY <1>4, <1>5, <1>6, <1>7, <1>8, <1>9, <1>10, <1>11, <1>12, <1>13, <1>14, <1>15, <1>16
     DEF Next, Polling, Cli

\* A command that reports success did what it says, unless the id of its
\* request was in use twice at a time or the device restarted with its update
\* on the line: run_request() and send_protocol_event_direct() with perform_rpc().
THEOREM OkIsHandled == Spec => []OkMeansHandled
<1>1. Init => OkInv
  <2> SUFFICES ASSUME Init PROVE OkInv
    OBVIOUS
  <2>1. Len(down) = 0 /\ Len(up) = 0 /\ busy = None /\ \A c \in Clis : cli[c] = "start"
    BY DEF Init
  <2>2. OwnInv /\ ShowInv
    BY <2>1, LinkAssumption DEF OwnInv, ShowInv, Clis
  <2>3. ToldInv /\ OkMeansHandled
    BY <2>1 DEF ToldInv, OkMeansHandled, Clis
  <2>4. QED
    BY <2>2, <2>3 DEF OkInv
<1>2. TypeInv /\ OkInv /\ [Next]_vars => OkInv'
  BY OwnNext, ShowNext, ToldNext DEF OkInv
<1>3. OkInv => OkMeansHandled
  BY DEF OkInv
<1>4. QED
  BY <1>1, <1>2, <1>3, Typed, PTL DEF Spec
=============================================================================
