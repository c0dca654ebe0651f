-------------------------- MODULE UiControlProofs --------------------------
(***************************************************************************)
(* Proofs about UiControl, for any number of requesters, any queue length  *)
(* and any id width: a call that returns a reply returns its own result,   *)
(* and no reply is lost while its caller still waits.                      *)
(*                                                                         *)
(* Neither property is inductive.  They hold because the id of a request   *)
(* in flight is a function of its age (IdOf), so that within the id window *)
(* equal ids mean the same request, and because the queue is FIFO, so that *)
(* nothing of the caller is left in the channel once its latest request    *)
(* has been answered.                                                      *)
(***************************************************************************)
EXTENDS UiControl, SequenceTheorems, TLAPS

\* The id that request n drew, of c requests, with the counter at q.
IdOf(n, c, q) == IF c - n < q THEN q - (c - n) ELSE q - (c - n) + MaxId

\* Request n is in the window and bears its id.
Young(n, id, c, q) == n \in 1..c /\ c - n < MaxId /\ id = IdOf(n, c, q)

InFlight(n, id) == Young(n, id, calls, seq)

InChannel(r) ==
  IF r.waiter = NoTask THEN r.n = 0 ELSE InFlight(r.n, r.id)

Executed(n, code) == \E x \in ran : x.n = n /\ Truncate(x.err) = code

\* The counter has left 0 once an id was drawn.
SeqInv == calls > 0 => seq > 0

QueueInv == \A i \in 1..Len(ctl) : InChannel(ctl[i])

CurInv ==
  /\ cur # NoRequest => InChannel(cur)
  /\ curErr # Running =>
       /\ cur # NoRequest
       /\ cur.waiter # NoTask => [n |-> cur.n, err |-> curErr] \in ran

MineInv ==
  \A t \in Requesters : pc[t] # "idle" =>
    /\ mine[t] \in Request
    /\ mine[t].waiter = t
    /\ InFlight(mine[t].n, mine[t].id)

NoteInv ==
  \A t \in Requesters : notify[t] # NoNote =>
    /\ Executed(notify[t].n, notify[t].err)
    /\ pc[t] # "idle" => InFlight(notify[t].n, notify[t].id)

\* Where the answer of a waiting call is; the FIFO order of the queue puts
\* every older request of the same task before it.
NoneFrom(t, i) == \A j \in 1..Len(ctl) : j > i => ctl[j].waiter # t

InQueue(t) == \E i \in 1..Len(ctl) : ctl[i] = mine[t] /\ NoneFrom(t, i)
InService(t) == cur = mine[t] /\ NoneFrom(t, 0)
InNote(t) ==
  /\ notify[t] # NoNote
  /\ notify[t].n = mine[t].n
  /\ cur # NoRequest => cur.waiter # t
  /\ NoneFrom(t, 0)

AnswerInv ==
  \A t \in Requesters :
    pc[t] = "waiting" => InQueue(t) \/ InService(t) \/ InNote(t)

IInv ==
  /\ TypeOK
  /\ SeqInv
  /\ QueueInv
  /\ CurInv
  /\ MineInv
  /\ NoteInv
  /\ AnswerInv
  /\ ReplyIsOwn

(***************************************************************************)
(* Facts about the operators.                                              *)
(***************************************************************************)

NextAfter(q) == IF q = MaxId THEN 1 ELSE q + 1

\* In the window an id belongs to one request.
LEMMA IdsDistinct ==
  ASSUME NEW c \in Nat, NEW q \in 0..MaxId, NEW m, NEW n, NEW id,
         Young(m, id, c, q), Young(n, id, c, q)
  PROVE  m = n
  BY CtlAssumption DEF CtlConstants, Young, IdOf

\* Drawing an id keeps the ids of the requests that stay in the window.
LEMMA DrawKeepsIds ==
  ASSUME NEW c \in Nat, NEW q \in 0..MaxId, NEW n, NEW id,
         Young(n, id, c, q), c + 1 - n < MaxId
  PROVE  Young(n, id, c + 1, NextAfter(q))
  <1>1. n \in Nat /\ n >= 1 /\ n <= c
    BY DEF Young
  <1>2. CASE q = MaxId
    BY <1>1, <1>2, CtlAssumption DEF CtlConstants, Young, IdOf, NextAfter
  <1>3. CASE q # MaxId
    BY <1>1, <1>3, CtlAssumption DEF CtlConstants, Young, IdOf, NextAfter
  <1> QED BY <1>2, <1>3

\* The request that draws is in the window, under the id it drew.
LEMMA DrawnIsYoung ==
  ASSUME NEW c \in Nat, NEW q \in 0..MaxId
  PROVE  /\ NextAfter(q) \in 1..MaxId
         /\ Young(c + 1, NextAfter(q), c + 1, NextAfter(q))
  BY CtlAssumption DEF CtlConstants, Young, IdOf, NextAfter

LEMMA Constants ==
  /\ CtlQueueLen \in Nat \ {0}
  /\ MaxId \in Nat \ {0, 1}
  /\ Results \subseteq Int
  /\ NoTask \notin Requesters
  /\ Running \notin Results
  BY CtlAssumption DEF CtlConstants

LEMMA TruncateType == \A e \in Int : Truncate(e) \in Codes
  BY DEF Truncate, Codes

LEMMA TimeoutType == Timeout \in Codes
  BY DEF Timeout, Codes

LEMMA RequestFields ==
  ASSUME NEW r \in Request
  PROVE  r.n \in Nat /\ r.id \in 0..MaxId /\ r.waiter \in Requesters \cup {NoTask}
  BY DEF Request, Tasks

LEMMA RequestIs ==
  ASSUME NEW n \in Nat, NEW id \in 0..MaxId, NEW op \in Ops,
         NEW w \in Requesters \cup {NoTask}
  PROVE  [n |-> n, id |-> id, waiter |-> w, op |-> op] \in Request
  BY DEF Request, Tasks

LEMMA NoteFields ==
  ASSUME NEW x \in Note
  PROVE  x.n \in Nat /\ x.id \in 0..MaxId /\ x.err \in Codes
  BY DEF Note

LEMMA NoteIs ==
  ASSUME NEW n \in Nat, NEW id \in 0..MaxId, NEW e \in Codes
  PROVE  [n |-> n, id |-> id, err |-> e] \in Note
  BY DEF Note

LEMMA ReturnedIs ==
  ASSUME NEW n \in Nat, NEW f \in {"reply", "gave_up"}, NEW e \in Codes
  PROVE  [n |-> n, from |-> f, err |-> e] \in Returned
  BY DEF Returned

(***************************************************************************)
(* Type correctness.                                                       *)
(***************************************************************************)
LEMMA TypeStep == TypeOK /\ [Next]_ctlVars => TypeOK'
  <1> SUFFICES ASSUME TypeOK, [Next]_ctlVars PROVE TypeOK'
    OBVIOUS
  <1> USE Constants
  <1>1. ASSUME NEW t \in Requesters, NEW op \in Ops, Call(t, op)
        PROVE  TypeOK'
    <2>1. NextId \in 1..MaxId
      BY DEF NextId, TypeOK
    <2>2. [n |-> calls + 1, id |-> NextId, waiter |-> t, op |-> op] \in Request
      BY <2>1, RequestIs DEF TypeOK
    <2>3. mine' \in [Requesters -> Request \cup {NoRequest}] /\ mine'[t] \in Request
      BY <1>1, <2>2 DEF Call, TypeOK
    <2>4. \A u \in Requesters : pc'[u] # "idle" => mine'[u] # NoRequest
      BY <1>1, <2>3, CtlAssumption DEF CtlConstants, Call, TypeOK
    <2> QED BY <1>1, <2>1, <2>3, <2>4 DEF Call, TypeOK
  <1>2. ASSUME NEW t \in Requesters, Send(t) PROVE TypeOK'
    <2>1. mine[t] \in Request
      BY <1>2 DEF Send, TypeOK
    <2> QED BY <1>2, <2>1 DEF Send, TypeOK
  <1>3. ASSUME NEW t \in Requesters, GiveUp(t), pc[t] # "idle", mine' = mine
        PROVE  /\ pc' \in [Requesters -> {"idle", "sending", "waiting"}]
               /\ \A u \in Requesters : pc'[u] # "idle" => mine'[u] # NoRequest
               /\ result' \in [Requesters -> Returned \cup {NoResult}]
    <2>1. mine[t] \in Request
      BY <1>3 DEF TypeOK
    <2>2. [n |-> mine[t].n, from |-> "gave_up", err |-> Timeout] \in Returned
      BY <2>1, RequestFields, ReturnedIs, TimeoutType
    <2> QED BY <1>3, <2>2 DEF GiveUp, TypeOK
  <1>4. ASSUME NEW t \in Requesters, SendTimeout(t) PROVE TypeOK'
    <2>1. GiveUp(t) /\ pc[t] # "idle" /\ mine' = mine
      BY <1>4 DEF SendTimeout
    <2> QED BY <1>3, <1>4, <2>1 DEF SendTimeout, TypeOK
  <1>5. ASSUME NEW t \in Requesters, Accept(t) PROVE TypeOK'
    <2>1. mine[t] \in Request /\ notify[t] \in Note
      BY <1>5 DEF Accept, TypeOK
    <2>2. mine[t].n \in Nat /\ notify[t].err \in Codes
      BY <2>1, RequestFields, NoteFields
    <2>3. [n |-> mine[t].n, from |-> "reply", err |-> notify[t].err] \in Returned
      BY <2>2, ReturnedIs
    <2> QED BY <1>5, <2>3 DEF Accept, TypeOK
  <1>6. ASSUME NEW t \in Requesters, DiscardStale(t) PROVE TypeOK'
    BY <1>6 DEF DiscardStale, TypeOK
  <1>7. ASSUME NEW t \in Requesters, GiveUpAfterStale(t) PROVE TypeOK'
    <2>1. GiveUp(t) /\ pc[t] # "idle" /\ mine' = mine
      BY <1>7 DEF GiveUpAfterStale
    <2> QED BY <1>3, <1>7, <2>1 DEF GiveUpAfterStale, TypeOK
  <1>8. ASSUME NEW t \in Requesters, WaitTimeout(t) PROVE TypeOK'
    <2>1. GiveUp(t) /\ pc[t] # "idle" /\ mine' = mine
      BY <1>8 DEF WaitTimeout
    <2> QED BY <1>3, <1>8, <2>1 DEF WaitTimeout, TypeOK
  <1>9. ASSUME NEW op \in Ops, Post(op) PROVE TypeOK'
    <2>1. [n |-> 0, id |-> 0, waiter |-> NoTask, op |-> op] \in Request
      BY RequestIs
    <2> QED BY <1>9, <2>1 DEF Post, TypeOK
  <1>10. ASSUME Take PROVE TypeOK'
    <2>1. /\ Head(ctl) \in Request
          /\ Tail(ctl) \in Seq(Request)
          /\ Len(Tail(ctl)) = Len(ctl) - 1
      BY <1>10, HeadTailProperties DEF Take, TypeOK
    <2>2. Len(ctl) - 1 <= CtlQueueLen
      BY DEF TypeOK
    <2> QED BY <1>10, <2>1, <2>2 DEF Take, TypeOK
  <1>11. ASSUME NEW err \in Results, Execute(err) PROVE TypeOK'
    <2>1. cur \in Request
      BY <1>11 DEF Execute, TypeOK
    <2>2. [n |-> cur.n, err |-> err] \in [n : Nat, err : Results]
      BY <2>1, RequestFields
    <2> QED BY <1>11, <2>2 DEF Execute, TypeOK
  <1>12. ASSUME Reply PROVE TypeOK'
    <2>1. CASE cur.waiter = NoTask
      BY <1>12, <2>1 DEF Reply, TypeOK
    <2>2. CASE cur.waiter # NoTask
      <3>1. cur \in Request /\ curErr \in Int
        BY <1>12 DEF Reply, TypeOK
      <3>2. cur.n \in Nat /\ cur.id \in 0..MaxId /\ cur.waiter \in Requesters
        BY <3>1, <2>2, RequestFields
      <3>3. [n |-> cur.n, id |-> cur.id, err |-> Truncate(curErr)] \in Note
        BY <3>1, <3>2, TruncateType, NoteIs
      <3> QED BY <1>12, <2>2, <3>2, <3>3 DEF Reply, TypeOK
    <2> QED BY <2>1, <2>2
  <1>13. ASSUME UNCHANGED ctlVars PROVE TypeOK'
    BY <1>13 DEF ctlVars, TypeOK
  <1> QED
    BY <1>1, <1>2, <1>4, <1>5, <1>6, <1>7, <1>8, <1>9, <1>10, <1>11, <1>12,
       <1>13 DEF Next, Requester, Lvgl

(***************************************************************************)
(* The other parts of the invariant, one lemma each.                       *)
(***************************************************************************)
LEMMA SeqStep == TypeOK /\ SeqInv /\ [Next]_ctlVars => SeqInv'
  <1> SUFFICES ASSUME TypeOK, SeqInv, [Next]_ctlVars PROVE SeqInv'
    OBVIOUS
  <1>1. ASSUME NEW t \in Requesters, NEW op \in Ops, Call(t, op) PROVE SeqInv'
    BY <1>1, Constants DEF Call, SeqInv, TypeOK, NextId
  <1>2. CASE UNCHANGED <<seq, calls>>
    BY <1>2 DEF SeqInv
  <1> QED
    BY <1>1, <1>2 DEF Next, Requester, Lvgl, ctlVars, Send, SendTimeout, Accept,
       DiscardStale, GiveUpAfterStale, WaitTimeout, Post, Take, Execute, Reply

\* What a call's draw does to the requests the id window looks at.
LEMMA CallKeepsInFlight ==
  ASSUME TypeOK, NEW t \in Requesters, NEW op \in Ops, Call(t, op),
         NEW n \in Outstanding(t), NEW id, InFlight(n, id)
  PROVE  InFlight(n, id)'
  <1>1. calls + 1 - n < MaxId /\ calls' = calls + 1 /\ seq' = NextAfter(seq)
    BY DEF Call, IdWindow, NextId, NextAfter
  <1>2. calls \in Nat /\ seq \in 0..MaxId
    BY DEF TypeOK
  <1>3. Young(n, id, calls + 1, NextAfter(seq))
    BY <1>1, <1>2, DrawKeepsIds DEF InFlight
  <1> QED BY <1>1, <1>3 DEF InFlight

LEMMA OthersKeepInFlight ==
  ASSUME NEW n, NEW id, UNCHANGED <<seq, calls>>
  PROVE  InFlight(n, id)' <=> InFlight(n, id)
  BY DEF InFlight

LEMMA QueueStep == TypeOK /\ QueueInv /\ CurInv /\ MineInv /\ [Next]_ctlVars => QueueInv'
  <1> SUFFICES ASSUME TypeOK, QueueInv, MineInv, [Next]_ctlVars PROVE QueueInv'
    OBVIOUS
  <1>1. ASSUME NEW t \in Requesters, NEW op \in Ops, Call(t, op) PROVE QueueInv'
    <2> SUFFICES ASSUME NEW i \in 1..Len(ctl) PROVE InChannel(ctl[i])'
      BY <1>1 DEF QueueInv, Call
    <2>1. InChannel(ctl[i])
      BY DEF QueueInv
    <2>2. CASE ctl[i].waiter # NoTask
      <3>1. ctl[i].n \in Outstanding(t)
        BY <2>2 DEF Outstanding
      <3> QED BY <1>1, <2>1, <2>2, <3>1, CallKeepsInFlight DEF InChannel, Call
    <2>3. CASE ctl[i].waiter = NoTask
      BY <1>1, <2>1, <2>3 DEF InChannel, Call
    <2> QED BY <2>2, <2>3
  <1>2. ASSUME NEW t \in Requesters, Send(t) PROVE QueueInv'
    <2>1. mine[t] \in Request /\ InChannel(mine[t])
      BY <1>2, Constants DEF Send, MineInv, InChannel
    <2>2. \A r : InChannel(r)' <=> InChannel(r)
      BY <1>2 DEF Send, InChannel, InFlight
    <2>3. \A i \in 1..Len(ctl') : ctl'[i] = IF i <= Len(ctl) THEN ctl[i] ELSE mine[t]
      BY <1>2, <2>1 DEF Send, TypeOK
    <2> QED BY <2>1, <2>2, <2>3 DEF QueueInv, TypeOK
  <1>3. ASSUME NEW op \in Ops, Post(op) PROVE QueueInv'
    <2> DEFINE r == [n |-> 0, id |-> 0, waiter |-> NoTask, op |-> op]
    <2>1. r \in Request /\ InChannel(r)
      BY Constants, RequestIs DEF InChannel
    <2>2. \A x : InChannel(x)' <=> InChannel(x)
      BY <1>3 DEF Post, InChannel, InFlight
    <2>3. \A i \in 1..Len(ctl') : ctl'[i] = IF i <= Len(ctl) THEN ctl[i] ELSE r
      BY <1>3, <2>1 DEF Post, TypeOK
    <2> QED BY <2>1, <2>2, <2>3 DEF QueueInv, TypeOK
  <1>4. ASSUME Take PROVE QueueInv'
    <2>1. \A i \in 1..Len(ctl') : i + 1 \in 1..Len(ctl) /\ ctl'[i] = ctl[i + 1]
      BY <1>4, HeadTailProperties DEF Take, TypeOK
    <2>2. \A r : InChannel(r)' <=> InChannel(r)
      BY <1>4 DEF Take, InChannel, InFlight
    <2> QED BY <2>1, <2>2 DEF QueueInv
  <1>5. CASE UNCHANGED <<seq, calls, ctl>>
    <2>2. \A r : InChannel(r)' <=> InChannel(r)
      BY <1>5 DEF InChannel, InFlight
    <2> QED BY <1>5, <2>2 DEF QueueInv
  <1> QED
    BY <1>1, <1>2, <1>3, <1>4, <1>5 DEF Next, Requester, Lvgl, ctlVars,
       SendTimeout, Accept, DiscardStale, GiveUpAfterStale, WaitTimeout,
       Execute, Reply

LEMMA CurStep == TypeOK /\ QueueInv /\ CurInv /\ [Next]_ctlVars => CurInv'
  <1> SUFFICES ASSUME TypeOK, QueueInv, CurInv, [Next]_ctlVars PROVE CurInv'
    OBVIOUS
  <1>1. ASSUME NEW t \in Requesters, NEW op \in Ops, Call(t, op) PROVE CurInv'
    <2>1. cur # NoRequest => InChannel(cur)'
      <3> SUFFICES ASSUME cur # NoRequest PROVE InChannel(cur)'
        OBVIOUS
      <3>1. InChannel(cur)
        BY DEF CurInv
      <3>2. CASE cur.waiter # NoTask
        <4>1. cur.n \in Outstanding(t)
          BY <3>2 DEF Outstanding
        <4> QED BY <1>1, <3>1, <3>2, <4>1, CallKeepsInFlight DEF InChannel, Call
      <3>3. CASE cur.waiter = NoTask
        BY <1>1, <3>1, <3>3 DEF InChannel, Call
      <3> QED BY <3>2, <3>3
    <2> QED BY <1>1, <2>1 DEF CurInv, Call
  <1>2. ASSUME Take PROVE CurInv'
    <2>1. Head(ctl) = ctl[1] /\ 1 \in 1..Len(ctl)
      BY <1>2, EmptySeq DEF Take, TypeOK
    <2>2. InChannel(ctl[1])
      BY <2>1 DEF QueueInv
    <2>3. \A r : InChannel(r)' <=> InChannel(r)
      BY <1>2 DEF Take, InChannel, InFlight
    <2>4. curErr = Running
      BY <1>2 DEF Take, CurInv
    <2> QED BY <1>2, <2>1, <2>2, <2>3, <2>4 DEF Take, CurInv
  <1>3. ASSUME NEW err \in Results, Execute(err) PROVE CurInv'
    <2>1. \A r : InChannel(r)' <=> InChannel(r)
      BY <1>3 DEF Execute, InChannel, InFlight
    <2> QED BY <1>3, <2>1 DEF Execute, CurInv
  <1>4. ASSUME Reply PROVE CurInv'
    BY <1>4 DEF Reply, CurInv
  <1>5. CASE UNCHANGED <<seq, calls, cur, curErr, ran>>
    <2>1. \A r : InChannel(r)' <=> InChannel(r)
      BY <1>5 DEF InChannel, InFlight
    <2> QED BY <1>5, <2>1 DEF CurInv
  <1> QED
    BY <1>1, <1>2, <1>3, <1>4, <1>5 DEF Next, Requester, Lvgl, ctlVars, Send,
       SendTimeout, Accept, DiscardStale, GiveUpAfterStale, WaitTimeout, Post

LEMMA MineStep == TypeOK /\ MineInv /\ [Next]_ctlVars => MineInv'
  <1> SUFFICES ASSUME TypeOK, MineInv, [Next]_ctlVars PROVE MineInv'
    OBVIOUS
  <1>1. ASSUME NEW t \in Requesters, NEW op \in Ops, Call(t, op) PROVE MineInv'
    <2>1. ASSUME NEW u \in Requesters, u # t, pc'[u] # "idle"
          PROVE  /\ mine'[u] \in Request
                 /\ mine'[u].waiter = u
                 /\ InFlight(mine[u].n, mine[u].id)'
      <3>1. pc[u] # "idle" /\ mine'[u] = mine[u]
        BY <1>1, <2>1 DEF Call, TypeOK
      <3>2. mine[u].n \in Outstanding(t)
        BY <2>1, <3>1 DEF Outstanding
      <3>3. InFlight(mine[u].n, mine[u].id)
        BY <3>1 DEF MineInv
      <3>4. PICK m, j : m = mine[u].n /\ j = mine[u].id
        OBVIOUS
      <3>5. InFlight(m, j)'
        BY <1>1, <3>2, <3>3, <3>4, CallKeepsInFlight
      <3> QED BY <3>1, <3>4, <3>5 DEF MineInv, InFlight
    <2>2. mine'[t] = [n |-> calls + 1, id |-> NextId, waiter |-> t, op |-> op]
      BY <1>1 DEF Call, TypeOK
    <2>3. /\ calls \in Nat /\ seq \in 0..MaxId
          /\ calls' = calls + 1 /\ seq' = NextAfter(seq) /\ NextId = NextAfter(seq)
      BY <1>1 DEF Call, TypeOK, NextId, NextAfter
    <2>4. mine'[t] \in Request /\ mine'[t].waiter = t
      BY <2>2, <2>3, DrawnIsYoung, RequestIs, Constants
    <2>5. Young(mine'[t].n, mine'[t].id, calls', seq')
      BY <2>2, <2>3, DrawnIsYoung
    <2>6. InFlight(mine[t].n, mine[t].id)'
      BY <2>5 DEF InFlight
    <2> QED BY <2>1, <2>4, <2>6 DEF MineInv
  <1>2. ASSUME UNCHANGED <<seq, calls, mine>>,
               \A t \in Requesters : pc'[t] # "idle" => pc[t] # "idle"
        PROVE  MineInv'
    BY <1>2 DEF MineInv, InFlight
  <1>3. ASSUME NEW t \in Requesters,
               \/ Send(t) \/ SendTimeout(t) \/ Accept(t) \/ DiscardStale(t)
               \/ GiveUpAfterStale(t) \/ WaitTimeout(t)
        PROVE  MineInv'
    BY <1>2, <1>3 DEF Send, SendTimeout, Accept, DiscardStale,
       GiveUpAfterStale, WaitTimeout, GiveUp, TypeOK
  <1>4. CASE UNCHANGED <<seq, calls, mine, pc>>
    BY <1>2, <1>4
  <1> QED
    BY <1>1, <1>3, <1>4 DEF Next, Requester, Lvgl, ctlVars, Post, Take,
       Execute, Reply

LEMMA NoteStep ==
  TypeOK /\ CurInv /\ NoteInv /\ [Next]_ctlVars => NoteInv'
  <1> SUFFICES ASSUME TypeOK, CurInv, NoteInv, [Next]_ctlVars PROVE NoteInv'
    OBVIOUS
  <1>1. ASSUME NEW t \in Requesters, NEW op \in Ops, Call(t, op) PROVE NoteInv'
    <2> SUFFICES ASSUME NEW u \in Requesters, notify'[u] # NoNote
                 PROVE  /\ Executed(notify[u].n, notify[u].err)'
                        /\ pc'[u] # "idle" => InFlight(notify[u].n, notify[u].id)'
      BY DEF NoteInv
    <2>1. u # t /\ notify'[u] = notify[u] /\ pc'[u] = pc[u] /\ ran' = ran
      BY <1>1 DEF Call, TypeOK
    <2>2. Executed(notify[u].n, notify[u].err)'
      BY <2>1 DEF NoteInv, Executed
    <2>3. ASSUME pc[u] # "idle" PROVE InFlight(notify[u].n, notify[u].id)'
      <3>1. notify[u].n \in Outstanding(t)
        BY <2>1, <2>3 DEF Outstanding
      <3>2. InFlight(notify[u].n, notify[u].id)
        BY <2>1, <2>3 DEF NoteInv
      <3>3. PICK m, j : m = notify[u].n /\ j = notify[u].id
        OBVIOUS
      <3>4. InFlight(m, j)'
        BY <1>1, <3>1, <3>2, <3>3, CallKeepsInFlight
      <3> QED BY <2>1, <3>3, <3>4 DEF InFlight
    <2> QED BY <2>1, <2>2, <2>3
  <1>2. ASSUME NEW err \in Results, Execute(err) PROVE NoteInv'
    BY <1>2 DEF Execute, NoteInv, Executed, InFlight
  <1>3. ASSUME Reply PROVE NoteInv'
    <2> SUFFICES ASSUME NEW u \in Requesters, notify'[u] # NoNote
                 PROVE  /\ Executed(notify[u].n, notify[u].err)'
                        /\ pc'[u] # "idle" => InFlight(notify[u].n, notify[u].id)'
      BY DEF NoteInv
    <2>0. UNCHANGED <<seq, calls, ran, pc>>
      BY <1>3 DEF Reply
    <2>1. CASE notify'[u] = notify[u]
      BY <2>0, <2>1 DEF NoteInv, Executed, InFlight
    <2>2. CASE notify'[u] # notify[u]
      <3>1. /\ cur.waiter # NoTask
            /\ cur # NoRequest
            /\ curErr # Running
            /\ notify'[u] = [n |-> cur.n, id |-> cur.id, err |-> Truncate(curErr)]
        BY <1>3, <2>2 DEF Reply, TypeOK
      <3>2. InFlight(cur.n, cur.id) /\ [n |-> cur.n, err |-> curErr] \in ran
        BY <3>1 DEF CurInv, InChannel
      <3>3. Executed(cur.n, Truncate(curErr))
        BY <3>2 DEF Executed
      <3> QED BY <2>0, <3>1, <3>2, <3>3 DEF Executed, InFlight
    <2> QED BY <2>1, <2>2
  <1>4. ASSUME UNCHANGED <<seq, calls, ran>>,
               \A u \in Requesters :
                 /\ notify'[u] \in {notify[u], NoNote}
                 /\ pc'[u] # "idle" => pc[u] # "idle"
        PROVE  NoteInv'
    BY <1>4 DEF NoteInv, Executed, InFlight
  <1>5. ASSUME NEW t \in Requesters,
               \/ Send(t) \/ SendTimeout(t) \/ Accept(t) \/ DiscardStale(t)
               \/ GiveUpAfterStale(t) \/ WaitTimeout(t)
        PROVE  NoteInv'
    BY <1>4, <1>5 DEF Send, SendTimeout, Accept, DiscardStale,
       GiveUpAfterStale, WaitTimeout, GiveUp, TypeOK
  <1>6. CASE UNCHANGED <<seq, calls, ran, notify, pc>>
    BY <1>4, <1>6
  <1> QED
    BY <1>1, <1>2, <1>3, <1>5, <1>6 DEF Next, Requester, Lvgl, ctlVars, Post,
       Take

LEMMA AnswerStep == IInv /\ [Next]_ctlVars => AnswerInv'
  <1> SUFFICES ASSUME IInv, [Next]_ctlVars,
                      NEW t \in Requesters, pc'[t] = "waiting"
               PROVE  (InQueue(t) \/ InService(t) \/ InNote(t))'
    BY DEF AnswerInv
  <1> USE DEF IInv
  <1>0. /\ cur \in Request \cup {NoRequest} /\ ctl \in Seq(Request)
        /\ Len(ctl) \in Nat /\ NoTask \notin Requesters
    BY Constants DEF TypeOK
  <1>1. ASSUME NEW u \in Requesters, Send(u)
        PROVE  (InQueue(t) \/ InService(t) \/ InNote(t))'
    <2>1. mine[u] \in Request /\ mine[u].waiter = u
      BY <1>1 DEF Send, MineInv
    <2>2. /\ Len(ctl') = Len(ctl) + 1
          /\ \A i \in 1..Len(ctl') : ctl'[i] = IF i <= Len(ctl) THEN ctl[i] ELSE mine[u]
      BY <1>0, <1>1, <2>1 DEF Send
    <2>3. CASE u = t
      <3>1. ctl'[Len(ctl')] = mine'[t] /\ Len(ctl') \in 1..Len(ctl')
        BY <1>0, <1>1, <2>2, <2>3 DEF Send
      <3>2. NoneFrom(t, Len(ctl))'
        BY <1>0, <2>2 DEF NoneFrom
      <3>3. InQueue(t)'
        BY <1>0, <3>1, <2>2 DEF InQueue, NoneFrom
      <3> QED BY <3>3
    <2>4. CASE u # t
      <3>1. \A i : NoneFrom(t, i) => NoneFrom(t, i)'
        BY <1>0, <2>1, <2>2, <2>4 DEF NoneFrom
      <3>2. pc[t] = "waiting" /\ UNCHANGED <<mine, cur, notify>>
        BY <1>1, <2>4 DEF Send, TypeOK
      <3>3. InQueue(t) => InQueue(t)'
        BY <1>0, <2>2, <3>1, <3>2 DEF InQueue
      <3> QED BY <3>1, <3>2, <3>3 DEF AnswerInv, InService, InNote
    <2> QED BY <2>3, <2>4
  <1>2. ASSUME NEW op \in Ops, Post(op)
        PROVE  (InQueue(t) \/ InService(t) \/ InNote(t))'
    <2> DEFINE r == [n |-> 0, id |-> 0, waiter |-> NoTask, op |-> op]
    <2>1. r \in Request /\ r.waiter # t
      BY <1>0, RequestIs, Constants
    <2>2. /\ Len(ctl') = Len(ctl) + 1
          /\ \A i \in 1..Len(ctl') : ctl'[i] = IF i <= Len(ctl) THEN ctl[i] ELSE r
      BY <1>0, <1>2, <2>1 DEF Post
    <2> HIDE DEF r
    <2>3. \A i : NoneFrom(t, i) => NoneFrom(t, i)'
      BY <1>0, <2>1, <2>2 DEF NoneFrom
    <2>4. pc[t] = "waiting" /\ UNCHANGED <<mine, cur, notify>>
      BY <1>2 DEF Post
    <2>5. InQueue(t) => InQueue(t)'
      BY <1>0, <2>2, <2>3, <2>4 DEF InQueue
    <2> QED BY <2>3, <2>4, <2>5 DEF AnswerInv, InService, InNote
  <1>3. ASSUME Take PROVE (InQueue(t) \/ InService(t) \/ InNote(t))'
    <2>1. /\ cur' = ctl[1] /\ cur = NoRequest /\ 1 \in 1..Len(ctl)
          /\ Len(ctl') = Len(ctl) - 1
          /\ \A i \in 1..Len(ctl') : ctl'[i] = ctl[i + 1]
      BY <1>0, <1>3, HeadTailProperties, EmptySeq DEF Take
    <2>2. pc[t] = "waiting" /\ UNCHANGED <<mine, notify>>
      BY <1>3 DEF Take
    <2>3. mine[t] # NoRequest
      BY <2>2 DEF TypeOK
    <2>4. ASSUME NEW i \in 1..Len(ctl), ctl[i] = mine[t], NoneFrom(t, i)
          PROVE  (InQueue(t) \/ InService(t))'
      <3>1. CASE i = 1
        <4>1. NoneFrom(t, 0)'
          BY <1>0, <2>1, <2>4, <3>1 DEF NoneFrom
        <4> QED BY <2>1, <2>2, <2>4, <3>1, <4>1 DEF InService
      <3>2. CASE i # 1
        <4>1. i - 1 \in 1..Len(ctl') /\ ctl'[i - 1] = mine'[t]
          BY <1>0, <2>1, <2>2, <2>4, <3>2
        <4>2. \A j \in 1..Len(ctl') : j > i - 1 => ctl'[j].waiter # t
          BY <1>0, <2>1, <2>4, <3>2 DEF NoneFrom
        <4> QED BY <4>1, <4>2 DEF InQueue, NoneFrom
      <3> QED BY <3>1, <3>2
    <2>5. CASE InNote(t)
      <3>1. \A j \in 1..Len(ctl) : ctl[j].waiter # t
        BY <1>0, <2>5 DEF InNote, NoneFrom
      <3>2. NoneFrom(t, 0)' /\ cur'.waiter # t
        BY <1>0, <2>1, <3>1 DEF NoneFrom
      <3> QED BY <2>2, <2>5, <3>2 DEF InNote
    <2>6. CASE InQueue(t)
      BY <2>4, <2>6 DEF InQueue
    <2> QED BY <2>1, <2>2, <2>3, <2>5, <2>6 DEF AnswerInv, InService
  <1>4. ASSUME Reply PROVE (InQueue(t) \/ InService(t) \/ InNote(t))'
    <2>1. /\ pc[t] = "waiting" /\ UNCHANGED <<mine, ctl>>
          /\ cur # NoRequest /\ cur' = NoRequest
      BY <1>4 DEF Reply
    <2>2. CASE InQueue(t)
      BY <2>1, <2>2 DEF InQueue, NoneFrom
    <2>3. CASE InService(t)
      <3>1. cur.waiter = t /\ cur.waiter # NoTask
        BY <1>0, <2>1, <2>3 DEF InService, MineInv
      <3>2. notify'[t] = [n |-> cur.n, id |-> cur.id, err |-> Truncate(curErr)]
        BY <1>4, <3>1 DEF Reply, TypeOK
      <3>3. [n |-> cur.n, id |-> cur.id, err |-> Truncate(curErr)] \in Note
        <4>1. cur \in Request /\ curErr \in Int
          BY <1>4, Constants DEF Reply, TypeOK
        <4> QED BY <4>1, RequestFields, TruncateType, NoteIs
      <3>4. notify'[t] # NoNote
        BY <3>2, <3>3, CtlAssumption DEF CtlConstants
      <3> QED BY <2>1, <2>3, <3>2, <3>4 DEF InService, InNote, NoneFrom
    <2>4. CASE InNote(t)
      <3>1. notify'[t] = notify[t]
        BY <1>4, <2>1, <2>4 DEF Reply, InNote, TypeOK
      <3> QED BY <2>1, <2>4, <3>1 DEF InNote, NoneFrom
    <2> QED BY <2>1, <2>2, <2>3, <2>4 DEF AnswerInv
  <1>5. ASSUME NEW u \in Requesters, DiscardStale(u)
        PROVE  (InQueue(t) \/ InService(t) \/ InNote(t))'
    <2>1. pc[t] = "waiting" /\ UNCHANGED <<mine, ctl, cur>>
      BY <1>5 DEF DiscardStale
    <2>2. CASE InNote(t)
      <3>1. u # t
        <4> SUFFICES ASSUME u = t PROVE FALSE
          OBVIOUS
        <4>1. /\ InFlight(notify[t].n, notify[t].id)
              /\ InFlight(mine[t].n, mine[t].id)
              /\ notify[t].n = mine[t].n
              /\ notify[t].id # mine[t].id
          BY <1>5, <2>1, <2>2 DEF DiscardStale, NoteInv, MineInv, InNote
        <4> QED BY <4>1 DEF InFlight, Young
      <3>2. notify'[t] = notify[t]
        BY <1>5, <3>1 DEF DiscardStale, TypeOK
      <3> QED BY <2>1, <2>2, <3>2 DEF InNote, NoneFrom
    <2> QED BY <2>1, <2>2 DEF AnswerInv, InQueue, InService, NoneFrom
  <1>6. ASSUME UNCHANGED <<ctl, cur>>, pc[t] = "waiting",
               mine'[t] = mine[t], notify'[t] = notify[t]
        PROVE  (InQueue(t) \/ InService(t) \/ InNote(t))'
    BY <1>6 DEF AnswerInv, InQueue, InService, InNote, NoneFrom
  <1>7. ASSUME NEW u \in Requesters,
               \/ \E op \in Ops : Call(u, op)
               \/ SendTimeout(u) \/ Accept(u) \/ GiveUpAfterStale(u)
               \/ WaitTimeout(u)
        PROVE  (InQueue(t) \/ InService(t) \/ InNote(t))'
    <2>1. u # t
      BY <1>7 DEF Call, SendTimeout, Accept, GiveUpAfterStale, WaitTimeout,
         GiveUp, TypeOK
    <2> QED
      BY <1>6, <1>7, <2>1 DEF Call, SendTimeout, Accept, GiveUpAfterStale,
         WaitTimeout, GiveUp, TypeOK
  <1>8. ASSUME NEW err \in Results, Execute(err)
        PROVE  (InQueue(t) \/ InService(t) \/ InNote(t))'
    BY <1>6, <1>8 DEF Execute
  <1>9. CASE UNCHANGED ctlVars
    BY <1>6, <1>9 DEF ctlVars
  <1> QED
    BY <1>1, <1>2, <1>3, <1>4, <1>5, <1>7, <1>8, <1>9 DEF Next, Requester, Lvgl

LEMMA ReplyIsOwnStep == IInv /\ [Next]_ctlVars => ReplyIsOwn'
  <1> SUFFICES ASSUME IInv, [Next]_ctlVars, NEW t \in Requesters,
                      result'[t] # NoResult, result'[t].from = "reply"
               PROVE  Executed(result[t].n, result[t].err)'
    BY DEF ReplyIsOwn, Executed
  <1> USE DEF IInv
  <1>1. ran \subseteq ran'
    BY DEF Next, Requester, Lvgl, ctlVars, Call, Send, SendTimeout, Accept,
       DiscardStale, GiveUpAfterStale, WaitTimeout, Post, Take, Execute, Reply
  <1>2. CASE result'[t] = result[t]
    <2>1. Executed(result[t].n, result[t].err)
      BY <1>2 DEF ReplyIsOwn, Executed
    <2> QED BY <1>1, <1>2, <2>1 DEF Executed
  <1>3. ASSUME Accept(t) PROVE Executed(result[t].n, result[t].err)'
    <2>1. result'[t] = [n |-> mine[t].n, from |-> "reply", err |-> notify[t].err]
      BY <1>3 DEF Accept, TypeOK
    <2>2. /\ InFlight(notify[t].n, notify[t].id)
          /\ InFlight(mine[t].n, mine[t].id)
          /\ Executed(notify[t].n, notify[t].err)
          /\ notify[t].id = mine[t].id
      BY <1>3 DEF Accept, NoteInv, MineInv
    <2>3. notify[t].n = mine[t].n
      BY <2>2, IdsDistinct DEF InFlight, TypeOK
    <2> QED BY <1>1, <2>1, <2>2, <2>3 DEF Executed
  <1>4. ASSUME NEW u \in Requesters,
               SendTimeout(u) \/ GiveUpAfterStale(u) \/ WaitTimeout(u)
        PROVE  result'[t] = result[t]
    BY <1>4 DEF SendTimeout, GiveUpAfterStale, WaitTimeout, GiveUp, TypeOK
  <1>5. ASSUME NEW u \in Requesters, u # t, Accept(u)
        PROVE  result'[t] = result[t]
    BY <1>5 DEF Accept, TypeOK
  <1>6. CASE UNCHANGED result
    BY <1>2, <1>6
  <1> QED
    BY <1>2, <1>3, <1>4, <1>5, <1>6 DEF Next, Requester, Lvgl, ctlVars, Call,
       Send, DiscardStale, Post, Take, Execute, Reply

(***************************************************************************)
(* The theorems.                                                           *)
(***************************************************************************)
LEMMA Initially == Init => IInv
  <1> SUFFICES ASSUME Init PROVE IInv
    OBVIOUS
  <1>1. TypeOK
    BY Constants DEF Init, TypeOK
  <1> QED
    BY <1>1 DEF Init, IInv, SeqInv, QueueInv, CurInv, MineInv, NoteInv,
       AnswerInv, ReplyIsOwn

LEMMA Inductive == IInv /\ [Next]_ctlVars => IInv'
  BY TypeStep, SeqStep, QueueStep, CurStep, MineStep, NoteStep, AnswerStep,
     ReplyIsOwnStep DEF IInv

LEMMA Invariance == Spec => []IInv
  BY Initially, Inductive, PTL DEF Spec

\* Every variable of the channel keeps its type, and the queue its bound.
THEOREM TypeCorrect == Spec => []TypeOK
  <1>1. IInv => TypeOK
    BY DEF IInv
  <1> QED BY <1>1, Invariance, PTL

\* A call that returns a reply returns the result of its own request.
THEOREM RepliesAreOwn == Spec => []ReplyIsOwn
  <1>1. IInv => ReplyIsOwn
    BY DEF IInv
  <1> QED BY <1>1, Invariance, PTL

\* The answer to a call that still waits is never lost.
THEOREM RepliesAreNotLost == Spec => []ReplyNotLost
  <1>1. IInv => ReplyNotLost
    BY DEF IInv, AnswerInv, ReplyNotLost, InQueue, InService, InNote
  <1> QED BY <1>1, Invariance, PTL

(***************************************************************************)
(* The channel implements the at-most-once call of UiRpc.  Beyond IInv,    *)
(* this needs that a request is in one place at a time and that one which  *)
(* has been executed is not executed again.                                *)
(***************************************************************************)
Queued(n) == \E i \in 1..Len(ctl) : ctl[i].waiter # NoTask /\ ctl[i].n = n
Taken(n) == cur # NoRequest /\ cur.waiter # NoTask /\ cur.n = n
HasRun(n) == \E x \in ran : x.n = n
Unsent(n) == \E t \in Requesters : pc[t] = "sending" /\ mine[t].n = n

OnePlace ==
  /\ \A i, j \in 1..Len(ctl) :
       i # j /\ ctl[i].waiter # NoTask /\ ctl[j].waiter # NoTask
         => ctl[i].n # ctl[j].n
  /\ \A n : Queued(n) => ~ Taken(n) /\ ~ HasRun(n)
  /\ \A n : Taken(n) /\ curErr = Running => ~ HasRun(n)
  /\ \A n : Unsent(n) => ~ Queued(n) /\ ~ Taken(n) /\ ~ HasRun(n)
  /\ \A t, u \in Requesters :
       t # u /\ pc[t] = "sending" /\ pc[u] = "sending" => mine[t].n # mine[u].n
  /\ \A x \in ran : x.n \in 1..calls

RInv == IInv /\ OnePlace

\* Every request there is was numbered by a call.
LEMMA NumbersBounded ==
  ASSUME RInv, NEW n, Queued(n) \/ Taken(n) \/ HasRun(n) \/ Unsent(n)
  PROVE  n \in 1..calls
  BY DEF RInv, IInv, Queued, Taken, HasRun, Unsent, QueueInv, CurInv, MineInv,
     OnePlace, InChannel, InFlight, Young

LEMMA OnePlaceStep == RInv /\ [Next]_ctlVars => OnePlace'
  <1> SUFFICES ASSUME RInv, [Next]_ctlVars PROVE OnePlace'
    OBVIOUS
  <1>0. /\ TypeOK /\ OnePlace /\ calls \in Nat
        /\ ctl \in Seq(Request) /\ Len(ctl) \in Nat
    BY DEF RInv, IInv, TypeOK
  <1>1. ASSUME NEW t \in Requesters, NEW op \in Ops, Call(t, op)
        PROVE  OnePlace'
    <2>1. /\ UNCHANGED <<ctl, cur, curErr, ran>>
          /\ calls' = calls + 1
          /\ mine'[t].n = calls + 1
          /\ \A u \in Requesters : u # t => mine'[u] = mine[u] /\ pc'[u] = pc[u]
      BY <1>0, <1>1 DEF Call, TypeOK
    <2>2. \A n : (Queued(n)' <=> Queued(n)) /\ (Taken(n)' <=> Taken(n))
                 /\ (HasRun(n)' <=> HasRun(n))
      BY <2>1 DEF Queued, Taken, HasRun
    <2>3. \A n : Unsent(n)' => Unsent(n) \/ n = calls + 1
      BY <2>1 DEF Unsent
    <2>4. \A n : Queued(n) \/ Taken(n) \/ HasRun(n) \/ Unsent(n) => n # calls + 1
      BY <1>0, NumbersBounded
    <2>5. \A u \in Requesters : pc[u] = "sending" => mine[u].n # calls + 1
      BY <2>4 DEF Unsent
    <2>6. \A n : Unsent(n)' => ~ Queued(n)' /\ ~ Taken(n)' /\ ~ HasRun(n)'
      BY <1>0, <2>2, <2>3, <2>4 DEF OnePlace
    <2>7. \A u, v \in Requesters :
            u # v /\ pc'[u] = "sending" /\ pc'[v] = "sending"
              => mine'[u].n # mine'[v].n
      BY <1>0, <2>1, <2>5 DEF OnePlace
    <2>8. \A n : /\ Queued(n)' => ~ Taken(n)' /\ ~ HasRun(n)'
                 /\ Taken(n)' /\ curErr' = Running => ~ HasRun(n)'
      BY <1>0, <2>1, <2>2 DEF OnePlace
    <2>9. \A x \in ran' : x.n \in 1..calls'
      BY <1>0, <2>1 DEF OnePlace
    <2>10. \A i, j \in 1..Len(ctl') :
             i # j /\ ctl'[i].waiter # NoTask /\ ctl'[j].waiter # NoTask
               => ctl'[i].n # ctl'[j].n
      BY <1>0, <2>1 DEF OnePlace
    <2> QED BY <2>6, <2>7, <2>8, <2>9, <2>10 DEF OnePlace
  <1>2. ASSUME NEW t \in Requesters, Send(t) PROVE OnePlace'
    <2>1. mine[t] \in Request /\ mine[t].waiter = t /\ Unsent(mine[t].n)
      BY <1>2 DEF Send, RInv, IInv, MineInv, Unsent
    <2>2. /\ Len(ctl') = Len(ctl) + 1
          /\ \A i \in 1..Len(ctl') : ctl'[i] = IF i <= Len(ctl) THEN ctl[i] ELSE mine[t]
      BY <1>0, <1>2, <2>1 DEF Send
    <2>3. UNCHANGED <<cur, curErr, mine, calls, ran>>
      BY <1>2 DEF Send
    <2>4. \A n : Queued(n)' => Queued(n) \/ n = mine[t].n
      BY <1>0, <2>2 DEF Queued
    <2>5. \A n : (Taken(n)' <=> Taken(n)) /\ (HasRun(n)' <=> HasRun(n))
      BY <2>3 DEF Taken, HasRun
    <2>6. \A u \in Requesters : pc'[u] = "sending" => pc[u] = "sending" /\ u # t
      BY <1>0, <1>2 DEF Send, TypeOK
    <2>7. \A n : Unsent(n)' => Unsent(n) /\ n # mine[t].n
      BY <1>0, <1>2, <2>3, <2>6 DEF Unsent, OnePlace, Send
    <2>8. \A i \in 1..Len(ctl) : ctl[i].waiter # NoTask => ctl[i].n # mine[t].n
      BY <1>0, <2>1 DEF OnePlace, Queued
    <2>9. \A i, j \in 1..Len(ctl') :
            i # j /\ ctl'[i].waiter # NoTask /\ ctl'[j].waiter # NoTask
              => ctl'[i].n # ctl'[j].n
      BY <1>0, <2>2, <2>8 DEF OnePlace
    <2>10. \A n : Queued(n)' => ~ Taken(n)' /\ ~ HasRun(n)'
      BY <1>0, <2>1, <2>4, <2>5 DEF OnePlace
    <2>11. \A n : Unsent(n)' => ~ Queued(n)' /\ ~ Taken(n)' /\ ~ HasRun(n)'
      BY <1>0, <2>4, <2>5, <2>7 DEF OnePlace
    <2> QED BY <1>0, <2>3, <2>5, <2>6, <2>9, <2>10, <2>11 DEF OnePlace
  <1>3. ASSUME NEW op \in Ops, Post(op) PROVE OnePlace'
    <2> DEFINE r == [n |-> 0, id |-> 0, waiter |-> NoTask, op |-> op]
    <2>1. r \in Request /\ r.waiter = NoTask
      BY RequestIs, Constants
    <2>2. /\ Len(ctl') = Len(ctl) + 1
          /\ \A i \in 1..Len(ctl') : ctl'[i] = IF i <= Len(ctl) THEN ctl[i] ELSE r
      BY <1>0, <1>3, <2>1 DEF Post
    <2> HIDE DEF r
    <2>3. UNCHANGED <<cur, curErr, mine, calls, ran, pc>>
      BY <1>3 DEF Post
    <2>4. \A n : Queued(n)' => Queued(n)
      BY <1>0, <2>1, <2>2 DEF Queued
    <2>5. \A n : (Taken(n)' <=> Taken(n)) /\ (HasRun(n)' <=> HasRun(n))
                 /\ (Unsent(n)' <=> Unsent(n))
      BY <2>3 DEF Taken, HasRun, Unsent
    <2>6. \A i, j \in 1..Len(ctl') :
            i # j /\ ctl'[i].waiter # NoTask /\ ctl'[j].waiter # NoTask
              => ctl'[i].n # ctl'[j].n
      BY <1>0, <2>1, <2>2 DEF OnePlace
    <2> QED BY <1>0, <2>3, <2>4, <2>5, <2>6 DEF OnePlace
  <1>4. ASSUME Take PROVE OnePlace'
    <2>1. /\ cur' = ctl[1] /\ cur = NoRequest /\ 1 \in 1..Len(ctl)
          /\ Len(ctl') = Len(ctl) - 1
          /\ \A i \in 1..Len(ctl') : ctl'[i] = ctl[i + 1]
      BY <1>0, <1>4, HeadTailProperties, EmptySeq DEF Take
    <2>2. UNCHANGED <<curErr, mine, calls, ran, pc>>
      BY <1>4 DEF Take
    <2>3. \A n : /\ Queued(n)' => Queued(n)
                 /\ Taken(n)' => Queued(n)
                 /\ Queued(n)' => ~ Taken(n)'
      BY <1>0, <2>1 DEF Queued, Taken, OnePlace
    <2>4. \A n : (HasRun(n)' <=> HasRun(n)) /\ (Unsent(n)' <=> Unsent(n))
      BY <2>2 DEF HasRun, Unsent
    <2>5. \A i, j \in 1..Len(ctl') :
            i # j /\ ctl'[i].waiter # NoTask /\ ctl'[j].waiter # NoTask
              => ctl'[i].n # ctl'[j].n
      BY <1>0, <2>1 DEF OnePlace
    <2> QED BY <1>0, <2>2, <2>3, <2>4, <2>5 DEF OnePlace
  <1>5. ASSUME NEW err \in Results, Execute(err) PROVE OnePlace'
    <2>1. /\ UNCHANGED <<ctl, cur, mine, calls, pc>>
          /\ curErr' # Running
          /\ curErr = Running
          /\ ran' = IF cur.waiter = NoTask THEN ran
                    ELSE ran \cup {[n |-> cur.n, err |-> err]}
      BY <1>5, Constants DEF Execute
    <2>2. \A n : HasRun(n)' => HasRun(n) \/ Taken(n)
      BY <1>5, <2>1 DEF HasRun, Taken, Execute
    <2>3. \A n : (Queued(n)' <=> Queued(n)) /\ (Taken(n)' <=> Taken(n))
                 /\ (Unsent(n)' <=> Unsent(n))
      BY <2>1 DEF Queued, Taken, Unsent
    <2>4. cur.waiter # NoTask => cur.n \in 1..calls
      BY <1>5, NumbersBounded DEF Taken, Execute
    <2>5. \A x \in ran' : x.n \in 1..calls'
      BY <1>0, <2>1, <2>4 DEF OnePlace
    <2> QED BY <1>0, <2>1, <2>2, <2>3, <2>5 DEF OnePlace
  <1>6. ASSUME Reply PROVE OnePlace'
    <2>1. UNCHANGED <<ctl, mine, calls, pc, ran>> /\ cur' = NoRequest
      BY <1>6 DEF Reply
    <2>2. \A n : (Queued(n)' <=> Queued(n)) /\ ~ Taken(n)'
                 /\ (Unsent(n)' <=> Unsent(n)) /\ (HasRun(n)' <=> HasRun(n))
      BY <2>1 DEF Queued, Taken, Unsent, HasRun
    <2> QED BY <1>0, <2>1, <2>2 DEF OnePlace
  <1>7. ASSUME UNCHANGED <<ctl, cur, curErr, mine, calls, ran>>,
               \A u \in Requesters : pc'[u] = "sending" => pc[u] = "sending"
        PROVE  OnePlace'
    <2>1. \A n : (Queued(n)' <=> Queued(n)) /\ (Taken(n)' <=> Taken(n))
                 /\ (Unsent(n)' => Unsent(n)) /\ (HasRun(n)' <=> HasRun(n))
      BY <1>7 DEF Queued, Taken, Unsent, HasRun
    <2> QED BY <1>0, <1>7, <2>1 DEF OnePlace
  <1>8. ASSUME NEW t \in Requesters,
               \/ SendTimeout(t) \/ Accept(t) \/ DiscardStale(t)
               \/ GiveUpAfterStale(t) \/ WaitTimeout(t)
        PROVE  OnePlace'
    BY <1>0, <1>7, <1>8 DEF SendTimeout, Accept, DiscardStale,
       GiveUpAfterStale, WaitTimeout, GiveUp, TypeOK
  <1>9. CASE UNCHANGED ctlVars
    BY <1>7, <1>9 DEF ctlVars
  <1> QED
    BY <1>1, <1>2, <1>3, <1>4, <1>5, <1>6, <1>8, <1>9 DEF Next, Requester, Lvgl

LEMMA RInvariance == Spec => []RInv
  <1>1. Init => OnePlace
    BY DEF Init, OnePlace, Queued, Taken, HasRun, Unsent
  <1>2. RInv /\ [Next]_ctlVars => RInv'
    BY Inductive, OnePlaceStep DEF RInv
  <1>3. Init => RInv
    BY <1>1, Initially DEF RInv
  <1> QED BY <1>2, <1>3, PTL DEF Spec

InCall == [t \in Requesters |-> IF pc[t] = "idle" THEN 0 ELSE mine[t].n]

\* A step of the channel is a step of the abstract call or changes nothing
\* that a caller can see.
LEMMA StepRefines == RInv /\ [Next]_ctlVars => [Rpc!Next]_Rpc!rpcVars
  <1> SUFFICES ASSUME RInv, [Next]_ctlVars PROVE [Rpc!Next]_Rpc!rpcVars
    OBVIOUS
  <1>0. TypeOK
    BY DEF RInv, IInv
  <1>a. \A t \in Requesters : InCall[t] = 0 <=> pc[t] = "idle"
    BY DEF RInv, IInv, MineInv, InCall, InFlight, Young
  <1>1. ASSUME NEW t \in Requesters, NEW op \in Ops, Call(t, op)
        PROVE  Rpc!Begin(t)
    <2>1. InCall' = [InCall EXCEPT ![t] = calls + 1]
      BY <1>0, <1>1 DEF Call, InCall, TypeOK
    <2> QED BY <1>1, <1>a, <2>1 DEF Rpc!Begin, Call, InCall
  <1>2. ASSUME NEW t \in Requesters, GiveUp(t), pc[t] # "idle",
               UNCHANGED <<mine, calls, ran>>
        PROVE  Rpc!Abandon(t)
    <2>1. InCall' = [InCall EXCEPT ![t] = 0]
      BY <1>0, <1>2 DEF GiveUp, InCall, TypeOK
    <2>2. InCall[t] = mine[t].n /\ InCall[t] # 0
      BY <1>2, <1>a DEF InCall
    <2> QED BY <1>2, <2>1, <2>2 DEF Rpc!Abandon, GiveUp, InCall
  <1>3. ASSUME NEW t \in Requesters, Accept(t) PROVE Rpc!Finish(t)
    <2>1. InCall' = [InCall EXCEPT ![t] = 0]
      BY <1>0, <1>3 DEF Accept, InCall, TypeOK
    <2>2. InCall[t] = mine[t].n /\ InCall[t] # 0
      BY <1>3, <1>a DEF InCall, Accept
    <2>3. /\ InFlight(notify[t].n, notify[t].id)
          /\ InFlight(mine[t].n, mine[t].id)
          /\ Executed(notify[t].n, notify[t].err)
          /\ notify[t].id = mine[t].id
      BY <1>3 DEF Accept, RInv, IInv, NoteInv, MineInv
    <2>4. notify[t].n = mine[t].n
      BY <1>0, <2>3, IdsDistinct DEF InFlight, TypeOK
    <2>5. PICK x \in ran : x.n = mine[t].n /\ Truncate(x.err) = notify[t].err
      BY <2>3, <2>4 DEF Executed
    <2> QED BY <1>3, <2>1, <2>2, <2>5 DEF Rpc!Finish, Accept, InCall
  <1>4. ASSUME NEW err \in Results, Execute(err), cur.waiter # NoTask
        PROVE  cur.n \in 1..calls /\ Rpc!Perform(cur.n, err)
    <2>1. Taken(cur.n) /\ curErr = Running
      BY <1>4 DEF Taken, Execute
    <2>2. cur.n \in 1..calls /\ ~ HasRun(cur.n)
      BY <2>1, NumbersBounded DEF RInv, OnePlace
    <2>3. UNCHANGED <<InCall, calls, result>>
      BY <1>4 DEF Execute, InCall
    <2> QED BY <1>4, <2>2, <2>3 DEF Rpc!Perform, Execute, HasRun, InCall
  <1>5. ASSUME UNCHANGED <<calls, InCall, ran, result>>
        PROVE  UNCHANGED Rpc!rpcVars
    BY <1>5 DEF Rpc!rpcVars, InCall
  <1>6. ASSUME NEW t \in Requesters, Send(t) PROVE UNCHANGED InCall
    BY <1>0, <1>6 DEF Send, InCall, TypeOK
  <1>7. CASE \E t \in Requesters : Requester(t)
    <2> PICK t \in Requesters : Requester(t)
      BY <1>7
    <2>1. CASE \E op \in Ops : Call(t, op)
      BY <1>1, <2>1 DEF Rpc!Next
    <2>2. CASE Send(t)
      BY <1>5, <1>6, <2>2 DEF Send
    <2>3. CASE SendTimeout(t) \/ GiveUpAfterStale(t) \/ WaitTimeout(t)
      <3>1. Rpc!Abandon(t)
        BY <1>2, <2>3 DEF SendTimeout, GiveUpAfterStale, WaitTimeout
      <3> QED BY <3>1 DEF Rpc!Next
    <2>4. CASE Accept(t)
      BY <1>3, <2>4 DEF Rpc!Next
    <2>5. CASE DiscardStale(t)
      BY <1>5, <2>5 DEF DiscardStale, InCall
    <2> QED BY <2>1, <2>2, <2>3, <2>4, <2>5 DEF Requester
  <1>8. ASSUME NEW err \in Results, Execute(err) PROVE [Rpc!Next]_Rpc!rpcVars
    <2>1. CASE cur.waiter = NoTask
      BY <1>5, <1>8, <2>1 DEF Execute, InCall
    <2>2. CASE cur.waiter # NoTask
      BY <1>4, <1>8, <2>2 DEF Rpc!Next
    <2> QED BY <2>1, <2>2
  <1>9. CASE Take \/ Reply \/ (\E op \in Ops : Post(op)) \/ UNCHANGED ctlVars
    BY <1>5, <1>9 DEF Take, Reply, Post, ctlVars, InCall
  <1> QED
    BY <1>7, <1>8, <1>9 DEF Next, Lvgl

\* The channel is an at-most-once call: nothing is executed twice or made
\* up, and a reply answers the call its caller is in.
THEOREM AtMostOnce == Spec => ImplementsRpc
  <1>1. Init => Rpc!Init
    BY DEF Init, Rpc!Init
  <1> QED BY <1>1, StepRefines, RInvariance, PTL DEF Spec, ImplementsRpc, Rpc!Spec
=============================================================================
