-------------------------- MODULE ClaudeAgentProofs --------------------------
(***************************************************************************)
(* ClaudeAgent's invariants, for any handlers, timers, sessions, processes *)
(* and events and any bounds.                                              *)
(***************************************************************************)
EXTENDS ClaudeAgent, FiniteSetTheorems, WellFoundedInduction, TLAPS

(***************************************************************************)
(* Choices: the freshest interaction, the session to display.              *)
(***************************************************************************)
\* A bounded set of numbers that is not empty has a greatest one.
LEMMA Greatest ==
  ASSUME NEW S \in SUBSET Nat, S # {}, NEW b \in Nat, \A s \in S : s <= b
  PROVE  \E m \in S : \A s \in S : s <= m
<1> DEFINE D == {b - s : s \in S}
<1>1. D \in SUBSET Nat /\ D # {}
  <2>1. \A s \in S : b - s \in Nat OBVIOUS
  <2> QED BY <2>1, Zenon
<1>2. PICK d \in D : \A x \in D : d <= x
  <2> HIDE DEF D
  <2>1. \E d \in D : \A x \in D : <<x, d>> \notin OpToRel(<, Nat)
    BY <1>1, WFMin, NatLessThanWellFounded, Zenon
  <2>2. PICK d \in D : \A x \in D : <<x, d>> \notin OpToRel(<, Nat) BY <2>1
  <2>3. \A x \in D : ~(x < d) BY <1>1, <2>2 DEF OpToRel
  <2> QED BY <1>1, <2>3
<1>3. PICK m \in S : d = b - m OBVIOUS
<1>4. \A s \in S : b - m <= b - s BY <1>2, <1>3
<1> QED BY <1>4

Bounded(q) == \E n \in Nat : \A i \in q : i.born <= n

\* The freshest of some interactions is one of them.
LEMMA FreshestIsThere ==
  ASSUME NEW q \in SUBSET Item, q # {}, Bounded(q)
  PROVE  Freshest(q) \in q /\ \A j \in q : j.born <= Freshest(q).born
<1> DEFINE S == {i.born : i \in q}
<1>1. S \in SUBSET Nat /\ S # {} BY DEF Item
<1>2. PICK n \in Nat : \A s \in S : s <= n BY DEF Bounded
<1>3. PICK m \in S : \A s \in S : s <= m
  <2> HIDE DEF S
  <2> QED BY <1>1, <1>2, Greatest
<1>4. PICK i \in q : i.born = m OBVIOUS
<1>5. \A j \in q : i.born >= j.born BY <1>1, <1>3, <1>4
<1>6. Freshest(q) \in q /\ \A j \in q : Freshest(q).born >= j.born BY <1>5 DEF Freshest
<1> QED BY <1>6 DEF Item

\* What is pending is an interaction's kind, and depends on what is kept.
LEMMA PendingType ==
  ASSUME NEW q \in SUBSET Item, Bounded(q)
  PROVE  Pending(q) \in Kinds \cup {None} /\ Pending({}) = None
BY FreshestIsThere DEF Pending, Item, Kinds

\* A display priority is a number up to 5.
LEMMA PriorityType ==
  ASSUME NEW s \in Statuses
  PROVE  Priority(s) \in 0..5
BY DEF Priority, Statuses

\* Of the sessions there is one above all others.
LEMMA Topmost ==
  ASSUME NEW ss \in SessionMap, Tracked(ss) # {}
  PROVE  \E k \in Tracked(ss) : \A j \in Tracked(ss) \ {k} : Above(ss, k, j)
<1> DEFINE T == Tracked(ss)
           rank(k) == Priority(ss[k].status)
<1>0. T \in SUBSET Nat /\ T \subseteq Keys /\ LastSession \in Nat /\ MaxEvents \in Nat
  BY AgentAssumption DEF Tracked, Keys, Sessions
<1>1. \A k \in T : ss[k] \in Entry BY <1>0 DEF Tracked, SessionMap
<1>2. \A k \in T : rank(k) \in Nat /\ rank(k) <= 5 BY <1>1, PriorityType DEF Entry
<1>3. \A k \in T : ss[k].last \in Nat /\ ss[k].last <= MaxEvents
  BY <1>0, <1>1 DEF Entry, Orders
<1>4. \A k \in T : k \in Nat /\ k <= LastSession BY <1>0 DEF Keys, Sessions
<1>5. \E a \in T : \A j \in T : rank(j) <= rank(a)
  <2> DEFINE S == {rank(k) : k \in T}
  <2>1. S \in SUBSET Nat /\ S # {} /\ \A s \in S : s <= 5 BY <1>2
  <2>2. PICK m \in S : \A s \in S : s <= m
    <3> HIDE DEF S
    <3> QED BY <2>1, Greatest
  <2> QED BY <2>2
<1>6. PICK a \in T : \A j \in T : rank(j) <= rank(a) BY <1>5
<1> DEFINE A == {k \in T : rank(k) = rank(a)}
           B == IF \E k \in A : Unread(ss[k]) THEN {k \in A : Unread(ss[k])} ELSE A
<1>7. B # {} /\ B \subseteq T OBVIOUS
<1>8. PICK b \in B : \A j \in B : ss[j].last <= ss[b].last
  <2> HIDE DEF B
  <2> DEFINE S == {ss[k].last : k \in B}
  <2>1. S \in SUBSET Nat /\ S # {} /\ \A s \in S : s <= MaxEvents BY <1>3, <1>7
  <2>2. PICK m \in S : \A s \in S : s <= m
    <3> HIDE DEF S
    <3> QED BY <1>0, <2>1, Greatest
  <2> QED BY <2>2
<1> DEFINE C == {k \in B : ss[k].last = ss[b].last}
<1>9. PICK c \in C : \A j \in C : j <= c
  <2>1. C \in SUBSET Nat /\ C # {} /\ \A s \in C : s <= LastSession BY <1>4, <1>7, <1>8
  <2> HIDE DEF C
  <2> QED BY <1>0, <2>1, Greatest
<1>10. c \in T /\ rank(c) = rank(a) OBVIOUS
<1>11. ASSUME NEW j \in T \ {c} PROVE Above(ss, c, j)
  <2>1. rank(j) <= rank(c) /\ rank(j) \in Nat /\ rank(c) \in Nat BY <1>2, <1>6, <1>10
  <2>2. CASE rank(j) # rank(c) BY <2>1, <2>2 DEF Above
  <2>3. CASE rank(j) = rank(c) /\ Unread(ss[j]) # Unread(ss[c])
    <3>1. j \in A BY <2>3, <1>10
    <3>2. Unread(ss[c]) /\ ~Unread(ss[j])
      BY <2>3, <3>1 DEF Unread
    <3>3. Priority(ss[c].status) - Priority(ss[j].status) = 0 BY <2>1, <2>3
    <3> QED BY <3>2, <3>3, Zenon DEF Above
  <2>4. CASE rank(j) = rank(c) /\ Unread(ss[j]) = Unread(ss[c])
    <3>1. j \in B BY <2>4, <1>10
    <3>2. ss[j].last <= ss[c].last /\ ss[j].last \in Nat /\ ss[c].last \in Nat
      BY <3>1, <1>3, <1>7, <1>8, <1>10
    <3>3. ss[j].last = ss[c].last => j <= c BY <3>1, <1>9
    <3>4. ss[c].last > ss[j].last \/ (ss[c].last = ss[j].last /\ c > j)
      BY <3>2, <3>3, <1>4
    <3>5. Priority(ss[c].status) - Priority(ss[j].status) = 0 BY <2>1, <2>4
    <3>6. Unread(ss[c]) = Unread(ss[j]) BY <2>4
    <3> QED BY <3>4, <3>5, <3>6, Zenon DEF Above
  <2> QED BY <2>2, <2>3, <2>4
<1> QED BY <1>10, <1>11

\* The view of well-formed sessions and interactions is one.
LEMMA ViewType ==
  ASSUME NEW ss \in SessionMap, NEW q \in SUBSET Item, Bounded(q)
  PROVE  /\ ViewOf(ss, q) \in View
         /\ [ViewOf(ss, q) EXCEPT !.pending = None] = ViewOf(ss, {})
<1>1. Pending(q) \in Kinds \cup {None} /\ Pending({}) = None BY PendingType
<1>2. CASE Tracked(ss) = {}
  BY <1>1, <1>2 DEF ViewOf, View, Statuses, Keys
<1>3. CASE Tracked(ss) # {}
  <2> DEFINE k == CHOOSE k \in Tracked(ss) : \A j \in Tracked(ss) \ {k} : Above(ss, k, j)
  <2>1. k \in Tracked(ss) BY <1>3, Topmost
  <2>2. k \in Keys /\ ss[k] \in Entry BY <2>1 DEF Tracked, SessionMap
  <2>4. ViewOf(ss, q) = [session |-> k, status |-> ss[k].status, hook |-> ss[k].hook,
                         pending |-> Pending(q)] BY <1>3 DEF ViewOf
  <2>5. ViewOf(ss, {}) = [session |-> k, status |-> ss[k].status, hook |-> ss[k].hook,
                         pending |-> Pending({})] BY <1>3 DEF ViewOf
  <2> HIDE DEF k
  <2> QED BY <1>1, <2>2, <2>4, <2>5 DEF View, Entry
<1> QED BY <1>2, <1>3

(***************************************************************************)
(* Helpers: what pending.rs and the session map return.                    *)
(***************************************************************************)
\* An interaction that is submitted is born after the others.
LEMMA SubmittedType ==
  ASSUME NEW q \in SUBSET Item, Bounded(q), NEW e \in Stamped, Asks(e)
  PROVE  /\ Submitted(q, e) \in SUBSET Item /\ Bounded(Submitted(q, e))
         /\ \A i \in Submitted(q, e) : i \in q \/ i.session = e.session
<1> DEFINE item == ItemOf(e, NextBorn(q))
<1>1. NextBorn(q) \in Nat /\ \A i \in q : i.born <= NextBorn(q)
  BY FreshestIsThere DEF NextBorn, Item
<1>2. item \in Item /\ item.born = NextBorn(q) /\ item.session = e.session
  BY <1>1 DEF ItemOf, Item, Kinds, Stamped
<1>3. Submitted(q, e) \subseteq q \cup {item} BY DEF Submitted
<1> HIDE DEF item
<1>4. \A i \in q \cup {item} : i.born <= NextBorn(q) BY <1>1, <1>2
<1> QED BY <1>1, <1>2, <1>3, <1>4 DEF Bounded

\* Fewer interactions are as well-formed.
LEMMA FewerType ==
  ASSUME NEW q \in SUBSET Item, Bounded(q), NEW r \in SUBSET q
  PROVE  r \in SUBSET Item /\ Bounded(r)
BY DEF Bounded

\* One entry for each Claude process.
Distinct(ss) == \A j, k \in Tracked(ss) : j # k /\ ss[j].pid = ss[k].pid => ss[j].pid = None

\* An event keeps the entries of its session's process to one.
LEMMA AfterEventType ==
  ASSUME NEW ss \in SessionMap, NEW e \in Stamped
  PROVE  /\ AfterEvent(ss, e) \in SessionMap
         /\ AfterEvent(ss, e)[e.session] # None
         /\ Distinct(ss) => Distinct(AfterEvent(ss, e))
         /\ \A k \in Keys : ss[k] # None => AfterEvent(ss, e)[k] # None \/ k \in Superseded(ss, e)
<1> DEFINE after == AfterEvent(ss, e)
           s == e.session
           new == EntryAfter(e, ss[s])
<1>0. None \notin Entry BY AgentAssumption
<1>1. s \in Keys /\ ss[s] \in Entry \cup {None} BY DEF Stamped, Keys, SessionMap
<1>2. StatusAfter(e, ss[s]) \in Statuses
  BY <1>1 DEF StatusAfter, Statuses, Entry
<1>3. new \in Entry /\ new # None
  <2>1. (IF e.hook = "SessionEnd" THEN None
         ELSE IF e.pid # None \/ ss[s] = None THEN e.pid ELSE ss[s].pid) \in Pids \cup {None}
    BY <1>1 DEF Entry, Stamped
  <2> QED BY <1>0, <1>2, <2>1 DEF EntryAfter, Entry, Stamped
<1>4. /\ after = [k \in Keys |-> IF k = s THEN new
                   ELSE IF k \in Superseded(ss, e) THEN None ELSE ss[k]]
  BY DEF AfterEvent
<1> HIDE DEF after
<1>5. after \in SessionMap
  <2> HIDE DEF new, s
  <2> QED BY <1>1, <1>3, <1>4 DEF SessionMap
<1>6. after[s] = new BY <1>1, <1>4
<1>7. ASSUME Distinct(ss), NEW j \in Tracked(after), NEW k \in Tracked(after), j # k,
             after[j].pid = after[k].pid, after[j].pid # None
      PROVE  FALSE
  <2>1. \A n \in Tracked(after) \ {s} : n \in Tracked(ss) \ {s} /\ n \notin Superseded(ss, e) /\ after[n] = ss[n]
    BY <1>4 DEF Tracked
  <2>2. ASSUME NEW n \in Tracked(ss) \ {s}, n \notin Superseded(ss, e), ss[n].pid = new.pid, new.pid # None
        PROVE  FALSE
    <3>1. e.hook # "SessionEnd" BY <2>2 DEF EntryAfter
    <3>2. CASE e.pid # None BY <3>1, <3>2, <2>2 DEF Superseded, EntryAfter
    <3>3. CASE e.pid = None
      <4>1. ss[s] # None /\ new.pid = ss[s].pid BY <3>1, <3>3, <2>2 DEF EntryAfter
      <4>2. s \in Tracked(ss) BY <4>1, <1>1 DEF Tracked
      <4> QED BY <4>1, <4>2, <2>2, <1>7 DEF Distinct
    <3> QED BY <3>2, <3>3
  <2> HIDE DEF new
  <2>3. CASE j = s BY <2>1, <2>2, <2>3, <1>6, <1>7
  <2>4. CASE k = s BY <2>1, <2>2, <2>4, <1>6, <1>7
  <2>5. CASE j # s /\ k # s BY <2>1, <2>5, <1>7 DEF Distinct
  <2> QED BY <2>3, <2>4, <2>5
<1>8. Distinct(ss) => Distinct(after) BY <1>7 DEF Distinct
<1>9. \A k \in Keys : ss[k] # None => after[k] # None \/ k \in Superseded(ss, e)
  <2> HIDE DEF new, s
  <2> QED BY <1>3, <1>4
<1> QED BY <1>3, <1>5, <1>6, <1>8, <1>9 DEF after

(***************************************************************************)
(* What a saved state promises to the agent that restores it.              *)
(***************************************************************************)
Restorable(s) ==
  /\ Distinct(s.sessions)
  /\ [s.view EXCEPT !.pending = None] = ViewOf(s.sessions, {})

\* A restored agent has at most one entry for a process, and shows them.
LEMMA RestoredType ==
  ASSUME NEW s \in Saved, Restorable(s)
  PROVE  /\ Restored(s) \in SessionMap
         /\ Distinct(Restored(s))
         /\ [s.view EXCEPT !.pending = None] = ViewOf(Restored(s), {})
<1>1. CASE Tracked(s.sessions) # {} \/ s.seq = 0
  BY <1>1 DEF Restored, Restorable, Saved
<1>2. CASE Tracked(s.sessions) = {} /\ s.seq # 0
  <2> DEFINE v == s.view
             entry == [status |-> v.status, hook |-> v.hook, pid |-> None, last |-> 0]
             ss == Restored(s)
  <2>1. v \in View /\ s.sessions \in SessionMap BY DEF Saved
  <2>2. ss = [s.sessions EXCEPT ![v.session] = entry] BY <1>2 DEF Restored
  <2>3. [v EXCEPT !.pending = None]
          = [session |-> 0, status |-> "unknown", hook |-> "none", pending |-> Pending({})]
    BY <1>2 DEF Restorable, ViewOf
  <2>4. v.session = 0 /\ v.status = "unknown" /\ v.hook = "none" BY <2>1, <2>3 DEF View
  <2>5. entry \in Entry /\ entry # None BY AgentAssumption, <2>4 DEF Entry, Statuses, Orders
  <2>6. 0 \in Keys BY DEF Keys
  <2>7. \A k \in Keys : s.sessions[k] = None BY <1>2 DEF Tracked
  <2> HIDE DEF entry, v, ss
  <2>8. ss \in SessionMap BY <2>1, <2>2, <2>4, <2>5, <2>6 DEF SessionMap
  <2>9. ss[0] = entry /\ Tracked(ss) = {0}
    BY <2>1, <2>2, <2>4, <2>5, <2>6, <2>7 DEF SessionMap, Tracked
  <2>10. ViewOf(ss, {}) = [session |-> 0, status |-> "unknown", hook |-> "none",
                           pending |-> Pending({})]
    <3>1. (CHOOSE k \in {0} : \A j \in {0} \ {k} : Above(ss, k, j)) = 0 OBVIOUS
    <3>2. entry.status = "unknown" /\ entry.hook = "none" BY <2>4 DEF entry
    <3> QED BY <3>1, <3>2, <2>9 DEF ViewOf
  <2>11. Distinct(ss) BY <2>9 DEF Distinct
  <2> QED BY <2>3, <2>8, <2>10, <2>11 DEF v, ss
<1> QED BY <1>1, <1>2

(***************************************************************************)
(* A task: what it carries fits the step it is at.                         *)
(***************************************************************************)
Good(r) ==
  /\ r \in Task
  /\ r.at = "submit" => Asks(r.doing)
  /\ r.at \in {"submit", "apply"} => r.doing # None
  /\ r.at \in {"clear", "refresh", "match", "flush", "store"} \/ r.phase # "own" => r.own # None
  /\ r.send # None => r.at \in {"open", "write", "send"}
  /\ r.at = "send" => r.send # None
  /\ r.save # None <=> r.at \in {"open", "write"}
  /\ r.save # None => Restorable(r.save) /\ (r.send # None => r.send.seq <= r.save.seq)

\* A task that carries nothing.
Free(r) == Good(r) /\ r.save = None /\ r.send = None

\* A task at rest.
LEMMA IdleGood == Free(Idle)
BY AgentAssumption DEF Free, Good, Idle, Task, Steps, Phases

\* A task that carries nothing, at a step where none does.
LEMMA FreeThere ==
  ASSUME NEW r, Good(r), r.at \notin {"open", "write", "send"}
  PROVE  Free(r)
BY DEF Free, Good

\* A task that takes up an event.
LEMMA ProcessingGood ==
  ASSUME NEW r, Free(r), NEW e \in Stamped, NEW phase \in Phases,
         phase # "own" => r.own # None
  PROVE  LET s == Processing(r, e, phase)
         IN Free(s) /\ s.at \in {"submit", "apply"} /\ s.doing = e /\ (s.at = "apply" => ~Asks(e))
<1> DEFINE s == Processing(r, e, phase)
<1>1. r \in Task /\ r.save = None /\ r.send = None /\ e # None
  BY AgentAssumption DEF Free, Good
<1>2. /\ s \in Task /\ s.at = IF Asks(e) THEN "submit" ELSE "apply"
      /\ s.phase = phase /\ s.doing = e /\ s.own = r.own /\ s.save = None /\ s.send = None
  BY <1>1 DEF Processing, Task, Steps
<1> HIDE DEF s
<1>3. Free(s) BY <1>1, <1>2 DEF Free, Good
<1>4. s.at \in {"submit", "apply"} /\ s.doing = e /\ (s.at = "apply" => ~Asks(e)) BY <1>2
<1> QED BY <1>3, <1>4 DEF s

\* The two continuations of ingest().
LEMMA ContinueGood ==
  ASSUME NEW r, Free(r), r.own # None
  PROVE  Free(AfterClear(r)) /\ Free(AfterFlush(r))
<1>1. Free(AfterClear(r)) BY DEF Free, Good, Task, Steps, AfterClear
<1>2. r.own \in Stamped /\ "own" \in Phases BY DEF Free, Good, Task, Phases
<1>3. CASE r.own.hook = "PreToolUse"
  <2>1. AfterFlush(r) = [r EXCEPT !.at = "store"] BY <1>3 DEF AfterFlush
  <2> QED BY <1>1, <2>1 DEF Free, Good, Task, Steps
<1>4. CASE r.own.hook # "PreToolUse"
  <2>1. AfterFlush(r) = Processing(r, r.own, "own") BY <1>4 DEF AfterFlush
  <2>2. Free(Processing(r, r.own, "own")) BY <1>2, ProcessingGood
  <2> QED BY <1>1, <2>1, <2>2
<1> QED BY <1>1, <1>3, <1>4

\* A task that has published, and goes on.
LEMMA ResumeGood ==
  ASSUME NEW r, Good(r)
  PROVE  Free(Resume(r))
<1> DEFINE done == [r EXCEPT !.save = None, !.send = None]
<1>1. r.phase \in Phases BY DEF Good, Task
<1>2. CASE r.phase = "own" BY <1>2, IdleGood DEF Resume
<1>3. CASE r.phase # "own"
  <2>1. r.own # None /\ done.own = r.own BY <1>3 DEF Good, Task
  <2>2. CASE r.at \in {"open", "write", "send"}
    \* The step it is at is left behind.
    <3>1. AfterClear(done) = AfterClear([done EXCEPT !.at = "flush"])
          /\ AfterFlush(done) = AfterFlush([done EXCEPT !.at = "flush"])
      BY DEF AfterClear, AfterFlush, Processing, Good, Task
    <3>2. Free([done EXCEPT !.at = "flush"]) /\ [done EXCEPT !.at = "flush"].own # None
      BY <2>1 DEF Free, Good, Task, Steps
    <3> QED BY <1>1, <1>3, <3>1, <3>2, ContinueGood DEF Resume, Phases
  <2>3. CASE r.at \notin {"open", "write", "send"}
    <3>1. Free(done) BY <2>3 DEF Free, Good, Task
    <3> QED BY <1>1, <1>3, <2>1, <3>1, ContinueGood DEF Resume, Phases
  <2> QED BY <2>2, <2>3
<1> QED BY <1>2, <1>3

\* The types, and what they need: the queue's numbers end, each task is in
\* order, and a saved state can be restored.
TypeInv ==
  /\ TypeOK
  /\ Bounded(queue)
  /\ Distinct(sessions)
  /\ \A t \in Tasks : Good(task[t])
  /\ file # NoFile => Restorable(file)

\* A step changes one task's record.
LEMMA GotoGood ==
  ASSUME task \in [Tasks -> Task], \A u \in Tasks : Good(task[u]),
         NEW t \in Tasks, NEW r, Good(r), Goto(t, r)
  PROVE  /\ task' \in [Tasks -> Task]
         /\ \A u \in Tasks : Good(task[u])'
         /\ task'[t] = r
         /\ \A u \in Tasks \ {t} : task'[u] = task[u]
<1>1. r \in Task BY DEF Good
<1>2. task' = [task EXCEPT ![t] = r] BY DEF Goto
<1>3. task'[t] = r /\ \A u \in Tasks \ {t} : task'[u] = task[u] BY <1>2
<1>4. task' \in [Tasks -> Task] BY <1>1, <1>2
<1>5. ASSUME NEW u \in Tasks PROVE Good(task'[u])
  <2>1. task'[u] = r \/ task'[u] = task[u] BY <1>3
  <2> QED BY <2>1
<1> QED BY <1>3, <1>4, <1>5

\* The unions None does not belong to.
LEMMA NoneFacts ==
  None \notin Stamped /\ None \notin Saved /\ None \notin Snapshot /\ None \notin Entry
BY AgentAssumption

\* Publishing: the snapshot follows the sessions and the queue, and the task
\* carries what must be saved and sent.
LEMMA PublishGood ==
  ASSUME TypeInv, NEW t \in Tasks, task[t].save = None, task[t].send = None,
         NEW ss \in SessionMap, Distinct(ss), NEW q \in SUBSET Item, Bounded(q),
         NEW changed \in BOOLEAN, Publish(t, ss, q, changed)
  PROVE  /\ sessions' = ss /\ queue' = Live(q) /\ ~stale'
         /\ queue' \in SUBSET Item /\ Bounded(queue)'
         /\ snapshot' \in Snapshot /\ snapshot'.view = ViewOf(sessions', queue')
         /\ task' \in [Tasks -> Task] /\ \A u \in Tasks : Good(task[u])'
         /\ \A u \in Tasks \ {t} : task'[u] = task[u]
         /\ task'[t].send = snapshot' \/ (task'[t].send = None /\ snapshot' = snapshot)
         /\ task'[t].at # "send"
<1> DEFINE view == ViewOf(sessions', queue')
           visible == view # snapshot.view
           saved == [seq |-> snapshot'.seq, view |-> view, sessions |-> sessions']
           open == [task[t] EXCEPT !.at = "open", !.doing = None,
                      !.save = saved, !.send = IF visible THEN snapshot' ELSE None]
           next == IF changed \/ visible THEN open ELSE Resume(task[t])
<1>1. sessions' = ss /\ queue' = Live(q) /\ ~stale' BY DEF Publish
<1>2. queue' \in SUBSET Item /\ Bounded(queue') BY <1>1, FewerType DEF Live
<1>3. /\ view \in View
      /\ [view EXCEPT !.pending = None] = ViewOf(sessions', {})
  BY <1>1, <1>2, ViewType
<1>4. snapshot \in Snapshot /\ task \in [Tasks -> Task] /\ Good(task[t]) BY DEF TypeInv, TypeOK
<1>5. snapshot' = IF visible THEN [seq |-> snapshot.seq + 1, view |-> view] ELSE snapshot
  BY DEF Publish
<1>6. Goto(t, next) BY DEF Publish
<1> HIDE DEF view
<1>7. snapshot' \in Snapshot /\ snapshot'.view = view BY <1>3, <1>4, <1>5 DEF Snapshot
<1>8. saved \in Saved /\ Restorable(saved) BY <1>1, <1>3, <1>7 DEF Saved, Snapshot, Restorable
<1>9. Good(open) /\ open.at = "open" /\ open.send = IF visible THEN snapshot' ELSE None
  <2>1. saved.seq = snapshot'.seq /\ snapshot'.seq \in Nat BY <1>7 DEF Snapshot
  <2>2. saved # None BY <1>8, NoneFacts
  <2>3. task[t] \in Task /\ (task[t].phase # "own" => task[t].own # None) BY <1>4 DEF Good
  <2> HIDE DEF saved
  <2>4. /\ open \in Task /\ open.at = "open" /\ open.save = saved /\ open.doing = None
        /\ open.phase = task[t].phase /\ open.own = task[t].own
        /\ open.send = IF visible THEN snapshot' ELSE None
    BY <1>7, <1>8, <2>3 DEF Task, Steps
  <2>5. open.send # None => open.send.seq <= open.save.seq BY <2>1, <2>4
  <2> HIDE DEF open
  <2> QED BY <1>8, <2>2, <2>3, <2>4, <2>5 DEF Good
<1>10. Free(Resume(task[t])) BY <1>4, ResumeGood
<1>11. Resume(task[t]).send = None /\ Resume(task[t]).at # "send" BY <1>10 DEF Free, Good
<1>12. Good(next) /\ (next.send = snapshot' \/ (next.send = None /\ snapshot' = snapshot))
       /\ next.at # "send"
  <2> HIDE DEF open
  <2> QED BY <1>5, <1>9, <1>10, <1>11 DEF Free
<1> HIDE DEF next
<1>13. /\ task' \in [Tasks -> Task] /\ \A u \in Tasks : Good(task[u])'
       /\ task'[t] = next /\ \A u \in Tasks \ {t} : task'[u] = task[u]
  BY <1>4, <1>6, <1>12, GotoGood DEF TypeInv
<1> QED BY <1>1, <1>2, <1>7, <1>12, <1>13 DEF view

\* Reconciling keeps the map of sessions well-formed.
LEMMA LeftType ==
  ASSUME sessions \in SessionMap, Distinct(sessions), arrived \subseteq Events,
         Cardinality(arrived) \in Orders, NEW aged \in SUBSET Keys, NEW excess
  PROVE  /\ Without(Left(aged), excess) \in SessionMap
         /\ Distinct(Without(Left(aged), excess))
         /\ \A k \in Keys : sessions[k] # None =>
              \/ Without(Left(aged), excess)[k] # None
              \/ Pruned(k, aged) \/ k \in excess
<1>1. IdleEntry \in Entry /\ IdleEntry # None /\ IdleEntry.pid = None
  BY NoneFacts DEF IdleEntry, Entry, Statuses
<1> DEFINE left == Without(Left(aged), excess)
<1>2. left = [k \in Keys |-> IF k \in excess THEN None
                ELSE IF Lost(k, aged) THEN IdleEntry
                ELSE IF Pruned(k, aged) THEN None ELSE sessions[k]]
  BY DEF Without, Left
<1> HIDE DEF left
<1>3. left \in SessionMap BY <1>1, <1>2 DEF SessionMap
<1>4. \A k \in Tracked(left) : left[k] = IdleEntry \/ (left[k] = sessions[k] /\ k \in Tracked(sessions))
  BY <1>2 DEF Tracked
<1>5. Distinct(left) BY <1>1, <1>4 DEF Distinct
<1>6. \A k \in Keys : sessions[k] # None => left[k] # None \/ Pruned(k, aged) \/ k \in excess
  BY <1>1, <1>2
<1> QED BY <1>3, <1>5, <1>6 DEF left

\* The number of events that were sent; Arrive() keeps to its bound.
Counted == IsFiniteSet(arrived) /\ Cardinality(arrived) \in Orders

\* Init establishes the types.
LEMMA InitType == Init => TypeInv /\ Counted
<1> SUFFICES ASSUME Init PROVE TypeInv /\ Counted OBVIOUS
<1>1. NoSessions \in SessionMap /\ Distinct(NoSessions)
  BY DEF NoSessions, SessionMap, Distinct, Tracked
<1>2. {} \in SUBSET Item /\ Bounded({}) BY DEF Bounded
<1>3. ViewOf(NoSessions, {}) \in View BY <1>1, <1>2, ViewType
<1>4. snapshot \in Snapshot BY <1>3 DEF Init, Fresh, Snapshot
<1>5. Idle \in Task /\ Good(Idle) BY IdleGood DEF Free, Good
<1>6. task \in [Tasks -> Task] /\ \A t \in Tasks : Good(task[t]) BY <1>5 DEF Init
<1>7. MaxFaults \in Nat /\ MaxEvents \in Nat BY AgentAssumption
<1>8. TypeOK
  <2>1. sessions \in SessionMap /\ handed \in Snapshot BY <1>1, <1>4 DEF Init
  <2>2. held \in Stamped \cup {None} /\ file \in Saved \cup {NoFile} /\ newest \in Nat
        /\ unsaved \in Nat /\ forgotten \in Nat BY DEF Init
  <2>3. queue \subseteq Item /\ mixed \subseteq Tasks /\ arrived \subseteq Events
        /\ dead \subseteq Pids /\ excused \subseteq Keys BY DEF Init
  <2>4. tmp \in BOOLEAN /\ disturbed \in BOOLEAN /\ stale \in BOOLEAN /\ crossed \in BOOLEAN BY DEF Init
  <2>5. faults \in 0..MaxFaults BY <1>7 DEF Init
  <2> QED BY <1>4, <1>6, <2>1, <2>2, <2>3, <2>4, <2>5 DEF TypeOK
<1>9. Counted BY <1>7, FS_EmptySet DEF Init, Counted, Orders
<1> QED BY <1>1, <1>2, <1>6, <1>8, <1>9 DEF Init, TypeInv

\* The events that arrive are numbered within the bound.
LEMMA CountedStep == Counted /\ [Next]_vars => Counted'
<1> SUFFICES ASSUME Counted, [Next]_vars PROVE Counted' OBVIOUS
<1>1. CASE arrived' = arrived BY <1>1 DEF Counted
<1>2. ASSUME NEW t \in Hooks, NEW e \in Events, Arrive(t, e) PROVE Counted'
  <2>1. arrived' = arrived \cup {e} /\ e \notin arrived /\ Cardinality(arrived) < MaxEvents
    BY <1>2 DEF Arrive
  <2>2. IsFiniteSet(arrived') /\ Cardinality(arrived') = Cardinality(arrived) + 1
    BY <2>1, FS_AddElement DEF Counted
  <2> QED BY <2>1, <2>2, AgentAssumption DEF Counted, Orders
<1> QED
  BY <1>1, <1>2 DEF Next, vars, envVars, Handler, Work, Cancel, ClearForEvent, Refresh, Match,
     Flush, Store, TakeHeld, Submit, Apply, Open, OpenFails, Write, WriteFails, Send, Reconciles,
     Reconcile, Expire, ProcessExits, Restart, StartFrom

(***************************************************************************)
(* Types                                                                   *)
(***************************************************************************)
\* Fault counts up to its bound.
LEMMA FaultType ==
  ASSUME faults \in 0..MaxFaults, Fault
  PROVE  faults' \in 0..MaxFaults
BY AgentAssumption DEF Fault


\* What a step that only moves a task on leaves to be shown.
LEMMA MoveOn ==
  ASSUME TypeInv, NEW t \in Tasks, NEW r, Good(r), Goto(t, r),
         UNCHANGED <<sessions, queue, snapshot, file, tmp, mixed, handed, newest,
                     arrived, dead, disturbed, unsaved, forgotten>>,
         held' \in Stamped \cup {None}, faults' \in 0..MaxFaults, stale' \in BOOLEAN,
         crossed' = crossed, excused' \subseteq Keys
  PROVE  TypeInv'
<1>1. task' \in [Tasks -> Task] /\ \A u \in Tasks : Good(task[u])'
  BY GotoGood DEF TypeInv, TypeOK
<1>2. TypeOK' BY <1>1 DEF TypeInv, TypeOK
<1> QED BY <1>1, <1>2 DEF TypeInv

\* A hook's request arrives.
LEMMA ArriveType ==
  ASSUME TypeInv, Counted, NEW t \in Hooks, NEW e \in Events, Arrive(t, e)
  PROVE  TypeInv'
<1> DEFINE own == [hook |-> e.hook, session |-> e.session, tool |-> e.tool, prompt |-> e.prompt,
                   pid |-> e.pid, recv |-> Cardinality(arrived) + 1]
           r == [Idle EXCEPT !.at = "clear", !.own = own]
<1>1. own \in Stamped
  <2>1. e \in Event BY AgentAssumption
  <2>2. Cardinality(arrived) + 1 \in Orders BY AgentAssumption DEF Arrive, Counted, Orders
  <2> QED BY <2>1, <2>2 DEF Event, Stamped
<1>2. own # None BY <1>1, NoneFacts
<1> HIDE DEF own
<1>3. Good(r) BY <1>1, <1>2, IdleGood DEF Idle, Free, Good, Task, Steps
<1>4. Goto(t, r) BY DEF Arrive, own
<1>5. task' \in [Tasks -> Task] /\ \A u \in Tasks : Good(task[u])'
  BY <1>3, <1>4, GotoGood DEF TypeInv, TypeOK, Tasks
<1>6. faults' \in 0..MaxFaults
  BY FaultType DEF Arrive, TypeInv, TypeOK
<1>7. arrived' \subseteq Events BY DEF Arrive, TypeInv, TypeOK
<1>8. UNCHANGED <<sessions, queue, snapshot, held, file, tmp, mixed, handed, newest, dead,
                  disturbed, unsaved, forgotten, stale, crossed, excused>>
  BY DEF Arrive, fileVars, handedVars, historyVars
<1> HIDE DEF r
<1>9. TypeOK' BY <1>5, <1>6, <1>7, <1>8 DEF TypeInv, TypeOK
<1> QED BY <1>5, <1>8, <1>9 DEF TypeInv

\* The sections under the lock that only use the queue or the held event.
LEMMA HandlerType ==
  ASSUME TypeInv, NEW t \in Hooks,
         ClearForEvent(t) \/ Match(t) \/ Flush(t) \/ Store(t) \/ Cancel(t)
  PROVE  TypeInv'
<1> DEFINE r == task[t]
<1>0. t \in Tasks /\ Good(r) /\ r \in Task BY DEF Tasks, TypeInv, TypeOK
<1>1. r.at \notin {"open", "write", "send"} => Free(r) BY <1>0, FreeThere
<1>2. CASE ClearForEvent(t)
  <2>1. Free(r) /\ r.own # None BY <1>0, <1>1, <1>2 DEF ClearForEvent, At, Good
  <2>2. Good(AfterClear(r)) /\ Good([r EXCEPT !.at = "refresh", !.phase = "clear"])
    <3>1. Good(AfterClear(r)) BY <2>1, ContinueGood DEF Free
    <3> QED BY <3>1, <2>1 DEF Free, Good, Task, Steps, Phases
  <2>3. PICK s : Good(s) /\ Goto(t, s) BY <1>2, <2>2 DEF ClearForEvent
  <2>4. task' \in [Tasks -> Task] /\ \A u \in Tasks : Good(task[u])'
    BY <1>0, <2>3, GotoGood DEF TypeInv, TypeOK
  <2>5. queue' \in SUBSET queue BY <1>2 DEF ClearForEvent
  <2>6. queue' \in SUBSET Item /\ Bounded(queue') BY <2>5, FewerType DEF TypeInv, TypeOK
  <2>7. UNCHANGED <<sessions, snapshot, held, file, tmp, mixed, handed, newest, arrived, dead,
                    faults, disturbed, unsaved, forgotten, stale, crossed, excused>>
    BY <1>2 DEF ClearForEvent, fileVars, handedVars, envVars, historyVars
  <2>8. TypeOK' BY <2>4, <2>6, <2>7 DEF TypeInv, TypeOK
  <2> QED BY <2>4, <2>6, <2>7, <2>8 DEF TypeInv
<1>3. CASE Match(t)
  <2>1. Free(r) /\ r.own # None BY <1>0, <1>1, <1>3 DEF Match, At, Good
  <2>2. Good(Processing(r, r.own, "own")) /\ Good([r EXCEPT !.at = "flush"])
    <3>1. r.own \in Stamped /\ "own" \in Phases BY <2>1, <1>0 DEF Task, Phases
    <3>2. Good(Processing(r, r.own, "own")) BY <2>1, <3>1, ProcessingGood DEF Free
    <3> QED BY <2>1, <3>2 DEF Free, Good, Task, Steps
  <2>3. PICK s : Good(s) /\ Goto(t, s) BY <1>3, <2>2 DEF Match
  <2> QED BY <1>0, <1>3, <2>3, MoveOn
      DEF Match, TypeInv, TypeOK, fileVars, handedVars, envVars, historyVars
<1>4. CASE Flush(t)
  <2>1. Free(r) /\ r.own # None BY <1>0, <1>1, <1>4 DEF Flush, At, Good
  <2>2. Good(AfterFlush(r)) BY <2>1, ContinueGood DEF Free
  <2>3. held # None => Good(Processing(r, held, "flush"))
    <3>1. held # None => held \in Stamped BY DEF TypeInv, TypeOK
    <3> QED BY <2>1, <3>1, ProcessingGood DEF Free, Phases
  <2>4. PICK s : Good(s) /\ Goto(t, s) BY <1>4, <2>2, <2>3 DEF Flush
  <2> QED BY <1>0, <1>4, <2>4, MoveOn
      DEF Flush, TypeInv, TypeOK, fileVars, handedVars, envVars, historyVars
<1>5. CASE Store(t)
  <2>1. r.own \in Stamped BY <1>0, <1>5 DEF Store, At, Good, Task
  <2> QED BY <1>0, <1>5, <2>1, IdleGood, MoveOn
      DEF Store, Free, TypeInv, TypeOK, fileVars, handedVars, envVars, historyVars
<1>6. CASE Cancel(t)
  <2>1. faults' \in 0..MaxFaults BY <1>6, FaultType DEF Cancel, TypeInv, TypeOK
  <2>2. excused' \subseteq Keys
    <3>1. CASE At(t, "apply")
      <4>1. r.doing \in Stamped BY <1>0, <3>1 DEF Good, At, Task
      <4> QED BY <1>6, <3>1, <4>1 DEF Cancel, TypeInv, TypeOK, Stamped, Keys
    <3> QED BY <1>6, <3>1 DEF Cancel, TypeInv, TypeOK
  <2>3. stale' \in BOOLEAN BY <1>6 DEF Cancel
  <2>4. held' \in Stamped \cup {None} BY <1>6 DEF Cancel, TypeInv, TypeOK
  <2> QED BY <1>0, <1>6, <2>1, <2>2, <2>3, <2>4, IdleGood, MoveOn
      DEF Cancel, Free, fileVars, handedVars
<1> QED BY <1>2, <1>3, <1>4, <1>5, <1>6

\* Taking up an event.
LEMMA TakeUpType ==
  ASSUME TypeInv, NEW t \in Tasks, TakeHeld(t) \/ Submit(t)
  PROVE  TypeInv'
<1> DEFINE r == task[t]
<1>0. Good(r) /\ r \in Task BY DEF TypeInv, TypeOK
<1>1. CASE TakeHeld(t)
  <2>1. held \in Stamped /\ "own" \in Phases BY <1>1 DEF TakeHeld, TypeInv, TypeOK, Phases
  <2>2. Good(Processing(Idle, held, "own")) BY <2>1, IdleGood, ProcessingGood DEF Free
  <2> QED BY <1>1, <2>2, MoveOn DEF TakeHeld, TypeInv, TypeOK, fileVars, handedVars, envVars, historyVars
<1>2. CASE Submit(t)
  <2>1. r.doing \in Stamped /\ Asks(r.doing) BY <1>0, <1>2 DEF Submit, At, Good, Task
  <2>2. Good([r EXCEPT !.at = "apply"]) BY <1>0, <1>2, <2>1, NoneFacts DEF Submit, At, Good, Task, Steps
  <2>3. Goto(t, [r EXCEPT !.at = "apply"]) BY <1>2 DEF Submit
  <2>4. task' \in [Tasks -> Task] /\ \A u \in Tasks : Good(task[u])'
    BY <2>2, <2>3, GotoGood DEF TypeInv, TypeOK
  <2>5. queue' \in SUBSET Item /\ Bounded(queue')
    BY <1>2, <2>1, SubmittedType DEF Submit, TypeInv, TypeOK
  <2>6. UNCHANGED <<sessions, snapshot, held, file, tmp, mixed, handed, newest, arrived, dead,
                    faults, disturbed, unsaved, forgotten, stale, crossed, excused>>
    BY <1>2 DEF Submit, fileVars, handedVars, envVars, historyVars
  <2>7. TypeOK' BY <2>4, <2>5, <2>6 DEF TypeInv, TypeOK
  <2> QED BY <2>4, <2>5, <2>6, <2>7 DEF TypeInv
<1> QED BY <1>1, <1>2

\* What PublishGood says of a step, with the rest of the state.
LEMMA PublishType ==
  ASSUME TypeInv, NEW t \in Tasks, task[t].at \notin {"open", "write", "send"},
         NEW ss \in SessionMap, Distinct(ss), NEW q \in SUBSET queue,
         NEW changed \in BOOLEAN, Publish(t, ss, q, changed),
         UNCHANGED <<held, file, tmp, mixed, handed, newest, arrived, dead, disturbed, unsaved,
                     forgotten>>,
         faults' \in 0..MaxFaults, excused' \subseteq Keys
  PROVE  TypeInv'
<1>1. Free(task[t]) BY FreeThere DEF TypeInv
<1>2. q \in SUBSET Item /\ Bounded(q) BY FewerType DEF TypeInv, TypeOK
<1>3. /\ sessions' = ss /\ queue' \in SUBSET Item /\ Bounded(queue)'
      /\ snapshot' \in Snapshot /\ ~stale'
      /\ task' \in [Tasks -> Task] /\ \A u \in Tasks : Good(task[u])'
  BY <1>1, <1>2, PublishGood DEF Free
<1>4. stale' \in BOOLEAN /\ crossed' \in BOOLEAN BY DEF Publish, TypeInv, TypeOK
<1>5. TypeOK' BY <1>3, <1>4 DEF TypeInv, TypeOK
<1> QED BY <1>3, <1>5 DEF TypeInv

\* The sections that end in finalize_guard_state().
LEMMA RefreshType ==
  ASSUME TypeInv, NEW t \in Hooks, Refresh(t)
  PROVE  TypeInv'
<1>1. t \in Tasks /\ task[t].at = "refresh" BY DEF Refresh, At, Tasks
<1>2. Publish(t, sessions, queue, FALSE) BY DEF Refresh
<1>3. UNCHANGED <<held, file, tmp, mixed, handed, newest, arrived, dead, disturbed, unsaved, forgotten,
                  faults, excused>>
  BY DEF Refresh, fileVars, handedVars, envVars
<1> QED BY <1>1, <1>2, <1>3, PublishType DEF TypeInv, TypeOK

LEMMA ApplyType ==
  ASSUME TypeInv, NEW t \in Tasks, Apply(t)
  PROVE  TypeInv'
<1> DEFINE e == task[t].doing
<1>1. task[t].at = "apply" BY DEF Apply, At
<1>2. e \in Stamped BY <1>1 DEF TypeInv, TypeOK, Good, Task
<1>3. /\ AfterEvent(sessions, e) \in SessionMap /\ Distinct(AfterEvent(sessions, e))
  BY <1>2, AfterEventType DEF TypeInv, TypeOK
<1>4. ForSessions(queue, Superseded(sessions, e)) \in SUBSET queue BY DEF ForSessions
<1>5. Publish(t, AfterEvent(sessions, e), ForSessions(queue, Superseded(sessions, e)), TRUE)
  BY DEF Apply
<1>6. UNCHANGED <<held, file, tmp, mixed, handed, newest, arrived, dead, disturbed, unsaved, forgotten,
                  faults, excused>>
  BY DEF Apply, fileVars, handedVars, envVars
<1> QED BY <1>1, <1>3, <1>4, <1>5, <1>6, PublishType DEF TypeInv, TypeOK

LEMMA ReconcileType ==
  ASSUME TypeInv, Counted, NEW aged \in SUBSET Keys, Reconcile(aged)
  PROVE  TypeInv'
<1> DEFINE gone == {k \in Keys : Lost(k, aged) \/ Pruned(k, aged)}
           excess == Excess(Left(aged))
<1>1. Reconciler \in Tasks /\ task[Reconciler].at = "idle" BY DEF Reconcile, At, Tasks
<1>2. /\ Without(Left(aged), excess) \in SessionMap /\ Distinct(Without(Left(aged), excess))
  BY LeftType DEF TypeInv, TypeOK, Counted
<1>3. ForSessions(queue, gone) \in SUBSET queue BY DEF ForSessions
<1>4. Publish(Reconciler, Without(Left(aged), excess), ForSessions(queue, gone),
              gone \cup excess # {})
  BY DEF Reconcile
<1>5. (gone \cup excess # {}) \in BOOLEAN OBVIOUS
<1>6. UNCHANGED <<held, file, tmp, mixed, handed, newest, arrived, dead, disturbed, unsaved,
                  forgotten>>
  BY DEF Reconcile, fileVars, handedVars
<1>7. faults' \in 0..MaxFaults BY FaultType DEF Reconcile, TypeInv, TypeOK
<1>8. excused' \subseteq Keys BY DEF Reconcile, TypeInv, TypeOK, Excess, Tracked
<1> QED BY <1>1, <1>2, <1>3, <1>4, <1>5, <1>6, <1>7, <1>8, PublishType

\* A task whose save is over, well or not, goes on to hand over what it carries.
LEMMA SaveEnds ==
  ASSUME NEW r, Good(r)
  PROVE  Good(AfterSave(r)) /\ AfterSave(r).send = r.send
<1>1. CASE r.send # None
  <2>1. r \in Task /\ r.send \in Snapshot BY <1>1 DEF Good, Task
  <2> QED BY <1>1, <2>1 DEF AfterSave, Good, Task, Steps
<1>2. CASE r.send = None
  <2>1. Free(Resume(r)) BY ResumeGood
  <2> QED BY <1>2, <2>1 DEF AfterSave, Free
<1> QED BY <1>1, <1>2

\* Saving and handing over.
LEMMA OutputType ==
  ASSUME TypeInv, NEW t \in Tasks, Open(t) \/ OpenFails(t) \/ Write(t) \/ WriteFails(t) \/ Send(t)
  PROVE  TypeInv'
<1> DEFINE r == task[t]
<1>0. Good(r) /\ r \in Task /\ mixed \subseteq Tasks BY DEF TypeInv, TypeOK
<1>1. CASE Open(t)
  <2>1. Good([r EXCEPT !.at = "write"]) BY <1>0, <1>1 DEF Open, At, Good, Task, Steps
  <2>2. task' \in [Tasks -> Task] /\ \A u \in Tasks : Good(task[u])'
    BY <1>1, <2>1, GotoGood DEF Open, TypeInv, TypeOK
  <2>3. mixed' \subseteq Tasks BY <1>0, <1>1 DEF Open
  <2>4. UNCHANGED <<sessions, queue, snapshot, held, file, unsaved, handed, newest, forgotten,
                    arrived, dead, faults, stale, crossed, excused>>
    BY <1>1 DEF Open, handedVars, envVars, historyVars
  <2>5. tmp' \in BOOLEAN /\ disturbed' \in BOOLEAN BY <1>1 DEF Open
  <2>6. TypeOK' BY <2>2, <2>3, <2>4, <2>5 DEF TypeInv, TypeOK
  <2> QED BY <2>2, <2>4, <2>6 DEF TypeInv
<1>2. CASE Write(t)
  <2>1. \A u \in Tasks : At(u, "write") => task[u].save \in Saved /\ Restorable(task[u].save)
    BY NoneFacts DEF At, Good, Task, TypeInv, TypeOK
  <2>2. file' = NoFile \/ file' = file \/ (file' \in Saved /\ Restorable(file'))
    BY <1>0, <1>2, <2>1 DEF Write
  <2>3. Good(AfterSave(r)) BY <1>0, SaveEnds
  <2>4. task' \in [Tasks -> Task] /\ \A u \in Tasks : Good(task[u])'
    BY <1>2, <2>3, GotoGood DEF Write, TypeInv, TypeOK
  <2>5. UNCHANGED <<sessions, queue, snapshot, held, unsaved, handed, newest, forgotten, arrived,
                    dead, faults, stale, crossed, excused>>
    BY <1>2 DEF Write, handedVars, envVars, historyVars
  <2>6. tmp' \in BOOLEAN /\ disturbed' \in BOOLEAN /\ mixed' \subseteq Tasks
    BY <1>0, <1>2 DEF Write, TypeInv, TypeOK
  <2>7. file' \in Saved \cup {NoFile} /\ (file' # NoFile => Restorable(file'))
    BY <2>2 DEF TypeInv, TypeOK
  <2>8. TypeOK' BY <2>4, <2>5, <2>6, <2>7 DEF TypeInv, TypeOK
  <2> QED BY <2>4, <2>5, <2>7, <2>8 DEF TypeInv
<1>3. CASE Send(t)
  <2>1. r.send \in Snapshot BY <1>0, <1>3 DEF Send, At, Good, Task
  <2>2. handed' \in Snapshot /\ newest' \in Nat
    BY <1>3, <2>1 DEF Send, Later, Snapshot, TypeInv, TypeOK
  <2>3. Good(Resume(r)) BY <1>0, ResumeGood DEF Free
  <2>4. task' \in [Tasks -> Task] /\ \A u \in Tasks : Good(task[u])'
    BY <1>3, <2>3, GotoGood DEF Send, TypeInv, TypeOK
  <2>5. UNCHANGED <<sessions, queue, snapshot, held, file, tmp, mixed, disturbed, unsaved,
                    forgotten, arrived, dead, faults, stale, crossed, excused>>
    BY <1>3 DEF Send, fileVars, envVars, historyVars
  <2>6. TypeOK' BY <2>2, <2>4, <2>5 DEF TypeInv, TypeOK
  <2> QED BY <2>4, <2>5, <2>6 DEF TypeInv
<1>4. CASE OpenFails(t) \/ WriteFails(t)
  <2>1. r.at \in {"open", "write"} /\ Goto(t, AfterSave(r)) /\ unsaved' = Later(unsaved, r.save.seq)
    BY <1>4 DEF OpenFails, WriteFails, Unsaved, At
  <2>2. r.save \in Saved /\ Good(AfterSave(r)) BY <1>0, <2>1, SaveEnds DEF Good, Task
  <2>3. unsaved' \in Nat BY <2>1, <2>2 DEF Later, Saved, TypeInv, TypeOK
  <2>4. task' \in [Tasks -> Task] /\ \A u \in Tasks : Good(task[u])'
    BY <2>1, <2>2, GotoGood DEF TypeInv, TypeOK
  <2>5. mixed' \subseteq Tasks BY <1>0, <1>4 DEF OpenFails, WriteFails
  <2>6. UNCHANGED <<sessions, queue, snapshot, held, file, tmp, disturbed, handed, newest, forgotten,
                    arrived, dead, faults, stale, crossed, excused>>
    BY <1>4 DEF OpenFails, WriteFails, handedVars, envVars, historyVars
  <2>7. TypeOK' BY <2>3, <2>4, <2>5, <2>6 DEF TypeInv, TypeOK
  <2> QED BY <2>4, <2>6, <2>7 DEF TypeInv
<1> QED BY <1>1, <1>2, <1>3, <1>4

\* Time and exits.
LEMMA EnvironmentType ==
  ASSUME TypeInv, (\E i \in queue : Expire(i)) \/ (\E p \in Pids : ProcessExits(p))
  PROVE  TypeInv'
<1>1. ASSUME NEW i \in queue, Expire(i) PROVE TypeInv'
  <2> DEFINE j == [i EXCEPT !.old = TRUE]
  <2>1. i \in Item BY DEF TypeInv, TypeOK
  <2>2. j \in Item /\ j.born = i.born BY <2>1 DEF Item
  <2>3. queue' = (queue \ {i}) \cup {j} BY <1>1 DEF Expire
  <2> HIDE DEF j
  <2>4. queue' \subseteq Item BY <2>2, <2>3 DEF TypeInv, TypeOK
  <2>5. Bounded(queue')
    <3>1. PICK n \in Nat : \A k \in queue : k.born <= n BY DEF TypeInv, Bounded
    <3>2. \A k \in queue' : k.born <= n BY <2>2, <2>3, <3>1
    <3> QED BY <3>2 DEF Bounded
  <2>6. UNCHANGED <<sessions, snapshot, held, task, file, tmp, mixed, handed, newest, arrived,
                    dead, disturbed, unsaved, forgotten, crossed, excused>> /\ stale' = TRUE
    BY <1>1 DEF Expire, fileVars, handedVars
  <2>7. faults' \in 0..MaxFaults BY <1>1, FaultType DEF Expire, TypeInv, TypeOK
  <2>8. TypeOK' BY <2>4, <2>6, <2>7 DEF TypeInv, TypeOK
  <2> QED BY <2>5, <2>6, <2>8 DEF TypeInv
<1>2. ASSUME NEW p \in Pids, ProcessExits(p) PROVE TypeInv'
  <2>1. faults' \in 0..MaxFaults /\ dead' \subseteq Pids
    BY <1>2, FaultType DEF ProcessExits, TypeInv, TypeOK
  <2>2. UNCHANGED <<sessions, queue, snapshot, held, task, file, tmp, mixed, handed, newest,
                    arrived, disturbed, unsaved, forgotten, stale, crossed, excused>>
    BY <1>2 DEF ProcessExits, historyVars, fileVars, handedVars
  <2>3. TypeOK' BY <2>1, <2>2 DEF TypeInv, TypeOK
  <2> QED BY <2>2, <2>3 DEF TypeInv
<1> QED BY <1>1, <1>2

\* What the agent restores, from the file or without it.
LEMMA RestoredGood ==
  ASSUME TypeInv
  PROVE  LastSaved \in Saved /\ Restorable(LastSaved) /\ LastSaved.seq = file.seq
<1>1. NoSessions \in SessionMap /\ Distinct(NoSessions)
  BY DEF NoSessions, SessionMap, Distinct, Tracked
<1>2. ViewOf(NoSessions, {}) \in View
      /\ [ViewOf(NoSessions, {}) EXCEPT !.pending = None] = ViewOf(NoSessions, {})
  <2>1. {} \in SUBSET Item /\ Bounded({}) BY DEF Bounded
  <2> QED BY <1>1, <2>1, ViewType
<1>3. Fresh \in Saved /\ Restorable(Fresh) /\ Fresh.seq = NoFile.seq
  BY <1>1, <1>2 DEF Fresh, Saved, Restorable, NoFile
<1> QED BY <1>3 DEF LastSaved, TypeInv, TypeOK

\* A restart.
LEMMA RestartType ==
  ASSUME TypeInv, Restart
  PROVE  TypeInv' /\ snapshot'.seq = file.seq /\ snapshot'.view = ViewOf(sessions', {})
<1>1. LastSaved \in Saved /\ Restorable(LastSaved) /\ LastSaved.seq = file.seq BY RestoredGood
<1>2. snapshot' = [seq |-> LastSaved.seq, view |-> [LastSaved.view EXCEPT !.pending = None]]
      /\ sessions' = Restored(LastSaved)
  BY DEF Restart, StartFrom
<1>3. newest' = Later(newest, LastSaved.seq) BY DEF Restart, StartFrom
<1>4. sessions' \in SessionMap /\ Distinct(sessions') BY <1>1, <1>2, RestoredType
<1>5. snapshot'.seq = file.seq /\ snapshot'.view = ViewOf(sessions', {})
  BY <1>1, <1>2, RestoredType
<1>6. snapshot' \in Snapshot
  <2>1. LastSaved.view \in View /\ LastSaved.seq \in Nat BY <1>1 DEF Saved
  <2>2. [LastSaved.view EXCEPT !.pending = None] \in View BY <2>1 DEF View
  <2> QED BY <1>2, <2>1, <2>2 DEF Snapshot
<1>7. newest' \in Nat BY <1>1, <1>3 DEF Later, Saved, TypeInv, TypeOK
<1>8. /\ task' \in [Tasks -> Task] /\ \A u \in Tasks : Good(task'[u])
  BY IdleGood DEF Restart, StartFrom, Free, Good
<1>9. faults' \in 0..MaxFaults BY FaultType DEF Restart, StartFrom, TypeInv, TypeOK
<1>10. /\ queue' = {} /\ held' = None /\ handed' = snapshot' /\ mixed' = {} /\ tmp' = FALSE
       /\ stale' = FALSE /\ crossed' = FALSE /\ excused' = {} /\ forgotten' = unsaved
       /\ UNCHANGED <<file, disturbed, unsaved, arrived, dead>>
  BY DEF Restart, StartFrom
<1>11. TypeOK' BY <1>4, <1>6, <1>7, <1>8, <1>9, <1>10 DEF TypeInv, TypeOK
<1>12. Bounded(queue)' BY <1>10 DEF Bounded
<1> QED BY <1>4, <1>5, <1>8, <1>10, <1>11, <1>12 DEF TypeInv

\* Every step keeps the types.
LEMMA TypeStep == TypeInv /\ Counted /\ [Next]_vars => TypeInv'
<1> SUFFICES ASSUME TypeInv, Counted, [Next]_vars PROVE TypeInv' OBVIOUS
<1>1. ASSUME NEW t \in Hooks, (\E e \in Events : Arrive(t, e)) \/ Handler(t) \/ Cancel(t)
      PROVE  TypeInv'
  BY <1>1, ArriveType, HandlerType, RefreshType DEF Handler
<1>2. ASSUME NEW t \in Timers, TakeHeld(t) PROVE TypeInv'
  BY <1>2, TakeUpType DEF Tasks
<1>3. ASSUME NEW t \in Tasks, Work(t) PROVE TypeInv'
  BY <1>3, TakeUpType, ApplyType, OutputType DEF Work
<1>4. CASE Reconciles BY <1>4, ReconcileType DEF Reconciles
<1>5. CASE UNCHANGED vars
  <2>1. UNCHANGED <<sessions, queue, snapshot, held, task, file, tmp, mixed, handed, newest, arrived,
                    dead, faults, disturbed, unsaved, forgotten, stale, crossed, excused>>
    BY <1>5 DEF vars, fileVars, handedVars, envVars, historyVars
  <2> QED BY <2>1 DEF TypeInv, TypeOK
<1> QED BY <1>1, <1>2, <1>3, <1>4, <1>5, EnvironmentType, RestartType DEF Next

(***************************************************************************)
(* The level                                                               *)
(***************************************************************************)
\* A step of task t: the others stay where they are.
LEMMA OthersStay ==
  ASSUME TypeInv, NEW t \in Tasks, NEW r, Goto(t, r)
  PROVE  task'[t] = r /\ \A u \in Tasks \ {t} : task'[u] = task[u]
BY DEF Goto, TypeInv, TypeOK

\* A section that publishes shows what it leaves, and carries what it shows;
\* t is the one task that moves.
Shown(t) ==
  /\ snapshot'.view = ViewOf(sessions', Live(queue'))
  /\ task[t].send = None
  /\ task'[t].send = snapshot' \/ (task'[t].send = None /\ snapshot' = snapshot)
  /\ task'[t].at # "send"
  /\ \A u \in Tasks \ {t} : task'[u] = task[u]
  /\ UNCHANGED <<file, mixed, disturbed, unsaved, newest, forgotten>>

LEMMA PublishShown ==
  ASSUME TypeInv, Counted,
         NEW t \in Tasks, (t \in Hooks /\ Refresh(t)) \/ Apply(t) \/ (t = Reconciler /\ Reconciles)
  PROVE  Shown(t)
<1>1. task[t].at \notin {"open", "write", "send"}
  BY DEF Refresh, Apply, Reconciles, Reconcile, At
<1>2. Free(task[t]) BY <1>1, FreeThere DEF TypeInv
<1>3. PICK ss \in SessionMap, q \in SUBSET queue, changed \in BOOLEAN :
        Distinct(ss) /\ Publish(t, ss, q, changed)
  <2>1. CASE Refresh(t) BY <2>1 DEF Refresh, TypeInv, TypeOK
  <2>2. CASE Apply(t)
    <3>1. task[t].doing \in Stamped BY <2>2 DEF Apply, At, TypeInv, TypeOK, Good, Task
    <3> QED BY <2>2, <3>1, AfterEventType DEF Apply, ForSessions, TypeInv, TypeOK
  <2>3. ASSUME t = Reconciler, NEW aged \in SUBSET Keys, Reconcile(aged)
        PROVE  \E ss \in SessionMap, q \in SUBSET queue, changed \in BOOLEAN :
                 Distinct(ss) /\ Publish(t, ss, q, changed)
    <3> DEFINE gone == {k \in Keys : Lost(k, aged) \/ Pruned(k, aged)}
               ss == Without(Left(aged), Excess(Left(aged)))
    <3>1. ss \in SessionMap /\ Distinct(ss) BY LeftType DEF TypeInv, TypeOK, Counted
    <3>2. ForSessions(queue, gone) \in SUBSET queue BY DEF ForSessions
    <3>3. Publish(t, ss, ForSessions(queue, gone), gone \cup Excess(Left(aged)) # {})
      BY <2>3 DEF Reconcile
    <3>4. (gone \cup Excess(Left(aged)) # {}) \in BOOLEAN OBVIOUS
    <3> QED BY <3>1, <3>2, <3>3, <3>4
  <2> QED BY <2>1, <2>2, <2>3 DEF Reconciles
<1>4. q \in SUBSET Item /\ Bounded(q) BY FewerType DEF TypeInv, TypeOK
<1>5. /\ queue' = Live(q) /\ snapshot'.view = ViewOf(sessions', queue')
      /\ \A u \in Tasks \ {t} : task'[u] = task[u]
      /\ task'[t].send = snapshot' \/ (task'[t].send = None /\ snapshot' = snapshot)
      /\ task'[t].at # "send"
  BY <1>2, <1>3, <1>4, PublishGood DEF Free
<1>6. Live(queue') = queue' BY <1>5 DEF Live
<1>7. UNCHANGED <<file, mixed, disturbed, unsaved, newest, forgotten>>
  BY DEF Refresh, Apply, Reconciles, Reconcile, fileVars, handedVars
<1> QED BY <1>2, <1>5, <1>6, <1>7 DEF Shown, Free

\* The steps that save and hand over.
Failing(t) == OpenFails(t) \/ WriteFails(t)
Outer(t) == Open(t) \/ Write(t) \/ Failing(t) \/ Send(t)

\* The steps of a task outside finalize_guard_state() that touch neither the
\* queue nor the sessions: none of them was about to show a change.
Quiet(t) ==
  \/ \E e \in Events : Arrive(t, e)
  \/ Match(t) \/ Flush(t) \/ Store(t) \/ TakeHeld(t) \/ Outer(t)

LEMMA QuietStep ==
  ASSUME TypeInv, NEW t \in Tasks, Quiet(t)
  PROVE  /\ ~Showing(t) /\ UNCHANGED <<sessions, queue, snapshot, stale, excused>>
         /\ \A u \in Tasks \ {t} : task'[u] = task[u]
<1>1. CASE ~Outer(t)
  <2>1. ~Showing(t) BY <1>1 DEF Quiet, Showing, At, Arrive, Match, Flush, Store, TakeHeld
  <2>2. UNCHANGED <<sessions, queue, snapshot, stale, excused>>
    BY <1>1 DEF Quiet, Arrive, Match, Flush, Store, TakeHeld, historyVars
  <2>3. \E r : Goto(t, r) BY <1>1 DEF Quiet, Arrive, Match, Flush, Store, TakeHeld
  <2> QED BY <2>1, <2>2, <2>3, OthersStay
<1>2. CASE Outer(t)
  <2>1. ~Showing(t)
    BY <1>2 DEF Outer, Failing, Showing, At, Open, OpenFails, Write, WriteFails, Send
  <2>2. UNCHANGED <<sessions, queue, snapshot, stale, excused>>
    BY <1>2 DEF Outer, Failing, Open, OpenFails, Write, WriteFails, Send, historyVars
  <2>3. \E r : Goto(t, r)
    BY <1>2 DEF Outer, Failing, Open, OpenFails, Write, WriteFails, Unsaved, Send
  <2> QED BY <2>1, <2>2, <2>3, OthersStay
<1> QED BY <1>1, <1>2

\* The steps of the agent, sorted by what they do to the display.
LEMMA Sorted ==
  ASSUME [Next]_vars
  PROVE  \/ \E t \in Tasks : Quiet(t) \/ Submit(t)
         \/ \E t \in Hooks : ClearForEvent(t) \/ Cancel(t)
         \/ \E t \in Tasks : (t \in Hooks /\ Refresh(t)) \/ Apply(t) \/ (t = Reconciler /\ Reconciles)
         \/ \E i \in queue : Expire(i)
         \/ \E p \in Pids : ProcessExits(p)
         \/ Restart
         \/ UNCHANGED vars
BY DEF Next, Handler, Work, Quiet, Outer, Failing, Tasks

LEMMA LevelStep == TypeInv /\ Counted /\ LevelShown /\ [Next]_vars => LevelShown'
<1> SUFFICES ASSUME TypeInv, Counted, LevelShown, [Next]_vars PROVE LevelShown' OBVIOUS
<1>1. ASSUME NEW t \in Tasks, Quiet(t) PROVE LevelShown'
  BY <1>1, QuietStep DEF LevelShown, Showing, At
<1>2. ASSUME NEW t \in Tasks, Submit(t) PROVE LevelShown'
  <2>1. At(t, "submit") /\ Goto(t, [task[t] EXCEPT !.at = "apply"]) BY <1>2 DEF Submit
  <2>2. Asks(task[t].doing) /\ task[t] \in Task BY <2>1 DEF At, TypeInv, TypeOK, Good
  <2>3. task'[t].at = "apply" /\ task'[t].doing = task[t].doing
    BY <2>1, <2>2, OthersStay DEF Task
  <2> QED BY <2>2, <2>3 DEF LevelShown, Showing, At
<1>3. ASSUME NEW t \in Hooks, ClearForEvent(t) PROVE LevelShown'
  <2> DEFINE cleared == {i \in queue : Clears(i, task[t].own)}
             r == IF cleared = {} THEN AfterClear(task[t])
                  ELSE [task[t] EXCEPT !.at = "refresh", !.phase = "clear"]
  <2>1. t \in Tasks /\ task[t] \in Task BY DEF Tasks, TypeInv, TypeOK
  <2>2. /\ At(t, "clear") /\ queue' = queue \ cleared /\ Goto(t, r)
        /\ UNCHANGED <<sessions, snapshot, stale>>
    BY <1>3 DEF ClearForEvent, historyVars
  <2>3. task'[t] = r /\ \A u \in Tasks \ {t} : task'[u] = task[u] BY <2>1, <2>2, OthersStay
  <2>4. CASE cleared = {}
    <3>1. queue' = queue /\ ~Showing(t) BY <2>2, <2>4 DEF Showing, At
    <3> QED BY <2>2, <2>3, <3>1 DEF LevelShown, Showing, At
  <2>5. CASE cleared # {}
    <3>1. task'[t].at = "refresh" BY <2>1, <2>3, <2>5 DEF Task
    <3> QED BY <2>1, <3>1 DEF LevelShown, Showing, At
  <2> QED BY <2>4, <2>5
<1>4. ASSUME NEW t \in Hooks, Cancel(t) PROVE LevelShown'
  <2>1. t \in Tasks BY DEF Tasks
  <2>2. /\ stale' = (stale \/ Showing(t)) /\ Goto(t, Idle)
        /\ UNCHANGED <<sessions, queue, snapshot>>
    BY <1>4 DEF Cancel, Showing
  <2>3. \A u \in Tasks \ {t} : task'[u] = task[u] BY <2>1, <2>2, OthersStay
  <2> QED BY <2>2, <2>3 DEF LevelShown, Showing, At
<1>5. ASSUME NEW t \in Tasks,
             (t \in Hooks /\ Refresh(t)) \/ Apply(t) \/ (t = Reconciler /\ Reconciles)
      PROVE  LevelShown'
  BY <1>5, PublishShown DEF Shown, LevelShown
<1>6. ASSUME NEW i \in queue, Expire(i) PROVE LevelShown'
  BY <1>6 DEF Expire, LevelShown
<1>7. ASSUME NEW p \in Pids, ProcessExits(p) PROVE LevelShown'
  BY <1>7 DEF ProcessExits, historyVars, LevelShown, Showing, At
<1>8. CASE Restart
  <2>1. queue' = {} BY <1>8 DEF Restart, StartFrom
  <2>2. Live(queue') = {} BY <2>1 DEF Live
  <2> QED BY <1>8, <2>2, RestartType DEF LevelShown
<1>9. CASE UNCHANGED vars
  BY <1>9 DEF vars, historyVars, LevelShown, Showing, At
<1> QED BY <1>1, <1>2, <1>3, <1>4, <1>5, <1>6, <1>7, <1>8, <1>9, Sorted

(***************************************************************************)
(* From the lock to the device worker                                      *)
(***************************************************************************)
\* Where a task is, it carries only what its step hands over.
LEMMA Carries ==
  ASSUME TypeInv, NEW u \in Tasks, task[u].send # None
  PROVE  task[u].at \in {"open", "write", "send"}
BY DEF TypeInv, Good

LEMMA CarriedStep == TypeInv /\ Counted /\ NewestCarried /\ [Next]_vars => NewestCarried'
<1> SUFFICES ASSUME TypeInv, Counted, NewestCarried, [Next]_vars PROVE NewestCarried' OBVIOUS
<1>0. snapshot \in Snapshot /\ snapshot # None /\ newest \in Nat /\ task \in [Tasks -> Task]
  BY NoneFacts DEF TypeInv, TypeOK
<1>1. ASSUME NEW t \in Tasks, NEW r, Goto(t, r), UNCHANGED <<snapshot, newest>>,
             task[t].at \notin {"open", "write", "send"} \/ r.send = task[t].send
      PROVE  NewestCarried'
  <2>1. task'[t] = r /\ \A u \in Tasks \ {t} : task'[u] = task[u] BY <1>1, OthersStay
  <2>2. task[t].send = None \/ r.send = task[t].send BY <1>1, Carries
  <2> QED BY <1>0, <1>1, <2>1, <2>2 DEF NewestCarried
<1>2. ASSUME NEW t \in Tasks, Quiet(t), ~Outer(t) PROVE NewestCarried'
  <2>1. /\ UNCHANGED <<snapshot, newest>> /\ \E r : Goto(t, r)
        /\ task[t].at \notin {"open", "write", "send"}
    BY <1>2 DEF Quiet, Arrive, Match, Flush, Store, TakeHeld, At, handedVars
  <2> QED BY <1>1, <2>1
<1>3. ASSUME NEW t \in Tasks, Open(t) PROVE NewestCarried'
  <2>1. Goto(t, [task[t] EXCEPT !.at = "write"]) /\ UNCHANGED <<snapshot, newest>>
    BY <1>3 DEF Open, handedVars
  <2>2. [task[t] EXCEPT !.at = "write"].send = task[t].send BY <1>0 DEF Task
  <2> QED BY <1>1, <2>1, <2>2
<1>4. ASSUME NEW t \in Tasks, Write(t) \/ Failing(t) PROVE NewestCarried'
  <2>1. Goto(t, AfterSave(task[t])) /\ UNCHANGED <<snapshot, newest>>
    BY <1>4 DEF Write, Failing, OpenFails, WriteFails, Unsaved, handedVars
  <2>2. AfterSave(task[t]).send = task[t].send BY SaveEnds DEF TypeInv
  <2> QED BY <1>1, <2>1, <2>2
<1>5. ASSUME NEW t \in Tasks, Send(t) PROVE NewestCarried'
  <2>1. /\ task[t].at = "send" /\ newest' = Later(newest, task[t].send.seq) /\ snapshot' = snapshot
        /\ \E r : Goto(t, r)
    BY <1>5 DEF Send, At
  <2>2. task[t].send \in Snapshot BY <1>0, <2>1 DEF TypeInv, Good, Task
  <2>3. newest' >= newest /\ newest' >= task[t].send.seq /\ newest' \in Nat
    BY <1>0, <2>1, <2>2 DEF Later, Snapshot
  <2>4. \A u \in Tasks \ {t} : task'[u] = task[u] BY <2>1, OthersStay
  <2>5. CASE task[t].send = snapshot BY <2>1, <2>3, <2>5 DEF NewestCarried
  <2>6. CASE \E u \in Tasks \ {t} : task[u].send = snapshot
    BY <2>1, <2>4, <2>6 DEF NewestCarried
  <2>7. CASE snapshot.seq <= newest BY <1>0, <2>1, <2>3, <2>7 DEF NewestCarried, Snapshot
  <2> QED BY <2>5, <2>6, <2>7 DEF NewestCarried
<1>6. ASSUME NEW t \in Tasks, Submit(t) PROVE NewestCarried'
  <2>1. UNCHANGED <<snapshot, newest>> /\ (\E r : Goto(t, r)) /\ task[t].at = "submit"
    BY <1>6 DEF Submit, At, handedVars
  <2> QED BY <1>1, <2>1
<1>7. ASSUME NEW t \in Hooks, ClearForEvent(t) \/ Cancel(t) PROVE NewestCarried'
  <2>1. t \in Tasks BY DEF Tasks
  <2>2. UNCHANGED <<snapshot, newest>> /\ (\E r : Goto(t, r))
        /\ task[t].at \notin {"open", "write", "send"}
    BY <1>7 DEF ClearForEvent, Cancel, At, handedVars
  <2> QED BY <1>1, <2>1, <2>2
<1>8. ASSUME NEW t \in Tasks,
             (t \in Hooks /\ Refresh(t)) \/ Apply(t) \/ (t = Reconciler /\ Reconciles)
      PROVE  NewestCarried'
  <2>1. Shown(t) BY <1>8, PublishShown
  <2>2. CASE task'[t].send = snapshot' BY <2>2 DEF NewestCarried
  <2>3. CASE snapshot' = snapshot
    BY <1>0, <2>1, <2>3 DEF Shown, NewestCarried
  <2> QED BY <2>1, <2>2, <2>3 DEF Shown
<1>9. CASE Restart
  <2>1. newest' = Later(newest, file.seq)
    BY <1>9, RestoredGood DEF Restart, StartFrom
  <2>2. snapshot'.seq = file.seq /\ file.seq \in Nat
    BY <1>9, RestartType DEF TypeInv, TypeOK, Saved, NoFile
  <2> QED BY <1>0, <2>1, <2>2 DEF NewestCarried, Later
<1>10. CASE (\E i \in queue : Expire(i)) \/ (\E p \in Pids : ProcessExits(p)) \/ UNCHANGED vars
  <2>1. UNCHANGED <<snapshot, newest, task>>
    BY <1>10 DEF Expire, ProcessExits, vars, handedVars
  <2> QED BY <2>1 DEF NewestCarried
<1> QED BY <1>2, <1>3, <1>4, <1>5, <1>6, <1>7, <1>8, <1>9, <1>10, Sorted DEF Outer

\* The steps of a task that neither publish nor save nor hand over.
Inner(t) ==
  \/ (Quiet(t) \/ Submit(t)) /\ ~Outer(t)
  \/ t \in Hooks /\ (ClearForEvent(t) \/ Cancel(t))

\* Such a task carries nothing, and is not about to hand anything over.
LEMMA InnerStep ==
  ASSUME TypeInv, Counted, [Next]_vars, NEW t \in Tasks, Inner(t)
  PROVE  /\ task[t].send = None /\ task'[t].send = None /\ task'[t].at # "send"
         /\ \A u \in Tasks \ {t} : task'[u] = task[u]
<1>1. task[t] \in Task /\ Good(task'[t]) BY TypeStep DEF TypeInv, TypeOK
<1>2. task[t].at \notin {"open", "write", "send"} /\ (\E r : Goto(t, r))
  BY DEF Inner, Quiet, Arrive, Match, Flush, Store, TakeHeld, Submit, ClearForEvent, Cancel, At
<1>3. task'[t].at \notin {"open", "write", "send"}
  <2> DEFINE Out(r) == r.at \in {"open", "write", "send"}
  <2>0. \A r : Goto(t, r) => task'[t] = r BY OthersStay
  <2>1. \A e, phase : ~Out(Processing(task[t], e, phase)) /\ ~Out(Processing(Idle, e, phase))
    BY <1>1 DEF Processing, Idle, Task
  <2>2. ~Out(AfterClear(task[t])) /\ ~Out(AfterFlush(task[t])) /\ ~Out(Idle)
    BY <1>1, <2>1 DEF AfterClear, AfterFlush, Idle, Task
  <2>3. ASSUME NEW e \in Events, Arrive(t, e) PROVE ~Out(task'[t])
    <3> DEFINE own == [hook |-> e.hook, session |-> e.session, tool |-> e.tool, prompt |-> e.prompt,
                       pid |-> e.pid, recv |-> Cardinality(arrived) + 1]
    <3>1. task'[t] = [Idle EXCEPT !.at = "clear", !.own = own] BY <2>0, <2>3 DEF Arrive
    <3> QED BY <3>1 DEF Idle
  <2>4. CASE Match(t)
    <3>1. task'[t] = Processing(task[t], task[t].own, "own") \/ task'[t] = [task[t] EXCEPT !.at = "flush"]
      BY <2>0, <2>4 DEF Match
    <3> QED BY <1>1, <2>1, <3>1 DEF Task
  <2>5. CASE Flush(t)
    <3>1. task'[t] = Processing(task[t], held, "flush") \/ task'[t] = AfterFlush(task[t])
      BY <2>0, <2>5 DEF Flush
    <3> QED BY <2>1, <2>2, <3>1
  <2>6. CASE Store(t) \/ Cancel(t) BY <2>0, <2>2, <2>6 DEF Store, Cancel
  <2>7. CASE TakeHeld(t) BY <2>0, <2>1, <2>7 DEF TakeHeld
  <2>8. CASE Submit(t) BY <1>1, <2>0, <2>8 DEF Submit, Task
  <2>9. CASE ClearForEvent(t)
    <3>1. task'[t] = AfterClear(task[t])
          \/ task'[t] = [task[t] EXCEPT !.at = "refresh", !.phase = "clear"]
      BY <2>0, <2>9 DEF ClearForEvent
    <3> QED BY <1>1, <2>2, <3>1 DEF Task
  <2> QED BY <2>3, <2>4, <2>5, <2>6, <2>7, <2>8, <2>9 DEF Inner, Quiet
<1>4. task[t].send = None BY <1>2, Carries
<1>5. task'[t].send = None BY <1>1, <1>3 DEF Good
<1> QED BY <1>2, <1>3, <1>4, <1>5, OthersStay

(***************************************************************************)
(* Saved before sent                                                       *)
(***************************************************************************)
\* As long as the saves followed one another, a save was tried of what is handed
\* over next as well.
SavedInv ==
  disturbed \/
    /\ mixed = {}
    /\ Tried(newest)
    /\ \A t \in Tasks : task[t].at = "send" => Tried(task[t].send.seq)

\* What was saved or failed to be, stays so: the file and the failures only grow.
LEMMA TriedStays ==
  ASSUME NEW n \in Nat, file.seq \in Nat, file'.seq \in Nat, unsaved \in Nat, unsaved' \in Nat,
         file.seq <= file'.seq, unsaved <= unsaved', Tried(n)
  PROVE  n <= file'.seq \/ n <= unsaved'
BY DEF Tried

LEMMA SavedStep == TypeInv /\ Counted /\ SavedInv /\ [Next]_vars => SavedInv'
<1> SUFFICES ASSUME TypeInv, Counted, SavedInv, [Next]_vars PROVE SavedInv' OBVIOUS
<1>0. /\ task \in [Tasks -> Task] /\ newest \in Nat /\ file.seq \in Nat
      /\ unsaved \in Nat /\ file'.seq \in Nat /\ unsaved' \in Nat
  <2>1. TypeInv' BY TypeStep
  <2> QED BY <2>1 DEF TypeInv, TypeOK, Saved, NoFile
<1>1. ASSUME NEW t \in Tasks, NEW r, Goto(t, r), r.at # "send",
             UNCHANGED <<file, mixed, disturbed, unsaved, newest>>
      PROVE  SavedInv'
  <2>1. task'[t] = r /\ \A u \in Tasks \ {t} : task'[u] = task[u] BY <1>1, OthersStay
  <2> QED BY <1>1, <2>1 DEF SavedInv, Tried
<1>2. ASSUME NEW t \in Tasks, NEW r, Free(r) PROVE r.at # "send"
  BY <1>2 DEF Free, Good
<1>3. ASSUME NEW t \in Tasks, Inner(t) PROVE SavedInv'
  <2>1. UNCHANGED <<file, mixed, disturbed, unsaved, newest>>
    BY <1>3 DEF Inner, Quiet, Arrive, Match, Flush, Store, TakeHeld, Submit, ClearForEvent, Cancel,
       fileVars, handedVars
  <2> QED BY <1>3, <2>1, InnerStep DEF SavedInv, Tried
<1>4. ASSUME NEW t \in Tasks, Open(t) PROVE SavedInv'
  <2> DEFINE others == {u \in Tasks : At(u, "write")}
  <2>1. /\ Goto(t, [task[t] EXCEPT !.at = "write"]) /\ UNCHANGED <<file, unsaved, newest>>
        /\ mixed' = IF others = {} THEN mixed ELSE mixed \cup others \cup {t}
        /\ disturbed' = (disturbed \/ others # {})
    BY <1>4 DEF Open, handedVars
  <2>2. [task[t] EXCEPT !.at = "write"].at # "send" BY <1>0 DEF Task
  <2>3. CASE others = {}
    <3>1. mixed' = mixed /\ disturbed' = disturbed
      BY <2>1, <2>3 DEF TypeInv, TypeOK
    <3> QED BY <1>1, <2>1, <2>2, <3>1
  <2>4. CASE others # {} BY <2>1, <2>4 DEF SavedInv
  <2> QED BY <2>3, <2>4
\* A save that ends, well or not, was tried, and so was what its task hands over.
<1>5. ASSUME NEW t \in Tasks, task[t].at \in {"open", "write"}, ~disturbed, Goto(t, AfterSave(task[t])),
             file.seq <= file'.seq, unsaved <= unsaved', newest' = newest, mixed' = {},
             task[t].save.seq <= file'.seq \/ task[t].save.seq <= unsaved'
      PROVE  SavedInv'
  <2>1. Good(task[t]) BY DEF TypeInv
  <2>2. task[t].save \in Saved BY <1>0, <1>5, <2>1 DEF Good, Task
  <2>3. task'[t] = AfterSave(task[t]) /\ \A u \in Tasks \ {t} : task'[u] = task[u]
    BY <1>5, OthersStay
  <2>4. Tried(newest)' BY <1>0, <1>5, TriedStays DEF SavedInv, Tried
  <2>5. ASSUME task'[t].at = "send" PROVE Tried(task[t].send.seq)'
    <3>1. Good(AfterSave(task[t])) /\ AfterSave(task[t]).send = task[t].send BY <2>1, SaveEnds
    <3>2. task[t].send # None /\ task'[t].send = task[t].send BY <2>3, <2>5, <3>1 DEF Good
    <3>3. task[t].send.seq <= task[t].save.seq BY <1>5, <2>1, <3>2 DEF Good
    <3>4. task[t].send.seq \in Nat /\ task[t].save.seq \in Nat
      BY <1>0, <2>2, <3>2 DEF Task, Snapshot, Saved
    <3> QED BY <1>0, <1>5, <3>2, <3>3, <3>4 DEF Tried
  <2>6. ASSUME NEW u \in Tasks \ {t}, task[u].at = "send" PROVE Tried(task[u].send.seq)'
    <3>1. task[u].send.seq \in Nat BY <1>0, <2>6 DEF TypeInv, Good, Task, Snapshot
    <3>2. Tried(task[u].send.seq) BY <1>5, <2>6 DEF SavedInv
    <3>3. task[u].send.seq <= file'.seq \/ task[u].send.seq <= unsaved'
      BY <1>0, <1>5, <3>1, <3>2, TriedStays
    <3> QED BY <2>3, <3>3 DEF Tried
  <2>7. \A u \in Tasks : task'[u].at = "send" => Tried(task[u].send.seq)' BY <2>3, <2>5, <2>6
  <2> QED BY <1>5, <2>4, <2>7 DEF SavedInv
<1>6. ASSUME NEW t \in Tasks, Write(t) PROVE SavedInv'
  <2> DEFINE save == task[t].save
  <2>1. /\ task[t].at = "write" /\ Goto(t, AfterSave(task[t])) /\ UNCHANGED <<newest, unsaved>>
        /\ mixed' = mixed \ {t} /\ disturbed' = (disturbed \/ save.seq < file.seq)
        /\ t \notin mixed => file' = save
    BY <1>6 DEF Write, At, handedVars
  <2>2. CASE disturbed' BY <2>2 DEF SavedInv
  <2>3. CASE ~disturbed'
    <3>1. ~disturbed /\ ~(save.seq < file.seq) BY <2>1, <2>3
    <3>2. file' = save /\ mixed' = {} BY <2>1, <3>1 DEF SavedInv
    <3>3. file.seq <= file'.seq /\ save.seq <= file'.seq BY <1>0, <3>1, <3>2
    <3> QED BY <1>0, <1>5, <2>1, <3>1, <3>2, <3>3
  <2> QED BY <2>2, <2>3
<1>7. ASSUME NEW t \in Tasks, Failing(t) PROVE SavedInv'
  <2>1. /\ task[t].at \in {"open", "write"} /\ Goto(t, AfterSave(task[t]))
        /\ UNCHANGED <<newest, file, disturbed>> /\ mixed' \subseteq mixed
        /\ unsaved' = Later(unsaved, task[t].save.seq)
    BY <1>7 DEF Failing, OpenFails, WriteFails, Unsaved, At, handedVars
  <2>2. task[t].save \in Saved BY <1>0, <2>1 DEF TypeInv, Good, Task
  <2>3. unsaved <= unsaved' /\ task[t].save.seq <= unsaved'
    BY <1>0, <2>1, <2>2 DEF Later, Saved
  <2>4. CASE disturbed BY <2>1, <2>4 DEF SavedInv
  <2>5. CASE ~disturbed
    <3>1. mixed' = {} /\ file.seq <= file'.seq BY <1>0, <2>1, <2>5 DEF SavedInv
    <3> QED BY <1>5, <2>1, <2>3, <2>5, <3>1
  <2> QED BY <2>4, <2>5
<1>8. ASSUME NEW t \in Tasks, Send(t) PROVE SavedInv'
  <2>1. /\ task[t].at = "send" /\ Goto(t, Resume(task[t]))
        /\ newest' = Later(newest, task[t].send.seq) /\ UNCHANGED <<file, mixed, disturbed, unsaved>>
    BY <1>8 DEF Send, At, fileVars
  <2>2. Free(Resume(task[t])) BY ResumeGood DEF TypeInv
  <2>3. task'[t].at # "send" /\ \A u \in Tasks \ {t} : task'[u] = task[u]
    BY <1>2, <2>1, <2>2, OthersStay
  <2>4. disturbed \/ Tried(newest') BY <2>1 DEF SavedInv, Later
  <2> QED BY <2>1, <2>3, <2>4 DEF SavedInv, Tried
<1>9. ASSUME NEW t \in Tasks,
             (t \in Hooks /\ Refresh(t)) \/ Apply(t) \/ (t = Reconciler /\ Reconciles)
      PROVE  SavedInv'
  BY <1>9, PublishShown DEF Shown, SavedInv, Tried
<1>10. CASE Restart
  <2>1. newest' = Later(newest, file.seq) /\ UNCHANGED <<file, disturbed, unsaved>> /\ mixed' = {}
    BY <1>10, RestoredGood DEF Restart, StartFrom
  <2>2. \A u \in Tasks : task'[u].at # "send" BY <1>10, IdleGood, <1>2 DEF Restart, StartFrom
  <2>3. disturbed \/ Tried(newest') BY <1>0, <2>1 DEF SavedInv, Tried, Later
  <2> QED BY <2>1, <2>2, <2>3 DEF SavedInv, Tried
<1>11. CASE (\E i \in queue : Expire(i)) \/ (\E p \in Pids : ProcessExits(p)) \/ UNCHANGED vars
  <2>1. UNCHANGED <<file, mixed, disturbed, unsaved, newest, task>>
    BY <1>11 DEF Expire, ProcessExits, vars, fileVars, handedVars
  <2> QED BY <2>1 DEF SavedInv, Tried
<1> QED BY <1>3, <1>4, <1>6, <1>7, <1>8, <1>9, <1>10, <1>11, Sorted DEF Quiet, Inner, Outer, Tasks

(***************************************************************************)
(* In the order of the numbers                                             *)
(***************************************************************************)
\* Until two tasks carry a snapshot at once, whoever carries one carries the
\* newest, and the worker has the newest of the others; only a restart behind a
\* snapshot that was not saved leaves higher numbers in the past.
OrderedInv ==
  disturbed \/
    /\ newest <= snapshot.seq \/ newest <= forgotten
    /\ \A t \in Tasks : task[t].send # None => task[t].send.seq <= snapshot.seq
    /\ \/ crossed
       \/ /\ handed.seq = newest \/ newest <= forgotten
          /\ \A t \in Tasks : task[t].send # None => task[t].send.seq = snapshot.seq

\* A section that publishes numbers the snapshot in turn, and notices another
\* that is being carried.
LEMMA Numbered ==
  ASSUME TypeInv, Counted,
         NEW t \in Tasks, (t \in Hooks /\ Refresh(t)) \/ Apply(t) \/ (t = Reconciler /\ Reconciles)
  PROVE  /\ snapshot'.seq = snapshot.seq \/ snapshot'.seq = snapshot.seq + 1
         /\ crossed' = (crossed \/ (snapshot' # snapshot /\ \E u \in Tasks \ {t} : task[u].send # None))
         /\ handed' = handed
<1>1. \E ss, q, changed : Publish(t, ss, q, changed)
  BY DEF Refresh, Apply, Reconciles, Reconcile
<1>2. handed' = handed BY DEF Refresh, Apply, Reconciles, Reconcile, handedVars
<1> DEFINE view == ViewOf(sessions', queue')
           visible == view # snapshot.view
<1>3. /\ snapshot' = IF visible THEN [seq |-> snapshot.seq + 1, view |-> view] ELSE snapshot
      /\ crossed' = (crossed \/ (visible /\ \E u \in Tasks \ {t} : task[u].send # None))
  BY <1>1 DEF Publish
<1> HIDE DEF view
<1>4. visible <=> snapshot' # snapshot BY <1>3 DEF TypeInv, TypeOK, Snapshot
<1>5. snapshot'.seq = snapshot.seq \/ snapshot'.seq = snapshot.seq + 1 BY <1>3
<1>6. crossed' = (crossed \/ (snapshot' # snapshot /\ \E u \in Tasks \ {t} : task[u].send # None))
  BY <1>3, <1>4
<1> QED BY <1>2, <1>5, <1>6

LEMMA OrderedStep ==
  TypeInv /\ Counted /\ SavedInv /\ OrderedInv /\ [Next]_vars => OrderedInv'
<1> SUFFICES ASSUME TypeInv, Counted, SavedInv, OrderedInv, [Next]_vars PROVE OrderedInv' OBVIOUS
<1>0. /\ task \in [Tasks -> Task] /\ newest \in Nat /\ snapshot.seq \in Nat /\ file.seq \in Nat
      /\ unsaved \in Nat /\ forgotten \in Nat
  BY DEF TypeInv, TypeOK, Snapshot, Saved, NoFile
<1>1. ASSUME NEW t \in Tasks, UNCHANGED <<snapshot, handed, newest, forgotten, crossed>>,
             disturbed => disturbed',
             task'[t].send \in {None, task[t].send}, \A u \in Tasks \ {t} : task'[u] = task[u]
      PROVE  OrderedInv'
  BY <1>1 DEF OrderedInv
<1>2. ASSUME NEW t \in Tasks, Inner(t) PROVE OrderedInv'
  <2>1. UNCHANGED <<snapshot, handed, newest, forgotten, crossed, disturbed>>
    BY <1>2 DEF Inner, Quiet, Arrive, Match, Flush, Store, TakeHeld, Submit, ClearForEvent, Cancel,
       fileVars, handedVars, historyVars
  <2> QED BY <1>1, <1>2, <2>1, InnerStep
<1>3. ASSUME NEW t \in Tasks, Open(t) PROVE OrderedInv'
  <2>1. Goto(t, [task[t] EXCEPT !.at = "write"]) /\ UNCHANGED <<snapshot, handed, newest, forgotten, crossed>>
        /\ (disturbed => disturbed')
    BY <1>3 DEF Open, handedVars, historyVars
  <2>2. [task[t] EXCEPT !.at = "write"].send = task[t].send BY <1>0 DEF Task
  <2> QED BY <1>1, <2>1, <2>2, OthersStay
<1>4. ASSUME NEW t \in Tasks, Write(t) \/ Failing(t) PROVE OrderedInv'
  <2>1. Goto(t, AfterSave(task[t])) /\ UNCHANGED <<snapshot, handed, newest, forgotten, crossed>>
        /\ (disturbed => disturbed')
    <3>1. CASE Write(t) BY <3>1 DEF Write, handedVars, historyVars
    <3>2. CASE Failing(t)
      BY <3>2 DEF Failing, OpenFails, WriteFails, Unsaved, handedVars, historyVars
    <3> QED BY <1>4, <3>1, <3>2
  <2>2. AfterSave(task[t]).send = task[t].send BY SaveEnds DEF TypeInv
  <2> QED BY <1>1, <2>1, <2>2, OthersStay
<1>5. ASSUME NEW t \in Tasks, Send(t) PROVE OrderedInv'
  <2>1. /\ task[t].at = "send" /\ Goto(t, Resume(task[t])) /\ handed' = task[t].send
        /\ newest' = Later(newest, task[t].send.seq) /\ UNCHANGED <<snapshot, forgotten, crossed, disturbed>>
    BY <1>5 DEF Send, At, fileVars, historyVars
  <2>2. task[t].send # None /\ task[t].send \in Snapshot
    BY <1>0, <2>1 DEF TypeInv, Good, Task
  <2>3. task'[t].send = None /\ \A u \in Tasks \ {t} : task'[u] = task[u]
    <3>1. Free(Resume(task[t])) BY ResumeGood DEF TypeInv
    <3> QED BY <2>1, <3>1, OthersStay DEF Free
  <2>4. CASE disturbed BY <2>1, <2>4 DEF OrderedInv
  <2>5. CASE ~disturbed
    <3>0. task[t].send.seq \in Nat BY <2>2 DEF Snapshot
    <3>1. /\ newest <= snapshot.seq \/ newest <= forgotten
          /\ task[t].send.seq <= snapshot.seq
          /\ crossed \/ task[t].send.seq = snapshot.seq
      BY <2>2, <2>5 DEF OrderedInv
    <3>2. newest' <= snapshot'.seq \/ newest' <= forgotten'
      BY <1>0, <2>1, <3>0, <3>1 DEF Later
    <3>3. crossed' \/ handed'.seq = newest' \/ newest' <= forgotten'
      BY <1>0, <2>1, <3>0, <3>1 DEF Later
    <3> QED BY <2>1, <2>3, <2>5, <3>2, <3>3 DEF OrderedInv
  <2> QED BY <2>4, <2>5
<1>6. ASSUME NEW t \in Tasks,
             (t \in Hooks /\ Refresh(t)) \/ Apply(t) \/ (t = Reconciler /\ Reconciles)
      PROVE  OrderedInv'
  <2>1. Shown(t) BY <1>6, PublishShown
  <2>2. /\ snapshot'.seq = snapshot.seq \/ snapshot'.seq = snapshot.seq + 1
        /\ crossed' = (crossed \/ (snapshot' # snapshot /\ \E u \in Tasks \ {t} : task[u].send # None))
        /\ handed' = handed
    BY <1>6, Numbered
  <2>3. /\ newest <= snapshot.seq => newest' <= snapshot'.seq
        /\ UNCHANGED <<newest, forgotten, disturbed>>
    BY <1>0, <2>1, <2>2 DEF Shown
  <2>4. ASSUME ~disturbed, NEW u \in Tasks, task'[u].send # None
        PROVE  task'[u].send.seq <= snapshot'.seq
    <3>1. CASE u = t BY <1>0, <2>1, <2>2, <2>4, <3>1 DEF Shown
    <3>2. CASE u # t
      <4>1. task'[u] = task[u] BY <2>1, <3>2 DEF Shown
      <4>2. task[u].send \in Snapshot BY <1>0, <2>4, <4>1 DEF Task
      <4>3. task[u].send.seq <= snapshot.seq BY <2>4, <4>1 DEF OrderedInv
      <4> QED BY <1>0, <2>2, <4>1, <4>2, <4>3 DEF Snapshot
    <3> QED BY <3>1, <3>2
  <2>5. ASSUME ~crossed', ~disturbed
        PROVE  \A u \in Tasks : task'[u].send # None => task'[u].send.seq = snapshot'.seq
    <3>1. \A u \in Tasks : task[u].send # None => task[u].send.seq = snapshot.seq
      BY <2>2, <2>5 DEF OrderedInv
    <3>2. task'[t].send # None => task'[t].send.seq = snapshot'.seq
      BY <2>1, <2>2, <2>5 DEF Shown
    <3>3. ASSUME NEW u \in Tasks \ {t}, task'[u].send # None
          PROVE  task'[u].send.seq = snapshot'.seq
      BY <2>1, <2>2, <2>5, <3>1, <3>3 DEF Shown
    <3> QED BY <3>2, <3>3
  <2>6. CASE disturbed BY <2>3, <2>6 DEF OrderedInv
  <2>7. CASE ~disturbed
    <3>1. newest <= snapshot.seq \/ newest <= forgotten BY <2>7 DEF OrderedInv
    <3>2. crossed' \/ handed'.seq = newest' \/ newest' <= forgotten'
      BY <2>2, <2>3, <2>7 DEF OrderedInv
    <3> QED BY <2>3, <2>4, <2>5, <2>7, <3>1, <3>2 DEF OrderedInv
  <2> QED BY <2>6, <2>7
<1>7. CASE Restart
  <2>1. newest' = Later(newest, file.seq) /\ handed' = snapshot' /\ UNCHANGED disturbed
        /\ forgotten' = unsaved
    BY <1>7, RestoredGood DEF Restart, StartFrom
  <2>2. snapshot'.seq = file.seq BY <1>7, RestartType
  <2>3. \A u \in Tasks : task'[u].send = None BY <1>7 DEF Restart, StartFrom, Idle
  <2>4. disturbed \/ newest' = file.seq \/ newest' <= forgotten'
    BY <1>0, <2>1 DEF SavedInv, Tried, Later
  <2> QED BY <1>0, <2>1, <2>2, <2>3, <2>4 DEF OrderedInv
<1>8. CASE (\E i \in queue : Expire(i)) \/ (\E p \in Pids : ProcessExits(p)) \/ UNCHANGED vars
  <2>1. UNCHANGED <<snapshot, handed, newest, forgotten, crossed, disturbed, task>>
    BY <1>8 DEF Expire, ProcessExits, vars, fileVars, handedVars, historyVars
  <2> QED BY <2>1 DEF OrderedInv
<1> QED BY <1>2, <1>3, <1>4, <1>5, <1>6, <1>7, <1>8, Sorted DEF Quiet, Inner, Outer, Tasks

(***************************************************************************)
(* Interactions and their sessions                                         *)
(***************************************************************************)
LEMMA PendingStep == TypeInv /\ Counted /\ PendingHasSession /\ [Next]_vars => PendingHasSession'
<1> SUFFICES ASSUME TypeInv, Counted, PendingHasSession, [Next]_vars PROVE PendingHasSession' OBVIOUS
<1>0. /\ task \in [Tasks -> Task] /\ sessions \in SessionMap /\ queue \in SUBSET Item
      /\ \A i \in queue : i.session \in Keys
  BY DEF TypeInv, TypeOK, Item, Keys
<1> DEFINE Known(i) == \/ sessions[i.session] # None
                       \/ i.session \in excused
                       \/ \E t \in Tasks : At(t, "apply") /\ task[t].doing.session = i.session
<1>1. ASSUME NEW t \in Tasks, Quiet(t) PROVE PendingHasSession'
  <2>1. ~At(t, "apply")
    BY <1>1 DEF Quiet, Outer, Failing, At, Arrive, Match, Flush, Store, TakeHeld, Open, OpenFails,
       Write, WriteFails, Send
  <2> QED BY <1>1, <2>1, QuietStep DEF PendingHasSession, At
<1>2. ASSUME NEW t \in Tasks, Submit(t) PROVE PendingHasSession'
  <2>1. /\ At(t, "submit") /\ Goto(t, [task[t] EXCEPT !.at = "apply"])
        /\ queue' = Submitted(queue, task[t].doing) /\ UNCHANGED <<sessions, excused>>
    BY <1>2 DEF Submit, historyVars
  <2>2. task[t].doing \in Stamped /\ Asks(task[t].doing) BY <1>0, <2>1 DEF TypeInv, Good, At, Task
  <2>3. \A i \in queue' : i \in queue \/ i.session = task[t].doing.session
    BY <1>0, <2>1, <2>2, SubmittedType DEF TypeInv
  <2>4. task'[t].at = "apply" /\ task'[t].doing = task[t].doing
        /\ \A u \in Tasks \ {t} : task'[u] = task[u]
    BY <1>0, <2>1, OthersStay DEF Task
  <2> QED BY <2>1, <2>3, <2>4 DEF PendingHasSession, At
<1>3. ASSUME NEW t \in Hooks, ClearForEvent(t) PROVE PendingHasSession'
  <2>1. t \in Tasks /\ ~At(t, "apply") BY <1>3 DEF ClearForEvent, Tasks, At
  <2>2. queue' \subseteq queue /\ UNCHANGED <<sessions, excused>> /\ \E r : Goto(t, r)
    BY <1>3 DEF ClearForEvent, historyVars
  <2>3. \A u \in Tasks \ {t} : task'[u] = task[u] BY <2>1, <2>2, OthersStay
  <2> QED BY <2>1, <2>2, <2>3 DEF PendingHasSession, At
<1>4. ASSUME NEW t \in Hooks, Cancel(t) PROVE PendingHasSession'
  <2>1. t \in Tasks BY DEF Tasks
  <2>2. /\ UNCHANGED <<sessions, queue>> /\ Goto(t, Idle)
        /\ excused' = IF At(t, "apply") THEN excused \cup {task[t].doing.session} ELSE excused
    BY <1>4 DEF Cancel
  <2>3. \A u \in Tasks \ {t} : task'[u] = task[u] BY <2>1, <2>2, OthersStay
  <2> QED BY <2>2, <2>3 DEF PendingHasSession, At
<1>5. ASSUME NEW t \in Hooks, Refresh(t) PROVE PendingHasSession'
  <2>1. t \in Tasks /\ ~At(t, "apply") BY <1>5 DEF Refresh, Tasks, At
  <2>2. queue' \subseteq queue /\ UNCHANGED <<sessions, excused>>
    BY <1>5 DEF Refresh, Publish, Live
  <2>3. \A u \in Tasks \ {t} : task'[u] = task[u] BY <1>5, <2>1, PublishShown DEF Shown
  <2> QED BY <2>1, <2>2, <2>3 DEF PendingHasSession, At
<1>6. ASSUME NEW t \in Tasks, Apply(t) PROVE PendingHasSession'
  <2> DEFINE e == task[t].doing
  <2>1. At(t, "apply") /\ sessions' = AfterEvent(sessions, e) /\ UNCHANGED excused
        /\ queue' = Live(ForSessions(queue, Superseded(sessions, e)))
    BY <1>6 DEF Apply, Publish
  <2>2. e \in Stamped BY <1>0, <2>1 DEF TypeInv, Good, At, Task
  <2>3. /\ sessions'[e.session] # None
        /\ \A k \in Keys : sessions[k] # None => sessions'[k] # None \/ k \in Superseded(sessions, e)
    BY <1>0, <2>1, <2>2, AfterEventType
  <2>4. \A i \in queue' : i \in queue /\ i.session \notin Superseded(sessions, e)
    BY <2>1 DEF Live, ForSessions
  <2>5. \A u \in Tasks \ {t} : task'[u] = task[u] BY <1>6, PublishShown DEF Shown
  <2>6. ASSUME NEW i \in queue'
        PROVE  \/ sessions'[i.session] # None
               \/ i.session \in excused'
               \/ \E u \in Tasks : At(u, "apply")' /\ task'[u].doing.session = i.session
    <3>1. i \in queue /\ i.session \in Keys BY <1>0, <2>4
    <3>2. CASE sessions[i.session] # None BY <2>3, <2>4, <3>1, <3>2
    <3>3. CASE i.session \in excused BY <2>1, <3>3
    <3>4. CASE \E u \in Tasks : At(u, "apply") /\ task[u].doing.session = i.session
      <4>1. PICK u \in Tasks : At(u, "apply") /\ task[u].doing.session = i.session BY <3>4
      <4>2. CASE u = t BY <2>3, <4>1, <4>2
      <4>3. CASE u # t BY <2>5, <4>1, <4>3 DEF At
      <4> QED BY <4>2, <4>3
    <3> QED BY <3>1, <3>2, <3>3, <3>4 DEF PendingHasSession
  <2> QED BY <2>6 DEF PendingHasSession
<1>7. ASSUME NEW aged \in SUBSET Keys, Reconcile(aged) PROVE PendingHasSession'
  <2> DEFINE gone == {k \in Keys : Lost(k, aged) \/ Pruned(k, aged)}
             excess == Excess(Left(aged))
  <2>1. /\ sessions' = Without(Left(aged), excess) /\ queue' = Live(ForSessions(queue, gone))
        /\ excused' = excused \cup excess /\ task[Reconciler].at = "idle" /\ Reconciler \in Tasks
    BY <1>7 DEF Reconcile, Publish, At, Tasks
  <2>2. \A k \in Keys : sessions[k] # None => sessions'[k] # None \/ k \in gone \/ k \in excess
    BY <2>1, LeftType DEF TypeInv, TypeOK, Counted
  <2>3. \A i \in queue' : i \in queue /\ i.session \notin gone BY <2>1 DEF Live, ForSessions
  <2>4. \A u \in Tasks \ {Reconciler} : task'[u] = task[u]
    BY <1>7, <2>1, PublishShown DEF Shown, Reconciles
  <2> HIDE DEF gone, excess
  <2>5. ASSUME NEW i \in queue'
        PROVE  \/ sessions'[i.session] # None
               \/ i.session \in excused'
               \/ \E u \in Tasks : At(u, "apply")' /\ task'[u].doing.session = i.session
    <3>1. i \in queue /\ i.session \in Keys /\ i.session \notin gone BY <1>0, <2>3
    <3>2. CASE sessions[i.session] # None BY <2>1, <2>2, <3>1, <3>2
    <3>3. CASE i.session \in excused BY <2>1, <3>3
    <3>4. CASE \E u \in Tasks : At(u, "apply") /\ task[u].doing.session = i.session
      BY <2>1, <2>4, <3>4 DEF At
    <3> QED BY <3>1, <3>2, <3>3, <3>4 DEF PendingHasSession
  <2> QED BY <2>5 DEF PendingHasSession
<1>8. ASSUME NEW i \in queue, Expire(i) PROVE PendingHasSession'
  <2>1. /\ queue' = (queue \ {i}) \cup {[i EXCEPT !.old = TRUE]}
        /\ UNCHANGED <<sessions, task, excused>>
    BY <1>8 DEF Expire
  <2>2. [i EXCEPT !.old = TRUE].session = i.session BY <1>0 DEF Item
  <2>3. \A j \in queue' : \E k \in queue : j.session = k.session BY <2>1, <2>2
  <2> QED BY <2>1, <2>3 DEF PendingHasSession, At
<1>9. CASE (\E p \in Pids : ProcessExits(p)) \/ UNCHANGED vars
  BY <1>9 DEF ProcessExits, vars, historyVars, PendingHasSession, At
<1>10. CASE Restart
  BY <1>10 DEF Restart, StartFrom, PendingHasSession
<1> QED BY <1>1, <1>2, <1>3, <1>4, <1>5, <1>6, <1>7, <1>8, <1>9, <1>10, Sorted DEF Reconciles

(***************************************************************************)
(* The theorems                                                            *)
(***************************************************************************)
\* Types hold in every reachable state.
LEMMA Typed == Spec => [](TypeInv /\ Counted)
<1>1. TypeInv /\ Counted /\ [Next]_vars => (TypeInv /\ Counted)' BY TypeStep, CountedStep
<1> QED BY <1>1, InitType, PTL DEF Spec

\* Every variable keeps its type, whatever the constants: among other things no
\* task reaches a step without what the step needs.
THEOREM TypeCorrect == Spec => []TypeOK
<1>1. TypeInv => TypeOK BY DEF TypeInv
<1> QED BY <1>1, Typed, PTL

\* The session map never holds two entries of one Claude process, whichever
\* handlers interleave and whatever a restart restores.
THEOREM OneEntryPerProcess == Spec => []OneSessionPerProcess
<1>1. TypeInv => OneSessionPerProcess BY DEF TypeInv, Distinct, OneSessionPerProcess
<1> QED BY <1>1, Typed, PTL

\* The snapshot is a level at every moment, whichever handlers interleave:
\* unless a change is being shown, expired, or lost its handler.
THEOREM LevelIsShown == Spec => []LevelShown
<1>1. Init => LevelShown
  <2>1. Live({}) = {} BY DEF Live
  <2> QED BY <2>1 DEF Init, LevelShown, Fresh
<1> QED BY <1>1, Typed, LevelStep, PTL DEF Spec

\* No handler loses the newest snapshot between the state lock and the device
\* worker, abandoned requests and restarts included.
THEOREM NewestIsCarried == Spec => []NewestCarried
<1>1. Init => NewestCarried BY DEF Init, NewestCarried
<1> QED BY <1>1, Typed, CarriedStep, PTL DEF Spec

\* A save was tried of whatever is handed over.
LEMMA SavesAreTried == Spec => []SavedInv
<1>1. Init => SavedInv
  <2>1. \A t \in Tasks : Idle.at # "send" BY DEF Idle
  <2> QED BY <2>1 DEF Init, SavedInv, Tried, NoFile, Idle
<1> QED BY <1>1, Typed, SavedStep, PTL DEF Spec

\* What the device may have seen is on disk, or persist_state() returned an error
\* for a snapshot as new, if the saves of the handlers neither overlap nor
\* overtake one another.
THEOREM SavesBeforeItSends == Spec => []SavedBeforeSent
<1>1. SavedInv => SavedBeforeSent BY DEF SavedInv, SavedBeforeSent
<1> QED BY <1>1, SavesAreTried, PTL

\* Snapshots reach the device worker in the order of their numbers, restarts of
\* the agent included: what breaks it is one task that numbers a snapshot while
\* another is between the state lock and the worker with its own, or a restart
\* from a file that saves disturbed or that a failed save left behind.
THEOREM HandsOverInOrder == Spec => []HandedInOrder
<1>1. Init => OrderedInv
  <2>1. \A t \in Tasks : Idle.send = None BY DEF Idle
  <2> QED BY <2>1 DEF Init, OrderedInv
<1>2. OrderedInv => HandedInOrder BY DEF OrderedInv, HandedInOrder
<1> QED BY <1>1, <1>2, Typed, SavesAreTried, OrderedStep, PTL DEF Spec

\* No interaction stays pending for a session the agent no longer tracks.
THEOREM PendingIsTracked == Spec => []PendingHasSession
<1>1. Init => PendingHasSession BY DEF Init, PendingHasSession
<1> QED BY <1>1, Typed, PendingStep, PTL DEF Spec
=============================================================================
