------------------------------ MODULE ClaudeAgent ------------------------------
(***************************************************************************)
(* The host agent (tools/esp32dash/src/agent.rs, pending.rs): every hook   *)
(* of Claude Code is a request whose handler folds one event into a map of *)
(* sessions and a queue of pending interactions, derives from both the one *)
(* snapshot the device should show, saves it and hands it to the device    *)
(* worker.  Handlers, the timers of held tool events and the reconcile     *)
(* task run on a thread pool; each step below is one section under the     *)
(* state lock, or one file or channel operation after it.  Claude Code     *)
(* abandons a hook after 100 ms, which drops its handler at a lock.        *)
(*                                                                         *)
(* A session is its number, in the order of the keys; 0 stands for no      *)
(* session and for the key "__restored__".  A view is what                 *)
(* materially_equal() compares: texts follow from session and hook, and    *)
(* all tools are of one coarse type.  Times are counts of received events. *)
(***************************************************************************)
EXTENDS Integers, FiniteSets

CONSTANTS
  Hooks,        \* handlers of POST /v1/claude/events
  Timers,       \* tasks spawned by handle_pre_tool()
  Reconciler,   \* the task of reconcile_sessions()
  LastSession,  \* the sessions are 1..LastSession
  Tools, Prompts, Pids,
  Events,       \* the hook events Claude Code sends, each once
  MaxSessions,  \* MAX_TRACKED_SESSIONS
  MaxEvents,    \* bound on the events
  MaxFaults,    \* bound on restarts, dropped handlers, exits, ages reached, and
                \* hooks sent while another of the same process is handled
  MaxUnsaved,   \* bound on the snapshots whose save may fail by itself: the highest seq
  None

VARIABLES
  sessions,   \* AgentState.sessions
  queue,      \* AgentState.pending: items numbered oldest first
  snapshot,   \* AgentState.snapshot and seq
  held,       \* AgentState.pending_tool
  task,       \* where each task is, and what it carries
  file,       \* the state file
  tmp,        \* state.json.tmp exists
  mixed,      \* tasks whose write to it overlaps another's
  handed,     \* the snapshot last given to the device worker
  arrived,    \* the events sent
  dead,       \* Claude processes that have exited
  faults,     \* how many things have gone wrong
  \* What happened, for the properties:
  newest,     \* the highest seq handed over
  unsaved,    \* the highest seq whose save failed
  forgotten,  \* unsaved, as it was when the agent last started
  disturbed,  \* a save overlapped another or followed a newer one
  stale,      \* nobody will show what changed since the last snapshot
  crossed,    \* a task numbered a snapshot while another carried one
  excused     \* sessions that may be missing under a pending interaction

fileVars == <<file, tmp, mixed, disturbed, unsaved>>
handedVars == <<handed, newest, forgotten>>
envVars == <<arrived, dead, faults>>
historyVars == <<stale, crossed, excused>>
vars == <<sessions, queue, snapshot, held, task, fileVars, handedVars, envVars, historyVars>>

Tasks == Hooks \cup Timers \cup {Reconciler}
Sessions == 1..LastSession
Keys == Sessions \cup {0}
Orders == 0..MaxEvents

HookNames == {"SessionStart", "UserPromptSubmit", "PreToolUse", "PostToolUse", "PostToolUseFailure",
  "PermissionRequest", "PermissionDenied", "PreCompact", "PostCompact", "Elicitation",
  "ElicitationResult", "SubagentStart", "SubagentStop", "Notification", "AskingNotification",
  "Stop", "StopFailure", "SessionEnd"}
Notifications == {"Notification", "AskingNotification"}  \* by their text
PostTool == {"PostToolUse", "PostToolUseFailure"}
Event == [hook : HookNames, session : Sessions, tool : Tools \cup {None},
          prompt : Prompts \cup {None}, pid : Pids \cup {None}]
Stamped == [hook : HookNames, session : Sessions, tool : Tools \cup {None},
            prompt : Prompts \cup {None}, pid : Pids \cup {None}, recv : Orders]
Statuses == {"waiting", "running", "processing", "compacting", "unknown", "ended"}
Entry == [status : Statuses, hook : HookNames \cup {"SessionLivenessLost", "none"},
          pid : Pids \cup {None}, last : Orders]
SessionMap == [Keys -> Entry \cup {None}]
Kinds == {"approval", "elicitation", "question"}
Item == [kind : Kinds, session : Sessions, tool : Tools \cup {None},
         prompt : Prompts \cup {None}, born : Nat, old : BOOLEAN]
View == [session : Keys, status : Statuses, hook : HookNames \cup {"SessionLivenessLost", "none"},
         pending : Kinds \cup {None}]
Snapshot == [seq : Nat, view : View]
Saved == [seq : Nat, view : View, sessions : SessionMap]
NoFile == [seq |-> 0, view |-> None, sessions |-> None]  \* none, or not JSON

ASSUME AgentAssumption ==
  /\ LastSession \in Nat
  /\ Hooks \cap Timers = {}
  /\ Reconciler \notin Hooks \cup Timers
  /\ Events \subseteq Event
  /\ MaxSessions \in Nat \ {0}
  /\ MaxEvents \in Nat /\ MaxFaults \in Nat /\ MaxUnsaved \in Nat
  /\ None \notin Sessions /\ None \notin Pids /\ None \notin Kinds
  /\ None \notin Entry /\ None \notin Stamped
  /\ None \notin Snapshot /\ None \notin Saved

(***************************************************************************)
(* pending.rs                                                              *)
(***************************************************************************)
Asks(e) == e.hook = "PermissionRequest" \/ e.prompt # None

\* maybe_submit_approval_for_event(), maybe_submit_prompt_for_event()
ItemOf(e, n) ==
  [kind |-> IF e.hook = "PermissionRequest" THEN "approval"
            ELSE IF e.hook = "PreToolUse" THEN "question" ELSE "elicitation",
   session |-> e.session, tool |-> e.tool, prompt |-> e.prompt, born |-> n, old |-> FALSE]

\* build_approval_id(), build_prompt_id()
SameId(i, j) ==
  /\ i.kind = j.kind
  /\ i.session = j.session
  /\ IF i.kind = "elicitation" THEN i.prompt = j.prompt ELSE i.tool = j.tool

Freshest(q) == CHOOSE i \in q : \A j \in q : i.born >= j.born
NextBorn(q) == IF q = {} THEN 1 ELSE Freshest(q).born + 1

\* PendingQueue::submit()
Submitted(q, e) ==
  LET item == ItemOf(e, NextBorn(q)) IN {i \in q : ~SameId(i, item)} \cup {item}

\* event_clears()
Clears(i, e) ==
  /\ i.session = e.session
  /\ e.hook \notin Notifications
  /\ CASE i.kind = "approval" -> /\ e.hook # "PermissionRequest"
                                 /\ i.tool = e.tool \/ None \in {i.tool, e.tool}
       [] i.kind = "question" -> ~(e.hook = "PreToolUse" /\ e.tool = i.tool /\ e.prompt = i.prompt)
       [] i.kind = "elicitation" -> ~(e.hook = "Elicitation" /\ e.prompt = i.prompt)

\* Mutant: the queue is not told of sessions that are gone.
ForNoSession(q, gone) == q

ForSessions(q, gone) == {i \in q : i.session \notin gone}
Live(q) == {i \in q : ~i.old}

\* PendingQueue::current(): the freshest approval, else the freshest prompt.
Pending(q) ==
  LET approvals == {i \in q : i.kind = "approval"}
  IN IF q = {} THEN None ELSE IF approvals # {} THEN "approval" ELSE Freshest(q).kind

(***************************************************************************)
(* normalizer.rs, and the session map                                      *)
(***************************************************************************)
Tracked(ss) == {k \in Keys : ss[k] # None}
Active(entry) == entry.status \in {"waiting", "running", "processing", "compacting"}

\* map_status(), preserve_activity_status(), apply_notification_status()
StatusAfter(e, entry) ==
  CASE e.hook \in {"PermissionRequest", "PermissionDenied", "Elicitation", "AskingNotification",
                "StopFailure"} -> "waiting"
    [] e.hook = "PreToolUse" -> IF e.prompt # None THEN "waiting" ELSE "running"
    [] e.hook = "PreCompact" -> "compacting"
    [] e.hook \in {"UserPromptSubmit", "PostToolUse", "PostToolUseFailure", "PostCompact",
                   "ElicitationResult", "SubagentStart"} -> "processing"
    [] e.hook = "SubagentStop" -> IF entry # None /\ Active(entry) THEN entry.status ELSE "processing"
    [] e.hook = "Notification" -> IF entry # None THEN entry.status ELSE "unknown"
    [] e.hook = "SessionEnd" -> "ended"
    [] OTHER -> "unknown"

Unread(entry) ==
  \/ entry.hook \in {"PermissionRequest", "PermissionDenied", "Elicitation", "AskingNotification",
                     "Stop", "StopFailure", "SessionEnd"}
  \/ entry.hook = "PreToolUse" /\ entry.status = "waiting"

EntryAfter(e, entry) ==
  [status |-> StatusAfter(e, entry), hook |-> e.hook, last |-> e.recv,
   pid |-> IF e.hook = "SessionEnd" THEN None
           ELSE IF e.pid # None \/ entry = None THEN e.pid ELSE entry.pid]

\* Mutant: a session that shows activity is not superseded.
SupersededIdle(ss, e) ==
  {k \in Tracked(ss) \ {e.session} : e.pid # None /\ ss[k].pid = e.pid /\ ~Active(ss[k])}

\* The sessions a process has left behind.
Superseded(ss, e) ==
  IF e.pid = None THEN {} ELSE {k \in Tracked(ss) \ {e.session} : ss[k].pid = e.pid}

\* apply_event_to_sessions()
AfterEvent(ss, e) ==
  [k \in Keys |-> IF k = e.session THEN EntryAfter(e, ss[k])
                  ELSE IF k \in Superseded(ss, e) THEN None ELSE ss[k]]

\* display_priority()
Priority(status) ==
  CASE status = "waiting" -> 5 [] status = "running" -> 4 [] status = "processing" -> 3
    [] status = "compacting" -> 2 [] status = "unknown" -> 1 [] status = "ended" -> 0

\* The order of select_display_snapshot(): priority, unread, activity, key.
Above(ss, j, k) ==
  LET p == Priority(ss[j].status) - Priority(ss[k].status)
  IN \/ p > 0
     \/ p = 0 /\ Unread(ss[j]) /\ ~Unread(ss[k])
     \/ /\ p = 0 /\ Unread(ss[j]) = Unread(ss[k])
        /\ ss[j].last > ss[k].last \/ (ss[j].last = ss[k].last /\ j > k)

\* select_display_snapshot(), and the pending interaction on top of it.
ViewOf(ss, q) ==
  IF Tracked(ss) = {}
  THEN [session |-> 0, status |-> "unknown", hook |-> "none", pending |-> Pending(q)]
  ELSE LET k == CHOOSE k \in Tracked(ss) : \A j \in Tracked(ss) \ {k} : Above(ss, k, j)
       IN [session |-> k, status |-> ss[k].status, hook |-> ss[k].hook, pending |-> Pending(q)]

(***************************************************************************)
(* A task: the step it is at; the event of its request; the event          *)
(* process_event() works on; what is left to save and to hand over.  The   *)
(* phase says for whom it publishes: for the interactions it cleared, for  *)
(* the held event it flushed, or for its own event.                        *)
(***************************************************************************)
Steps == {"idle", "clear", "refresh", "match", "flush", "submit", "apply", "store",
          "open", "write", "send"}
Phases == {"clear", "flush", "own"}
Task == [at : Steps, phase : Phases, own : Stamped \cup {None}, doing : Stamped \cup {None},
         save : Saved \cup {None}, send : Snapshot \cup {None}]
Idle == [at |-> "idle", phase |-> "own", own |-> None, doing |-> None, save |-> None, send |-> None]

Goto(t, r) == task' = [task EXCEPT ![t] = r]
At(t, step) == task[t].at = step
Processing(r, e, phase) ==
  [r EXCEPT !.at = IF Asks(e) THEN "submit" ELSE "apply", !.phase = phase, !.doing = e]

\* What ingest() does once pending interactions are cleared, and once a held
\* event is flushed.
AfterClear(r) == [r EXCEPT !.at = IF r.own.hook \in PostTool THEN "match" ELSE "flush"]
AfterFlush(r) == IF r.own.hook = "PreToolUse" THEN [r EXCEPT !.at = "store"]
                 ELSE Processing(r, r.own, "own")

Resume(r) ==
  LET done == [r EXCEPT !.save = None, !.send = None]
  IN CASE r.phase = "clear" -> AfterClear(done)
       [] r.phase = "flush" -> AfterFlush(done)
       [] r.phase = "own" -> Idle

\* Mutant: only changed sessions are saved.
PublishUnsaved(t, ss, q, changed) ==
  LET view == ViewOf(sessions', queue')
      visible == view # snapshot.view
      saved == [seq |-> snapshot'.seq, view |-> view, sessions |-> sessions']
  IN /\ sessions' = ss
     /\ queue' = Live(q)
     /\ snapshot' = IF visible THEN [seq |-> snapshot.seq + 1, view |-> view] ELSE snapshot
     /\ stale' = FALSE
     /\ crossed' = (crossed \/ (visible /\ \E u \in Tasks \ {t} : task[u].send # None))
     /\ Goto(t, IF changed
                THEN [task[t] EXCEPT !.at = "open", !.doing = None, !.save = saved,
                        !.send = IF visible THEN snapshot' ELSE None]
                ELSE IF visible THEN [task[t] EXCEPT !.at = "send", !.send = snapshot']
                ELSE Resume(task[t]))

\* finalize_guard_state(): ss and q become the sessions and the queue, and the
\* snapshot follows; what must be saved and sent is for after the lock.
Publish(t, ss, q, changed) ==
  LET view == ViewOf(sessions', queue')
      visible == view # snapshot.view
  IN /\ sessions' = ss
     /\ queue' = Live(q)
     /\ snapshot' = IF visible THEN [seq |-> snapshot.seq + 1, view |-> view] ELSE snapshot
     /\ stale' = FALSE
     /\ crossed' = (crossed \/ (visible /\ \E u \in Tasks \ {t} : task[u].send # None))
     /\ Goto(t, IF changed \/ visible
                THEN [task[t] EXCEPT !.at = "open", !.doing = None,
                        !.save = [seq |-> snapshot'.seq, view |-> view, sessions |-> sessions'],
                        !.send = IF visible THEN snapshot' ELSE None]
                ELSE Resume(task[t]))

(***************************************************************************)
(* The handlers                                                            *)
(***************************************************************************)
\* external: a process that runs sends its hooks, those of a tool call in order;
\* the agent may have been started after the first of them.
ToolOrder(e) == CASE e.hook = "PreToolUse" -> 1 [] e.hook \in PostTool -> 3 [] OTHER -> 2
Possible(e) ==
  /\ e.pid \notin dead
  /\ e.tool # None => \A f \in arrived : f.tool = e.tool => ToolOrder(f) < ToolOrder(e)

Fault == faults < MaxFaults /\ faults' = faults + 1

SameProcess(e, f) == e.session = f.session \/ (e.pid # None /\ e.pid = f.pid)

\* ingest()
Arrive(t, e) ==
  /\ At(t, "idle")
  /\ e \notin arrived /\ Cardinality(arrived) < MaxEvents
  /\ Possible(e)
  /\ IF \E u \in Hooks : task[u].own # None /\ SameProcess(task[u].own, e)
     THEN Fault ELSE UNCHANGED faults
  /\ arrived' = arrived \cup {e}
  /\ Goto(t, [Idle EXCEPT !.at = "clear",
       !.own = [hook |-> e.hook, session |-> e.session, tool |-> e.tool, prompt |-> e.prompt,
                pid |-> e.pid, recv |-> Cardinality(arrived) + 1]])
  /\ UNCHANGED <<sessions, queue, snapshot, held, fileVars, handedVars, dead, historyVars>>

\* Mutant: what was cleared is left for the event itself to show.
ClearAndGoOn(t) ==
  /\ At(t, "clear")
  /\ queue' = {i \in queue : ~Clears(i, task[t].own)}
  /\ Goto(t, AfterClear(task[t]))
  /\ UNCHANGED <<sessions, snapshot, held, fileVars, handedVars, envVars, historyVars>>

\* clear_pending_for_event()
ClearForEvent(t) ==
  LET cleared == {i \in queue : Clears(i, task[t].own)}
  IN /\ At(t, "clear")
     /\ queue' = queue \ cleared
     /\ Goto(t, IF cleared = {} THEN AfterClear(task[t])
                ELSE [task[t] EXCEPT !.at = "refresh", !.phase = "clear"])
     /\ UNCHANGED <<sessions, snapshot, held, fileVars, handedVars, envVars, historyVars>>

\* refresh_snapshot()
Refresh(t) ==
  /\ At(t, "refresh")
  /\ Publish(t, sessions, queue, FALSE)
  /\ UNCHANGED <<held, fileVars, handedVars, envVars, excused>>

\* handle_post_tool(): the first section under the lock.
Match(t) ==
  LET own == task[t].own
  IN /\ At(t, "match")
     /\ \/ /\ held # None /\ own.tool # None /\ held.tool = own.tool
           /\ held' = None
           /\ Goto(t, Processing(task[t], own, "own"))
        \/ /\ ~(held # None /\ own.tool # None /\ held.tool = own.tool)
           /\ Goto(t, [task[t] EXCEPT !.at = "flush"])
           /\ UNCHANGED held
     /\ UNCHANGED <<sessions, queue, snapshot, fileVars, handedVars, envVars, historyVars>>

\* flush_pending_tool()
Flush(t) ==
  /\ At(t, "flush")
  /\ held' = None
  /\ Goto(t, IF held # None THEN Processing(task[t], held, "flush") ELSE AfterFlush(task[t]))
  /\ UNCHANGED <<sessions, queue, snapshot, fileVars, handedVars, envVars, historyVars>>

\* handle_pre_tool(): the end.
Store(t) ==
  /\ At(t, "store")
  /\ held' = task[t].own
  /\ Goto(t, Idle)
  /\ UNCHANGED <<sessions, queue, snapshot, fileVars, handedVars, envVars, historyVars>>

\* flush_pending_tool_generation(): the timer of the event that is held.
TakeHeld(t) ==
  /\ At(t, "idle")
  /\ held # None
  /\ held' = None
  /\ Goto(t, Processing(Idle, held, "own"))
  /\ UNCHANGED <<sessions, queue, snapshot, fileVars, handedVars, envVars, historyVars>>

\* process_event(): first the queue, then the sessions.
Submit(t) ==
  /\ At(t, "submit")
  /\ queue' = Submitted(queue, task[t].doing)
  /\ Goto(t, [task[t] EXCEPT !.at = "apply"])
  /\ UNCHANGED <<sessions, snapshot, held, fileVars, handedVars, envVars, historyVars>>

Apply(t) ==
  LET e == task[t].doing
  IN /\ At(t, "apply")
     /\ Publish(t, AfterEvent(sessions, e), ForSessions(queue, Superseded(sessions, e)), TRUE)
     /\ UNCHANGED <<held, fileVars, handedVars, envVars, excused>>

(***************************************************************************)
(* persist_state(), and send_snapshot().  All writers share one temporary  *)
(* file: one that opens it while another writes truncates it under it, the *)
(* first rename takes both contents away, and the second fails.  A save    *)
(* may also fail by itself, at any of its calls: its task only logs that,  *)
(* and hands its snapshot over all the same.                               *)
(***************************************************************************)
Later(m, n) == IF m > n THEN m ELSE n

Open(t) ==
  LET others == {u \in Tasks : At(u, "write")}
  IN /\ At(t, "open")
     /\ tmp' = TRUE
     /\ mixed' = IF others = {} THEN mixed ELSE mixed \cup others \cup {t}
     /\ disturbed' = (disturbed \/ others # {})
     /\ Goto(t, [task[t] EXCEPT !.at = "write"])
     /\ UNCHANGED <<sessions, queue, snapshot, held, file, unsaved, handedVars, envVars,
                    historyVars>>

AfterSave(r) == IF r.send # None THEN [r EXCEPT !.at = "send", !.save = None] ELSE Resume(r)

\* What a failed save leaves for its task.
Unsaved(t) ==
  /\ task[t].save.seq <= MaxUnsaved
  /\ unsaved' = Later(unsaved, task[t].save.seq)
  /\ Goto(t, AfterSave(task[t]))

\* open() fails: nothing is touched.
OpenFails(t) ==
  /\ At(t, "open")
  /\ Unsaved(t)
  /\ UNCHANGED <<sessions, queue, snapshot, held, file, tmp, mixed, disturbed, handedVars,
                 envVars, historyVars>>

Write(t) ==
  LET save == task[t].save
      others == {task[u].save : u \in {u \in mixed : At(u, "write")}}
  IN /\ At(t, "write")
     /\ \/ t \notin mixed /\ file' = save /\ tmp' = FALSE
        \/ t \in mixed /\ tmp /\ file' \in others \cup {NoFile} /\ tmp' = FALSE
        \/ t \in mixed /\ ~tmp /\ file' \in {file, save, NoFile} /\ UNCHANGED tmp
     /\ mixed' = mixed \ {t}
     /\ disturbed' = (disturbed \/ save.seq < file.seq)
     /\ Goto(t, AfterSave(task[t]))
     /\ UNCHANGED <<sessions, queue, snapshot, held, unsaved, handedVars, envVars, historyVars>>

\* write_all(), sync_all() or rename() fails, on a full disk for one: the
\* temporary file stays behind, without the whole state in it.
WriteFails(t) ==
  /\ At(t, "write")
  /\ Unsaved(t)
  /\ mixed' = mixed \ {t}
  /\ UNCHANGED <<sessions, queue, snapshot, held, file, tmp, disturbed, handedVars, envVars,
                 historyVars>>

Send(t) ==
  /\ At(t, "send")
  /\ handed' = task[t].send
  /\ newest' = Later(newest, task[t].send.seq)
  /\ Goto(t, Resume(task[t]))
  /\ UNCHANGED <<sessions, queue, snapshot, held, fileVars, forgotten, envVars, historyVars>>

(***************************************************************************)
(* reconcile_sessions().  aged: the sessions past the age that counts for  *)
(* them, the activity timeout of one without a process or a retention.     *)
(***************************************************************************)
\* Mutant: only silence counts, never the process.
LostBySilence(k, aged) ==
  sessions[k] # None /\ Active(sessions[k]) /\ k \in aged

\* session_liveness_lost(), should_prune_session()
Lost(k, aged) ==
  /\ sessions[k] # None /\ Active(sessions[k])
  /\ sessions[k].pid \in dead \/ (sessions[k].pid = None /\ k \in aged)
Pruned(k, aged) == sessions[k] # None /\ ~Active(sessions[k]) /\ k \in aged

\* Mutant: the session is stamped ahead of the events to come.
IdleAhead == [status |-> "unknown", hook |-> "SessionLivenessLost", pid |-> None,
              last |-> Cardinality(arrived) + 1]

IdleEntry == [status |-> "unknown", hook |-> "SessionLivenessLost", pid |-> None,
              last |-> Cardinality(arrived)]

\* reconcile_session_map() without the pruning of excess sessions.
Left(aged) ==
  [k \in Keys |-> IF Lost(k, aged) THEN IdleEntry
                  ELSE IF Pruned(k, aged) THEN None ELSE sessions[k]]

Without(ss, gone) == [k \in Keys |-> IF k \in gone THEN None ELSE ss[k]]

\* prune_excess_sessions(): the ones of the lowest priority and activity.
Excess(ss) ==
  LET below(j, k) ==
        LET p == Priority(ss[k].status) - Priority(ss[j].status)
            n == ss[k].last - ss[j].last
        IN p > 0 \/ (p = 0 /\ n > 0) \/ (p = 0 /\ n = 0 /\ j < k)
  IN {k \in Tracked(ss) :
        Cardinality({j \in Tracked(ss) : below(j, k)}) < Cardinality(Tracked(ss)) - MaxSessions}

Reconcile(aged) ==
  LET t == Reconciler
      gone == {k \in Keys : Lost(k, aged) \/ Pruned(k, aged)}
      excess == Excess(Left(aged))
  IN /\ At(t, "idle")
     /\ IF aged = {} THEN UNCHANGED faults ELSE Fault
     /\ Publish(t, Without(Left(aged), excess), ForSessions(queue, gone), gone \cup excess # {})
     /\ excused' = excused \cup excess
     /\ UNCHANGED <<held, fileVars, handedVars, arrived, dead>>

(***************************************************************************)
(* Time, abandoned requests, exiting processes, restarts                   *)
(***************************************************************************)
\* PendingTimeouts: noticed by the next finalize_guard_state().
Expire(i) ==
  /\ ~i.old
  /\ Fault
  /\ queue' = (queue \ {i}) \cup {[i EXCEPT !.old = TRUE]}
  /\ stale' = TRUE
  /\ UNCHANGED <<sessions, snapshot, held, task, fileVars, handedVars, arrived, dead, crossed,
                 excused>>

ProcessExits(p) ==
  /\ p \notin dead
  /\ Fault
  /\ dead' = dead \cup {p}
  /\ UNCHANGED <<sessions, queue, snapshot, held, task, fileVars, handedVars, arrived, historyVars>>

\* Mutant: the handler waits, and can be dropped, before it hands over.
CancelAtSend(t) ==
  /\ At(t, "send")
  /\ Fault
  /\ Goto(t, Idle)
  /\ UNCHANGED <<sessions, queue, snapshot, held, fileVars, handedVars, arrived, dead, historyVars>>

\* The hook's request times out (ingest_from_stdin()), and the server drops its
\* handler where it waits for the lock.
Cancel(t) ==
  /\ \/ At(t, "clear") \/ At(t, "refresh") \/ At(t, "match") \/ At(t, "flush")
     \/ At(t, "submit") \/ At(t, "apply") \/ At(t, "store")
  /\ Fault
  /\ stale' = (stale \/ At(t, "refresh") \/ (At(t, "apply") /\ Asks(task[t].doing)))
  /\ excused' = IF At(t, "apply") THEN excused \cup {task[t].doing.session} ELSE excused
  /\ Goto(t, Idle)
  /\ UNCHANGED <<sessions, queue, snapshot, held, fileVars, handedVars, arrived, dead, crossed>>

\* restored_sessions()
Restored(saved) ==
  IF Tracked(saved.sessions) # {} \/ saved.seq = 0 THEN saved.sessions
  ELSE [saved.sessions EXCEPT ![saved.view.session] =
          [status |-> saved.view.status, hook |-> saved.view.hook, pid |-> None, last |-> 0]]

NoSessions == [k \in Keys |-> None]
Fresh == [seq |-> 0, view |-> ViewOf(NoSessions, {}), sessions |-> NoSessions]

\* build_app_state()
StartFrom(saved) ==
  /\ Fault
  /\ snapshot' = [seq |-> saved.seq, view |-> [saved.view EXCEPT !.pending = None]]
  /\ sessions' = Restored(saved)
  /\ queue' = {}
  /\ held' = None
  /\ task' = [t \in Tasks |-> Idle]
  /\ handed' = snapshot'
  /\ newest' = Later(newest, saved.seq)
  /\ forgotten' = unsaved
  /\ mixed' = {}
  /\ tmp' = FALSE
  /\ stale' = FALSE
  /\ crossed' = FALSE
  /\ excused' = {}
  /\ UNCHANGED <<file, disturbed, unsaved, arrived, dead>>

LastSaved == IF file = NoFile THEN Fresh ELSE file

\* Mutant: the numbering starts again.
RestartFromOne == StartFrom([LastSaved EXCEPT !.seq = 0])

\* The process ended, and is started again with what load_state() finds.
Restart == StartFrom(LastSaved)

Init ==
  /\ sessions = NoSessions
  /\ queue = {}
  /\ snapshot = [seq |-> 0, view |-> Fresh.view]
  /\ held = None
  /\ task = [t \in Tasks |-> Idle]
  /\ file = NoFile
  /\ tmp = FALSE
  /\ mixed = {}
  /\ handed = snapshot
  /\ arrived = {}
  /\ dead = {}
  /\ faults = 0
  /\ newest = 0
  /\ unsaved = 0
  /\ forgotten = 0
  /\ disturbed = FALSE
  /\ stale = FALSE
  /\ crossed = FALSE
  /\ excused = {}

Handler(t) ==
  \/ ClearForEvent(t) \/ Refresh(t) \/ Match(t) \/ Flush(t) \/ Store(t)

Work(t) ==
  \/ Submit(t) \/ Apply(t) \/ Open(t) \/ OpenFails(t) \/ Write(t) \/ WriteFails(t) \/ Send(t)

Reconciles == \E aged \in SUBSET Keys : Reconcile(aged)

Next ==
  \/ \E t \in Hooks : (\E e \in Events : Arrive(t, e)) \/ Handler(t) \/ Cancel(t)
  \/ \E t \in Timers : TakeHeld(t)
  \/ \E t \in Tasks : Work(t)
  \/ Reconciles
  \/ \E i \in queue : Expire(i)
  \/ \E p \in Pids : ProcessExits(p)
  \/ Restart

Spec == Init /\ [][Next]_vars

\* The executor runs every task that can run; a spawned timer fires; the
\* reconcile task's interval recurs.
Fairness ==
  /\ \A t \in Hooks : WF_vars(Handler(t) \/ Work(t))
  /\ \A t \in Timers : WF_vars(TakeHeld(t) \/ Work(t))
  /\ WF_vars(Work(Reconciler))
  /\ WF_vars(Reconcile({}))

FairSpec == Spec /\ Fairness

(***************************************************************************)
(* Properties                                                              *)
(***************************************************************************)
TypeOK ==
  /\ sessions \in SessionMap
  /\ queue \subseteq Item
  /\ snapshot \in Snapshot
  /\ held \in Stamped \cup {None}
  /\ task \in [Tasks -> Task]
  /\ file \in Saved \cup {NoFile}
  /\ tmp \in BOOLEAN
  /\ mixed \subseteq Tasks
  /\ handed \in Snapshot
  /\ arrived \subseteq Events
  /\ dead \subseteq Pids
  /\ faults \in 0..MaxFaults
  /\ newest \in Nat
  /\ unsaved \in Nat
  /\ forgotten \in Nat
  /\ disturbed \in BOOLEAN
  /\ stale \in BOOLEAN
  /\ crossed \in BOOLEAN
  /\ excused \subseteq Keys

\* A task that has changed the queue and will show it at its next step.
Showing(t) == At(t, "refresh") \/ (At(t, "apply") /\ Asks(task[t].doing))

\* The snapshot is a level: it shows the sessions and the queue as they are,
\* unless a task is about to recompute it, an interaction has expired since, or
\* the handler that would have shown a change was dropped.
LevelShown ==
  \/ stale
  \/ \E t \in Tasks : Showing(t)
  \/ snapshot.view = ViewOf(sessions, Live(queue))

\* No snapshot is lost between the lock and the device worker: the newest has
\* been handed over, or a task is carrying it.
NewestCarried ==
  snapshot.seq <= newest \/ \E t \in Tasks : task[t].send = snapshot

\* The device worker has the newest of all snapshots ever handed over, across
\* restarts of the agent too, unless a task numbered one while another was still
\* carrying its own, a save was disturbed, or the agent restarted behind a
\* snapshot whose save had failed and has not passed its number since.
HandedInOrder == crossed \/ disturbed \/ handed.seq = newest \/ newest <= forgotten

\* A snapshot that high was saved, or its save failed.
Tried(seq) == seq <= file.seq \/ seq <= unsaved

\* A snapshot is on disk before the device can see it, so a restarted agent
\* continues the numbering, unless persist_state() returned an error for one as
\* new, which the handlers only log; a save left undone for any other reason is
\* due to saves that overlap or overtake one another.
SavedBeforeSent == disturbed \/ Tried(newest)

\* Two entries never belong to one Claude process, whichever order its hooks
\* are applied in and whatever was restored.
OneSessionPerProcess ==
  \A j, k \in Tracked(sessions) : j # k /\ sessions[j].pid = sessions[k].pid => sessions[j].pid = None

\* A pending interaction never outlives its session, except where its handler
\* was dropped half way or the session was pruned to make room.
PendingHasSession ==
  \A i \in queue :
    \/ sessions[i.session] # None
    \/ i.session \in excused
    \/ \E t \in Tasks : At(t, "apply") /\ task[t].doing.session = i.session

\* The seq the device sees only grows.
SeqGrows == [][handed' # handed => handed'.seq > handed.seq]_vars

\* Whatever was dropped, expired or exited, the reconcile task puts it right: in
\* the end the display is the level again and no dead process shows as active.
Settles ==
  <>[](/\ snapshot.view = ViewOf(sessions, Live(queue))
       /\ \A k \in Tracked(sessions) : Active(sessions[k]) => sessions[k].pid \notin dead)
=============================================================================
