-------------------------------- MODULE Task --------------------------------
(***************************************************************************)
(* runtime/internal/task.rs and the JoinHandle of task.rs: one spawned     *)
(* task, the threads of the executor that run it, the calls of its wakers  *)
(* and the task that joins it.  A step is one atomic operation or one use  *)
(* of the try-lock of Task.data.  The executor is a bag that holds the     *)
(* task `queued` times; Task.waker is the latch of module WakeLatch.  An   *)
(* operator that no action uses (WakeAlways, ...) is a mistaken variant of *)
(* the one below it.                                                       *)
(***************************************************************************)
EXTENDS Naturals, FiniteSets

CONSTANTS
  Threads,  \* threads that run tasks
  Wakers,   \* calls of wake and wake_by_ref, from any thread
  Joiner,   \* the thread that polls the JoinHandle
  Nobody

ASSUME TaskAssumption ==
  /\ Joiner \notin Threads
  /\ Nobody \notin Threads \cup {Joiner}

VARIABLES
  state,   \* Task.state
  data,    \* Task.data
  lock,    \* who holds the try-lock of Task.data
  done,    \* Task.waker was woken: its poll answers Ready
  queued,  \* how many times a queue of the executor holds the task
  pending, \* ThreadPool.pending, as far as this task counts in it
  pc,      \* where each thread is in Task::run
  wpc,     \* where each waker is in wake
  jpc,     \* where the joiner is in poll_join
  due      \* history: a wake since the future was last polled

runVars == <<state, data, lock, queued, pending, pc>>
vars == <<runVars, done, wpc, jpc, due>>

Init ==
  /\ state = "IDLE" /\ data = "Pending" /\ lock = Nobody
  /\ done = FALSE /\ queued = 0 /\ pending = 0
  /\ pc = [t \in Threads |-> "idle"]
  /\ wpc = [w \in Wakers |-> "none"]
  /\ jpc = "none" /\ due = FALSE

Goto(t, l) == pc' = [pc EXCEPT ![t] = l]
-----------------------------------------------------------------------------
(* Task::spawn, before anybody else has a reference to the task. *)
Spawn ==
  /\ jpc = "none"
  /\ pending' = pending + 1
  /\ state' = "SCHEDULED"
  /\ queued' = queued + 1
  /\ jpc' = "idle" /\ due' = TRUE
  /\ UNCHANGED <<data, lock, done, pc, wpc>>

WakeAlways(w) ==
  /\ wpc[w] = "idle"
  /\ state' = IF state \in {"RUNNING", "NOTIFIED"} THEN "NOTIFIED" ELSE "SCHEDULED"
  /\ wpc' = [wpc EXCEPT ![w] = IF state \in {"IDLE", "SCHEDULED"} THEN "schedule" ELSE "idle"]
  /\ due' = (data # "Ready" /\ data # "Joined")
  /\ UNCHANGED <<data, lock, done, queued, pending, pc, jpc>>

(* TaskState::transition_to_scheduled, by a waker that a poll cloned: only *)
(* an idle task is put in a queue, by Task::schedule.                      *)
Wake(w) ==
  /\ wpc[w] = "idle"
  /\ state' = CASE state = "IDLE" -> "SCHEDULED"
                [] state = "RUNNING" -> "NOTIFIED"
                [] OTHER -> state
  /\ wpc' = [wpc EXCEPT ![w] = IF state = "IDLE" THEN "schedule" ELSE "idle"]
  /\ due' = (data # "Ready" /\ data # "Joined")
  /\ UNCHANGED <<data, lock, done, queued, pending, pc, jpc>>

WakeSchedule(w) ==
  /\ wpc[w] = "schedule"
  /\ queued' = queued + 1
  /\ wpc' = [wpc EXCEPT ![w] = "idle"]
  /\ UNCHANGED <<state, data, lock, done, pending, pc, jpc, due>>
-----------------------------------------------------------------------------
(* A thread takes the task out of a queue and calls Task::run. *)
Pop(t) ==
  /\ pc[t] = "idle" /\ queued > 0
  /\ queued' = queued - 1
  /\ Goto(t, "load")
  /\ UNCHANGED <<state, data, lock, pending, done, wpc, jpc, due>>

(* TaskState::transition_to_running is a load ... *)
RunLoad(t) ==
  /\ pc[t] = "load"
  /\ Goto(t, IF state = "SCHEDULED" THEN "store" ELSE "panic")
  /\ UNCHANGED <<state, data, lock, queued, pending, done, wpc, jpc, due>>

(* ... and a store. *)
RunStore(t) ==
  /\ pc[t] = "store"
  /\ state' = "RUNNING"
  /\ Goto(t, "lock")
  /\ UNCHANGED <<data, lock, queued, pending, done, wpc, jpc, due>>

(* data.try_lock().unwrap(), and the future is taken out and polled, which *)
(* lets it hand out wakers.                                                *)
RunPoll(t) ==
  /\ pc[t] = "lock"
  /\ IF lock = Nobody /\ data = "Pending"
     THEN /\ lock' = t /\ data' = "Polling"
          /\ Goto(t, "polling")
          /\ due' = FALSE
          /\ wpc' = [w \in Wakers |-> IF wpc[w] = "none" THEN "idle" ELSE wpc[w]]
     ELSE Goto(t, "panic") /\ UNCHANGED <<lock, data, due, wpc>>
  /\ UNCHANGED <<state, queued, pending, done, jpc>>

(* Poll::Pending: the future is put back before the state is given up. *)
RunPending(t) ==
  /\ pc[t] = "polling"
  /\ data' = "Pending" /\ lock' = Nobody
  /\ Goto(t, "to_idle")
  /\ UNCHANGED <<state, queued, pending, done, wpc, jpc, due>>

RunToIdleBlind(t) ==
  /\ pc[t] = "to_idle"
  /\ state' = "IDLE"
  /\ Goto(t, "idle")
  /\ UNCHANGED <<data, lock, queued, pending, done, wpc, jpc, due>>

(* TaskState::transition_to_idle *)
RunToIdle(t) ==
  /\ pc[t] = "to_idle"
  /\ state' = IF state = "RUNNING" THEN "IDLE" ELSE state
  /\ Goto(t, CASE state = "RUNNING" -> "idle"
               [] state = "NOTIFIED" -> "notified"
               [] OTHER -> "panic")
  /\ UNCHANGED <<data, lock, queued, pending, done, wpc, jpc, due>>

RunRescheduleUnqueued(t) ==
  /\ pc[t] = "notified"
  /\ state' = "SCHEDULED"
  /\ Goto(t, "idle")
  /\ UNCHANGED <<data, lock, queued, pending, done, wpc, jpc, due>>

(* transition_to_scheduled_from_notified, and schedule with be_fair. *)
RunReschedule(t) ==
  /\ pc[t] = "notified"
  /\ state' = IF state = "NOTIFIED" THEN "SCHEDULED" ELSE state
  /\ Goto(t, IF state = "NOTIFIED" THEN "push" ELSE "panic")
  /\ UNCHANGED <<data, lock, queued, pending, done, wpc, jpc, due>>

RunPush(t) ==
  /\ pc[t] = "push"
  /\ queued' = queued + 1
  /\ Goto(t, "idle")
  /\ UNCHANGED <<state, data, lock, pending, done, wpc, jpc, due>>

RunReadyUnannounced(t) ==
  /\ pc[t] = "polling"
  /\ data' = "Ready" /\ lock' = Nobody
  /\ due' = FALSE
  /\ Goto(t, "complete")
  /\ UNCHANGED <<state, queued, pending, done, wpc, jpc>>

(* Poll::Ready, or a panic of the future: the result is stored ... *)
RunReady(t) ==
  /\ pc[t] = "polling"
  /\ data' = "Ready" /\ lock' = Nobody
  /\ due' = FALSE
  /\ Goto(t, "wake")
  /\ UNCHANGED <<state, queued, pending, done, wpc, jpc>>

(* ... before the joiner is woken; the state stays RUNNING or NOTIFIED. *)
RunWake(t) ==
  /\ pc[t] = "wake"
  /\ done' = TRUE
  /\ Goto(t, "complete")
  /\ UNCHANGED <<state, data, lock, queued, pending, wpc, jpc, due>>

(* ThreadPool::task_complete *)
RunComplete(t) ==
  /\ pc[t] = "complete"
  /\ pending' = IF pending = 0 THEN 0 ELSE pending - 1
  /\ Goto(t, IF pending = 0 THEN "panic" ELSE "idle")
  /\ UNCHANGED <<state, data, lock, queued, done, wpc, jpc, due>>
-----------------------------------------------------------------------------
(* JoinHandle::poll and Task::poll_join: Task.waker answers Pending, and   *)
(* the wake of the task makes the joiner poll again, or it answers Ready.  *)
JoinPoll ==
  /\ jpc = "idle"
  /\ jpc' = IF done THEN "take" ELSE "waiting"
  /\ UNCHANGED <<runVars, done, wpc, due>>

JoinWoken ==
  /\ jpc = "waiting" /\ done
  /\ jpc' = "idle"
  /\ UNCHANGED <<runVars, done, wpc, due>>

(* replace(&mut *self.data.try_lock().unwrap(), TaskData::Joined) *)
JoinTake ==
  /\ jpc = "take"
  /\ IF lock = Nobody /\ data = "Ready"
     THEN data' = "Joined" /\ jpc' = "joined"
     ELSE jpc' = "panic" /\ UNCHANGED data
  /\ UNCHANGED <<state, lock, queued, pending, pc, done, wpc, due>>

Run(t) == \/ RunLoad(t) \/ RunStore(t) \/ RunPoll(t) \/ RunPending(t) \/ RunReady(t)
          \/ RunToIdle(t) \/ RunReschedule(t) \/ RunPush(t) \/ RunWake(t) \/ RunComplete(t)

Join == JoinPoll \/ JoinWoken \/ JoinTake

Next == \/ Spawn \/ Join
        \/ \E w \in Wakers : Wake(w) \/ WakeSchedule(w)
        \/ \E t \in Threads : Pop(t) \/ Run(t)

Spec == Init /\ [][Next]_vars

(* A queued task is taken by some thread, a thread that runs it goes on,   *)
(* and so do a wake that has begun and the joiner.                         *)
FairSpec ==
  /\ Spec
  /\ WF_vars(Join)
  /\ WF_vars(\E t \in Threads : Pop(t))
  /\ \A t \in Threads : WF_vars(Run(t))
  /\ \A w \in Wakers : WF_vars(WakeSchedule(w))
-----------------------------------------------------------------------------
(* The values of the fields of Task and of the local state of its users. *)
TypeOK ==
  /\ state \in {"IDLE", "SCHEDULED", "RUNNING", "NOTIFIED"}
  /\ data \in {"Pending", "Polling", "Ready", "Joined"}
  /\ lock \in Threads \cup {Joiner, Nobody}
  /\ done \in BOOLEAN /\ due \in BOOLEAN
  /\ queued \in Nat /\ pending \in Nat
  /\ pc \in [Threads -> {"idle", "load", "store", "lock", "polling", "to_idle",
                         "notified", "push", "wake", "complete", "panic"}]
  /\ wpc \in [Wakers -> {"none", "idle", "schedule"}]
  /\ jpc \in {"none", "idle", "waiting", "take", "joined", "panic"}

(* The assertions, unwraps and unreachable!s of Task::run, TaskState,      *)
(* task_complete and poll_join hold: the task is never run twice at once,  *)
(* never run after it completed, and its result is there when the joiner   *)
(* is told so.                                                             *)
NeverPanics ==
  /\ \A t \in Threads : pc[t] # "panic"
  /\ jpc # "panic"

(* The ways to be about to run the task: in a queue, or in the hands of a  *)
(* thread or a waker that has yet to queue it.                             *)
Tokens ==
  queued + Cardinality({w \in Wakers : wpc[w] = "schedule"})
         + Cardinality({t \in Threads : pc[t] \in {"load", "store", "push"}})

(* The executor owes the task exactly one run when its state is SCHEDULED  *)
(* and none otherwise, however many threads wake it at the same time.      *)
ScheduledOnce == Tokens = IF state = "SCHEDULED" THEN 1 ELSE 0

(* A wake, also one that arrives while the task runs or is about to, is    *)
(* followed by a poll of the future or by its completion.                  *)
WakeNotLost == due ~> ~due

(* A task that completes is joined. *)
JoinCompletes == (jpc = "waiting" /\ data = "Ready") ~> (jpc = "joined")
=============================================================================
