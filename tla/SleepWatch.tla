----------------------------- MODULE SleepWatch -----------------------------
(***************************************************************************)
(* The scheduler composed with its timer queues: who watches the deadline  *)
(* of a Sleep?  Scheduler leaves the application and the outcome of        *)
(* poll_timers open; here both are closed.  The application is one         *)
(* block_on whose future spawns every task, awaits their JoinHandles and   *)
(* then sleeps once; every queue is empty except for that Sleep, and what  *)
(* poll_timers answers follows from where it is.                           *)
(*                                                                         *)
(* Every step is a step of Scheduler.  A search sweeps the timers of all   *)
(* other workers before it fails: the rounds that meet Steal::Retry to the *)
(* end, and skip the sweep, are left out, so that nothing below rests on   *)
(* contention.                                                             *)
(***************************************************************************)
EXTENDS Scheduler

VARIABLES
  jobs,   \* of each task: "new", "live" (spawned) or "over" (result stored)
  awaits, \* the task in whose JoinHandle the future has left its waker
  stage,  \* where the future is: "work", "sleep" or "done"
  nap,    \* the worker whose timer queue holds the Sleep, or NoWorker
  due     \* whether the deadline of the Sleep has passed

appVars == <<jobs, awaits, stage, nap, due>>
allVars == <<vars, appVars>>

Jobs(state) == {k \in Tasks : jobs[k] = state}

(* The wake of a block_on future does nothing when it is scheduled. *)
WakeOnce(t, u) ==
  \/ WakeFuture(t, u)
  \/ fut[u] \notin {"IDLE", "RUNNING"} /\ UNCHANGED vars

(* The future calls spawn. *)
FutureSpawns(u) ==
  /\ pc[u] = "polling"
  /\ Schedule(u)
  /\ \E k \in Jobs("new") :
       k \notin Away' /\ jobs' = [jobs EXCEPT ![k] = "live"]
  /\ UNCHANGED <<awaits, stage, nap, due>>

(* JoinHandle::poll of a task that is not over: the waker is left there.   *)
FutureJoins(u) ==
  /\ stage = "work" /\ Jobs("new") = {}
  /\ FuturePending(u)
  /\ awaits' \in (IF awaits \in Jobs("live") THEN {awaits} ELSE Jobs("live"))
  /\ UNCHANGED <<jobs, stage, nap, due>>

(* The last JoinHandle is Ready and the future goes on to Sleep::poll:     *)
(* Queue::with takes the timer queue of the thread's worker, or of a       *)
(* random one.                                                             *)
FutureSleeps(u) ==
  /\ stage = "work" /\ Jobs("over") = Tasks
  /\ FuturePending(u)
  /\ stage' = "sleep"
  /\ nap' \in (IF worker[u] # NoWorker THEN {worker[u]} ELSE Workers)
  /\ UNCHANGED <<jobs, awaits, due>>

(* Sleep::poll in State::Polling: nobody has notified the entry, or        *)
(* somebody has.                                                           *)
FutureStillSleeps(u) ==
  /\ stage = "sleep" /\ nap # NoWorker
  /\ FuturePending(u)
  /\ UNCHANGED appVars

FutureWakesUp(u) ==
  /\ stage = "sleep" /\ nap = NoWorker
  /\ FutureReady(u)
  /\ stage' = "done"
  /\ UNCHANGED <<jobs, awaits, nap, due>>

(* Task::run stores the result and wakes the joiner, if there is one. *)
TaskEnds(t, u) ==
  LET k == held[t] IN
  /\ pc[t] = "task" /\ jobs[k] = "live"
  /\ jobs' = [jobs EXCEPT ![k] = "over"]
  /\ IF awaits = k THEN WakeOnce(t, u) ELSE UNCHANGED vars
  /\ UNCHANGED <<awaits, stage, nap, due>>

(* The queues whose timers the thread polls where it is: the one of its    *)
(* own worker first, those of the others in the last round of a search.    *)
Watched(t) ==
  CASE pc[t] = "work"   -> {worker[t]}
    [] pc[t] = "search" -> Workers \ {worker[t]}
    [] OTHER            -> {}

(* Queue::poll and Expired::process. *)
Expire(t, u) ==
  /\ due /\ nap \in Watched(t)
  /\ nap' = NoWorker
  /\ WakeOnce(t, u)
  /\ UNCHANGED <<jobs, awaits, stage, due>>

(* What comes after poll_timers: nothing was due, and `timeout` is set if  *)
(* a queue that was polled has a deadline.                                 *)
AfterTimers(t) ==
  /\ ~(due /\ nap \in Watched(t))
  /\ \/ PopLocal(t)
     \/ SearchBegin(t) /\ timed'[t] = (nap \in Watched(t))
     \/ SearchMiss(t) /\ timed'[t] = (timed[t] \/ nap \in Watched(t))
  /\ UNCHANGED appVars

(* The steps of Scheduler that run no application code and no timers. *)
Machinery(t) ==
  /\ \/ SearchRetryPop(t) \/ SearchRetryNone(t) \/ SearchRetryAdd(t)
     \/ NotifySkip(t) \/ NotifyPending(t) \/ NotifyCas(t) \/ NotifyPop(t)
     \/ NotifyGiveBack(t) \/ NotifyDec(t) \/ SearchBeginAdd(t)
     \/ SearchFailedDec(t) \/ SearchFailedCheck(t) \/ Discover(t)
     \/ ThreadPool(t)
     \/ TransitionToRunning(t) \/ PollFuture(t)
     \/ Consume(t) \/ (\E v \in Workers : StealFrom(t, v))
     \/ Release(t) \/ GoIdle(t) \/ Finish(t) \/ Exit(t)
     \/ Woken(t) \/ PopInject(t) \/ Inject(t)
     \/ held[t] \in Jobs("over") /\ TaskSuspend(t)
  /\ UNCHANGED appVars

Application(t) ==
  \E u \in Users :
    \/ t = u /\ (\/ FutureSpawns(u) \/ FutureJoins(u) \/ FutureSleeps(u)
                 \/ FutureStillSleeps(u) \/ FutureWakesUp(u))
    \/ TaskEnds(t, u)
    \/ Expire(t, u)

Run(t) == Machinery(t) \/ AfterTimers(t) \/ Application(t)

Timeout(t) == WaitTimeout(t) /\ UNCHANGED appVars

Start(u) == stage = "work" /\ BlockOn(u) /\ UNCHANGED appVars

(* Time passes: external. *)
Elapse == ~due /\ nap # NoWorker /\ due' = TRUE
          /\ UNCHANGED <<vars, jobs, awaits, stage, nap>>

WatchInit ==
  /\ Init
  /\ jobs = [k \in Tasks |-> "new"]
  /\ awaits = NoTask
  /\ stage = "work"
  /\ nap = NoWorker
  /\ due = FALSE

WatchNext ==
  \/ \E t \in Threads : Run(t) \/ Timeout(t)
  \/ \E u \in Users : Start(u)
  \/ Elapse

(* Every thread runs, and both clocks do: the one of the deadline and the  *)
(* one of keep_alive, which ends a wait without a timeout.                 *)
WatchSpec ==
  /\ WatchInit /\ [][WatchNext]_allVars
  /\ \A t \in Threads : WF_allVars(Run(t)) /\ WF_allVars(Timeout(t))
  /\ WF_allVars(Elapse)

(* A Delay is notified at its deadline: a Sleep that has started does not  *)
(* stay in its timer queue for ever.                                       *)
DeadlineNotified == nap # NoWorker ~> nap = NoWorker \/ Panicked
=============================================================================
