------------------------------ MODULE Scheduler ------------------------------
(***************************************************************************)
(* The scheduling core of yaar: Executor and its IdleQueue, ThreadPool,    *)
(* the word of each Parker and the loop of WorkerContext, run by the       *)
(* threads that call block_on and by the threads of the pool.              *)
(*                                                                         *)
(* A step is one atomic operation or one critical section of the code,     *)
(* together with the thread-local work around it.  Memory is sequentially  *)
(* consistent.  Futures and tasks are opaque: a body may schedule a task   *)
(* that is not queued, wake the future of a block_on, suspend or finish.   *)
(* crossbeam's queues are sets of runnables here and a pop or a batch may  *)
(* take any element, which covers every order the code can take them in;   *)
(* RunOrder adds the order, on which it depends who gets his turn.         *)
(*                                                                         *)
(* A failed assertion or unwrap stops the thread in "panic".  An operator  *)
(* that no action uses (NotifyPopReturns, ...) is the one below it with a *)
(* plausible mistake, to check that the properties would notice.           *)
(***************************************************************************)
EXTENDS Integers, Sequences, FiniteSets

CONSTANTS
  NumWorkers,  \* Config.worker_threads
  MaxThreads,  \* Config::max_threads(): worker_threads + blocking_threads
  Users,       \* threads of the application, which call block_on
  Pool,        \* threads the operating system can give to ThreadPool::spawn
  Tasks,       \* runnables
  NoThread, NoTask,
  NetPending,  \* whether some Pollable waits for I/O (net Poller.pending > 0)
  Timers       \* whether some timer queue has a deadline

Workers == 0 .. (NumWorkers - 1)
Threads == Users \cup Pool
NoWorker == -1

(* RandomIterSource::from(1) has no candidate left after its filters and   *)
(* its unwrap panics: an Executor has at least two workers.  Builder never *)
(* leaves blocking_threads unset, so there are more threads than workers.  *)
ASSUME SchedulerAssumption ==
  /\ NumWorkers \in Nat /\ NumWorkers >= 2
  /\ MaxThreads \in Nat /\ MaxThreads > NumWorkers
  /\ Users \cap Pool = {} /\ IsFiniteSet(Users) /\ IsFiniteSet(Pool)
  /\ NoThread \notin Threads
  /\ NoTask \notin Tasks
  /\ NetPending \in BOOLEAN
  /\ Timers \in BOOLEAN

VARIABLES
  (* Executor *)
  idle,       \* IdleQueue.indices
  pending,    \* IdleQueue.pending, read without the lock
  searching,  \* Executor.searching
  injector,   \* Executor.injector
  runq,       \* the run queue of each worker
  home,       \* whether the run queue's Producer is in Queue.producer
  (* ThreadPool *)
  parked,     \* PoolState.idle: how often each live Parker is in the list
  spawned,    \* PoolState.spawned
  (* Parker of each thread *)
  word,       \* Parker.state
  fut,        \* Parker.task_state, the state of the block_on future
  (* WorkerContext, Context and stack of each thread *)
  pc, cont,   \* where the thread is, and where the procedure it is in returns
  worker,     \* Context.worker_index
  flag,       \* WorkerContext.searching
  got,        \* worker_index of block_on and poll, before it is attached
  hand,       \* worker_index of notify and spawn
  tgt,        \* the parker held in a local variable
  held,       \* the runnable to run, or running
  ready,      \* Poller.ready
  timed       \* whether poll_timers set `timeout`

execVars   == <<idle, pending, searching, home>>
queueVars  == <<injector, runq>>
poolVars   == <<parked, spawned>>
parkVars   == <<word, fut>>
localVars  == <<worker, flag, got, hand, tgt, held, ready, timed>>
vars == <<execVars, queueVars, poolVars, parkVars, pc, cont, localVars>>

(* ParkState *)
Empty       == [tag |-> "Empty",   worker |-> NoWorker]
Waiting     == [tag |-> "Waiting", worker |-> NoWorker]
Polling     == [tag |-> "Polling", worker |-> NoWorker]
Notified(w) == [tag |-> "Notified", worker |-> w]

Away == Tasks \ ( injector \cup (UNION {runq[w] : w \in Workers})
                  \cup (UNION {ready[t] \cup {held[t]} : t \in Threads}) )

Goto(t, l) == pc' = [pc EXCEPT ![t] = l]
-----------------------------------------------------------------------------
(* IdleQueue: push and the two outcomes of pop. *)
IdlePush(w) ==
  /\ idle' = Append(idle, w)
  /\ pending' = TRUE

IdlePop ==
  /\ pending
  /\ idle # <<>>
  /\ idle' = SubSeq(idle, 1, Len(idle) - 1)
  /\ pending' = (IF Len(idle) = 1 THEN FALSE ELSE pending)

IdleTop == idle[Len(idle)]
IdleNone == ~pending \/ idle = <<>>

(* Executor::search_retry, entered from block_on ("poll"), from a failed   *)
(* search ("wait") and after a wait that brought work ("inject").          *)
SearchRetryPop(t) ==
  /\ pc[t] = "retry"
  /\ IdlePop
  /\ got' = [got EXCEPT ![t] = IdleTop]
  /\ Goto(t, "retry_add")
  /\ UNCHANGED <<searching, home, queueVars, poolVars, parkVars, cont,
                 worker, flag, hand, tgt, held, ready, timed>>

SearchRetryNone(t) ==
  /\ pc[t] = "retry"
  /\ IdleNone
  /\ Goto(t, cont[t])
  /\ UNCHANGED <<execVars, queueVars, poolVars, parkVars, cont, localVars>>

SearchRetryAdd(t) ==
  /\ pc[t] = "retry_add"
  /\ searching' = searching + 1
  /\ Goto(t, IF searching >= NumWorkers THEN "panic"
             ELSE IF ready[t] = {} THEN "attach" ELSE "pop_inject")
  /\ UNCHANGED <<idle, pending, home, queueVars, poolVars, parkVars, cont,
                 localVars>>

(* Executor::notify *)
NotifySkip(t) ==
  /\ pc[t] = "notify"
  /\ ~pending
  /\ Goto(t, cont[t])
  /\ UNCHANGED <<execVars, queueVars, poolVars, parkVars, cont, localVars>>

NotifyPending(t) ==
  /\ pc[t] = "notify"
  /\ pending
  /\ Goto(t, "notify_cas")
  /\ UNCHANGED <<execVars, queueVars, poolVars, parkVars, cont, localVars>>

(* The relaxed load and the compare_exchange that repeats its test. *)
NotifyCas(t) ==
  /\ pc[t] = "notify_cas"
  /\ searching' = (IF searching = 0 THEN 1 ELSE searching)
  /\ Goto(t, IF searching = 0 THEN "notify_pop"
             ELSE IF searching > NumWorkers THEN "panic" ELSE cont[t])
  /\ UNCHANGED <<idle, pending, home, queueVars, poolVars, parkVars, cont,
                 localVars>>

NotifyPopReturns(t) ==
  /\ pc[t] = "notify_pop"
  /\ \/ IdlePop /\ hand' = [hand EXCEPT ![t] = IdleTop] /\ Goto(t, "spawn")
     \/ IdleNone /\ Goto(t, cont[t]) /\ UNCHANGED <<idle, pending, hand>>
  /\ UNCHANGED <<searching, home, queueVars, poolVars, parkVars, cont,
                 worker, flag, got, tgt, held, ready, timed>>

NotifyPop(t) ==
  /\ pc[t] = "notify_pop"
  /\ \/ IdlePop /\ hand' = [hand EXCEPT ![t] = IdleTop] /\ Goto(t, "spawn")
     \/ IdleNone /\ Goto(t, "notify_dec") /\ UNCHANGED <<idle, pending, hand>>
  /\ UNCHANGED <<searching, home, queueVars, poolVars, parkVars, cont,
                 worker, flag, got, tgt, held, ready, timed>>

NotifyGiveBack(t) ==
  /\ pc[t] = "give_back"
  /\ IdlePush(hand[t])
  /\ hand' = [hand EXCEPT ![t] = NoWorker]
  /\ Goto(t, "notify_dec")
  /\ UNCHANGED <<searching, home, queueVars, poolVars, parkVars, cont,
                 worker, flag, got, tgt, held, ready, timed>>

NotifyDec(t) ==
  /\ pc[t] = "notify_dec"
  /\ searching' = searching - 1
  /\ Goto(t, IF searching \in 1 .. NumWorkers THEN cont[t] ELSE "panic")
  /\ UNCHANGED <<idle, pending, home, queueVars, poolVars, parkVars, cont,
                 localVars>>
-----------------------------------------------------------------------------
(* ThreadPool::spawn: an idle parker, a new thread, or an error.  The code *)
(* takes the first parker of the list; here it takes any.                  *)
SpawnIdle(t) ==
  /\ pc[t] = "spawn"
  /\ \E u \in Threads :
       /\ parked[u] > 0
       /\ parked' = [parked EXCEPT ![u] = @ - 1]
       /\ tgt' = [tgt EXCEPT ![t] = u]
  /\ Goto(t, "unpark_some")
  /\ UNCHANGED <<execVars, queueVars, spawned, parkVars, cont,
                 worker, flag, got, hand, held, ready, timed>>

SpawnReserve(t) ==
  /\ pc[t] = "spawn"
  /\ \A u \in Threads : parked[u] = 0
  /\ spawned' = (IF spawned = MaxThreads THEN spawned ELSE spawned + 1)
  /\ Goto(t, IF spawned = MaxThreads THEN "give_back" ELSE "create")
  /\ UNCHANGED <<execVars, queueVars, parked, parkVars, cont, localVars>>

(* thread::Builder::spawn starts a thread, which runs ThreadPool::run and  *)
(* block_on: a fresh Parker, transition_to_running with the index it was   *)
(* given and a first poll of ThreadPoolFuture, which returns Pending.      *)
SpawnThread(t) ==
  /\ pc[t] = "create"
  /\ \E p \in Pool :
       /\ pc[p] = "off"
       /\ pc' = [pc EXCEPT ![t] = cont[t], ![p] = "attach"]
       /\ got' = [got EXCEPT ![p] = hand[t]]
       /\ hand' = [hand EXCEPT ![t] = NoWorker]
       /\ word' = [word EXCEPT ![p] = Empty]
       /\ fut' = [fut EXCEPT ![p] = "IDLE"]
  /\ UNCHANGED <<execVars, queueVars, poolVars, cont,
                 worker, flag, tgt, held, ready, timed>>

SpawnErrorUncounted(t) ==
  /\ pc[t] = "create"
  /\ Goto(t, "give_back")
  /\ UNCHANGED <<execVars, queueVars, poolVars, parkVars, cont, localVars>>

(* thread::Builder::spawn fails: map_err(|_| self.finish()). *)
SpawnError(t) ==
  /\ pc[t] = "create"
  /\ spawned' = spawned - 1
  /\ Goto(t, "give_back")
  /\ UNCHANGED <<execVars, queueVars, parked, parkVars, cont, localVars>>

UnparkSomeOverwrites(t) ==
  /\ pc[t] = "unpark_some"
  /\ tgt' = [tgt EXCEPT ![t] = NoThread]
  /\ IF tgt[t] = NoThread \/ word[tgt[t]].tag = "Empty"
     THEN Goto(t, "spawn") /\ UNCHANGED <<word, hand>>
     ELSE /\ word' = [word EXCEPT ![tgt[t]] = Notified(hand[t])]
          /\ hand' = [hand EXCEPT ![t] = NoWorker]
          /\ Goto(t, cont[t])
  /\ UNCHANGED <<execVars, queueVars, poolVars, fut, cont,
                 worker, flag, got, held, ready, timed>>

(* Parker::unpark(Some(worker_index)) *)
UnparkSome(t) ==
  LET u == tgt[t] IN
  /\ pc[t] = "unpark_some"
  /\ tgt' = [tgt EXCEPT ![t] = NoThread]
  /\ IF u = NoThread \/ word[u].tag \in {"Empty", "Notified"}
     THEN Goto(t, "spawn") /\ UNCHANGED <<word, hand>>
     ELSE /\ word' = [word EXCEPT ![u] = Notified(hand[t])]
          /\ hand' = [hand EXCEPT ![t] = NoWorker]
          /\ Goto(t, cont[t])
  /\ UNCHANGED <<execVars, queueVars, poolVars, fut, cont,
                 worker, flag, got, held, ready, timed>>

UnparkNoneIfParked(t) ==
  /\ pc[t] = "unpark_none"
  /\ tgt' = [tgt EXCEPT ![t] = NoThread]
  /\ word' = [v \in Threads |->
                IF v = tgt[t] /\ word[v].tag \in {"Waiting", "Polling"}
                THEN Notified(NoWorker) ELSE word[v]]
  /\ Goto(t, cont[t])
  /\ UNCHANGED <<execVars, queueVars, poolVars, fut, cont,
                 worker, flag, got, hand, held, ready, timed>>

(* Parker::unpark(None), by the waker of a block_on future. *)
UnparkNone(t) ==
  LET u == tgt[t] IN
  /\ pc[t] = "unpark_none"
  /\ tgt' = [tgt EXCEPT ![t] = NoThread]
  /\ word' = [v \in Threads |->
                IF v = u /\ word[v].tag # "Notified" THEN Notified(NoWorker)
                ELSE word[v]]
  /\ Goto(t, cont[t])
  /\ UNCHANGED <<execVars, queueVars, poolVars, fut, cont,
                 worker, flag, got, hand, held, ready, timed>>
-----------------------------------------------------------------------------
(* WorkerContext::block_on: a fresh Parker, whose future is scheduled      *)
(* before any waker of it exists, and search_retry for a worker.           *)
BlockOn(u) ==
  /\ pc[u] = "out"
  /\ pc' = [pc EXCEPT ![u] = "retry"]
  /\ cont' = [cont EXCEPT ![u] = "poll"]
  /\ word' = [word EXCEPT ![u] = Empty]
  /\ fut' = [fut EXCEPT ![u] = "SCHEDULED"]
  /\ UNCHANGED <<execVars, queueVars, poolVars, localVars>>

(* After a poll that found something, run calls search_discovered if the   *)
(* thread was searching, then returns the result or runs the runnable.     *)
Found(t, next) == IF flag[t] THEN "discover" ELSE next

(* WorkerContext::transition_to_running *)
TransitionToRunning(t) ==
  /\ pc[t] = "attach"
  /\ worker' = [worker EXCEPT ![t] = got[t]]
  /\ home' = [home EXCEPT ![got[t]] = FALSE]
  /\ got' = [got EXCEPT ![t] = NoWorker]
  /\ flag' = [flag EXCEPT ![t] = TRUE]
  /\ Goto(t, IF ~home[got[t]] THEN "panic"
             ELSE IF held[t] # NoTask THEN "discover" ELSE "poll")
  /\ UNCHANGED <<idle, pending, searching, queueVars, poolVars, parkVars, cont,
                 hand, tgt, held, ready, timed>>

AfterPoll(t) == IF worker[t] = NoWorker THEN "wait" ELSE "work"

(* WorkerContext::poll_future: the future is not scheduled, or it is       *)
(* polled; a second poll of ThreadPoolFuture returns Ready.                *)
PollFuture(t) ==
  /\ pc[t] = "poll"
  /\ timed' = [timed EXCEPT ![t] = FALSE]
  /\ IF fut[t] = "SCHEDULED"
     THEN /\ fut' = [fut EXCEPT ![t] = "RUNNING"]
          /\ Goto(t, IF t \in Users THEN "polling" ELSE Found(t, "finish"))
     ELSE Goto(t, AfterPoll(t)) /\ UNCHANGED fut
  /\ cont' = [cont EXCEPT ![t] = "poll"]
  /\ UNCHANGED <<execVars, queueVars, poolVars, word,
                 worker, flag, got, hand, tgt, held, ready>>

FutureReady(t) ==
  /\ pc[t] = "polling"
  /\ Goto(t, Found(t, "finish"))
  /\ cont' = [cont EXCEPT ![t] = "poll"]
  /\ UNCHANGED <<execVars, queueVars, poolVars, parkVars, localVars>>

FuturePendingPollsOn(t) ==
  /\ pc[t] = "polling"
  /\ fut' = [fut EXCEPT ![t] = IF @ = "RUNNING" THEN "IDLE" ELSE "SCHEDULED"]
  /\ Goto(t, IF fut[t] = "NOTIFIED" THEN "poll" ELSE AfterPoll(t))
  /\ cont' = [cont EXCEPT ![t] = "poll"]
  /\ UNCHANGED <<execVars, queueVars, poolVars, word, localVars>>

(* Poll::Pending: transition_to_idle, or                                   *)
(* transition_to_scheduled_from_notified.                                  *)
FuturePending(t) ==
  /\ pc[t] = "polling"
  /\ fut' = [fut EXCEPT ![t] = IF @ = "RUNNING" THEN "IDLE" ELSE "SCHEDULED"]
  /\ Goto(t, AfterPoll(t))
  /\ cont' = [cont EXCEPT ![t] = "poll"]
  /\ UNCHANGED <<execVars, queueVars, poolVars, word, localVars>>

(* Where application code runs: inside a future, a task, or outside. *)
InBody(t) == pc[t] \in {"polling", "task", "out"}

(* Executor::schedule of a task that is not queued, by a spawn or a wake. *)
Schedule(t) ==
  /\ InBody(t)
  /\ \E k \in Away :
       IF worker[t] # NoWorker
       THEN runq' = [runq EXCEPT ![worker[t]] = @ \cup {k}] /\ UNCHANGED injector
       ELSE injector' = injector \cup {k} /\ UNCHANGED runq
  /\ Goto(t, "notify")
  /\ cont' = [cont EXCEPT ![t] = pc[t]]
  /\ UNCHANGED <<execVars, poolVars, parkVars, localVars>>

(* Parker::wake_by_ref by a waker that some poll of u's future gave out;   *)
(* the expired timers and the events that a thread polls call wakers too.  *)
CanWake(t) ==
  \/ InBody(t)
  \/ (NetPending \/ Timers) /\ pc[t] \in {"work", "search", "selecting"}

WakeFuture(t, u) ==
  /\ CanWake(t)
  /\ \/ /\ fut[u] = "IDLE"
        /\ fut' = [fut EXCEPT ![u] = "SCHEDULED"]
        /\ tgt' = [tgt EXCEPT ![t] = u]
        /\ Goto(t, "unpark_none")
        /\ cont' = [cont EXCEPT ![t] = pc[t]]
     \/ /\ fut[u] = "RUNNING"
        /\ fut' = [fut EXCEPT ![u] = "NOTIFIED"]
        /\ UNCHANGED <<tgt, pc, cont>>
  /\ UNCHANGED <<execVars, queueVars, poolVars, word,
                 worker, flag, got, hand, held, ready, timed>>
-----------------------------------------------------------------------------
(* Poller::pop_and_inject of a non-empty list: one runnable is taken, the  *)
(* rest goes to the injector with a notify.                                *)
PopAndInject(t, list, next) ==
  \E k \in list :
    /\ held' = [held EXCEPT ![t] = k]
    /\ injector' = injector \cup (list \ {k})
    /\ Goto(t, IF list = {k} THEN next ELSE "notify")
    /\ cont' = [cont EXCEPT ![t] = next]

(* The network selector is wanted, and no thread holds it. *)
CanSelect == NetPending /\ \A u \in Threads : pc[u] # "selecting"

(* poll_io and poll_timers in poll_worker: wakers of suspended tasks run   *)
(* under Context.intercept.                                                *)
PollEvents(t) ==
  /\ pc[t] \in {"work", "search"}
  /\ CanSelect \/ Timers
  /\ \E list \in (SUBSET Away) \ {{}} : PopAndInject(t, list, Found(t, "task"))
  /\ UNCHANGED <<execVars, runq, poolVars, parkVars,
                 worker, flag, got, hand, tgt, ready, timed>>

(* steal_batch_and_pop from the injector or from another worker. *)
StealBatch(t, list, k, batch) ==
  /\ k \in list /\ batch \subseteq list \ {k}
  /\ held' = [held EXCEPT ![t] = k]
  /\ Goto(t, Found(t, "task"))

(* be_fair, or the search: Producer::consume *)
Consume(t) ==
  /\ pc[t] \in {"work", "search"}
  /\ \E k \in injector, batch \in SUBSET injector :
       /\ StealBatch(t, injector, k, batch)
       /\ injector' = injector \ (batch \cup {k})
       /\ runq' = [runq EXCEPT ![worker[t]] = @ \cup batch]
  /\ UNCHANGED <<execVars, poolVars, parkVars, cont,
                 worker, flag, got, hand, tgt, ready, timed>>

StealFromCopies(t, v) ==
  /\ pc[t] = "search" /\ v # worker[t]
  /\ \E k \in runq[v], batch \in SUBSET runq[v] :
       /\ StealBatch(t, runq[v], k, batch)
       /\ runq' = [runq EXCEPT ![v] = @ \ {k}, ![worker[t]] = @ \cup batch]
  /\ UNCHANGED <<execVars, injector, poolVars, parkVars, cont,
                 worker, flag, got, hand, tgt, ready, timed>>

(* Producer::steal *)
StealFrom(t, v) ==
  /\ pc[t] = "search" /\ v # worker[t]
  /\ \E k \in runq[v], batch \in SUBSET runq[v] :
       /\ StealBatch(t, runq[v], k, batch)
       /\ runq' = [runq EXCEPT ![v] = @ \ (batch \cup {k}),
                               ![worker[t]] = @ \cup batch]
  /\ UNCHANGED <<execVars, injector, poolVars, parkVars, cont,
                 worker, flag, got, hand, tgt, ready, timed>>

(* Producer::pop, from whichever end (RunOrder tells the newest from the   *)
(* oldest).  Only the owner pushes to a run queue, so that an empty one    *)
(* stays empty until search_begin has read `searching`.                    *)
PopLocal(t) ==
  /\ pc[t] = "work"
  /\ \E k \in runq[worker[t]] :
       /\ held' = [held EXCEPT ![t] = k]
       /\ runq' = [runq EXCEPT ![worker[t]] = @ \ {k}]
  /\ Goto(t, Found(t, "task"))
  /\ UNCHANGED <<execVars, injector, poolVars, parkVars, cont,
                 worker, flag, got, hand, tgt, ready, timed>>

SearchBeginUndrained(t) ==
  /\ pc[t] = "work"
  /\ \E b \in {FALSE, Timers} : timed' = [timed EXCEPT ![t] = b]
  /\ Goto(t, IF flag[t] THEN "search" ELSE "release")
  /\ cont' = [cont EXCEPT ![t] = "wait"]
  /\ UNCHANGED <<execVars, queueVars, poolVars, parkVars,
                 worker, flag, got, hand, tgt, held, ready>>

(* Nothing to pop: a thread that is not searching calls search_begin.      *)
SearchBegin(t) ==
  /\ pc[t] = "work"
  /\ runq[worker[t]] = {}
  /\ \E b \in {FALSE, Timers} : timed' = [timed EXCEPT ![t] = b]
  /\ Goto(t, IF flag[t] THEN "search"
             ELSE IF searching > NumWorkers THEN "panic"
             ELSE IF 2 * searching >= NumWorkers THEN "release"
             ELSE "search_add")
  /\ cont' = [cont EXCEPT ![t] = "wait"]
  /\ UNCHANGED <<execVars, queueVars, poolVars, parkVars,
                 worker, flag, got, hand, tgt, held, ready>>

SearchBeginAdd(t) ==
  /\ pc[t] = "search_add"
  /\ searching' = searching + 1
  /\ flag' = [flag EXCEPT ![t] = searching < NumWorkers]
  /\ Goto(t, IF searching < NumWorkers THEN "search" ELSE "panic")
  /\ UNCHANGED <<idle, pending, home, queueVars, poolVars, parkVars, cont,
                 worker, got, hand, tgt, held, ready, timed>>

(* The search ends without a runnable: every queue was found empty in      *)
(* turn, or all MAX_ATTEMPTS rounds met Steal::Retry.                      *)
SearchMiss(t) ==
  /\ pc[t] = "search"
  /\ \E b \in {timed[t], timed[t] \/ Timers} : timed' = [timed EXCEPT ![t] = b]
  /\ Goto(t, "release")
  /\ UNCHANGED <<execVars, queueVars, poolVars, parkVars, cont,
                 worker, flag, got, hand, tgt, held, ready>>

ReleaseKeepsProducer(t) ==
  /\ pc[t] = "release"
  /\ got' = [got EXCEPT ![t] = worker[t]]
  /\ worker' = [worker EXCEPT ![t] = NoWorker]
  /\ Goto(t, "to_idle")
  /\ UNCHANGED <<execVars, queueVars, poolVars, parkVars, cont,
                 flag, hand, tgt, held, ready, timed>>

(* WorkerContext::transition_to_idle puts the Producer back and detaches   *)
(* the worker ...                                                          *)
Release(t) ==
  /\ pc[t] = "release"
  /\ home' = [home EXCEPT ![worker[t]] = TRUE]
  /\ got' = [got EXCEPT ![t] = worker[t]]
  /\ worker' = [worker EXCEPT ![t] = NoWorker]
  /\ Goto(t, "to_idle")
  /\ UNCHANGED <<idle, pending, searching, queueVars, poolVars, parkVars, cont,
                 flag, hand, tgt, held, ready, timed>>

(* ... before search_failed offers its index to other threads. *)
GoIdle(t) ==
  /\ pc[t] = "to_idle"
  /\ IdlePush(got[t])
  /\ got' = [got EXCEPT ![t] = NoWorker]
  /\ flag' = [flag EXCEPT ![t] = FALSE]
  /\ Goto(t, IF flag[t] THEN "search_dec" ELSE cont[t])
  /\ UNCHANGED <<searching, home, queueVars, poolVars, parkVars, cont,
                 worker, hand, tgt, held, ready, timed>>

SearchFailedDec(t) ==
  /\ pc[t] = "search_dec"
  /\ searching' = searching - 1
  /\ Goto(t, IF searching \notin 1 .. NumWorkers THEN "panic"
             ELSE IF searching = 1 THEN "recheck" ELSE "wait")
  /\ UNCHANGED <<idle, pending, home, queueVars, poolVars, parkVars, cont,
                 localVars>>

SearchFailedCheck(t) ==
  /\ pc[t] = "recheck"
  /\ Goto(t, IF injector # {} THEN "retry" ELSE "wait")
  /\ cont' = [cont EXCEPT ![t] = "wait"]
  /\ UNCHANGED <<execVars, queueVars, poolVars, parkVars, localVars>>

(* Executor::search_discovered, then run dispatches on what poll found. *)
Dispatch(t) == IF held[t] # NoTask THEN "task" ELSE "finish"

Discover(t) ==
  /\ pc[t] = "discover"
  /\ flag' = [flag EXCEPT ![t] = FALSE]
  /\ searching' = searching - 1
  /\ Goto(t, IF searching \notin 1 .. NumWorkers THEN "panic"
             ELSE IF searching = 1 THEN "notify" ELSE Dispatch(t))
  /\ cont' = [cont EXCEPT ![t] = Dispatch(t)]
  /\ UNCHANGED <<idle, pending, home, queueVars, poolVars, parkVars,
                 worker, got, hand, tgt, held, ready, timed>>

(* Task::run ends: the task is suspended or complete, or it was notified   *)
(* while it ran and is pushed again.                                       *)
TaskSuspend(t) ==
  /\ pc[t] = "task"
  /\ held' = [held EXCEPT ![t] = NoTask]
  /\ Goto(t, "poll")
  /\ UNCHANGED <<execVars, queueVars, poolVars, parkVars, cont,
                 worker, flag, got, hand, tgt, ready, timed>>

TaskYield(t) ==
  /\ pc[t] = "task"
  /\ runq' = [runq EXCEPT ![worker[t]] = @ \cup {held[t]}]
  /\ held' = [held EXCEPT ![t] = NoTask]
  /\ Goto(t, "notify")
  /\ cont' = [cont EXCEPT ![t] = "poll"]
  /\ UNCHANGED <<execVars, injector, poolVars, parkVars,
                 worker, flag, got, hand, tgt, ready, timed>>

(* The end of block_on.  flag was cleared by run, so transition_to_idle    *)
(* returns false and the notify that follows it is never reached.          *)
Finish(t) ==
  /\ pc[t] = "finish"
  /\ Goto(t, IF worker[t] # NoWorker THEN "release" ELSE "exit")
  /\ cont' = [cont EXCEPT ![t] = "exit"]
  /\ UNCHANGED <<execVars, queueVars, poolVars, parkVars, localVars>>

ExitUncountsUsers(t) ==
  /\ pc[t] = "exit"
  /\ Goto(t, IF t \in Users THEN "out"
             ELSE IF spawned \in 1 .. MaxThreads THEN "off" ELSE "panic")
  /\ spawned' = spawned - 1
  /\ cont' = [cont EXCEPT ![t] = "poll"]
  /\ word' = [word EXCEPT ![t] = Empty]
  /\ fut' = [fut EXCEPT ![t] = "NONE"]
  /\ timed' = [timed EXCEPT ![t] = FALSE]
  /\ parked' = [parked EXCEPT ![t] = 0]
  /\ tgt' = [s \in Threads |-> IF tgt[s] = t THEN NoThread ELSE tgt[s]]
  /\ UNCHANGED <<execVars, queueVars, worker, flag, got, hand, held, ready>>

(* block_on returns, and a thread of the pool calls ThreadPool::finish.    *)
(* Nobody waits on the Parker any more: a thread that still holds it holds *)
(* a dead one (NoThread), on which unpark(Some) fails and unpark(None) is  *)
(* moot; one left in the list only makes spawn try once more.              *)
Exit(t) ==
  /\ pc[t] = "exit"
  /\ Goto(t, IF t \in Users THEN "out"
             ELSE IF spawned \in 1 .. MaxThreads THEN "off" ELSE "panic")
  /\ spawned' = (IF t \in Users THEN spawned ELSE spawned - 1)
  /\ cont' = [cont EXCEPT ![t] = "poll"]
  /\ word' = [word EXCEPT ![t] = Empty]
  /\ fut' = [fut EXCEPT ![t] = "NONE"]
  /\ timed' = [timed EXCEPT ![t] = FALSE]
  /\ parked' = [parked EXCEPT ![t] = 0]
  /\ tgt' = [s \in Threads |-> IF tgt[s] = t THEN NoThread ELSE tgt[s]]
  /\ UNCHANGED <<execVars, queueVars, worker, flag, got, hand, held, ready>>
-----------------------------------------------------------------------------
(* ThreadPool::wait.  Parker::poll_unparked takes the notification; a      *)
(* wait that brings no worker index takes the parker off the list again.   *)
PollUnparked(t, list, next) ==
  /\ word[t].tag = "Notified"
  /\ got' = [got EXCEPT ![t] = word[t].worker]
  /\ word' = [word EXCEPT ![t] = Empty]
  /\ ready' = [ready EXCEPT ![t] = list]
  /\ Goto(t, IF word[t].worker = NoWorker THEN next
             ELSE IF list = {} THEN "attach" ELSE "pop_inject")

WaitNotified(t) ==
  /\ pc[t] = "wait"
  /\ PollUnparked(t, {}, "woken")
  /\ UNCHANGED <<execVars, queueVars, poolVars, fut, cont,
                 worker, flag, hand, tgt, held, timed>>

WaitPush(t) ==
  /\ pc[t] = "wait"
  /\ word[t].tag # "Notified"
  /\ parked' = [parked EXCEPT ![t] = @ + 1]
  /\ Goto(t, "listed")
  /\ UNCHANGED <<execVars, queueVars, spawned, parkVars, cont, localVars>>

(* The third poll_unparked, and the compare_exchange of Parker::park, with *)
(* the network selector when it is wanted and free.                        *)
Park(t) ==
  /\ pc[t] = "listed"
  /\ word[t].tag # "Notified"
  /\ \/ word' = [word EXCEPT ![t] = Waiting] /\ Goto(t, "waiting")
     \/ /\ CanSelect
        /\ word' = [word EXCEPT ![t] = Polling]
        /\ Goto(t, "selecting")
  /\ UNCHANGED <<execVars, queueVars, poolVars, fut, cont, localVars>>

(* The events a network poll brought: suspended tasks become ready. *)
Events(t) == IF pc[t] = "selecting" THEN SUBSET Away ELSE {{}}

ParkNotified(t) ==
  /\ pc[t] \in {"listed", "waiting", "selecting"}
  /\ \E list \in Events(t) : PollUnparked(t, list, "unlist")
  /\ UNCHANGED <<execVars, queueVars, poolVars, fut, cont,
                 worker, flag, hand, tgt, held, timed>>

WaitTimeoutIgnoresUnpark(t) ==
  /\ pc[t] = "waiting"
  /\ word' = [word EXCEPT ![t] = Empty]
  /\ Goto(t, "unlist")
  /\ UNCHANGED <<execVars, queueVars, poolVars, fut, cont, localVars>>

(* The condvar times out after `timeout` or keep_alive. *)
WaitTimeout(t) ==
  /\ pc[t] = "waiting"
  /\ word[t] = Waiting
  /\ word' = [word EXCEPT ![t] = Empty]
  /\ Goto(t, "unlist")
  /\ UNCHANGED <<execVars, queueVars, poolVars, fut, cont, localVars>>

(* mio's poll returns with events, or after `timeout` when there is one.   *)
SelectReturn(t) ==
  /\ pc[t] = "selecting"
  /\ word[t] = Polling
  /\ word' = [word EXCEPT ![t] = Empty]
  /\ \E list \in Events(t) : ready' = [ready EXCEPT ![t] = list]
  /\ Goto(t, "unlist")
  /\ UNCHANGED <<execVars, queueVars, poolVars, fut, cont,
                 worker, flag, got, hand, tgt, held, timed>>

Unlist(t) ==
  /\ pc[t] = "unlist"
  /\ parked' = [parked EXCEPT ![t] = IF @ > 0 THEN @ - 1 ELSE 0]
  /\ Goto(t, "woken")
  /\ UNCHANGED <<execVars, queueVars, spawned, parkVars, cont, localVars>>

(* The rest of WorkerContext::poll after a wait that brought no index. *)
Woken(t) ==
  LET notified == ready[t] # {} \/ timed[t] IN
  /\ pc[t] = "woken"
  /\ Goto(t, IF notified THEN "retry" ELSE "poll")
  /\ cont' = [cont EXCEPT ![t] = IF notified THEN "inject" ELSE "poll"]
  /\ fut' = [fut EXCEPT ![t] = IF ~notified /\ @ = "IDLE" THEN "SCHEDULED" ELSE @]
  /\ UNCHANGED <<execVars, queueVars, poolVars, word, localVars>>

PopInjectOne(t) ==
  /\ pc[t] = "pop_inject"
  /\ \E k \in ready[t] : PopAndInject(t, {k}, "attach")
  /\ ready' = [ready EXCEPT ![t] = {}]
  /\ UNCHANGED <<execVars, runq, poolVars, parkVars,
                 worker, flag, got, hand, tgt, timed>>

PopInject(t) ==
  /\ pc[t] = "pop_inject"
  /\ PopAndInject(t, ready[t], "attach")
  /\ ready' = [ready EXCEPT ![t] = {}]
  /\ UNCHANGED <<execVars, runq, poolVars, parkVars,
                 worker, flag, got, hand, tgt, timed>>

Inject(t) ==
  /\ pc[t] = "inject"
  /\ injector' = injector \cup ready[t]
  /\ ready' = [ready EXCEPT ![t] = {}]
  /\ Goto(t, IF ready[t] = {} THEN "poll" ELSE "notify")
  /\ cont' = [cont EXCEPT ![t] = "poll"]
  /\ UNCHANGED <<execVars, runq, poolVars, parkVars,
                 worker, flag, got, hand, tgt, held, timed>>
-----------------------------------------------------------------------------
Init ==
  /\ idle = [i \in 1 .. NumWorkers |-> i - 1]
  /\ pending = TRUE
  /\ searching = 0
  /\ injector = {}
  /\ runq = [w \in Workers |-> {}]
  /\ home = [w \in Workers |-> TRUE]
  /\ parked = [t \in Threads |-> 0]
  /\ spawned = 0
  /\ word = [t \in Threads |-> Empty]
  /\ fut = [t \in Threads |-> "NONE"]
  /\ pc = [t \in Threads |-> IF t \in Users THEN "out" ELSE "off"]
  /\ cont = [t \in Threads |-> "poll"]
  /\ worker = [t \in Threads |-> NoWorker]
  /\ flag = [t \in Threads |-> FALSE]
  /\ got = [t \in Threads |-> NoWorker]
  /\ hand = [t \in Threads |-> NoWorker]
  /\ tgt = [t \in Threads |-> NoThread]
  /\ held = [t \in Threads |-> NoTask]
  /\ ready = [t \in Threads |-> {}]
  /\ timed = [t \in Threads |-> FALSE]

Executor(t) ==
  \/ SearchRetryPop(t) \/ SearchRetryNone(t) \/ SearchRetryAdd(t)
  \/ NotifySkip(t) \/ NotifyPending(t) \/ NotifyCas(t) \/ NotifyPop(t)
  \/ NotifyGiveBack(t) \/ NotifyDec(t)
  \/ SearchBegin(t) \/ SearchBeginAdd(t) \/ SearchFailedDec(t)
  \/ SearchFailedCheck(t) \/ Discover(t)

ThreadPool(t) ==
  \/ SpawnIdle(t) \/ SpawnReserve(t) \/ SpawnThread(t) \/ SpawnError(t)
  \/ UnparkSome(t) \/ UnparkNone(t)
  \/ WaitNotified(t) \/ WaitPush(t) \/ Park(t) \/ ParkNotified(t) \/ Unlist(t)

WorkerLoop(t) ==
  \/ TransitionToRunning(t) \/ PollFuture(t)
  \/ FutureReady(t) \/ FuturePending(t)
  \/ PollEvents(t) \/ Consume(t) \/ (\E v \in Workers : StealFrom(t, v))
  \/ PopLocal(t) \/ SearchMiss(t) \/ Release(t) \/ GoIdle(t)
  \/ TaskSuspend(t) \/ TaskYield(t) \/ Finish(t) \/ Exit(t)
  \/ Woken(t) \/ PopInject(t) \/ Inject(t)

(* What the environment decides: the application starts work and wakes     *)
(* futures, clocks and sockets end a blocked wait.                         *)
Environment(t) ==
  \/ (t \in Users /\ BlockOn(t)) \/ Schedule(t)
  \/ (\E u \in Users : WakeFuture(t, u))
  \/ WaitTimeout(t) \/ SelectReturn(t)

Next == \E t \in Threads :
          Executor(t) \/ ThreadPool(t) \/ WorkerLoop(t) \/ Environment(t)

Spec == Init /\ [][Next]_vars

(* The operating system schedules every thread, and application code       *)
(* returns from a poll: what keeps a body going is the environment's       *)
(* doing, so that its end needs strong fairness.  Nothing is assumed of    *)
(* timeouts, I/O or the application's next call.                           *)
Fairness ==
  /\ \A t \in Threads :
       /\ WF_vars(Executor(t) \/ ThreadPool(t) \/ WorkerLoop(t))
       /\ SF_vars(TaskSuspend(t) \/ TaskYield(t))
  /\ \A u \in Users : SF_vars(FutureReady(u) \/ FuturePending(u))

FairSpec == Spec /\ Fairness
-----------------------------------------------------------------------------
Pcs == { "out", "off", "retry", "retry_add", "attach", "poll", "polling",
         "work", "search_add", "search", "release", "to_idle", "search_dec",
         "recheck", "discover", "task", "finish", "exit", "notify",
         "notify_cas", "notify_pop", "notify_dec", "spawn", "unpark_some",
         "create", "give_back", "unpark_none", "wait", "listed", "waiting",
         "selecting", "unlist", "woken", "pop_inject", "inject", "panic" }

Slot == Workers \cup {NoWorker}

(* The types of the state of Executor, ThreadPool, Parker, WorkerContext   *)
(* and Context.  The count of threads stays between 0 and the maximum, so  *)
(* that the assertions on PoolState.spawned hold.                          *)
TypeOK ==
  /\ idle \in Seq(Workers)
  /\ pending \in BOOLEAN
  /\ searching \in Int
  /\ injector \subseteq Tasks
  /\ runq \in [Workers -> SUBSET Tasks]
  /\ home \in [Workers -> BOOLEAN]
  /\ parked \in [Threads -> Nat]
  /\ spawned \in 0 .. MaxThreads
  /\ word \in [Threads -> {Empty, Waiting, Polling} \cup {Notified(w) : w \in Slot}]
  /\ fut \in [Threads -> {"NONE", "IDLE", "SCHEDULED", "RUNNING", "NOTIFIED"}]
  /\ pc \in [Threads -> Pcs]
  /\ cont \in [Threads -> Pcs]
  /\ worker \in [Threads -> Slot]
  /\ flag \in [Threads -> BOOLEAN]
  /\ got \in [Threads -> Slot]
  /\ hand \in [Threads -> Slot]
  /\ tgt \in [Threads -> Threads \cup {NoThread}]
  /\ held \in [Threads -> Tasks \cup {NoTask}]
  /\ ready \in [Threads -> SUBSET Tasks]
  /\ timed \in [Threads -> BOOLEAN]

Panicked == \E t \in Threads : pc[t] = "panic"

(* The places where a worker index can be: a position of the idle queue,   *)
(* the Context of a thread, a local variable, or the word of a Parker.     *)
Places(w) ==
  {<<"idle", i>> : i \in {j \in 1 .. Len(idle) : idle[j] = w}}
  \cup {<<"worker", t>> : t \in {u \in Threads : worker[u] = w}}
  \cup {<<"got", t>> : t \in {u \in Threads : got[u] = w}}
  \cup {<<"hand", t>> : t \in {u \in Threads : hand[u] = w}}
  \cup {<<"word", t>> : t \in {u \in Threads : word[u].worker = w}}

(* Every worker index is always in exactly one place: search_retry, notify *)
(* and its error path, spawn, unpark and the park timeout that races it    *)
(* neither lose a worker nor let two threads have it.                      *)
WorkerConservation ==
  \A w \in Workers : \E p \in Places(w) : Places(w) = {p}

(* search_retry, notify and search_begin count a searcher, search_failed,  *)
(* search_discovered and the error path of notify take it off again: the   *)
(* counter is the number of threads that search, of notifications under    *)
(* way and of indices handed to a thread that has not started to search.   *)
SearchingExact ==
  ~Panicked =>
    searching =
      Cardinality({t \in Threads : flag[t]})
      + Cardinality({t \in Threads : pc[t] = "search_dec"})
      + Cardinality({t \in Threads : got[t] # NoWorker
                                      /\ pc[t] \notin {"retry_add", "to_idle"}})
      + Cardinality({t \in Threads : pc[t] \in
            {"notify_pop", "notify_dec", "spawn", "unpark_some", "create", "give_back"}})
      + Cardinality({t \in Threads : word[t].worker # NoWorker})

(* The unwrap of swap_producer(None) in transition_to_running: the thread  *)
(* that gave the worker up had put its Producer back.                      *)
AttachFindsProducer ==
  \A t \in Threads : pc[t] = "attach" => home[got[t]]

(* spawned counts the threads of the pool that run or are being created,   *)
(* through failed creations and threads that time out.                     *)
PoolExact ==
  spawned = Cardinality({p \in Pool : pc[p] # "off"})
            + Cardinality({t \in Threads : pc[t] = "create"})

(* A runnable is queued, ready or running at most once, through batches    *)
(* stolen between queues, pop_and_inject and a task that yields.           *)
RunnableOnce ==
  \A k \in Tasks :
    Cardinality( {<<"runq", w>> : w \in {v \in Workers : k \in runq[v]}}
                 \cup {<<"ready", t>> : t \in {u \in Threads : k \in ready[u]}}
                 \cup {<<"held", t>> : t \in {u \in Threads : held[u] = k}}
                 \cup (IF k \in injector THEN {<<"injector", 0>>} ELSE {}) ) <= 1

(* A scheduled runnable leaves the queues only by being run: no step of    *)
(* the executor, the poller or a thread that exits drops it.               *)
RunnableKept ==
  [][\A k \in Tasks \ Away :
        k \in Away' => \E t \in Threads : pc[t] = "task" /\ held[t] = k]_vars

(* transition_to_idle leaves runnables in the queue of its worker only at  *)
(* the end of block_on: a thread that goes on to wait has run them all,    *)
(* the ones it stole in batches and the ones its events brought included.  *)
LeftOnlyByReturn ==
  [][\A t \in Threads, w \in Workers :
       worker[t] = w /\ worker'[t] # w /\ runq[w] # {} => cont[t] = "exit"]_vars

(* What the executor looks like to the tasks: a worker runs what the       *)
(* thread that is attached to it holds, and a runnable in any queue, or in *)
(* the hands of a thread that has no worker yet, waits for its run.        *)
Dispatched ==
  {<<worker[t], held[t]>> : t \in {u \in Threads : worker[u] # NoWorker /\ held[u] # NoTask}}

Queued ==
  (injector \cup (UNION {runq[w] : w \in Workers}) \cup (UNION {ready[t] : t \in Threads})
   \cup {held[t] : t \in {u \in Threads : worker[u] = NoWorker}}) \ {NoTask}

Abstract == INSTANCE Dispatcher WITH queued <- Queued, running <- Dispatched

(* Executor, ThreadPool and WorkerContext implement the Dispatcher: every  *)
(* scheduled runnable is run once, by one worker, one at a time, however   *)
(* runnables are stolen in batches, injected, handed to a thread that was  *)
(* waiting and given up by a block_on that returns.                        *)
ImplementsDispatcher == Abstract!Spec

(* The assertions on `searching`, the unwrap of swap_producer and the      *)
(* assertions on `spawned` never fail.                                     *)
NoAssertionFails == ~Panicked

(* The first assertion that fails is an upper bound on `searching`: the    *)
(* counter never underflows, the unwrap of swap_producer finds its         *)
(* Producer and the assertions on `spawned` hold.                          *)
OnlyBoundFails == [][~Panicked /\ Panicked' => searching >= NumWorkers]_vars

(* Parker::unpark is answered by the thread that owns the Parker, whatever *)
(* races it: a notification is never overwritten, nor cleared by a wait    *)
(* that times out.  The thread that takes it has the worker it carries and *)
(* goes on to be attached, or on to its next poll.  Only a notification    *)
(* without a worker can go unanswered, with the Parker of a block_on that  *)
(* has returned.                                                           *)
NotificationTaken ==
  [][\A u \in Threads :
       word[u].tag = "Notified" /\ word'[u] # word[u] =>
         /\ word'[u] = Empty
         /\ \/ /\ got'[u] = word[u].worker
               /\ pc'[u] \in (IF got'[u] = NoWorker THEN {"unlist", "woken"}
                              ELSE {"attach", "pop_inject"})
            \/ word[u].worker = NoWorker /\ pc[u] \in {"exit", "out", "off"}]_vars

(* The procedures notify and unpark return to cont; a thread that is in    *)
(* one of them is, for what it owns, where it will return to.              *)
CallPcs == {"notify", "notify_cas", "notify_pop", "notify_dec", "spawn",
            "unpark_some", "create", "give_back", "unpark_none"}

Where(t) == IF pc[t] \in CallPcs THEN cont[t] ELSE pc[t]

(* The future of u will be polled before its thread sleeps: the thread is  *)
(* on its way to poll_future, its Parker is notified, or a waker is about  *)
(* to notify it.                                                           *)
OnItsWay(u) ==
  \/ Where(u) \in {"poll", "task", "attach", "pop_inject", "retry_add",
                   "unlist", "woken", "inject"}
  \/ Where(u) = "discover" /\ held[u] # NoTask
  \/ pc[u] = "retry" /\ cont[u] # "wait"

UnderWay(u) ==
  \/ OnItsWay(u)
  \/ word[u].tag = "Notified"
  \/ \E t \in Threads : pc[t] = "unpark_none" /\ tgt[t] = u

(* A wake is not lost between its threads: from the moment that block_on,  *)
(* wake_by_ref or the end of a wait schedules a future until the future is *)
(* polled, the wake is under way, through timeouts, workers that are       *)
(* handed over and tasks that are run first.  Only a future that schedules *)
(* itself, by a yield, is left out.                                        *)
WakeUnderWay ==
  [][\A u \in Users :
       /\ fut'[u] = "SCHEDULED"
       /\ fut[u] \in {"NONE", "IDLE"} \/ (fut[u] = "SCHEDULED" /\ UnderWay(u))
       => UnderWay(u)' \/ pc'[u] = "panic"]_vars

(* A future that woke itself and returned Pending has yielded: its thread, *)
(* whether it keeps its worker or gives it up for want of other work, does *)
(* not go to sleep before the next poll.                                   *)
YieldedNotParked ==
  \A u \in Users :
    fut[u] = "SCHEDULED" /\ pc[u] \in {"waiting", "selecting"}
      => word[u].tag = "Notified" \/ \E t \in Threads : tgt[t] = u

(* Parker::wake_by_ref of a future that is idle: the thread in block_on is *)
(* made to poll it again, wherever it is between its last poll and its     *)
(* sleep, and with no timeout to help it.                                  *)
WakeReachesPoll ==
  \A u \in Users :
    (\E t \in Threads : pc[t] = "unpark_none" /\ tgt[t] = u)
      ~> fut[u] # "SCHEDULED" \/ Panicked

(* A thread that was handed a worker while it parked takes it up, also     *)
(* when its wait timed out at the same time.                               *)
HandoffTaken ==
  \A t \in Threads, w \in Workers :
    word[t] = Notified(w) ~> worker[t] = w \/ Panicked
=============================================================================
