# A TLA+ verification project for yaar

yaar is an asynchronous runtime for Rust without `unsafe`: a pool of threads that
run spawned tasks, a timer queue per worker, and a network poller on top of mio.
The modules here model the runtime's concurrent core and its network part from its source (paths below
are relative to the crate's `src/`), TLC checks them on small instances, and TLAPS
proves their safety properties for every number of workers, threads, tasks, timers and
sockets.

## 1. Inventory

| Component | State | Operations | Talks to |
|---|---|---|---|
| `Executor`, `IdleQueue` (runtime/internal/executor.rs) | idle worker indices with an unlocked `pending` hint, `searching`, injector, workers | schedule, inject, notify, search_begin / discovered / failed / retry | ThreadPool, run queues |
| `ThreadPool` (thread_pool.rs) | list of parkers, `spawned`, `pending`, `running` | spawn, run, finish, wait, task_begin / complete, shutdown | Parker, Executor |
| `Parker` (parker.rs) | one word: Empty, Waiting, Polling, Notified(index) | park, unpark, poll_unparked | net poller, condition variable |
| `WorkerContext` (worker.rs) | owned worker, `searching` flag, the block_on future's state, a `Poller` | block_on, run, poll, poll_future, poll_worker | all of the above |
| Run queues (queue.rs) | a crossbeam deque per worker, LIFO for its owner, with a cell `be_fair`; the Producer is moved between owner and home | push, pop, steal, consume | |
| `Poller` (poller.rs) | expired timers, events, intercepted runnables | poll_timers, network poll, inject | timer queue, net poller |
| `Task`, `JoinHandle` (task.rs, ../task.rs) | state word, try-locked data, AtomicWaker for the joiner | spawn, wake, run, poll_join, yield_now | Executor |
| `AtomicWaker` (sync/internal/waker.rs) | state word, `notified`, a mutexed waker | poll, wake, reset | tasks, timers, sockets |
| Timer queue, `Sleep` (time/) | tree of deadlines, cached `expires`, entry cache | schedule, poll, complete, process; Sleep::poll and drop | AtomicWaker, Poller |
| `SharedU64`, `Timeout` (time/) | the word that holds `expires`; a future raced with a Sleep | load, store; poll | timer queue |
| Network `Poller` (net/internal/poller.rs) | count of pending I/O, selector lock | register, deregister, io_pending_begin / complete, try_poll, poll, process, notify | mio, WakerStorage, Parker |
| `WakerStorage` (net/internal/wakers.rs) | blocks of wakers for each slot and direction, free slots | alloc, free, with | AtomicWaker |
| `Pollable` (net/internal/pollable.rs) | slot index, per direction a pending flag and a budget | new, poll_io, poll_future, try_io, drop | network Poller, WakerStorage |
| TCP (net/tcp/) | a Pollable, owned halves that share it, `shutdown_on_drop` | bind, connect, accept, read, write, readable, writable, split, into_split, reunite, forget, shutdown, drop | Pollable |
| Random iteration (random.rs) | start and coprime stride | from, gen_iter | worker searches |
| `Context`, `Builder` (runtime/) | thread-local context; configuration | enter, drop; build | |

What is hard here: everything is lock-free words with short critical sections in
between. Threads hand worker indices to each other through a word that its owner
abandons on a timeout; counters are raised and lowered at some distance from the
events they count; wakes arrive between any two atomic operations of a poll; a
thread that collected work may lose or gain a worker before it publishes the work;
timer deadlines are compared with stale clocks. PROJECT.json lists these hazards
line by line with the properties aimed at each.

What makes each part correct:

* workers: an index is in one place at a time, is never lost, and its Producer is
  at home when somebody takes it; `searching` and `spawned` are exact;
* runnables: queued at most once, never dropped, each gets its turn; a wake reaches a poll;
* tasks: one run per wake, never two at once, the join sees the result;
* AtomicWaker: a latch, in spite of the four-state word;
* timers: `expires` is the minimum, an entry has one owner, a Sleep ends and not
  before its deadline;
* network: the pending count is exact, for threads stop selecting at zero; a slot has
  one owner; a ready source gets its waiting task polled, through late events, budget
  yields and slots that change hands; a write half that goes shuts the stream down.

## 2. Modules and how they correspond to the code

A step is one atomic operation or one critical section together with the
thread-local work up to the next one. Memory is sequentially consistent (orderings
weaker than SeqCst are not distinguished). A failed assertion, unwrap or
`unreachable!` moves the thread to `"panic"`. Operators that no action uses
(`NotifyPopReturns`, `PollReplaces`, ...) are variants of the operator below them
with a plausible mistake; they document which property would notice it.

**Scheduler** (+ **MCScheduler**, its symmetry). One variable per shared field of
Executor, ThreadPool and Parker, and per thread: `pc`, `cont` (the caller of
`notify`, `search_retry` or `transition_to_idle`), `worker` and `flag`
(Context.worker_index, WorkerContext.searching) and the locals that carry an index
(`got`, `hand`), a parker (`tgt`) or a runnable (`held`). The actions come in four
groups: `Executor` (search_retry, notify, search_begin, search_failed,
search_discovered), `ThreadPool` (spawn, thread creation and its failure, unpark,
wait, park), `WorkerLoop` (block_on, poll, poll_future, poll_worker, task bodies,
exit) and `Environment` (the application's block_on, schedule and wake; timeouts and
the end of a select). Futures and tasks are opaque bodies that may schedule, wake,
yield, suspend or finish. Queues are sets of runnables: a pop may
take any element and a batch any subset with at least one, which covers every order the
code can take them in and is all that the safety properties need; who gets his turn is
RunOrder's question. The
condition variable of a Parker is a wait that ends when the word is Notified or the
time is up. `Schedule` is for tasks that are nowhere in the runtime: that a task is
not scheduled twice is Task's `ScheduledOnce`.

**Dispatcher** is the promise of the executor to the tasks: a task that is made
runnable (`Submit`) is taken up once by a free worker (`Take`), runs, and is suspended
or owed another run (`Suspend`, `Yield`). Queues, thieves, searches, parked threads and
hand-overs do not exist in it. Scheduler implements it (`ImplementsDispatcher`) with
the mapping `Dispatched`, the pairs of a worker and what the thread attached to it
holds, and `Queued`, the runnables of all queues and of the threads that have no worker
(yet): a runnable that a waiting thread took from its events is taken up in the
Dispatcher when the thread attaches the worker it was handed. One step of a thread may
both make tasks runnable and take one up (poll_timers and poll_io do), hence the
`woken` of `Take`.

**SleepWatch** extends Scheduler with a closed application (one block_on whose
future spawns the tasks, awaits their JoinHandles and sleeps once) and with the timer
queues, of which only that Sleep's place and whether its deadline has passed matter.
Every step is a step of Scheduler (proved, `WatchImplementsScheduler`); what `poll_timers` answers is no longer open but
follows from whether the Sleep is in a queue that the thread watches at that point.

**RunOrder** (+ **MCRunOrder**, its programs) extends Scheduler with the order of the run
queues: per worker the deque, from the oldest runnable to the newest, and the cell
`be_fair`. `Producer::push` adds at the newest end and a yield sets the cell; `pop` takes
the newest, or the oldest when the pass is fair or the cell is set, which it clears; a
thief takes from the oldest end, and the batch lands at the newest end of its own deque.
`tick % 61 == 0` becomes a choice made at each pass, with the fairness that the counter
gives (section 3). Every step is a step of Scheduler (proved, `OrderImplementsScheduler`).
`program` picks the tasks and pool threads that a behaviour has, and never changes. The
cell is not kept when there is one task only, for such a queue has one end. In what
order a batch lands is left open, and there are no events (NetPending and Timers are
FALSE).

**RandomIter** is the stride and the iterator of a search as functions. Scheduler lets
a search visit the workers in any order, which is sound because every worker is
visited once.

**WakeLatch** is the promise of AtomicWaker: wake raises a signal, a poll consumes
it and answers Ready until reset, no poll answers Ready without a signal or Pending
over one. **AtomicWaker** is waker.rs operation by operation, with one polling
task and any number of wakes; `resets`, chosen in Init, says whether the user calls
`reset` (sockets do, tasks and timers do not). Its refinement mapping is
`Latch == INSTANCE WakeLatch WITH ...`.

**Task** is one spawned task with the threads that pop it, its wakers and its
joiner; the executor is the number of times it is queued, and the joiner's waker is
the latch.

**TimerQueue** is one timer queue with the Sleeps on it and the threads that poll
it. The tree is a set of `<<deadline, entry>>` pairs; a critical section of
`Queue.state` is one step, the unlocked load of `expires`, the clock and each wake
of `Expired::process` are others. The clock of `poll_timers` may be any earlier
reading, since one `now` serves all queues of a round. Entry wakers are latches
without reset. `reused` is a history variable.

**NetIo** (+ **MCNetIo**, its programs). One variable per field of WakerAllocator,
Poller and Pollable, `phase` and `halves` for the lifetime of a source, and for each
*end* (one direction of a source) the place of its task in `poll_io`: `idle`, about to
do_io, about to reset, about to count itself pending, waiting. All methods of streams,
listeners, borrowed and owned halves are calls of `poll_io` of three kinds: an
operation with a Context, a wait for readiness, whose do_io always succeeds, and
try_io without a Context. The kernel is external: per end a level (an operation would
not block) and an edge (mio has not reported the rise yet); registration reports what
is ready already, as epoll does. A select turns edges into a batch of wakes that a
thread makes one by one afterwards, by token, when the slot may have changed hands.
The AtomicWaker of a slot is the latch of WakeLatch with the registered task, so that
`waker_try_lock` (below) is not seen again here. `fresh` and `reported` are history
variables. `Programs` says which ends an instance drives, whether it splits the
stream and how many threads poll: it is constant over a behaviour and only keeps
combinations small.

How they fit: Scheduler's `fut` is the TaskState word of Task for the future of
block_on; `ready` is what the wakes of TimerQueue's `Process` and of sockets leave
in the Poller; Task, TimerQueue and NetIo use the latch that AtomicWaker implements.
SleepWatch composes Scheduler with the timers, RunOrder with the order of the queues. NetIo's `pending` is what Scheduler's
NetPending stands for, and NetIo's pollers are its threads at a select.

## 3. Runs

| Run | Specification and bounds | Shows |
|---|---|---|
| `pool` | Scheduler, 2 workers, 1 application thread, 2 pool threads, 1 task (1.2M states) | types, WorkerConservation, SearchingExact, AttachFindsProducer, PoolExact, OnlyBoundFails, LeftOnlyByReturn, NotificationTaken, WakeUnderWay, with failing thread creation and park timeouts |
| `events` | 1 + 1 threads, 2 tasks, a socket is waited for and a deadline exists (3.3M) | a thread that selects is handed workers and collects runnables, a wait that times out claims a worker by search_retry: RunnableOnce, RunnableKept, and the refinement of Dispatcher |
| `fair` | RunOrder, fairness, two programs: 1 + 1 threads with 1 task; 1 + 0 threads with 3 tasks (83k) | WakeReachesPoll, HandoffTaken, LocalWorkRuns, with no help from timeouts |
| `assertions` | as `pool` | violated: an assertion on `searching` can fail |
| `yield` | 1 + 1 threads | violated: the thread of a future that yields, having found no other work and given its worker up, sleeps |
| `sleep_watch` | SleepWatch, 1 + 1 threads, 2 tasks, 1 Sleep, fairness (43k) | violated: nobody watches the timer queue of a Sleep |
| `waker` | 3 wakes, with and without resets, fairness | NoLostWake, WakeLeadsToReady, refinement of WakeLatch; without resets PollNeverPanics |
| `waker_try_lock` | 3 wakes, resets | violated: the try_lock of poll can meet a late wake |
| `task` | 3 threads, 3 wakers, fairness | NeverPanics, ScheduledOnce, WakeNotLost, JoinCompletes |
| `timer_queue` | 2 Sleeps, 1 poller, 3 entries, cache of 1, fairness (0.3M) | TypeOK, ExpiresIsMin, EntryOwnedOnce, QueueNeverPanics, FirstUseNeverEarly, WaitingIsHeld, SleepEnds |
| `timer_early` | 1 Sleep, 2 entries | violated: a Sleep that gets a cached entry can end early |
| `net` | NetIo, 1 stream, 1 listener, 2 slots in 2 blocks, 2 pollers, budget 1, fairness (0.2M) | PendingExact, SlotOwnedOnce, NoLostReadiness, WakerOfOwner, NetNeverPanics, FreshSlotNeverEarly, WriteHalfShutsDown, ReadinessReachesTask |

`pool` also evaluates VictimsVisitedOnce: for up to `MaxRange` = 16 workers and every
start, the indices that gen_iter yields are a permutation (section 5 has the proof for
any number).

NotificationTaken and WakeUnderWay are what the two liveness properties of the Parker
rest on. The first says that a notification is taken by its thread together with the
worker in it, and by nothing else; the second that from the moment a future is
scheduled until it is polled the wake is somewhere: with the waker that is about to
unpark, in the word, or with a thread that cannot sleep before its next poll. A future
that schedules itself is left out, since `yield` shows that it is not so for that one.

Why these bounds. Two workers are the smallest executor that starts (see below) and
enough for stealing, for a second searcher and for a hand-over while another worker
is owned. Three threads let one notify, one park or time out and one own the worker
in question; three wakes let one be late, one be lost in the word and one be current.
In the timer run the cache holds one entry, so that reuse, a new allocation and a
dropped entry all happen; deadlines 1 and 2 fall in one poll or in two;
`MaxDeadline` is just above the clock's bound, so that `checked_add` saturates;
`Entries` and `MaxNow` bound allocations and time and nothing else is capped. In the
network run two blocks of one slot let `alloc` add a block, run out (OutOfMemory) and
hand a freed slot to the other source; a budget of 1 makes every second successful
poll a yield; two pollers let a batch be late while the other thread selects again.
The two directions of one stream with one poller, a listener that accepts the stream,
and each direction of a split stream with two pollers are four programs of one run.
Symmetry is used for the threads of one kind and for tasks, never with a liveness
property. Deadlock is not checked in `pool` and `assertions`, where a thread stopped
by an assertion (see `assertions`) can leave the rest asleep for good, nor in
`waker`, where the panic of `waker_try_lock` ends a behaviour; the other
passing runs have no deadlock. The limit `spawned = MaxThreads` needs more threads
than these instances have and is covered by the proof of TypeCorrect.

Fairness. Scheduler: the operating system runs every thread (weak fairness of a
thread's own steps), and the body of a future or task ends (strong fairness, because
what interrupts it is the application's own doing). Nothing is assumed of timeouts,
of I/O or of further calls. AtomicWaker: begun calls are carried through and a task
whose waker was called polls. Task: a queued task is taken by some thread, a begun
run, wake or join goes on. TimerQueue: time passes, begun calls return, a woken task
polls, and the queue is polled again and again, now and then with a fresh clock;
this is what a worker does that is owned and finds no work, so SleepEnds is a
statement about a queue that somebody watches; `sleep_watch` is about the others.
SleepWatch: every thread runs, the deadline comes, and a wait whose time is up ends,
so that the hang it shows is none of a stopped clock. NetIo: a call of poll_io goes
on, a task whose waker was called is polled again, and some thread polls the network
while the pending count is not zero (a thread that has nothing to run waits in the
selector). Nothing is assumed of peers, cancellation or further calls.

RunOrder adds that among the passes a thread makes over a queue that is not empty, fair
ones recur (strong fairness of `FairPass`). Such a pass returns a runnable, each runnable
that is returned advances `tick`, and every 61st value is fair. It is not assumed that a
fair pass pops: the injector comes first in it and may have something each time.

LocalWorkRuns says that a runnable in the queue of an attached worker does not wait for
ever, whatever competes with it. Three tasks are enough for starvation: one at the oldest
end and two that are scheduled in turn, popped from the newest end and suspended, so
that the one below never has its turn but by a fair pop. Without the fairness of
`FairPass`, or with a pop that ignores be_fair, TLC finds just that. The threads of the
pool cannot be created in that program; the other one has a thief, and threads whose
notify is suppressed by each other, and one task. Two threads with two tasks and the order have 1.3
million states, beyond what TLC can check liveness on in a few minutes; that the order
conserves the deque there and blocks no step of Scheduler was checked.

There are two exceptions. Outside work can hold a runnable up: if the injector is found
with something at every fair pass, and other tasks keep the newest end busy in between,
the oldest waits, so that the property excuses a wait during which the injector is again and
again not empty. And `spawn` takes parkers from the list until one accepts the worker;
each may have timed out just before, and its thread may be back on the list before the
next try, so that the notifying thread can go round for ever: a thread in `unpark_some`
is excused.

## 4. Findings

* **Assertion on `searching`** (executor.rs:164, 194). `notify` counts a searcher
  before it pops an index, so a notification, a searcher and a thread in
  `search_retry` can be three with two workers, and the last one's assertion fails.
  SearchingExact says what the counter does count, and OnlyBoundFails that an upper bound
  on it is the first assertion to fail, if any does.
* **A yield that sleeps** (worker.rs:217). A block_on future that wakes itself
  (yield_now, or a Sleep whose delay has passed, sleeps.rs:48) and returns Pending
  becomes SCHEDULED, and nothing after poll_future looks at that. Its thread, in the run
  one with a worker, searches, finds no other work, gives the worker up
  (worker.rs:155-168) and parks until keep_alive is over; one that has no worker goes
  straight to the wait (worker.rs:170-175).
* **try_lock after reset** (waker.rs:55). A wake takes the waker's mutex after it
  published NOTIFIED; poll, reset and poll again can happen in between.
* **A Sleep that nobody watches** (queue.rs:101). A block_on thread without a worker
  starts a Sleep in a random worker's queue and parks without a deadline of its own.
  If the other threads have already swept the timers and left, keep_alive only makes
  it poll its future, never the queue. The run needs a task that ends and wakes the
  block_on thread without handing it a worker.
* **Sleep ends early** (queue.rs:248). A cached entry keeps the state of its
  AtomicWaker; FirstUseNeverEarly shows that new entries are fine.

Seen on the way and not a run: `RandomIterSource::from(1)` panics (random.rs:18,
part of VisitsAll), hence `NumWorkers >= 2`; a waker slot goes back to the storage
as it is, and the drop has just notified it (pollable.rs), so that the next source in
that slot is taken to be ready at once: reads and writes then meet WouldBlock and
reset it, but `readable`, `writable` and the wait of `connect` return early.
FreshSlotNeverEarly says the part that holds; no line of the repository promises more; `task_complete` tests `pending == 0` after asserting
`pending != 0`, so that `shutdown` is never called (thread_pool.rs:196-202); the
notify at the end of block_on (worker.rs:76) is dead, because `run` has cleared the
flag it depends on.

## 5. Proofs

Assumptions: `SchedulerAssumption` (at least two workers, more threads allowed than
workers, as Builder ensures, finite disjoint sets of threads), `TaskAssumption`,
`AtomicWakerAssumption` (names are distinct), `TimerQueueAssumption` (deadlines and
clock are bounded by `MaxDeadline`, which is Deadline::MAX), `NetIoAssumption`
(finitely many sources, blocks and entries that fit the 16 bits they have in a token,
a budget that is not zero). Nothing else is assumed.

The modules about Scheduler build on each other: SchedulerProofs, WorkerProofs,
SearchProofs, RunnableProofs.

* **SchedulerProofs**. The inductive invariant is `Typing /\ LocalInv`. `LocalInv`
  says for every place of a thread which of `hand`, `got`, `worker` and `word` hold
  an index: without it the typing of `runq[worker[t]]` and of the word an unpark
  stores do not follow. `LocalInvariant` has one step per action, `LocalFrame` deals
  with all other threads at once. `PoolIsExact` (`Spec => []PoolExact`): all steps
  but four are `Quiet`, and each of the four moves one thread into or out of one of
  the two counted sets. `TypeCorrect` follows, with the bounds of `spawned` read off
  the cardinalities.
* **WorkerProofs**. `WorkersAreConserved` (`Spec => []WorkerConservation`). The
  places of an index are those of five kinds; a step is `Still` or `Moves` one index
  from one place to another, and both preserve that every index has one place. Nine
  actions move an index, each in a lemma of its own; that the target is free
  (an index is never overwritten) is where LocalInv is needed. `WorkersAreExclusive`
  is the corollary that no two threads are attached to one worker.
  `NotificationsAreTaken` (`Spec => NotificationTaken`) goes through the steps that write
  a word; LocalInv tells that a Parker is replaced only where it holds no worker.
  `WakesStayUnderWay` (`Spec => WakeUnderWay`) has one step per action, for any pair of
  the thread that acts and the thread that is woken; the strengthening is `PolledInv`
  (a future that is polled is RUNNING or NOTIFIED), without which the end of a poll
  could pass for a wake. It is the safety half of WakeReachesPoll.
* **SearchProofs**. `SearchingIsExact` (`Spec => []SearchingExact`). `FlagInv` says
  which threads have the `searching` flag set. A thread counts at most once, be it as
  a searcher, as a notification or as the holder of an index that a notification
  brought, so the five cardinalities move by one exactly where the counter does;
  a panic stops the claim, since a failed assertion comes after its fetch_add.
  `ProducerIsFound` (AttachFindsProducer): a Producer that is away is with the thread
  that has the worker (`ProducerHeld`), and a thread about to attach has the index in
  `got`, so by WorkerConservation nobody has the worker. `OnlyTheBoundFails`: by
  SearchingIsExact every decrement finds at least one, by ProducerIsFound and
  PoolIsExact the others hold; what is left are the upper bounds, and `assertions`
  shows that one of them can fail. `EveryRangeIsVisited` (VisitsAll for every range
  above 0, hence `VictimsAreVisitedOnce`): RandomIterSource looks for the largest number
  below the range that is coprime with it, and that is always range - 1
  (`StrideIsPredecessor`), so the iterator counts down and wraps once. The induction over
  its steps is done by the least step at which it would not (`IterCountsDown`, from the
  well-foundedness of < on Nat).
* **RunnableProofs**. `KeepInv` says where a thread can hold a runnable (`held`) or
  events (`ready`): without it a wait or a steal could overwrite one. With it every
  step conserves each runnable (`Conserved`): it stays in one place (`OnceOf`), and if it was in
  some place it is in some place afterwards unless its task has just run. One lemma per
  action that moves runnables; all others are `CarryUnmoved`. `RunnablesAreOnce` and
  `RunnablesAreKept` are the two halves. `LeftByReturnOnly`: a thread that searches or
  is about to give its worker up for want of work has an empty queue (`Drained`),
  because only the owner pushes to a queue, and there is one owner
  (WorkersAreExclusive). `SchedulerDispatches` (`Spec => ImplementsDispatcher`): every
  step is a stutter of the Dispatcher (`RefineUnmoved`, most steps), makes tasks runnable
  (`SubmitStep`), takes one up (`TakeStep`), or ends a run. That the worker is free when
  it takes up a task is WorkersAreExclusive; that a task taken up leaves every queue is
  RunnablesAreOnce; that nothing is in the hands of a thread that gives its worker up is
  KeepInv. `WatchImplementsScheduler` (`WatchSpec => Spec`) is the
  refinement of Scheduler by SleepWatch, and `WatchKeepsScheduler` what follows;
  `OrderImplementsScheduler` (`OrderSpec => FairSpec`) is that by RunOrder, fairness included.
* **AtomicWakerProofs**. `TypeCorrect`; `WakeIsNeverLost`, strengthened by
  `StoredOrCovered` (a waker stored and not yet published may be taken by a wake left
  over from before a reset, which then calls it); `LatchRefinement`, from `PollInv`
  (what poll knows between its atomic steps); `PollIsSafeWithoutReset`, from
  `OnceInv`, for the behaviours without resets only, since `waker_try_lock` refutes
  it for the others.
* **TaskProofs**. `TaskNeverPanics` and `TaskScheduledOnce` from `TaskInv`: the task
  is in one pair of hands (`OneHolder`), the state word tells which kind
  (`StateFollows`), the data and its lock follow the holder (`DataFollows`), and the
  joiner is told only of a stored result (`JoinFollows`). `WakeInv` adds who
  answers for a wake and for a result: `WakesAreAnswered` and `ResultsAreAnnounced` are
  the safety halves of WakeNotLost and JoinCompletes, which TLC checks with fairness.
* **TimerQueueProofs**. The inductive invariant is `TypeOK /\ QueueInv`, the four
  invariants of the run together with: a Sleep has a Delay exactly between schedule and
  complete, an entry marked `queued` is in the tree, no reading of the clock is ahead of
  it, and what a new entry signals is due. ExpiresIsMin rests on lemmas about the
  earliest deadline of a tree that gains an entry or loses the due ones. No invariant of
  these is inductive alone: `complete` needs QueuedInTree to find what it removes, and
  poll needs the clocks to be behind for FirstUseNeverEarly. `WaitsAreHeld`
  (`Spec => []WaitingIsHeld`) adds `HeldInv`: a thread has expired entries only while it
  processes them, a waker with a signal has no task in it, a Sleep that waits is
  registered or was woken, and its entry is in the tree, with a thread, or signalled. It
  is the safety half of SleepEnds; that others leave the entry alone is EntryOwnedOnce.
* **NetIoProofs**. The inductive invariant is `TypeOK /\ NetInv`. NoLostReadiness needs
  the chain by which readiness travels: whatever is ready is with the kernel as an edge,
  in the batch of a thread, in the slot as a signal, or was seen by the task and is not
  about to be reset (`ReadinessSomewhere`); a task that waits has its waker in the slot
  or was woken (`Registered`); a waker is only where no signal is (`WakerOnlyUnset`).
  `BatchesKnown` makes the conversion of a slot to a token and back exact for the slots
  of late events. The count of pending ends moves with its flags one by one, and in a
  drop by all flags of the source at once. Steps are grouped by what they touch
  (`KernelStep`, `MoveStep`, `DropStep`, ...), one lemma per group and one for each
  action that belongs to none.

Only model-checked: liveness (WakeReachesPoll, HandoffTaken, WakeLeadsToReady,
LocalWorkRuns, WakeNotLost, JoinCompletes, SleepEnds, ReadinessReachesTask), which is
out of TLAPS's reach here. The safety halves of most are theorems: WakesStayUnderWay,
NotificationsAreTaken, WakeIsNeverLost, WakesAreAnswered, ResultsAreAnnounced,
WaitsAreHeld and ReadinessIsNeverLost; LocalWorkRuns has none beyond RunnablesAreKept.
Every other property of a passing run is a theorem.

## 6. Not modelled, and why

* Memory orderings below sequential consistency.
* The mutex and condition variable inside Parker, the order of the injector and of the
  parkers in the list, the cache of empty lists of the timer queue. The order of the run
  queues is in RunOrder only; the timers and sockets that come before a pop there are not.
* `ThreadPool::shutdown`, which cannot be reached.
* `SharedU64` for 32-bit targets: it does not compile (shared_u64.rs combines a u64 and
  a u32), so that no build behaves in any way. On 64-bit targets it is one atomic word.
* `Timeout` polls a future and its Sleep in one task and drops the Sleep when the
  future wins; towards the timer queue that is TimerQueue's SleepDrop.
* More than one executor. `Context::enter` from inside another runtime returns the
  context that is there, and a task that is woken under it is queued with the executor
  of that context (task.rs:108-117), not with the one that spawned it; nothing in the
  repository says what nesting should do.
* Bytes, addresses, partial reads and socket options of the TCP types; two different
  streams whose halves are mixed up in `reunite` (both are handed back unchanged).
* Two tasks that use the same direction of one source at a time: the methods take
  `&self` and allow it, but AtomicWaker has room for one task and says so in its
  panic messages; NetIo has one task per end. A select that returns more events than
  its buffer holds, whose rest the kernel keeps.
* A step between the registration of a slot and its failure: both are one step.
* The AtomicWaker's own steps inside NetIo, Task and TimerQueue (the latch stands for
  them), hence the panic of `waker_try_lock` there.
* Builder setters, Runtime and Handle, re-exports, examples: no protocol of their own.

## 7. Plan

Done: Scheduler with the Dispatcher it implements, SleepWatch, RunOrder, RandomIter, AtomicWaker
with WakeLatch, Task, TimerQueue, NetIo; proofs of every safety property that a passing
run checks, and of the safety halves of the liveness properties.

Possible extensions:

1. Parker with its mutex and condition variable, refining the word and wait of
   Scheduler.
2. An abstract timer (a set of deadlines, each answered once) that TimerQueue
   implements for Sleeps with new entries.
