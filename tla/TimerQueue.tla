----------------------------- MODULE TimerQueue -----------------------------
(***************************************************************************)
(* time/internal/queue.rs with its users: the Sleep futures of             *)
(* time/sleeps.rs and Poller::poll_timers of runtime/internal/poller.rs,   *)
(* on one timer queue.  A step is one critical section of Queue.state, one *)
(* atomic operation outside it, or one call of an entry's AtomicWaker,     *)
(* which is the latch of module WakeLatch.  The tree of lists is a set of  *)
(* <<deadline, entry>> pairs and the list of expired entries a set: their  *)
(* order is not modelled, nor is the cache of empty lists.                 *)
(* An operator that no action uses (PollReplaces, ...) is the one below it *)
(* with a plausible mistake.                                               *)
(***************************************************************************)
EXTENDS Integers, Sequences, FiniteSets, FiniteSetsExt, SequencesExt

CONSTANTS
  Sleeps,       \* tasks, each with one Sleep future at a time
  Pollers,      \* threads that call poll_timers
  Entries,      \* RawEntry allocations
  NoSleep, NoEntry,
  Millis,       \* durations that are slept, in whole milliseconds
  Instants,     \* instants that are slept until, as Queue::since gives them
  MAX_CACHED,   \* Cache::MAX_CACHED
  MaxDeadline,  \* Deadline::MAX
  MaxNow        \* bound of the clock

ASSUME TimerQueueAssumption ==
  /\ NoSleep \notin Sleeps /\ NoEntry \notin Entries
  /\ MAX_CACHED \in Nat /\ MaxDeadline \in Nat /\ MaxNow \in Nat
  /\ MaxNow <= MaxDeadline
  /\ Millis \subseteq Nat /\ Instants \subseteq 0 .. MaxDeadline

VARIABLES
  now,      \* Instant::now(), as Queue::since gives it
  (* Queue *)
  expires,  \* Queue.expires, read without the lock; 0 is none
  current,  \* State.current
  tree,     \* State.tree
  cache,    \* State.entry_cache
  queued,   \* RawEntry.queued
  (* AtomicWaker of each entry *)
  signal,   \* a wake that no poll has consumed
  ready,    \* AtomicWaker.notified
  task,     \* whose waker is registered
  (* Sleep *)
  sleep,    \* Sleep.state, and where its poll or drop is
  delay,    \* the Delay: its deadline and its entry
  woken,    \* the task was woken since it last polled
  reused,   \* history: the entry of the Delay came from the cache
  (* Poller *)
  pc,       \* where the thread is in poll_timers
  seen,     \* `expires`, then `current` of poll_timers
  expired   \* Poller.expired

queueVars == <<expires, current, tree, cache, queued>>
wakerVars == <<signal, ready, task>>
sleepVars == <<sleep, delay, woken, reused>>
pollerVars == <<pc, seen, expired>>
vars == <<now, queueVars, wakerVars, sleepVars, pollerVars>>

NoDelay == [deadline |-> 0, entry |-> NoEntry]

Deadlines(t) == {p[1] : p \in t}
EarliestOf(t) == IF t = {} THEN 0 ELSE Min(Deadlines(t))

Init ==
  /\ now = 0 /\ expires = 0 /\ current = 0
  /\ tree = {} /\ cache = <<>>
  /\ queued = [e \in Entries |-> FALSE]
  /\ signal = [e \in Entries |-> FALSE]
  /\ ready = [e \in Entries |-> FALSE]
  /\ task = [e \in Entries |-> NoSleep]
  /\ sleep = [s \in Sleeps |-> "Start"]
  /\ delay = [s \in Sleeps |-> NoDelay]
  /\ woken = [s \in Sleeps |-> FALSE]
  /\ reused = [s \in Sleeps |-> FALSE]
  /\ pc = [p \in Pollers |-> "idle"]
  /\ seen = [p \in Pollers |-> 0]
  /\ expired = [p \in Pollers |-> {}]

Tick ==
  /\ now < MaxNow
  /\ now' = now + 1
  /\ UNCHANGED <<queueVars, wakerVars, sleepVars, pollerVars>>
-----------------------------------------------------------------------------
DeadlineForUnsaturated(ms) ==
  Max({ms, 1}) + now

(* Queue::schedule.  The deadline of a duration saturates. *)
DeadlineFor(ms) ==
  Min({Max({ms, 1}) + now, MaxDeadline})

(* Entries that nothing refers to: Arc::default allocates one of them.     *)
(* They are all alike, so that it does not matter which.                   *)
Unused ==
  Entries \ ( Range(cache) \cup {delay[s].entry : s \in Sleeps}
              \cup UNION {expired[p] : p \in Pollers} )

Enqueue(s, deadline, e) ==
  /\ expires' = IF expires = 0 \/ deadline < expires THEN deadline ELSE expires
  /\ tree' = tree \cup {<<deadline, e>>}
  /\ queued' = [queued EXCEPT ![e] = TRUE]
  /\ delay' = [delay EXCEPT ![s] = [deadline |-> deadline, entry |-> e]]
  /\ sleep' = [sleep EXCEPT ![s] = "poll"]

(* A delay that has passed is not scheduled: the Sleep wakes its own task, *)
(* and its next poll is Ready.                                             *)
Yield(s) ==
  /\ sleep' = [sleep EXCEPT ![s] = "Polled"]
  /\ woken' = [woken EXCEPT ![s] = TRUE]

SleepZero(s) ==
  /\ sleep[s] = "Start"
  /\ Yield(s)
  /\ UNCHANGED <<now, queueVars, wakerVars, delay, reused, pollerVars>>

SleepPast(s, deadline) ==
  /\ sleep[s] = "Start"
  /\ deadline <= now
  /\ current' = now
  /\ Yield(s)
  /\ UNCHANGED <<now, expires, tree, cache, queued, wakerVars, delay, reused, pollerVars>>

(* The entry comes from the end of the cache, as complete left it there ... *)
ScheduleCached(s, deadline) ==
  /\ sleep[s] = "Start"
  /\ deadline > now
  /\ current' = now
  /\ cache # <<>>
  /\ cache' = Front(cache)
  /\ reused' = [reused EXCEPT ![s] = TRUE]
  /\ Enqueue(s, deadline, Last(cache))
  /\ UNCHANGED <<now, wakerVars, woken, pollerVars>>

(* ... or it is new. *)
ScheduleNew(s, deadline) ==
  /\ sleep[s] = "Start"
  /\ deadline > now
  /\ current' = now
  /\ cache = <<>>
  /\ Unused # {}
  /\ LET e == CHOOSE u \in Unused : TRUE IN
       /\ Enqueue(s, deadline, e)
       /\ signal' = [signal EXCEPT ![e] = FALSE]
       /\ ready' = [ready EXCEPT ![e] = FALSE]
       /\ task' = [task EXCEPT ![e] = NoSleep]
  /\ reused' = [reused EXCEPT ![s] = FALSE]
  /\ UNCHANGED <<now, cache, woken, pollerVars>>

SleepUntil(s, deadline) ==
  SleepPast(s, deadline) \/ ScheduleCached(s, deadline) \/ ScheduleNew(s, deadline)

(* Sleep::poll asks the AtomicWaker of its entry, right after schedule     *)
(* ("poll") and in state Polling.                                          *)
WakerReady(s) ==
  LET e == delay[s].entry IN
  /\ sleep[s] \in {"poll", "Polling"}
  /\ signal[e] \/ ready[e]
  /\ signal' = [signal EXCEPT ![e] = ready[e] /\ @]
  /\ ready' = [ready EXCEPT ![e] = TRUE]
  /\ sleep' = [sleep EXCEPT ![s] = "complete"]
  /\ woken' = [woken EXCEPT ![s] = FALSE]
  /\ UNCHANGED <<now, queueVars, task, delay, reused, pollerVars>>

WakerPending(s) ==
  LET e == delay[s].entry IN
  /\ sleep[s] \in {"poll", "Polling"}
  /\ ~signal[e] /\ ~ready[e]
  /\ task' = [task EXCEPT ![e] = s]
  /\ sleep' = [sleep EXCEPT ![s] = "Polling"]
  /\ woken' = [woken EXCEPT ![s] = FALSE]
  /\ UNCHANGED <<now, queueVars, signal, ready, delay, reused, pollerVars>>

CacheFree(e) == cache' = IF Len(cache) < MAX_CACHED THEN Append(cache, e) ELSE cache

CompleteKeepsExpires(s) ==
  LET d == delay[s].deadline
      e == delay[s].entry
  IN
  /\ tree' = tree \ {<<d, e>>}
  /\ queued' = [queued EXCEPT ![e] = FALSE]
  /\ CacheFree(e)
  /\ sleep' = [sleep EXCEPT ![s] = "Start"]
  /\ delay' = [delay EXCEPT ![s] = NoDelay]
  /\ reused' = [reused EXCEPT ![s] = FALSE]
  /\ woken' = [woken EXCEPT ![s] = FALSE]
  /\ UNCHANGED <<now, expires, current, wakerVars, pollerVars>>

CompleteLeavesQueued(s) ==
  /\ queued' = [queued EXCEPT ![delay[s].entry] = FALSE]
  /\ CacheFree(delay[s].entry)
  /\ sleep' = [sleep EXCEPT ![s] = "Start"]
  /\ delay' = [delay EXCEPT ![s] = NoDelay]
  /\ reused' = [reused EXCEPT ![s] = FALSE]
  /\ woken' = [woken EXCEPT ![s] = FALSE]
  /\ UNCHANGED <<now, expires, current, tree, wakerVars, pollerVars>>

(* Queue::complete, after which the task is free to sleep again.  An entry *)
(* that is queued must have a list under its deadline (else unreachable!), *)
(* and if that list is empty afterwards there must have been an `expires`  *)
(* (else the unwrap of None).                                              *)
Complete(s) ==
  LET d == delay[s].deadline
      e == delay[s].entry
      left == tree \ {<<d, e>>}
      lost == d \notin Deadlines(left)
  IN
  /\ IF queued[e]
     THEN /\ tree' = left
          /\ expires' = IF lost /\ expires = d THEN EarliestOf(left) ELSE expires
          /\ sleep' = [sleep EXCEPT ![s] =
               IF d \notin Deadlines(tree) \/ (lost /\ expires = 0) THEN "panic" ELSE "Start"]
     ELSE /\ sleep' = [sleep EXCEPT ![s] = "Start"]
          /\ UNCHANGED <<tree, expires>>
  /\ queued' = [queued EXCEPT ![e] = FALSE]
  /\ CacheFree(e)
  /\ delay' = [delay EXCEPT ![s] = NoDelay]
  /\ reused' = [reused EXCEPT ![s] = FALSE]
  /\ woken' = [woken EXCEPT ![s] = FALSE]
  /\ UNCHANGED <<now, current, wakerVars, pollerVars>>

(* The task that polls a Sleep goes on when complete returns; one that     *)
(* drops a Sleep that waits calls complete as well.                        *)
SleepComplete(s) == sleep[s] = "complete" /\ Complete(s)
SleepDrop(s) == sleep[s] = "Polling" /\ Complete(s)

(* The poll after a yield answers Ready. *)
SleepPolled(s) ==
  /\ sleep[s] = "Polled"
  /\ sleep' = [sleep EXCEPT ![s] = "Start"]
  /\ woken' = [woken EXCEPT ![s] = FALSE]
  /\ UNCHANGED <<now, queueVars, wakerVars, delay, reused, pollerVars>>
-----------------------------------------------------------------------------
(* Poller::poll_timers: the load of `expires` ... *)
PeekExpires(p) ==
  /\ pc[p] = "idle"
  /\ expires # 0
  /\ seen' = [seen EXCEPT ![p] = expires]
  /\ pc' = [pc EXCEPT ![p] = "clock"]
  /\ UNCHANGED <<now, queueVars, wakerVars, sleepVars, expired>>

(* ... and its comparison with the clock, which may have been read before, *)
(* for another queue.                                                      *)
ReadClock(p) ==
  /\ pc[p] = "clock"
  /\ \E t \in 0 .. now :
       /\ pc' = [pc EXCEPT ![p] = IF t < seen[p] THEN "idle" ELSE "poll"]
       /\ seen' = [seen EXCEPT ![p] = IF t < seen[p] THEN 0 ELSE t]
  /\ UNCHANGED <<now, queueVars, wakerVars, sleepVars, expired>>

Due(t) == {q \in tree : q[1] <= t}

EntriesOf(pairs) == {q[2] : q \in pairs}

PollReplaces(p) ==
  LET due == Due(Max({current, seen[p]})) IN
  /\ pc[p] = "poll"
  /\ current' = Max({current, seen[p]})
  /\ tree' = tree \ due
  /\ expires' = EarliestOf(tree \ due)
  /\ queued' = [e \in Entries |-> queued[e] /\ e \notin EntriesOf(due)]
  /\ expired' = [expired EXCEPT ![p] =
       EntriesOf({q \in due : \A r \in due : r[1] <= q[1]})]
  /\ seen' = [seen EXCEPT ![p] = 0]
  /\ pc' = [pc EXCEPT ![p] = "process"]
  /\ UNCHANGED <<now, cache, wakerVars, sleepVars>>

PollKeepsQueued(p) ==
  LET due == Due(Max({current, seen[p]})) IN
  /\ pc[p] = "poll"
  /\ current' = Max({current, seen[p]})
  /\ tree' = tree \ due
  /\ expires' = EarliestOf(tree \ due)
  /\ expired' = [expired EXCEPT ![p] = @ \cup EntriesOf(due)]
  /\ seen' = [seen EXCEPT ![p] = 0]
  /\ pc' = [pc EXCEPT ![p] = "process"]
  /\ UNCHANGED <<now, cache, queued, wakerVars, sleepVars>>

PollTooSoon(p) ==
  LET due == Due(Max({current, seen[p]}) + 1) IN
  /\ pc[p] = "poll"
  /\ current' = Max({current, seen[p]})
  /\ tree' = tree \ due
  /\ expires' = EarliestOf(tree \ due)
  /\ queued' = [e \in Entries |-> queued[e] /\ e \notin EntriesOf(due)]
  /\ expired' = [expired EXCEPT ![p] = @ \cup EntriesOf(due)]
  /\ seen' = [seen EXCEPT ![p] = 0]
  /\ pc' = [pc EXCEPT ![p] = "process"]
  /\ UNCHANGED <<now, cache, wakerVars, sleepVars>>

(* Queue::poll, at a time that may be behind State.current. *)
Poll(p) ==
  LET due == Due(Max({current, seen[p]})) IN
  /\ pc[p] = "poll"
  /\ current' = Max({current, seen[p]})
  /\ tree' = tree \ due
  /\ expires' = EarliestOf(tree \ due)
  /\ queued' = [e \in Entries |-> queued[e] /\ e \notin EntriesOf(due)]
  /\ expired' = [expired EXCEPT ![p] = @ \cup EntriesOf(due)]
  /\ seen' = [seen EXCEPT ![p] = 0]
  /\ pc' = [pc EXCEPT ![p] = IF \A e \in EntriesOf(due) : queued[e] THEN "process" ELSE "panic"]
  /\ UNCHANGED <<now, cache, wakerVars, sleepVars>>

(* Expired::process: AtomicWaker::wake of one entry, outside the lock. *)
Process(p) ==
  /\ pc[p] = "process"
  /\ \E e \in expired[p] :
       /\ signal' = [signal EXCEPT ![e] = TRUE]
       /\ task' = [task EXCEPT ![e] = NoSleep]
       /\ woken' = [s \in Sleeps |-> woken[s] \/ task[e] = s]
       /\ expired' = [expired EXCEPT ![p] = @ \ {e}]
  /\ UNCHANGED <<now, queueVars, ready, sleep, delay, reused, pc, seen>>

ProcessEnd(p) ==
  /\ pc[p] = "process"
  /\ expired[p] = {}
  /\ pc' = [pc EXCEPT ![p] = "idle"]
  /\ UNCHANGED <<now, queueVars, wakerVars, sleepVars, seen, expired>>
-----------------------------------------------------------------------------
SleepPoll(s) == WakerReady(s) \/ WakerPending(s) \/ SleepPolled(s)

PollTimers(p) == PeekExpires(p) \/ ReadClock(p) \/ Poll(p) \/ Process(p) \/ ProcessEnd(p)

Next ==
  \/ Tick
  \/ \E s \in Sleeps :
       \/ SleepZero(s)
       \/ (\E ms \in Millis : SleepUntil(s, DeadlineFor(ms)))
       \/ (\E at \in Instants : SleepUntil(s, at))
       \/ SleepPoll(s) \/ SleepComplete(s) \/ SleepDrop(s)
  \/ \E p \in Pollers : PollTimers(p)

Spec == Init /\ [][Next]_vars

(* Time passes, a call that has begun returns, a task that was woken polls *)
(* its Sleep, and a worker polls the timers of its queue again and again,  *)
(* now and then with a fresh reading of the clock.                         *)
Fairness ==
  /\ WF_vars(Tick)
  /\ \A s \in Sleeps : /\ WF_vars((woken[s] \/ sleep[s] = "poll") /\ SleepPoll(s))
                       /\ WF_vars(SleepComplete(s))
  /\ \A p \in Pollers : /\ WF_vars(PollTimers(p))
                        /\ SF_vars(ReadClock(p) /\ seen[p] <= now /\ pc'[p] = "poll")

FairSpec == Spec /\ Fairness
-----------------------------------------------------------------------------
(* The types of the fields; a deadline is never 0, which means "none". *)
TypeOK ==
  /\ now \in 0 .. MaxNow /\ current \in 0 .. MaxNow
  /\ expires \in 0 .. MaxDeadline
  /\ tree \subseteq (1 .. MaxDeadline) \X Entries
  /\ cache \in Seq(Entries)
  /\ queued \in [Entries -> BOOLEAN]
  /\ signal \in [Entries -> BOOLEAN] /\ ready \in [Entries -> BOOLEAN]
  /\ task \in [Entries -> Sleeps \cup {NoSleep}]
  /\ sleep \in [Sleeps -> {"Start", "poll", "Polling", "complete", "Polled", "panic"}]
  /\ delay \in [Sleeps -> [deadline : 0 .. MaxDeadline, entry : Entries \cup {NoEntry}]]
  /\ woken \in [Sleeps -> BOOLEAN] /\ reused \in [Sleeps -> BOOLEAN]
  /\ pc \in [Pollers -> {"idle", "clock", "poll", "process", "panic"}]
  /\ seen \in [Pollers -> 0 .. MaxDeadline]
  /\ expired \in [Pollers -> SUBSET Entries]

(* `expires`, which threads read without the lock to decide how long to    *)
(* sleep, is the earliest deadline of the tree whenever the lock is free:  *)
(* schedule, poll and the cancellation of any delay keep it so.            *)
ExpiresIsMin == expires = EarliestOf(tree)

(* An entry belongs to one Sleep or to the cache, once, and an entry that  *)
(* is in the tree stands under the deadline of the Sleep it belongs to.    *)
EntryOwnedOnce ==
  /\ \A s, r \in Sleeps : delay[s].entry = delay[r].entry => s = r \/ delay[s] = NoDelay
  /\ \A i, j \in 1 .. Len(cache) : cache[i] = cache[j] => i = j
  /\ \A s \in Sleeps : delay[s].entry \notin Range(cache)
  /\ \A q \in tree : queued[q[2]] /\ \E s \in Sleeps : <<delay[s].deadline, delay[s].entry>> = q

(* The assertion of poll, and the unreachable! and the unwrap of complete: *)
(* a Sleep that is cancelled while another thread expires it finds a       *)
(* consistent queue.                                                       *)
QueueNeverPanics ==
  /\ \A s \in Sleeps : sleep[s] # "panic"
  /\ \A p \in Pollers : pc[p] # "panic"

(* A Sleep whose entry is new does not end before its deadline, whatever   *)
(* stale readings of the clock and of `expires` the threads use.           *)
FirstUseNeverEarly ==
  \A s \in Sleeps :
    sleep[s] = "complete" /\ ~reused[s] => delay[s].deadline <= now

(* A Delay is notified at its deadline: no Sleep ends before it.           *)
NeverEarly ==
  \A s \in Sleeps : sleep[s] = "complete" => delay[s].deadline <= now

(* A task that waits in a Sleep and is not woken yet has its waker         *)
(* registered, and its entry is in the tree under its deadline or with a   *)
(* thread that is about to wake it: complete, poll and the reuse of        *)
(* entries by others never take an entry from a task that waits for it.    *)
WaitingIsHeld ==
  \A s \in Sleeps :
    LET e == delay[s].entry IN
    sleep[s] = "Polling" /\ ~woken[s] =>
      /\ task[e] = s
      /\ \/ <<delay[s].deadline, e>> \in tree
         \/ \E p \in Pollers : pc[p] = "process" /\ e \in expired[p]

(* A Sleep whose deadline is reached ends: its entry is expired, processed *)
(* and its task woken, also when its deadline was scheduled, expired or    *)
(* cancelled next to others.                                               *)
SleepEnds ==
  \A s \in Sleeps :
    sleep[s] = "Polling" /\ delay[s].deadline <= MaxNow ~> sleep[s] # "Polling"
=============================================================================
