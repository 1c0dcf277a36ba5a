--------------------------- MODULE SchedulerProofs ---------------------------
(***************************************************************************)
(* Proofs about module Scheduler, for any number of workers, threads and   *)
(* tasks.                                                                  *)
(***************************************************************************)
EXTENDS Scheduler, FiniteSetTheorems, SequenceTheorems, TLAPS

(* The absent index (None) is not the index of a worker. *)
LEMMA NoWorkerIsNoWorker == NoWorker \notin Workers /\ NumWorkers \in Nat
BY SchedulerAssumption DEF NoWorker, Workers

(* Every place a thread can be at is one of Pcs. *)
LEMMA PcFacts ==
  /\ "out" \in Pcs /\ "off" \in Pcs /\ "retry" \in Pcs
  /\ "retry_add" \in Pcs /\ "attach" \in Pcs /\ "poll" \in Pcs
  /\ "polling" \in Pcs /\ "work" \in Pcs /\ "search_add" \in Pcs
  /\ "search" \in Pcs /\ "release" \in Pcs /\ "to_idle" \in Pcs
  /\ "search_dec" \in Pcs /\ "recheck" \in Pcs /\ "discover" \in Pcs
  /\ "task" \in Pcs /\ "finish" \in Pcs /\ "exit" \in Pcs
  /\ "notify" \in Pcs /\ "notify_cas" \in Pcs /\ "notify_pop" \in Pcs
  /\ "notify_dec" \in Pcs /\ "spawn" \in Pcs /\ "unpark_some" \in Pcs
  /\ "create" \in Pcs /\ "give_back" \in Pcs /\ "unpark_none" \in Pcs
  /\ "wait" \in Pcs /\ "listed" \in Pcs /\ "waiting" \in Pcs
  /\ "selecting" \in Pcs /\ "unlist" \in Pcs /\ "woken" \in Pcs
  /\ "pop_inject" \in Pcs /\ "inject" \in Pcs /\ "panic" \in Pcs
BY DEF Pcs

Words == {Empty, Waiting, Polling} \cup {Notified(w) : w \in Slot}

(* The words of a Parker: only Notified carries a worker index. *)
LEMMA WordFacts ==
  /\ Empty \in Words /\ Waiting \in Words /\ Polling \in Words
  /\ Empty.tag = "Empty" /\ Waiting.tag = "Waiting" /\ Polling.tag = "Polling"
  /\ Empty.worker = NoWorker /\ Waiting.worker = NoWorker /\ Polling.worker = NoWorker
BY DEF Words, Empty, Waiting, Polling

(* unpark stores a Notified that carries its index. *)
LEMMA NotifiedFacts ==
  ASSUME NEW w \in Slot
  PROVE Notified(w) \in Words /\ Notified(w).tag = "Notified" /\ Notified(w).worker = w
BY DEF Words, Notified

(* A word of a Parker carries an index only when it is Notified. *)
LEMMA WordCases ==
  ASSUME NEW x \in Words
  PROVE /\ x.worker \in Slot
        /\ x.tag # "Notified" => x.worker = NoWorker
BY DEF Words, Empty, Waiting, Polling, Notified, Slot

(* IdleQueue::pop takes the last index and keeps the others in place. *)
LEMMA PopFacts ==
  ASSUME NEW s \in Seq(Workers), s # <<>>
  PROVE /\ s[Len(s)] \in Workers
        /\ Len(s) \in Nat \ {0}
        /\ SubSeq(s, 1, Len(s) - 1) \in Seq(Workers)
        /\ Len(SubSeq(s, 1, Len(s) - 1)) = Len(s) - 1
        /\ \A i \in 1 .. (Len(s) - 1) : SubSeq(s, 1, Len(s) - 1)[i] = s[i]
<1> DEFINE n == Len(s) - 1
<1>1. Len(s) \in Nat \ {0} /\ \A i \in 1 .. Len(s) : s[i] \in Workers
  BY EmptySeq, LenProperties
<1>2. n \in Nat /\ Len(s) = n + 1 /\ (\A i \in 1 .. n : s[i] \in Workers)
  BY <1>1
<1> HIDE DEF n
<1>3. /\ SubSeq(s, 1, n) \in Seq(Workers)
      /\ Len(SubSeq(s, 1, n)) = IF 1 <= n THEN n - 1 + 1 ELSE 0
      /\ \A i \in 1 .. (n - 1 + 1) : SubSeq(s, 1, n)[i] = s[1 + i - 1]
  BY <1>2, SubSeqProperties
<1>4. Len(SubSeq(s, 1, n)) = n
  BY <1>2, <1>3
<1>5. ASSUME NEW i \in 1 .. n PROVE SubSeq(s, 1, n)[i] = s[i]
  <2>1. i \in 1 .. (n - 1 + 1) /\ 1 + i - 1 = i
    BY <1>2
  <2>q. QED BY <1>3, <2>1
<1>q. QED BY <1>1, <1>3, <1>4, <1>5 DEF n

(* IdleQueue::push adds an index at the end. *)
LEMMA PushFacts ==
  ASSUME NEW s \in Seq(Workers), NEW w \in Workers
  PROVE /\ Append(s, w) \in Seq(Workers)
        /\ Len(s) \in Nat
        /\ Len(Append(s, w)) = Len(s) + 1
        /\ Append(s, w)[Len(s) + 1] = w
        /\ \A i \in 1 .. Len(s) : Append(s, w)[i] = s[i]
OBVIOUS
-----------------------------------------------------------------------------
(* The calls that carry an index, and where calls return to. *)
Handing == {"spawn", "unpark_some", "create", "give_back"}
Returns == {"poll", "task", "out", "polling", "work", "search", "selecting",
            "finish", "attach", "discover"}

Claiming == {"retry_add", "attach", "pop_inject", "to_idle"}
Attached == {"work", "search_add", "search", "release"}
Detached == Claiming \cup
  {"out", "off", "retry", "inject", "search_dec", "recheck", "wait",
   "listed", "waiting", "selecting", "unlist", "woken", "exit"}
Blocked == {"waiting", "selecting"}

(* Which local variables hold a worker index, at each step of a thread.    *)
LocalOf(t) ==
  /\ pc[t] \in Handing => hand[t] \in Workers
  /\ pc[t] \notin Handing => hand[t] = NoWorker
  /\ Where(t) \in Claiming => got[t] \in Workers
  /\ Where(t) \notin Claiming \cup {"panic"} => got[t] = NoWorker
  /\ Where(t) \in Attached => worker[t] \in Workers
  /\ Where(t) \in Detached => worker[t] = NoWorker
  /\ Where(t) \notin Blocked \cup {"panic"} =>
       word[t].tag \in {"Empty", "Notified"} /\ word[t].worker = NoWorker
  /\ pc[t] \in CallPcs => cont[t] \in Returns
  /\ pc[t] = "retry" => cont[t] \in {"poll", "wait", "inject"}
  /\ pc[t] = "search_add" => cont[t] = "wait"
  /\ Where(t) = "search" => flag[t]
  /\ pc[t] \in {"release", "to_idle"} => flag[t] \/ cont[t] \in {"wait", "exit"}
  /\ Where(t) = "task" => held[t] # NoTask

LocalInv == \A t \in Threads : LocalOf(t)

(* TypeOK in three parts, without the lower bound of `spawned`, which      *)
(* follows from PoolExact.                                                 *)
IndexTyping ==
  /\ idle \in Seq(Workers)
  /\ pending \in BOOLEAN
  /\ searching \in Int
  /\ home \in [Workers -> BOOLEAN]
  /\ worker \in [Threads -> Slot]
  /\ got \in [Threads -> Slot]
  /\ hand \in [Threads -> Slot]
  /\ word \in [Threads -> Words]
  /\ flag \in [Threads -> BOOLEAN]

ThreadTyping ==
  /\ pc \in [Threads -> Pcs]
  /\ cont \in [Threads -> Pcs]
  /\ fut \in [Threads -> {"NONE", "IDLE", "SCHEDULED", "RUNNING", "NOTIFIED"}]
  /\ tgt \in [Threads -> Threads \cup {NoThread}]
  /\ timed \in [Threads -> BOOLEAN]
  /\ parked \in [Threads -> Nat]
  /\ spawned \in Int /\ spawned <= MaxThreads

TaskTyping ==
  /\ injector \subseteq Tasks
  /\ runq \in [Workers -> SUBSET Tasks]
  /\ held \in [Threads -> Tasks \cup {NoTask}]
  /\ ready \in [Threads -> SUBSET Tasks]

Typing == IndexTyping /\ ThreadTyping /\ TaskTyping

(* A thread that works, searches or releases has a worker. *)
LEMMA AttachedHasWorker ==
  ASSUME LocalInv, NEW t \in Threads, pc[t] \in Attached
  PROVE worker[t] \in Workers
<1>1. Where(t) = pc[t]
  BY DEF Where, Attached, CallPcs
<1>q. QED BY <1>1 DEF LocalInv, LocalOf

(* A thread that runs a task has it in its hands. *)
LEMMA TaskHasRunnable ==
  ASSUME LocalInv, NEW t \in Threads, pc[t] = "task"
  PROVE held[t] # NoTask
<1>1. Where(t) = "task"
  BY DEF Where, CallPcs
<1>q. QED BY <1>1 DEF LocalInv, LocalOf

(* Pushing runnables to a run queue and taking them away. *)
LEMMA RunqPush ==
  ASSUME NEW q \in [Workers -> SUBSET Tasks], NEW w, NEW S \in SUBSET Tasks
  PROVE [q EXCEPT ![w] = @ \cup S] \in [Workers -> SUBSET Tasks]
OBVIOUS

(* Popping and stealing take elements of the run queues. *)
LEMMA RunqTake ==
  ASSUME NEW q \in [Workers -> SUBSET Tasks], NEW w, NEW S
  PROVE [q EXCEPT ![w] = @ \ S] \in [Workers -> SUBSET Tasks]
OBVIOUS

(* Every step keeps the types, given what the locals hold at each place. *)
LEMMA TypingStep == Typing /\ LocalInv /\ [Next]_vars => Typing'
<1> SUFFICES ASSUME Typing, LocalInv, [Next]_vars PROVE Typing'
  OBVIOUS
<1> USE SchedulerAssumption, NoWorkerIsNoWorker, WordFacts, PcFacts
    DEF Typing, IndexTyping, ThreadTyping, TaskTyping, Slot, execVars,
        queueVars, poolVars, parkVars, localVars, Goto
<1>1. ASSUME NEW t \in Threads, Executor(t) PROVE Typing'
  <2>1. CASE SearchRetryPop(t)
    BY <2>1, PopFacts DEF SearchRetryPop, IdlePop, IdleTop
  <2>2. CASE SearchRetryNone(t)
    BY <2>2 DEF SearchRetryNone
  <2>3. CASE SearchRetryAdd(t)
    BY <2>3 DEF SearchRetryAdd
  <2>4. CASE NotifySkip(t)
    BY <2>4 DEF NotifySkip
  <2>5. CASE NotifyPending(t)
    BY <2>5 DEF NotifyPending
  <2>6. CASE NotifyCas(t)
    BY <2>6 DEF NotifyCas
  <2>7. CASE NotifyPop(t)
    <3>1. IndexTyping' BY <2>7, PopFacts DEF NotifyPop, IdlePop, IdleTop
    <3>2. ThreadTyping'
      <4>1. pc' \in [Threads -> Pcs] BY <2>7 DEF NotifyPop
      <4>q. QED BY <2>7, <4>1 DEF NotifyPop
    <3>3. TaskTyping' BY <2>7, PopFacts DEF NotifyPop, IdlePop, IdleTop
    <3>q. QED BY <3>1, <3>2, <3>3
  <2>8. CASE NotifyGiveBack(t)
    BY <2>8, PushFacts DEF NotifyGiveBack, IdlePush, LocalInv, LocalOf, Where, CallPcs,
          Handing, Claiming, Attached
  <2>9. CASE NotifyDec(t)
    BY <2>9 DEF NotifyDec
  <2>10. CASE SearchBegin(t)
    <3>1. IndexTyping' BY <2>10 DEF SearchBegin
    <3>2. ThreadTyping'
      <4>1. pc' \in [Threads -> Pcs] BY <2>10 DEF SearchBegin
      <4>2. timed' \in [Threads -> BOOLEAN] BY <2>10 DEF SearchBegin
      <4>q. QED BY <2>10, <4>1, <4>2 DEF SearchBegin
    <3>3. TaskTyping' BY <2>10 DEF SearchBegin
    <3>q. QED BY <3>1, <3>2, <3>3
  <2>11. CASE SearchBeginAdd(t)
    BY <2>11 DEF SearchBeginAdd
  <2>12. CASE SearchFailedDec(t)
    BY <2>12 DEF SearchFailedDec
  <2>13. CASE SearchFailedCheck(t)
    BY <2>13 DEF SearchFailedCheck
  <2>14. CASE Discover(t)
    BY <2>14 DEF Discover, Dispatch
  <2>q. QED BY <1>1, <2>1, <2>2, <2>3, <2>4, <2>5, <2>6, <2>7, <2>8, <2>9, <2>10, <2>11,
        <2>12, <2>13, <2>14 DEF Executor
<1>2. ASSUME NEW t \in Threads, ThreadPool(t) PROVE Typing'
  <2>1. CASE SpawnIdle(t)
    BY <2>1 DEF SpawnIdle
  <2>2. CASE SpawnReserve(t)
    BY <2>2 DEF SpawnReserve
  <2>3. CASE SpawnThread(t)
    <3>0. PICK p \in Pool :
             /\ pc' = [pc EXCEPT ![t] = cont[t], ![p] = "attach"]
             /\ got' = [got EXCEPT ![p] = hand[t]]
             /\ word' = [word EXCEPT ![p] = Empty]
             /\ fut' = [fut EXCEPT ![p] = "IDLE"]
      BY <2>3 DEF SpawnThread
    <3>t. p \in Threads
      BY DEF Threads
    <3>1. IndexTyping'
      <4>1. word' \in [Threads -> Words] BY <3>0
      <4>2. got' \in [Threads -> Slot] BY <3>0, <3>t
      <4>q. QED BY <2>3, <4>1, <4>2 DEF SpawnThread
    <3>2. ThreadTyping'
      <4>1. pc' \in [Threads -> Pcs] BY <3>0, <3>t
      <4>2. fut' \in [Threads -> {"NONE", "IDLE", "SCHEDULED", "RUNNING", "NOTIFIED"}]
        BY <3>0
      <4>q. QED BY <2>3, <4>1, <4>2 DEF SpawnThread
    <3>3. TaskTyping' BY <2>3 DEF SpawnThread, Threads
    <3>q. QED BY <3>1, <3>2, <3>3
  <2>4. CASE SpawnError(t)
    BY <2>4 DEF SpawnError
  <2>5. CASE UnparkSome(t)
    <3>1. IndexTyping'
      <4>1. hand' \in [Threads -> Slot] BY <2>5 DEF UnparkSome
      <4>2. word' \in [Threads -> Words] BY <2>5, NotifiedFacts DEF UnparkSome
      <4>q. QED BY <2>5, <4>1, <4>2 DEF UnparkSome
    <3>2. ThreadTyping'
      <4>1. pc' \in [Threads -> Pcs] BY <2>5 DEF UnparkSome
      <4>2. tgt' \in [Threads -> Threads \cup {NoThread}] BY <2>5 DEF UnparkSome
      <4>q. QED BY <2>5, <4>1, <4>2 DEF UnparkSome
    <3>3. TaskTyping' BY <2>5, NotifiedFacts DEF UnparkSome
    <3>q. QED BY <3>1, <3>2, <3>3
  <2>6. CASE UnparkNone(t)
    <3>1. IndexTyping' BY <2>6, NotifiedFacts DEF UnparkNone
    <3>2. ThreadTyping' BY <2>6, NotifiedFacts DEF UnparkNone
    <3>3. TaskTyping' BY <2>6, NotifiedFacts DEF UnparkNone
    <3>q. QED BY <3>1, <3>2, <3>3
  <2>7. CASE WaitNotified(t)
    <3>1. IndexTyping' BY <2>7, WordCases DEF WaitNotified, PollUnparked
    <3>2. ThreadTyping' BY <2>7, WordCases DEF WaitNotified, PollUnparked
    <3>3. TaskTyping' BY <2>7, WordCases DEF WaitNotified, PollUnparked
    <3>q. QED BY <3>1, <3>2, <3>3
  <2>8. CASE WaitPush(t)
    BY <2>8 DEF WaitPush
  <2>9. CASE Park(t)
    <3>1. IndexTyping'
      <4>1. word' \in [Threads -> Words] BY <2>9 DEF Park
      <4>q. QED BY <2>9, <4>1 DEF Park
    <3>2. ThreadTyping'
      <4>1. pc' \in [Threads -> Pcs] BY <2>9 DEF Park
      <4>q. QED BY <2>9, <4>1 DEF Park
    <3>3. TaskTyping' BY <2>9 DEF Park
    <3>q. QED BY <3>1, <3>2, <3>3
  <2>10. CASE ParkNotified(t)
    <3>1. IndexTyping' BY <2>10, WordCases DEF ParkNotified, PollUnparked, Events, Away
    <3>2. ThreadTyping' BY <2>10, WordCases DEF ParkNotified, PollUnparked, Events, Away
    <3>3. TaskTyping' BY <2>10, WordCases DEF ParkNotified, PollUnparked, Events, Away
    <3>q. QED BY <3>1, <3>2, <3>3
  <2>11. CASE Unlist(t)
    BY <2>11 DEF Unlist
  <2>q. QED BY <1>2, <2>1, <2>2, <2>3, <2>4, <2>5, <2>6, <2>7, <2>8, <2>9, <2>10, <2>11
        DEF ThreadPool
<1>3. ASSUME NEW t \in Threads, WorkerLoop(t) PROVE Typing'
  <2>1. CASE TransitionToRunning(t)
    BY <2>1 DEF TransitionToRunning
  <2>2. CASE PollFuture(t)
    <3>1. IndexTyping' BY <2>2 DEF PollFuture, Found, AfterPoll
    <3>2. ThreadTyping'
      <4>1. CASE fut[t] = "SCHEDULED"
        <5>1. PICK l \in Pcs : pc' = [pc EXCEPT ![t] = l]
          BY <2>2, <4>1 DEF PollFuture, Found
        <5>q. QED BY <2>2, <4>1, <5>1 DEF PollFuture
      <4>2. CASE fut[t] # "SCHEDULED"
        <5>1. PICK l \in Pcs : pc' = [pc EXCEPT ![t] = l]
          BY <2>2, <4>2 DEF PollFuture, AfterPoll
        <5>q. QED BY <2>2, <4>2, <5>1 DEF PollFuture
      <4>q. QED BY <4>1, <4>2
    <3>3. TaskTyping' BY <2>2 DEF PollFuture, Found, AfterPoll
    <3>q. QED BY <3>1, <3>2, <3>3
  <2>3. CASE FutureReady(t)
    BY <2>3 DEF FutureReady, Found
  <2>4. CASE FuturePending(t)
    BY <2>4 DEF FuturePending, AfterPoll
  <2>5. CASE PollEvents(t)
    <3>1. IndexTyping' BY <2>5 DEF PollEvents, PopAndInject, Found, Away
    <3>2. ThreadTyping' BY <2>5 DEF PollEvents, PopAndInject, Found, Away
    <3>3. TaskTyping' BY <2>5 DEF PollEvents, PopAndInject, Found, Away
    <3>q. QED BY <3>1, <3>2, <3>3
  <2>6. CASE Consume(t)
    <3>1. IndexTyping' BY <2>6 DEF Consume, StealBatch, Found
    <3>2. ThreadTyping' BY <2>6 DEF Consume, StealBatch, Found
    <3>3. TaskTyping'
      <4>1. PICK k \in injector, batch \in SUBSET injector :
              /\ held' = [held EXCEPT ![t] = k]
              /\ injector' = injector \ (batch \cup {k})
              /\ runq' = [runq EXCEPT ![worker[t]] = @ \cup batch]
        BY <2>6 DEF Consume, StealBatch
      <4>2. batch \in SUBSET Tasks /\ runq \in [Workers -> SUBSET Tasks] OBVIOUS
      <4>3. runq' \in [Workers -> SUBSET Tasks] BY <4>1, <4>2, RunqPush, Zenon
      <4>q. QED BY <2>6, <4>1, <4>3 DEF Consume
    <3>q. QED BY <3>1, <3>2, <3>3
  <2>7. ASSUME NEW v \in Workers, StealFrom(t, v) PROVE Typing'
    <3>1. IndexTyping' BY <2>7 DEF StealFrom, StealBatch, Found
    <3>2. ThreadTyping' BY <2>7 DEF StealFrom, StealBatch, Found
    <3>3. TaskTyping'
      <4>1. PICK k \in runq[v], batch \in SUBSET runq[v] :
              /\ held' = [held EXCEPT ![t] = k]
              /\ runq' = [runq EXCEPT ![v] = @ \ (batch \cup {k}),
                                      ![worker[t]] = @ \cup batch]
        BY <2>7 DEF StealFrom, StealBatch
      <4>2. batch \in SUBSET Tasks /\ runq \in [Workers -> SUBSET Tasks] OBVIOUS
      <4>3. runq' \in [Workers -> SUBSET Tasks]
        BY <4>1, <4>2, RunqPush, RunqTake, Zenon
      <4>q. QED BY <2>7, <4>1, <4>3 DEF StealFrom
    <3>q. QED BY <3>1, <3>2, <3>3
  <2>8. CASE PopLocal(t)
    <3>1. IndexTyping' BY <2>8 DEF PopLocal, Found
    <3>2. ThreadTyping' BY <2>8 DEF PopLocal, Found
    <3>3. TaskTyping'
      <4>1. PICK k \in runq[worker[t]] :
              /\ held' = [held EXCEPT ![t] = k]
              /\ runq' = [runq EXCEPT ![worker[t]] = @ \ {k}]
        BY <2>8 DEF PopLocal
      <4>2. worker[t] \in Workers BY <2>8, AttachedHasWorker DEF PopLocal, Attached
      <4>3. k \in Tasks BY <4>2
      <4>4. runq' \in [Workers -> SUBSET Tasks] BY <4>1, RunqTake, Zenon
      <4>q. QED BY <2>8, <4>1, <4>3, <4>4 DEF PopLocal
    <3>q. QED BY <3>1, <3>2, <3>3
  <2>9. CASE SearchMiss(t)
    BY <2>9 DEF SearchMiss
  <2>10. CASE Release(t)
    BY <2>10 DEF Release
  <2>11. CASE GoIdle(t)
    BY <2>11, PushFacts DEF GoIdle, IdlePush, LocalInv, LocalOf, Where, CallPcs, Handing,
          Claiming, Attached
  <2>12. CASE TaskSuspend(t)
    BY <2>12 DEF TaskSuspend
  <2>13. CASE TaskYield(t)
    <3>1. IndexTyping' BY <2>13 DEF TaskYield
    <3>2. ThreadTyping' BY <2>13 DEF TaskYield
    <3>3. TaskTyping'
      <4>1. runq' = [runq EXCEPT ![worker[t]] = @ \cup {held[t]}] BY <2>13 DEF TaskYield
      <4>2. held[t] \in Tasks BY <2>13, TaskHasRunnable DEF TaskYield
      <4>3. {held[t]} \in SUBSET Tasks /\ runq \in [Workers -> SUBSET Tasks] BY <4>2
      <4>4. runq' \in [Workers -> SUBSET Tasks] BY <4>1, <4>3, RunqPush, Zenon
      <4>q. QED BY <2>13, <4>4 DEF TaskYield
    <3>q. QED BY <3>1, <3>2, <3>3
  <2>14. CASE Finish(t)
    BY <2>14 DEF Finish
  <2>15. CASE Exit(t)
    BY <2>15 DEF Exit
  <2>16. CASE Woken(t)
    BY <2>16 DEF Woken
  <2>17. CASE PopInject(t)
    BY <2>17 DEF PopInject, PopAndInject
  <2>18. CASE Inject(t)
    BY <2>18 DEF Inject
  <2>q. QED BY <1>3, <2>1, <2>2, <2>3, <2>4, <2>5, <2>6, <2>7, <2>8, <2>9, <2>10, <2>11,
        <2>12, <2>13, <2>14, <2>15, <2>16, <2>17, <2>18 DEF WorkerLoop
<1>4. ASSUME NEW t \in Threads, Environment(t) PROVE Typing'
  <2>1. CASE BlockOn(t)
    BY <2>1 DEF BlockOn
  <2>2. CASE Schedule(t)
    <3>1. IndexTyping' BY <2>2 DEF Schedule, InBody, Away
    <3>2. ThreadTyping' BY <2>2 DEF Schedule, InBody, Away
    <3>3. TaskTyping'
      <4>1. PICK k \in Away :
              IF worker[t] # NoWorker
              THEN runq' = [runq EXCEPT ![worker[t]] = @ \cup {k}] /\ UNCHANGED injector
              ELSE injector' = injector \cup {k} /\ UNCHANGED runq
        BY <2>2 DEF Schedule
      <4>2. {k} \in SUBSET Tasks /\ runq \in [Workers -> SUBSET Tasks] BY DEF Away
      <4>3. runq' \in [Workers -> SUBSET Tasks]
        <5>1. CASE worker[t] # NoWorker
          <6>1. runq' = [runq EXCEPT ![worker[t]] = @ \cup {k}] BY <4>1, <5>1
          <6>q. QED BY <4>2, <6>1, RunqPush, Zenon
        <5>2. CASE worker[t] = NoWorker BY <4>1, <5>2
        <5>q. QED BY <5>1, <5>2
      <4>4. injector' \subseteq Tasks BY <4>1, <4>2
      <4>q. QED BY <2>2, <4>3, <4>4 DEF Schedule
    <3>q. QED BY <3>1, <3>2, <3>3
  <2>3. ASSUME NEW u \in Users, WakeFuture(t, u) PROVE Typing'
    <3>1. IndexTyping' BY <2>3 DEF WakeFuture, CanWake, InBody, Threads
    <3>2. ThreadTyping'
      <4>1. u \in Threads BY DEF Threads
      <4>2. CASE fut[u] = "IDLE"
        <5>1. /\ fut' = [fut EXCEPT ![u] = "SCHEDULED"]
              /\ tgt' = [tgt EXCEPT ![t] = u]
              /\ pc' = [pc EXCEPT ![t] = "unpark_none"]
              /\ cont' = [cont EXCEPT ![t] = pc[t]]
          BY <2>3, <4>2 DEF WakeFuture
        <5>q. QED BY <2>3, <4>1, <5>1 DEF WakeFuture
      <4>3. CASE fut[u] # "IDLE" BY <2>3, <4>1, <4>3 DEF WakeFuture
      <4>q. QED BY <4>2, <4>3
    <3>3. TaskTyping' BY <2>3 DEF WakeFuture, CanWake, InBody, Threads
    <3>q. QED BY <3>1, <3>2, <3>3
  <2>4. CASE WaitTimeout(t)
    BY <2>4 DEF WaitTimeout
  <2>5. CASE SelectReturn(t)
    <3>1. IndexTyping' BY <2>5 DEF SelectReturn, Events, Away
    <3>2. ThreadTyping' BY <2>5 DEF SelectReturn, Events, Away
    <3>3. TaskTyping' BY <2>5 DEF SelectReturn, Events, Away
    <3>q. QED BY <3>1, <3>2, <3>3
  <2>q. QED BY <1>4, <2>1, <2>2, <2>3, <2>4, <2>5 DEF Environment
<1>5. CASE UNCHANGED vars BY <1>5 DEF vars
<1>q. QED BY <1>1, <1>2, <1>3, <1>4, <1>5 DEF Next

(* What LocalOf(t) reads of a thread. *)
Local(t) == <<pc[t], cont[t], hand[t], got[t], worker[t], word[t], flag[t], held[t]>>

(* A thread whose local state a step leaves alone keeps its invariant. *)
LEMMA LocalFrame ==
  ASSUME LocalInv, NEW t \in Threads, LocalOf(t)',
         \A x \in Threads \ {t} : UNCHANGED Local(x)
  PROVE LocalInv'
<1>1. ASSUME NEW x \in Threads \ {t} PROVE LocalOf(x)'
  BY <1>1 DEF LocalInv, LocalOf, Local, Where
<1>q. QED BY <1>1 DEF LocalInv

(* The return from notify or unpark. *)
LEMMA LocalReturn ==
  ASSUME NEW t \in Threads, LocalOf(t), pc[t] \in CallPcs,
         pc'[t] = cont[t], hand'[t] = NoWorker,
         UNCHANGED <<cont[t], got[t], worker[t], word[t], flag[t], held[t]>>
  PROVE LocalOf(t)'
<1>1. cont[t] \in Returns
  BY DEF LocalOf
<1>2. pc'[t] \notin CallPcs /\ pc'[t] \notin Handing
  BY <1>1 DEF Returns, CallPcs, Handing
<1>3. pc'[t] \notin {"retry", "search_add", "release", "to_idle"}
  BY <1>1 DEF Returns
<1>4. Where(t)' = Where(t)
  BY <1>2 DEF Where
<1>q. QED BY <1>2, <1>3, <1>4 DEF LocalOf

(* The compare_exchange of notify: go on to pop, or return. *)
LEMMA LocalNotifyCas ==
  ASSUME Typing, LocalInv, NEW t \in Threads, NotifyCas(t)
  PROVE LocalInv'
<1>1. UNCHANGED <<cont, hand, got, worker, word, flag, held>>
  BY DEF NotifyCas, localVars, parkVars
<1>2. PICK l \in {"notify_pop", "panic", cont[t]} : pc' = [pc EXCEPT ![t] = l]
  BY DEF NotifyCas, Goto
<1>3. LocalOf(t) /\ pc[t] = "notify_cas" /\ pc'[t] = l /\ hand[t] = NoWorker
  BY <1>2 DEF NotifyCas, Typing, ThreadTyping, LocalInv, LocalOf, Handing
<1>4. LocalOf(t)'
  <2>1. CASE l = cont[t]
    BY <1>1, <1>3, <2>1, LocalReturn DEF CallPcs
  <2>2. CASE l = "notify_pop"
    BY <1>1, <1>3, <2>2 DEF LocalOf, Where, CallPcs, Handing
  <2>3. CASE l = "panic"
    BY <1>1, <1>3, <2>3 DEF LocalOf, Where, CallPcs, Handing, Returns, Claiming, Attached,
          Detached, Blocked
  <2>q. QED BY <1>2, <2>1, <2>2, <2>3
<1>q. QED BY <1>1, <1>2, <1>4, LocalFrame DEF Local, Typing, ThreadTyping

(* The error path of notify returns to its caller. *)
LEMMA LocalNotifyDec ==
  ASSUME Typing, LocalInv, NEW t \in Threads, NotifyDec(t)
  PROVE LocalInv'
<1>1. UNCHANGED <<cont, hand, got, worker, word, flag, held>>
  BY DEF NotifyDec, localVars, parkVars
<1>2. PICK l \in {"panic", cont[t]} : pc' = [pc EXCEPT ![t] = l]
  BY DEF NotifyDec, Goto
<1>3. LocalOf(t) /\ pc[t] = "notify_dec" /\ pc'[t] = l /\ hand[t] = NoWorker
  BY <1>2 DEF NotifyDec, Typing, ThreadTyping, LocalInv, LocalOf, Handing
<1>4. LocalOf(t)'
  <2>1. CASE l = cont[t]
    BY <1>1, <1>3, <2>1, LocalReturn DEF CallPcs
  <2>2. CASE l = "panic"
    BY <1>1, <1>3, <2>2 DEF LocalOf, Where, CallPcs, Handing, Returns, Claiming, Attached,
          Detached, Blocked
  <2>q. QED BY <1>2, <2>1, <2>2
<1>q. QED BY <1>1, <1>2, <1>4, LocalFrame DEF Local, Typing, ThreadTyping

(* search_begin makes the thread a searcher. *)
LEMMA LocalSearchBeginAdd ==
  ASSUME Typing, LocalInv, NEW t \in Threads, SearchBeginAdd(t)
  PROVE LocalInv'
<1>1. UNCHANGED <<cont, hand, got, worker, word, held>>
  BY DEF SearchBeginAdd, parkVars
<1>2. \A x \in Threads \ {t} : pc'[x] = pc[x] /\ flag'[x] = flag[x]
  BY DEF SearchBeginAdd, Goto, Typing, IndexTyping, ThreadTyping
<1>3. LocalOf(t) /\ pc[t] = "search_add"
  BY DEF SearchBeginAdd, LocalInv
<1>4. LocalOf(t)'
  <2>1. CASE searching < NumWorkers
    <3>1. pc'[t] = "search" /\ flag'[t] = TRUE
      BY <2>1 DEF SearchBeginAdd, Goto, Typing, IndexTyping, ThreadTyping
    <3>q. QED BY <1>1, <1>3, <3>1 DEF LocalOf, Where, CallPcs, Handing, Returns, Claiming,
          Attached, Detached, Blocked
  <2>2. CASE ~(searching < NumWorkers)
    <3>1. pc'[t] = "panic"
      BY <2>2 DEF SearchBeginAdd, Goto, Typing, ThreadTyping
    <3>q. QED BY <1>1, <1>3, <3>1 DEF LocalOf, Where, CallPcs, Handing, Returns, Claiming,
          Attached, Detached, Blocked
  <2>q. QED BY <2>1, <2>2
<1>q. QED BY <1>1, <1>2, <1>4, LocalFrame DEF Local

(* The new thread starts in block_on with the index it was created for. *)
LEMMA LocalSpawnThread ==
  ASSUME Typing, LocalInv, NEW t \in Threads, SpawnThread(t)
  PROVE LocalInv'
<1>1. PICK p \in Pool :
        /\ pc[p] = "off"
        /\ pc' = [pc EXCEPT ![t] = cont[t], ![p] = "attach"]
        /\ got' = [got EXCEPT ![p] = hand[t]]
        /\ hand' = [hand EXCEPT ![t] = NoWorker]
        /\ word' = [word EXCEPT ![p] = Empty]
  BY DEF SpawnThread
<1>2. p \in Threads /\ p # t /\ pc[t] = "create" /\ LocalOf(t) /\ LocalOf(p)
  BY <1>1 DEF SpawnThread, Threads, LocalInv
<1>3. UNCHANGED <<worker, cont, flag, held>>
  BY DEF SpawnThread
<1>4. ASSUME NEW x \in Threads, x # t, x # p PROVE LocalOf(x)'
  <2>1. UNCHANGED Local(x)
    BY <1>1, <1>3, <1>4 DEF Local, Typing, IndexTyping, ThreadTyping
  <2>q. QED BY <2>1 DEF LocalInv, LocalOf, Local, Where
<1>5. LocalOf(t)'
  <2>1. pc'[t] = cont[t] /\ hand'[t] = NoWorker /\ UNCHANGED <<got[t], word[t]>>
    BY <1>1, <1>2 DEF Typing, IndexTyping, ThreadTyping
  <2>q. QED BY <1>2, <1>3, <2>1, LocalReturn DEF CallPcs
<1>6. LocalOf(p)'
  <2>1. /\ pc'[p] = "attach" /\ got'[p] = hand[t] /\ hand'[p] = hand[p]
        /\ word'[p] = Empty
    BY <1>1, <1>2 DEF Typing, IndexTyping, ThreadTyping
  <2>2. hand[t] \in Workers /\ hand[p] = NoWorker /\ worker[p] = NoWorker
    BY <1>1, <1>2 DEF LocalOf, Where, Handing, Detached, CallPcs
  <2>q. QED BY <1>3, <2>1, <2>2, WordFacts DEF LocalOf, Where, CallPcs, Handing, Returns,
        Claiming, Attached, Detached, Blocked
<1>q. QED BY <1>4, <1>5, <1>6 DEF LocalInv

(* A runnable was found: the thread runs it, perhaps after                 *)
(* search_discovered and a notify.                                         *)
LEMMA LocalFound ==
  ASSUME Typing, LocalInv, NEW t \in Threads, pc[t] \in {"work", "search"},
         NEW k \in Tasks, NEW next \in {"task", "discover"},
         NEW l \in {"task", "discover", "notify"}, l = "notify" \/ l = next,
         held' = [held EXCEPT ![t] = k],
         pc' = [pc EXCEPT ![t] = l],
         \/ UNCHANGED cont /\ l # "notify"
         \/ cont' = [cont EXCEPT ![t] = next],
         UNCHANGED <<hand, got, worker, word, flag>>
  PROVE LocalInv'
<1>1. LocalOf(t) /\ pc'[t] = l /\ held'[t] = k /\ k # NoTask
  BY SchedulerAssumption DEF Typing, ThreadTyping, TaskTyping, LocalInv
<1>2. l = "notify" => cont'[t] = next
  BY DEF Typing, ThreadTyping
<1>3. Where(t)' \in {"task", "discover"}
  BY <1>1, <1>2 DEF Where, CallPcs
<1>4. /\ hand[t] = NoWorker /\ got[t] = NoWorker
      /\ word[t].tag \in {"Empty", "Notified"} /\ word[t].worker = NoWorker
  BY <1>1 DEF LocalOf, Where, CallPcs, Handing, Returns, Claiming, Attached, Detached, Blocked
<1>5. LocalOf(t)'
  BY <1>1, <1>2, <1>3, <1>4 DEF LocalOf, CallPcs, Handing, Returns, Claiming, Attached,
        Detached, Blocked
<1>q. QED BY <1>5, LocalFrame DEF Local, Typing, ThreadTyping, TaskTyping

(* poll_io and poll_timers collect runnables of an attached thread. *)
LEMMA LocalPollEvents ==
  ASSUME Typing, LocalInv, NEW t \in Threads, PollEvents(t)
  PROVE LocalInv'
<1>1. PICK list \in SUBSET Away : PopAndInject(t, list, Found(t, "task"))
  BY DEF PollEvents
<1>2. PICK k \in list :
        /\ held' = [held EXCEPT ![t] = k]
        /\ pc' = [pc EXCEPT ![t] = IF list = {k} THEN Found(t, "task") ELSE "notify"]
        /\ cont' = [cont EXCEPT ![t] = Found(t, "task")]
  BY <1>1 DEF PopAndInject, Goto
<1>3. k \in Tasks /\ Found(t, "task") \in {"task", "discover"}
  BY DEF Away, Found
<1>4. pc[t] \in {"work", "search"} /\ UNCHANGED <<hand, got, worker, word, flag>>
  BY DEF PollEvents, parkVars
<1>q. QED BY <1>2, <1>3, <1>4, LocalFound

(* An attached thread finds a runnable in the injector. *)
LEMMA LocalConsume ==
  ASSUME Typing, LocalInv, NEW t \in Threads, Consume(t)
  PROVE LocalInv'
<1>1. PICK k \in injector : /\ held' = [held EXCEPT ![t] = k]
                            /\ pc' = [pc EXCEPT ![t] = Found(t, "task")]
  BY DEF Consume, StealBatch, Goto
<1>2. k \in Tasks /\ Found(t, "task") \in {"task", "discover"}
  BY DEF Typing, TaskTyping, Found
<1>3. /\ pc[t] \in {"work", "search"}
      /\ UNCHANGED <<cont, hand, got, worker, word, flag>>
  BY DEF Consume, parkVars
<1>q. QED BY <1>1, <1>2, <1>3, LocalFound

(* An attached thread pops its own run queue. *)
LEMMA LocalPopLocal ==
  ASSUME Typing, LocalInv, NEW t \in Threads, PopLocal(t)
  PROVE LocalInv'
<1>1. PICK k \in runq[worker[t]] : /\ held' = [held EXCEPT ![t] = k]
                                   /\ pc' = [pc EXCEPT ![t] = Found(t, "task")]
  BY DEF PopLocal, Goto
<1>2. worker[t] \in Workers
  BY AttachedHasWorker DEF PopLocal, Attached
<1>3. k \in Tasks /\ Found(t, "task") \in {"task", "discover"}
  BY <1>2 DEF Typing, TaskTyping, Found
<1>4. /\ pc[t] \in {"work", "search"}
      /\ UNCHANGED <<cont, hand, got, worker, word, flag>>
  BY DEF PopLocal, parkVars
<1>q. QED BY <1>1, <1>3, <1>4, LocalFound

(* Every step of every thread keeps the local invariant of all threads. *)
LEMMA LocalStep == Typing /\ LocalInv /\ [Next]_vars => LocalInv'
<1> SUFFICES ASSUME Typing, LocalInv, [Next]_vars PROVE LocalInv'
  OBVIOUS
<1> USE NoWorkerIsNoWorker, WordFacts
    DEF LocalInv, LocalOf, Where, CallPcs, Handing, Returns, Claiming, Attached,
        Detached, Blocked, Typing, IndexTyping, ThreadTyping, Slot, execVars,
        queueVars, poolVars, parkVars, localVars, Goto
<1>1. ASSUME NEW t \in Threads, Executor(t) PROVE LocalInv'
  <2>1. CASE SearchRetryPop(t)
    BY <2>1, PopFacts DEF SearchRetryPop, IdlePop, IdleTop
  <2>2. CASE SearchRetryNone(t)
    BY <2>2 DEF SearchRetryNone
  <2>3. CASE SearchRetryAdd(t)
    BY <2>3 DEF SearchRetryAdd
  <2>4. CASE NotifySkip(t)
    BY <2>4 DEF NotifySkip
  <2>5. CASE NotifyPending(t)
    BY <2>5 DEF NotifyPending
  <2>6. CASE NotifyCas(t) BY <2>6, LocalNotifyCas
  <2>7. CASE NotifyPop(t)
    <3>1. CASE IdlePop /\ hand' = [hand EXCEPT ![t] = IdleTop] /\ Goto(t, "spawn")
      BY <2>7, <3>1, PopFacts DEF NotifyPop, IdlePop, IdleTop
    <3>2. CASE Goto(t, "notify_dec") /\ UNCHANGED <<idle, pending, hand>>
      BY <2>7, <3>2 DEF NotifyPop
    <3>q. QED BY <2>7, <3>1, <3>2 DEF NotifyPop
  <2>8. CASE NotifyGiveBack(t)
    BY <2>8 DEF NotifyGiveBack, IdlePush
  <2>9. CASE NotifyDec(t) BY <2>9, LocalNotifyDec
  <2>10. CASE SearchBegin(t)
    BY <2>10 DEF SearchBegin
  <2>11. CASE SearchBeginAdd(t) BY <2>11, LocalSearchBeginAdd
  <2>12. CASE SearchFailedDec(t)
    BY <2>12 DEF SearchFailedDec
  <2>13. CASE SearchFailedCheck(t)
    BY <2>13 DEF SearchFailedCheck
  <2>14. CASE Discover(t)
    BY <2>14 DEF Discover, Dispatch
  <2>q. QED BY <1>1, <2>1, <2>2, <2>3, <2>4, <2>5, <2>6, <2>7, <2>8, <2>9, <2>10, <2>11,
        <2>12, <2>13, <2>14 DEF Executor
<1>2. ASSUME NEW t \in Threads, ThreadPool(t) PROVE LocalInv'
  <2>1. CASE SpawnIdle(t)
    BY <2>1 DEF SpawnIdle
  <2>2. CASE SpawnReserve(t)
    BY <2>2 DEF SpawnReserve
  <2>3. CASE SpawnThread(t) BY <2>3, LocalSpawnThread
  <2>4. CASE SpawnError(t)
    BY <2>4 DEF SpawnError
  <2>5. CASE UnparkSome(t)
    BY <2>5, NotifiedFacts DEF UnparkSome
  <2>6. CASE UnparkNone(t)
    BY <2>6, NotifiedFacts, WordCases DEF UnparkNone
  <2>7. CASE WaitNotified(t)
    BY <2>7, WordCases DEF WaitNotified, PollUnparked
  <2>8. CASE WaitPush(t)
    BY <2>8 DEF WaitPush
  <2>9. CASE Park(t)
    BY <2>9 DEF Park
  <2>10. CASE ParkNotified(t)
    BY <2>10, WordCases DEF ParkNotified, PollUnparked, Events
  <2>11. CASE Unlist(t)
    BY <2>11 DEF Unlist
  <2>q. QED BY <1>2, <2>1, <2>2, <2>3, <2>4, <2>5, <2>6, <2>7, <2>8, <2>9, <2>10, <2>11
        DEF ThreadPool
<1>3. ASSUME NEW t \in Threads, WorkerLoop(t) PROVE LocalInv'
  <2>1. CASE TransitionToRunning(t)
    BY <2>1 DEF TransitionToRunning
  <2>2. CASE PollFuture(t)
    BY <2>2 DEF PollFuture, Found, AfterPoll
  <2>3. CASE FutureReady(t)
    BY <2>3 DEF FutureReady, Found
  <2>4. CASE FuturePending(t)
    BY <2>4 DEF FuturePending, AfterPoll
  <2>5. CASE PollEvents(t) BY <2>5, LocalPollEvents
  <2>6. CASE Consume(t) BY <2>6, LocalConsume
  <2>7. ASSUME NEW v \in Workers, StealFrom(t, v) PROVE LocalInv'
    BY <2>7 DEF StealFrom, StealBatch, Found
  <2>8. CASE PopLocal(t) BY <2>8, LocalPopLocal
  <2>9. CASE SearchMiss(t)
    BY <2>9 DEF SearchMiss
  <2>10. CASE Release(t)
    BY <2>10 DEF Release
  <2>11. CASE GoIdle(t)
    BY <2>11 DEF GoIdle, IdlePush
  <2>12. CASE TaskSuspend(t)
    BY <2>12 DEF TaskSuspend
  <2>13. CASE TaskYield(t)
    BY <2>13 DEF TaskYield
  <2>14. CASE Finish(t)
    BY <2>14 DEF Finish
  <2>15. CASE Exit(t)
    BY <2>15 DEF Exit
  <2>16. CASE Woken(t)
    BY <2>16 DEF Woken
  <2>17. CASE PopInject(t)
    BY <2>17 DEF PopInject, PopAndInject
  <2>18. CASE Inject(t)
    BY <2>18 DEF Inject
  <2>q. QED BY <1>3, <2>1, <2>2, <2>3, <2>4, <2>5, <2>6, <2>7, <2>8, <2>9, <2>10, <2>11,
        <2>12, <2>13, <2>14, <2>15, <2>16, <2>17, <2>18 DEF WorkerLoop
<1>4. ASSUME NEW t \in Threads, Environment(t) PROVE LocalInv'
  <2>1. CASE BlockOn(t)
    BY <2>1 DEF BlockOn
  <2>2. CASE Schedule(t)
    BY <2>2 DEF Schedule, InBody, InBody
  <2>3. ASSUME NEW u \in Users, WakeFuture(t, u) PROVE LocalInv'
    <3>1. CASE /\ tgt' = [tgt EXCEPT ![t] = u]
               /\ Goto(t, "unpark_none")
               /\ cont' = [cont EXCEPT ![t] = pc[t]]
      BY <2>3, <3>1 DEF WakeFuture, CanWake, InBody
    <3>2. CASE UNCHANGED <<tgt, pc, cont>>
      BY <2>3, <3>2 DEF WakeFuture
    <3>q. QED BY <2>3, <3>1, <3>2 DEF WakeFuture
  <2>4. CASE WaitTimeout(t)
    BY <2>4 DEF WaitTimeout
  <2>5. CASE SelectReturn(t)
    BY <2>5 DEF SelectReturn, Events
  <2>q. QED BY <1>4, <2>1, <2>2, <2>3, <2>4, <2>5 DEF Environment
<1>5. CASE UNCHANGED vars BY <1>5 DEF vars
<1>q. QED BY <1>1, <1>2, <1>3, <1>4, <1>5 DEF Next

(* The inductive invariant: types, and what each local holds at each place. *)
LEMMA LocalInvariant == Spec => [](Typing /\ LocalInv)
<1>1. Init => Typing /\ LocalInv
  <2> SUFFICES ASSUME Init PROVE Typing /\ LocalInv
    OBVIOUS
  <2> USE SchedulerAssumption, NoWorkerIsNoWorker, WordFacts, PcFacts DEF Init, Slot
  <2>1. idle \in Seq(Workers)
    BY DEF Workers
  <2>2. IndexTyping
    BY <2>1 DEF IndexTyping
  <2>3. ThreadTyping
    BY DEF ThreadTyping
  <2>4. TaskTyping
    BY DEF TaskTyping
  <2>5. LocalInv
    BY DEF LocalInv, LocalOf, Where, CallPcs, Handing, Returns, Claiming, Attached,
          Detached, Blocked
  <2>q. QED BY <2>2, <2>3, <2>4, <2>5 DEF Typing
<1>q. QED BY <1>1, TypingStep, LocalStep, PTL DEF Spec

-----------------------------------------------------------------------------
(* No thread of the pool starts, ends or is being created. *)
Quiet == /\ spawned' = spawned
         /\ \A x \in Threads : /\ pc'[x] = "off" <=> pc[x] = "off"
                               /\ pc'[x] = "create" <=> pc[x] = "create"

(* Only spawn, finish and the creation of a thread change what PoolExact counts. *)
LEMMA QuietStep ==
  ASSUME Typing, LocalInv, NEW t \in Threads,
         Executor(t) \/ ThreadPool(t) \/ WorkerLoop(t) \/ Environment(t),
         ~SpawnReserve(t), ~SpawnThread(t), ~SpawnError(t), ~Exit(t)
  PROVE Quiet
<1> USE DEF Quiet, Typing, ThreadTyping, poolVars, Goto
<1>1. LocalOf(t)
  BY DEF LocalInv
<1>2. pc[t] \in CallPcs => cont[t] \notin {"off", "create"}
  BY <1>1 DEF LocalOf, Returns
<1>3. pc[t] = "retry" => cont[t] \notin {"off", "create"}
  BY <1>1 DEF LocalOf
<1>4. pc[t] = "to_idle" /\ ~flag[t] => cont[t] \notin {"off", "create"}
  BY <1>1 DEF LocalOf
<1>5. CASE Executor(t)
  BY <1>2, <1>3, <1>5 DEF Executor, CallPcs, SearchRetryPop, IdlePop, IdleTop,
        SearchRetryNone, SearchRetryAdd, NotifySkip, NotifyPending, NotifyCas, NotifyPop,
        NotifyGiveBack, IdlePush, NotifyDec, SearchBegin, SearchBeginAdd, SearchFailedDec,
        SearchFailedCheck, Discover, Dispatch
<1>6. CASE ThreadPool(t)
  BY <1>2, <1>6 DEF ThreadPool, CallPcs, SpawnIdle, UnparkSome, UnparkNone, WaitNotified,
        PollUnparked, WaitPush, Park, ParkNotified, Events, Unlist
<1>7. CASE WorkerLoop(t)
  BY <1>2, <1>4, <1>7 DEF WorkerLoop, CallPcs, TransitionToRunning, PollFuture, Found,
        AfterPoll, FutureReady, FuturePending, PollEvents, PopAndInject, Consume,
        StealBatch, StealFrom, PopLocal, SearchMiss, Release, GoIdle, IdlePush,
        TaskSuspend, TaskYield, Finish, Woken, PopInject, Inject
<1>8. CASE Environment(t)
  BY <1>8 DEF Environment, BlockOn, Schedule, InBody, WakeFuture, CanWake, WaitTimeout,
        SelectReturn, Events
<1>q. QED BY <1>5, <1>6, <1>7, <1>8

Running == {p \in Pool : pc[p] # "off"}
Creating == {t \in Threads : pc[t] = "create"}

(* The counted sets of threads are finite. *)
LEMMA PoolFinite ==
  /\ IsFiniteSet(Running) /\ IsFiniteSet(Creating)
  /\ Cardinality(Running) \in Nat /\ Cardinality(Creating) \in Nat
<1>1. IsFiniteSet(Pool) /\ IsFiniteSet(Threads)
  BY SchedulerAssumption, FS_Union DEF Threads
<1>2. Running \subseteq Pool /\ Creating \subseteq Threads
  BY DEF Running, Creating
<1>3. IsFiniteSet(Running) /\ IsFiniteSet(Creating)
  BY <1>1, <1>2, FS_Subset
<1>q. QED BY <1>3, FS_CardinalityType

(* Reserving, creating, failing to create and exiting keep spawned exact. *)
LEMMA PoolStep == Typing /\ LocalInv /\ PoolExact /\ [Next]_vars => PoolExact'
<1> SUFFICES ASSUME Typing, LocalInv, PoolExact, [Next]_vars PROVE PoolExact'
  OBVIOUS
<1>1. PoolExact <=> spawned = Cardinality(Running) + Cardinality(Creating)
  BY DEF PoolExact, Running, Creating
<1>2. PoolExact' <=> spawned' = Cardinality(Running') + Cardinality(Creating')
  BY DEF PoolExact, Running, Creating
<1>3. ASSUME Quiet PROVE PoolExact'
  <2>1. Running' = Running /\ Creating' = Creating
    BY <1>3 DEF Quiet, Running, Creating, Threads
  <2>q. QED BY <1>1, <1>2, <1>3, <2>1 DEF Quiet
<1>4. ASSUME NEW t \in Threads, SpawnReserve(t) PROVE PoolExact'
  <2>1. CASE spawned = MaxThreads
    <3>1. Running' = Running /\ Creating' = Creating /\ spawned' = spawned
      BY <1>4, <2>1 DEF SpawnReserve, Goto, Running, Creating, Threads, Typing, ThreadTyping
    <3>q. QED BY <1>1, <1>2, <3>1
  <2>2. CASE spawned # MaxThreads
    <3>1. /\ Running' = Running /\ spawned' = spawned + 1
          /\ Creating' = Creating \cup {t} /\ t \notin Creating
      BY <1>4, <2>2 DEF SpawnReserve, Goto, Running, Creating, Threads, Typing, ThreadTyping
    <3>2. Cardinality(Creating') = Cardinality(Creating) + 1
      BY <3>1, PoolFinite, FS_AddElement
    <3>q. QED BY <1>1, <1>2, <3>1, <3>2, PoolFinite
  <2>q. QED BY <2>1, <2>2
<1>5. ASSUME NEW t \in Threads, SpawnThread(t) PROVE PoolExact'
  <2>1. PICK p \in Pool : pc[p] = "off" /\ pc' = [pc EXCEPT ![t] = cont[t], ![p] = "attach"]
    BY <1>5 DEF SpawnThread
  <2>2. pc[t] = "create" /\ cont[t] \in Returns /\ spawned' = spawned
    BY <1>5 DEF SpawnThread, poolVars, LocalInv, LocalOf, CallPcs
  <2>3. /\ Running' = Running \cup {p} /\ p \notin Running
        /\ Creating' = Creating \ {t} /\ t \in Creating
    BY <2>1, <2>2 DEF Running, Creating, Threads, Returns, Typing, ThreadTyping
  <2>4. /\ Cardinality(Running') = Cardinality(Running) + 1
        /\ Cardinality(Creating') = Cardinality(Creating) - 1
    BY <2>3, PoolFinite, FS_AddElement, FS_RemoveElement
  <2>q. QED BY <1>1, <1>2, <2>2, <2>4, PoolFinite
<1>6. ASSUME NEW t \in Threads, SpawnError(t) PROVE PoolExact'
  <2>1. /\ Running' = Running /\ spawned' = spawned - 1
        /\ Creating' = Creating \ {t} /\ t \in Creating
    BY <1>6 DEF SpawnError, Goto, Running, Creating, Threads, Typing, ThreadTyping
  <2>2. Cardinality(Creating') = Cardinality(Creating) - 1
    BY <2>1, PoolFinite, FS_RemoveElement
  <2>q. QED BY <1>1, <1>2, <2>1, <2>2, PoolFinite
<1>7. ASSUME NEW t \in Threads, Exit(t) PROVE PoolExact'
  <2>1. CASE t \in Users
    <3>1. Running' = Running /\ Creating' = Creating /\ spawned' = spawned
      BY <1>7, <2>1, SchedulerAssumption
         DEF Exit, Goto, Running, Creating, Threads, Typing, ThreadTyping
    <3>q. QED BY <1>1, <1>2, <3>1
  <2>2. CASE t \in Pool
    <3>1. t \in Running /\ t \notin Users /\ pc[t] = "exit"
      BY <1>7, <2>2, SchedulerAssumption DEF Exit, Running
    <3>2. Cardinality(Running \ {t}) = Cardinality(Running) - 1
          /\ Cardinality(Running \ {t}) \in Nat
      BY <3>1, PoolFinite, FS_RemoveElement, FS_CardinalityType
    <3>3. spawned \in 1 .. MaxThreads
      BY <1>1, <3>2, PoolFinite DEF Typing, ThreadTyping
    <3>4. pc' = [pc EXCEPT ![t] = "off"] /\ spawned' = spawned - 1
      BY <1>7, <3>1, <3>3 DEF Exit, Goto
    <3>5. Running' = Running \ {t} /\ Creating' = Creating
      BY <3>1, <3>4 DEF Running, Creating, Threads, Typing, ThreadTyping
    <3>q. QED BY <1>1, <1>2, <3>2, <3>4, <3>5, PoolFinite
  <2>q. QED BY <2>1, <2>2 DEF Threads
<1>8. CASE UNCHANGED vars
  <2>1. Quiet
    BY <1>8 DEF Quiet, vars, poolVars
  <2>q. QED BY <1>3, <2>1
<1>q. QED BY <1>3, <1>4, <1>5, <1>6, <1>7, <1>8, QuietStep DEF Next

(* spawned counts the threads of the pool that run or are being created,   *)
(* for any number of threads that spawn, exit and fail to be created.      *)
THEOREM PoolIsExact == Spec => []PoolExact
<1>1. Init => PoolExact
  <2> SUFFICES ASSUME Init PROVE PoolExact
    OBVIOUS
  <2>1. {p \in Pool : pc[p] # "off"} = {} /\ {t \in Threads : pc[t] = "create"} = {}
    BY SchedulerAssumption DEF Init, Threads
  <2>2. spawned = 0
    BY DEF Init
  <2>3. Cardinality({p \in Pool : pc[p] # "off"}) = 0
    BY <2>1, FS_EmptySet
  <2>4. Cardinality({t \in Threads : pc[t] = "create"}) = 0
    BY <2>1, FS_EmptySet
  <2>q. QED BY <2>2, <2>3, <2>4 DEF PoolExact
<1>q. QED BY <1>1, PoolStep, LocalInvariant, PTL DEF Spec

(* Types: in particular the pool never has more than MaxThreads threads,   *)
(* and the subtraction in ThreadPool::finish never goes below zero.        *)
THEOREM TypeCorrect == Spec => []TypeOK
<1>1. Typing /\ PoolExact => TypeOK
  <2> SUFFICES ASSUME Typing, PoolExact PROVE TypeOK
    OBVIOUS
  <2>1. spawned \in 0 .. MaxThreads
    BY PoolFinite, SchedulerAssumption
       DEF PoolExact, Running, Creating, Typing, ThreadTyping
  <2>q. QED BY <2>1 DEF TypeOK, Typing, IndexTyping, ThreadTyping, TaskTyping, Words
<1>q. QED BY <1>1, LocalInvariant, PoolIsExact, PTL

=============================================================================
