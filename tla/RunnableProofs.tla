--------------------------- MODULE RunnableProofs ---------------------------
(***************************************************************************)
(* Proofs that Scheduler neither duplicates nor drops a runnable, that     *)
(* only the end of block_on leaves runnables in a queue nobody owns, and   *)
(* that Scheduler implements the Dispatcher, for any number of workers,    *)
(* threads and tasks; and that SleepWatch and RunOrder implement           *)
(* Scheduler.                                                              *)
(***************************************************************************)
EXTENDS SearchProofs, SleepWatch, RunOrder

(* Where a thread can have runnables in its hands: a runnable it found,    *)
(* until it has run it, and the runnables its events brought, until they   *)
(* are injected.  Whoever runs a task has a worker to push it to again.    *)
Laden == {"pop_inject", "unlist", "woken", "retry", "retry_add", "inject", "panic"}

KeepOf(t) ==
  /\ held[t] # NoTask => Where(t) \in {"task", "discover", "attach", "panic"}
  /\ Where(t) = "task" => worker[t] \in Workers
  /\ ready[t] # {} => Where(t) \in Laden
  /\ pc[t] = "retry" /\ ready[t] # {} => cont[t] = "inject"

KeepInv == \A t \in Threads : KeepOf(t)

(* What KeepOf(t) reads of a thread. *)
Kept(t) == <<pc[t], cont[t], worker[t], held[t], ready[t]>>

(* A thread whose local state a step leaves alone keeps what it holds. *)
LEMMA KeepFrame ==
  ASSUME KeepInv, NEW t \in Threads, KeepOf(t)', \A x \in Threads \ {t} : UNCHANGED Kept(x)
  PROVE KeepInv'
<1>1. ASSUME NEW x \in Threads \ {t} PROVE KeepOf(x)'
  BY <1>1 DEF KeepInv, KeepOf, Kept, Where
<1>q. QED BY <1>1 DEF KeepInv

(* The return from notify or unpark, or its end in a failed assertion. *)
LEMMA KeepReturn ==
  ASSUME NEW t \in Threads, KeepOf(t), LocalOf(t), pc[t] \in CallPcs,
         pc'[t] \in {cont[t], "panic"},
         UNCHANGED <<cont[t], worker[t], held[t], ready[t]>>
  PROVE KeepOf(t)'
<1>1. cont[t] \in Returns /\ pc'[t] \notin CallPcs /\ pc'[t] # "retry"
  BY DEF LocalOf, Returns, CallPcs
<1>2. Where(t)' = pc'[t] /\ Where(t) = cont[t]
  BY <1>1 DEF Where
<1>3. CASE pc'[t] = "panic" BY <1>1, <1>2, <1>3 DEF KeepOf, Laden
<1>4. CASE pc'[t] = cont[t] BY <1>1, <1>2, <1>4 DEF KeepOf
<1>q. QED BY <1>3, <1>4

(* Every step keeps what threads hold at the places where it is looked for. *)
LEMMA KeepStep == Typing /\ LocalInv /\ FlagInv /\ KeepInv /\ [Next]_vars => KeepInv'
<1> SUFFICES ASSUME Typing, LocalInv, FlagInv, KeepInv, [Next]_vars PROVE KeepInv'
  OBVIOUS
<1> USE NoWorkerIsNoWorker, SchedulerAssumption
    DEF KeepInv, KeepOf, Laden, FlagInv, FlagOf, LocalInv, LocalOf, Where, CallPcs, Handing,
        Returns, Claiming, Attached, Detached, Blocked, Typing, IndexTyping, ThreadTyping,
        TaskTyping, Slot, execVars, queueVars, poolVars, parkVars, localVars, Goto
<1>1. ASSUME NEW t \in Threads, Executor(t) PROVE KeepInv'
  <2>1. CASE SearchRetryPop(t)
    BY <2>1, PopFacts DEF SearchRetryPop, IdlePop, IdleTop
  <2>2. CASE SearchRetryNone(t)
    BY <2>2 DEF SearchRetryNone
  <2>3. CASE SearchRetryAdd(t)
    BY <2>3 DEF SearchRetryAdd
  <2>4. CASE NotifySkip(t)
    <3>1. /\ pc[t] \in CallPcs /\ pc'[t] \in {cont[t], "panic"}
          /\ UNCHANGED <<cont, worker, held, ready>>
          /\ \A x \in Threads \ {t} : pc'[x] = pc[x]
      BY <2>4 DEF NotifySkip
    <3>q. QED BY <3>1, KeepReturn, KeepFrame DEF Kept
  <2>5. CASE NotifyPending(t)
    BY <2>5 DEF NotifyPending
  <2>6. CASE NotifyCas(t)
    <3>1. /\ pc[t] = "notify_cas" /\ pc'[t] \in {"notify_pop", cont[t], "panic"}
          /\ UNCHANGED <<cont, worker, held, ready>>
          /\ \A x \in Threads \ {t} : pc'[x] = pc[x]
      BY <2>6 DEF NotifyCas
    <3>2. CASE pc'[t] = "notify_pop"
      BY <3>1, <3>2
    <3>3. CASE pc'[t] \in {cont[t], "panic"}
      BY <3>1, <3>3, KeepReturn, KeepFrame DEF Kept
    <3>q. QED BY <3>1, <3>2, <3>3
  <2>7. CASE NotifyPop(t)
    BY <2>7 DEF NotifyPop
  <2>8. CASE NotifyGiveBack(t)
    BY <2>8 DEF NotifyGiveBack
  <2>9. CASE NotifyDec(t)
    <3>1. /\ pc[t] \in CallPcs /\ pc'[t] \in {cont[t], "panic"}
          /\ UNCHANGED <<cont, worker, held, ready>>
          /\ \A x \in Threads \ {t} : pc'[x] = pc[x]
      BY <2>9 DEF NotifyDec
    <3>q. QED BY <3>1, KeepReturn, KeepFrame DEF Kept
  <2>10. CASE SearchBegin(t)
    BY <2>10 DEF SearchBegin
  <2>11. CASE SearchBeginAdd(t)
    BY <2>11 DEF SearchBeginAdd
  <2>12. CASE SearchFailedDec(t)
    BY <2>12 DEF SearchFailedDec
  <2>13. CASE SearchFailedCheck(t)
    BY <2>13 DEF SearchFailedCheck
  <2>14. CASE Discover(t)
    BY <2>14 DEF Discover, Dispatch
  <2>q. QED BY <1>1, <2>1, <2>2, <2>3, <2>4, <2>5, <2>6, <2>7, <2>8, <2>9, <2>10,
        <2>11, <2>12, <2>13, <2>14 DEF Executor
<1>2. ASSUME NEW t \in Threads, ThreadPool(t) PROVE KeepInv'
  <2>1. CASE SpawnIdle(t)
    BY <2>1 DEF SpawnIdle
  <2>2. CASE SpawnReserve(t)
    BY <2>2 DEF SpawnReserve
  <2>3. CASE SpawnThread(t)
    <3>1. PICK p \in Pool : /\ pc[p] = "off"
                            /\ pc' = [pc EXCEPT ![t] = cont[t], ![p] = "attach"]
      BY <2>3 DEF SpawnThread
    <3>2. /\ p \in Threads /\ p # t /\ pc[t] = "create"
          /\ UNCHANGED <<cont, worker, held, ready>>
      BY <2>3, <3>1 DEF SpawnThread, Threads
    <3>3. KeepOf(t)'
      <4>1. pc'[t] = cont[t] BY <3>1, <3>2
      <4>q. QED BY <3>2, <4>1, KeepReturn
    <3>4. KeepOf(p)'
      <4>1. pc'[p] = "attach" /\ held[p] = NoTask /\ ready[p] = {} BY <3>1, <3>2
      <4>q. QED BY <3>2, <4>1
    <3>5. ASSUME NEW x \in Threads, x # t, x # p PROVE KeepOf(x)'
      <4>1. pc'[x] = pc[x] BY <3>1, <3>5
      <4>q. QED BY <3>2, <4>1
    <3> HIDE DEF KeepOf
    <3>q. QED BY <3>3, <3>4, <3>5, Zenon
  <2>4. CASE SpawnError(t)
    BY <2>4 DEF SpawnError
  <2>5. CASE UnparkSome(t)
    <3>1. /\ pc[t] = "unpark_some" /\ pc'[t] \in {"spawn", cont[t], "panic"}
          /\ UNCHANGED <<cont, worker, held, ready>>
          /\ \A x \in Threads \ {t} : pc'[x] = pc[x]
      BY <2>5 DEF UnparkSome
    <3>2. CASE pc'[t] = "spawn"
      <4>1. KeepOf(t)' BY <3>1, <3>2
      <4>q. QED BY <3>1, <4>1, KeepFrame DEF Kept
    <3>3. CASE pc'[t] \in {cont[t], "panic"}
      BY <3>1, <3>3, KeepReturn, KeepFrame DEF Kept
    <3>q. QED BY <3>1, <3>2, <3>3
  <2>6. CASE UnparkNone(t)
    <3>1. /\ pc[t] \in CallPcs /\ pc'[t] \in {cont[t], "panic"}
          /\ UNCHANGED <<cont, worker, held, ready>>
          /\ \A x \in Threads \ {t} : pc'[x] = pc[x]
      BY <2>6 DEF UnparkNone
    <3>q. QED BY <3>1, KeepReturn, KeepFrame DEF Kept
  <2>7. CASE WaitNotified(t)
    BY <2>7 DEF WaitNotified, PollUnparked
  <2>8. CASE WaitPush(t)
    BY <2>8 DEF WaitPush
  <2>9. CASE Park(t)
    BY <2>9 DEF Park
  <2>10. CASE ParkNotified(t)
    BY <2>10 DEF ParkNotified, PollUnparked, Events
  <2>11. CASE Unlist(t)
    BY <2>11 DEF Unlist
  <2>q. QED BY <1>2, <2>1, <2>2, <2>3, <2>4, <2>5, <2>6, <2>7, <2>8, <2>9, <2>10,
        <2>11 DEF ThreadPool
<1>3. ASSUME NEW t \in Threads, WorkerLoop(t) PROVE KeepInv'
  <2>1. CASE TransitionToRunning(t)
    BY <2>1 DEF TransitionToRunning
  <2>2. CASE PollFuture(t)
    BY <2>2 DEF PollFuture, Found, AfterPoll
  <2>3. CASE FutureReady(t)
    BY <2>3 DEF FutureReady, Found
  <2>4. CASE FuturePending(t)
    BY <2>4 DEF FuturePending, AfterPoll
  <2>5. CASE PollEvents(t)
    BY <2>5 DEF PollEvents, PopAndInject, Found
  <2>6. CASE Consume(t)
    BY <2>6 DEF Consume, StealBatch, Found
  <2>7. ASSUME NEW v \in Workers, StealFrom(t, v) PROVE KeepInv'
    BY <2>7 DEF StealFrom, StealBatch, Found
  <2>8. CASE PopLocal(t)
    BY <2>8 DEF PopLocal, Found
  <2>9. CASE SearchMiss(t)
    BY <2>9 DEF SearchMiss
  <2>10. CASE Release(t)
    BY <2>10 DEF Release
  <2>11. CASE GoIdle(t)
    BY <2>11 DEF GoIdle
  <2>12. CASE TaskSuspend(t)
    BY <2>12 DEF TaskSuspend
  <2>13. CASE TaskYield(t)
    BY <2>13 DEF TaskYield
  <2>14. CASE Finish(t)
    BY <2>14 DEF Finish
  <2>15. CASE Exit(t)
    BY <2>15 DEF Exit
  <2>16. CASE Woken(t)
    BY <2>16 DEF Woken
  <2>17. CASE PopInject(t)
    BY <2>17 DEF PopInject, PopAndInject
  <2>18. CASE Inject(t)
    BY <2>18 DEF Inject
  <2>q. QED BY <1>3, <2>1, <2>2, <2>3, <2>4, <2>5, <2>6, <2>7, <2>8, <2>9, <2>10,
        <2>11, <2>12, <2>13, <2>14, <2>15, <2>16, <2>17, <2>18 DEF WorkerLoop
<1>4. ASSUME NEW t \in Threads, Environment(t) PROVE KeepInv'
  <2>1. CASE BlockOn(t)
    BY <2>1 DEF BlockOn
  <2>2. CASE Schedule(t)
    BY <2>2 DEF Schedule, InBody
  <2>3. ASSUME NEW u \in Users, WakeFuture(t, u) PROVE KeepInv'
    <3>1. /\ UNCHANGED <<worker, held, ready>>
          /\ \A x \in Threads \ {t} : pc'[x] = pc[x] /\ cont'[x] = cont[x]
      BY <2>3 DEF WakeFuture
    <3>2. CASE UNCHANGED <<pc, cont>> BY <3>1, <3>2
    <3>3. CASE pc'[t] = "unpark_none" /\ cont'[t] = pc[t]
      <4>1. Where(t)' = pc[t] /\ Where(t) = pc[t]
        BY <2>3, <3>3 DEF WakeFuture, CanWake, InBody
      <4>2. KeepOf(t)' BY <3>1, <3>3, <4>1
      <4>q. QED BY <3>1, <4>2, KeepFrame DEF Kept
    <3>q. QED BY <2>3, <3>2, <3>3 DEF WakeFuture
  <2>4. CASE WaitTimeout(t)
    BY <2>4 DEF WaitTimeout
  <2>5. CASE SelectReturn(t)
    BY <2>5 DEF SelectReturn, Events
  <2>q. QED BY <1>4, <2>1, <2>2, <2>3, <2>4, <2>5 DEF Environment
<1>5. CASE UNCHANGED vars BY <1>5 DEF vars
<1>q. QED BY <1>1, <1>2, <1>3, <1>4, <1>5 DEF Next

(* What threads hold, in every reachable state. *)
LEMMA KeepInvariant == Spec => []KeepInv
<1>1. Init => KeepInv
  BY DEF Init, KeepInv, KeepOf, Where, CallPcs
<1>q. QED BY <1>1, KeepStep, LocalInvariant, FlagInvariant, PTL DEF Spec
-----------------------------------------------------------------------------
(* A runnable is in a queue or in the hands of a thread. *)
Placed(k) ==
  \/ k \in injector
  \/ \E w \in Workers : k \in runq[w]
  \/ \E t \in Threads : k \in ready[t]
  \/ \E t \in Threads : held[t] = k

(* It is in one place only. *)
OnceOf(k) ==
  /\ \A v, w \in Workers : k \in runq[v] /\ k \in runq[w] => v = w
  /\ \A t, u \in Threads : k \in ready[t] /\ k \in ready[u] => t = u
  /\ \A t, u \in Threads : held[t] = k /\ held[u] = k => t = u
  /\ \A w \in Workers, t \in Threads :
       k \in runq[w] => k \notin ready[t] /\ held[t] # k
  /\ \A t, u \in Threads : k \in ready[t] => held[u] # k
  /\ k \in injector =>
       /\ \A w \in Workers : k \notin runq[w]
       /\ \A t \in Threads : k \notin ready[t] /\ held[t] # k

OnceInv == \A k \in Tasks : OnceOf(k)

(* Membership in the union of the run queues, and of what threads hold. *)
LEMMA InUnion ==
  ASSUME NEW f, NEW S, NEW k
  PROVE k \in UNION {f[w] : w \in S} <=> \E w \in S : k \in f[w]
OBVIOUS

(* Membership in what threads have collected or hold. *)
LEMMA InHands ==
  ASSUME NEW f, NEW g, NEW S, NEW k
  PROVE k \in UNION {f[t] \cup {g[t]} : t \in S} <=> \E t \in S : k \in f[t] \/ g[t] = k
OBVIOUS

(* Away are the tasks that are in no place, now and after a step. *)
LEMMA AwayMeans ==
  ASSUME NEW k \in Tasks
  PROVE (k \in Away <=> ~Placed(k)) /\ (k \in Away' <=> ~Placed(k)')
<1> DEFINE Q == UNION {runq[w] : w \in Workers}
           H == UNION {ready[t] \cup {held[t]} : t \in Threads}
<1>1. /\ k \in Away <=> ~(k \in injector \/ k \in Q \/ k \in H)
      /\ k \in Away' <=> ~(k \in injector' \/ k \in Q' \/ k \in H')
  BY DEF Away
<1>2. /\ k \in Q <=> \E w \in Workers : k \in runq[w]
      /\ k \in Q' <=> \E w \in Workers : k \in runq'[w]
  BY InUnion
<1>3. /\ k \in H <=> \E t \in Threads : k \in ready[t] \/ held[t] = k
      /\ k \in H' <=> \E t \in Threads : k \in ready'[t] \/ held'[t] = k
  BY InHands
<1> HIDE DEF Q, H
<1>4. k \in Away <=> ~Placed(k) BY <1>1, <1>2, <1>3 DEF Placed
<1>5. k \in Away' <=> ~Placed(k)' BY <1>1, <1>2, <1>3 DEF Placed
<1>q. QED BY <1>4, <1>5

(* A step that neither duplicates nor drops runnable k. *)
Carries(k) == OnceOf(k)' /\ (Placed(k) => Placed(k)')

(* A task that is not placed is taken up in one place. *)
LEMMA AwayOnce ==
  ASSUME NEW k \in Tasks, ~Placed(k)
  PROVE /\ k \notin injector /\ \A w \in Workers : k \notin runq[w]
        /\ \A t \in Threads : k \notin ready[t] /\ held[t] # k
BY DEF Placed

(* Executor::schedule puts a task that was away into one queue. *)
LEMMA CarrySchedule ==
  ASSUME Typing, NEW t \in Threads, Schedule(t), NEW k \in Tasks, OnceOf(k)
  PROVE Carries(k)
<1>1. PICK j \in Away :
        IF worker[t] # NoWorker
        THEN runq' = [runq EXCEPT ![worker[t]] = @ \cup {j}] /\ UNCHANGED injector
        ELSE injector' = injector \cup {j} /\ UNCHANGED runq
  BY DEF Schedule
<1>2. j \in Tasks /\ ~Placed(j) /\ UNCHANGED <<held, ready>>
  BY <1>1, AwayMeans DEF Schedule, localVars, Away
<1>3. /\ j \notin injector /\ \A w \in Workers : j \notin runq[w]
      /\ \A x \in Threads : j \notin ready[x] /\ held[x] # j
  BY <1>2, AwayOnce
<1>4. runq \in [Workers -> SUBSET Tasks] /\ worker[t] \in Slot
  BY DEF Typing, TaskTyping, IndexTyping
<1>5. CASE worker[t] # NoWorker
  <2>1. /\ worker[t] \in Workers /\ UNCHANGED injector
        /\ \A w \in Workers : runq'[w] = IF w = worker[t] THEN runq[w] \cup {j} ELSE runq[w]
    BY <1>1, <1>4, <1>5 DEF Slot
  <2>2. OnceOf(k)'
    <3>1. CASE k = j BY <1>2, <1>3, <2>1, <3>1 DEF OnceOf
    <3>2. CASE k # j
      <4>1. \A w \in Workers : k \in runq'[w] <=> k \in runq[w] BY <2>1, <3>2
      <4>q. QED BY <1>2, <2>1, <4>1 DEF OnceOf
    <3>q. QED BY <3>1, <3>2
  <2>3. Placed(k) => Placed(k)' BY <1>2, <2>1 DEF Placed
  <2>q. QED BY <2>2, <2>3 DEF Carries
<1>6. CASE worker[t] = NoWorker
  <2>1. injector' = injector \cup {j} /\ UNCHANGED runq BY <1>1, <1>6
  <2>2. OnceOf(k)' BY <1>2, <1>3, <2>1 DEF OnceOf
  <2>3. Placed(k) => Placed(k)' BY <1>2, <2>1 DEF Placed
  <2>q. QED BY <2>2, <2>3 DEF Carries
<1>q. QED BY <1>5, <1>6

(* Events bring tasks that were away to a thread that has none. *)
LEMMA CarryEvents ==
  ASSUME Typing, NEW t \in Threads, NEW list, list \subseteq Away, ready[t] = {},
         ready' = [ready EXCEPT ![t] = list], UNCHANGED <<held, injector, runq>>,
         NEW k \in Tasks, OnceOf(k)
  PROVE Carries(k)
<1>1. \A x \in Threads : ready'[x] = IF x = t THEN list ELSE ready[x]
  BY DEF Typing, TaskTyping
<1>2. k \in list => ~Placed(k) BY AwayMeans
<1>3. OnceOf(k)'
  <2>1. CASE k \in list
    <3>1. /\ k \notin injector /\ \A w \in Workers : k \notin runq[w]
          /\ \A x \in Threads : k \notin ready[x] /\ held[x] # k
      BY <1>2, <2>1, AwayOnce
    <3>q. QED BY <1>1, <3>1 DEF OnceOf
  <2>2. CASE k \notin list BY <1>1, <2>2 DEF OnceOf
  <2>q. QED BY <2>1, <2>2
<1>4. Placed(k) => Placed(k)' BY <1>1 DEF Placed
<1>q. QED BY <1>3, <1>4 DEF Carries

(* pop_and_inject in poll_worker: one task is taken, the rest injected. *)
LEMMA CarryPollEvents ==
  ASSUME Typing, KeepInv, NEW t \in Threads, PollEvents(t), NEW k \in Tasks, OnceOf(k)
  PROVE Carries(k)
<1>1. PICK list \in SUBSET Away : PopAndInject(t, list, Found(t, "task"))
  BY DEF PollEvents
<1>2. PICK j \in list : held' = [held EXCEPT ![t] = j] /\ injector' = injector \cup (list \ {j})
  BY <1>1 DEF PopAndInject
<1>3. held[t] = NoTask /\ UNCHANGED <<ready, runq>>
  BY DEF PollEvents, KeepInv, KeepOf, Where, CallPcs
<1>4. \A x \in Threads : held'[x] = IF x = t THEN j ELSE held[x]
  BY <1>2 DEF Typing, TaskTyping
<1>5. NoTask # k BY SchedulerAssumption
<1>6. OnceOf(k)'
  <2>1. CASE k \in list
    <3>1. /\ k \notin injector /\ \A w \in Workers : k \notin runq[w]
          /\ \A x \in Threads : k \notin ready[x] /\ held[x] # k
      BY <2>1, AwayMeans, AwayOnce
    <3>q. QED BY <1>2, <1>3, <1>4, <3>1 DEF OnceOf
  <2>2. CASE k \notin list BY <1>2, <1>3, <1>4, <2>2 DEF OnceOf
  <2>q. QED BY <2>1, <2>2
<1>7. Placed(k) => Placed(k)' BY <1>2, <1>3, <1>4, <1>5 DEF Placed
<1>q. QED BY <1>6, <1>7 DEF Carries

(* Producer::consume takes one runnable of the injector and moves a batch. *)
LEMMA CarryConsume ==
  ASSUME Typing, LocalInv, KeepInv, NEW t \in Threads, Consume(t), NEW k \in Tasks, OnceOf(k)
  PROVE Carries(k)
<1>1. PICK j \in injector, batch \in SUBSET injector :
        /\ batch \subseteq injector \ {j}
        /\ held' = [held EXCEPT ![t] = j]
        /\ injector' = injector \ (batch \cup {j})
        /\ runq' = [runq EXCEPT ![worker[t]] = @ \cup batch]
  BY DEF Consume, StealBatch
<1>2. held[t] = NoTask /\ UNCHANGED ready /\ worker[t] \in Workers
  BY AttachedHasWorker DEF Consume, KeepInv, KeepOf, Where, CallPcs, Attached
<1>3. \A x \in Threads : held'[x] = IF x = t THEN j ELSE held[x]
  BY <1>1 DEF Typing, TaskTyping
<1>4. \A w \in Workers : runq'[w] = IF w = worker[t] THEN runq[w] \cup batch ELSE runq[w]
  BY <1>1 DEF Typing, TaskTyping
<1>5. NoTask # k BY SchedulerAssumption
<1>6. OnceOf(k)' BY <1>1, <1>2, <1>3, <1>4 DEF OnceOf
<1>7. Placed(k) => Placed(k)' BY <1>1, <1>2, <1>3, <1>4, <1>5 DEF Placed
<1>q. QED BY <1>6, <1>7 DEF Carries

(* Producer::steal takes one runnable of another queue and moves a batch. *)
LEMMA CarrySteal ==
  ASSUME Typing, LocalInv, KeepInv, NEW t \in Threads, NEW v \in Workers, StealFrom(t, v),
         NEW k \in Tasks, OnceOf(k)
  PROVE Carries(k)
<1>1. PICK j \in runq[v], batch \in SUBSET runq[v] :
        /\ batch \subseteq runq[v] \ {j}
        /\ held' = [held EXCEPT ![t] = j]
        /\ runq' = [runq EXCEPT ![v] = @ \ (batch \cup {j}), ![worker[t]] = @ \cup batch]
  BY DEF StealFrom, StealBatch
<1>2. /\ held[t] = NoTask /\ UNCHANGED <<ready, injector>>
      /\ worker[t] \in Workers /\ worker[t] # v
  BY AttachedHasWorker DEF StealFrom, KeepInv, KeepOf, Where, CallPcs, Attached
<1>3. \A x \in Threads : held'[x] = IF x = t THEN j ELSE held[x]
  BY <1>1 DEF Typing, TaskTyping
<1>4. \A w \in Workers : runq'[w] = IF w = worker[t] THEN runq[w] \cup batch
                                    ELSE IF w = v THEN runq[w] \ (batch \cup {j})
                                    ELSE runq[w]
  BY <1>1, <1>2 DEF Typing, TaskTyping
<1>5. NoTask # k BY SchedulerAssumption
<1>6. CASE k \notin batch \cup {j}
  <2>1. /\ \A w \in Workers : k \in runq'[w] <=> k \in runq[w]
        /\ \A x \in Threads : held'[x] = k <=> held[x] = k
    BY <1>2, <1>3, <1>4, <1>5, <1>6
  <2>2. OnceOf(k)' BY <1>2, <2>1 DEF OnceOf
  <2>3. Placed(k) => Placed(k)' BY <1>2, <2>1 DEF Placed
  <2>q. QED BY <2>2, <2>3 DEF Carries
<1>7. CASE k \in batch \cup {j}
  <2>1. /\ k \in runq[v] /\ k \notin injector
        /\ \A w \in Workers : k \in runq[w] => w = v
        /\ \A x \in Threads : k \notin ready[x] /\ held[x] # k
    BY <1>1, <1>7 DEF OnceOf
  <2>2. CASE k = j
    <3>a. ASSUME NEW w \in Workers PROVE k \notin runq'[w]
      <4>1. CASE w = worker[t]
        <5>1. runq'[w] = runq[w] \cup batch /\ k \notin runq[w] BY <1>2, <1>4, <2>1, <4>1
        <5>q. QED BY <1>1, <2>2, <5>1
      <4>2. CASE w # worker[t] BY <1>4, <2>1, <2>2, <4>2
      <4>q. QED BY <4>1, <4>2
    <3>b. \A x \in Threads : held'[x] = k <=> x = t BY <1>3, <2>1, <2>2
    <3>1. /\ \A w \in Workers : k \notin runq'[w]
          /\ \A x \in Threads : held'[x] = k <=> x = t
      BY <3>a, <3>b
    <3>2. OnceOf(k)' BY <1>2, <2>1, <3>1 DEF OnceOf
    <3>3. Placed(k)' BY <3>1 DEF Placed
    <3>q. QED BY <3>2, <3>3 DEF Carries
  <2>3. CASE k # j
    <3>a. ASSUME NEW w \in Workers PROVE k \in runq'[w] <=> w = worker[t]
      <4>1. CASE w = worker[t] BY <1>4, <1>7, <2>3, <4>1
      <4>2. CASE w # worker[t] BY <1>4, <1>7, <2>1, <4>2
      <4>q. QED BY <4>1, <4>2
    <3>b. \A x \in Threads : held'[x] # k BY <1>3, <2>1, <2>3
    <3>1. /\ \A w \in Workers : k \in runq'[w] <=> w = worker[t]
          /\ \A x \in Threads : held'[x] # k
      BY <3>a, <3>b
    <3>2. OnceOf(k)' BY <1>2, <2>1, <3>1 DEF OnceOf
    <3>3. Placed(k)' BY <1>2, <3>1 DEF Placed
    <3>q. QED BY <3>2, <3>3 DEF Carries
  <2>q. QED BY <2>2, <2>3
<1>q. QED BY <1>6, <1>7

(* Producer::pop takes one runnable of the own queue. *)
LEMMA CarryPop ==
  ASSUME Typing, LocalInv, KeepInv, NEW t \in Threads, PopLocal(t), NEW k \in Tasks, OnceOf(k)
  PROVE Carries(k)
<1>1. PICK j \in runq[worker[t]] :
        /\ held' = [held EXCEPT ![t] = j]
        /\ runq' = [runq EXCEPT ![worker[t]] = @ \ {j}]
  BY DEF PopLocal
<1>2. held[t] = NoTask /\ UNCHANGED <<ready, injector>> /\ worker[t] \in Workers
  BY AttachedHasWorker DEF PopLocal, KeepInv, KeepOf, Where, CallPcs, Attached
<1>3. \A x \in Threads : held'[x] = IF x = t THEN j ELSE held[x]
  BY <1>1 DEF Typing, TaskTyping
<1>4. \A w \in Workers : runq'[w] = IF w = worker[t] THEN runq[w] \ {j} ELSE runq[w]
  BY <1>1 DEF Typing, TaskTyping
<1>5. NoTask # k BY SchedulerAssumption
<1>6. OnceOf(k)' BY <1>1, <1>2, <1>3, <1>4 DEF OnceOf
<1>7. Placed(k) => Placed(k)' BY <1>1, <1>2, <1>3, <1>4, <1>5 DEF Placed
<1>q. QED BY <1>6, <1>7 DEF Carries

(* A task that yields is pushed to the queue of its thread's worker. *)
LEMMA CarryYield ==
  ASSUME Typing, KeepInv, NEW t \in Threads, TaskYield(t), NEW k \in Tasks, OnceOf(k)
  PROVE Carries(k)
<1>1. /\ worker[t] \in Workers /\ UNCHANGED <<ready, injector>>
      /\ held' = [held EXCEPT ![t] = NoTask]
      /\ runq' = [runq EXCEPT ![worker[t]] = @ \cup {held[t]}]
  BY DEF TaskYield, KeepInv, KeepOf, Where, CallPcs
<1>2. \A x \in Threads : held'[x] = IF x = t THEN NoTask ELSE held[x]
  BY <1>1 DEF Typing, TaskTyping
<1>3. \A w \in Workers : runq'[w] = IF w = worker[t] THEN runq[w] \cup {held[t]} ELSE runq[w]
  BY <1>1 DEF Typing, TaskTyping
<1>4. NoTask # k BY SchedulerAssumption
<1>5. OnceOf(k)' BY <1>1, <1>2, <1>3, <1>4 DEF OnceOf
<1>6. Placed(k) => Placed(k)' BY <1>1, <1>2, <1>3 DEF Placed
<1>q. QED BY <1>5, <1>6 DEF Carries

(* pop_and_inject of a thread that waited: one runnable is taken. *)
LEMMA CarryPopInject ==
  ASSUME Typing, KeepInv, NEW t \in Threads, PopInject(t), NEW k \in Tasks, OnceOf(k)
  PROVE Carries(k)
<1>1. PICK j \in ready[t] : /\ held' = [held EXCEPT ![t] = j]
                            /\ injector' = injector \cup (ready[t] \ {j})
  BY DEF PopInject, PopAndInject
<1>2. /\ held[t] = NoTask /\ UNCHANGED runq /\ ready' = [ready EXCEPT ![t] = {}]
  BY DEF PopInject, KeepInv, KeepOf, Where, CallPcs
<1>3. \A x \in Threads : /\ held'[x] = IF x = t THEN j ELSE held[x]
                         /\ ready'[x] = IF x = t THEN {} ELSE ready[x]
  BY <1>1, <1>2 DEF Typing, TaskTyping
<1>4. NoTask # k BY SchedulerAssumption
<1>5. OnceOf(k)' BY <1>1, <1>2, <1>3 DEF OnceOf
<1>6. Placed(k) => Placed(k)' BY <1>1, <1>2, <1>3, <1>4 DEF Placed
<1>q. QED BY <1>5, <1>6 DEF Carries

(* A thread without a worker injects all its events brought. *)
LEMMA CarryInject ==
  ASSUME Typing, NEW t \in Threads, Inject(t), NEW k \in Tasks, OnceOf(k)
  PROVE Carries(k)
<1>1. /\ UNCHANGED <<held, runq>> /\ ready' = [ready EXCEPT ![t] = {}]
      /\ injector' = injector \cup ready[t]
  BY DEF Inject
<1>2. \A x \in Threads : ready'[x] = IF x = t THEN {} ELSE ready[x]
  BY <1>1 DEF Typing, TaskTyping
<1>3. OnceOf(k)' BY <1>1, <1>2 DEF OnceOf
<1>4. Placed(k) => Placed(k)' BY <1>1, <1>2 DEF Placed
<1>q. QED BY <1>3, <1>4 DEF Carries

(* A step that touches neither the queues nor what threads hold. *)
LEMMA CarryUnmoved ==
  ASSUME UNCHANGED <<injector, runq, held, ready>>, NEW k \in Tasks, OnceOf(k)
  PROVE Carries(k)
BY DEF Carries, OnceOf, Placed

(* The operations of Executor touch no runnable: search_failed only looks. *)
LEMMA ExecutorUnmoved ==
  ASSUME NEW t \in Threads, Executor(t) PROVE UNCHANGED <<injector, runq, held, ready>>
<1> USE DEF queueVars, localVars
<1>1. CASE SearchRetryPop(t) BY <1>1 DEF SearchRetryPop
<1>2. CASE SearchRetryNone(t) BY <1>2 DEF SearchRetryNone
<1>3. CASE SearchRetryAdd(t) BY <1>3 DEF SearchRetryAdd
<1>4. CASE NotifySkip(t) BY <1>4 DEF NotifySkip
<1>5. CASE NotifyPending(t) BY <1>5 DEF NotifyPending
<1>6. CASE NotifyCas(t) BY <1>6 DEF NotifyCas
<1>7. CASE NotifyPop(t) BY <1>7 DEF NotifyPop
<1>8. CASE NotifyGiveBack(t) BY <1>8 DEF NotifyGiveBack
<1>9. CASE NotifyDec(t) BY <1>9 DEF NotifyDec
<1>10. CASE SearchBegin(t) BY <1>10 DEF SearchBegin
<1>11. CASE SearchBeginAdd(t) BY <1>11 DEF SearchBeginAdd
<1>12. CASE SearchFailedDec(t) BY <1>12 DEF SearchFailedDec
<1>13. CASE SearchFailedCheck(t) BY <1>13 DEF SearchFailedCheck
<1>14. CASE Discover(t) BY <1>14 DEF Discover
<1>q. QED BY <1>1, <1>2, <1>3, <1>4, <1>5, <1>6, <1>7, <1>8, <1>9, <1>10, <1>11, <1>12,
      <1>13, <1>14 DEF Executor

(* Neither does ThreadPool, except for the events a wait in the network    *)
(* selector brought.                                                       *)
LEMMA ThreadPoolCarries ==
  ASSUME Typing, KeepInv, NEW t \in Threads, ThreadPool(t), NEW k \in Tasks, OnceOf(k)
  PROVE Carries(k)
<1> USE DEF queueVars, localVars
<1>1. CASE SpawnIdle(t) BY <1>1, CarryUnmoved DEF SpawnIdle
<1>2. CASE SpawnReserve(t) BY <1>2, CarryUnmoved DEF SpawnReserve
<1>3. CASE SpawnThread(t) BY <1>3, CarryUnmoved DEF SpawnThread
<1>4. CASE SpawnError(t) BY <1>4, CarryUnmoved DEF SpawnError
<1>5. CASE UnparkSome(t) BY <1>5, CarryUnmoved DEF UnparkSome
<1>6. CASE UnparkNone(t) BY <1>6, CarryUnmoved DEF UnparkNone
<1>7. CASE WaitNotified(t)
  <2>1. ready[t] = {} BY <1>7 DEF WaitNotified, KeepInv, KeepOf, Where, CallPcs, Laden
  <2>2. ready' = [ready EXCEPT ![t] = {}] /\ UNCHANGED <<held, injector, runq>>
    BY <1>7 DEF WaitNotified, PollUnparked
  <2>3. {} \subseteq Away OBVIOUS
  <2>q. QED BY <2>1, <2>2, <2>3, CarryEvents
<1>8. CASE WaitPush(t) BY <1>8, CarryUnmoved DEF WaitPush
<1>9. CASE Park(t) BY <1>9, CarryUnmoved DEF Park
<1>10. CASE ParkNotified(t)
  <2>1. ready[t] = {} BY <1>10 DEF ParkNotified, KeepInv, KeepOf, Where, CallPcs, Laden
  <2>2. PICK list \in Events(t) : ready' = [ready EXCEPT ![t] = list]
    BY <1>10 DEF ParkNotified, PollUnparked
  <2>3. UNCHANGED <<held, injector, runq>> BY <1>10 DEF ParkNotified
  <2>4. list \subseteq Away BY DEF Events
  <2>q. QED BY <2>1, <2>2, <2>3, <2>4, CarryEvents
<1>11. CASE Unlist(t) BY <1>11, CarryUnmoved DEF Unlist
<1>q. QED BY <1>1, <1>2, <1>3, <1>4, <1>5, <1>6, <1>7, <1>8, <1>9, <1>10, <1>11
      DEF ThreadPool

(* A task that suspends or is complete leaves the hands of its thread. *)
LEMMA CarrySuspend ==
  ASSUME Typing, NEW t \in Threads, TaskSuspend(t), NEW k \in Tasks, OnceOf(k)
  PROVE OnceOf(k)' /\ (Placed(k) => Placed(k)' \/ (pc[t] = "task" /\ held[t] = k))
<1>1. /\ pc[t] = "task" /\ UNCHANGED <<ready, injector, runq>>
      /\ held' = [held EXCEPT ![t] = NoTask]
  BY DEF TaskSuspend, queueVars
<1>2. \A x \in Threads : held'[x] = IF x = t THEN NoTask ELSE held[x]
  BY <1>1 DEF Typing, TaskTyping
<1>3. NoTask # k BY SchedulerAssumption
<1>4. OnceOf(k)' BY <1>1, <1>2, <1>3 DEF OnceOf
<1>5. Placed(k) => Placed(k)' \/ held[t] = k BY <1>1, <1>2 DEF Placed
<1>q. QED BY <1>1, <1>4, <1>5

(* What a step may do to a runnable: leave it in one place, or run it. *)
Conserved(k) ==
  /\ OnceOf(k)'
  /\ Placed(k) => Placed(k)' \/ \E t \in Threads : pc[t] = "task" /\ held[t] = k

(* Every step of the worker loop conserves runnables. *)
LEMMA WorkerLoopConserves ==
  ASSUME Typing, LocalInv, KeepInv, NEW t \in Threads, WorkerLoop(t), NEW k \in Tasks,
         OnceOf(k)
  PROVE Conserved(k)
<1> USE DEF queueVars, localVars
<1>a. ASSUME Carries(k) PROVE Conserved(k) BY <1>a DEF Carries, Conserved
<1>b. ASSUME UNCHANGED <<injector, runq, held, ready>> PROVE Conserved(k)
  BY <1>a, <1>b, CarryUnmoved
<1>1. CASE TransitionToRunning(t) BY <1>1, <1>b DEF TransitionToRunning
<1>2. CASE PollFuture(t) BY <1>2, <1>b DEF PollFuture
<1>3. CASE FutureReady(t) BY <1>3, <1>b DEF FutureReady
<1>4. CASE FuturePending(t) BY <1>4, <1>b DEF FuturePending
<1>5. CASE PollEvents(t) BY <1>5, <1>a, CarryPollEvents
<1>6. CASE Consume(t) BY <1>6, <1>a, CarryConsume
<1>7. ASSUME NEW v \in Workers, StealFrom(t, v) PROVE Conserved(k) BY <1>7, <1>a, CarrySteal
<1>8. CASE PopLocal(t) BY <1>8, <1>a, CarryPop
<1>9. CASE SearchMiss(t) BY <1>9, <1>b DEF SearchMiss
<1>10. CASE Release(t) BY <1>10, <1>b DEF Release
<1>11. CASE GoIdle(t) BY <1>11, <1>b DEF GoIdle
<1>12. CASE TaskSuspend(t) BY <1>12, CarrySuspend DEF Conserved
<1>13. CASE TaskYield(t) BY <1>13, <1>a, CarryYield
<1>14. CASE Finish(t) BY <1>14, <1>b DEF Finish
<1>15. CASE Exit(t) BY <1>15, <1>b DEF Exit
<1>16. CASE Woken(t) BY <1>16, <1>b DEF Woken
<1>17. CASE PopInject(t) BY <1>17, <1>a, CarryPopInject
<1>18. CASE Inject(t) BY <1>18, <1>a, CarryInject
<1>q. QED BY <1>1, <1>2, <1>3, <1>4, <1>5, <1>6, <1>7, <1>8, <1>9, <1>10, <1>11, <1>12,
      <1>13, <1>14, <1>15, <1>16, <1>17, <1>18 DEF WorkerLoop

(* So does what the environment does. *)
LEMMA EnvironmentCarries ==
  ASSUME Typing, KeepInv, NEW t \in Threads, Environment(t), NEW k \in Tasks, OnceOf(k)
  PROVE Carries(k)
<1> USE DEF queueVars, localVars
<1>1. CASE BlockOn(t) BY <1>1, CarryUnmoved DEF BlockOn
<1>2. CASE Schedule(t) BY <1>2, CarrySchedule
<1>3. ASSUME NEW u \in Users, WakeFuture(t, u) PROVE Carries(k)
  BY <1>3, CarryUnmoved DEF WakeFuture
<1>4. CASE WaitTimeout(t) BY <1>4, CarryUnmoved DEF WaitTimeout
<1>5. CASE SelectReturn(t)
  <2>1. ready[t] = {} BY <1>5 DEF SelectReturn, KeepInv, KeepOf, Where, CallPcs, Laden
  <2>2. PICK list \in Events(t) : ready' = [ready EXCEPT ![t] = list]
    BY <1>5 DEF SelectReturn
  <2>3. UNCHANGED <<held, injector, runq>> BY <1>5 DEF SelectReturn
  <2>4. list \subseteq Away BY DEF Events
  <2>q. QED BY <2>1, <2>2, <2>3, <2>4, CarryEvents
<1>q. QED BY <1>1, <1>2, <1>3, <1>4, <1>5 DEF Environment

(* Every step conserves runnables. *)
LEMMA StepConserves ==
  ASSUME Typing, LocalInv, KeepInv, [Next]_vars, NEW k \in Tasks, OnceOf(k)
  PROVE Conserved(k)
<1>a. ASSUME Carries(k) PROVE Conserved(k) BY <1>a DEF Carries, Conserved
<1>1. ASSUME NEW t \in Threads, Executor(t) PROVE Conserved(k)
  BY <1>1, <1>a, ExecutorUnmoved, CarryUnmoved
<1>2. ASSUME NEW t \in Threads, ThreadPool(t) PROVE Conserved(k)
  BY <1>2, <1>a, ThreadPoolCarries
<1>3. ASSUME NEW t \in Threads, WorkerLoop(t) PROVE Conserved(k)
  BY <1>3, WorkerLoopConserves
<1>4. ASSUME NEW t \in Threads, Environment(t) PROVE Conserved(k)
  BY <1>4, <1>a, EnvironmentCarries
<1>5. CASE UNCHANGED vars
  BY <1>5, <1>a, CarryUnmoved DEF vars, queueVars, localVars
<1>q. QED BY <1>1, <1>2, <1>3, <1>4, <1>5 DEF Next

(* A runnable is in one place, in every reachable state. *)
LEMMA OnceInvariant == Spec => []OnceInv
<1>1. Init => OnceInv
  BY SchedulerAssumption DEF Init, OnceInv, OnceOf
<1>2. Typing /\ LocalInv /\ KeepInv /\ OnceInv /\ [Next]_vars => OnceInv'
  BY StepConserves DEF OnceInv, Conserved
<1>q. QED BY <1>1, <1>2, LocalInvariant, KeepInvariant, PTL DEF Spec

(* The places of a runnable as RunnableOnce counts them. *)
Spots(k) ==
  {<<"runq", w>> : w \in {v \in Workers : k \in runq[v]}}
  \cup {<<"ready", t>> : t \in {u \in Threads : k \in ready[u]}}
  \cup {<<"held", t>> : t \in {u \in Threads : held[u] = k}}
  \cup (IF k \in injector THEN {<<"injector", 0>>} ELSE {})

(* A set all of whose elements are equal has at most one. *)
LEMMA AtMostOne ==
  ASSUME NEW S, \A a, b \in S : a = b
  PROVE Cardinality(S) <= 1
<1>1. CASE S = {} BY <1>1, FS_EmptySet
<1>2. CASE S # {}
  <2>1. PICK a : a \in S BY <1>2
  <2>2. S = {a} BY <2>1
  <2>q. QED BY <2>2, FS_Singleton
<1>q. QED BY <1>1, <1>2

(* Two spots of a runnable that is in one place are the same. *)
LEMMA OneSpot ==
  ASSUME NEW k \in Tasks, OnceOf(k), NEW a \in Spots(k), NEW b \in Spots(k)
  PROVE a = b
<1> DEFINE At(s) == \/ \E w \in Workers : k \in runq[w] /\ s = <<"runq", w>>
                    \/ \E t \in Threads : k \in ready[t] /\ s = <<"ready", t>>
                    \/ \E t \in Threads : held[t] = k /\ s = <<"held", t>>
                    \/ k \in injector /\ s = <<"injector", 0>>
<1>1. At(a) /\ At(b) BY DEF Spots
<1>2. CASE \E w \in Workers : k \in runq[w] /\ a = <<"runq", w>>
  BY <1>1, <1>2 DEF OnceOf
<1>3. CASE \E t \in Threads : k \in ready[t] /\ a = <<"ready", t>>
  BY <1>1, <1>3 DEF OnceOf
<1>4. CASE \E t \in Threads : held[t] = k /\ a = <<"held", t>>
  BY <1>1, <1>4 DEF OnceOf
<1>5. CASE k \in injector /\ a = <<"injector", 0>>
  BY <1>1, <1>5 DEF OnceOf
<1>q. QED BY <1>1, <1>2, <1>3, <1>4, <1>5

(* A runnable is queued, ready or running at most once, whatever batches   *)
(* Producer::steal and consume move between the queues, however the events *)
(* of a wait are injected and however often a task yields.                 *)
THEOREM RunnablesAreOnce == Spec => []RunnableOnce
<1>1. OnceInv => RunnableOnce
  <2> SUFFICES ASSUME OnceInv, NEW k \in Tasks PROVE Cardinality(Spots(k)) <= 1
    BY DEF RunnableOnce, Spots
  <2>1. \A a, b \in Spots(k) : a = b BY OneSpot DEF OnceInv
  <2>q. QED BY <2>1, AtMostOne
<1>q. QED BY <1>1, OnceInvariant, PTL

(* A scheduled runnable leaves the queues only by being run: no step of    *)
(* the executor, of the poller, of a thread that steals, waits or returns  *)
(* from block_on drops one.                                                *)
THEOREM RunnablesAreKept == Spec => RunnableKept
<1>1. ASSUME Typing, LocalInv, KeepInv, OnceInv, [Next]_vars
      PROVE [\A k \in Tasks \ Away :
               k \in Away' => \E t \in Threads : pc[t] = "task" /\ held[t] = k]_vars
  <2> SUFFICES ASSUME NEW k \in Tasks \ Away, k \in Away'
               PROVE \E t \in Threads : pc[t] = "task" /\ held[t] = k
    OBVIOUS
  <2>1. Placed(k) /\ ~Placed(k)' BY AwayMeans
  <2>2. Conserved(k) BY <1>1, StepConserves DEF OnceInv
  <2>q. QED BY <2>1, <2>2 DEF Conserved
<1>q. QED BY <1>1, LocalInvariant, KeepInvariant, OnceInvariant, PTL DEF Spec, RunnableKept
-----------------------------------------------------------------------------
(* A thread that searches for work, or that gives its worker up for want   *)
(* of work, has an empty run queue.                                        *)
DrainOf(t) ==
  /\ Where(t) \in {"search", "search_add"} => runq[worker[t]] = {}
  /\ pc[t] = "release" /\ cont[t] # "exit" => runq[worker[t]] = {}

Drained == \A t \in Threads : DrainOf(t)

(* A step of thread t: it leaves the place and the worker of the others    *)
(* alone (a thread it creates apart), pushes to the queue of its own       *)
(* worker only, keeps DrainOf and gives a worker up in transition_to_idle. *)
Drains(t) ==
  /\ \A x \in Threads \ {t} :
       pc'[x] \in {pc[x], "attach"} /\ cont'[x] = cont[x] /\ worker'[x] = worker[x]
  /\ \A w \in Workers \ {worker[t]} : runq'[w] \subseteq runq[w]
  /\ DrainOf(t)'
  /\ worker'[t] # worker[t] => pc[t] \in {"release", "attach"}

(* The return from notify or unpark, or its end in a failed assertion. *)
LEMMA DrainReturn ==
  ASSUME NEW t \in Threads, DrainOf(t), LocalOf(t), pc[t] \in CallPcs,
         pc'[t] \in {cont[t], "panic"}, UNCHANGED <<cont, worker, runq>>,
         \A x \in Threads \ {t} : pc'[x] \in {pc[x], "attach"}
  PROVE Drains(t)
<1>1. cont[t] \in Returns /\ pc'[t] \notin CallPcs /\ pc'[t] # "release"
  BY DEF LocalOf, Returns, CallPcs
<1>2. Where(t)' = pc'[t] /\ Where(t) = cont[t]
  BY <1>1 DEF Where
<1>3. DrainOf(t)' BY <1>1, <1>2 DEF DrainOf
<1>q. QED BY <1>3 DEF Drains

(* Every step is one that drains. *)
LEMMA StepDrains ==
  ASSUME Typing, LocalInv, Drained, NEW t \in Threads,
         Executor(t) \/ ThreadPool(t) \/ WorkerLoop(t) \/ Environment(t)
  PROVE Drains(t)
<1> USE DEF Drains, Drained, DrainOf, LocalInv, LocalOf, Where, CallPcs, Handing, Returns,
        Claiming, Attached, Detached, Blocked, Typing, IndexTyping, ThreadTyping,
        TaskTyping, execVars, queueVars, poolVars, parkVars, localVars, Goto
<1>1. CASE Executor(t)
  <2>1. CASE SearchRetryPop(t)
    BY <2>1 DEF SearchRetryPop
  <2>2. CASE SearchRetryNone(t)
    BY <2>2 DEF SearchRetryNone
  <2>3. CASE SearchRetryAdd(t)
    BY <2>3 DEF SearchRetryAdd
  <2>4. CASE NotifySkip(t)
    <3>1. /\ pc[t] \in CallPcs /\ pc'[t] \in {cont[t], "panic"}
          /\ UNCHANGED <<cont, worker, runq>> /\ \A x \in Threads \ {t} : pc'[x] = pc[x]
      BY <2>4 DEF NotifySkip
    <3>q. QED BY <3>1, DrainReturn
  <2>5. CASE NotifyPending(t)
    BY <2>5 DEF NotifyPending
  <2>6. CASE NotifyCas(t)
    <3>1. /\ pc[t] = "notify_cas" /\ pc'[t] \in {"notify_pop", cont[t], "panic"}
          /\ UNCHANGED <<cont, worker, runq>> /\ \A x \in Threads \ {t} : pc'[x] = pc[x]
      BY <2>6 DEF NotifyCas
    <3>2. CASE pc'[t] = "notify_pop" BY <3>1, <3>2
    <3>3. CASE pc'[t] \in {cont[t], "panic"} BY <3>1, <3>3, DrainReturn
    <3>q. QED BY <3>1, <3>2, <3>3
  <2>7. CASE NotifyPop(t)
    BY <2>7 DEF NotifyPop
  <2>8. CASE NotifyGiveBack(t)
    BY <2>8 DEF NotifyGiveBack
  <2>9. CASE NotifyDec(t)
    <3>1. /\ pc[t] \in CallPcs /\ pc'[t] \in {cont[t], "panic"}
          /\ UNCHANGED <<cont, worker, runq>> /\ \A x \in Threads \ {t} : pc'[x] = pc[x]
      BY <2>9 DEF NotifyDec
    <3>q. QED BY <3>1, DrainReturn
  <2>10. CASE SearchBegin(t)
    BY <2>10 DEF SearchBegin
  <2>11. CASE SearchBeginAdd(t)
    BY <2>11 DEF SearchBeginAdd
  <2>12. CASE SearchFailedDec(t)
    BY <2>12 DEF SearchFailedDec
  <2>13. CASE SearchFailedCheck(t)
    BY <2>13 DEF SearchFailedCheck
  <2>14. CASE Discover(t)
    BY <2>14 DEF Discover, Dispatch
  <2>q. QED BY <1>1, <2>1, <2>2, <2>3, <2>4, <2>5, <2>6, <2>7, <2>8, <2>9, <2>10,
        <2>11, <2>12, <2>13, <2>14 DEF Executor
<1>2. CASE ThreadPool(t)
  <2>1. CASE SpawnIdle(t)
    BY <2>1 DEF SpawnIdle
  <2>2. CASE SpawnReserve(t)
    BY <2>2 DEF SpawnReserve
  <2>3. CASE SpawnThread(t)
    <3>1. PICK p \in Pool : /\ pc[p] = "off"
                            /\ pc' = [pc EXCEPT ![t] = cont[t], ![p] = "attach"]
      BY <2>3 DEF SpawnThread
    <3>2. /\ p \in Threads /\ p # t /\ pc[t] = "create" /\ UNCHANGED <<cont, worker, runq>>
      BY <2>3, <3>1 DEF SpawnThread, Threads
    <3>3. pc'[t] = cont[t] /\ \A x \in Threads \ {t} : pc'[x] \in {pc[x], "attach"}
      BY <3>1, <3>2
    <3>q. QED BY <3>2, <3>3, DrainReturn
  <2>4. CASE SpawnError(t)
    BY <2>4 DEF SpawnError
  <2>5. CASE UnparkSome(t)
    <3>1. /\ pc[t] = "unpark_some" /\ pc'[t] \in {"spawn", cont[t]}
          /\ UNCHANGED <<cont, worker, runq>> /\ \A x \in Threads \ {t} : pc'[x] = pc[x]
      BY <2>5 DEF UnparkSome
    <3>2. CASE pc'[t] = "spawn" BY <3>1, <3>2
    <3>3. CASE pc'[t] = cont[t] BY <3>1, <3>3, DrainReturn
    <3>q. QED BY <3>1, <3>2, <3>3
  <2>6. CASE UnparkNone(t)
    <3>1. /\ pc[t] \in CallPcs /\ pc'[t] \in {cont[t], "panic"}
          /\ UNCHANGED <<cont, worker, runq>> /\ \A x \in Threads \ {t} : pc'[x] = pc[x]
      BY <2>6 DEF UnparkNone
    <3>q. QED BY <3>1, DrainReturn
  <2>7. CASE WaitNotified(t)
    BY <2>7 DEF WaitNotified, PollUnparked
  <2>8. CASE WaitPush(t)
    BY <2>8 DEF WaitPush
  <2>9. CASE Park(t)
    BY <2>9 DEF Park
  <2>10. CASE ParkNotified(t)
    BY <2>10 DEF ParkNotified, PollUnparked
  <2>11. CASE Unlist(t)
    BY <2>11 DEF Unlist
  <2>q. QED BY <1>2, <2>1, <2>2, <2>3, <2>4, <2>5, <2>6, <2>7, <2>8, <2>9, <2>10, <2>11 DEF ThreadPool
<1>3. CASE WorkerLoop(t)
  <2>1. CASE TransitionToRunning(t)
    BY <2>1 DEF TransitionToRunning
  <2>2. CASE PollFuture(t)
    BY <2>2 DEF PollFuture, Found, AfterPoll
  <2>3. CASE FutureReady(t)
    BY <2>3 DEF FutureReady, Found
  <2>4. CASE FuturePending(t)
    BY <2>4 DEF FuturePending, AfterPoll
  <2>5. CASE PollEvents(t)
    BY <2>5 DEF PollEvents, PopAndInject, Found
  <2>6. CASE Consume(t)
    <3>1. PICK batch : runq' = [runq EXCEPT ![worker[t]] = @ \cup batch]
      BY <2>6 DEF Consume
    <3>2. /\ pc[t] \in {"work", "search"} /\ pc'[t] \in {"task", "discover"}
          /\ UNCHANGED <<cont, worker>> /\ \A x \in Threads \ {t} : pc'[x] = pc[x]
      BY <2>6 DEF Consume, StealBatch, Found
    <3>3. \A w \in Workers \ {worker[t]} : runq'[w] = runq[w] BY <3>1
    <3>q. QED BY <3>2, <3>3
  <2>7. ASSUME NEW v \in Workers, StealFrom(t, v) PROVE Drains(t)
    <3>1. PICK k \in runq[v], batch \in SUBSET runq[v] :
            runq' = [runq EXCEPT ![v] = @ \ (batch \cup {k}), ![worker[t]] = @ \cup batch]
      BY <2>7 DEF StealFrom
    <3>2. /\ pc[t] = "search" /\ pc'[t] \in {"task", "discover"}
          /\ UNCHANGED <<cont, worker>> /\ \A x \in Threads \ {t} : pc'[x] = pc[x]
      BY <2>7 DEF StealFrom, StealBatch, Found
    <3>3. \A w \in Workers \ {worker[t]} : runq'[w] \subseteq runq[w] BY <3>1
    <3>q. QED BY <3>2, <3>3
  <2>8. CASE PopLocal(t)
    BY <2>8 DEF PopLocal, Found
  <2>9. CASE SearchMiss(t)
    BY <2>9 DEF SearchMiss
  <2>10. CASE Release(t)
    BY <2>10 DEF Release
  <2>11. CASE GoIdle(t)
    BY <2>11 DEF GoIdle
  <2>12. CASE TaskSuspend(t)
    BY <2>12 DEF TaskSuspend
  <2>13. CASE TaskYield(t)
    BY <2>13 DEF TaskYield
  <2>14. CASE Finish(t)
    BY <2>14 DEF Finish
  <2>15. CASE Exit(t)
    BY <2>15 DEF Exit
  <2>16. CASE Woken(t)
    BY <2>16 DEF Woken
  <2>17. CASE PopInject(t)
    BY <2>17 DEF PopInject, PopAndInject
  <2>18. CASE Inject(t)
    BY <2>18 DEF Inject
  <2>q. QED BY <1>3, <2>1, <2>2, <2>3, <2>4, <2>5, <2>6, <2>7, <2>8, <2>9, <2>10,
        <2>11, <2>12, <2>13, <2>14, <2>15, <2>16, <2>17, <2>18 DEF WorkerLoop
<1>4. CASE Environment(t)
  <2>1. CASE BlockOn(t)
    BY <2>1 DEF BlockOn
  <2>2. CASE Schedule(t)
    BY <2>2 DEF Schedule, InBody
  <2>3. ASSUME NEW u \in Users, WakeFuture(t, u) PROVE Drains(t)
    <3>1. /\ UNCHANGED <<worker, runq>>
          /\ \A x \in Threads \ {t} : pc'[x] = pc[x] /\ cont'[x] = cont[x]
      BY <2>3 DEF WakeFuture
    <3>2. CASE UNCHANGED <<pc, cont>> BY <3>1, <3>2
    <3>3. CASE pc'[t] = "unpark_none" /\ cont'[t] = pc[t]
      <4>1. Where(t)' = pc[t] /\ Where(t) = pc[t]
        BY <2>3, <3>3 DEF WakeFuture, CanWake, InBody
      <4>q. QED BY <3>1, <3>3, <4>1
    <3>q. QED BY <2>3, <3>2, <3>3 DEF WakeFuture
  <2>4. CASE WaitTimeout(t)
    BY <2>4 DEF WaitTimeout
  <2>5. CASE SelectReturn(t)
    BY <2>5 DEF SelectReturn
  <2>q. QED BY <1>4, <2>1, <2>2, <2>3, <2>4, <2>5 DEF Environment
<1>q. QED BY <1>1, <1>2, <1>3, <1>4

(* A step of one thread fills the queue of no other thread's worker, since *)
(* no two threads have the same worker.                                    *)
LEMMA DrainedStep ==
  ASSUME Typing, LocalInv, Drained, [Next]_vars,
         \A t, u \in Threads : worker[t] = worker[u] /\ worker[t] # NoWorker => t = u
  PROVE Drained'
<1>1. ASSUME NEW t \in Threads,
             Executor(t) \/ ThreadPool(t) \/ WorkerLoop(t) \/ Environment(t)
      PROVE Drained'
  <2>1. Drains(t) BY <1>1, StepDrains
  <2>2. ASSUME NEW x \in Threads, x # t PROVE DrainOf(x)'
    <3>1. CASE pc'[x] = "attach" BY <3>1 DEF DrainOf, Where, CallPcs
    <3>2. CASE pc'[x] = pc[x]
      <4>1. UNCHANGED <<pc[x], cont[x], worker[x]>> BY <2>1, <2>2, <3>2 DEF Drains
      <4>2. ASSUME Where(x) \in Attached PROVE runq'[worker[x]] \subseteq runq[worker[x]]
        <5>1. worker[x] \in Workers BY <4>2 DEF LocalInv, LocalOf
        <5>2. worker[x] # worker[t] BY <2>2, <5>1, NoWorkerIsNoWorker
        <5>q. QED BY <2>1, <5>1, <5>2 DEF Drains
      <4>3. pc[x] = "release" => Where(x) \in Attached BY DEF Where, CallPcs, Attached
      <4>4. Where(x) \in {"search", "search_add"} => Where(x) \in Attached BY DEF Attached
      <4>q. QED BY <4>1, <4>2, <4>3, <4>4 DEF DrainOf, Drained, Where
    <3>q. QED BY <2>1, <2>2, <3>1, <3>2 DEF Drains
  <2>q. QED BY <2>1, <2>2 DEF Drains, Drained
<1>2. CASE UNCHANGED vars
  BY <1>2 DEF vars, queueVars, localVars, Drained, DrainOf, Where
<1>q. QED BY <1>1, <1>2 DEF Next

(* In every reachable state a thread that searches has an empty queue. *)
LEMMA DrainedInvariant == Spec => []Drained
<1>1. Init => Drained
  BY DEF Init, Drained, DrainOf, Where, CallPcs
<1> DEFINE Exclusive ==
      \A t, u \in Threads : worker[t] = worker[u] /\ worker[t] # NoWorker => t = u
<1>2. Typing /\ LocalInv /\ Exclusive /\ Drained /\ [Next]_vars => Drained'
  BY DrainedStep
<1>3. Spec => []Exclusive BY WorkersAreExclusive
<1> HIDE DEF Exclusive
<1>q. QED BY <1>1, <1>2, <1>3, LocalInvariant, PTL DEF Spec

(* transition_to_idle leaves runnables in the queue of its worker only at  *)
(* the end of block_on: a thread that goes on to wait has run everything   *)
(* in its queue, what it stole in batches included, and no other thread    *)
(* pushed to the queue meanwhile.                                          *)
THEOREM LeftByReturnOnly == Spec => LeftOnlyByReturn
<1>1. ASSUME Typing, LocalInv, Drained, [Next]_vars
      PROVE [\A t \in Threads, w \in Workers :
               worker[t] = w /\ worker'[t] # w /\ runq[w] # {} => cont[t] = "exit"]_vars
  <2> SUFFICES ASSUME NEW t \in Threads, NEW w \in Workers, UNCHANGED vars \/ Next,
                      worker[t] = w, worker'[t] # w, runq[w] # {}
               PROVE cont[t] = "exit"
    BY <1>1
  <2>1. ~UNCHANGED vars BY DEF vars, localVars
  <2>2. PICK x \in Threads : Executor(x) \/ ThreadPool(x) \/ WorkerLoop(x) \/ Environment(x)
    BY <2>1 DEF Next
  <2>3. Drains(x) BY <1>1, <2>2, StepDrains
  <2>4. x = t /\ pc[t] \in {"release", "attach"} BY <2>3 DEF Drains
  <2>5. pc[t] # "attach"
    BY <1>1, NoWorkerIsNoWorker DEF LocalInv, LocalOf, Where, CallPcs, Detached, Claiming
  <2>6. DrainOf(t) BY <1>1 DEF Drained
  <2>q. QED BY <2>4, <2>5, <2>6 DEF DrainOf
<1>q. QED BY <1>1, LocalInvariant, DrainedInvariant, PTL DEF Spec, LeftOnlyByReturn
-----------------------------------------------------------------------------
(* A thread that is attached to a worker and has taken up a runnable. *)
Runner(t) == worker[t] # NoWorker /\ held[t] # NoTask

(* A runnable that waits for its run. *)
QueuedAt(k) ==
  \/ k \in injector
  \/ \E w \in Workers : k \in runq[w]
  \/ \E t \in Threads : k \in ready[t]
  \/ \E t \in Threads : held[t] = k /\ worker[t] = NoWorker

(* No two threads are attached to the same worker. *)
Exclusive == \A t, u \in Threads : worker[t] = worker[u] /\ worker[t] # NoWorker => t = u

(* Membership in the set of what some threads hold. *)
LEMMA InImage ==
  ASSUME NEW f, NEW S, NEW k
  PROVE k \in {f[t] : t \in S} <=> \E t \in S : f[t] = k
OBVIOUS

(* Queued are the tasks that wait, now and after a step. *)
LEMMA QueuedMeans ==
  ASSUME NEW k \in Tasks
  PROVE (k \in Queued <=> QueuedAt(k)) /\ (k \in Queued' <=> QueuedAt(k)')
<1> DEFINE Q == UNION {runq[w] : w \in Workers}
           R == UNION {ready[t] : t \in Threads}
           H == {held[t] : t \in {u \in Threads : worker[u] = NoWorker}}
<1>1. k # NoTask BY SchedulerAssumption
<1>2. /\ k \in Queued <=> (k \in injector \/ k \in Q \/ k \in R \/ k \in H)
      /\ k \in Queued' <=> (k \in injector' \/ k \in Q' \/ k \in R' \/ k \in H')
  BY <1>1 DEF Queued
<1>3. /\ k \in Q <=> \E w \in Workers : k \in runq[w]
      /\ k \in Q' <=> \E w \in Workers : k \in runq'[w]
  BY InUnion
<1>4. /\ k \in R <=> \E t \in Threads : k \in ready[t]
      /\ k \in R' <=> \E t \in Threads : k \in ready'[t]
  BY InUnion
<1>5. /\ k \in H <=> \E t \in Threads : held[t] = k /\ worker[t] = NoWorker
      /\ k \in H' <=> \E t \in Threads : held'[t] = k /\ worker'[t] = NoWorker
  OBVIOUS
<1> HIDE DEF Q, R, H
<1>6. k \in Queued <=> QueuedAt(k) BY <1>2, <1>3, <1>4, <1>5 DEF QueuedAt
<1>7. k \in Queued' <=> QueuedAt(k)' BY <1>2, <1>3, <1>4, <1>5 DEF QueuedAt
<1>q. QED BY <1>6, <1>7

(* Only tasks are queued. *)
LEMMA QueuedTasks ==
  ASSUME Typing, Typing' PROVE Queued \subseteq Tasks /\ Queued' \subseteq Tasks
<1>1. Queued \subseteq Tasks BY DEF Queued, Typing, TaskTyping
<1>2. Queued' \subseteq Tasks BY DEF Queued, Typing, TaskTyping
<1>q. QED BY <1>1, <1>2

(* What runs, by the thread that runs it. *)
LEMMA RunningMeans ==
  /\ \A r : r \in Dispatched <=>
        \E t \in Threads : Runner(t) /\ r = <<worker[t], held[t]>>
  /\ \A r : r \in Dispatched' <=>
        \E t \in Threads : Runner(t)' /\ r = <<worker'[t], held'[t]>>
<1>1. \A r : r \in Dispatched <=>
        \E t \in Threads : Runner(t) /\ r = <<worker[t], held[t]>>
  BY DEF Dispatched, Runner
<1>2. \A r : r \in Dispatched' <=>
        \E t \in Threads : Runner(t)' /\ r = <<worker'[t], held'[t]>>
  BY DEF Dispatched, Runner
<1>q. QED BY <1>1, <1>2

(* A step of a thread that takes up and ends no runnable. *)
LEMMA RunStill ==
  ASSUME NEW t \in Threads,
         \A x \in Threads \ {t} : worker'[x] = worker[x] /\ held'[x] = held[x],
         ~Runner(t), ~Runner(t)'
  PROVE Dispatched' = Dispatched
<1>1. \A x \in Threads : Runner(x)' <=> Runner(x)
  BY DEF Runner
<1>2. \A x \in Threads : Runner(x) => worker'[x] = worker[x] /\ held'[x] = held[x]
  OBVIOUS
<1> HIDE DEF Runner
<1>q. QED BY <1>1, <1>2, RunningMeans

(* A step in which a thread takes up a runnable for a worker that was free. *)
LEMMA RunStart ==
  ASSUME NEW t \in Threads, Exclusive',
         \A x \in Threads \ {t} : worker'[x] = worker[x] /\ held'[x] = held[x],
         ~Runner(t), Runner(t)'
  PROVE /\ Dispatched' = Dispatched \cup {<<worker'[t], held'[t]>>}
        /\ \A run \in Dispatched : run[1] # worker'[t]
<1>1. \A x \in Threads : Runner(x)' <=> Runner(x) \/ x = t
  BY DEF Runner
<1>2. \A x \in Threads : Runner(x) => worker'[x] = worker[x] /\ held'[x] = held[x]
  OBVIOUS
<1>3. \A x \in Threads : Runner(x) => worker[x] # worker'[t]
  BY <1>2 DEF Exclusive, Runner
<1> HIDE DEF Runner
<1>4. Dispatched' = Dispatched \cup {<<worker'[t], held'[t]>>}
  BY <1>1, <1>2, RunningMeans
<1>5. \A run \in Dispatched : run[1] # worker'[t]
  BY <1>3, RunningMeans
<1>q. QED BY <1>4, <1>5

(* A step in which a thread is done with its runnable. *)
LEMMA RunEnd ==
  ASSUME NEW t \in Threads, Exclusive,
         \A x \in Threads \ {t} : worker'[x] = worker[x] /\ held'[x] = held[x],
         Runner(t), ~Runner(t)'
  PROVE /\ <<worker[t], held[t]>> \in Dispatched
        /\ Dispatched' = Dispatched \ {<<worker[t], held[t]>>}
<1>1. \A x \in Threads : Runner(x)' <=> Runner(x) /\ x # t
  BY DEF Runner
<1>2. \A x \in Threads : x # t => worker'[x] = worker[x] /\ held'[x] = held[x]
  OBVIOUS
<1>3. \A x \in Threads : Runner(x) /\ x # t => worker[x] # worker[t]
  BY DEF Exclusive, Runner
<1> HIDE DEF Runner
<1>4. <<worker[t], held[t]>> \in Dispatched
  BY RunningMeans
<1>5. Dispatched' = Dispatched \ {<<worker[t], held[t]>>}
  <2>1. \A r : r \in Dispatched' <=> \E x \in Threads : Runner(x) /\ x # t /\ r = <<worker[x], held[x]>>
    BY <1>1, <1>2, RunningMeans
  <2>2. \A r : r \in Dispatched <=> \E x \in Threads : Runner(x) /\ r = <<worker[x], held[x]>>
    BY RunningMeans
  <2>3. \A x \in Threads : Runner(x) /\ x # t => <<worker[x], held[x]>> # <<worker[t], held[t]>>
    BY <1>3
  <2>q. QED BY <2>1, <2>2, <2>3
<1>q. QED BY <1>4, <1>5

(* The tasks that the Dispatcher may be given are those that are away. *)
LEMMA IdleIsAway ==
  ASSUME Typing PROVE Abstract!Idle = Away
<1>1. ASSUME NEW k \in Tasks PROVE k \in Abstract!Idle <=> k \in Away
  <2>1. k \in {run[2] : run \in Dispatched} <=> \E t \in Threads : Runner(t) /\ held[t] = k
    <3>1. ASSUME NEW run \in Dispatched, run[2] = k
          PROVE \E t \in Threads : Runner(t) /\ held[t] = k
      <4>1. PICK t \in Threads : Runner(t) /\ run = <<worker[t], held[t]>>
        BY <3>1, RunningMeans
      <4>q. QED BY <3>1, <4>1
    <3>2. ASSUME NEW t \in Threads, Runner(t), held[t] = k
          PROVE \E run \in Dispatched : run[2] = k
      <4>1. <<worker[t], held[t]>> \in Dispatched BY <3>2, RunningMeans
      <4>q. QED BY <3>2, <4>1
    <3>q. QED BY <3>1, <3>2
  <2>2. k # NoTask BY SchedulerAssumption
  <2>3. k \in Abstract!Idle <=> ~QueuedAt(k) /\ ~(\E t \in Threads : Runner(t) /\ held[t] = k)
    BY <2>1, QueuedMeans DEF Abstract!Idle
  <2>4. Placed(k) <=> QueuedAt(k) \/ \E t \in Threads : Runner(t) /\ held[t] = k
    BY <2>2 DEF Placed, QueuedAt, Runner
  <2>q. QED BY <2>3, <2>4, AwayMeans
<1>2. Abstract!Idle \subseteq Tasks /\ Away \subseteq Tasks
  BY DEF Abstract!Idle, Away
<1>q. QED BY <1>1, <1>2

(* What a step of Scheduler is to the tasks. *)
Refines == Abstract!Next \/ UNCHANGED Abstract!dispatchVars

(* Two sets of tasks that have the same elements. *)
LEMMA SameTasks ==
  ASSUME NEW S, NEW R, S \subseteq Tasks, R \subseteq Tasks,
         \A k \in Tasks : k \in S <=> k \in R
  PROVE S = R
OBVIOUS

(* A step in which tasks that were away become queued, or none. *)
LEMMA SubmitStep ==
  ASSUME Typing, Typing', NEW list, list \subseteq Away, Dispatched' = Dispatched,
         \A k \in Tasks : QueuedAt(k)' <=> QueuedAt(k) \/ k \in list
  PROVE Refines
<1>1. Queued' = Queued \cup list
  <2>1. Queued' \subseteq Tasks /\ Queued \cup list \subseteq Tasks
    BY QueuedTasks DEF Away
  <2>2. \A k \in Tasks : k \in Queued' <=> k \in Queued \cup list
    BY QueuedMeans
  <2>q. QED BY <2>1, <2>2, SameTasks
<1>2. Abstract!Submit BY <1>1, IdleIsAway DEF Abstract!Submit
<1>q. QED BY <1>2 DEF Refines, Abstract!Next

(* A step in which the thread of a worker takes up a runnable. *)
LEMMA TakeStep ==
  ASSUME Typing, Typing', Exclusive', NEW t \in Threads, NEW j \in Tasks, NEW list,
         list \subseteq Away,
         \A x \in Threads \ {t} : worker'[x] = worker[x] /\ held'[x] = held[x],
         ~Runner(t), worker'[t] \in Workers, held'[t] = j,
         QueuedAt(j) \/ j \in list,
         \A k \in Tasks : QueuedAt(k)' <=> (QueuedAt(k) \/ k \in list) /\ k # j
  PROVE Refines
<1>1. Queued' = (Queued \cup list) \ {j}
  <2>1. Queued' \subseteq Tasks /\ (Queued \cup list) \ {j} \subseteq Tasks
    BY QueuedTasks DEF Away
  <2>2. \A k \in Tasks : k \in Queued' <=> k \in (Queued \cup list) \ {j}
    BY QueuedMeans
  <2>q. QED BY <2>1, <2>2, SameTasks
<1>2. Runner(t)' BY NoWorkerIsNoWorker, SchedulerAssumption DEF Runner
<1>3. /\ Dispatched' = Dispatched \cup {<<worker'[t], j>>}
      /\ \A run \in Dispatched : run[1] # worker'[t]
  BY <1>2, RunStart
<1>4. j \in Queued \cup list BY QueuedMeans
<1>5. list \in SUBSET Abstract!Idle BY IdleIsAway
<1>6. Abstract!Take(worker'[t], j) BY <1>1, <1>3, <1>4, <1>5 DEF Abstract!Take, Abstract!Free
<1>q. QED BY <1>6 DEF Refines, Abstract!Next

(* Steps that move no runnable and attach no worker. *)
LEMMA RefineUnmoved ==
  ASSUME Typing, Typing', UNCHANGED <<injector, runq, held, ready, worker>> PROVE Refines
<1>1. Queued' = Queued /\ Dispatched' = Dispatched BY DEF Queued, Dispatched
<1>q. QED BY <1>1 DEF Refines, Abstract!dispatchVars

(* Executor::schedule submits one task. *)
LEMMA RefineSchedule ==
  ASSUME Typing, Typing', NEW t \in Threads, Schedule(t) PROVE Refines
<1>1. PICK j \in Away :
        IF worker[t] # NoWorker
        THEN runq' = [runq EXCEPT ![worker[t]] = @ \cup {j}] /\ UNCHANGED injector
        ELSE injector' = injector \cup {j} /\ UNCHANGED runq
  BY DEF Schedule
<1>2. UNCHANGED <<held, ready, worker>> BY DEF Schedule, localVars
<1>3. Dispatched' = Dispatched BY <1>2 DEF Dispatched
<1>4. runq \in [Workers -> SUBSET Tasks] /\ worker[t] \in Slot
  BY DEF Typing, TaskTyping, IndexTyping
<1>5. \A k \in Tasks : QueuedAt(k)' <=> QueuedAt(k) \/ k \in {j}
  <2>1. CASE worker[t] # NoWorker
    <3>1. /\ worker[t] \in Workers /\ UNCHANGED injector
          /\ \A w \in Workers : runq'[w] = IF w = worker[t] THEN runq[w] \cup {j} ELSE runq[w]
      BY <1>1, <1>4, <2>1 DEF Slot
    <3>q. QED BY <1>2, <3>1 DEF QueuedAt
  <2>2. CASE worker[t] = NoWorker BY <1>1, <1>2, <2>2 DEF QueuedAt
  <2>q. QED BY <2>1, <2>2
<1>6. {j} \subseteq Away BY <1>1
<1>q. QED BY <1>3, <1>5, <1>6, SubmitStep

(* The events that end a wait submit the tasks they woke. *)
LEMMA RefineEvents ==
  ASSUME Typing, Typing', NEW t \in Threads, NEW list, list \subseteq Away, ready[t] = {},
         ready' = [ready EXCEPT ![t] = list], UNCHANGED <<held, injector, runq, worker>>
  PROVE Refines
<1>1. \A x \in Threads : ready'[x] = IF x = t THEN list ELSE ready[x]
  BY DEF Typing, TaskTyping
<1>2. Dispatched' = Dispatched BY DEF Dispatched
<1>3. \A k \in Tasks : QueuedAt(k)' <=> QueuedAt(k) \/ k \in list BY <1>1 DEF QueuedAt
<1>q. QED BY <1>2, <1>3, SubmitStep

(* A worker that polls timers or the network takes up one of the tasks     *)
(* that this woke.                                                         *)
LEMMA RefinePollEvents ==
  ASSUME Typing, Typing', LocalInv, KeepInv, Exclusive', NEW t \in Threads, PollEvents(t)
  PROVE Refines
<1>1. PICK list \in SUBSET Away : PopAndInject(t, list, Found(t, "task"))
  BY DEF PollEvents
<1>2. PICK j \in list : held' = [held EXCEPT ![t] = j] /\ injector' = injector \cup (list \ {j})
  BY <1>1 DEF PopAndInject
<1>3. held[t] = NoTask /\ UNCHANGED <<ready, runq, worker>> /\ worker[t] \in Workers
  BY AttachedHasWorker DEF PollEvents, KeepInv, KeepOf, Where, CallPcs, Attached
<1>4. \A x \in Threads : held'[x] = IF x = t THEN j ELSE held[x]
  BY <1>2 DEF Typing, TaskTyping
<1>5. j \in Tasks /\ ~Placed(j) BY AwayMeans DEF Away
<1>6. ~Runner(t) BY <1>3 DEF Runner
<1>7. ASSUME NEW k \in Tasks
      PROVE QueuedAt(k)' <=> (QueuedAt(k) \/ k \in list) /\ k # j
  <2>1. ~QueuedAt(j) BY <1>5 DEF Placed, QueuedAt
  <2>2. NoTask # k /\ worker[t] # NoWorker BY <1>3, SchedulerAssumption, NoWorkerIsNoWorker
  <2>3. \A x \in Threads : held'[x] = k /\ worker'[x] = NoWorker <=>
                            held[x] = k /\ worker[x] = NoWorker
    BY <1>3, <1>4, <2>2
  <2>q. QED BY <1>2, <1>3, <2>1, <2>3 DEF QueuedAt
<1>q. QED BY <1>3, <1>4, <1>5, <1>6, <1>7, TakeStep

(* A worker that takes up a runnable of a queue. *)
LEMMA TakeQueued ==
  ASSUME Typing, Typing', Exclusive', NEW t \in Threads, NEW j \in Tasks,
         held[t] = NoTask, worker[t] \in Workers, UNCHANGED worker,
         \A x \in Threads : held'[x] = IF x = t THEN j ELSE held[x],
         QueuedAt(j), OnceOf(j)',
         \A k \in Tasks \ {j} : QueuedAt(k)' <=> QueuedAt(k)
  PROVE Refines
<1>1. ~Runner(t) BY DEF Runner
<1>2. ~QueuedAt(j)'
  <2>1. held'[t] = j /\ worker'[t] # NoWorker BY NoWorkerIsNoWorker
  <2>2. \A x \in Threads : held'[x] = j => x = t BY <2>1 DEF OnceOf
  <2>q. QED BY <2>1, <2>2 DEF OnceOf, QueuedAt
<1> DEFINE none == {}
<1>3. none \subseteq Away /\ \A k \in Tasks : k \notin none OBVIOUS
<1> HIDE DEF none
<1>4. \A k \in Tasks : QueuedAt(k)' <=> (QueuedAt(k) \/ k \in none) /\ k # j BY <1>2, <1>3
<1>5. /\ \A x \in Threads \ {t} : worker'[x] = worker[x] /\ held'[x] = held[x]
      /\ worker'[t] \in Workers /\ held'[t] = j
  OBVIOUS
<1>q. QED BY <1>1, <1>3, <1>4, <1>5, TakeStep

(* Producer::consume takes up a runnable of the injector. *)
LEMMA RefineConsume ==
  ASSUME Typing, Typing', LocalInv, KeepInv, OnceInv', Exclusive', NEW t \in Threads, Consume(t)
  PROVE Refines
<1>1. PICK j \in injector, batch \in SUBSET injector :
        /\ batch \subseteq injector \ {j}
        /\ held' = [held EXCEPT ![t] = j]
        /\ injector' = injector \ (batch \cup {j})
        /\ runq' = [runq EXCEPT ![worker[t]] = @ \cup batch]
  BY DEF Consume, StealBatch
<1>2. held[t] = NoTask /\ UNCHANGED <<ready, worker>> /\ worker[t] \in Workers
  BY AttachedHasWorker DEF Consume, KeepInv, KeepOf, Where, CallPcs, Attached
<1>3. \A x \in Threads : held'[x] = IF x = t THEN j ELSE held[x]
  BY <1>1 DEF Typing, TaskTyping
<1>4. \A w \in Workers : runq'[w] = IF w = worker[t] THEN runq[w] \cup batch ELSE runq[w]
  BY <1>1 DEF Typing, TaskTyping
<1>5. j \in Tasks /\ QueuedAt(j) BY DEF Typing, TaskTyping, QueuedAt
<1>6. ASSUME NEW k \in Tasks \ {j} PROVE QueuedAt(k)' <=> QueuedAt(k)
  <2>1. \A x \in Threads : held'[x] = k /\ worker'[x] = NoWorker <=>
                            held[x] = k /\ worker[x] = NoWorker
    BY <1>2, <1>3, SchedulerAssumption
  <2>2. (k \in injector' \/ \E w \in Workers : k \in runq'[w])
          <=> (k \in injector \/ \E w \in Workers : k \in runq[w])
    BY <1>1, <1>2, <1>4
  <2>q. QED BY <1>2, <2>1, <2>2 DEF QueuedAt
<1>q. QED BY <1>2, <1>3, <1>5, <1>6, TakeQueued DEF OnceInv

(* Producer::steal takes up a runnable of another worker's queue. *)
LEMMA RefineSteal ==
  ASSUME Typing, Typing', LocalInv, KeepInv, OnceInv', Exclusive', NEW t \in Threads,
         NEW v \in Workers, StealFrom(t, v)
  PROVE Refines
<1>1. PICK j \in runq[v], batch \in SUBSET runq[v] :
        /\ batch \subseteq runq[v] \ {j}
        /\ held' = [held EXCEPT ![t] = j]
        /\ runq' = [runq EXCEPT ![v] = @ \ (batch \cup {j}), ![worker[t]] = @ \cup batch]
  BY DEF StealFrom, StealBatch
<1>2. /\ held[t] = NoTask /\ UNCHANGED <<ready, injector, worker>>
      /\ worker[t] \in Workers /\ worker[t] # v
  BY AttachedHasWorker DEF StealFrom, KeepInv, KeepOf, Where, CallPcs, Attached
<1>3. \A x \in Threads : held'[x] = IF x = t THEN j ELSE held[x]
  BY <1>1 DEF Typing, TaskTyping
<1>4. \A w \in Workers : runq'[w] = IF w = worker[t] THEN runq[w] \cup batch
                                    ELSE IF w = v THEN runq[w] \ (batch \cup {j})
                                    ELSE runq[w]
  BY <1>1, <1>2 DEF Typing, TaskTyping
<1>5. j \in Tasks /\ QueuedAt(j) BY DEF Typing, TaskTyping, QueuedAt
<1>6. ASSUME NEW k \in Tasks \ {j} PROVE QueuedAt(k)' <=> QueuedAt(k)
  <2>1. \A x \in Threads : held'[x] = k /\ worker'[x] = NoWorker <=>
                            held[x] = k /\ worker[x] = NoWorker
    BY <1>2, <1>3, SchedulerAssumption
  <2>2. ASSUME NEW w \in Workers, k \in runq[w] PROVE \E y \in Workers : k \in runq'[y]
    <3>1. CASE w = v /\ k \in batch BY <1>2, <1>4, <3>1
    <3>2. CASE ~(w = v /\ k \in batch)
      <4>1. k \in runq'[w] BY <1>4, <2>2, <3>2
      <4>q. QED BY <4>1
    <3>q. QED BY <3>1, <3>2
  <2>3. ASSUME NEW w \in Workers, k \in runq'[w] PROVE \E y \in Workers : k \in runq[y]
    <3>1. k \in batch => k \in runq[v] OBVIOUS
    <3>2. CASE w = worker[t] BY <1>4, <2>3, <3>1, <3>2
    <3>3. CASE w # worker[t] BY <1>4, <2>3, <3>3
    <3>q. QED BY <3>2, <3>3
  <2>q. QED BY <1>2, <2>1, <2>2, <2>3 DEF QueuedAt
<1>q. QED BY <1>2, <1>3, <1>5, <1>6, TakeQueued DEF OnceInv

(* Producer::pop takes up a runnable of the own queue. *)
LEMMA RefinePop ==
  ASSUME Typing, Typing', LocalInv, KeepInv, OnceInv', Exclusive', NEW t \in Threads, PopLocal(t)
  PROVE Refines
<1>1. PICK j \in runq[worker[t]] :
        /\ held' = [held EXCEPT ![t] = j]
        /\ runq' = [runq EXCEPT ![worker[t]] = @ \ {j}]
  BY DEF PopLocal
<1>2. held[t] = NoTask /\ UNCHANGED <<ready, injector, worker>> /\ worker[t] \in Workers
  BY AttachedHasWorker DEF PopLocal, KeepInv, KeepOf, Where, CallPcs, Attached
<1>3. \A x \in Threads : held'[x] = IF x = t THEN j ELSE held[x]
  BY <1>1 DEF Typing, TaskTyping
<1>4. \A w \in Workers : runq'[w] = IF w = worker[t] THEN runq[w] \ {j} ELSE runq[w]
  BY <1>1 DEF Typing, TaskTyping
<1>5. j \in Tasks /\ QueuedAt(j) BY <1>2 DEF Typing, TaskTyping, QueuedAt
<1>6. ASSUME NEW k \in Tasks \ {j} PROVE QueuedAt(k)' <=> QueuedAt(k)
  <2>1. \A x \in Threads : held'[x] = k /\ worker'[x] = NoWorker <=>
                            held[x] = k /\ worker[x] = NoWorker
    BY <1>2, <1>3, SchedulerAssumption
  <2>2. \A w \in Workers : k \in runq'[w] <=> k \in runq[w] BY <1>4
  <2>q. QED BY <1>2, <2>1, <2>2 DEF QueuedAt
<1>q. QED BY <1>2, <1>3, <1>5, <1>6, TakeQueued DEF OnceInv

(* Task::run ends with the task suspended or complete. *)
LEMMA RefineSuspend ==
  ASSUME Typing, Typing', LocalInv, KeepInv, Exclusive, NEW t \in Threads, TaskSuspend(t)
  PROVE Refines
<1>1. /\ worker[t] \in Workers /\ UNCHANGED <<ready, injector, runq, worker>>
      /\ held' = [held EXCEPT ![t] = NoTask] /\ held[t] \in Tasks
  BY TaskHasRunnable DEF TaskSuspend, KeepInv, KeepOf, Where, CallPcs, queueVars, Typing,
     TaskTyping
<1>2. \A x \in Threads : held'[x] = IF x = t THEN NoTask ELSE held[x]
  BY <1>1 DEF Typing, TaskTyping
<1>3. Runner(t) /\ ~Runner(t)'
  BY <1>1, <1>2, NoWorkerIsNoWorker, SchedulerAssumption DEF Runner
<1>4. /\ <<worker[t], held[t]>> \in Dispatched
      /\ Dispatched' = Dispatched \ {<<worker[t], held[t]>>}
  BY <1>1, <1>2, <1>3, RunEnd
<1>5. Queued' = Queued
  <2>1. ASSUME NEW k \in Tasks PROVE QueuedAt(k)' <=> QueuedAt(k)
    <3>1. \A x \in Threads : held'[x] = k /\ worker'[x] = NoWorker <=>
                              held[x] = k /\ worker[x] = NoWorker
      BY <1>1, <1>2, SchedulerAssumption, NoWorkerIsNoWorker
    <3>q. QED BY <1>1, <3>1 DEF QueuedAt
  <2>q. QED BY <2>1, QueuedMeans, QueuedTasks, SameTasks
<1>6. Abstract!Suspend(worker[t], held[t]) BY <1>4, <1>5 DEF Abstract!Suspend
<1>q. QED BY <1>1, <1>6 DEF Refines, Abstract!Next

(* Task::run ends with a task that was woken, which is pushed again. *)
LEMMA RefineYield ==
  ASSUME Typing, Typing', LocalInv, KeepInv, Exclusive, NEW t \in Threads, TaskYield(t)
  PROVE Refines
<1>1. /\ worker[t] \in Workers /\ UNCHANGED <<ready, injector, worker>>
      /\ held' = [held EXCEPT ![t] = NoTask] /\ held[t] \in Tasks
      /\ runq' = [runq EXCEPT ![worker[t]] = @ \cup {held[t]}]
  BY TaskHasRunnable DEF TaskYield, KeepInv, KeepOf, Where, CallPcs, Typing, TaskTyping
<1>2. \A x \in Threads : held'[x] = IF x = t THEN NoTask ELSE held[x]
  BY <1>1 DEF Typing, TaskTyping
<1>3. \A w \in Workers : runq'[w] = IF w = worker[t] THEN runq[w] \cup {held[t]} ELSE runq[w]
  BY <1>1 DEF Typing, TaskTyping
<1>4. Runner(t) /\ ~Runner(t)'
  BY <1>1, <1>2, NoWorkerIsNoWorker, SchedulerAssumption DEF Runner
<1>5. /\ <<worker[t], held[t]>> \in Dispatched
      /\ Dispatched' = Dispatched \ {<<worker[t], held[t]>>}
  BY <1>1, <1>2, <1>4, RunEnd
<1>6. Queued' = Queued \cup {held[t]}
  <2>1. ASSUME NEW k \in Tasks PROVE QueuedAt(k)' <=> QueuedAt(k) \/ k = held[t]
    <3>1. \A x \in Threads : held'[x] = k /\ worker'[x] = NoWorker <=>
                              held[x] = k /\ worker[x] = NoWorker
      BY <1>1, <1>2, SchedulerAssumption, NoWorkerIsNoWorker
    <3>2. (\E w \in Workers : k \in runq'[w])
            <=> (\E w \in Workers : k \in runq[w]) \/ k = held[t]
      BY <1>1, <1>3
    <3>q. QED BY <1>1, <3>1, <3>2 DEF QueuedAt
  <2>2. Queued' \subseteq Tasks /\ Queued \cup {held[t]} \subseteq Tasks
    BY <1>1, QueuedTasks
  <2>3. \A k \in Tasks : k \in Queued' <=> k \in Queued \cup {held[t]}
    BY <2>1, QueuedMeans
  <2>q. QED BY <2>2, <2>3, SameTasks
<1>7. Abstract!Yield(worker[t], held[t]) BY <1>5, <1>6 DEF Abstract!Yield
<1>q. QED BY <1>1, <1>7 DEF Refines, Abstract!Next

(* A step that leaves the waiting and the running tasks as they are. *)
LEMMA RefineStill ==
  ASSUME Typing, Typing', Dispatched' = Dispatched,
         \A k \in Tasks : QueuedAt(k)' <=> QueuedAt(k)
  PROVE Refines
<1>1. Queued' = Queued BY QueuedMeans, QueuedTasks, SameTasks
<1>q. QED BY <1>1 DEF Refines, Abstract!dispatchVars

(* pop_and_inject of a thread that waited: the runnable it takes waits on  *)
(* until the thread is attached.                                           *)
LEMMA RefinePopInject ==
  ASSUME Typing, Typing', LocalInv, KeepInv, NEW t \in Threads, PopInject(t)
  PROVE Refines
<1>1. PICK j \in ready[t] : /\ held' = [held EXCEPT ![t] = j]
                            /\ injector' = injector \cup (ready[t] \ {j})
  BY DEF PopInject, PopAndInject
<1>2. /\ held[t] = NoTask /\ worker[t] = NoWorker
      /\ UNCHANGED <<runq, worker>> /\ ready' = [ready EXCEPT ![t] = {}]
  BY DEF PopInject, KeepInv, KeepOf, LocalInv, LocalOf, Detached, Claiming, Where, CallPcs
<1>3. \A x \in Threads : /\ held'[x] = IF x = t THEN j ELSE held[x]
                         /\ ready'[x] = IF x = t THEN {} ELSE ready[x]
  BY <1>1, <1>2 DEF Typing, TaskTyping
<1>4. Dispatched' = Dispatched
  <2>1. ~Runner(t) /\ ~Runner(t)' BY <1>2 DEF Runner
  <2>2. \A x \in Threads \ {t} : worker'[x] = worker[x] /\ held'[x] = held[x] BY <1>2, <1>3
  <2>q. QED BY <2>1, <2>2, RunStill
<1>5. ASSUME NEW k \in Tasks PROVE QueuedAt(k)' <=> QueuedAt(k)
  <2>1. k # NoTask BY SchedulerAssumption
  <2>2. ASSUME QueuedAt(k)' PROVE QueuedAt(k)
    BY <1>1, <1>2, <1>3, <2>2 DEF QueuedAt
  <2>3. ASSUME QueuedAt(k) PROVE QueuedAt(k)'
    BY <1>1, <1>2, <1>3, <2>1, <2>3 DEF QueuedAt
  <2>q. QED BY <2>2, <2>3
<1>q. QED BY <1>4, <1>5, RefineStill

(* A thread without a worker injects all its events brought. *)
LEMMA RefineInject ==
  ASSUME Typing, Typing', NEW t \in Threads, Inject(t) PROVE Refines
<1>1. /\ UNCHANGED <<held, runq, worker>> /\ ready' = [ready EXCEPT ![t] = {}]
      /\ injector' = injector \cup ready[t]
  BY DEF Inject
<1>2. \A x \in Threads : ready'[x] = IF x = t THEN {} ELSE ready[x]
  BY <1>1 DEF Typing, TaskTyping
<1>3. Dispatched' = Dispatched BY <1>1 DEF Dispatched
<1>4. \A k \in Tasks : QueuedAt(k)' <=> QueuedAt(k) BY <1>1, <1>2 DEF QueuedAt
<1>q. QED BY <1>3, <1>4, RefineStill

(* transition_to_running: the runnable that the thread brings along, if    *)
(* any, is taken up by the worker it is attached to.                       *)
LEMMA RefineAttach ==
  ASSUME Typing, Typing', LocalInv, OnceInv, Exclusive', NEW t \in Threads,
         TransitionToRunning(t)
  PROVE Refines
<1>1. /\ UNCHANGED <<held, ready, injector, runq>>
      /\ worker' = [worker EXCEPT ![t] = got[t]]
      /\ worker[t] = NoWorker /\ got[t] \in Workers
  BY DEF TransitionToRunning, queueVars, LocalInv, LocalOf, Detached, Claiming, Where, CallPcs
<1>2. \A x \in Threads : worker'[x] = IF x = t THEN got[t] ELSE worker[x]
  BY <1>1 DEF Typing, IndexTyping
<1>3. ~Runner(t) BY <1>1 DEF Runner
<1>4. \A x \in Threads \ {t} : worker'[x] = worker[x] /\ held'[x] = held[x] BY <1>1, <1>2
<1>5. CASE held[t] = NoTask
  <2>1. ~Runner(t)' BY <1>1, <1>5 DEF Runner
  <2>2. Dispatched' = Dispatched BY <1>3, <1>4, <2>1, RunStill
  <2>3. ASSUME NEW k \in Tasks PROVE QueuedAt(k)' <=> QueuedAt(k)
    <3>1. \A x \in Threads : held'[x] = k /\ worker'[x] = NoWorker <=>
                              held[x] = k /\ worker[x] = NoWorker
      BY <1>1, <1>2, <1>5, SchedulerAssumption
    <3>q. QED BY <1>1, <3>1 DEF QueuedAt
  <2>q. QED BY <2>2, <2>3, RefineStill
<1>6. CASE held[t] # NoTask
  <2>1. PICK j \in Tasks : j = held[t] BY <1>6 DEF Typing, TaskTyping
  <2> DEFINE none == {}
  <2>2. QueuedAt(j) BY <1>1, <2>1 DEF QueuedAt
  <2>3. none \subseteq Away /\ \A k \in Tasks : k \notin none OBVIOUS
  <2>4. ~QueuedAt(j)'
    <3>1. OnceOf(j) BY <2>1 DEF OnceInv
    <3>2. worker'[t] # NoWorker BY <1>1, <1>2, NoWorkerIsNoWorker
    <3>3. \A x \in Threads : held[x] = j => x = t BY <2>1, <3>1 DEF OnceOf
    <3>q. QED BY <1>1, <2>1, <3>1, <3>2, <3>3 DEF OnceOf, QueuedAt
  <2>5. ASSUME NEW k \in Tasks, k # j PROVE QueuedAt(k)' <=> QueuedAt(k)
    <3>1. \A x \in Threads : held'[x] = k /\ worker'[x] = NoWorker <=>
                              held[x] = k /\ worker[x] = NoWorker
      BY <1>1, <1>2, <2>1, <2>5
    <3>q. QED BY <1>1, <3>1 DEF QueuedAt
  <2>6. worker'[t] \in Workers /\ held'[t] = j BY <1>1, <1>2, <2>1
  <2> HIDE DEF none
  <2>7. \A k \in Tasks : QueuedAt(k)' <=> (QueuedAt(k) \/ k \in none) /\ k # j
    BY <2>3, <2>4, <2>5
  <2>q. QED BY <1>3, <1>4, <2>2, <2>3, <2>6, <2>7, TakeStep
<1>q. QED BY <1>5, <1>6

(* transition_to_idle: the thread holds no runnable. *)
LEMMA RefineRelease ==
  ASSUME Typing, Typing', KeepInv, NEW t \in Threads, Release(t) PROVE Refines
<1>1. /\ UNCHANGED <<held, ready, injector, runq>> /\ held[t] = NoTask
      /\ worker' = [worker EXCEPT ![t] = NoWorker]
  BY DEF Release, queueVars, KeepInv, KeepOf, Where, CallPcs
<1>2. \A x \in Threads : worker'[x] = IF x = t THEN NoWorker ELSE worker[x]
  BY <1>1 DEF Typing, IndexTyping
<1>3. Dispatched' = Dispatched
  <2>1. ~Runner(t) /\ ~Runner(t)' BY <1>1 DEF Runner
  <2>2. \A x \in Threads \ {t} : worker'[x] = worker[x] /\ held'[x] = held[x] BY <1>1, <1>2
  <2>q. QED BY <2>1, <2>2, RunStill
<1>4. ASSUME NEW k \in Tasks PROVE QueuedAt(k)' <=> QueuedAt(k)
  <2>1. \A x \in Threads : held'[x] = k /\ worker'[x] = NoWorker <=>
                            held[x] = k /\ worker[x] = NoWorker
    BY <1>1, <1>2, SchedulerAssumption
  <2>q. QED BY <1>1, <2>1 DEF QueuedAt
<1>q. QED BY <1>3, <1>4, RefineStill

(* The operations of Executor are invisible to the tasks. *)
LEMMA ExecutorRefines ==
  ASSUME Typing, Typing', NEW t \in Threads, Executor(t) PROVE Refines
<1>1. UNCHANGED <<injector, runq, held, ready>> BY ExecutorUnmoved
<1>2. UNCHANGED worker
  BY DEF Executor, localVars, SearchRetryPop, SearchRetryNone, SearchRetryAdd, NotifySkip,
     NotifyPending, NotifyCas, NotifyPop, NotifyGiveBack, NotifyDec, SearchBegin,
     SearchBeginAdd, SearchFailedDec, SearchFailedCheck, Discover
<1>q. QED BY <1>1, <1>2, RefineUnmoved

(* Those of ThreadPool submit the tasks that a wait in the selector woke. *)
LEMMA ThreadPoolRefines ==
  ASSUME Typing, Typing', KeepInv, NEW t \in Threads, ThreadPool(t) PROVE Refines
<1> USE DEF queueVars, localVars
<1>1. CASE SpawnIdle(t) BY <1>1, RefineUnmoved DEF SpawnIdle
<1>2. CASE SpawnReserve(t) BY <1>2, RefineUnmoved DEF SpawnReserve
<1>3. CASE SpawnThread(t) BY <1>3, RefineUnmoved DEF SpawnThread
<1>4. CASE SpawnError(t) BY <1>4, RefineUnmoved DEF SpawnError
<1>5. CASE UnparkSome(t) BY <1>5, RefineUnmoved DEF UnparkSome
<1>6. CASE UnparkNone(t) BY <1>6, RefineUnmoved DEF UnparkNone
<1>7. CASE WaitNotified(t)
  <2>1. ready[t] = {} BY <1>7 DEF WaitNotified, KeepInv, KeepOf, Where, CallPcs, Laden
  <2>2. ready' = [ready EXCEPT ![t] = {}] /\ UNCHANGED <<held, injector, runq, worker>>
    BY <1>7 DEF WaitNotified, PollUnparked
  <2>3. {} \subseteq Away OBVIOUS
  <2>q. QED BY <2>1, <2>2, <2>3, RefineEvents
<1>8. CASE WaitPush(t) BY <1>8, RefineUnmoved DEF WaitPush
<1>9. CASE Park(t) BY <1>9, RefineUnmoved DEF Park
<1>10. CASE ParkNotified(t)
  <2>1. ready[t] = {} BY <1>10 DEF ParkNotified, KeepInv, KeepOf, Where, CallPcs, Laden
  <2>2. PICK list \in Events(t) : ready' = [ready EXCEPT ![t] = list]
    BY <1>10 DEF ParkNotified, PollUnparked
  <2>3. UNCHANGED <<held, injector, runq, worker>> BY <1>10 DEF ParkNotified
  <2>4. list \subseteq Away BY DEF Events
  <2>q. QED BY <2>1, <2>2, <2>3, <2>4, RefineEvents
<1>11. CASE Unlist(t) BY <1>11, RefineUnmoved DEF Unlist
<1>q. QED BY <1>1, <1>2, <1>3, <1>4, <1>5, <1>6, <1>7, <1>8, <1>9, <1>10, <1>11
      DEF ThreadPool

(* The worker loop takes up runnables and ends their runs. *)
LEMMA WorkerLoopRefines ==
  ASSUME Typing, Typing', LocalInv, KeepInv, OnceInv, OnceInv', Exclusive, Exclusive',
         NEW t \in Threads, WorkerLoop(t)
  PROVE Refines
<1> USE DEF queueVars, localVars
<1>1. CASE TransitionToRunning(t) BY <1>1, RefineAttach
<1>2. CASE PollFuture(t) BY <1>2, RefineUnmoved DEF PollFuture
<1>3. CASE FutureReady(t) BY <1>3, RefineUnmoved DEF FutureReady
<1>4. CASE FuturePending(t) BY <1>4, RefineUnmoved DEF FuturePending
<1>5. CASE PollEvents(t) BY <1>5, RefinePollEvents
<1>6. CASE Consume(t) BY <1>6, RefineConsume
<1>7. ASSUME NEW v \in Workers, StealFrom(t, v) PROVE Refines BY <1>7, RefineSteal
<1>8. CASE PopLocal(t) BY <1>8, RefinePop
<1>9. CASE SearchMiss(t) BY <1>9, RefineUnmoved DEF SearchMiss
<1>10. CASE Release(t) BY <1>10, RefineRelease
<1>11. CASE GoIdle(t) BY <1>11, RefineUnmoved DEF GoIdle
<1>12. CASE TaskSuspend(t) BY <1>12, RefineSuspend
<1>13. CASE TaskYield(t) BY <1>13, RefineYield
<1>14. CASE Finish(t) BY <1>14, RefineUnmoved DEF Finish
<1>15. CASE Exit(t) BY <1>15, RefineUnmoved DEF Exit
<1>16. CASE Woken(t) BY <1>16, RefineUnmoved DEF Woken
<1>17. CASE PopInject(t) BY <1>17, RefinePopInject
<1>18. CASE Inject(t) BY <1>18, RefineInject
<1>q. QED BY <1>1, <1>2, <1>3, <1>4, <1>5, <1>6, <1>7, <1>8, <1>9, <1>10, <1>11, <1>12,
      <1>13, <1>14, <1>15, <1>16, <1>17, <1>18 DEF WorkerLoop

(* The environment submits tasks. *)
LEMMA EnvironmentRefines ==
  ASSUME Typing, Typing', KeepInv, NEW t \in Threads, Environment(t) PROVE Refines
<1> USE DEF queueVars, localVars
<1>1. CASE BlockOn(t) BY <1>1, RefineUnmoved DEF BlockOn
<1>2. CASE Schedule(t) BY <1>2, RefineSchedule
<1>3. ASSUME NEW u \in Users, WakeFuture(t, u) PROVE Refines
  BY <1>3, RefineUnmoved DEF WakeFuture
<1>4. CASE WaitTimeout(t) BY <1>4, RefineUnmoved DEF WaitTimeout
<1>5. CASE SelectReturn(t)
  <2>1. ready[t] = {} BY <1>5 DEF SelectReturn, KeepInv, KeepOf, Where, CallPcs, Laden
  <2>2. PICK list \in Events(t) : ready' = [ready EXCEPT ![t] = list]
    BY <1>5 DEF SelectReturn
  <2>3. UNCHANGED <<held, injector, runq, worker>> BY <1>5 DEF SelectReturn
  <2>4. list \subseteq Away BY DEF Events
  <2>q. QED BY <2>1, <2>2, <2>3, <2>4, RefineEvents
<1>q. QED BY <1>1, <1>2, <1>3, <1>4, <1>5 DEF Environment

(* The scheduler implements the Dispatcher: to the tasks, every step of    *)
(* every thread is a submission, the start or the end of a run, or         *)
(* nothing.  Each scheduled runnable is run once, by one worker, and a     *)
(* worker runs one at a time, whatever is stolen, injected or handed over. *)
THEOREM SchedulerDispatches == Spec => ImplementsDispatcher
<1>1. Init => Abstract!Init
  <2> SUFFICES ASSUME Init PROVE Queued = {} /\ Dispatched = {}
    BY DEF Abstract!Init
  <2>1. Dispatched = {} BY DEF Init, Dispatched
  <2>2. Queued = {} BY DEF Init, Queued
  <2>q. QED BY <2>1, <2>2
<1>2. /\ Typing /\ Typing' /\ LocalInv /\ KeepInv /\ OnceInv /\ OnceInv'
      /\ Exclusive /\ Exclusive' /\ [Next]_vars
      => [Abstract!Next]_(Abstract!dispatchVars)
  <2> SUFFICES ASSUME Typing, Typing', LocalInv, KeepInv, OnceInv, OnceInv', Exclusive,
                      Exclusive', [Next]_vars
               PROVE Refines
    BY DEF Refines
  <2>1. ASSUME NEW t \in Threads, Executor(t) PROVE Refines BY <2>1, ExecutorRefines
  <2>2. ASSUME NEW t \in Threads, ThreadPool(t) PROVE Refines BY <2>2, ThreadPoolRefines
  <2>3. ASSUME NEW t \in Threads, WorkerLoop(t) PROVE Refines BY <2>3, WorkerLoopRefines
  <2>4. ASSUME NEW t \in Threads, Environment(t) PROVE Refines BY <2>4, EnvironmentRefines
  <2>5. CASE UNCHANGED vars
    BY <2>5, RefineUnmoved DEF vars, queueVars, localVars
  <2>q. QED BY <2>1, <2>2, <2>3, <2>4, <2>5 DEF Next
<1>3. Spec => []Exclusive BY WorkersAreExclusive DEF Exclusive
<1>q. QED BY <1>1, <1>2, <1>3, LocalInvariant, KeepInvariant, OnceInvariant, PTL
      DEF Spec, ImplementsDispatcher, Abstract!Spec
-----------------------------------------------------------------------------
(* A wake in SleepWatch is a wake in Scheduler, or nothing. *)
LEMMA WakeOnceIsStep ==
  ASSUME NEW t \in Threads, NEW u \in Users, WakeOnce(t, u)
  PROVE [Next]_vars
<1>1. CASE WakeFuture(t, u) BY <1>1 DEF Next, Environment
<1>2. CASE UNCHANGED vars BY <1>2
<1>q. QED BY <1>1, <1>2 DEF WakeOnce

(* What the application of SleepWatch does is open in Scheduler. *)
LEMMA ApplicationIsStep ==
  ASSUME NEW t \in Threads, Application(t)
  PROVE [Next]_vars
<1>1. PICK u \in Users :
        \/ t = u /\ (\/ FutureSpawns(u) \/ FutureJoins(u) \/ FutureSleeps(u)
                     \/ FutureStillSleeps(u) \/ FutureWakesUp(u))
        \/ TaskEnds(t, u)
        \/ Expire(t, u)
  BY DEF Application
<1>2. CASE t = u /\ FutureSpawns(u)
  BY <1>2 DEF FutureSpawns, Next, Environment
<1>3. CASE t = u /\ (FutureJoins(u) \/ FutureSleeps(u) \/ FutureStillSleeps(u))
  BY <1>3 DEF FutureJoins, FutureSleeps, FutureStillSleeps, Next, WorkerLoop
<1>4. CASE t = u /\ FutureWakesUp(u)
  BY <1>4 DEF FutureWakesUp, Next, WorkerLoop
<1>5. CASE TaskEnds(t, u)
  <2>1. WakeOnce(t, u) \/ UNCHANGED vars BY <1>5 DEF TaskEnds
  <2>q. QED BY <2>1, WakeOnceIsStep
<1>6. CASE Expire(t, u)
  BY <1>6, WakeOnceIsStep DEF Expire
<1>q. QED BY <1>1, <1>2, <1>3, <1>4, <1>5, <1>6

(* The composition of the scheduler with a Sleep only closes what          *)
(* Scheduler leaves open, the application and the answers of poll_timers:  *)
(* each of its steps is a step of Scheduler or leaves it alone.            *)
THEOREM WatchImplementsScheduler == WatchSpec => Spec
<1>1. WatchInit => Init BY DEF WatchInit
<1>2. ASSUME [WatchNext]_allVars PROVE [Next]_vars
  <2>1. ASSUME NEW t \in Threads, Machinery(t) PROVE Next
    <3>1. Executor(t) \/ ThreadPool(t) \/ WorkerLoop(t)
      BY <2>1 DEF Machinery, Executor, WorkerLoop
    <3>q. QED BY <3>1 DEF Next
  <2>2. ASSUME NEW t \in Threads, AfterTimers(t) PROVE Next
    <3>1. Executor(t) \/ WorkerLoop(t)
      BY <2>2 DEF AfterTimers, Executor, WorkerLoop
    <3>q. QED BY <3>1 DEF Next
  <2>3. ASSUME NEW t \in Threads, Application(t) PROVE [Next]_vars
    BY <2>3, ApplicationIsStep
  <2>4. ASSUME NEW t \in Threads, Timeout(t) PROVE Next
    BY <2>4 DEF Timeout, Next, Environment
  <2>5. ASSUME NEW u \in Users, Start(u) PROVE Next
    BY <2>5 DEF Start, Next, Environment, Threads
  <2>6. CASE Elapse BY <2>6 DEF Elapse
  <2>7. CASE UNCHANGED allVars BY <2>7 DEF allVars
  <2>q. QED BY <1>2, <2>1, <2>2, <2>3, <2>4, <2>5, <2>6, <2>7 DEF WatchNext, Run
<1>q. QED BY <1>1, <1>2, PTL DEF WatchSpec, Spec

(* So the timers that a sleeping future relies on change nothing of what   *)
(* was proved: workers are conserved and no task it spawned is dropped.    *)
COROLLARY WatchKeepsScheduler ==
  WatchSpec => [](WorkerConservation /\ RunnableOnce) /\ RunnableKept
BY WatchImplementsScheduler, WorkersAreConserved, RunnablesAreOnce, RunnablesAreKept, PTL

(* A scheduler whose run queues have an order takes no step that Scheduler *)
(* does not, and is as fair: what holds of every scheduler holds of it.    *)
THEOREM OrderImplementsScheduler == OrderSpec => FairSpec
<1>1. OrderInit => Init BY DEF OrderInit
<1>2. ASSUME [OrderNext]_orderVars PROVE [Next]_vars
  <2>1. ASSUME NEW t \in Threads,
               ScheduleLocal(t) \/ Elsewhere(t)
        PROVE Next
    BY <2>1 DEF ScheduleLocal, Elsewhere, Next, Environment
  <2>2. ASSUME NEW t \in Threads,
               YieldFair(t) \/ PopByTick(t) \/ PopByCell(t) \/ ConsumeBatch(t)
        PROVE Next
    <3>1. WorkerLoop(t)
      BY <2>2 DEF YieldFair, PopByTick, PopByCell, Popped, ConsumeBatch, WorkerLoop
    <3>q. QED BY <3>1 DEF Next
  <2>3. ASSUME NEW t \in Threads, PopNone(t) PROVE Next
    <3>1. Executor(t) BY <2>3 DEF PopNone, Executor
    <3>q. QED BY <3>1 DEF Next
  <2>4. ASSUME NEW t \in Threads, NEW v \in Workers, StealBatchFrom(t, v) PROVE Next
    <3>1. WorkerLoop(t) BY <2>4 DEF StealBatchFrom, WorkerLoop
    <3>q. QED BY <3>1 DEF Next
  <2>5. CASE UNCHANGED orderVars BY <2>5 DEF orderVars
  <2>q. QED BY <1>2, <2>1, <2>2, <2>3, <2>4, <2>5 DEF OrderNext
<1>q. QED BY <1>1, <1>2, PTL DEF OrderSpec, FairSpec, Spec
=============================================================================
