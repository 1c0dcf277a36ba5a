---------------------------- MODULE SearchProofs ----------------------------
(***************************************************************************)
(* Proofs that Executor.searching is exact and that a thread that attaches *)
(* a worker finds its Producer, for any number of workers, threads and     *)
(* tasks.  A step changes the counter by what it changes of the weight of  *)
(* one thread, except for the two that hand an index to another thread.    *)
(* At the end, that the iterator of a search visits every worker once.     *)
(***************************************************************************)
EXTENDS WorkerProofs, MCScheduler, WellFoundedInduction

(* Which threads have WorkerContext.searching set: a thread that is        *)
(* attached, until search_failed has taken its index, and every thread     *)
(* that calls search_discovered.                                           *)
FlagOf(t) ==
  /\ flag[t] => worker[t] \in Workers \/ pc[t] = "to_idle"
  /\ Where(t) = "discover" => flag[t]
  /\ Where(t) \in {"task", "finish", "search_add"} => ~flag[t]

FlagInv == \A t \in Threads : FlagOf(t)

(* Every step of every thread keeps the flags of all threads. *)
LEMMA FlagStep == Typing /\ LocalInv /\ FlagInv /\ [Next]_vars => FlagInv'
<1> SUFFICES ASSUME Typing, LocalInv, FlagInv, [Next]_vars PROVE FlagInv'
  OBVIOUS
<1> USE NoWorkerIsNoWorker
    DEF FlagInv, FlagOf, LocalInv, LocalOf, Where, CallPcs, Handing, Returns, Claiming,
        Attached, Detached, Blocked, Typing, IndexTyping, ThreadTyping, Slot, execVars,
        queueVars, poolVars, parkVars, localVars, Goto
<1>1. ASSUME NEW t \in Threads, Executor(t) PROVE FlagInv'
  <2>1. CASE SearchRetryPop(t)
    BY <2>1 DEF SearchRetryPop
  <2>2. CASE SearchRetryNone(t)
    <3>1. cont[t] \in {"poll", "wait", "inject"}
      BY <2>2 DEF SearchRetryNone
    <3>q. QED BY <2>2, <3>1 DEF SearchRetryNone
  <2>3. CASE SearchRetryAdd(t)
    BY <2>3 DEF SearchRetryAdd
  <2>4. CASE NotifySkip(t)
    BY <2>4 DEF NotifySkip
  <2>5. CASE NotifyPending(t)
    BY <2>5 DEF NotifyPending
  <2>6. CASE NotifyCas(t)
    BY <2>6 DEF NotifyCas
  <2>7. CASE NotifyPop(t)
    BY <2>7 DEF NotifyPop
  <2>8. CASE NotifyGiveBack(t)
    BY <2>8 DEF NotifyGiveBack
  <2>9. CASE NotifyDec(t)
    BY <2>9 DEF NotifyDec
  <2>10. CASE SearchBegin(t)
    BY <2>10 DEF SearchBegin
  <2>11. CASE SearchBeginAdd(t)
    BY <2>11 DEF SearchBeginAdd
  <2>12. CASE SearchFailedDec(t)
    BY <2>12 DEF SearchFailedDec
  <2>13. CASE SearchFailedCheck(t)
    BY <2>13 DEF SearchFailedCheck
  <2>14. CASE Discover(t)
    BY <2>14 DEF Discover, Dispatch
  <2>q. QED BY <1>1, <2>1, <2>2, <2>3, <2>4, <2>5, <2>6, <2>7, <2>8, <2>9, <2>10, <2>11,
        <2>12, <2>13, <2>14 DEF Executor
<1>2. ASSUME NEW t \in Threads, ThreadPool(t) PROVE FlagInv'
  <2>1. CASE SpawnIdle(t)
    BY <2>1 DEF SpawnIdle
  <2>2. CASE SpawnReserve(t)
    BY <2>2 DEF SpawnReserve
  <2>3. CASE SpawnThread(t)
    BY <2>3 DEF SpawnThread, Threads
  <2>4. CASE SpawnError(t)
    BY <2>4 DEF SpawnError
  <2>5. CASE UnparkSome(t)
    BY <2>5 DEF UnparkSome
  <2>6. CASE UnparkNone(t)
    BY <2>6 DEF UnparkNone
  <2>7. CASE WaitNotified(t)
    BY <2>7 DEF WaitNotified, PollUnparked
  <2>8. CASE WaitPush(t)
    BY <2>8 DEF WaitPush
  <2>9. CASE Park(t)
    BY <2>9 DEF Park
  <2>10. CASE ParkNotified(t)
    BY <2>10 DEF ParkNotified, PollUnparked
  <2>11. CASE Unlist(t)
    BY <2>11 DEF Unlist
  <2>q. QED BY <1>2, <2>1, <2>2, <2>3, <2>4, <2>5, <2>6, <2>7, <2>8, <2>9, <2>10, <2>11
        DEF ThreadPool
<1>3. ASSUME NEW t \in Threads, WorkerLoop(t) PROVE FlagInv'
  <2>1. CASE TransitionToRunning(t)
    BY <2>1 DEF TransitionToRunning
  <2>2. CASE PollFuture(t)
    BY <2>2 DEF PollFuture, Found, AfterPoll
  <2>3. CASE FutureReady(t)
    BY <2>3 DEF FutureReady, Found
  <2>4. CASE FuturePending(t)
    BY <2>4 DEF FuturePending, AfterPoll
  <2>5. CASE PollEvents(t)
    BY <2>5 DEF PollEvents, PopAndInject, Found
  <2>6. CASE Consume(t)
    BY <2>6 DEF Consume, StealBatch, Found
  <2>7. ASSUME NEW v \in Workers, StealFrom(t, v) PROVE FlagInv'
    BY <2>7 DEF StealFrom, StealBatch, Found
  <2>8. CASE PopLocal(t)
    BY <2>8 DEF PopLocal, Found
  <2>9. CASE SearchMiss(t)
    BY <2>9 DEF SearchMiss
  <2>10. CASE Release(t)
    BY <2>10 DEF Release
  <2>11. CASE GoIdle(t)
    BY <2>11 DEF GoIdle
  <2>12. CASE TaskSuspend(t)
    BY <2>12 DEF TaskSuspend
  <2>13. CASE TaskYield(t)
    BY <2>13 DEF TaskYield
  <2>14. CASE Finish(t)
    BY <2>14 DEF Finish
  <2>15. CASE Exit(t)
    BY <2>15 DEF Exit
  <2>16. CASE Woken(t)
    BY <2>16 DEF Woken
  <2>17. CASE PopInject(t)
    BY <2>17 DEF PopInject, PopAndInject
  <2>18. CASE Inject(t)
    BY <2>18 DEF Inject
  <2>q. QED BY <1>3, <2>1, <2>2, <2>3, <2>4, <2>5, <2>6, <2>7, <2>8, <2>9, <2>10, <2>11,
        <2>12, <2>13, <2>14, <2>15, <2>16, <2>17, <2>18 DEF WorkerLoop
<1>4. ASSUME NEW t \in Threads, Environment(t) PROVE FlagInv'
  <2>1. CASE BlockOn(t)
    BY <2>1 DEF BlockOn
  <2>2. CASE Schedule(t)
    BY <2>2 DEF Schedule, InBody
  <2>3. ASSUME NEW u \in Users, WakeFuture(t, u) PROVE FlagInv'
    BY <2>3 DEF WakeFuture, CanWake, InBody
  <2>4. CASE WaitTimeout(t)
    BY <2>4 DEF WaitTimeout
  <2>5. CASE SelectReturn(t)
    BY <2>5 DEF SelectReturn
  <2>q. QED BY <1>4, <2>1, <2>2, <2>3, <2>4, <2>5 DEF Environment
<1>5. CASE UNCHANGED vars BY <1>5 DEF vars
<1>q. QED BY <1>1, <1>2, <1>3, <1>4, <1>5 DEF Next

(* The flags, in every reachable state. *)
LEMMA FlagInvariant == Spec => []FlagInv
<1>1. Init => FlagInv
  BY DEF Init, FlagInv, FlagOf, Where, CallPcs
<1>q. QED BY <1>1, FlagStep, LocalInvariant, PTL DEF Spec
-----------------------------------------------------------------------------
(* The threads that SearchingExact counts, by reason. *)
Notify == {"notify_pop", "notify_dec", "spawn", "unpark_some", "create", "give_back"}
Early  == {"retry_add", "to_idle"}

Flagged   == {t \in Threads : flag[t]}
Failing   == {t \in Threads : pc[t] = "search_dec"}
Handed    == {t \in Threads : got[t] # NoWorker /\ pc[t] \notin Early}
Notifying == {t \in Threads : pc[t] \in Notify}
Carrying  == {t \in Threads : word[t].worker # NoWorker}

Exact ==
  searching = Cardinality(Flagged) + Cardinality(Failing) + Cardinality(Handed)
              + Cardinality(Notifying) + Cardinality(Carrying)

(* SearchingExact is Exact as long as no assertion has failed. *)
LEMMA ExactMeans ==
  /\ SearchingExact <=> (~Panicked => Exact)
  /\ SearchingExact' <=> (~Panicked' => Exact')
BY DEF SearchingExact, Exact, Flagged, Failing, Handed, Notifying, Carrying, Notify, Early

(* The counted sets are finite. *)
LEMMA CountedFinite ==
  /\ IsFiniteSet(Flagged) /\ IsFiniteSet(Failing) /\ IsFiniteSet(Handed)
  /\ IsFiniteSet(Notifying) /\ IsFiniteSet(Carrying)
<1>1. IsFiniteSet(Threads)
  BY SchedulerAssumption, FS_Union DEF Threads
<1>2. /\ Flagged \subseteq Threads /\ Failing \subseteq Threads /\ Handed \subseteq Threads
      /\ Notifying \subseteq Threads /\ Carrying \subseteq Threads
  BY DEF Flagged, Failing, Handed, Notifying, Carrying
<1>q. QED BY <1>1, <1>2, FS_Subset

(* A step leaves the counter and what it counts alone. *)
Settled ==
  /\ searching' = searching
  /\ \A x \in Threads :
       /\ flag'[x] <=> flag[x]
       /\ pc'[x] = "search_dec" <=> pc[x] = "search_dec"
       /\ (got'[x] # NoWorker /\ pc'[x] \notin Early)
            <=> (got[x] # NoWorker /\ pc[x] \notin Early)
       /\ pc'[x] \in Notify <=> pc[x] \in Notify
       /\ word'[x].worker # NoWorker <=> word[x].worker # NoWorker

(* Such a step keeps the counter exact. *)
LEMMA SettledExact == ASSUME Exact, Settled PROVE Exact'
<1>1. /\ Flagged' = Flagged /\ Failing' = Failing /\ Handed' = Handed
      /\ Notifying' = Notifying /\ Carrying' = Carrying
  BY DEF Settled, Flagged, Failing, Handed, Notifying, Carrying
<1>q. QED BY <1>1 DEF Exact, Settled

(* The steps of Executor that count nobody. *)
LEMMA ExecutorSettled ==
  ASSUME Typing, LocalInv, FlagInv, NEW t \in Threads, Executor(t), pc'[t] # "panic",
         ~SearchRetryAdd(t), ~NotifyDec(t), ~SearchBeginAdd(t),
         ~SearchFailedDec(t), ~Discover(t), ~(NotifyCas(t) /\ searching = 0)
  PROVE Settled
<1> USE NoWorkerIsNoWorker
    DEF Settled, Notify, Early, FlagInv, FlagOf, LocalInv, LocalOf, Where,
        CallPcs, Handing, Returns, Claiming, Attached, Detached, Blocked, Typing,
        IndexTyping, ThreadTyping, Slot, execVars, queueVars, poolVars, parkVars,
        localVars, Goto
<1>1. CASE SearchRetryPop(t)
  BY <1>1, PopFacts DEF SearchRetryPop, IdlePop, IdleTop
<1>2. CASE SearchRetryNone(t)
  BY <1>2 DEF SearchRetryNone
<1>3. CASE NotifySkip(t)
  BY <1>3 DEF NotifySkip
<1>4. CASE NotifyPending(t)
  BY <1>4 DEF NotifyPending
<1>5. CASE NotifyCas(t)
  BY <1>5 DEF NotifyCas
<1>6. CASE NotifyPop(t)
  BY <1>6 DEF NotifyPop
<1>7. CASE NotifyGiveBack(t)
  BY <1>7 DEF NotifyGiveBack
<1>8. CASE SearchBegin(t)
  BY <1>8 DEF SearchBegin
<1>9. CASE SearchFailedCheck(t)
  BY <1>9 DEF SearchFailedCheck
<1>q. QED BY <1>1, <1>2, <1>3, <1>4, <1>5, <1>6, <1>7, <1>8, <1>9 DEF Executor

(* The steps of WorkerContext that neither start nor end a search. *)
LEMMA WorkerLoopSettled ==
  ASSUME Typing, LocalInv, FlagInv, NEW t \in Threads, WorkerLoop(t), pc'[t] # "panic",
         ~TransitionToRunning(t), ~(GoIdle(t) /\ flag[t])
  PROVE Settled
<1> USE NoWorkerIsNoWorker
    DEF Settled, Notify, Early, FlagInv, FlagOf, LocalInv, LocalOf, Where,
        CallPcs, Handing, Returns, Claiming, Attached, Detached, Blocked, Typing,
        IndexTyping, ThreadTyping, Slot, execVars, queueVars, poolVars, parkVars,
        localVars, Goto
<1>1. CASE PollFuture(t)
  BY <1>1 DEF PollFuture, Found, AfterPoll
<1>2. CASE FutureReady(t)
  BY <1>2 DEF FutureReady, Found
<1>3. CASE FuturePending(t)
  BY <1>3 DEF FuturePending, AfterPoll
<1>4. CASE PollEvents(t)
  BY <1>4 DEF PollEvents, PopAndInject, Found
<1>5. CASE Consume(t)
  BY <1>5 DEF Consume, StealBatch, Found
<1>6. ASSUME NEW v \in Workers, StealFrom(t, v) PROVE Settled
  BY <1>6 DEF StealFrom, StealBatch, Found
<1>7. CASE PopLocal(t)
  BY <1>7 DEF PopLocal, Found
<1>8. CASE SearchMiss(t)
  BY <1>8 DEF SearchMiss
<1>9. CASE Release(t)
  BY <1>9 DEF Release
<1>10. CASE GoIdle(t)
  <2>1. ~flag[t] /\ pc[t] = "to_idle" /\ cont[t] \in {"wait", "exit"}
    BY <1>10 DEF GoIdle
  <2>2. /\ pc' = [pc EXCEPT ![t] = cont[t]]
        /\ got' = [got EXCEPT ![t] = NoWorker] /\ flag' = [flag EXCEPT ![t] = FALSE]
        /\ UNCHANGED <<searching, word>>
    BY <1>10, <2>1 DEF GoIdle
  <2>q. QED BY <2>1, <2>2
<1>11. CASE TaskSuspend(t)
  BY <1>11 DEF TaskSuspend
<1>12. CASE TaskYield(t)
  BY <1>12 DEF TaskYield
<1>13. CASE Finish(t)
  BY <1>13 DEF Finish
<1>14. CASE Exit(t)
  BY <1>14, WordFacts DEF Exit
<1>15. CASE Woken(t)
  BY <1>15 DEF Woken
<1>16. CASE PopInject(t)
  BY <1>16 DEF PopInject, PopAndInject
<1>17. CASE Inject(t)
  BY <1>17 DEF Inject
<1>q. QED BY <1>1, <1>2, <1>3, <1>4, <1>5, <1>6, <1>7, <1>8, <1>9, <1>10, <1>11, <1>12, <1>13, <1>14, <1>15, <1>16, <1>17 DEF WorkerLoop

(* The steps of the application, of clocks and of sockets. *)
LEMMA EnvironmentSettled ==
  ASSUME Typing, LocalInv, FlagInv, NEW t \in Threads, Environment(t), pc'[t] # "panic"
  PROVE Settled
<1> USE NoWorkerIsNoWorker
    DEF Settled, Notify, Early, FlagInv, FlagOf, LocalInv, LocalOf, Where,
        CallPcs, Handing, Returns, Claiming, Attached, Detached, Blocked, Typing,
        IndexTyping, ThreadTyping, Slot, execVars, queueVars, poolVars, parkVars,
        localVars, Goto
<1>1. CASE BlockOn(t)
  BY <1>1, WordFacts DEF BlockOn
<1>2. CASE Schedule(t)
  BY <1>2 DEF Schedule, InBody
<1>3. ASSUME NEW u \in Users, WakeFuture(t, u) PROVE Settled
  BY <1>3 DEF WakeFuture, CanWake, InBody
<1>4. CASE WaitTimeout(t)
  BY <1>4, WordFacts DEF WaitTimeout
<1>5. CASE SelectReturn(t)
  BY <1>5, WordFacts DEF SelectReturn
<1>q. QED BY <1>1, <1>2, <1>3, <1>4, <1>5 DEF Environment

(* The steps of ThreadPool and Parker that hand over no worker. *)
LEMMA ThreadPoolSettled ==
  ASSUME Typing, LocalInv, NEW t \in Threads, ThreadPool(t), ~SpawnThread(t),
         ~(UnparkSome(t) /\ tgt[t] # NoThread /\ word[tgt[t]].tag \notin {"Empty", "Notified"}),
         ~(ParkNotified(t) /\ word[t].worker \in Workers)
  PROVE Settled
<1>1. Still
  BY ThreadPoolStill
<1>2. UNCHANGED <<searching, flag>>
  BY DEF ThreadPool, SpawnIdle, SpawnReserve, SpawnError, UnparkSome, UnparkNone,
         WaitNotified, WaitPush, Park, ParkNotified, Unlist, execVars, localVars
<1> USE NoWorkerIsNoWorker
    DEF LocalInv, LocalOf, CallPcs, Handing, Returns, Typing, IndexTyping, ThreadTyping,
        Goto, Notify, Early
<1>3. ASSUME NEW x \in Threads
      PROVE /\ pc'[x] = "search_dec" <=> pc[x] = "search_dec"
            /\ pc'[x] \in Notify <=> pc[x] \in Notify
            /\ pc'[x] \in Early <=> pc[x] \in Early
  <2>1. CASE SpawnIdle(t) BY <2>1 DEF SpawnIdle
  <2>2. CASE SpawnReserve(t) BY <2>2 DEF SpawnReserve
  <2>3. CASE SpawnError(t) BY <2>3 DEF SpawnError
  <2>4. CASE UnparkSome(t) BY <2>4 DEF UnparkSome
  <2>5. CASE UnparkNone(t) BY <2>5 DEF UnparkNone
  <2>6. CASE WaitNotified(t) BY <2>6 DEF WaitNotified, PollUnparked
  <2>7. CASE WaitPush(t) BY <2>7 DEF WaitPush
  <2>8. CASE Park(t) BY <2>8 DEF Park
  <2>9. CASE ParkNotified(t) BY <2>9 DEF ParkNotified, PollUnparked
  <2>10. CASE Unlist(t) BY <2>10 DEF Unlist
  <2>q. QED BY <2>1, <2>2, <2>3, <2>4, <2>5, <2>6, <2>7, <2>8, <2>9, <2>10 DEF ThreadPool
<1>q. QED BY <1>1, <1>2, <1>3 DEF Settled, Still
-----------------------------------------------------------------------------
(* The sizes of the counted sets when one thread comes or goes. *)
LEMMA OneMore ==
  ASSUME NEW S, NEW T, IsFiniteSet(S), NEW t, t \notin S, T = S \cup {t}
  PROVE Cardinality(T) = Cardinality(S) + 1 /\ Cardinality(S) \in Nat
BY FS_AddElement, FS_CardinalityType

(* One thread less. *)
LEMMA OneLess ==
  ASSUME NEW S, NEW T, IsFiniteSet(S), NEW t, t \in S, T = S \ {t}
  PROVE Cardinality(T) = Cardinality(S) - 1 /\ Cardinality(S) \in Nat
BY FS_RemoveElement, FS_CardinalityType

(* The sizes are numbers. *)
LEMMA CountedSizes ==
  /\ Cardinality(Flagged) \in Nat /\ Cardinality(Failing) \in Nat
  /\ Cardinality(Handed) \in Nat /\ Cardinality(Notifying) \in Nat
  /\ Cardinality(Carrying) \in Nat
BY CountedFinite, FS_CardinalityType

(* search_retry and search_begin count a searcher, a notification too. *)
LEMMA CountedOnce ==
  ASSUME Typing, LocalInv, FlagInv, Exact, NEW t \in Threads, pc'[t] # "panic",
         SearchRetryAdd(t) \/ SearchBeginAdd(t) \/ (NotifyCas(t) /\ searching = 0)
  PROVE Exact'
<1> USE NoWorkerIsNoWorker, CountedFinite, CountedSizes
    DEF Typing, IndexTyping, ThreadTyping, Goto
<1>1. CASE SearchRetryAdd(t)
  <2>1. /\ searching' = searching + 1 /\ pc[t] = "retry_add" /\ got[t] \in Workers
        /\ pc' = [pc EXCEPT ![t] = pc'[t]] /\ pc'[t] \in {"attach", "pop_inject"}
        /\ UNCHANGED <<flag, got, word>>
    BY <1>1 DEF SearchRetryAdd, localVars, parkVars, LocalInv, LocalOf, Where, CallPcs,
          Claiming
  <2>2. /\ Handed' = Handed \cup {t} /\ t \notin Handed
        /\ Flagged' = Flagged /\ Failing' = Failing /\ Notifying' = Notifying
        /\ Carrying' = Carrying
    BY <2>1 DEF Handed, Flagged, Failing, Notifying, Carrying, Early, Notify
  <2>3. Cardinality(Handed') = Cardinality(Handed) + 1 BY <2>2, OneMore
  <2> HIDE NoWorkerIsNoWorker, CountedFinite DEF Typing, IndexTyping, ThreadTyping, Goto
  <2>q. QED BY <2>1, <2>2, <2>3 DEF Exact
<1>2. CASE SearchBeginAdd(t)
  <2>1. searching < NumWorkers
    BY <1>2 DEF SearchBeginAdd
  <2>2. /\ searching' = searching + 1 /\ pc[t] = "search_add" /\ ~flag[t]
        /\ pc' = [pc EXCEPT ![t] = "search"] /\ flag' = [flag EXCEPT ![t] = TRUE]
        /\ UNCHANGED <<got, word>>
    BY <1>2, <2>1 DEF SearchBeginAdd, parkVars, FlagInv, FlagOf, Where, CallPcs
  <2>3. /\ Flagged' = Flagged \cup {t} /\ t \notin Flagged
        /\ Handed' = Handed /\ Failing' = Failing /\ Notifying' = Notifying
        /\ Carrying' = Carrying
    BY <2>2 DEF Handed, Flagged, Failing, Notifying, Carrying, Early, Notify
  <2>4. Cardinality(Flagged') = Cardinality(Flagged) + 1 BY <2>3, OneMore
  <2> HIDE NoWorkerIsNoWorker, CountedFinite DEF Typing, IndexTyping, ThreadTyping, Goto
  <2>q. QED BY <2>2, <2>3, <2>4 DEF Exact
<1>3. CASE NotifyCas(t) /\ searching = 0
  <2>1. /\ searching' = searching + 1 /\ pc[t] = "notify_cas"
        /\ pc' = [pc EXCEPT ![t] = "notify_pop"]
        /\ UNCHANGED <<flag, got, word>>
    BY <1>3 DEF NotifyCas, localVars, parkVars
  <2>2. /\ Notifying' = Notifying \cup {t} /\ t \notin Notifying
        /\ Handed' = Handed /\ Failing' = Failing /\ Flagged' = Flagged
        /\ Carrying' = Carrying
    BY <2>1 DEF Handed, Flagged, Failing, Notifying, Carrying, Early, Notify
  <2>3. Cardinality(Notifying') = Cardinality(Notifying) + 1 BY <2>2, OneMore
  <2> HIDE NoWorkerIsNoWorker, CountedFinite DEF Typing, IndexTyping, ThreadTyping, Goto
  <2>q. QED BY <2>1, <2>2, <2>3 DEF Exact
<1>q. QED BY <1>1, <1>2, <1>3

(* search_failed, search_discovered and the error path of notify take a    *)
(* searcher off again.                                                     *)
LEMMA UncountedOnce ==
  ASSUME Typing, LocalInv, FlagInv, Exact, NEW t \in Threads, pc'[t] # "panic",
         NotifyDec(t) \/ SearchFailedDec(t) \/ Discover(t)
  PROVE Exact'
<1> USE NoWorkerIsNoWorker, CountedFinite, CountedSizes
    DEF Typing, IndexTyping, ThreadTyping, Goto
<1>1. CASE NotifyDec(t)
  <2>1. /\ searching' = searching - 1 /\ pc[t] = "notify_dec"
        /\ pc' = [pc EXCEPT ![t] = pc'[t]] /\ pc'[t] \in Returns
        /\ got[t] # NoWorker => pc'[t] \notin Early
        /\ UNCHANGED <<flag, got, word>>
    BY <1>1 DEF NotifyDec, localVars, parkVars, LocalInv, LocalOf, CallPcs, Returns, Early
  <2>2. /\ Notifying' = Notifying \ {t} /\ t \in Notifying
        /\ Handed' = Handed /\ Failing' = Failing /\ Flagged' = Flagged
        /\ Carrying' = Carrying
    BY <2>1 DEF Handed, Flagged, Failing, Notifying, Carrying, Early, Notify, Returns
  <2>3. Cardinality(Notifying') = Cardinality(Notifying) - 1 BY <2>2, OneLess
  <2> HIDE NoWorkerIsNoWorker, CountedFinite DEF Typing, IndexTyping, ThreadTyping, Goto
  <2>q. QED BY <2>1, <2>2, <2>3 DEF Exact
<1>2. CASE SearchFailedDec(t)
  <2>1. /\ searching' = searching - 1 /\ pc[t] = "search_dec"
        /\ pc' = [pc EXCEPT ![t] = pc'[t]] /\ pc'[t] \in {"recheck", "wait"}
        /\ UNCHANGED <<flag, got, word>>
    BY <1>2 DEF SearchFailedDec, localVars, parkVars
  <2>2. /\ Failing' = Failing \ {t} /\ t \in Failing
        /\ Handed' = Handed /\ Notifying' = Notifying /\ Flagged' = Flagged
        /\ Carrying' = Carrying
    BY <2>1 DEF Handed, Flagged, Failing, Notifying, Carrying, Early, Notify
  <2>3. Cardinality(Failing') = Cardinality(Failing) - 1 BY <2>2, OneLess
  <2> HIDE NoWorkerIsNoWorker, CountedFinite DEF Typing, IndexTyping, ThreadTyping, Goto
  <2>q. QED BY <2>1, <2>2, <2>3 DEF Exact
<1>3. CASE Discover(t)
  <2>1. /\ searching' = searching - 1 /\ pc[t] = "discover" /\ flag[t]
        /\ pc' = [pc EXCEPT ![t] = pc'[t]] /\ pc'[t] \in {"notify", "task", "finish"}
        /\ flag' = [flag EXCEPT ![t] = FALSE]
        /\ UNCHANGED <<got, word>>
    BY <1>3 DEF Discover, Dispatch, parkVars, FlagInv, FlagOf, Where, CallPcs
  <2>2. /\ Flagged' = Flagged \ {t} /\ t \in Flagged
        /\ Handed' = Handed /\ Notifying' = Notifying /\ Failing' = Failing
        /\ Carrying' = Carrying
    BY <2>1 DEF Handed, Flagged, Failing, Notifying, Carrying, Early, Notify
  <2>3. Cardinality(Flagged') = Cardinality(Flagged) - 1 BY <2>2, OneLess
  <2> HIDE NoWorkerIsNoWorker, CountedFinite DEF Typing, IndexTyping, ThreadTyping, Goto
  <2>q. QED BY <2>1, <2>2, <2>3 DEF Exact
<1>q. QED BY <1>1, <1>2, <1>3

(* A search passes from one reason to another: an index that was handed    *)
(* over is attached, a failed search gives its index back, and unpark and  *)
(* the creation of a thread hand an index over.                            *)
LEMMA CountedElsewhere ==
  ASSUME Typing, LocalInv, FlagInv, Exact, NEW t \in Threads, pc'[t] # "panic",
         \/ TransitionToRunning(t) \/ (GoIdle(t) /\ flag[t]) \/ SpawnThread(t)
         \/ (ParkNotified(t) /\ word[t].worker \in Workers)
         \/ (UnparkSome(t) /\ tgt[t] # NoThread /\ word[tgt[t]].tag \notin {"Empty", "Notified"})
  PROVE Exact'
<1> USE NoWorkerIsNoWorker, CountedFinite, CountedSizes
    DEF Typing, IndexTyping, ThreadTyping, Goto
<1>1. CASE TransitionToRunning(t)
  <2>0. LocalOf(t) /\ FlagOf(t) /\ pc[t] = "attach"
    BY <1>1 DEF TransitionToRunning, LocalInv, FlagInv
  <2>1. got[t] \in Workers /\ ~flag[t]
    BY <2>0 DEF LocalOf, FlagOf, Where, CallPcs, Claiming, Detached
  <2>2. /\ searching' = searching
        /\ pc' = [pc EXCEPT ![t] = pc'[t]] /\ pc'[t] \in {"discover", "poll"}
        /\ got' = [got EXCEPT ![t] = NoWorker] /\ flag' = [flag EXCEPT ![t] = TRUE]
        /\ UNCHANGED word
    BY <1>1 DEF TransitionToRunning, parkVars
  <2>3. /\ Handed' = Handed \ {t} /\ t \in Handed
        /\ Flagged' = Flagged \cup {t} /\ t \notin Flagged
        /\ Failing' = Failing /\ Notifying' = Notifying /\ Carrying' = Carrying
    BY <2>0, <2>1, <2>2 DEF Handed, Flagged, Failing, Notifying, Carrying, Early, Notify
  <2>4. /\ Cardinality(Handed') = Cardinality(Handed) - 1
        /\ Cardinality(Flagged') = Cardinality(Flagged) + 1
    BY <2>3, OneMore, OneLess
  <2>q. QED BY <2>2, <2>3, <2>4 DEF Exact
<1>2. CASE GoIdle(t) /\ flag[t]
  <2>1. /\ searching' = searching /\ pc[t] = "to_idle" /\ flag[t]
        /\ pc' = [pc EXCEPT ![t] = "search_dec"]
        /\ got' = [got EXCEPT ![t] = NoWorker] /\ flag' = [flag EXCEPT ![t] = FALSE]
        /\ UNCHANGED word
    BY <1>2 DEF GoIdle, parkVars
  <2>2. /\ Failing' = Failing \cup {t} /\ t \notin Failing
        /\ Flagged' = Flagged \ {t} /\ t \in Flagged
        /\ Handed' = Handed /\ Notifying' = Notifying /\ Carrying' = Carrying
    BY <2>1 DEF Handed, Flagged, Failing, Notifying, Carrying, Early, Notify
  <2>3. /\ Cardinality(Failing') = Cardinality(Failing) + 1
        /\ Cardinality(Flagged') = Cardinality(Flagged) - 1
    BY <2>2, OneMore, OneLess
  <2>q. QED BY <2>1, <2>2, <2>3 DEF Exact
<1>3. CASE SpawnThread(t)
  <2>0. PICK p \in Pool :
          /\ pc[p] = "off"
          /\ pc' = [pc EXCEPT ![t] = cont[t], ![p] = "attach"]
          /\ got' = [got EXCEPT ![p] = hand[t]]
          /\ word' = [word EXCEPT ![p] = Empty]
    BY <1>3 DEF SpawnThread
  <2>1. /\ p \in Threads /\ p # t /\ pc[t] = "create" /\ LocalOf(t) /\ LocalOf(p)
        /\ UNCHANGED <<flag, searching>>
    BY <1>3, <2>0 DEF SpawnThread, Threads, LocalInv, execVars
  <2>2. /\ hand[t] \in Workers /\ cont[t] \in Returns /\ got[p] = NoWorker
        /\ word[p].worker = NoWorker
    BY <2>0, <2>1 DEF LocalOf, Where, CallPcs, Handing, Claiming, Blocked
  <2>3. /\ Handed' = Handed \cup {p} /\ p \notin Handed
        /\ Notifying' = Notifying \ {t} /\ t \in Notifying
        /\ Flagged' = Flagged /\ Failing' = Failing
    BY <2>0, <2>1, <2>2 DEF Handed, Flagged, Failing, Notifying, Early, Notify, Returns
  <2>4. Carrying' = Carrying
    BY <2>0, <2>1, <2>2, WordFacts DEF Carrying
  <2>5. /\ Cardinality(Handed') = Cardinality(Handed) + 1
        /\ Cardinality(Notifying') = Cardinality(Notifying) - 1
    BY <2>3, OneMore, OneLess
  <2>q. QED BY <2>1, <2>3, <2>4, <2>5 DEF Exact
<1>4. CASE ParkNotified(t) /\ word[t].worker \in Workers
  <2>1. /\ searching' = searching /\ pc[t] \in {"listed", "waiting", "selecting"}
        /\ word' = [word EXCEPT ![t] = Empty] /\ got' = [got EXCEPT ![t] = word[t].worker]
        /\ pc' = [pc EXCEPT ![t] = pc'[t]] /\ pc'[t] \in {"attach", "pop_inject"}
        /\ UNCHANGED flag
    BY <1>4 DEF ParkNotified, PollUnparked, execVars
  <2>2. got[t] = NoWorker
    BY <2>1 DEF LocalInv, LocalOf, Where, CallPcs, Claiming
  <2>3. /\ Handed' = Handed \cup {t} /\ t \notin Handed
        /\ Flagged' = Flagged /\ Failing' = Failing /\ Notifying' = Notifying
    BY <1>4, <2>1, <2>2 DEF Handed, Flagged, Failing, Notifying, Early, Notify
  <2>4. Carrying' = Carrying \ {t} /\ t \in Carrying
    BY <1>4, <2>1, WordFacts DEF Carrying
  <2>5. /\ Cardinality(Handed') = Cardinality(Handed) + 1
        /\ Cardinality(Carrying') = Cardinality(Carrying) - 1
    BY <2>3, <2>4, OneMore, OneLess
  <2>q. QED BY <2>1, <2>3, <2>4, <2>5 DEF Exact
<1>5. CASE UnparkSome(t) /\ tgt[t] # NoThread /\ word[tgt[t]].tag \notin {"Empty", "Notified"}
  <2> DEFINE u == tgt[t]
  <2>1. /\ u \in Threads /\ pc[t] = "unpark_some" /\ LocalOf(t)
        /\ word' = [word EXCEPT ![u] = Notified(hand[t])]
        /\ pc' = [pc EXCEPT ![t] = cont[t]]
        /\ UNCHANGED <<flag, searching, got>>
    BY <1>5 DEF UnparkSome, LocalInv, execVars
  <2>2. hand[t] \in Workers /\ cont[t] \in Returns
    BY <2>1 DEF LocalOf, CallPcs, Handing
  <2>3. word[u].worker = NoWorker
    BY <1>5, <2>1, WordCases
  <2>4. Notified(hand[t]).worker = hand[t]
    BY <2>2, NotifiedFacts DEF Slot
  <2> HIDE DEF u
  <2>5. /\ Notifying' = Notifying \ {t} /\ t \in Notifying
        /\ Handed' = Handed /\ Flagged' = Flagged /\ Failing' = Failing
    BY <2>1, <2>2 DEF Handed, Flagged, Failing, Notifying, Early, Notify, Returns
  <2>6. Carrying' = Carrying \cup {u} /\ u \notin Carrying
    BY <2>1, <2>2, <2>3, <2>4 DEF Carrying
  <2>7. /\ Cardinality(Notifying') = Cardinality(Notifying) - 1
        /\ Cardinality(Carrying') = Cardinality(Carrying) + 1
    BY <2>5, <2>6, OneMore, OneLess
  <2>q. QED BY <2>1, <2>5, <2>6, <2>7 DEF Exact
<1>q. QED BY <1>1, <1>2, <1>3, <1>4, <1>5

(* A thread that has panicked takes no step, nor does anybody take one for it. *)
LEMMA PanicStays == Typing /\ [Next]_vars /\ Panicked => Panicked'
<1> SUFFICES ASSUME Typing, [Next]_vars, NEW x \in Threads, pc[x] = "panic"
             PROVE pc'[x] = "panic"
  BY DEF Panicked
<1> USE DEF Typing, ThreadTyping, Goto
<1>1. ASSUME NEW t \in Threads, Executor(t) PROVE pc'[x] = "panic"
  BY <1>1 DEF Executor, SearchRetryPop, SearchRetryNone, SearchRetryAdd, NotifySkip,
       NotifyPending, NotifyCas, NotifyPop, NotifyGiveBack, NotifyDec, SearchBegin,
       SearchBeginAdd, SearchFailedDec, SearchFailedCheck, Discover
<1>2. ASSUME NEW t \in Threads, ThreadPool(t) PROVE pc'[x] = "panic"
  BY <1>2 DEF ThreadPool, SpawnIdle, SpawnReserve, SpawnThread, SpawnError, UnparkSome,
       UnparkNone, WaitNotified, PollUnparked, WaitPush, Park, ParkNotified, Unlist
<1>3. ASSUME NEW t \in Threads, WorkerLoop(t) PROVE pc'[x] = "panic"
  BY <1>3 DEF WorkerLoop, TransitionToRunning, PollFuture, FutureReady, FuturePending,
       PollEvents, PopAndInject, Consume, StealBatch, StealFrom, PopLocal, SearchMiss,
       Release, GoIdle, TaskSuspend, TaskYield, Finish, Exit, Woken, PopInject, Inject
<1>4. ASSUME NEW t \in Threads, Environment(t) PROVE pc'[x] = "panic"
  BY <1>4 DEF Environment, BlockOn, Schedule, InBody, WakeFuture, CanWake, WaitTimeout,
       SelectReturn
<1>5. CASE UNCHANGED vars BY <1>5 DEF vars
<1>q. QED BY <1>1, <1>2, <1>3, <1>4, <1>5 DEF Next

(* Every step keeps the counter exact, unless an assertion fails. *)
LEMMA SearchingStep ==
  Typing /\ LocalInv /\ FlagInv /\ SearchingExact /\ [Next]_vars => SearchingExact'
<1> SUFFICES ASSUME Typing, LocalInv, FlagInv, SearchingExact, [Next]_vars, ~Panicked'
             PROVE Exact'
  BY ExactMeans
<1>1. Exact
  BY PanicStays, ExactMeans
<1>2. \A t \in Threads : pc'[t] # "panic"
  BY DEF Panicked
<1>3. ASSUME NEW t \in Threads, Executor(t) PROVE Exact'
  <2>1. CASE \/ SearchRetryAdd(t) \/ SearchBeginAdd(t) \/ (NotifyCas(t) /\ searching = 0)
    BY <1>1, <1>2, <2>1, CountedOnce
  <2>2. CASE NotifyDec(t) \/ SearchFailedDec(t) \/ Discover(t)
    BY <1>1, <1>2, <2>2, UncountedOnce
  <2>q. QED BY <1>1, <1>2, <1>3, <2>1, <2>2, ExecutorSettled, SettledExact
<1>4. ASSUME NEW t \in Threads, ThreadPool(t) PROVE Exact'
  BY <1>1, <1>2, <1>4, CountedElsewhere, ThreadPoolSettled, SettledExact
<1>5. ASSUME NEW t \in Threads, WorkerLoop(t) PROVE Exact'
  BY <1>1, <1>2, <1>5, CountedElsewhere, WorkerLoopSettled, SettledExact
<1>6. ASSUME NEW t \in Threads, Environment(t) PROVE Exact'
  BY <1>1, <1>2, <1>6, EnvironmentSettled, SettledExact
<1>7. CASE UNCHANGED vars
  <2>1. Settled
    BY <1>7 DEF Settled, vars, execVars, parkVars, localVars
  <2>q. QED BY <1>1, <2>1, SettledExact
<1>q. QED BY <1>3, <1>4, <1>5, <1>6, <1>7 DEF Next

(* Executor.searching is exactly the number of threads that search, of     *)
(* notifications under way and of indices on their way to a thread, for    *)
(* any number of threads that notify, search, fail, park and time out, as  *)
(* long as none of its assertions has failed.                              *)
THEOREM SearchingIsExact == Spec => []SearchingExact
<1>1. Init => SearchingExact
  <2> SUFFICES ASSUME Init PROVE Exact
    BY ExactMeans
  <2>1. /\ Flagged = {} /\ Failing = {} /\ Handed = {} /\ Notifying = {}
    BY DEF Init, Flagged, Failing, Handed, Notifying, Notify
  <2>2. Carrying = {}
    BY WordFacts DEF Init, Carrying
  <2>3. searching = 0 BY DEF Init
  <2>q. QED BY <2>1, <2>2, <2>3, FS_EmptySet DEF Exact
<1>q. QED BY <1>1, SearchingStep, FlagInvariant, LocalInvariant, PTL DEF Spec
-----------------------------------------------------------------------------
(* A run queue without its Producer is the queue of a thread. *)
ProducerHeld == \A w \in Workers : ~home[w] => \E t \in Threads : worker[t] = w

(* Only transition_to_running takes a Producer and only                    *)
(* transition_to_idle puts it back, with the worker.                       *)
LEMMA ProducerUnmoved ==
  ASSUME NEW t \in Threads, ~TransitionToRunning(t), ~Release(t),
         Executor(t) \/ ThreadPool(t) \/ WorkerLoop(t) \/ Environment(t)
  PROVE UNCHANGED <<home, worker>>
<1>1. CASE Executor(t)
  BY <1>1 DEF Executor, SearchRetryPop, SearchRetryNone, SearchRetryAdd, NotifySkip,
       NotifyPending, NotifyCas, NotifyPop, NotifyGiveBack, NotifyDec, SearchBegin,
       SearchBeginAdd, SearchFailedDec, SearchFailedCheck, Discover, execVars, localVars
<1>2. CASE ThreadPool(t)
  BY <1>2 DEF ThreadPool, SpawnIdle, SpawnReserve, SpawnThread, SpawnError, UnparkSome,
       UnparkNone, WaitNotified, WaitPush, Park, ParkNotified, Unlist, execVars, localVars
<1>3. CASE WorkerLoop(t)
  BY <1>3 DEF WorkerLoop, PollFuture, FutureReady, FuturePending, PollEvents, Consume,
       StealFrom, PopLocal, SearchMiss, GoIdle, TaskSuspend, TaskYield, Finish, Exit,
       Woken, PopInject, Inject, execVars, localVars
<1>4. CASE Environment(t)
  BY <1>4 DEF Environment, BlockOn, Schedule, WakeFuture, WaitTimeout, SelectReturn,
       execVars, localVars
<1>q. QED BY <1>1, <1>2, <1>3, <1>4

(* Every step keeps a missing Producer with the thread that has the worker. *)
LEMMA ProducerStep ==
  Typing /\ LocalInv /\ WorkerConservation /\ ProducerHeld /\ [Next]_vars => ProducerHeld'
<1> SUFFICES ASSUME Typing, LocalInv, ProducerHeld, [Next]_vars
             PROVE ProducerHeld'
  OBVIOUS
<1> USE DEF Typing, IndexTyping
<1>1. ASSUME NEW t \in Threads, TransitionToRunning(t) PROVE ProducerHeld'
  <2>1. worker[t] = NoWorker
    BY <1>1 DEF TransitionToRunning, LocalInv, LocalOf, Where, CallPcs, Detached, Claiming
  <2>2. /\ worker' = [worker EXCEPT ![t] = got[t]]
        /\ home' = [home EXCEPT ![got[t]] = FALSE]
    BY <1>1 DEF TransitionToRunning
  <2>3. ASSUME NEW w \in Workers, ~home'[w] PROVE \E x \in Threads : worker'[x] = w
    <3>1. CASE w = got[t] BY <2>2, <3>1
    <3>2. CASE w # got[t]
      <4>1. PICK x \in Threads : worker[x] = w
        BY <2>2, <2>3, <3>2 DEF ProducerHeld
      <4>2. worker'[x] = w
        BY <2>1, <2>2, <4>1, NoWorkerIsNoWorker
      <4>q. QED BY <4>2
    <3>q. QED BY <3>1, <3>2
  <2>q. QED BY <2>3 DEF ProducerHeld
<1>2. ASSUME NEW t \in Threads, Release(t) PROVE ProducerHeld'
  <2>1. /\ worker' = [worker EXCEPT ![t] = NoWorker]
        /\ home' = [home EXCEPT ![worker[t]] = TRUE]
    BY <1>2 DEF Release
  <2>2. ASSUME NEW w \in Workers, ~home'[w] PROVE \E x \in Threads : worker'[x] = w
    <3>1. w # worker[t] /\ ~home[w] BY <2>1, <2>2
    <3>2. PICK x \in Threads : worker[x] = w BY <3>1 DEF ProducerHeld
    <3>3. worker'[x] = w BY <2>1, <3>1, <3>2
    <3>q. QED BY <3>3
  <2>q. QED BY <2>2 DEF ProducerHeld
<1>3. ASSUME UNCHANGED <<home, worker>> PROVE ProducerHeld'
  BY <1>3 DEF ProducerHeld
<1>4. CASE UNCHANGED vars
  BY <1>3, <1>4 DEF vars, execVars, localVars
<1>q. QED BY <1>1, <1>2, <1>3, <1>4, ProducerUnmoved DEF Next

(* In every reachable state, a missing Producer is with a thread. *)
LEMMA ProducerInvariant == Spec => []ProducerHeld
<1>1. Init => ProducerHeld
  BY DEF Init, ProducerHeld
<1>q. QED BY <1>1, ProducerStep, LocalInvariant, WorkersAreConserved, PTL DEF Spec

(* A thread that has an index but has not attached it finds the Producer:  *)
(* the index is in one place only, so that no thread is attached to it.    *)
LEMMA ProducerAtHome ==
  Typing /\ LocalInv /\ WorkerConservation /\ ProducerHeld => AttachFindsProducer
<1> SUFFICES ASSUME Typing, LocalInv, WorkerConservation, ProducerHeld,
                    NEW t \in Threads, pc[t] = "attach", ~home[got[t]]
             PROVE FALSE
  BY DEF AttachFindsProducer
<1>1. got[t] \in Workers
  BY DEF LocalInv, LocalOf, Where, CallPcs, Claiming
<1>2. PICK u \in Threads : worker[u] = got[t]
  BY <1>1 DEF ProducerHeld
<1>3. <<"got", t>> \in Places(got[t]) /\ <<"worker", u>> \in Places(got[t])
  BY <1>2 DEF Places
<1>4. <<"got", t>> = <<"worker", u>>
  BY <1>1, <1>3 DEF WorkerConservation
<1>q. QED BY <1>4

(* The unwrap of swap_producer(None) never meets an empty slot, whoever    *)
(* gave the worker up and by whichever way its index came.                 *)
THEOREM ProducerIsFound == Spec => []AttachFindsProducer
<1>q. QED BY ProducerAtHome, ProducerInvariant, WorkersAreConserved, LocalInvariant, PTL
-----------------------------------------------------------------------------
(* A thread about to leave the count is counted. *)
LEMMA CountedPositive ==
  ASSUME Typing, FlagInv, Exact, NEW t \in Threads,
         pc[t] \in {"search_dec", "discover", "notify_dec"}
  PROVE searching >= 1
<1> USE CountedFinite, CountedSizes
<1>1. CASE pc[t] = "search_dec"
  <2>1. t \in Failing BY <1>1 DEF Failing
  <2>2. Cardinality(Failing) # 0 BY <2>1, FS_EmptySet
  <2>q. QED BY <2>2 DEF Exact
<1>2. CASE pc[t] = "discover"
  <2>1. t \in Flagged BY <1>2 DEF Flagged, FlagInv, FlagOf, Where, CallPcs
  <2>2. Cardinality(Flagged) # 0 BY <2>1, FS_EmptySet
  <2>q. QED BY <2>2 DEF Exact
<1>3. CASE pc[t] = "notify_dec"
  <2>1. t \in Notifying BY <1>3 DEF Notifying, Notify
  <2>2. Cardinality(Notifying) # 0 BY <2>1, FS_EmptySet
  <2>q. QED BY <2>2 DEF Exact
<1>q. QED BY <1>1, <1>2, <1>3

(* ThreadPool::finish finds its thread counted. *)
LEMMA PoolPositive ==
  ASSUME Typing, PoolExact, NEW t \in Pool, pc[t] = "exit"
  PROVE spawned \in 1 .. MaxThreads
<1>1. t \in Running BY DEF Running
<1>2. Cardinality(Running) # 0 BY <1>1, PoolFinite, FS_EmptySet
<1>q. QED BY <1>2, PoolFinite, SchedulerAssumption
          DEF PoolExact, Running, Creating, Typing, ThreadTyping

(* Where a step can panic, and when. *)
LEMMA BoundStep ==
  ASSUME Typing, LocalInv, FlagInv, SearchingExact, AttachFindsProducer, PoolExact,
         [Next]_vars, ~Panicked, Panicked'
  PROVE searching >= NumWorkers
<1>1. Exact BY ExactMeans
<1>2. \A x \in Threads : pc[x] # "panic" BY DEF Panicked
<1>3. PICK x \in Threads : pc'[x] = "panic" BY DEF Panicked
<1> USE SchedulerAssumption DEF Typing, IndexTyping, ThreadTyping, Goto
<1>r. \A t \in Threads : /\ pc[t] \in CallPcs => cont[t] # "panic"
                         /\ pc[t] = "retry" => cont[t] # "panic"
                         /\ pc[t] = "to_idle" /\ ~flag[t] => cont[t] # "panic"
  BY DEF LocalInv, LocalOf, Returns
<1>4. ASSUME NEW t \in Threads, Executor(t) PROVE searching >= NumWorkers
  <2>1. CASE NotifyDec(t)
    <3>1. searching >= 1 BY <1>1, <2>1, CountedPositive DEF NotifyDec
    <3>q. QED BY <1>2, <1>3, <1>r, <2>1, <3>1 DEF NotifyDec, CallPcs
  <2>2. CASE SearchFailedDec(t)
    <3>1. searching >= 1 BY <1>1, <2>2, CountedPositive DEF SearchFailedDec
    <3>q. QED BY <1>2, <1>3, <2>2, <3>1 DEF SearchFailedDec
  <2>3. CASE Discover(t)
    <3>1. searching >= 1 BY <1>1, <2>3, CountedPositive DEF Discover
    <3>q. QED BY <1>2, <1>3, <2>3, <3>1 DEF Discover, Dispatch
  <2>4. CASE SearchRetryAdd(t) \/ SearchBeginAdd(t) \/ SearchBegin(t)
    BY <1>2, <1>3, <2>4 DEF SearchRetryAdd, SearchBeginAdd, SearchBegin
  <2>5. CASE NotifyCas(t)
    BY <1>2, <1>3, <1>r, <2>5 DEF NotifyCas, CallPcs
  <2>6. CASE \/ SearchRetryPop(t) \/ SearchRetryNone(t) \/ NotifySkip(t)
             \/ NotifyPending(t) \/ NotifyPop(t) \/ NotifyGiveBack(t) \/ SearchFailedCheck(t)
    BY <1>2, <1>3, <1>r, <2>6 DEF SearchRetryPop, SearchRetryNone, NotifySkip,
       NotifyPending, NotifyPop, NotifyGiveBack, SearchFailedCheck, CallPcs
  <2>q. QED BY <1>4, <2>1, <2>2, <2>3, <2>4, <2>5, <2>6 DEF Executor
<1>5. ASSUME NEW t \in Threads, ThreadPool(t) PROVE searching >= NumWorkers
  BY <1>2, <1>3, <1>5, <1>r DEF ThreadPool, SpawnIdle, SpawnReserve, SpawnThread,
     SpawnError, UnparkSome, UnparkNone, WaitNotified, PollUnparked, WaitPush, Park,
     ParkNotified, Unlist, CallPcs
<1>6. ASSUME NEW t \in Threads, WorkerLoop(t) PROVE searching >= NumWorkers
  <2>1. CASE TransitionToRunning(t)
    BY <1>2, <1>3, <2>1 DEF TransitionToRunning, AttachFindsProducer
  <2>2. CASE Exit(t)
    <3>1. t \in Pool => spawned \in 1 .. MaxThreads
      BY <2>2, PoolPositive DEF Exit
    <3>q. QED BY <1>2, <1>3, <2>2, <3>1 DEF Exit, Threads
  <2>3. CASE ~TransitionToRunning(t) /\ ~Exit(t)
    BY <1>2, <1>3, <1>6, <1>r, <2>3 DEF WorkerLoop, PollFuture, Found, AfterPoll,
       FutureReady, FuturePending, PollEvents, PopAndInject, Consume, StealBatch,
       StealFrom, PopLocal, SearchMiss, Release, GoIdle, TaskSuspend, TaskYield, Finish,
       Woken, PopInject, Inject
  <2>q. QED BY <2>1, <2>2, <2>3
<1>7. ASSUME NEW t \in Threads, Environment(t) PROVE searching >= NumWorkers
  BY <1>2, <1>3, <1>7 DEF Environment, BlockOn, Schedule, InBody, WakeFuture, CanWake,
     WaitTimeout, SelectReturn
<1>8. CASE UNCHANGED vars BY <1>2, <1>3, <1>8 DEF vars
<1>q. QED BY <1>4, <1>5, <1>6, <1>7, <1>8 DEF Next

(* Every assertion and unwrap of the scheduler holds up to the first       *)
(* failure of an upper bound on `searching`, which notify can cause when   *)
(* it counts a searcher before it pops an index: none of them fails for    *)
(* another reason.                                                         *)
THEOREM OnlyTheBoundFails == Spec => OnlyBoundFails
<1>1. /\ Typing /\ LocalInv /\ FlagInv /\ SearchingExact /\ AttachFindsProducer
      /\ PoolExact /\ [Next]_vars
      => [~Panicked /\ Panicked' => searching >= NumWorkers]_vars
  BY BoundStep
<1>q. QED BY <1>1, LocalInvariant, FlagInvariant, SearchingIsExact, ProducerIsFound,
             PoolIsExact, PTL DEF Spec, OnlyBoundFails
-----------------------------------------------------------------------------
(* A number and the one below it have no common divisor. *)
LEMMA NeighboursCoprime ==
  ASSUME NEW range \in Nat, range >= 2
  PROVE  Coprime(range - 1, range)
<1> SUFFICES ASSUME NEW d \in 2 .. range, (range - 1) % d = 0, range % d = 0
             PROVE  FALSE
  BY DEF Coprime
<1> DEFINE a == (range - 1) \div d
           b == range \div d
<1>1. /\ a \in Int /\ b \in Int
      /\ range - 1 = d * a
      /\ range = d * b
  BY SMT
<1>2. d * (b - a) = 1
  BY <1>1
<1> HIDE DEF a, b
<1>3. b - a \in Int /\ d \in Int /\ d >= 2
  BY <1>1
<1>4. CASE b - a >= 1
  BY <1>2, <1>3, <1>4
<1>5. CASE b - a <= 0
  BY <1>2, <1>3, <1>5
<1> QED
  BY <1>3, <1>4, <1>5

(* RandomIterSource::from tries range - 1 first, and takes it: the stride  *)
(* is one step back.                                                       *)
LEMMA StrideIsPredecessor ==
  ASSUME NEW range \in Nat, range >= 2
  PROVE  range - 1 \in Candidates(range) /\ Prime(range) = range - 1
<1>1. range - 1 \in Candidates(range)
  BY NeighboursCoprime, SMT DEF Candidates
<1>2. Candidates(range) \subseteq (range \div 2) .. (range - 1)
  BY DEF Candidates
<1>3. \A q \in Candidates(range) : q \in Int /\ q <= range - 1
  BY <1>2, SMT
<1>4. Prime(range) \in Candidates(range) /\ \A q \in Candidates(range) : q <= Prime(range)
  <2> \E p \in Candidates(range) : \A q \in Candidates(range) : q <= p
    BY <1>1, <1>3
  <2> QED
    BY DEF Prime
<1>5. Prime(range) \in Int /\ Prime(range) <= range - 1 /\ range - 1 <= Prime(range)
  BY <1>1, <1>3, <1>4
<1> QED
  BY <1>1, <1>5

(* The indices that the closure of gen_iter yields from a start, by step. *)
Countdown(range, start) ==
  [n \in 0 .. range |-> IF n <= start THEN start - n ELSE start - n + range]

(* A set of numbers that is not empty has a least element. *)
LEMMA NatHasLeast ==
  ASSUME NEW S, S \subseteq Nat, S # {}
  PROVE  \E m \in S : \A k \in S : m <= k
<1> DEFINE R == {ss \in Nat \X Nat : ss[1] < ss[2]}
<1>1. IsWellFoundedOn(R, Nat)
  BY NatLessThanWellFounded, Zenon DEF OpToRel
<1> HIDE DEF R
<1>2. PICK m \in S : \A k \in S : ~ (<<k, m>> \in R)
  BY <1>1, WFMin, Zenon
<1>3. \A k \in Nat : k < m => <<k, m>> \in R
  BY DEF R
<1>4. \A k \in S : ~ (k < m)
  BY <1>2, <1>3, Zenon
<1>5. m \in Nat /\ \A k \in S : k \in Nat
  OBVIOUS
<1>6. \A k \in S : m <= k
  BY <1>4, <1>5
<1> QED
  BY <1>6

(* The closure counts down: the first step at which it would not, has a    *)
(* step before it that does.                                               *)
LEMMA IterCountsDown ==
  ASSUME NEW range \in Nat, range >= 2, NEW start \in 0 .. range - 1,
         NEW f, f = [n \in 0 .. range |->
                      IF n = 0 THEN start ELSE Advance(range, range - 1, f[n - 1])]
  PROVE  f = Countdown(range, start)
<1> DEFINE g == Countdown(range, start)
           Bad == {n \in 0 .. range : f[n] # g[n]}
<1>1. \A n \in 0 .. range :
        f[n] = IF n = 0 THEN start ELSE Advance(range, range - 1, f[n - 1])
  OBVIOUS
<1>2. DOMAIN f = 0 .. range
  OBVIOUS
<1>3. \A n \in 0 .. range : g[n] = IF n <= start THEN start - n ELSE start - n + range
  BY DEF Countdown
<1>4. Bad = {}
  <2> SUFFICES ASSUME Bad # {} PROVE FALSE
    OBVIOUS
  <2>1. PICK m \in Bad : \A k \in Bad : m <= k
    <3>1. Bad \subseteq Nat
      OBVIOUS
    <3> HIDE DEF Bad
    <3> QED
      BY <3>1, NatHasLeast
  <2>2. m \in 0 .. range /\ f[m] # g[m]
    OBVIOUS
  <2>3. m # 0
    BY <1>1, <1>3, <2>2
  <2>4. m - 1 \in 0 .. range /\ m - 1 < m
    BY <2>2, <2>3
  <2>5. f[m - 1] = g[m - 1]
    <3>1. m - 1 \notin Bad
      <4> HIDE DEF Bad
      <4> QED
        BY <2>1, <2>2, <2>4
    <3> QED
      BY <2>4, <3>1
  <2>6. f[m] = Advance(range, range - 1, g[m - 1])
    BY <1>1, <2>2, <2>3, <2>5
  <2>7. Advance(range, range - 1, g[m - 1]) = g[m]
    <3> HIDE DEF g, Bad
    <3> QED
      BY <1>3, <2>2, <2>3, <2>4 DEF Advance
  <2> QED
    BY <2>2, <2>6, <2>7
<1>5. \A n \in 0 .. range : f[n] = g[n]
  BY <1>4
<1>6. g = [n \in 0 .. range |-> g[n]] /\ f = [n \in 0 .. range |-> f[n]]
  <2>1. g = [n \in 0 .. range |-> g[n]]
    BY DEF Countdown
  <2> HIDE DEF g
  <2> QED
    BY <2>1
<1> HIDE DEF g
<1>7. f = g
  BY <1>5, <1>6
<1> QED
  BY <1>7 DEF g

(* A search of `range` steps, from any start, visits every index. *)
LEMMA IterVisitsAll ==
  ASSUME NEW range \in Nat, range >= 2, NEW start \in 0 .. range - 1
  PROVE  GenIter(range, start) = 0 .. range - 1
<1> DEFINE g == Countdown(range, start)
           index == CHOOSE f : f = [n \in 0 .. range |->
                      IF n = 0 THEN start ELSE Advance(range, range - 1, f[n - 1])]
<1>1. \A n \in 0 .. range : g[n] = IF n <= start THEN start - n ELSE start - n + range
  BY DEF Countdown
<1>2. g = [n \in 0 .. range |->
             IF n = 0 THEN start ELSE Advance(range, range - 1, g[n - 1])]
  <2>1. \A n \in 0 .. range :
          (IF n <= start THEN start - n ELSE start - n + range)
            = IF n = 0 THEN start ELSE Advance(range, range - 1, g[n - 1])
    <3> SUFFICES ASSUME NEW n \in 0 .. range
                 PROVE  (IF n <= start THEN start - n ELSE start - n + range)
            = IF n = 0 THEN start ELSE Advance(range, range - 1, g[n - 1])
      OBVIOUS
    <3> HIDE DEF g
    <3>1. CASE n = 0
      BY <3>1
    <3>2. CASE n # 0
      <4>1. n - 1 \in 0 .. range
        BY <3>2
      <4>2. g[n - 1] = IF n - 1 <= start THEN start - (n - 1) ELSE start - (n - 1) + range
        BY <1>1, <4>1
      <4> QED
        BY <3>2, <4>2 DEF Advance
    <3> QED
      BY <3>1, <3>2
  <2> QED
    BY <2>1 DEF Countdown
<1>3. index = [n \in 0 .. range |->
             IF n = 0 THEN start ELSE Advance(range, range - 1, index[n - 1])]
  <2> HIDE DEF g
  <2> QED
    BY <1>2
<1>4. index = g
  <2> HIDE DEF index, g
  <2>1. index = Countdown(range, start)
    BY <1>3, IterCountsDown
  <2> QED
    BY <2>1 DEF g
<1>5. GenIter(range, start) = {index[n] : n \in 1 .. range}
  BY StrideIsPredecessor DEF GenIter
<1> HIDE DEF index, g
<1>6. GenIter(range, start) = {g[n] : n \in 1 .. range}
  BY <1>4, <1>5
<1>7. ASSUME NEW i \in 0 .. range - 1
      PROVE  \E n \in 1 .. range : g[n] = i
  <2>1. CASE i < start
    <3>1. start - i \in 1 .. range /\ g[start - i] = i
      BY <1>1, <2>1
    <3> QED
      BY <3>1
  <2>2. CASE i >= start
    <3>1. start - i + range \in 1 .. range /\ g[start - i + range] = i
      BY <1>1, <2>2
    <3> QED
      BY <3>1
  <2> QED
    BY <2>1, <2>2
<1>8. \A n \in 1 .. range : g[n] \in 0 .. range - 1
  BY <1>1
<1> QED
  BY <1>6, <1>7, <1>8

(* For every number of workers but one, RandomIterSource::from finds its   *)
(* stride, and gen_iter leaves out no worker and visits none twice.        *)
THEOREM EveryRangeIsVisited == \A range \in Nat \ {0} : VisitsAll(range)
<1> SUFFICES ASSUME NEW range \in Nat \ {0} PROVE VisitsAll(range)
  OBVIOUS
<1>1. CASE range = 1
  <2>1. Candidates(1) = {}
    BY SMT DEF Candidates
  <2> QED
    BY <1>1, <2>1 DEF VisitsAll
<1>2. CASE range # 1
  <2>1. range >= 2
    BY <1>2
  <2>2. Candidates(range) # {}
    BY <2>1, StrideIsPredecessor
  <2>3. \A start \in 0 .. range - 1 : GenIter(range, start) = 0 .. range - 1
    BY <2>1, IterVisitsAll
  <2> QED
    BY <1>2, <2>2, <2>3 DEF VisitsAll
<1> QED
  BY <1>1, <1>2

(* The same for the sizes that the executor is checked with. *)
COROLLARY VictimsAreVisitedOnce == Spec => []VictimsVisitedOnce
<1>1. VictimsVisitedOnce
  <2>1. 1 .. MaxRange \subseteq Nat \ {0} BY DEF MaxRange
  <2>q. QED BY <2>1, EveryRangeIsVisited DEF VictimsVisitedOnce
<1>q. QED BY <1>1, PTL
=============================================================================
