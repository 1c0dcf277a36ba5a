----------------------------- MODULE TaskProofs -----------------------------
(***************************************************************************)
(* Proofs about module Task, for any number of threads and wakers.         *)
(***************************************************************************)
EXTENDS Task, FiniteSetTheorems, TLAPS

(* A thread in Task::run, and the part of it that owes the task a run or   *)
(* has yet to start it.                                                    *)
Active == {"load", "store", "lock", "polling", "to_idle", "notified", "push",
           "wake", "complete"}
Owing == {"load", "store", "push"}

(* The task is in one pair of hands: in a queue, with one waker that is    *)
(* about to queue it, or with one thread.                                  *)
OneHolder ==
  /\ queued \in {0, 1}
  /\ \A w, v \in Wakers : wpc[w] = "schedule" /\ wpc[v] = "schedule" => w = v
  /\ \A t, u \in Threads : pc[t] \in Active /\ pc[u] \in Active => t = u
  /\ queued = 1 => /\ \A w \in Wakers : wpc[w] # "schedule"
                   /\ \A t \in Threads : pc[t] \notin Active
  /\ \A w \in Wakers, t \in Threads : wpc[w] = "schedule" => pc[t] \notin Active

(* What the state word says of the holder. *)
StateFollows ==
  /\ state = "SCHEDULED" =>
       \/ queued = 1
       \/ \E w \in Wakers : wpc[w] = "schedule"
       \/ \E t \in Threads : pc[t] \in Owing
  /\ queued = 1 => state = "SCHEDULED"
  /\ \A w \in Wakers : wpc[w] = "schedule" => state = "SCHEDULED"
  /\ \A t \in Threads :
       /\ pc[t] \in Owing => state = "SCHEDULED"
       /\ pc[t] \in Active \ Owing => state \in {"RUNNING", "NOTIFIED"}
       /\ pc[t] = "notified" => state = "NOTIFIED"

(* What is in Task.data, and who has its lock, at each step of run.        *)
DataFollows ==
  /\ state \in {"IDLE", "SCHEDULED"} => data = "Pending" /\ lock = Nobody
  /\ \A t \in Threads :
       /\ pc[t] \in {"lock", "to_idle", "notified"} => data = "Pending" /\ lock = Nobody
       /\ pc[t] = "polling" => data = "Polling" /\ lock = t
       /\ pc[t] = "wake" => data = "Ready"
       /\ pc[t] = "complete" => data \in {"Ready", "Joined"}
  /\ data \in {"Ready", "Joined"} => lock = Nobody

(* The result is there when the joiner is told so, and taken once; until   *)
(* task_complete, the task counts in ThreadPool.pending.                   *)
JoinFollows ==
  /\ done => data \in {"Ready", "Joined"}
  /\ data = "Joined" <=> jpc = "joined"
  /\ jpc = "take" => done
  /\ jpc = "none" => /\ state = "IDLE" /\ data = "Pending" /\ pending = 0
                     /\ \A w \in Wakers : wpc[w] = "none"
  /\ data \in {"Pending", "Polling"} /\ jpc # "none" => pending = 1
  /\ \A t \in Threads : pc[t] \in {"wake", "complete"} => pending = 1
  /\ \A t \in Threads : pc[t] = "wake" => ~done

TaskInv == /\ TypeOK /\ OneHolder /\ StateFollows /\ DataFollows /\ JoinFollows
           /\ NeverPanics

(* The inductive invariant of a task and its users. *)
LEMMA TaskInvariant == Spec => []TaskInv
<1>1. Init => TaskInv
  <2> SUFFICES ASSUME Init PROVE TaskInv
    OBVIOUS
  <2> USE DEF Init, Active, Owing
  <2>1. TypeOK BY DEF TypeOK
  <2>2. OneHolder BY DEF OneHolder
  <2>3. StateFollows BY DEF StateFollows
  <2>4. DataFollows BY DEF DataFollows
  <2>5. JoinFollows BY DEF JoinFollows
  <2>6. NeverPanics BY DEF NeverPanics
  <2>q. QED BY <2>1, <2>2, <2>3, <2>4, <2>5, <2>6 DEF TaskInv
<1>2. TaskInv /\ [Next]_vars => TaskInv'
  <2> SUFFICES ASSUME TaskInv, [Next]_vars PROVE TaskInv'
    OBVIOUS
  <2> USE TaskAssumption DEF TaskInv, TypeOK, OneHolder, StateFollows, DataFollows,
        JoinFollows, NeverPanics, Active, Owing, Goto, runVars
  <2>1. CASE Spawn BY <2>1 DEF Spawn
  <2>2. CASE JoinPoll BY <2>2 DEF JoinPoll
  <2>3. CASE JoinWoken BY <2>3 DEF JoinWoken
  <2>4. CASE JoinTake BY <2>4 DEF JoinTake
  <2>5. ASSUME NEW w \in Wakers, Wake(w) PROVE TaskInv'
    BY <2>5 DEF Wake
  <2>6. ASSUME NEW w \in Wakers, WakeSchedule(w) PROVE TaskInv'
    BY <2>6 DEF WakeSchedule
  <2>7. ASSUME NEW t \in Threads, Pop(t) PROVE TaskInv'
    BY <2>7 DEF Pop
  <2>8. ASSUME NEW t \in Threads, Run(t) PROVE TaskInv'
    <3>1. CASE RunLoad(t) BY <3>1 DEF RunLoad
    <3>2. CASE RunStore(t) BY <3>2 DEF RunStore
    <3>3. CASE RunPoll(t)
      <4>1. TypeOK'
        <5>1. wpc' \in [Wakers -> {"none", "idle", "schedule"}]
          BY <3>3 DEF RunPoll
        <5>2. lock' \in Threads \cup {Joiner, Nobody} /\ due' \in BOOLEAN
          BY <3>3 DEF RunPoll
        <5>q. QED BY <3>3, <5>1, <5>2 DEF RunPoll
      <4>2. OneHolder' BY <3>3 DEF RunPoll
      <4>3. StateFollows' BY <3>3 DEF RunPoll
      <4>4. DataFollows' BY <3>3 DEF RunPoll
      <4>5. JoinFollows' BY <3>3 DEF RunPoll
      <4>6. NeverPanics' BY <3>3 DEF RunPoll
      <4>q. QED BY <4>1, <4>2, <4>3, <4>4, <4>5, <4>6
    <3>4. CASE RunPending(t) BY <3>4 DEF RunPending
    <3>5. CASE RunReady(t)
      <4>1. TypeOK' BY <3>5 DEF RunReady
      <4>2. OneHolder' BY <3>5 DEF RunReady
      <4>3. StateFollows' BY <3>5 DEF RunReady
      <4>4. DataFollows' BY <3>5 DEF RunReady
      <4>5. JoinFollows' BY <3>5 DEF RunReady
      <4>6. NeverPanics' BY <3>5 DEF RunReady
      <4>q. QED BY <4>1, <4>2, <4>3, <4>4, <4>5, <4>6
    <3>6. CASE RunToIdle(t) BY <3>6 DEF RunToIdle
    <3>7. CASE RunReschedule(t) BY <3>7 DEF RunReschedule
    <3>8. CASE RunPush(t) BY <3>8 DEF RunPush
    <3>9. CASE RunWake(t) BY <3>9 DEF RunWake
    <3>10. CASE RunComplete(t) BY <3>10 DEF RunComplete
    <3>q. QED BY <2>8, <3>1, <3>2, <3>3, <3>4, <3>5, <3>6, <3>7, <3>8, <3>9, <3>10 DEF Run
  <2>9. CASE UNCHANGED vars BY <2>9 DEF vars
  <2>q. QED BY <2>1, <2>2, <2>3, <2>4, <2>5, <2>6, <2>7, <2>8, <2>9 DEF Next, Join
<1>q. QED BY <1>1, <1>2, PTL DEF Spec

(* The assertions of Task::run and TaskState, the unwraps of the try-lock  *)
(* and the unreachable!s hold, with any number of threads that run tasks   *)
(* and of concurrent wakes.                                                *)
THEOREM TaskNeverPanics == Spec => []NeverPanics
BY TaskInvariant, PTL DEF TaskInv

(* A task that is SCHEDULED is owed exactly one run, and no other task is  *)
(* owed any.                                                               *)
THEOREM TaskScheduledOnce == Spec => []ScheduledOnce
<1>1. TaskInv => ScheduledOnce
  <2> SUFFICES ASSUME TaskInv PROVE ScheduledOnce
    OBVIOUS
  <2> DEFINE W == {w \in Wakers : wpc[w] = "schedule"}
             T == {t \in Threads : pc[t] \in Owing}
  <2>1. Tokens = queued + Cardinality(W) + Cardinality(T)
    BY DEF Tokens, Owing
  <2>2. queued \in {0, 1} /\ Cardinality({}) = 0
    BY FS_EmptySet DEF TaskInv, OneHolder
  <2>3. W = {} \/ \E w \in Wakers : W = {w}
    BY DEF TaskInv, OneHolder
  <2>4. T = {} \/ \E t \in Threads : T = {t}
    BY DEF TaskInv, OneHolder, Owing, Active
  <2>5. ASSUME NEW x PROVE Cardinality({x}) = 1
    BY FS_Singleton
  <2>6. CASE state = "SCHEDULED"
    <3>1. CASE queued = 1
      <4>1. W = {} /\ T = {}
        BY <3>1 DEF TaskInv, OneHolder, Owing, Active
      <4>2. Cardinality(W) = 0 /\ Cardinality(T) = 0
        BY <2>2, <4>1
      <4> HIDE DEF W, T
      <4>q. QED BY <2>1, <2>6, <3>1, <4>2 DEF ScheduledOnce
    <3>2. CASE queued = 0 /\ W # {}
      <4>1. T = {}
        BY <3>2 DEF TaskInv, OneHolder, Owing, Active
      <4>2. Cardinality(W) = 1
        BY <2>3, <2>5, <3>2
      <4>q. QED BY <2>1, <2>2, <2>6, <3>2, <4>1, <4>2 DEF ScheduledOnce
    <3>3. CASE queued = 0 /\ W = {}
      <4>1. T # {}
        BY <2>6, <3>3 DEF TaskInv, StateFollows
      <4>2. Cardinality(T) = 1
        BY <2>4, <2>5, <4>1
      <4>q. QED BY <2>1, <2>2, <2>6, <3>3, <4>2 DEF ScheduledOnce
    <3>q. QED BY <2>2, <3>1, <3>2, <3>3
  <2>7. CASE state # "SCHEDULED"
    <3>1. queued = 0 /\ W = {} /\ T = {}
      BY <2>2, <2>7 DEF TaskInv, StateFollows
    <3>q. QED BY <2>1, <2>2, <2>7, <3>1 DEF ScheduledOnce
  <2>q. QED BY <2>6, <2>7
<1>q. QED BY <1>1, TaskInvariant, PTL
-----------------------------------------------------------------------------
(* A thread in Task::run that has yet to give the state word up. *)
Inside == {"lock", "polling", "to_idle", "notified"}

(* Who answers for a wake: a run that is owed, a run that has yet to poll, *)
(* or one that finds NOTIFIED in the state word when it has polled.        *)
Answered ==
  \/ state = "SCHEDULED"
  \/ \E t \in Threads : pc[t] = "lock"
  \/ state = "NOTIFIED" /\ \E t \in Threads : pc[t] \in Inside

(* A state word that says a future is being run is right until the result  *)
(* is stored, every wake has somebody to answer for it, and a result that  *)
(* is stored is announced or about to be.                                  *)
WakeInv ==
  /\ state \in {"RUNNING", "NOTIFIED"} /\ data \in {"Pending", "Polling"} =>
       \E t \in Threads : pc[t] \in Inside
  /\ due => Answered
  /\ data = "Ready" => done \/ \E t \in Threads : pc[t] = "wake"

(* Every step keeps the answer for a wake and for a result. *)
LEMMA WakeInvariant == Spec => []WakeInv
<1>1. Init => WakeInv
  BY DEF Init, WakeInv
<1>2. TaskInv /\ WakeInv /\ [Next]_vars => WakeInv'
  <2> SUFFICES ASSUME TaskInv, WakeInv, [Next]_vars PROVE WakeInv'
    OBVIOUS
  <2> USE TaskAssumption DEF WakeInv, Answered, Inside, TaskInv, TypeOK, OneHolder,
        StateFollows, DataFollows, JoinFollows, NeverPanics, Active, Owing, Goto, runVars
  <2>1. CASE Spawn BY <2>1 DEF Spawn
  <2>2. CASE JoinPoll BY <2>2 DEF JoinPoll
  <2>3. CASE JoinWoken BY <2>3 DEF JoinWoken
  <2>4. CASE JoinTake BY <2>4 DEF JoinTake
  <2>5. ASSUME NEW w \in Wakers, Wake(w) PROVE WakeInv'
    BY <2>5 DEF Wake
  <2>6. ASSUME NEW w \in Wakers, WakeSchedule(w) PROVE WakeInv'
    BY <2>6 DEF WakeSchedule
  <2>7. ASSUME NEW t \in Threads, Pop(t) PROVE WakeInv'
    BY <2>7 DEF Pop
  <2>8. ASSUME NEW t \in Threads, Run(t) PROVE WakeInv'
    <3>1. CASE RunLoad(t) BY <3>1 DEF RunLoad
    <3>2. CASE RunStore(t) BY <3>2 DEF RunStore
    <3>3. CASE RunPoll(t) BY <3>3 DEF RunPoll
    <3>4. CASE RunPending(t) BY <3>4 DEF RunPending
    <3>5. CASE RunReady(t) BY <3>5 DEF RunReady
    <3>6. CASE RunToIdle(t) BY <3>6 DEF RunToIdle
    <3>7. CASE RunReschedule(t) BY <3>7 DEF RunReschedule
    <3>8. CASE RunPush(t) BY <3>8 DEF RunPush
    <3>9. CASE RunWake(t) BY <3>9 DEF RunWake
    <3>10. CASE RunComplete(t) BY <3>10 DEF RunComplete
    <3>q. QED BY <2>8, <3>1, <3>2, <3>3, <3>4, <3>5, <3>6, <3>7, <3>8, <3>9, <3>10 DEF Run
  <2>9. CASE UNCHANGED vars BY <2>9 DEF vars
  <2>q. QED BY <2>1, <2>2, <2>3, <2>4, <2>5, <2>6, <2>7, <2>8, <2>9 DEF Next, Join
<1>q. QED BY <1>1, <1>2, TaskInvariant, PTL DEF Spec

(* The safety half of WakeNotLost: at no time is there a wake that no      *)
(* poll has followed and that nobody is going to act on, whichever         *)
(* transition of TaskState the wake raced with.                            *)
THEOREM WakesAreAnswered == Spec => [](due => Answered)
BY WakeInvariant, PTL DEF WakeInv

(* The safety half of JoinCompletes: Task::run stores the result before it *)
(* wakes the joiner, so that a joiner that waits while there is a result   *)
(* has been woken or is about to be.                                       *)
THEOREM ResultsAreAnnounced ==
  Spec => [](jpc = "waiting" /\ data = "Ready" => done \/ \E t \in Threads : pc[t] = "wake")
BY WakeInvariant, PTL DEF WakeInv
=============================================================================
