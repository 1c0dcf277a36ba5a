------------------------------- MODULE RunOrder -------------------------------
(***************************************************************************)
(* The scheduler with the order of its run queues: which runnable a worker *)
(* takes from its own queue, and whether every one of them gets its turn.  *)
(* Scheduler lets Producer::pop take any element; here the deque of each   *)
(* worker has an oldest and a newest end, a pop takes the newest, or the   *)
(* oldest when it has to be fair, and thieves take from the oldest end.    *)
(*                                                                         *)
(* Every step is a step of Scheduler.  WorkerContext.tick is abstracted to *)
(* its effect: a pass of poll_worker has be_fair set or not, and among the *)
(* passes that find something the fair ones recur (every 61st does).       *)
(* Timers and sockets are left out: a pass has no events.                  *)
(***************************************************************************)
EXTENDS Scheduler, SequencesExt

CONSTANT Programs  \* the tasks and pool threads that there are, a set of choices

ASSUME OrderAssumption ==
  /\ Programs \subseteq [tasks : SUBSET Tasks, pool : SUBSET Pool]
  /\ ~NetPending /\ ~Timers

VARIABLES
  deque,   \* Producer.worker, from the oldest runnable to the newest
  beFair,  \* Producer.be_fair
  program  \* the choice of Programs, which never changes

orderVars == <<vars, deque, beFair, program>>

(* Producer::push by the owner of the queue. *)
Pushed(t) ==
  LET w == worker[t] IN
  \E k \in (runq'[w] \ runq[w]) \cap program.tasks :
    deque' = [deque EXCEPT ![w] = Append(@, k)]

ScheduleLocal(t) ==
  /\ worker[t] # NoWorker /\ Schedule(t) /\ Pushed(t)
  /\ UNCHANGED <<beFair, program>>

(* A task that was notified while it ran is pushed again and asks for a    *)
(* fair pop.  One task alone makes no queue with two ends: the cell is not *)
(* kept then.                                                              *)
YieldFair(t) ==
  /\ TaskYield(t) /\ Pushed(t)
  /\ beFair' = [beFair EXCEPT ![worker[t]] = Cardinality(program.tasks) > 1]
  /\ UNCHANGED program

PoppedNewest(t, fair) ==
  LET w == worker[t] IN
  /\ PopLocal(t)
  /\ held'[t] = Last(deque[w])
  /\ deque' = [deque EXCEPT ![w] = Front(@)]

(* Producer::pop of a queue that is not empty: LIFO, or from the other end *)
(* through the queue's own stealer.                                        *)
Popped(t, fair) ==
  LET w == worker[t] IN
  /\ PopLocal(t)
  /\ held'[t] = (IF fair THEN Head(deque[w]) ELSE Last(deque[w]))
  /\ deque' = [deque EXCEPT ![w] = IF fair THEN Tail(@) ELSE Front(@)]

(* be_fair || self.be_fair.replace(false): the cell is consulted, and      *)
(* cleared, unless the tick has made the pop fair.                         *)
PopByTick(t) == Popped(t, TRUE) /\ UNCHANGED <<beFair, program>>

PopByCell(t) ==
  /\ Popped(t, beFair[worker[t]])
  /\ beFair' = [beFair EXCEPT ![worker[t]] = FALSE]
  /\ UNCHANGED program

(* The pop that precedes search_begin finds the queue empty. *)
PopNone(t) ==
  /\ SearchBegin(t)
  /\ beFair' \in {beFair, [beFair EXCEPT ![worker[t]] = FALSE]}
  /\ UNCHANGED <<deque, program>>

(* Producer::consume and Producer::steal: a victim loses its oldest        *)
(* runnables, a batch lands at the newest end of the thief's deque.  In    *)
(* what order it lands is left open.                                       *)
Batched(t) ==
  LET w == worker[t]
      Rest(v) == SubSeq(deque[v], Cardinality(runq[v] \ runq'[v]) + 1, Len(deque[v]))
  IN
  /\ \A v \in Workers \ {w} : ToSet(Rest(v)) = runq'[v]
  /\ \E batch \in SetToSeqs(runq'[w] \ runq[w]) :
       deque' = [v \in Workers |-> IF v = w THEN deque[w] \o batch ELSE Rest(v)]
  /\ UNCHANGED <<beFair, program>>

ConsumeBatch(t) == Consume(t) /\ Batched(t)
StealBatchFrom(t, v) == StealFrom(t, v) /\ Batched(t)

(* Threads and tasks that the program does not have do nothing: thread     *)
(* creation fails without them.                                            *)
Present ==
  /\ \A p \in Pool \ program.pool : pc[p] = "off"
  /\ Tasks \ program.tasks \subseteq Away

(* The steps that leave the run queues alone. *)
Elsewhere(t) ==
  /\ Executor(t) \/ ThreadPool(t) \/ WorkerLoop(t) \/ Environment(t)
  /\ pc[t] = "search" => pc'[t] = "release"
  /\ pc[t] # "work" /\ UNCHANGED <<runq, deque, beFair, program>>
  /\ Present'

OrderInit ==
  /\ Init
  /\ deque = [w \in Workers |-> <<>>]
  /\ beFair = [w \in Workers |-> FALSE]
  /\ program \in Programs

OrderNext ==
  \E t \in Threads :
    \/ ScheduleLocal(t) \/ YieldFair(t)
    \/ PopByTick(t) \/ PopByCell(t) \/ PopNone(t)
    \/ ConsumeBatch(t) \/ (\E v \in Workers : StealBatchFrom(t, v))
    \/ Elsewhere(t)

(* A pass with be_fair set and a queue that is not empty.  It tries the    *)
(* injector first, which may be empty, or have a runnable a moment later.  *)
FairPass(t) ==
  /\ pc[t] = "work" /\ runq[worker[t]] # {}
  /\ PopByTick(t) \/ ConsumeBatch(t)

(* The tick of a thread advances whenever poll returns a runnable, hence   *)
(* on every pass with a queue that is not empty: a thread that makes such  *)
(* passes for ever makes fair ones for ever.  Nothing is assumed of what   *)
(* it takes then: the injector may have something each time.               *)
OrderSpec ==
  /\ OrderInit /\ [][OrderNext]_orderVars
  /\ Fairness
  /\ \A t \in Threads : SF_orderVars(FairPass(t))
-----------------------------------------------------------------------------
(* k is in the queue of a worker that some thread has.  A thread whose     *)
(* spawn tries parkers that time out, perhaps for ever, is left out.       *)
Waits(k) ==
  \E t \in Threads :
    worker[t] # NoWorker /\ k \in runq[worker[t]] /\ pc[t] # "unpark_some"

(* What a thread pushes to the queue of its own worker is run in the end,  *)
(* or left to others by the end of its block_on, whoever else had its      *)
(* notify suppressed, however often its own future wakes itself, and       *)
(* whatever other tasks are spawned, woken or yield in the meantime.  Only *)
(* outside work that keeps coming can hold it up, for a fair pass puts the *)
(* injector first.                                                         *)
LocalWorkRuns ==
  \A k \in Tasks : Waits(k) ~> ~Waits(k) \/ injector # {} \/ Panicked
=============================================================================
