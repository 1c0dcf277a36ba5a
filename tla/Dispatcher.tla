------------------------------ MODULE Dispatcher ------------------------------
(***************************************************************************)
(* What the executor promises the tasks of the application: a task that is *)
(* scheduled is run once, by one worker, and a worker runs one task at a   *)
(* time.  Queues, thieves, searching threads and the threads behind the    *)
(* workers do not exist here.                                              *)
(***************************************************************************)
CONSTANTS Workers, Tasks

VARIABLES
  queued,  \* the tasks that are owed a run
  running  \* the pairs <<w, k>> of a worker and the task that it has taken up

dispatchVars == <<queued, running>>

Idle == Tasks \ (queued \cup {run[2] : run \in running})

Free(w) == \A run \in running : run[1] # w

Init == queued = {} /\ running = {}

(* A spawn, a wake or the events of the network make tasks runnable. *)
Submit ==
  /\ UNCHANGED running
  /\ \E woken \in SUBSET Idle : queued' = queued \cup woken

(* A free worker takes up a task, which may be one of those that it has    *)
(* just made runnable by polling its timers or the network.                *)
Take(w, k) ==
  /\ Free(w)
  /\ running' = running \cup {<<w, k>>}
  /\ \E woken \in SUBSET Idle :
       /\ k \in queued \cup woken
       /\ queued' = (queued \cup woken) \ {k}

(* A task that ran is suspended or complete ... *)
Suspend(w, k) ==
  /\ <<w, k>> \in running
  /\ running' = running \ {<<w, k>>}
  /\ UNCHANGED queued

(* ... or it was woken while it ran, and is owed another run. *)
Yield(w, k) ==
  /\ <<w, k>> \in running
  /\ running' = running \ {<<w, k>>}
  /\ queued' = queued \cup {k}

Next ==
  \/ Submit
  \/ \E w \in Workers, k \in Tasks : Take(w, k) \/ Suspend(w, k) \/ Yield(w, k)

Spec == Init /\ [][Next]_dispatchVars
=============================================================================
