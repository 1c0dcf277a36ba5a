----------------------------- MODULE AtomicWaker -----------------------------
(***************************************************************************)
(* sync/internal/waker.rs: AtomicWaker, polled by one task and woken by    *)
(* any number of threads.  A step is one atomic operation or one use of    *)
(* the waker mutex.  The task's own waker is the only one ever stored, so  *)
(* that `waker` only says whether one is there.  An operator that no       *)
(* action uses (PollPublishBlind, ...) is the one below it with a mistake. *)
(***************************************************************************)
CONSTANTS
  Wakers,  \* threads that call wake
  Poller,  \* the thread that polls the task
  Nobody

ASSUME AtomicWakerAssumption ==
  /\ Poller \notin Wakers
  /\ Nobody \notin Wakers \cup {Poller}

VARIABLES
  resets,    \* whether the user of this waker calls reset
  state,     \* AtomicWaker.state
  notified,  \* AtomicWaker.notified
  waker,     \* whether AtomicWaker.waker is Some
  lock,      \* who holds the mutex of AtomicWaker.waker
  pc,        \* where the polling task is in poll
  seen,      \* the state that poll loaded
  answer,    \* what its last poll returned, "None" before that and after reset
  woken,     \* its waker was called since it last started to poll
  wpc        \* where each thread is in wake

pollVars == <<pc, seen, answer>>
vars == <<resets, state, notified, waker, lock, pollVars, woken, wpc>>

Init ==
  /\ resets \in BOOLEAN
  /\ state = "EMPTY" /\ notified = FALSE
  /\ waker = FALSE /\ lock = Nobody
  /\ pc = "idle" /\ seen = "EMPTY" /\ answer = "None"
  /\ woken = FALSE
  /\ wpc = [w \in Wakers |-> "idle"]
-----------------------------------------------------------------------------
(* AtomicWaker::poll.  It returns at once if it was notified before. *)
PollNotified ==
  /\ pc = "idle" /\ notified
  /\ answer' = "Ready" /\ woken' = FALSE
  /\ UNCHANGED <<resets, state, notified, waker, lock, pc, seen, wpc>>

(* The load of the state.  Without a Context (ctx = FALSE) the poll only   *)
(* looks, registers nothing and returns Pending ("WouldBlock").            *)
PollLoad(ctx) ==
  /\ pc = "idle" /\ ~notified
  /\ woken' = FALSE
  /\ seen' = state
  /\ pc' = CASE state = "NOTIFIED" -> "ready"
             [] state = "UPDATING" -> "panic"
             [] OTHER -> IF ctx THEN "claim" ELSE "idle"
  /\ answer' = IF pc' = "idle" THEN "WouldBlock" ELSE answer
  /\ UNCHANGED <<resets, state, notified, waker, lock, wpc>>

(* compare_exchange(state, UPDATING); only a wake can have come between. *)
PollClaim ==
  /\ pc = "claim"
  /\ state' = IF state = seen THEN "UPDATING" ELSE state
  /\ pc' = CASE state = seen -> "lock"
             [] state = "NOTIFIED" -> "ready"
             [] OTHER -> "panic"
  /\ UNCHANGED <<resets, notified, waker, lock, seen, answer, woken, wpc>>

(* waker.try_lock().unwrap() *)
PollLock ==
  /\ pc = "lock"
  /\ lock' = IF lock = Nobody THEN Poller ELSE lock
  /\ pc' = IF lock = Nobody THEN "store" ELSE "panic"
  /\ UNCHANGED <<resets, state, notified, waker, seen, answer, woken, wpc>>

PollStore ==
  /\ pc = "store"
  /\ waker' = TRUE /\ lock' = Nobody
  /\ pc' = "publish"
  /\ UNCHANGED <<resets, state, notified, seen, answer, woken, wpc>>

PollPublishBlind ==
  /\ pc = "publish"
  /\ state' = "WAITING"
  /\ pc' = "idle" /\ answer' = "Pending"
  /\ UNCHANGED <<resets, notified, waker, lock, seen, woken, wpc>>

(* compare_exchange(UPDATING, WAITING) *)
PollPublish ==
  /\ pc = "publish"
  /\ IF state = "UPDATING"
     THEN state' = "WAITING" /\ pc' = "idle" /\ answer' = "Pending"
     ELSE /\ pc' = IF state = "NOTIFIED" THEN "ready" ELSE "panic"
          /\ UNCHANGED <<state, answer>>
  /\ UNCHANGED <<resets, notified, waker, lock, seen, woken, wpc>>

PollReadyUnmarked ==
  /\ pc = "ready"
  /\ pc' = "clear"
  /\ UNCHANGED <<resets, state, notified, waker, lock, seen, answer, woken, wpc>>

PollReady ==
  /\ pc = "ready"
  /\ notified' = TRUE
  /\ pc' = "clear"
  /\ UNCHANGED <<resets, state, waker, lock, seen, answer, woken, wpc>>

PollClear ==
  /\ pc = "clear"
  /\ state' = "EMPTY"
  /\ pc' = "idle" /\ answer' = "Ready"
  /\ UNCHANGED <<resets, notified, waker, lock, seen, woken, wpc>>

(* AtomicWaker::reset, by the task that was told Ready. *)
Reset ==
  /\ resets
  /\ pc = "idle" /\ answer = "Ready"
  /\ pc' = IF notified THEN "idle" ELSE "panic"
  /\ notified' = FALSE /\ answer' = "None"
  /\ UNCHANGED <<resets, state, waker, lock, seen, woken, wpc>>
-----------------------------------------------------------------------------
(* AtomicWaker::wake.  A wake that finds the state NOTIFIED does nothing. *)
Wake(w) ==
  /\ wpc[w] = "idle"
  /\ state # "NOTIFIED"
  /\ state' = "NOTIFIED"
  /\ wpc' = [wpc EXCEPT ![w] = IF state = "WAITING" THEN "lock" ELSE "idle"]
  /\ UNCHANGED <<resets, notified, waker, lock, pollVars, woken>>

WakeLock(w) ==
  /\ wpc[w] = "lock" /\ lock = Nobody
  /\ lock' = w
  /\ wpc' = [wpc EXCEPT ![w] = "take"]
  /\ UNCHANGED <<resets, state, notified, waker, pollVars, woken>>

WakeTakeDrops(w) ==
  /\ wpc[w] = "take"
  /\ waker' = FALSE /\ lock' = Nobody
  /\ wpc' = [wpc EXCEPT ![w] = "idle"]
  /\ UNCHANGED <<resets, state, notified, pollVars, woken>>

WakeTake(w) ==
  /\ wpc[w] = "take"
  /\ waker' = FALSE /\ lock' = Nobody
  /\ wpc' = [wpc EXCEPT ![w] = IF waker THEN "call" ELSE "idle"]
  /\ UNCHANGED <<resets, state, notified, pollVars, woken>>

(* Waker::wake makes the task ready to be polled. *)
WakeCall(w) ==
  /\ wpc[w] = "call"
  /\ woken' = TRUE
  /\ wpc' = [wpc EXCEPT ![w] = "idle"]
  /\ UNCHANGED <<resets, state, notified, waker, lock, pollVars>>

Poll == \/ PollNotified \/ (\E ctx \in BOOLEAN : PollLoad(ctx)) \/ PollClaim
        \/ PollLock \/ PollStore \/ PollPublish \/ PollReady \/ PollClear

WakeStep(w) == WakeLock(w) \/ WakeTake(w) \/ WakeCall(w)

Next == \/ Poll \/ Reset
        \/ \E w \in Wakers : Wake(w) \/ WakeStep(w)

Spec == Init /\ [][Next]_vars

(* A call of wake or poll that has begun is carried through, and a task    *)
(* whose waker was called is polled again, with its Context.               *)
FairSpec ==
  /\ Spec
  /\ WF_vars(pc # "idle" /\ Poll)
  /\ WF_vars(woken /\ (PollNotified \/ PollLoad(TRUE)))
  /\ \A w \in Wakers : WF_vars(WakeStep(w))
-----------------------------------------------------------------------------
(* The values of the state word, the fields and the local variables. *)
TypeOK ==
  /\ resets \in BOOLEAN
  /\ state \in {"EMPTY", "UPDATING", "WAITING", "NOTIFIED"}
  /\ notified \in BOOLEAN /\ waker \in BOOLEAN /\ woken \in BOOLEAN
  /\ lock \in Wakers \cup {Poller, Nobody}
  /\ pc \in {"idle", "claim", "lock", "store", "publish", "ready", "clear", "panic"}
  /\ seen \in {"EMPTY", "UPDATING", "WAITING", "NOTIFIED"}
  /\ answer \in {"None", "Pending", "WouldBlock", "Ready"}
  /\ wpc \in [Wakers -> {"idle", "lock", "take", "call"}]

(* Some thread in wake is going to call the task's waker. *)
WakeUnderWay ==
  \E w \in Wakers : wpc[w] = "call" \/ (wpc[w] \in {"lock", "take"} /\ waker)

(* A registered task is never stranded: when its poll has stored the waker *)
(* and returned Pending, either nobody has called wake and the waker is    *)
(* still there, or it has been called or is about to be.                   *)
NoLostWake ==
  pc = "idle" /\ answer = "Pending"
    => \/ woken \/ WakeUnderWay
       \/ state = "WAITING" /\ waker

(* The unreachable!s and assertions of poll and the unwrap of its try_lock *)
(* hold when nobody calls reset (tasks and timers).                        *)
PollNeverPanics == ~resets => pc # "panic"

(* The unwrap of waker.try_lock() in poll: no wake still holds the mutex   *)
(* when the task registers itself again.                                   *)
TryLockFree == pc = "lock" => lock = Nobody

(* A wake of a registered task leads to a poll that answers Ready.         *)
WakeLeadsToReady ==
  (state = "NOTIFIED" /\ pc = "idle" /\ answer = "Pending") ~> (answer = "Ready" \/ pc = "panic")

(* poll, wake and reset implement the latch. *)
Latch == INSTANCE WakeLatch WITH
  signal <- state = "NOTIFIED" /\ pc # "clear",
  ready <- notified,
  answer <- IF answer = "WouldBlock" THEN "Pending" ELSE answer

ImplementsLatch == Latch!Spec
=============================================================================
