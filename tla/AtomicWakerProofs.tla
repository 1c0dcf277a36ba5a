-------------------------- MODULE AtomicWakerProofs --------------------------
(***************************************************************************)
(* Proofs about module AtomicWaker, for any number of threads that wake.   *)
(***************************************************************************)
EXTENDS AtomicWaker, TLAPS

(* Types: every step of poll, reset and wake leaves every field and local  *)
(* variable in its domain.                                                 *)
THEOREM TypeCorrect == Spec => []TypeOK
<1>1. Init => TypeOK
  BY AtomicWakerAssumption DEF Init, TypeOK
<1>2. TypeOK /\ [Next]_vars => TypeOK'
  <2> SUFFICES ASSUME TypeOK, [Next]_vars PROVE TypeOK'
    OBVIOUS
  <2> USE DEF TypeOK
  <2>1. CASE Poll
    <3>1. CASE PollNotified BY <3>1 DEF PollNotified
    <3>2. ASSUME NEW ctx \in BOOLEAN, PollLoad(ctx) PROVE TypeOK'
      BY <3>2 DEF PollLoad
    <3>3. CASE PollClaim BY <3>3 DEF PollClaim
    <3>4. CASE PollLock BY <3>4 DEF PollLock
    <3>5. CASE PollStore BY <3>5 DEF PollStore
    <3>6. CASE PollPublish BY <3>6 DEF PollPublish
    <3>7. CASE PollReady BY <3>7 DEF PollReady
    <3>8. CASE PollClear BY <3>8 DEF PollClear
    <3>q. QED BY <2>1, <3>1, <3>2, <3>3, <3>4, <3>5, <3>6, <3>7, <3>8 DEF Poll
  <2>2. CASE Reset BY <2>2 DEF Reset
  <2>3. ASSUME NEW w \in Wakers, Wake(w) PROVE TypeOK'
    BY <2>3 DEF Wake, pollVars
  <2>4. ASSUME NEW w \in Wakers, WakeLock(w) PROVE TypeOK'
    BY <2>4 DEF WakeLock, pollVars
  <2>5. ASSUME NEW w \in Wakers, WakeTake(w) PROVE TypeOK'
    <3>1. wpc' \in [Wakers -> {"idle", "lock", "take", "call"}]
      BY <2>5 DEF WakeTake
    <3>q. QED BY <2>5, <3>1 DEF WakeTake, pollVars
  <2>6. ASSUME NEW w \in Wakers, WakeCall(w) PROVE TypeOK'
    BY <2>6 DEF WakeCall, pollVars
  <2>7. CASE UNCHANGED vars BY <2>7 DEF vars, pollVars
  <2>q. QED BY <2>1, <2>2, <2>3, <2>4, <2>5, <2>6, <2>7 DEF Next, WakeStep
<1>q. QED BY <1>1, <1>2, PTL DEF Spec
-----------------------------------------------------------------------------
(* The task is going to be polled again. *)
Covered == woken \/ WakeUnderWay

(* Between the store of the waker and its publication, a wake left over    *)
(* from before a reset may take the waker away; it then calls it.          *)
StoredOrCovered == pc = "publish" => waker \/ Covered

LostWakeInv == TypeOK /\ StoredOrCovered /\ NoLostWake

(* No wake is lost: a task that registered itself and was answered Pending *)
(* still has its waker stored, or has been or will be woken, with resets,  *)
(* polls without a Context and any number of concurrent calls of wake.     *)
THEOREM WakeIsNeverLost == Spec => []NoLostWake
<1>1. Init => LostWakeInv
  BY AtomicWakerAssumption DEF Init, TypeOK, LostWakeInv, StoredOrCovered, NoLostWake
<1>2. LostWakeInv /\ TypeOK' /\ [Next]_vars => LostWakeInv'
  <2> SUFFICES ASSUME LostWakeInv, TypeOK', [Next]_vars
               PROVE StoredOrCovered' /\ NoLostWake'
    BY DEF LostWakeInv
  <2> USE DEF LostWakeInv, TypeOK, StoredOrCovered, NoLostWake, Covered, WakeUnderWay
  <2>1. CASE Poll
    <3>1. CASE PollNotified BY <3>1 DEF PollNotified
    <3>2. ASSUME NEW ctx \in BOOLEAN, PollLoad(ctx)
          PROVE StoredOrCovered' /\ NoLostWake'
      BY <3>2 DEF PollLoad
    <3>3. CASE PollClaim BY <3>3 DEF PollClaim
    <3>4. CASE PollLock BY <3>4 DEF PollLock
    <3>5. CASE PollStore BY <3>5 DEF PollStore
    <3>6. CASE PollPublish BY <3>6 DEF PollPublish
    <3>7. CASE PollReady BY <3>7 DEF PollReady
    <3>8. CASE PollClear BY <3>8 DEF PollClear
    <3>q. QED BY <2>1, <3>1, <3>2, <3>3, <3>4, <3>5, <3>6, <3>7, <3>8 DEF Poll
  <2>2. CASE Reset BY <2>2 DEF Reset
  <2>3. ASSUME NEW w \in Wakers, Wake(w) PROVE StoredOrCovered' /\ NoLostWake'
    BY <2>3 DEF Wake, pollVars
  <2>4. ASSUME NEW w \in Wakers, WakeLock(w) PROVE StoredOrCovered' /\ NoLostWake'
    BY <2>4 DEF WakeLock, pollVars
  <2>5. ASSUME NEW w \in Wakers, WakeTake(w) PROVE StoredOrCovered' /\ NoLostWake'
    BY <2>5 DEF WakeTake, pollVars
  <2>6. ASSUME NEW w \in Wakers, WakeCall(w) PROVE StoredOrCovered' /\ NoLostWake'
    BY <2>6 DEF WakeCall, pollVars
  <2>7. CASE UNCHANGED vars BY <2>7 DEF vars, pollVars
  <2>q. QED BY <2>1, <2>2, <2>3, <2>4, <2>5, <2>6, <2>7 DEF Next, WakeStep
<1>3. LostWakeInv => NoLostWake
  BY DEF LostWakeInv
<1>q. QED BY <1>1, <1>2, <1>3, TypeCorrect, PTL DEF Spec
-----------------------------------------------------------------------------
(* What poll knows at each of its steps, resets or not.                    *)
PollInv ==
  /\ pc \in {"claim", "lock", "store", "publish", "ready"} => ~notified
  /\ pc = "claim" => seen \in {"EMPTY", "WAITING"}
  /\ pc \in {"ready", "clear"} => state = "NOTIFIED"
  /\ pc = "clear" => notified
  /\ answer = "Ready" => notified

(* What the polling task knows between the atomic steps of poll. *)
LEMMA PollInvariant == Spec => []PollInv
<1>1. Init => PollInv
  BY DEF Init, PollInv
<1>2. TypeOK /\ PollInv /\ [Next]_vars => PollInv'
  <2> SUFFICES ASSUME TypeOK, PollInv, [Next]_vars PROVE PollInv'
    OBVIOUS
  <2> USE DEF TypeOK, PollInv
  <2>1. CASE Poll
    <3>1. CASE PollNotified BY <3>1 DEF PollNotified
    <3>2. ASSUME NEW ctx \in BOOLEAN, PollLoad(ctx) PROVE PollInv'
      BY <3>2 DEF PollLoad
    <3>3. CASE PollClaim BY <3>3 DEF PollClaim
    <3>4. CASE PollLock BY <3>4 DEF PollLock
    <3>5. CASE PollStore BY <3>5 DEF PollStore
    <3>6. CASE PollPublish BY <3>6 DEF PollPublish
    <3>7. CASE PollReady BY <3>7 DEF PollReady
    <3>8. CASE PollClear BY <3>8 DEF PollClear
    <3>q. QED BY <2>1, <3>1, <3>2, <3>3, <3>4, <3>5, <3>6, <3>7, <3>8 DEF Poll
  <2>2. CASE Reset BY <2>2 DEF Reset
  <2>3. ASSUME NEW w \in Wakers, Wake(w) PROVE PollInv'
    BY <2>3 DEF Wake, pollVars
  <2>4. ASSUME NEW w \in Wakers, WakeStep(w) PROVE PollInv'
    BY <2>4 DEF WakeStep, WakeLock, WakeTake, WakeCall, pollVars
  <2>5. CASE UNCHANGED vars BY <2>5 DEF vars, pollVars
  <2>q. QED BY <2>1, <2>2, <2>3, <2>4, <2>5 DEF Next
<1>q. QED BY <1>1, <1>2, TypeCorrect, PTL DEF Spec

(* The detailed poll, wake and reset implement the latch of WakeLatch: no  *)
(* poll answers Ready without a wake, none answers Pending after one that  *)
(* was not consumed, and a wake is consumed at most once, whatever the     *)
(* interleaving of the atomic steps.                                       *)
THEOREM LatchRefinement == Spec => ImplementsLatch
<1>1. Init => Latch!Init
  BY DEF Init, Latch!Init
<1>2. TypeOK /\ PollInv /\ [Next]_vars => [Latch!Next]_(Latch!latchVars)
  <2> SUFFICES ASSUME TypeOK, PollInv, [Next]_vars
               PROVE Latch!Next \/ UNCHANGED Latch!latchVars
    OBVIOUS
  <2> USE DEF TypeOK, PollInv, Latch!Next, Latch!latchVars
  <2>1. CASE Poll
    <3>1. CASE PollNotified BY <3>1 DEF PollNotified, Latch!AnswerReady
    <3>2. ASSUME NEW ctx \in BOOLEAN, PollLoad(ctx)
          PROVE Latch!Next \/ UNCHANGED Latch!latchVars
      BY <3>2 DEF PollLoad, Latch!AnswerPending
    <3>3. CASE PollClaim BY <3>3 DEF PollClaim
    <3>4. CASE PollLock BY <3>4 DEF PollLock
    <3>5. CASE PollStore BY <3>5 DEF PollStore
    <3>6. CASE PollPublish BY <3>6 DEF PollPublish, Latch!AnswerPending
    <3>7. CASE PollReady BY <3>7 DEF PollReady, Latch!Consume
    <3>8. CASE PollClear BY <3>8 DEF PollClear, Latch!AnswerReady
    <3>q. QED BY <2>1, <3>1, <3>2, <3>3, <3>4, <3>5, <3>6, <3>7, <3>8 DEF Poll
  <2>2. CASE Reset BY <2>2 DEF Reset, Latch!Reset
  <2>3. ASSUME NEW w \in Wakers, Wake(w)
        PROVE Latch!Next \/ UNCHANGED Latch!latchVars
    BY <2>3 DEF Wake, pollVars, Latch!Wake
  <2>4. ASSUME NEW w \in Wakers, WakeStep(w)
        PROVE Latch!Next \/ UNCHANGED Latch!latchVars
    BY <2>4 DEF WakeStep, WakeLock, WakeTake, WakeCall, pollVars
  <2>5. CASE UNCHANGED vars BY <2>5 DEF vars, pollVars
  <2>q. QED BY <2>1, <2>2, <2>3, <2>4, <2>5 DEF Next
<1>q. QED BY <1>1, <1>2, TypeCorrect, PollInvariant, PTL
          DEF Spec, ImplementsLatch, Latch!Spec
-----------------------------------------------------------------------------
(* Without reset: a wake is in its critical section only after a swap that *)
(* ended the last registration, so that no poll comes to the mutex again,  *)
(* and the state word follows the steps of poll.                           *)
Taking(w) == wpc[w] \in {"lock", "take"}

OnceInv ==
  /\ pc # "panic"
  /\ pc = "idle" => state # "UPDATING"
  /\ pc = "claim" => state \in {seen, "NOTIFIED"}
  /\ pc \in {"lock", "store", "publish"} =>
       state \in {"UPDATING", "NOTIFIED"} /\ \A w \in Wakers : ~Taking(w)
  /\ \A w \in Wakers : Taking(w) => state = "NOTIFIED" \/ notified
  /\ \A w \in Wakers : lock = w => wpc[w] = "take"
  /\ lock = Poller => pc = "store"

(* A waker that is never reset (those of tasks and timer entries) never    *)
(* meets the unreachable!s of poll or a mutex that is taken.               *)
THEOREM PollIsSafeWithoutReset == Spec => []PollNeverPanics
<1>1. Init => (~resets => OnceInv)
  BY AtomicWakerAssumption DEF Init, OnceInv, Taking
<1>2. TypeOK /\ PollInv /\ (~resets => OnceInv) /\ [Next]_vars => (~resets => OnceInv)'
  <2>0. [Next]_vars => resets' = resets
    BY DEF Next, Poll, PollNotified, PollLoad, PollClaim, PollLock, PollStore,
           PollPublish, PollReady, PollClear, Reset, Wake, WakeStep, WakeLock,
           WakeTake, WakeCall, vars
  <2> SUFFICES ASSUME TypeOK, PollInv, ~resets, OnceInv, [Next]_vars PROVE OnceInv'
    BY <2>0
  <2> USE AtomicWakerAssumption DEF TypeOK, PollInv, OnceInv, Taking
  <2>1. CASE Poll
    <3>1. CASE PollNotified BY <3>1 DEF PollNotified
    <3>2. ASSUME NEW ctx \in BOOLEAN, PollLoad(ctx) PROVE OnceInv'
      BY <3>2 DEF PollLoad
    <3>3. CASE PollClaim BY <3>3 DEF PollClaim
    <3>4. CASE PollLock BY <3>4 DEF PollLock
    <3>5. CASE PollStore BY <3>5 DEF PollStore
    <3>6. CASE PollPublish BY <3>6 DEF PollPublish
    <3>7. CASE PollReady BY <3>7 DEF PollReady
    <3>8. CASE PollClear BY <3>8 DEF PollClear
    <3>q. QED BY <2>1, <3>1, <3>2, <3>3, <3>4, <3>5, <3>6, <3>7, <3>8 DEF Poll
  <2>2. ~Reset
    BY DEF Reset
  <2>3. ASSUME NEW w \in Wakers, Wake(w) PROVE OnceInv'
    BY <2>3 DEF Wake, pollVars
  <2>4. ASSUME NEW w \in Wakers, WakeLock(w) PROVE OnceInv'
    BY <2>4 DEF WakeLock, pollVars
  <2>5. ASSUME NEW w \in Wakers, WakeTake(w) PROVE OnceInv'
    BY <2>5 DEF WakeTake, pollVars
  <2>6. ASSUME NEW w \in Wakers, WakeCall(w) PROVE OnceInv'
    BY <2>6 DEF WakeCall, pollVars
  <2>7. CASE UNCHANGED vars BY <2>7 DEF vars, pollVars
  <2>q. QED BY <2>1, <2>2, <2>3, <2>4, <2>5, <2>6, <2>7 DEF Next, WakeStep
<1>3. (~resets => OnceInv) => PollNeverPanics
  BY DEF OnceInv, PollNeverPanics
<1>q. QED BY <1>1, <1>2, <1>3, TypeCorrect, PollInvariant, PTL DEF Spec
=============================================================================
