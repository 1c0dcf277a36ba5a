------------------------------ MODULE WakeLatch ------------------------------
(***************************************************************************)
(* What AtomicWaker promises the one task that polls it: a latch.  wake    *)
(* raises a signal, a poll that meets the signal consumes it and answers   *)
(* Ready until reset, and no poll answers Ready without a signal.          *)
(***************************************************************************)
VARIABLES
  signal,  \* a wake that no poll has consumed
  ready,   \* a poll has answered Ready and nobody has called reset
  answer   \* what the last call of the polling task returned

latchVars == <<signal, ready, answer>>

Init == signal = FALSE /\ ready = FALSE /\ answer = "None"

Wake == signal' = TRUE /\ UNCHANGED <<ready, answer>>

(* A poll consumes the signal before it returns ... *)
Consume ==
  /\ signal /\ ~ready
  /\ signal' = FALSE /\ ready' = TRUE
  /\ UNCHANGED answer

(* ... and answers Ready from then on. *)
AnswerReady == ready /\ answer' = "Ready" /\ UNCHANGED <<signal, ready>>

(* A poll that answers Pending met no signal. *)
AnswerPending ==
  /\ ~signal /\ ~ready
  /\ answer' = "Pending"
  /\ UNCHANGED <<signal, ready>>

Reset ==
  /\ ready /\ ready' = FALSE
  /\ answer' = "None"
  /\ UNCHANGED signal

Next == Wake \/ Consume \/ AnswerReady \/ AnswerPending \/ Reset

Spec == Init /\ [][Next]_latchVars
=============================================================================
