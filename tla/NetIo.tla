-------------------------------- MODULE NetIo --------------------------------
(***************************************************************************)
(* net/internal and net/tcp: sources (TCP streams and listeners) that      *)
(* register with the network poller, the tasks that read and write through *)
(* them, and the threads that select events and wake those tasks.          *)
(*                                                                         *)
(* The AtomicWaker of a slot is what AtomicWaker.tla shows it to be: the   *)
(* latch of WakeLatch.tla and the task to wake.  A poll or a wake of it is *)
(* one step.  What a thread does to fields that it alone touches is part   *)
(* of its next step on shared state; a call that fails with Interrupted is *)
(* made again and shows no step.  An operator that no action uses          *)
(* (AllocKeeps, ...) is the one below it with a mistake.                   *)
(***************************************************************************)
EXTENDS Naturals, Sequences, FiniteSets

CONSTANTS
  Streams, Listeners,       \* the sources
  Pollers,                  \* threads that poll the network
  Programs,                 \* what programs may do, see below
  Nobody,
  NUM_BLOCKS, NUM_ENTRIES,  \* of WakerStorage
  BUDGET                    \* of a Pollable

Sources == Streams \cup Listeners
Kinds == {"Read", "Write"}

(* One direction of a source, and the task that drives it. *)
Ends == (Sources \X {"Read"}) \cup (Streams \X {"Write"})
EndsOf(c) == {e \in Ends : e[1] = c}

ASSUME NetIoAssumption ==
  /\ IsFiniteSet(Streams) /\ IsFiniteSet(Listeners)
  /\ Streams \cap Listeners = {}
  /\ Programs \subseteq
       [ends : SUBSET Ends, splits : BOOLEAN, pollers : SUBSET Pollers]
  /\ Nobody \notin Ends \cup Pollers
  /\ NUM_BLOCKS \in 1 .. 2^16 /\ NUM_ENTRIES \in 1 .. 2^16
  /\ BUDGET \in Nat \ {0}

(* WakerIndex, and its conversions to and from the token of an event *)
Slots == [block : 0 .. NUM_BLOCKS - 1, entry : 0 .. NUM_ENTRIES - 1]
NoSlot == [block |-> NUM_BLOCKS, entry |-> 0]
Token(i) == i.block * 2^16 + i.entry
Index(token) == [block |-> (token \div 2^16) % 2^16, entry |-> token % 2^16]

VARIABLES
  program,    \* the ends that the program drives, whether it splits streams
              \* and the threads that poll
  next_block, available,  \* WakerAllocator
  latch,      \* WakerStorage.array: the AtomicWaker of each slot and kind
  fresh,      \* slots that no Pollable has given back
  pending,    \* Poller.pending
  selector,   \* who holds Poller.selector
  batch,      \* the wakes each thread in PollEvents::process has still to do
  phase,      \* whether the Pollable of a source is there or being dropped
  index,      \* Pollable.index
  halves,     \* the owned halves of a stream, {} while it is whole
  shutdown_on_drop,       \* of the OwnedWriteHalf
  shut,       \* shutdown(Write) was called on the stream
  pendings, budgets,      \* of the Pollable, by end
  pc,         \* where the task of an end is in poll_io
  call,       \* which call of poll_io it makes
  woken,      \* its waker was called during this call
  level,      \* kernel: an operation on this end would not block
  edge,       \* kernel: level rose and no select has reported it
  reported    \* the ends in fresh slots that a select has reported ready

slotVars == <<next_block, available, fresh>>
eventVars == <<selector, batch>>
streamVars == <<halves, shutdown_on_drop, shut>>
sourceVars == <<phase, index, streamVars>>
callVars == <<pc, call, woken>>
kernelVars == <<level, edge, reported>>
vars == <<program, slotVars, latch, pending, eventVars, sourceVars,
          pendings, budgets, callVars, kernelVars>>

(* The ways to call poll_io: an operation on the source, polled with a     *)
(* Context ("io"); one that always succeeds (readable, writable,           *)
(* poll_read_ready, poll_write_ready, the wait of connect: "ready"); and   *)
(* without a Context (try_io: "try").  A listener only accepts.            *)
CallsOf(e) ==
  IF e[1] \in Listeners THEN {"io", "try"} ELSE {"io", "ready", "try"}

driven == program.ends

LatchOf(e) == latch[index[e[1]]][e[2]]

Init ==
  /\ program \in Programs
  /\ next_block = 0 /\ available = <<>> /\ fresh = Slots
  /\ latch = [s \in Slots |-> [k \in Kinds |->
                [signal |-> FALSE, ready |-> FALSE, task |-> Nobody]]]
  /\ pending = 0
  /\ selector = Nobody /\ batch = [p \in Pollers |-> {}]
  /\ phase = [c \in Sources |-> "closed"]
  /\ index = [c \in Sources |-> NoSlot]
  /\ halves = [c \in Sources |-> {}]
  /\ shutdown_on_drop = [c \in Sources |-> FALSE]
  /\ shut = [c \in Sources |-> FALSE]
  /\ pendings = [e \in Ends |-> FALSE]
  /\ budgets = [e \in Ends |-> BUDGET]
  /\ pc = [e \in Ends |-> "idle"]
  /\ call = [e \in Ends |-> "none"]
  /\ woken = [e \in Ends |-> FALSE]
  /\ level = [e \in Ends |-> FALSE]
  /\ edge = [e \in Ends |-> FALSE]
  /\ reported = {}
-----------------------------------------------------------------------------
(* WakerStorage::alloc: what is available after a block was added, which   *)
(* it is if nothing was left.                                              *)
NewBlock == [i \in 1 .. NUM_ENTRIES |->
               [block |-> next_block, entry |-> NUM_ENTRIES - i]]

Refilled ==
  IF available = <<>> /\ next_block < NUM_BLOCKS THEN NewBlock ELSE available

RefillBlocks ==
  next_block' = IF available = <<>> /\ next_block < NUM_BLOCKS
                THEN next_block + 1 ELSE next_block

AllocKeeps(c) ==
  /\ Refilled # <<>> /\ RefillBlocks
  /\ available' = Refilled
  /\ index' = [index EXCEPT ![c] = Refilled[Len(Refilled)]]

(* It takes the last one. *)
Alloc(c) ==
  /\ Refilled # <<>> /\ RefillBlocks
  /\ available' = SubSeq(Refilled, 1, Len(Refilled) - 1)
  /\ index' = [index EXCEPT ![c] = Refilled[Len(Refilled)]]

(* Poller::register and Pollable::new: the selector will report what the   *)
(* source is ready for already.                                            *)
New(c) ==
  /\ phase[c] = "closed" /\ EndsOf(c) \cap driven # {}
  /\ Alloc(c)
  /\ phase' = [phase EXCEPT ![c] = "open"]
  /\ \E ready \in SUBSET (EndsOf(c) \cap driven) :
       /\ level' = [e \in Ends |-> level[e] \/ e \in ready]
       /\ edge' = [e \in Ends |-> edge[e] \/ e \in ready]

(* The registry refuses the source: its slot goes back where it was.       *)
(* Without a slot (OutOfMemory) nothing changes.                           *)
RegisterFails(c) ==
  /\ phase[c] = "closed" /\ EndsOf(c) \cap driven # {}
  /\ available' = Refilled /\ RefillBlocks
  /\ UNCHANGED <<phase, index, level, edge>>

(* TcpListener::bind, TcpStream::from_std and the first half of connect *)
Open(c) ==
  /\ New(c) \/ RegisterFails(c)
  /\ UNCHANGED <<program, fresh, latch, pending, eventVars, streamVars,
                 pendings, budgets, callVars, reported>>
-----------------------------------------------------------------------------
(* AtomicWaker::wake on a slot: the task that is registered is woken. *)
WakeSlot(s, kinds) ==
  /\ latch' = [latch EXCEPT ![s] = [k \in Kinds |->
                 IF k \in kinds
                 THEN [@[k] EXCEPT !.signal = TRUE, !.task = Nobody]
                 ELSE @[k]]]
  /\ woken' = [e \in Ends |->
                 \/ woken[e]
                 \/ pc[e] # "idle" /\ e \in {latch[s][k].task : k \in kinds}]

(* Drop of the Pollable, up to its deregistration *)
DropPollableSilent(c) ==
  /\ phase' = [phase EXCEPT ![c] = "dropping"]
  /\ pending' = pending - Cardinality({e \in EndsOf(c) : pendings[e]})
  /\ pendings' = [e \in Ends |-> pendings[e] /\ e \notin EndsOf(c)]
  /\ UNCHANGED <<latch, woken>>

DropPollableUncounted(c) ==
  /\ phase' = [phase EXCEPT ![c] = "dropping"]
  /\ WakeSlot(index[c], Kinds)
  /\ pendings' = [e \in Ends |-> pendings[e] /\ e \notin EndsOf(c)]
  /\ UNCHANGED pending

DropPollable(c) ==
  /\ phase' = [phase EXCEPT ![c] = "dropping"]
  /\ WakeSlot(index[c], Kinds)
  /\ pending' = pending - Cardinality({e \in EndsOf(c) : pendings[e]})
  /\ pendings' = [e \in Ends |-> pendings[e] /\ e \notin EndsOf(c)]

(* Nobody is inside a call when the whole source is dropped. *)
DropSource(c) ==
  /\ phase[c] = "open" /\ halves[c] = {}
  /\ \A e \in EndsOf(c) : pc[e] = "idle"
  /\ DropPollable(c)
  /\ UNCHANGED <<program, slotVars, eventVars, index, streamVars, budgets,
                 pc, call, kernelVars>>

(* Poller::deregister.  Then the source is gone; the fields that the next  *)
(* Pollable::new initialises take their initial values here.               *)
Deregister(c) ==
  /\ phase[c] = "dropping"
  /\ phase' = [phase EXCEPT ![c] = "closed"]
  /\ available' = Append(available, index[c])
  /\ fresh' = fresh \ {index[c]}
  /\ index' = [index EXCEPT ![c] = NoSlot]
  /\ shutdown_on_drop' = [shutdown_on_drop EXCEPT ![c] = FALSE]
  /\ shut' = [shut EXCEPT ![c] = FALSE]
  /\ budgets' = [e \in Ends |-> IF e \in EndsOf(c) THEN BUDGET ELSE budgets[e]]
  /\ level' = [e \in Ends |-> level[e] /\ e \notin EndsOf(c)]
  /\ edge' = [e \in Ends |-> edge[e] /\ e \notin EndsOf(c)]
  /\ reported' = reported \ EndsOf(c)
  /\ UNCHANGED <<program, next_block, latch, pending, eventVars, halves,
                 pendings, callVars>>
-----------------------------------------------------------------------------
(* into_split: the stream moves into an Arc that the two halves share. *)
IntoSplit(c) ==
  /\ phase[c] = "open" /\ halves[c] = {} /\ program.splits
  /\ \A e \in EndsOf(c) : pc[e] = "idle"
  /\ halves' = [halves EXCEPT ![c] = Kinds]
  /\ shutdown_on_drop' = [shutdown_on_drop EXCEPT ![c] = TRUE]
  /\ UNCHANGED <<program, slotVars, latch, pending, eventVars, phase, index,
                 shut, pendings, budgets, callVars, kernelVars>>

(* reunite of two halves of one stream: forget the write half, then take   *)
(* the stream out of the Arc.  Halves of two streams are handed back.      *)
Reunite(c) ==
  /\ phase[c] = "open" /\ halves[c] = Kinds
  /\ \A e \in EndsOf(c) : pc[e] = "idle"
  /\ halves' = [halves EXCEPT ![c] = {}]
  /\ shutdown_on_drop' = [shutdown_on_drop EXCEPT ![c] = FALSE]
  /\ UNCHANGED <<program, slotVars, latch, pending, eventVars, phase, index,
                 shut, pendings, budgets, callVars, kernelVars>>

(* poll_shutdown_inner calls shutdown(Write) and is Ready whether it works *)
(* or fails.  If it works, a write fails at once from then on instead of   *)
(* blocking, which the kernel reports.                                     *)
ShutdownWrite(c) ==
  LET e == <<c, "Write">> IN
  /\ shut' = [shut EXCEPT ![c] = TRUE]
  /\ \E works \in BOOLEAN :
       /\ level' = [level EXCEPT ![e] = @ \/ (works /\ e \in driven)]
       /\ edge' = [edge EXCEPT ![e] = @ \/ (works /\ e \in driven)]

(* poll_shutdown of the stream or of its owned write half *)
PollShutdown(c) ==
  /\ phase[c] = "open" /\ (halves[c] = {} \/ "Write" \in halves[c])
  /\ pc[<<c, "Write">>] = "idle"
  /\ program.splits
  /\ ShutdownWrite(c)
  /\ shutdown_on_drop' = [shutdown_on_drop EXCEPT ![c] = FALSE]
  /\ UNCHANGED <<program, slotVars, latch, pending, eventVars, phase, index,
                 halves, pendings, budgets, callVars, reported>>

(* A half that goes drops the stream if the other one is gone. *)
ReleaseHalf(c, k) ==
  /\ phase[c] = "open" /\ k \in halves[c] /\ pc[<<c, k>>] = "idle"
  /\ halves' = [halves EXCEPT ![c] = @ \ {k}]
  /\ IF halves[c] = {k} THEN DropPollable(c)
                        ELSE UNCHANGED <<phase, latch, woken, pending,
                                         pendings>>
  /\ UNCHANGED <<program, slotVars, eventVars, index, budgets, pc, call,
                 reported>>

DropReadHalf(c) ==
  /\ ReleaseHalf(c, "Read")
  /\ UNCHANGED <<shutdown_on_drop, shut, level, edge>>

DropWriteHalfQuietly(c) ==
  /\ ReleaseHalf(c, "Write")
  /\ UNCHANGED <<shutdown_on_drop, shut, level, edge>>

DropWriteHalf(c) ==
  /\ ReleaseHalf(c, "Write")
  /\ IF shutdown_on_drop[c] THEN ShutdownWrite(c)
                            ELSE UNCHANGED <<shut, level, edge>>
  /\ UNCHANGED shutdown_on_drop

(* OwnedWriteHalf::forget *)
Forget(c) ==
  /\ ReleaseHalf(c, "Write")
  /\ shutdown_on_drop' = [shutdown_on_drop EXCEPT ![c] = FALSE]
  /\ UNCHANGED <<shut, level, edge>>
-----------------------------------------------------------------------------
(* The task of an end is at `at` afterwards, w says whether it was woken. *)
Goto(e, how, at, w) ==
  /\ pc' = [pc EXCEPT ![e] = at]
  /\ call' = [call EXCEPT ![e] = IF at = "idle" THEN "none" ELSE how]
  /\ woken' = [woken EXCEPT ![e] = at # "idle" /\ w]

(* Where a call is that has returned Pending: a task that polled with a    *)
(* Context waits; try_io returns WouldBlock.                               *)
Suspended(how) == IF how = "try" THEN "idle" ELSE "waiting"

SetLatch(e, l) == latch' = [latch EXCEPT ![index[e[1]]][e[2]] = l]

(* The waker is Ready: poll has set `notified`, the end is no longer       *)
(* pending, and a task that has used up its budget yields: it is woken at  *)
(* once and does not go on to do_io.                                       *)
Notified(l) == [l EXCEPT !.ready = TRUE, !.signal = l.ready /\ l.signal]

CompletePending(e) ==
  /\ pending' = IF pendings[e] THEN pending - 1 ELSE pending
  /\ pendings' = [pendings EXCEPT ![e] = FALSE]

RoundReadyUnmarked(e, how, l, w) ==
  /\ l.ready \/ l.signal
  /\ SetLatch(e, [l EXCEPT !.signal = FALSE])
  /\ CompletePending(e)
  /\ Goto(e, how, "io", w)
  /\ UNCHANGED budgets

RoundReadyUnchecked(e, how, l, w) ==
  /\ l.ready \/ l.signal
  /\ SetLatch(e, Notified(l))
  /\ CompletePending(e)
  /\ budgets' = [budgets EXCEPT ![e] = @ - 1]
  /\ Goto(e, how, "io", w)

RoundReadyUnwoken(e, how, l, w) ==
  /\ l.ready \/ l.signal
  /\ SetLatch(e, Notified(l))
  /\ CompletePending(e)
  /\ IF how # "try" /\ budgets[e] = 0
     THEN /\ budgets' = [budgets EXCEPT ![e] = BUDGET]
          /\ Goto(e, how, "waiting", w)
     ELSE /\ budgets' = [budgets EXCEPT ![e] = IF how = "try" THEN @ ELSE @ - 1]
          /\ Goto(e, how, "io", w)

RoundReady(e, how, l, w) ==
  /\ l.ready \/ l.signal
  /\ SetLatch(e, Notified(l))
  /\ CompletePending(e)
  /\ IF how # "try" /\ budgets[e] = 0
     THEN /\ budgets' = [budgets EXCEPT ![e] = BUDGET]
          /\ Goto(e, how, "waiting", TRUE)
     ELSE /\ budgets' = [budgets EXCEPT ![e] = IF how = "try" THEN @ ELSE @ - 1]
          /\ Goto(e, how, "io", w)

(* It is Pending: the task has registered itself, if it has a Context. *)
RoundPending(e, how, l, w) ==
  /\ ~l.ready /\ ~l.signal
  /\ SetLatch(e, IF how = "try" THEN l ELSE [l EXCEPT !.task = e])
  /\ Goto(e, how, IF pendings[e] THEN Suspended(how) ELSE "begin", w)
  /\ UNCHANGED <<pending, pendings, budgets>>

(* One round of the loop of poll_io, up to the call of do_io *)
Round(e, how, l, w) ==
  /\ RoundReady(e, how, l, w) \/ RoundPending(e, how, l, w)
  /\ UNCHANGED <<program, slotVars, eventVars, sourceVars, kernelVars>>

(* The source as a whole, or the half of it that split lends: their        *)
(* methods forward to the stream.  Those of an owned half do the same.     *)
BorrowedHalf(e) == halves[e[1]] = {}
OwnedHalf(e) == e[2] \in halves[e[1]]

Call(e, how) ==
  /\ phase[e[1]] = "open" /\ e \in driven
  /\ BorrowedHalf(e) \/ OwnedHalf(e)
  /\ pc[e] = "idle"
  /\ Round(e, how, LatchOf(e), FALSE)

(* A waiting task is polled again: because it was woken, or for a reason   *)
(* of its own.                                                             *)
Repoll(e) ==
  /\ pc[e] = "waiting"
  /\ Round(e, call[e], LatchOf(e), FALSE)

(* io_pending_begin, after the task has registered itself *)
PendingBegin(e) ==
  /\ pc[e] = "begin"
  /\ pending' = pending + 1
  /\ pendings' = [pendings EXCEPT ![e] = TRUE]
  /\ Goto(e, call[e], Suspended(call[e]), woken[e])
  /\ UNCHANGED <<program, slotVars, latch, eventVars, sourceVars, budgets,
                 kernelVars>>

(* do_io succeeds, or fails for good (an accept too), and poll_io returns: *)
(* it may have left the end ready for more.                                *)
IoReady(e) ==
  /\ pc[e] = "io" /\ call[e] # "ready" /\ level[e]
  /\ \E more \in BOOLEAN : /\ level' = [level EXCEPT ![e] = more]
                           /\ edge' = [edge EXCEPT ![e] = @ /\ more]
  /\ Goto(e, call[e], "idle", FALSE)
  /\ UNCHANGED <<program, slotVars, latch, pending, eventVars, sourceVars,
                 pendings, budgets, reported>>

(* try_accept_inner succeeds: the accepted stream is registered, or        *)
(* dropped if that fails.                                                  *)
IoAccept(e, c) ==
  /\ pc[e] = "io" /\ level[e]
  /\ e[1] \in Listeners /\ c \in Streams
  /\ phase[c] = "closed"
  /\ \/ Alloc(c) /\ phase' = [phase EXCEPT ![c] = "open"]
     \/ available' = Refilled /\ RefillBlocks /\ UNCHANGED <<phase, index>>
  /\ \E more \in BOOLEAN, ready \in SUBSET (EndsOf(c) \cap driven) :
       /\ phase'[c] = "closed" => ready = {}
       /\ level' = [f \in Ends |->
                     IF f = e THEN more ELSE level[f] \/ f \in ready]
       /\ edge' = [f \in Ends |->
                    IF f = e THEN edge[f] /\ more ELSE edge[f] \/ f \in ready]
  /\ Goto(e, call[e], "idle", FALSE)
  /\ UNCHANGED <<program, fresh, latch, pending, eventVars, streamVars,
                 pendings, budgets, reported>>

(* An operation that only waits for readiness is done. *)
IoNothing(e) ==
  /\ pc[e] = "io" /\ call[e] = "ready"
  /\ Goto(e, call[e], "idle", FALSE)
  /\ UNCHANGED <<program, slotVars, latch, pending, eventVars, sourceVars,
                 pendings, budgets, kernelVars>>

IoWouldBlock(e) ==
  /\ pc[e] = "io" /\ call[e] # "ready" /\ ~level[e]
  /\ Goto(e, call[e], "reset", woken[e])
  /\ UNCHANGED <<program, slotVars, latch, pending, eventVars, sourceVars,
                 pendings, budgets, kernelVars>>

ResetForgets(e) ==
  /\ pc[e] = "reset"
  /\ Round(e, call[e],
           [LatchOf(e) EXCEPT !.ready = FALSE, !.signal = FALSE], woken[e])

(* AtomicWaker::reset after WouldBlock, and the next round *)
Reset(e) ==
  /\ pc[e] = "reset"
  /\ Round(e, call[e], [LatchOf(e) EXCEPT !.ready = FALSE], woken[e])

(* The future that waits is dropped; its waker stays registered. *)
Cancel(e) ==
  /\ pc[e] = "waiting"
  /\ Goto(e, call[e], "idle", FALSE)
  /\ UNCHANGED <<program, slotVars, latch, pending, eventVars, sourceVars,
                 pendings, budgets, kernelVars>>
-----------------------------------------------------------------------------
(* Poller::try_poll *)
TryPoll(p) ==
  /\ p \in program.pollers /\ batch[p] = {}
  /\ pending # 0 /\ selector = Nobody
  /\ selector' = p
  /\ UNCHANGED <<program, slotVars, latch, pending, batch, sourceVars,
                 pendings, budgets, callVars, kernelVars>>

(* PollGuard::poll: the select returns what is ready of the sources with   *)
(* an edge, or nothing (timeout, notify), and gives up the selector.       *)
Select(p) ==
  LET ready == {e \in Ends : level[e] /\ \E f \in EndsOf(e[1]) : edge[f]} IN
  /\ selector = p
  /\ selector' = Nobody
  /\ batch' = [batch EXCEPT ![p] = {<<Token(index[e[1]]), e[2]>> : e \in ready}]
  /\ edge' = [e \in Ends |-> FALSE]
  /\ reported' = reported \cup {e \in ready : index[e[1]] \in fresh}
  /\ UNCHANGED <<program, slotVars, latch, pending, sourceVars,
                 pendings, budgets, callVars, level>>

ProcessBoth(p) ==
  /\ \E w \in batch[p] :
       /\ batch' = [batch EXCEPT ![p] = @ \ {w}]
       /\ WakeSlot(Index(w[1]), Kinds)
  /\ UNCHANGED <<program, slotVars, pending, selector, sourceVars,
                 pendings, budgets, pc, call, kernelVars>>

(* PollEvents::process: one wake, of whoever has the slot now *)
Process(p) ==
  /\ \E w \in batch[p] :
       /\ batch' = [batch EXCEPT ![p] = @ \ {w}]
       /\ WakeSlot(Index(w[1]), {w[2]})
  /\ UNCHANGED <<program, slotVars, pending, selector, sourceVars,
                 pendings, budgets, pc, call, kernelVars>>

(* The peer: data, room, a connection or an error arrives. *)
Arrive(e) ==
  /\ phase[e[1]] # "closed" /\ e \in driven /\ ~level[e]
  /\ level' = [level EXCEPT ![e] = TRUE]
  /\ edge' = [edge EXCEPT ![e] = TRUE]
  /\ UNCHANGED <<program, slotVars, latch, pending, eventVars, sourceVars,
                 pendings, budgets, callVars, reported>>

Lifecycle(c) == Open(c) \/ DropSource(c) \/ Deregister(c)

Halves(c) == \/ IntoSplit(c) \/ Reunite(c) \/ PollShutdown(c)
             \/ DropReadHalf(c) \/ DropWriteHalf(c) \/ Forget(c)

DoIo(e) == \/ IoReady(e) \/ IoNothing(e) \/ IoWouldBlock(e)
           \/ \E c \in Streams : IoAccept(e, c)

Network(p) == Select(p) \/ Process(p)

Next ==
  \/ \E c \in Sources : Lifecycle(c)
  \/ \E c \in Streams : Halves(c)
  \/ \E e \in Ends : \/ \E how \in CallsOf(e) : Call(e, how)
                     \/ Repoll(e) \/ PendingBegin(e) \/ DoIo(e) \/ Reset(e)
                     \/ Cancel(e) \/ Arrive(e)
  \/ \E p \in Pollers : TryPoll(p) \/ Network(p)

Spec == Init /\ [][Next]_vars

(* A call that has begun goes on, a task whose waker was called is polled  *)
(* again, and some thread polls the network as long as I/O is pending.     *)
FairSpec ==
  /\ Spec
  /\ \A e \in Ends :
       WF_vars(PendingBegin(e) \/ DoIo(e) \/ Reset(e) \/ (woken[e] /\ Repoll(e)))
  /\ WF_vars(\E p \in Pollers : TryPoll(p))
  /\ \A p \in Pollers : WF_vars(Network(p))
-----------------------------------------------------------------------------
(* The values of the fields and of the tasks' places. *)
TypeOK ==
  /\ program \in Programs
  /\ next_block \in 0 .. NUM_BLOCKS
  /\ available \in Seq(Slots) /\ fresh \subseteq Slots
  /\ latch \in [Slots -> [Kinds ->
       [signal : BOOLEAN, ready : BOOLEAN, task : Ends \cup {Nobody}]]]
  /\ pending \in Nat
  /\ selector \in Pollers \cup {Nobody}
  /\ batch \in [Pollers -> SUBSET ({Token(s) : s \in Slots} \X Kinds)]
  /\ phase \in [Sources -> {"closed", "open", "dropping"}]
  /\ index \in [Sources -> Slots \cup {NoSlot}]
  /\ halves \in [Sources -> SUBSET Kinds]
  /\ shutdown_on_drop \in [Sources -> BOOLEAN] /\ shut \in [Sources -> BOOLEAN]
  /\ pendings \in [Ends -> BOOLEAN] /\ budgets \in [Ends -> 0 .. BUDGET]
  /\ pc \in [Ends -> {"idle", "waiting", "begin", "io", "reset"}]
  /\ call \in [Ends -> {"none", "io", "ready", "try"}]
  /\ woken \in [Ends -> BOOLEAN]
  /\ level \in [Ends -> BOOLEAN] /\ edge \in [Ends -> BOOLEAN]
  /\ reported \subseteq Ends

(* Poller.pending counts the ends whose pendings flag is set: the calls of *)
(* io_pending_begin and io_pending_complete balance through ready polls,   *)
(* budget yields, try_io and drops, and its assertions hold.               *)
PendingExact == pending = Cardinality({e \in Ends : pendings[e]})

(* Every slot of the blocks that are there is available once or belongs to *)
(* one source, through failed registrations and drops.                     *)
SlotOwnedOnce ==
  /\ \A c, d \in Sources : index[c] = index[d] /\ index[c] # NoSlot => c = d
  /\ \A i, j \in DOMAIN available : available[i] = available[j] => i = j
  /\ \A c \in Sources, i \in DOMAIN available : index[c] # available[i]
  /\ \A s \in Slots : s.block < next_block
       <=> \/ \E i \in DOMAIN available : available[i] = s
           \/ \E c \in Sources : index[c] = s

(* A task that waits and was not woken is registered with the waker of its *)
(* slot and counted, and if its source is ready the event is on its way:   *)
(* with the kernel or in the batch of a thread.                            *)
NoLostReadiness ==
  \A e \in Ends : pc[e] = "waiting" /\ ~woken[e] =>
    /\ LatchOf(e).task = e /\ pendings[e]
    /\ level[e] => \/ edge[e]
                   \/ \E p \in Pollers : <<Token(index[e[1]]), e[2]>> \in batch[p]

(* The waker in a slot is that of a task of the source that has the slot:  *)
(* no event of one source wakes the task of another that is gone.          *)
WakerOfOwner ==
  \A s \in Slots, k \in Kinds :
    LET e == latch[s][k].task IN
    e # Nobody => e[2] = k /\ index[e[1]] = s /\ phase[e[1]] = "open"

(* The assertion of reset, and the slots of a batch are in blocks that are *)
(* there when process looks them up.                                       *)
NetNeverPanics ==
  /\ \A e \in Ends : pc[e] = "reset" => LatchOf(e).ready
  /\ \A p \in Pollers : \A w \in batch[p] : Index(w[1]).block < next_block

(* In a slot that nobody had before, a source is taken to be ready (so     *)
(* that connect or readable returns) only when a select reported it.       *)
FreshSlotNeverEarly ==
  \A e \in Ends :
    /\ phase[e[1]] = "open" /\ index[e[1]] \in fresh
    /\ LatchOf(e).ready \/ LatchOf(e).signal
    => e \in reported

(* When the owned write half goes and the read half stays, the write side  *)
(* is shut down, unless the half was forgotten or reunited.                *)
WriteHalfShutsDown ==
  [][\A c \in Streams :
       "Write" \in halves[c] /\ "Write" \notin halves'[c]
         => shut'[c] \/ Forget(c) \/ Reunite(c)]_vars

(* A task that waits for a source that is ready is polled again. *)
ReadinessReachesTask ==
  \A e \in Ends : (pc[e] = "waiting" /\ level[e]) ~> pc[e] # "waiting"
=============================================================================
