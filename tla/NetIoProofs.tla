----------------------------- MODULE NetIoProofs -----------------------------
(***************************************************************************)
(* Proofs about module NetIo, for any sets of streams, listeners and       *)
(* polling threads, any programs, and any number of blocks and entries     *)
(* that the token of an event can hold.                                    *)
(***************************************************************************)
EXTENDS NetIo, FiniteSetTheorems, TLAPS

(* A source has a slot from its registration to its deregistration. *)
OpenHasSlot ==
  /\ \A c \in Sources : phase[c] = "closed" <=> index[c] = NoSlot
  /\ \A e \in Ends : level[e] => phase[e[1]] # "closed"

(* Who is inside a call has the source, or the half, open.  What is left   *)
(* of a stream being dropped has no half.                                  *)
CallsAreOpen ==
  /\ \A e \in Ends : pc[e] # "idle" =>
       /\ phase[e[1]] = "open"
       /\ halves[e[1]] = {} \/ e[2] \in halves[e[1]]
  /\ \A c \in Sources : phase[c] # "open" => halves[c] = {}

(* do_io and reset are reached with the waker notified, io_pending_begin   *)
(* with the flag not set.                                                  *)
PlacesInPollIo ==
  \A e \in Ends :
    /\ pc[e] \in {"io", "reset"} => LatchOf(e).ready
    /\ pc[e] = "begin" => ~pendings[e]

(* A waker is in a slot only while the slot is not signalled and its end   *)
(* is not notified.                                                        *)
WakerOnlyUnset ==
  \A s \in Slots, k \in Kinds :
    latch[s][k].task # Nobody => ~latch[s][k].signal /\ ~latch[s][k].ready

(* A task that has registered itself stays so until it is woken. *)
Registered ==
  \A e \in Ends : ~woken[e] =>
    /\ pc[e] = "waiting" => LatchOf(e).task = e /\ pendings[e]
    /\ pc[e] = "begin" /\ call[e] # "try" => LatchOf(e).task = e

(* The event of an end is in the batch of some thread. *)
InBatch(s, k) == \E p \in Pollers : <<Token(s), k>> \in batch[p]

(* Readiness is with the kernel, in a batch, or in the waker. *)
ReadinessSomewhere ==
  \A e \in Ends : level[e] =>
    \/ edge[e] \/ InBatch(index[e[1]], e[2]) \/ LatchOf(e).signal
    \/ LatchOf(e).ready /\ pc[e] # "reset"

(* Who holds the selector has processed its last batch, and the slots of a *)
(* batch are in blocks that are there.                                     *)
BatchesKnown ==
  /\ \A p \in Pollers : selector = p => batch[p] = {}
  /\ \A p \in Pollers : \A w \in batch[p] :
       \E s \in Slots : w[1] = Token(s) /\ s.block < next_block

(* What a fresh slot shows or is about to show was reported of its source, *)
(* or its source is being dropped.                                         *)
FreshReported ==
  \A s \in fresh, k \in Kinds :
    latch[s][k].signal \/ latch[s][k].ready \/ InBatch(s, k) =>
      \/ \E e \in reported : index[e[1]] = s /\ e[2] = k
      \/ \E c \in Sources : index[c] = s /\ phase[c] = "dropping"

(* An owned write half that does not shut down on drop has shut down. *)
WriteHalfKnown ==
  \A c \in Sources :
    "Write" \in halves[c] => shutdown_on_drop[c] \/ shut[c]

NetInv ==
  /\ OpenHasSlot /\ CallsAreOpen /\ PlacesInPollIo /\ WakerOnlyUnset
  /\ Registered /\ ReadinessSomewhere /\ BatchesKnown /\ FreshReported
  /\ WriteHalfKnown /\ WakerOfOwner /\ SlotOwnedOnce /\ PendingExact
-----------------------------------------------------------------------------
(* An end is a source and a kind; the task of one is never Nobody. *)
LEMMA EndFacts ==
  /\ \A e \in Ends : /\ e[1] \in Sources /\ e[2] \in Kinds
                     /\ e = <<e[1], e[2]>> /\ e # Nobody
  /\ \A c \in Streams : <<c, "Read">> \in Ends /\ <<c, "Write">> \in Ends
  /\ \A e \in Ends : e[1] \in Listeners => e[2] = "Read" /\ e[1] \notin Streams
  /\ Streams \subseteq Sources /\ IsFiniteSet(Ends)
<1>1. \A e \in Ends : /\ e[1] \in Sources /\ e[2] \in Kinds
                      /\ e = <<e[1], e[2]>> /\ e # Nobody
  BY NetIoAssumption DEF Ends, Sources, Kinds
<1>2. \A c \in Streams : <<c, "Read">> \in Ends /\ <<c, "Write">> \in Ends
  BY DEF Ends, Sources
<1>3. \A e \in Ends : e[1] \in Listeners => e[2] = "Read" /\ e[1] \notin Streams
  BY NetIoAssumption DEF Ends, Sources
<1>4. IsFiniteSet(Ends)
  <2>1. IsFiniteSet({"Read"}) /\ IsFiniteSet({"Write"}) BY FS_Singleton
  <2>2. IsFiniteSet(Sources) BY NetIoAssumption, FS_Union DEF Sources
  <2>3. IsFiniteSet(Sources \X {"Read"}) BY <2>1, <2>2, FS_Product
  <2>4. IsFiniteSet(Streams \X {"Write"}) BY <2>1, NetIoAssumption, FS_Product
  <2>q. QED BY <2>3, <2>4, FS_Union DEF Ends
<1>q. QED BY <1>1, <1>2, <1>3, <1>4 DEF Sources

(* The index of no slot is that of none. *)
LEMMA NoSlotIsNoSlot == NoSlot \notin Slots
  BY NetIoAssumption DEF NoSlot, Slots

(* Two ends of one slot and kind are one end. *)
LEMMA SameEnd ==
  ASSUME TypeOK, SlotOwnedOnce, NEW e \in Ends, NEW f \in Ends,
         index[e[1]] \in Slots, index[e[1]] = index[f[1]], e[2] = f[2]
  PROVE e = f
  BY EndFacts, NoSlotIsNoSlot DEF SlotOwnedOnce

(* The shift of a block and its addition to an entry lose neither: the     *)
(* token of an event names the slot that was registered.                   *)
LEMMA TokenNamesSlot == \A s \in Slots : Index(Token(s)) = s
<1> SUFFICES ASSUME NEW s \in Slots PROVE Index(Token(s)) = s
  OBVIOUS
<1> DEFINE b == s.block
           n == s.entry
<1>1. b \in Nat /\ n \in Nat /\ b < 65536 /\ n < 65536 /\ 2^16 = 65536
  BY NetIoAssumption DEF Slots
<1> HIDE DEF b, n
<1>2. (b * 65536 + n) \div 65536 = b BY <1>1, SMTT(30)
<1>3. (b * 65536 + n) % 65536 = n BY <1>1, SMTT(30)
<1>4. b % 65536 = b BY <1>1, SMTT(30)
<1>5. Index(Token(s)) = [block |-> b, entry |-> n]
  BY <1>1, <1>2, <1>3, <1>4 DEF Index, Token, b, n
<1>6. s = [block |-> b, entry |-> n] BY DEF Slots, b, n
<1>q. QED BY <1>5, <1>6
-----------------------------------------------------------------------------
(* The domain and the elements of a sequence. *)
LEMMA SeqFacts ==
  ASSUME NEW S, NEW a \in Seq(S)
  PROVE  /\ Len(a) \in Nat /\ DOMAIN a = 1 .. Len(a)
         /\ \A i \in DOMAIN a : a[i] \in S
  OBVIOUS

(* The slots of the first n blocks are in the list a or belong to a        *)
(* source, each of them once.                                              *)
Owned(a, n) ==
  /\ \A i, j \in DOMAIN a : a[i] = a[j] => i = j
  /\ \A c \in Sources, i \in DOMAIN a : index[c] # a[i]
  /\ \A s \in Slots : s.block < n <=> \/ \E i \in DOMAIN a : a[i] = s
                                      \/ \E c \in Sources : index[c] = s

(* The block that alloc adds brings slots that nobody has, and every slot  *)
(* of that block.                                                          *)
LEMMA RefillFacts ==
  ASSUME TypeOK, SlotOwnedOnce, RefillBlocks
  PROVE  /\ Refilled \in Seq(Slots)
         /\ next_block' \in 0 .. NUM_BLOCKS /\ next_block <= next_block'
         /\ Owned(Refilled, next_block')
<1>1. CASE available = <<>> /\ next_block < NUM_BLOCKS
  <2>1. Refilled = NewBlock /\ next_block' = next_block + 1
    BY <1>1 DEF Refilled, RefillBlocks
  <2>2. NewBlock \in Seq(Slots) /\ DOMAIN NewBlock = 1 .. NUM_ENTRIES
    <3>1. \A i \in 1 .. NUM_ENTRIES :
            [block |-> next_block, entry |-> NUM_ENTRIES - i] \in Slots
      BY <1>1, NetIoAssumption DEF TypeOK, Slots
    <3>q. QED BY <3>1, NetIoAssumption DEF NewBlock
  <2>3. \A i \in DOMAIN NewBlock :
          NewBlock[i].block = next_block /\ NewBlock[i].entry = NUM_ENTRIES - i
    BY <2>2 DEF NewBlock
  <2>4. \A i, j \in DOMAIN NewBlock : NewBlock[i] = NewBlock[j] => i = j
    BY <2>2, <2>3, NetIoAssumption
  <2>5. \A s \in Slots : s.block < next_block <=> \E c \in Sources : index[c] = s
    BY <1>1 DEF SlotOwnedOnce
  <2>6. \A c \in Sources, i \in DOMAIN NewBlock : index[c] # NewBlock[i]
    <3> SUFFICES ASSUME NEW c \in Sources, NEW i \in DOMAIN NewBlock,
                        index[c] = NewBlock[i]
                 PROVE FALSE
      OBVIOUS
    <3>1. NewBlock[i] \in Slots /\ NewBlock[i].block = next_block
      BY <2>2, <2>3, SeqFacts
    <3>2. NewBlock[i].block < next_block BY <3>1, <2>5
    <3>3. next_block \in Nat BY NetIoAssumption DEF TypeOK
    <3>q. QED BY <3>1, <3>2, <3>3
  <2>7. \A s \in Slots : s.block = next_block => \E i \in DOMAIN NewBlock : NewBlock[i] = s
    <3> SUFFICES ASSUME NEW s \in Slots, s.block = next_block
                 PROVE \E i \in DOMAIN NewBlock : NewBlock[i] = s
      OBVIOUS
    <3>1. NUM_ENTRIES - s.entry \in DOMAIN NewBlock
      BY <2>2, NetIoAssumption DEF Slots
    <3>2. NewBlock[NUM_ENTRIES - s.entry] = [block |-> s.block, entry |-> s.entry]
      BY <3>1, <2>2, NetIoAssumption DEF NewBlock, Slots
    <3>3. s = [block |-> s.block, entry |-> s.entry] BY DEF Slots
    <3>q. QED BY <3>1, <3>2, <3>3
  <2>8. ASSUME NEW s \in Slots
        PROVE s.block < next_block + 1 <=>
                 \/ \E i \in DOMAIN NewBlock : NewBlock[i] = s
                 \/ \E c \in Sources : index[c] = s
    <3>1. s.block \in Nat /\ next_block \in Nat BY NetIoAssumption DEF Slots, TypeOK
    <3>2. s.block < next_block + 1 <=> s.block < next_block \/ s.block = next_block
      BY <3>1
    <3>q. QED BY <3>2, <2>3, <2>5, <2>7
  <2>q. QED BY <1>1, <2>1, <2>2, <2>4, <2>6, <2>8, NetIoAssumption DEF TypeOK, Owned
<1>2. CASE ~(available = <<>> /\ next_block < NUM_BLOCKS)
  <2>1. Refilled = available /\ next_block' = next_block
    BY <1>2 DEF Refilled, RefillBlocks
  <2>2. Owned(available, next_block) BY DEF SlotOwnedOnce, Owned
  <2>q. QED BY <2>1, <2>2, NetIoAssumption DEF TypeOK
<1>q. QED BY <1>1, <1>2

(* alloc gives a source that has no slot one that no source has. *)
LEMMA AllocFacts ==
  ASSUME TypeOK, SlotOwnedOnce, NEW c \in Sources, index[c] = NoSlot, Alloc(c)
  PROVE  /\ next_block' \in 0 .. NUM_BLOCKS /\ next_block <= next_block'
         /\ available' \in Seq(Slots)
         /\ index' \in [Sources -> Slots \cup {NoSlot}]
         /\ index'[c] \in Slots /\ \A d \in Sources : index[d] # index'[c]
         /\ \A d \in Sources : d # c => index'[d] = index[d]
         /\ SlotOwnedOnce'
<1> DEFINE r == Refilled
           n == Len(Refilled)
<1>1. /\ r \in Seq(Slots) /\ next_block' \in 0 .. NUM_BLOCKS
      /\ next_block <= next_block' /\ Owned(r, next_block')
  BY RefillFacts DEF Alloc
<1>2. /\ r # <<>> /\ available' = SubSeq(r, 1, n - 1)
      /\ index' = [index EXCEPT ![c] = r[n]]
  BY DEF Alloc
<1> HIDE DEF r
<1>3. n \in Nat /\ n # 0 /\ DOMAIN r = 1 .. n /\ n \in DOMAIN r BY <1>1, <1>2 DEF r
<1>4. r[n] \in Slots /\ \A d \in Sources : index[d] # r[n]
  BY <1>1, <1>3 DEF Owned
<1>5. /\ available' \in Seq(Slots) /\ DOMAIN available' = 1 .. n - 1
      /\ \A i \in 1 .. n - 1 : available'[i] = r[i]
  BY <1>1, <1>2, <1>3
<1>6. /\ index' \in [Sources -> Slots \cup {NoSlot}]
      /\ \A d \in Sources : index'[d] = IF d = c THEN r[n] ELSE index[d]
  BY <1>2, <1>4 DEF TypeOK
<1>7. SlotOwnedOnce'
  <2>1. \A d, f \in Sources : index'[d] = index'[f] /\ index'[d] # NoSlot => d = f
    BY <1>4, <1>6 DEF SlotOwnedOnce
  <2>2. \A i, j \in DOMAIN available' : available'[i] = available'[j] => i = j
    BY <1>1, <1>3, <1>5 DEF Owned
  <2>3. \A d \in Sources, i \in DOMAIN available' : index'[d] # available'[i]
    BY <1>1, <1>3, <1>5, <1>6 DEF Owned
  <2>4. ASSUME NEW s \in Slots
        PROVE s.block < next_block'
                <=> \/ \E i \in DOMAIN available' : available'[i] = s
                    \/ \E d \in Sources : index'[d] = s
    <3>1. (\E i \in DOMAIN r : r[i] = s)
            <=> r[n] = s \/ \E i \in DOMAIN available' : available'[i] = s
      BY <1>3, <1>5
    <3>2. (\E d \in Sources : index'[d] = s)
            <=> r[n] = s \/ \E d \in Sources : index[d] = s
      BY <1>4, <1>6, NoSlotIsNoSlot
    <3>q. QED BY <3>1, <3>2, <1>1 DEF Owned
  <2>q. QED BY <2>1, <2>2, <2>3, <2>4 DEF SlotOwnedOnce
<1>q. QED BY <1>1, <1>4, <1>5, <1>6, <1>7

(* A failed registration leaves the slots as they were, but for the block  *)
(* that it may have added.                                                 *)
LEMMA AllocUndone ==
  ASSUME TypeOK, SlotOwnedOnce, available' = Refilled, RefillBlocks,
         UNCHANGED index
  PROVE  /\ next_block' \in 0 .. NUM_BLOCKS /\ next_block <= next_block'
         /\ available' \in Seq(Slots) /\ SlotOwnedOnce'
  BY RefillFacts DEF Owned, SlotOwnedOnce

(* dealloc gives back the slot of a source, which was not available. *)
LEMMA DeallocFacts ==
  ASSUME TypeOK, SlotOwnedOnce, NEW c \in Sources, index[c] \in Slots,
         available' = Append(available, index[c]), UNCHANGED next_block,
         index' = [index EXCEPT ![c] = NoSlot]
  PROVE  /\ available' \in Seq(Slots)
         /\ index' \in [Sources -> Slots \cup {NoSlot}]
         /\ \A d \in Sources : index'[d] = IF d = c THEN NoSlot ELSE index[d]
         /\ SlotOwnedOnce'
<1> DEFINE n == Len(available)
<1>1. n \in Nat /\ DOMAIN available = 1 .. n BY DEF TypeOK
<1>2. /\ available' \in Seq(Slots) /\ DOMAIN available' = 1 .. n + 1
      /\ available'[n + 1] = index[c]
      /\ \A i \in 1 .. n : available'[i] = available[i]
  BY DEF TypeOK
<1>3. /\ index' \in [Sources -> Slots \cup {NoSlot}]
      /\ \A d \in Sources : index'[d] = IF d = c THEN NoSlot ELSE index[d]
  BY DEF TypeOK
<1> HIDE DEF n
<1>4. \A d, f \in Sources : index'[d] = index'[f] /\ index'[d] # NoSlot => d = f
  BY <1>3 DEF SlotOwnedOnce
<1>5. \A i, j \in DOMAIN available' : available'[i] = available'[j] => i = j
  BY <1>1, <1>2 DEF SlotOwnedOnce
<1>6. ASSUME NEW d \in Sources, NEW i \in DOMAIN available'
      PROVE index'[d] # available'[i]
  <2>1. CASE d = c
    <3>1. available'[i] \in Slots BY <1>2, SeqFacts
    <3>q. QED BY <2>1, <3>1, <1>3, NoSlotIsNoSlot
  <2>2. CASE d # c
    <3>1. index'[d] = index[d] BY <2>2, <1>3
    <3>2. CASE i = n + 1
      BY <2>2, <3>1, <3>2, <1>2, NoSlotIsNoSlot DEF SlotOwnedOnce
    <3>3. CASE i # n + 1
      <4>1. i \in DOMAIN available /\ available'[i] = available[i]
        BY <3>3, <1>1, <1>2
      <4>q. QED BY <4>1, <3>1 DEF SlotOwnedOnce
    <3>q. QED BY <3>2, <3>3
  <2>q. QED BY <2>1, <2>2
<1>7. ASSUME NEW s \in Slots
      PROVE s.block < next_block'
              <=> \/ \E i \in DOMAIN available' : available'[i] = s
                  \/ \E d \in Sources : index'[d] = s
  <2>1. (\E i \in DOMAIN available' : available'[i] = s)
          <=> index[c] = s \/ \E i \in DOMAIN available : available[i] = s
    <3>1. n + 1 \in DOMAIN available' /\ DOMAIN available \subseteq DOMAIN available'
      BY <1>1, <1>2
    <3>2. \A i \in DOMAIN available' : i = n + 1 \/ i \in DOMAIN available
      BY <1>1, <1>2
    <3>q. QED BY <3>1, <3>2, <1>1, <1>2
  <2>2. (\E d \in Sources : index'[d] = s) <=> index[c] # s /\ \E d \in Sources : index[d] = s
    BY <1>3, NoSlotIsNoSlot DEF SlotOwnedOnce
  <2>q. QED BY <2>1, <2>2 DEF SlotOwnedOnce
<1>q. QED BY <1>2, <1>3, <1>4, <1>5, <1>6, <1>7 DEF SlotOwnedOnce
-----------------------------------------------------------------------------
(* What the steps on an AtomicWaker and on a task do, field by field. *)
Latches == [signal : BOOLEAN, ready : BOOLEAN, task : Ends \cup {Nobody}]

(* SetLatch changes the waker of one end, in one slot. *)
LEMMA SetLatchFacts ==
  ASSUME TypeOK, NEW e \in Ends, index[e[1]] \in Slots,
         NEW l \in Latches, SetLatch(e, l)
  PROVE  /\ latch' \in [Slots -> [Kinds -> Latches]]
         /\ latch'[index[e[1]]][e[2]] = l
         /\ \A s \in Slots, k \in Kinds :
              s # index[e[1]] \/ k # e[2] => latch'[s][k] = latch[s][k]
  BY EndFacts DEF TypeOK, SetLatch, Latches

(* A wake takes the waker out of the slot and its task is woken. *)
LEMMA WakeSlotFacts ==
  ASSUME TypeOK, NEW s \in Slots, NEW kinds \in SUBSET Kinds, WakeSlot(s, kinds)
  PROVE  /\ latch' \in [Slots -> [Kinds -> Latches]]
         /\ \A k \in kinds : /\ latch'[s][k].signal
                             /\ latch'[s][k].ready = latch[s][k].ready
                             /\ latch'[s][k].task = Nobody
         /\ \A t \in Slots, k \in Kinds :
              t # s \/ k \notin kinds => latch'[t][k] = latch[t][k]
         /\ woken' \in [Ends -> BOOLEAN]
         /\ \A e \in Ends : woken[e] => woken'[e]
         /\ \A e \in Ends : \A k \in kinds :
              pc[e] # "idle" /\ latch[s][k].task = e => woken'[e]
<1>1. latch \in [Slots -> [Kinds -> Latches]] BY DEF TypeOK, Latches
<1>2. latch' = [latch EXCEPT ![s] = [k \in Kinds |->
                 IF k \in kinds
                 THEN [latch[s][k] EXCEPT !.signal = TRUE, !.task = Nobody]
                 ELSE latch[s][k]]]
  BY <1>1 DEF WakeSlot
<1>3. \A k \in Kinds : latch[s][k] \in Latches BY <1>1
<1>4. \A k \in Kinds :
        LET l == [latch[s][k] EXCEPT !.signal = TRUE, !.task = Nobody] IN
        /\ l \in Latches /\ l.signal = TRUE /\ l.ready = latch[s][k].ready
        /\ l.task = Nobody
  BY <1>3 DEF Latches
<1>5. latch' \in [Slots -> [Kinds -> Latches]]
  BY <1>1, <1>2, <1>3, <1>4
<1>6. \A k \in kinds : latch'[s][k]
                         = [latch[s][k] EXCEPT !.signal = TRUE, !.task = Nobody]
  BY <1>1, <1>2
<1>7. \A t \in Slots, k \in Kinds :
        t # s \/ k \notin kinds => latch'[t][k] = latch[t][k]
  BY <1>1, <1>2
<1>8. /\ woken' \in [Ends -> BOOLEAN]
      /\ \A e \in Ends : woken[e] => woken'[e]
      /\ \A e \in Ends : \A k \in kinds :
           pc[e] # "idle" /\ latch[s][k].task = e => woken'[e]
  BY DEF WakeSlot, TypeOK
<1>9. \A k \in kinds : /\ latch'[s][k].signal = TRUE
                       /\ latch'[s][k].ready = latch[s][k].ready
                       /\ latch'[s][k].task = Nobody
  BY <1>4, <1>6
<1>q. QED BY <1>5, <1>7, <1>8, <1>9

(* Only the task of e moves. *)
LEMMA GotoFacts ==
  ASSUME TypeOK, NEW e \in Ends, NEW how \in {"none", "io", "ready", "try"},
         NEW at \in {"idle", "waiting", "begin", "io", "reset"},
         NEW w \in BOOLEAN, Goto(e, how, at, w)
  PROVE  /\ pc' \in [Ends -> {"idle", "waiting", "begin", "io", "reset"}]
         /\ call' \in [Ends -> {"none", "io", "ready", "try"}]
         /\ woken' \in [Ends -> BOOLEAN]
         /\ pc'[e] = at /\ (at # "idle" => call'[e] = how)
         /\ woken'[e] <=> at # "idle" /\ w
         /\ \A f \in Ends : f # e => /\ pc'[f] = pc[f] /\ call'[f] = call[f]
                                     /\ woken'[f] = woken[f]
  BY DEF TypeOK, Goto

(* The counter follows the flags: one is set, one is cleared, or all those *)
(* of a source are.                                                        *)
LEMMA PendingSet ==
  ASSUME TypeOK, PendingExact, NEW e \in Ends, ~pendings[e],
         pending' = pending + 1, pendings' = [pendings EXCEPT ![e] = TRUE]
  PROVE  pending' \in Nat /\ PendingExact'
<1> DEFINE P == {f \in Ends : pendings[f]}
<1>1. IsFiniteSet(P) /\ e \notin P BY EndFacts, FS_Subset
<1>2. {f \in Ends : pendings'[f]} = P \cup {e} BY DEF TypeOK
<1>3. Cardinality(P \cup {e}) = Cardinality(P) + 1 BY <1>1, FS_AddElement
<1>4. pending = Cardinality(P) /\ pending \in Nat BY DEF PendingExact, TypeOK
<1>5. pending' = Cardinality({f \in Ends : pendings'[f]})
  BY <1>2, <1>3, <1>4
<1>q. QED BY <1>4, <1>5 DEF PendingExact

(* io_pending_complete: the flag of an end and its share of the count go   *)
(* together.                                                               *)
LEMMA PendingCleared ==
  ASSUME TypeOK, PendingExact, NEW e \in Ends, CompletePending(e)
  PROVE  pending' \in Nat /\ PendingExact'
<1> DEFINE P == {f \in Ends : pendings[f]}
<1>1. IsFiniteSet(P) BY EndFacts, FS_Subset
<1>2. {f \in Ends : pendings'[f]} = P \ {e} BY DEF TypeOK, CompletePending
<1>3. CASE pendings[e]
  <2>1. Cardinality(P \ {e}) = Cardinality(P) - 1
    BY <1>1, <1>3, FS_RemoveElement
  <2>2. Cardinality(P \ {e}) \in Nat
    BY <1>1, FS_RemoveElement, FS_Subset, FS_CardinalityType
  <2>q. QED BY <1>2, <1>3, <2>1, <2>2 DEF PendingExact, CompletePending
<1>4. CASE ~pendings[e]
  <2>1. P \ {e} = P BY <1>4
  <2>q. QED BY <1>2, <1>4, <2>1 DEF PendingExact, CompletePending, TypeOK
<1>q. QED BY <1>3, <1>4

(* The drop of a Pollable gives back the count of each end that was still  *)
(* pending.                                                                *)
LEMMA PendingDropped ==
  ASSUME TypeOK, PendingExact, NEW c \in Sources,
         pending' = pending - Cardinality({e \in EndsOf(c) : pendings[e]}),
         pendings' = [e \in Ends |-> pendings[e] /\ e \notin EndsOf(c)]
  PROVE  pending' \in Nat /\ PendingExact'
<1> DEFINE P == {f \in Ends : pendings[f]}
           D == {e \in EndsOf(c) : pendings[e]}
           R == {f \in Ends : pendings'[f]}
<1>1. IsFiniteSet(P) /\ IsFiniteSet(D) /\ IsFiniteSet(R)
  BY EndFacts, FS_Subset DEF EndsOf
<1>2. P = D \cup R /\ D \cap R = {} BY DEF EndsOf, TypeOK
<1>3. /\ Cardinality(D \cup R)
           = Cardinality(D) + Cardinality(R) - Cardinality(D \cap R)
      /\ Cardinality(D \cap R) = 0
      /\ Cardinality(D) \in Nat /\ Cardinality(R) \in Nat
  BY <1>1, <1>2, FS_Union, FS_EmptySet, FS_CardinalityType
<1>4. pending = Cardinality(P) BY DEF PendingExact
<1> HIDE DEF P, D, R
<1>5. pending' = Cardinality(P) - Cardinality(D) BY <1>4 DEF D
<1>6. pending' = Cardinality(R) BY <1>2, <1>3, <1>5
<1>q. QED BY <1>3, <1>6 DEF PendingExact, R
-----------------------------------------------------------------------------
(* The inductive invariant. *)
IInv == TypeOK /\ NetInv

(* A call that ends, or finds that do_io would block. *)
LEMMA MoveStep ==
  ASSUME IInv, NEW e \in Ends, NEW w \in BOOLEAN, NEW at \in {"idle", "reset"},
         pc[e] # "idle", at = "reset" => pc[e] = "io" /\ ~level[e],
         Goto(e, call[e], at, w),
         UNCHANGED <<program, slotVars, latch, pending, eventVars, sourceVars,
                     pendings, budgets, kernelVars>>
  PROVE  IInv'
<1> USE DEF slotVars, eventVars, sourceVars, streamVars, kernelVars
<1>0. TypeOK /\ NetInv BY DEF IInv
<1>1. /\ pc' \in [Ends -> {"idle", "waiting", "begin", "io", "reset"}]
      /\ call' \in [Ends -> {"none", "io", "ready", "try"}]
      /\ woken' \in [Ends -> BOOLEAN] /\ pc'[e] = at
      /\ \A f \in Ends : f # e => /\ pc'[f] = pc[f] /\ call'[f] = call[f]
                                  /\ woken'[f] = woken[f]
  <2>1. call[e] \in {"none", "io", "ready", "try"} BY <1>0 DEF TypeOK
  <2>q. QED BY <1>0, <2>1, GotoFacts
<1>2. TypeOK' BY <1>0, <1>1 DEF TypeOK
<1>3. OpenHasSlot' BY <1>0 DEF NetInv, OpenHasSlot
<1>4. CallsAreOpen' BY <1>0, <1>1 DEF NetInv, CallsAreOpen
<1>5. PlacesInPollIo' BY <1>0, <1>1 DEF NetInv, PlacesInPollIo, LatchOf
<1>6. WakerOnlyUnset' BY <1>0 DEF NetInv, WakerOnlyUnset
<1>7. Registered' BY <1>0, <1>1 DEF NetInv, Registered, LatchOf
<1>8. ReadinessSomewhere'
  BY <1>0, <1>1 DEF NetInv, ReadinessSomewhere, LatchOf, InBatch
<1>9. BatchesKnown' BY <1>0 DEF NetInv, BatchesKnown
<1>10. FreshReported' BY <1>0 DEF NetInv, FreshReported, InBatch
<1>11. WriteHalfKnown' BY <1>0 DEF NetInv, WriteHalfKnown
<1>12. WakerOfOwner' BY <1>0 DEF NetInv, WakerOfOwner
<1>13. SlotOwnedOnce' BY <1>0 DEF NetInv, SlotOwnedOnce
<1>14. PendingExact' BY <1>0 DEF NetInv, PendingExact
<1>q. QED
  BY <1>2, <1>3, <1>4, <1>5, <1>6, <1>7, <1>8, <1>9, <1>10, <1>11, <1>12,
     <1>13, <1>14 DEF IInv, NetInv

(* io_pending_begin *)
LEMMA BeginStep ==
  ASSUME IInv, NEW e \in Ends, PendingBegin(e)
  PROVE  IInv'
<1> USE DEF PendingBegin, slotVars, eventVars, sourceVars, streamVars, kernelVars
<1>0. TypeOK /\ NetInv BY DEF IInv
<1> DEFINE at == Suspended(call[e])
<1>1. /\ pc' \in [Ends -> {"idle", "waiting", "begin", "io", "reset"}]
      /\ call' \in [Ends -> {"none", "io", "ready", "try"}]
      /\ woken' \in [Ends -> BOOLEAN] /\ pc'[e] = at
      /\ woken'[e] <=> at # "idle" /\ woken[e]
      /\ \A f \in Ends : f # e => /\ pc'[f] = pc[f] /\ call'[f] = call[f]
                                  /\ woken'[f] = woken[f]
  <2>1. /\ call[e] \in {"none", "io", "ready", "try"} /\ woken[e] \in BOOLEAN
        /\ at \in {"idle", "waiting", "begin", "io", "reset"}
    BY <1>0 DEF TypeOK, Suspended
  <2> HIDE DEF at
  <2>2. Goto(e, call[e], at, woken[e]) BY DEF at
  <2>q. QED BY <1>0, <2>1, <2>2, GotoFacts
<1>2. (at = "waiting" /\ call[e] # "try") \/ at = "idle"
  BY DEF Suspended
<1> HIDE DEF at
<1>3. /\ pc[e] = "begin" /\ pendings' \in [Ends -> BOOLEAN] /\ pendings'[e]
      /\ \A f \in Ends : f # e => pendings'[f] = pendings[f]
      /\ UNCHANGED <<program, next_block, available, fresh, latch, selector,
           batch, phase, index, halves, shutdown_on_drop, shut, budgets,
           level, edge, reported>>
  BY <1>0 DEF TypeOK
<1>4. pending' \in Nat /\ PendingExact'
  BY <1>0, <1>3, PendingSet DEF NetInv, PlacesInPollIo
<1>5. TypeOK' BY <1>0, <1>1, <1>3, <1>4 DEF TypeOK
<1>6. OpenHasSlot' BY <1>0, <1>3 DEF NetInv, OpenHasSlot
<1>7. CallsAreOpen' BY <1>0, <1>1, <1>3 DEF NetInv, CallsAreOpen
<1>8. PlacesInPollIo' BY <1>0, <1>1, <1>2, <1>3 DEF NetInv, PlacesInPollIo, LatchOf
<1>9. WakerOnlyUnset' BY <1>0, <1>3 DEF NetInv, WakerOnlyUnset
<1>10. Registered' BY <1>0, <1>1, <1>2, <1>3 DEF NetInv, Registered, LatchOf
<1>11. ReadinessSomewhere'
  BY <1>0, <1>1, <1>2, <1>3 DEF NetInv, ReadinessSomewhere, LatchOf, InBatch
<1>12. BatchesKnown' BY <1>0, <1>3 DEF NetInv, BatchesKnown
<1>13. FreshReported' BY <1>0, <1>3 DEF NetInv, FreshReported, InBatch
<1>14. WriteHalfKnown' BY <1>0, <1>3 DEF NetInv, WriteHalfKnown
<1>15. WakerOfOwner' BY <1>0, <1>3 DEF NetInv, WakerOfOwner
<1>16. SlotOwnedOnce' BY <1>0, <1>3 DEF NetInv, SlotOwnedOnce
<1>q. QED
  BY <1>4, <1>5, <1>6, <1>7, <1>8, <1>9, <1>10, <1>11, <1>12, <1>13, <1>14,
     <1>15, <1>16 DEF IInv, NetInv
(* What a step on the waker of an open end leaves to the other ends. *)
LEMMA OtherLatches ==
  ASSUME IInv, NEW e \in Ends, phase[e[1]] = "open", NEW l \in Latches,
         SetLatch(e, l), UNCHANGED index
  PROVE  /\ index[e[1]] \in Slots
         /\ latch' \in [Slots -> [Kinds -> Latches]]
         /\ latch'[index[e[1]]][e[2]] = l /\ LatchOf(e)' = l
         /\ \A s \in Slots, k \in Kinds :
              s # index[e[1]] \/ k # e[2] => latch'[s][k] = latch[s][k]
         /\ \A f \in Ends : f # e /\ phase[f[1]] # "closed" => LatchOf(f)' = LatchOf(f)
<1>1. TypeOK /\ NetInv /\ SlotOwnedOnce /\ OpenHasSlot BY DEF IInv, NetInv
<1>2. \A f \in Ends : phase[f[1]] # "closed" => index[f[1]] \in Slots
  BY <1>1, EndFacts DEF OpenHasSlot, TypeOK
<1>3. /\ latch' \in [Slots -> [Kinds -> Latches]]
      /\ latch'[index[e[1]]][e[2]] = l
      /\ \A s \in Slots, k \in Kinds :
           s # index[e[1]] \/ k # e[2] => latch'[s][k] = latch[s][k]
  BY <1>1, <1>2, SetLatchFacts
<1>4. ASSUME NEW f \in Ends, f # e, phase[f[1]] # "closed"
      PROVE LatchOf(f)' = LatchOf(f)
  <2>1. index[f[1]] # index[e[1]] \/ f[2] # e[2] BY <1>1, <1>2, <1>4, SameEnd
  <2>q. QED BY <2>1, <1>2, <1>3, <1>4, EndFacts DEF LatchOf
<1>q. QED BY <1>2, <1>3, <1>4 DEF LatchOf

(* One round of poll_io, entered by a call, by a repoll or after a reset:  *)
(* l is the latch it finds.                                                *)
LEMMA RoundStep ==
  ASSUME IInv, NEW e \in Ends, NEW how \in {"none", "io", "ready", "try"},
         NEW l \in Latches, NEW w \in BOOLEAN,
         phase[e[1]] = "open", BorrowedHalf(e) \/ OwnedHalf(e),
         l.task = LatchOf(e).task, l.signal = LatchOf(e).signal,
         \/ pc[e] = "reset" /\ ~l.ready
         \/ pc[e] \in {"idle", "waiting"} /\ l.ready = LatchOf(e).ready,
         Round(e, how, l, w)
  PROVE  IInv'
<1> USE DEF slotVars, eventVars, sourceVars, streamVars, kernelVars
<1>0. TypeOK /\ NetInv BY DEF IInv
<1>1. UNCHANGED <<program, next_block, available, fresh, selector, batch,
        phase, index, halves, shutdown_on_drop, shut, level, edge, reported>>
  BY DEF Round
<1> DEFINE i == index[e[1]]
           m == latch'[i][e[2]]
(* What the round does to the end itself. *)
<1>2. /\ SetLatch(e, m) /\ m \in Latches
      /\ m.task \in {l.task, e}
      /\ budgets' \in [Ends -> 0 .. BUDGET]
      /\ pendings' \in [Ends -> BOOLEAN] /\ pending' \in Nat /\ PendingExact'
      /\ \A f \in Ends : f # e => pendings'[f] = pendings[f]
      /\ \E at \in {"idle", "waiting", "begin", "io"}, v \in BOOLEAN :
           /\ Goto(e, how, at, v)
           /\ \/ /\ l.ready \/ l.signal
                 /\ m.ready /\ m.task = l.task
                 /\ at = "io" \/ (at = "waiting" /\ v)
              \/ /\ ~l.ready /\ ~l.signal /\ ~m.ready /\ ~m.signal
                 /\ how # "try" => m.task = e
                 /\ pendings' = pendings
                 /\ \/ at = "begin" /\ ~pendings[e]
                    \/ at = "waiting" /\ pendings[e] /\ how # "try"
                    \/ at = "idle"
  <2>1. /\ i \in Slots /\ e[2] \in Kinds /\ latch \in [Slots -> [Kinds -> Latches]]
    BY <1>0, EndFacts DEF NetInv, OpenHasSlot, TypeOK, Latches
  <2>2. \A x : SetLatch(e, x) => m = x
    BY <2>1 DEF SetLatch
  <2> HIDE DEF m, i
  <2>3. CASE RoundReady(e, how, l, w)
    <3>1. /\ l.ready \/ l.signal
          /\ SetLatch(e, Notified(l)) /\ CompletePending(e)
      BY <2>3 DEF RoundReady
    <3>2. Notified(l) \in Latches /\ Notified(l).ready = TRUE /\ Notified(l).task = l.task
      BY DEF Notified, Latches
    <3>3. m = Notified(l) BY <3>1, <2>2
    <3>4. pending' \in Nat /\ PendingExact' BY <1>0, <3>1, PendingCleared DEF NetInv
    <3>5. /\ pendings' \in [Ends -> BOOLEAN]
          /\ \A f \in Ends : f # e => pendings'[f] = pendings[f]
      BY <1>0, <3>1 DEF TypeOK, CompletePending
    <3>6. budgets' \in [Ends -> 0 .. BUDGET]
      <4>1. /\ budgets \in [Ends -> 0 .. BUDGET] /\ BUDGET \in Nat
            /\ budgets[e] \in 0 .. BUDGET
        BY <1>0, NetIoAssumption DEF TypeOK
      <4>2. CASE how # "try" /\ budgets[e] = 0
        <5>1. budgets' = [budgets EXCEPT ![e] = BUDGET]
          BY <2>3, <4>2 DEF RoundReady
        <5>q. QED BY <4>1, <5>1
      <4>3. CASE ~(how # "try" /\ budgets[e] = 0)
        <5>1. budgets' = [budgets EXCEPT ![e] = IF how = "try" THEN @ ELSE @ - 1]
          BY <2>3, <4>3 DEF RoundReady
        <5>2. (IF how = "try" THEN budgets[e] ELSE budgets[e] - 1) \in 0 .. BUDGET
          BY <4>1, <4>3
        <5>q. QED BY <4>1, <5>1, <5>2
      <4>q. QED BY <4>2, <4>3
    <3>7. \E at \in {"idle", "waiting", "begin", "io"}, v \in BOOLEAN :
            Goto(e, how, at, v) /\ (at = "io" \/ (at = "waiting" /\ v))
      <4>1. Goto(e, how, "waiting", TRUE) \/ Goto(e, how, "io", w)
        BY <2>3 DEF RoundReady
      <4>q. QED BY <4>1
    <3>q. QED BY <3>1, <3>2, <3>3, <3>4, <3>5, <3>6, <3>7
  <2>4. CASE RoundPending(e, how, l, w)
    <3> DEFINE x == IF how = "try" THEN l ELSE [l EXCEPT !.task = e]
               at == IF pendings[e] THEN Suspended(how) ELSE "begin"
    <3>1. /\ ~l.ready /\ ~l.signal /\ SetLatch(e, x) /\ Goto(e, how, at, w)
          /\ UNCHANGED <<pending, pendings, budgets>>
      BY <2>4 DEF RoundPending
    <3>2. /\ x \in Latches /\ x.ready = l.ready /\ x.signal = l.signal
          /\ x.task \in {l.task, e} /\ (how # "try" => x.task = e)
      BY DEF Latches
    <3>3. m = x BY <3>1, <2>2
    <3>4. /\ at \in {"idle", "waiting", "begin", "io"}
          /\ \/ at = "begin" /\ ~pendings[e]
             \/ at = "waiting" /\ pendings[e] /\ how # "try"
             \/ at = "idle"
      BY DEF Suspended
    <3> HIDE DEF x, at
    <3>5. pending' \in Nat /\ PendingExact' /\ pendings' \in [Ends -> BOOLEAN]
          /\ budgets' \in [Ends -> 0 .. BUDGET]
      BY <1>0, <3>1 DEF TypeOK, NetInv, PendingExact
    <3>q. QED BY <3>1, <3>2, <3>3, <3>4, <3>5
  <2>q. QED BY <2>3, <2>4 DEF Round
<1> HIDE DEF m
<1>3. PICK at \in {"idle", "waiting", "begin", "io"}, v \in BOOLEAN :
           /\ Goto(e, how, at, v)
           /\ \/ /\ l.ready \/ l.signal
                 /\ m.ready /\ m.task = l.task
                 /\ at = "io" \/ (at = "waiting" /\ v)
              \/ /\ ~l.ready /\ ~l.signal /\ ~m.ready /\ ~m.signal
                 /\ how # "try" => m.task = e
                 /\ pendings' = pendings
                 /\ \/ at = "begin" /\ ~pendings[e]
                    \/ at = "waiting" /\ pendings[e] /\ how # "try"
                    \/ at = "idle"
  BY <1>2
<1>4. /\ pc' \in [Ends -> {"idle", "waiting", "begin", "io", "reset"}]
      /\ call' \in [Ends -> {"none", "io", "ready", "try"}]
      /\ woken' \in [Ends -> BOOLEAN]
      /\ pc'[e] = at /\ (at # "idle" => call'[e] = how)
      /\ woken'[e] <=> at # "idle" /\ v
      /\ \A f \in Ends : f # e => /\ pc'[f] = pc[f] /\ call'[f] = call[f]
                                  /\ woken'[f] = woken[f]
  BY <1>0, <1>3, GotoFacts
<1>5. /\ i \in Slots
      /\ latch' \in [Slots -> [Kinds -> Latches]]
      /\ latch'[i][e[2]] = m /\ LatchOf(e)' = m
      /\ \A s \in Slots, k \in Kinds :
           s # i \/ k # e[2] => latch'[s][k] = latch[s][k]
      /\ \A f \in Ends : f # e /\ phase[f[1]] # "closed" => LatchOf(f)' = LatchOf(f)
  BY <1>1, <1>2, OtherLatches
<1>6. /\ LatchOf(e) = latch[i][e[2]] /\ LatchOf(e).task \in Ends \cup {Nobody}
  BY <1>0, <1>5, EndFacts DEF TypeOK, LatchOf
<1>7. pc[e] = "reset" => LatchOf(e).ready
  BY <1>0 DEF NetInv, PlacesInPollIo
<1>8. LatchOf(e).task # Nobody => ~LatchOf(e).signal /\ ~LatchOf(e).ready
  BY <1>0, <1>5, <1>6, EndFacts DEF NetInv, WakerOnlyUnset
<1> HIDE DEF i
<1>10. TypeOK' BY <1>0, <1>1, <1>2, <1>4, <1>5 DEF TypeOK, Latches
<1>11. OpenHasSlot' BY <1>0, <1>1 DEF NetInv, OpenHasSlot
<1>12. CallsAreOpen'
  BY <1>0, <1>1, <1>4 DEF NetInv, CallsAreOpen, BorrowedHalf, OwnedHalf
<1>13. PlacesInPollIo'
  <2> SUFFICES ASSUME NEW f \in Ends
               PROVE /\ pc'[f] \in {"io", "reset"} => LatchOf(f)'.ready
                     /\ pc'[f] = "begin" => ~pendings'[f]
    BY DEF PlacesInPollIo
  <2>1. CASE f = e BY <2>1, <1>3, <1>4, <1>5
  <2>2. CASE f # e
    <3>1. pc[f] # "idle" => phase[f[1]] # "closed"
      BY <1>0 DEF NetInv, CallsAreOpen
    <3>q. QED BY <2>2, <3>1, <1>0, <1>2, <1>4, <1>5 DEF NetInv, PlacesInPollIo
  <2>q. QED BY <2>1, <2>2
<1>14. WakerOnlyUnset'
  <2> SUFFICES ASSUME NEW s \in Slots, NEW k \in Kinds, latch'[s][k].task # Nobody
               PROVE ~latch'[s][k].signal /\ ~latch'[s][k].ready
    BY DEF WakerOnlyUnset
  <2>1. CASE s = i /\ k = e[2]
    BY <2>1, <1>3, <1>5, <1>6, <1>7, <1>8
  <2>2. CASE s # i \/ k # e[2]
    BY <2>2, <1>0, <1>5 DEF NetInv, WakerOnlyUnset
  <2>q. QED BY <2>1, <2>2
<1>15. Registered'
  <2> SUFFICES ASSUME NEW f \in Ends, ~woken'[f]
               PROVE /\ pc'[f] = "waiting" => LatchOf(f)'.task = f /\ pendings'[f]
                     /\ pc'[f] = "begin" /\ call'[f] # "try" => LatchOf(f)'.task = f
    BY DEF Registered
  <2>1. CASE f = e BY <2>1, <1>3, <1>4, <1>5
  <2>2. CASE f # e
    <3>1. pc[f] # "idle" => phase[f[1]] # "closed"
      BY <1>0 DEF NetInv, CallsAreOpen
    <3>q. QED BY <2>2, <3>1, <1>0, <1>2, <1>4, <1>5 DEF NetInv, Registered
  <2>q. QED BY <2>1, <2>2
<1>16. ReadinessSomewhere'
  <2> SUFFICES ASSUME NEW f \in Ends, level[f]
               PROVE \/ edge[f] \/ InBatch(index[f[1]], f[2]) \/ LatchOf(f)'.signal
                     \/ LatchOf(f)'.ready /\ pc'[f] # "reset"
    BY <1>1 DEF ReadinessSomewhere, InBatch
  <2>0. \/ edge[f] \/ InBatch(index[f[1]], f[2]) \/ LatchOf(f).signal
        \/ LatchOf(f).ready /\ pc[f] # "reset"
    BY <1>0 DEF NetInv, ReadinessSomewhere
  <2>1. CASE f = e BY <2>0, <2>1, <1>3, <1>4, <1>5
  <2>2. CASE f # e
    <3>1. phase[f[1]] # "closed" BY <1>0 DEF NetInv, OpenHasSlot
    <3>q. QED BY <2>0, <2>2, <3>1, <1>4, <1>5
  <2>q. QED BY <2>1, <2>2
<1>17. BatchesKnown' BY <1>0, <1>1 DEF NetInv, BatchesKnown
<1>18. FreshReported'
  <2> SUFFICES ASSUME NEW s \in fresh, NEW k \in Kinds,
                      latch'[s][k].signal \/ latch'[s][k].ready \/ InBatch(s, k)
               PROVE \/ \E f \in reported : index[f[1]] = s /\ f[2] = k
                     \/ \E c \in Sources : index[c] = s /\ phase[c] = "dropping"
    BY <1>1 DEF FreshReported, InBatch
  <2>1. latch[s][k].signal \/ latch[s][k].ready \/ InBatch(s, k)
    <3>0. s \in Slots BY <1>0 DEF TypeOK
    <3>1. CASE s = i /\ k = e[2]
      BY <3>1, <1>3, <1>5, <1>6, <1>7
    <3>2. CASE s # i \/ k # e[2]
      BY <3>0, <3>2, <1>5
    <3>q. QED BY <3>1, <3>2
  <2>q. QED BY <2>1, <1>0 DEF NetInv, FreshReported
<1>19. WriteHalfKnown' BY <1>0, <1>1 DEF NetInv, WriteHalfKnown
<1>20. WakerOfOwner'
  <2> SUFFICES ASSUME NEW s \in Slots, NEW k \in Kinds, latch'[s][k].task # Nobody
               PROVE LET f == latch'[s][k].task IN
                     f[2] = k /\ index[f[1]] = s /\ phase[f[1]] = "open"
    BY <1>1 DEF WakerOfOwner
  <2>1. CASE s = i /\ k = e[2] /\ m.task = e BY <2>1, <1>5 DEF i
  <2>2. CASE ~(s = i /\ k = e[2] /\ m.task = e)
    <3>1. latch'[s][k].task = latch[s][k].task
      BY <2>2, <1>2, <1>5, <1>6
    <3>q. QED BY <3>1, <1>0 DEF NetInv, WakerOfOwner
  <2>q. QED BY <2>1, <2>2
<1>21. SlotOwnedOnce' BY <1>0, <1>1 DEF NetInv, SlotOwnedOnce
<1>q. QED
  BY <1>2, <1>10, <1>11, <1>12, <1>13, <1>14, <1>15, <1>16, <1>17, <1>18,
     <1>19, <1>20, <1>21 DEF IInv, NetInv
-----------------------------------------------------------------------------
(* A source registers, fails to, or none does. *)
Registration ==
  \/ UNCHANGED <<next_block, available, index, phase>>
  \/ \E c \in Sources :
       /\ phase[c] = "closed"
       /\ \/ Alloc(c) /\ phase' = [phase EXCEPT ![c] = "open"]
          \/ /\ available' = Refilled /\ RefillBlocks
             /\ UNCHANGED <<phase, index>>

(* The sources that are there keep their slots. *)
LEMMA RegistrationFacts ==
  ASSUME IInv, Registration
  PROVE  /\ next_block' \in 0 .. NUM_BLOCKS /\ next_block <= next_block'
         /\ available' \in Seq(Slots)
         /\ index' \in [Sources -> Slots \cup {NoSlot}]
         /\ phase' \in [Sources -> {"closed", "open", "dropping"}]
         /\ SlotOwnedOnce'
         /\ \A d \in Sources : phase[d] # "closed" =>
              index'[d] = index[d] /\ phase'[d] = phase[d]
         /\ \A d \in Sources : phase[d] = "closed" =>
              \/ phase'[d] = "closed" /\ index'[d] = NoSlot
              \/ phase'[d] = "open" /\ index'[d] \in Slots
<1>0. TypeOK /\ SlotOwnedOnce /\ OpenHasSlot BY DEF IInv, NetInv
<1>1. CASE UNCHANGED <<next_block, available, index, phase>>
  <2>1. SlotOwnedOnce' BY <1>0, <1>1 DEF SlotOwnedOnce
  <2>q. QED BY <1>0, <1>1, <2>1, NetIoAssumption DEF TypeOK, OpenHasSlot
<1>2. CASE ~UNCHANGED <<next_block, available, index, phase>>
  <2>1. PICK c \in Sources :
          /\ phase[c] = "closed"
          /\ \/ Alloc(c) /\ phase' = [phase EXCEPT ![c] = "open"]
             \/ /\ available' = Refilled /\ RefillBlocks
                /\ UNCHANGED <<phase, index>>
    BY <1>2 DEF Registration
  <2>2. index[c] = NoSlot BY <1>0, <2>1 DEF OpenHasSlot
  <2>3. CASE Alloc(c) /\ phase' = [phase EXCEPT ![c] = "open"]
    <3>1. /\ next_block' \in 0 .. NUM_BLOCKS /\ next_block <= next_block'
          /\ available' \in Seq(Slots)
          /\ index' \in [Sources -> Slots \cup {NoSlot}]
          /\ index'[c] \in Slots
          /\ \A d \in Sources : d # c => index'[d] = index[d]
          /\ SlotOwnedOnce'
      BY <1>0, <2>2, <2>3, AllocFacts
    <3>2. /\ phase' \in [Sources -> {"closed", "open", "dropping"}]
          /\ phase'[c] = "open"
          /\ \A d \in Sources : d # c => phase'[d] = phase[d]
      BY <1>0, <2>3 DEF TypeOK
    <3>q. QED BY <1>0, <2>1, <3>1, <3>2 DEF OpenHasSlot
  <2>4. CASE available' = Refilled /\ RefillBlocks /\ UNCHANGED <<phase, index>>
    <3>1. /\ next_block' \in 0 .. NUM_BLOCKS /\ next_block <= next_block'
          /\ available' \in Seq(Slots) /\ SlotOwnedOnce'
      BY <1>0, <2>4, AllocUndone
    <3>q. QED BY <1>0, <2>4, <3>1 DEF TypeOK, OpenHasSlot
  <2>q. QED BY <2>1, <2>3, <2>4
<1>q. QED BY <1>1, <1>2

(* What the kernel knows of an end that is ready after a step it knew      *)
(* before, or it has yet to report it.                                     *)
LevelStep ==
  /\ level' \in [Ends -> BOOLEAN] /\ edge' \in [Ends -> BOOLEAN]
  /\ \A e \in Ends : level'[e] =>
       \/ level[e] /\ (edge[e] => edge'[e])
       \/ edge'[e] /\ phase'[e[1]] # "closed"

(* A task stays where it is or comes out of do_io. *)
CallStep ==
  /\ pc' \in [Ends -> {"idle", "waiting", "begin", "io", "reset"}]
  /\ call' \in [Ends -> {"none", "io", "ready", "try"}]
  /\ woken' \in [Ends -> BOOLEAN]
  /\ \A e \in Ends :
       \/ pc'[e] = "idle"
       \/ pc'[e] = pc[e] /\ call'[e] = call[e] /\ woken'[e] = woken[e]

(* The half that a call uses stays, and the write half still shuts down. *)
HalvesStep ==
  /\ halves' \in [Sources -> SUBSET Kinds]
  /\ shutdown_on_drop' \in [Sources -> BOOLEAN] /\ shut' \in [Sources -> BOOLEAN]
  /\ WriteHalfKnown'
  /\ \A e \in Ends : pc[e] # "idle" => halves'[e[1]] = {} \/ e[2] \in halves'[e[1]]
  /\ \A c \in Sources : phase[c] # "open" => halves'[c] = {}

(* A step that touches no stream keeps what is known of its halves. *)
LEMMA SameHalves == ASSUME IInv, UNCHANGED streamVars PROVE HalvesStep
  BY DEF IInv, NetInv, TypeOK, streamVars, HalvesStep, WriteHalfKnown, CallsAreOpen

(* Steps that touch no waker, batch or flag: registrations, arrivals, the  *)
(* operations that succeed, and what is done to a stream as a whole.       *)
LEMMA KernelStep ==
  ASSUME IInv, Registration, LevelStep, CallStep, HalvesStep,
         UNCHANGED <<program, fresh, latch, pending, eventVars,
                     pendings, budgets, reported>>
  PROVE  IInv'
<1> USE DEF eventVars
<1>0. TypeOK /\ NetInv BY DEF IInv
<1>1. /\ next_block' \in 0 .. NUM_BLOCKS /\ next_block <= next_block'
      /\ available' \in Seq(Slots)
      /\ index' \in [Sources -> Slots \cup {NoSlot}]
      /\ phase' \in [Sources -> {"closed", "open", "dropping"}]
      /\ SlotOwnedOnce'
      /\ \A d \in Sources : phase[d] # "closed" =>
           index'[d] = index[d] /\ phase'[d] = phase[d]
      /\ \A d \in Sources : phase[d] = "closed" =>
           \/ phase'[d] = "closed" /\ index'[d] = NoSlot
           \/ phase'[d] = "open" /\ index'[d] \in Slots
  BY RegistrationFacts
<1>2. \A e \in Ends : phase[e[1]] # "closed" =>
        /\ index'[e[1]] = index[e[1]] /\ phase'[e[1]] = phase[e[1]]
        /\ LatchOf(e)' = LatchOf(e)
  BY <1>1, EndFacts DEF LatchOf
<1>3. \A e \in Ends : (pc[e] # "idle" \/ level[e]) => phase[e[1]] # "closed"
  BY <1>0 DEF NetInv, CallsAreOpen, OpenHasSlot
<1>4. TypeOK' BY <1>0, <1>1 DEF TypeOK, LevelStep, CallStep, HalvesStep
<1>5. OpenHasSlot'
  <2>1. ASSUME NEW c \in Sources PROVE phase'[c] = "closed" <=> index'[c] = NoSlot
    <3>1. CASE phase[c] = "closed" BY <1>1, <3>1, NoSlotIsNoSlot
    <3>2. CASE phase[c] # "closed" BY <1>0, <1>1, <3>2 DEF NetInv, OpenHasSlot
    <3>q. QED BY <3>1, <3>2
  <2>2. \A e \in Ends : level'[e] => phase'[e[1]] # "closed"
    BY <1>2, <1>3 DEF LevelStep
  <2>q. QED BY <2>1, <2>2 DEF OpenHasSlot
<1>6. CallsAreOpen'
  <2>1. \A e \in Ends : pc'[e] # "idle" =>
          /\ phase'[e[1]] = "open"
          /\ halves'[e[1]] = {} \/ e[2] \in halves'[e[1]]
    BY <1>0, <1>2, <1>3 DEF NetInv, CallsAreOpen, CallStep, HalvesStep
  <2>2. \A c \in Sources : phase'[c] # "open" => halves'[c] = {}
    BY <1>1 DEF HalvesStep
  <2>q. QED BY <2>1, <2>2 DEF CallsAreOpen
<1>7. PlacesInPollIo'
  BY <1>0, <1>2, <1>3 DEF NetInv, PlacesInPollIo, CallStep
<1>8. WakerOnlyUnset' BY <1>0 DEF NetInv, WakerOnlyUnset
<1>9. Registered'
  BY <1>0, <1>2, <1>3 DEF NetInv, Registered, CallStep
<1>10. ReadinessSomewhere'
  <2> SUFFICES ASSUME NEW e \in Ends, level'[e], ~edge'[e]
               PROVE \/ InBatch(index[e[1]], e[2]) /\ index'[e[1]] = index[e[1]]
                     \/ LatchOf(e)'.signal
                     \/ LatchOf(e)'.ready /\ pc'[e] # "reset"
    BY DEF ReadinessSomewhere, InBatch
  <2>1. level[e] /\ ~edge[e] BY DEF LevelStep
  <2>q. QED BY <2>1, <1>0, <1>2, <1>3 DEF NetInv, ReadinessSomewhere, CallStep
<1>11. BatchesKnown'
  <2>1. ASSUME NEW p \in Pollers, NEW w \in batch[p]
        PROVE \E s \in Slots : w[1] = Token(s) /\ s.block < next_block'
    <3>1. PICK s \in Slots : w[1] = Token(s) /\ s.block < next_block
      BY <1>0 DEF NetInv, BatchesKnown
    <3>2. s.block \in Nat /\ next_block \in Nat /\ next_block' \in Nat
      BY <1>0, <1>1, NetIoAssumption DEF Slots, TypeOK
    <3>q. QED BY <3>1, <3>2, <1>1
  <2>q. QED BY <2>1, <1>0 DEF NetInv, BatchesKnown
<1>12. FreshReported'
  <2> SUFFICES ASSUME NEW s \in fresh, NEW k \in Kinds,
                      latch[s][k].signal \/ latch[s][k].ready \/ InBatch(s, k)
               PROVE \/ \E e \in reported : index'[e[1]] = s /\ e[2] = k
                     \/ \E c \in Sources : index'[c] = s /\ phase'[c] = "dropping"
    BY DEF FreshReported, InBatch
  <2>0. s \in Slots /\ reported \subseteq Ends BY <1>0 DEF TypeOK
  <2>1. \A c \in Sources : index[c] = s => index'[c] = s /\ phase'[c] = phase[c]
    BY <1>0, <1>1, <2>0, NoSlotIsNoSlot DEF NetInv, OpenHasSlot
  <2>q. QED BY <2>0, <2>1, <1>0, EndFacts DEF NetInv, FreshReported
<1>13. WriteHalfKnown' BY DEF HalvesStep
<1>14. WakerOfOwner'
  <2> SUFFICES ASSUME NEW s \in Slots, NEW k \in Kinds, latch[s][k].task # Nobody
               PROVE LET f == latch[s][k].task IN
                     f[2] = k /\ index'[f[1]] = s /\ phase'[f[1]] = "open"
    BY DEF WakerOfOwner
  <2>1. latch[s][k].task \in Ends BY <1>0 DEF TypeOK
  <2>q. QED BY <2>1, <1>0, <1>2 DEF NetInv, WakerOfOwner
<1>15. PendingExact' BY <1>0 DEF NetInv, PendingExact
<1>q. QED
  BY <1>1, <1>4, <1>5, <1>6, <1>7, <1>8, <1>9, <1>10, <1>11, <1>12, <1>13,
     <1>14, <1>15 DEF IInv, NetInv
(* bind, connect and from_std *)
LEMMA OpenStep ==
  ASSUME IInv, NEW c \in Sources, Open(c)
  PROVE  IInv'
<1> USE DEF Open, eventVars, streamVars, callVars
<1>0. TypeOK BY DEF IInv
<1>1. Registration BY DEF New, RegisterFails, Registration
<1>2. LevelStep
  <2>1. CASE New(c)
    <3>1. PICK ready \in SUBSET (EndsOf(c) \cap driven) :
            /\ level' = [e \in Ends |-> level[e] \/ e \in ready]
            /\ edge' = [e \in Ends |-> edge[e] \/ e \in ready]
      BY <2>1 DEF New
    <3>2. phase'[c] = "open" BY <1>0, <2>1 DEF New, TypeOK
    <3>q. QED BY <1>0, <3>1, <3>2 DEF LevelStep, TypeOK, EndsOf
  <2>2. CASE RegisterFails(c)
    BY <1>0, <2>2 DEF RegisterFails, LevelStep, TypeOK
  <2>q. QED BY <2>1, <2>2
<1>3. CallStep BY <1>0 DEF CallStep, TypeOK
<1>4. HalvesStep BY SameHalves
<1>q. QED BY <1>1, <1>2, <1>3, <1>4, KernelStep

(* do_io succeeds and nothing registers. *)
LEMMA IoReadyStep ==
  ASSUME IInv, NEW e \in Ends, IoReady(e)
  PROVE  IInv'
<1> USE DEF IoReady, slotVars, eventVars, sourceVars, streamVars
<1>0. TypeOK /\ call[e] \in {"none", "io", "ready", "try"} BY DEF IInv, TypeOK
<1>1. Registration BY DEF Registration
<1>2. LevelStep BY <1>0 DEF LevelStep, TypeOK
<1>3. CallStep
  <2>1. /\ pc' \in [Ends -> {"idle", "waiting", "begin", "io", "reset"}]
        /\ call' \in [Ends -> {"none", "io", "ready", "try"}]
        /\ woken' \in [Ends -> BOOLEAN] /\ pc'[e] = "idle"
        /\ \A f \in Ends : f # e => /\ pc'[f] = pc[f] /\ call'[f] = call[f]
                                    /\ woken'[f] = woken[f]
    BY <1>0, GotoFacts
  <2>q. QED BY <2>1 DEF CallStep
<1>4. HalvesStep BY SameHalves
<1>q. QED BY <1>1, <1>2, <1>3, <1>4, KernelStep

(* accept succeeds and registers the stream, or fails to. *)
LEMMA IoAcceptStep ==
  ASSUME IInv, NEW e \in Ends, NEW c \in Streams, IoAccept(e, c)
  PROVE  IInv'
<1> USE DEF IoAccept, eventVars, streamVars
<1>0. /\ TypeOK /\ call[e] \in {"none", "io", "ready", "try"}
      /\ c \in Sources /\ e[1] # c
  BY EndFacts DEF IInv, TypeOK
<1>1. Registration BY <1>0 DEF Registration
<1>2. LevelStep
  <2>1. PICK more \in BOOLEAN, ready \in SUBSET (EndsOf(c) \cap driven) :
          /\ phase'[c] = "closed" => ready = {}
          /\ level' = [f \in Ends |->
                        IF f = e THEN more ELSE level[f] \/ f \in ready]
          /\ edge' = [f \in Ends |->
                       IF f = e THEN edge[f] /\ more ELSE edge[f] \/ f \in ready]
    OBVIOUS
  <2>2. level' \in [Ends -> BOOLEAN] /\ edge' \in [Ends -> BOOLEAN]
    BY <1>0, <2>1 DEF TypeOK
  <2>3. ASSUME NEW f \in Ends, level'[f]
        PROVE \/ level[f] /\ (edge[f] => edge'[f])
              \/ edge'[f] /\ phase'[f[1]] # "closed"
    <3>1. CASE f = e BY <2>1, <2>3, <3>1
    <3>2. CASE f # e
      <4>1. CASE f \in ready
        <5>1. edge'[f] /\ f[1] = c BY <2>1, <3>2, <4>1 DEF EndsOf
        <5>q. QED BY <5>1, <2>1, <4>1
      <4>2. CASE f \notin ready BY <2>1, <2>3, <3>2, <4>2
      <4>q. QED BY <4>1, <4>2
    <3>q. QED BY <3>1, <3>2
  <2>q. QED BY <2>2, <2>3 DEF LevelStep
<1>3. CallStep
  <2>1. /\ pc' \in [Ends -> {"idle", "waiting", "begin", "io", "reset"}]
        /\ call' \in [Ends -> {"none", "io", "ready", "try"}]
        /\ woken' \in [Ends -> BOOLEAN] /\ pc'[e] = "idle"
        /\ \A f \in Ends : f # e => /\ pc'[f] = pc[f] /\ call'[f] = call[f]
                                    /\ woken'[f] = woken[f]
    BY <1>0, GotoFacts
  <2>q. QED BY <2>1 DEF CallStep
<1>4. HalvesStep BY SameHalves
<1>q. QED BY <1>1, <1>2, <1>3, <1>4, KernelStep

(* The peer acts. *)
LEMMA ArriveStep ==
  ASSUME IInv, NEW e \in Ends, Arrive(e)
  PROVE  IInv'
<1> USE DEF Arrive, slotVars, eventVars, sourceVars, streamVars, callVars
<1>0. TypeOK BY DEF IInv
<1>1. Registration BY DEF Registration
<1>2. LevelStep BY <1>0 DEF LevelStep, TypeOK
<1>3. CallStep BY <1>0 DEF CallStep, TypeOK
<1>4. HalvesStep BY SameHalves
<1>q. QED BY <1>1, <1>2, <1>3, <1>4, KernelStep

(* shutdown(Write) of an open stream *)
LEMMA ShutdownLevel ==
  ASSUME TypeOK, NEW c \in Streams, phase'[c] # "closed", ShutdownWrite(c)
  PROVE  /\ LevelStep /\ shut' \in [Sources -> BOOLEAN] /\ shut'[c]
         /\ \A d \in Sources : d # c => shut'[d] = shut[d]
<1> DEFINE e == <<c, "Write">>
<1>1. e \in Ends /\ c \in Sources /\ e[1] = c BY EndFacts
<1> HIDE DEF e
<1>2. PICK works \in BOOLEAN :
       /\ level' = [level EXCEPT ![e] = @ \/ (works /\ e \in driven)]
       /\ edge' = [edge EXCEPT ![e] = @ \/ (works /\ e \in driven)]
  BY DEF ShutdownWrite, e
<1>3. shut' = [shut EXCEPT ![c] = TRUE] BY DEF ShutdownWrite
<1>4. LevelStep
  <2>1. level' \in [Ends -> BOOLEAN] /\ edge' \in [Ends -> BOOLEAN]
    BY <1>2 DEF TypeOK
  <2>2. ASSUME NEW f \in Ends, level'[f]
        PROVE \/ level[f] /\ (edge[f] => edge'[f])
              \/ edge'[f] /\ phase'[f[1]] # "closed"
    BY <1>1, <1>2, <2>2 DEF TypeOK
  <2>q. QED BY <2>1, <2>2 DEF LevelStep
<1>q. QED BY <1>1, <1>3, <1>4 DEF TypeOK

(* AsyncWrite::poll_shutdown only shuts the socket's write direction down. *)
LEMMA PollShutdownStep ==
  ASSUME IInv, NEW c \in Streams, PollShutdown(c)
  PROVE  IInv'
<1> USE DEF PollShutdown, slotVars, eventVars, callVars
<1>0. TypeOK /\ NetInv /\ c \in Sources BY EndFacts DEF IInv
<1>1. Registration BY DEF Registration
<1>2. /\ LevelStep /\ shut' \in [Sources -> BOOLEAN] /\ shut'[c]
      /\ \A d \in Sources : d # c => shut'[d] = shut[d]
  BY <1>0, ShutdownLevel
<1>3. CallStep BY <1>0 DEF CallStep, TypeOK
<1>4. /\ shutdown_on_drop' \in [Sources -> BOOLEAN]
      /\ \A d \in Sources : d # c => shutdown_on_drop'[d] = shutdown_on_drop[d]
  BY <1>0 DEF TypeOK
<1>5. HalvesStep
  BY <1>0, <1>2, <1>4
     DEF HalvesStep, NetInv, TypeOK, WriteHalfKnown, CallsAreOpen
<1>q. QED BY <1>1, <1>2, <1>3, <1>5, KernelStep

(* into_split and reunite: both halves come, or go. *)
LEMMA SplitStep ==
  ASSUME IInv, NEW c \in Streams, IntoSplit(c) \/ Reunite(c)
  PROVE  IInv'
<1> USE DEF IntoSplit, Reunite, slotVars, eventVars, callVars, kernelVars
<1>0. TypeOK /\ NetInv /\ c \in Sources BY EndFacts DEF IInv
<1>1. Registration BY DEF Registration
<1>2. LevelStep BY <1>0 DEF LevelStep, TypeOK
<1>3. CallStep BY <1>0 DEF CallStep, TypeOK
<1>4. HalvesStep
  <2>1. /\ halves' \in [Sources -> SUBSET Kinds]
        /\ shutdown_on_drop' \in [Sources -> BOOLEAN]
        /\ \A d \in Sources : d # c => /\ halves'[d] = halves[d]
                                       /\ shutdown_on_drop'[d] = shutdown_on_drop[d]
        /\ phase[c] = "open" /\ UNCHANGED shut
        /\ \/ halves'[c] = Kinds /\ shutdown_on_drop'[c]
           \/ halves'[c] = {}
    BY <1>0 DEF TypeOK
  <2>2. WriteHalfKnown' BY <1>0, <2>1 DEF NetInv, WriteHalfKnown
  <2>3. \A e \in Ends : pc[e] # "idle" => halves'[e[1]] = {} \/ e[2] \in halves'[e[1]]
    BY <1>0, <2>1, EndFacts DEF NetInv, CallsAreOpen
  <2>q. QED BY <1>0, <2>1, <2>2, <2>3 DEF HalvesStep, TypeOK, NetInv, CallsAreOpen
<1>q. QED BY <1>1, <1>2, <1>3, <1>4, KernelStep
-----------------------------------------------------------------------------
(* A wake of a slot, by process or by the drop of its source, keeps what   *)
(* the tasks inside a call rely on.                                        *)
LEMMA WakeKeeps ==
  ASSUME IInv, NEW s \in Slots, NEW kinds \in SUBSET Kinds, WakeSlot(s, kinds),
         UNCHANGED <<index, pc, call>>,
         \A f \in Ends : pc[f] # "idle" => pendings'[f] = pendings[f]
  PROVE  /\ WakerOnlyUnset' /\ Registered' /\ PlacesInPollIo'
         /\ latch' \in [Slots -> [Kinds -> Latches]]
         /\ woken' \in [Ends -> BOOLEAN]
         /\ \A k \in kinds : latch'[s][k].signal /\ latch'[s][k].task = Nobody
         /\ \A t \in Slots, k \in Kinds :
              /\ latch'[t][k].ready = latch[t][k].ready
              /\ latch[t][k].signal => latch'[t][k].signal
              /\ t # s \/ k \notin kinds => latch'[t][k] = latch[t][k]
         /\ \A f \in Ends : phase[f[1]] # "closed" =>
              /\ LatchOf(f)'.ready = LatchOf(f).ready
              /\ LatchOf(f).signal => LatchOf(f)'.signal
<1>0. TypeOK /\ NetInv BY DEF IInv
<1>1. /\ latch' \in [Slots -> [Kinds -> Latches]]
      /\ \A k \in kinds : /\ latch'[s][k].signal
                          /\ latch'[s][k].ready = latch[s][k].ready
                          /\ latch'[s][k].task = Nobody
      /\ \A t \in Slots, k \in Kinds :
           t # s \/ k \notin kinds => latch'[t][k] = latch[t][k]
      /\ woken' \in [Ends -> BOOLEAN]
      /\ \A e \in Ends : woken[e] => woken'[e]
      /\ \A e \in Ends : \A k \in kinds :
           pc[e] # "idle" /\ latch[s][k].task = e => woken'[e]
  BY <1>0, WakeSlotFacts
<1>2. \A t \in Slots, k \in Kinds :
        /\ latch'[t][k].ready = latch[t][k].ready
        /\ latch[t][k].signal => latch'[t][k].signal
  BY <1>1
<1>3. \A f \in Ends : phase[f[1]] # "closed" => index[f[1]] \in Slots /\ f[2] \in Kinds
  BY <1>0, EndFacts DEF NetInv, OpenHasSlot, TypeOK
<1>4. \A f \in Ends : phase[f[1]] # "closed" =>
        /\ LatchOf(f)'.ready = LatchOf(f).ready
        /\ LatchOf(f).signal => LatchOf(f)'.signal
  BY <1>2, <1>3 DEF LatchOf
<1>5. WakerOnlyUnset'
  BY <1>0, <1>1 DEF NetInv, WakerOnlyUnset
<1>6. \A f \in Ends : pc[f] # "idle" => phase[f[1]] # "closed"
  BY <1>0 DEF NetInv, CallsAreOpen
<1>7. PlacesInPollIo'
  BY <1>0, <1>4, <1>6 DEF NetInv, PlacesInPollIo
<1>8. Registered'
  <2> SUFFICES ASSUME NEW f \in Ends, ~woken'[f], pc[f] \in {"waiting", "begin"}
               PROVE /\ LatchOf(f).task = f => LatchOf(f)'.task = f
                     /\ ~woken[f] /\ pendings'[f] = pendings[f]
    BY <1>0 DEF NetInv, Registered
  <2>1. ~woken[f] /\ pendings'[f] = pendings[f] BY <1>1
  <2>2. ASSUME LatchOf(f).task = f PROVE LatchOf(f)'.task = f
    <3>1. index[f[1]] \in Slots /\ f[2] \in Kinds BY <1>3, <1>6
    <3>2. index[f[1]] # s \/ f[2] \notin kinds BY <1>1, <2>2 DEF LatchOf
    <3>q. QED BY <1>1, <2>2, <3>1, <3>2 DEF LatchOf
  <2>q. QED BY <2>1, <2>2
<1>q. QED BY <1>1, <1>2, <1>4, <1>5, <1>7, <1>8

(* The Pollable of c is dropped, with the stream or with its last half. *)
LEMMA DropStep ==
  ASSUME IInv, NEW c \in Sources, phase[c] = "open",
         \A e \in EndsOf(c) : pc[e] = "idle",
         DropPollable(c), LevelStep,
         halves' \in [Sources -> SUBSET Kinds], halves'[c] = {},
         shutdown_on_drop' \in [Sources -> BOOLEAN], shut' \in [Sources -> BOOLEAN],
         \A d \in Sources : d # c =>
           /\ halves'[d] = halves[d] /\ shut'[d] = shut[d]
           /\ shutdown_on_drop'[d] = shutdown_on_drop[d],
         UNCHANGED <<program, slotVars, eventVars, index, budgets, pc, call,
                     reported>>
  PROVE  IInv'
<1> USE DEF slotVars, eventVars
<1>0. TypeOK /\ NetInv BY DEF IInv
<1>1. index[c] \in Slots BY <1>0 DEF NetInv, OpenHasSlot, TypeOK
<1>2. /\ phase' \in [Sources -> {"closed", "open", "dropping"}]
      /\ phase'[c] = "dropping"
      /\ \A d \in Sources : d # c => phase'[d] = phase[d]
      /\ pendings' \in [Ends -> BOOLEAN]
      /\ \A f \in Ends : f[1] # c => pendings'[f] = pendings[f]
      /\ WakeSlot(index[c], Kinds)
      /\ \A f \in Ends : pc[f] # "idle" => f[1] # c
  BY <1>0 DEF DropPollable, TypeOK, EndsOf
<1>3. /\ WakerOnlyUnset' /\ Registered' /\ PlacesInPollIo'
      /\ latch' \in [Slots -> [Kinds -> Latches]]
      /\ woken' \in [Ends -> BOOLEAN]
      /\ \A k \in Kinds : latch'[index[c]][k].signal /\ latch'[index[c]][k].task = Nobody
      /\ \A t \in Slots, k \in Kinds :
           t # index[c] \/ k \notin Kinds => latch'[t][k] = latch[t][k]
      /\ \A f \in Ends : phase[f[1]] # "closed" =>
           /\ LatchOf(f)'.ready = LatchOf(f).ready
           /\ LatchOf(f).signal => LatchOf(f)'.signal
  BY <1>1, <1>2, WakeKeeps
<1>4. pending' \in Nat /\ PendingExact'
  BY <1>0, PendingDropped DEF NetInv, DropPollable
<1>5. TypeOK'
  BY <1>0, <1>2, <1>3, <1>4 DEF TypeOK, Latches, LevelStep
<1>6. OpenHasSlot'
  <2>1. \A d \in Sources : phase'[d] = "closed" <=> index[d] = NoSlot
    BY <1>0, <1>2 DEF NetInv, OpenHasSlot
  <2>2. \A e \in Ends : level'[e] => phase'[e[1]] # "closed"
    BY <1>0, <1>2, EndFacts DEF NetInv, OpenHasSlot, LevelStep
  <2>q. QED BY <2>1, <2>2 DEF OpenHasSlot
<1>7. CallsAreOpen'
  <2>1. ASSUME NEW e \in Ends, pc[e] # "idle"
        PROVE /\ phase'[e[1]] = "open"
              /\ halves'[e[1]] = {} \/ e[2] \in halves'[e[1]]
    <3>1. e[1] \in Sources /\ e[1] # c BY <1>2, <2>1, EndFacts
    <3>q. QED BY <1>0, <1>2, <2>1, <3>1 DEF NetInv, CallsAreOpen
  <2>2. \A d \in Sources : phase'[d] # "open" => halves'[d] = {}
    BY <1>0, <1>2 DEF NetInv, CallsAreOpen
  <2>q. QED BY <2>1, <2>2 DEF CallsAreOpen
<1>8. ReadinessSomewhere'
  <2> SUFFICES ASSUME NEW e \in Ends, level'[e], ~edge'[e]
               PROVE \/ InBatch(index[e[1]], e[2])
                     \/ LatchOf(e)'.signal
                     \/ LatchOf(e)'.ready /\ pc[e] # "reset"
    BY DEF ReadinessSomewhere, InBatch
  <2>1. level[e] /\ ~edge[e] BY DEF LevelStep
  <2>2. phase[e[1]] # "closed" BY <1>0, <2>1 DEF NetInv, OpenHasSlot
  <2>q. QED BY <2>1, <2>2, <1>0, <1>3 DEF NetInv, ReadinessSomewhere
<1>9. BatchesKnown' BY <1>0 DEF NetInv, BatchesKnown
<1>10. FreshReported'
  <2> SUFFICES ASSUME NEW s \in fresh, NEW k \in Kinds,
                 latch'[s][k].signal \/ latch'[s][k].ready \/ InBatch(s, k)
               PROVE \/ \E e \in reported : index[e[1]] = s /\ e[2] = k
                     \/ \E d \in Sources : index[d] = s /\ phase'[d] = "dropping"
    BY DEF FreshReported, InBatch
  <2>1. CASE s = index[c] BY <2>1, <1>2
  <2>2. CASE s # index[c]
    <3>0. s \in Slots BY <1>0 DEF TypeOK
    <3>1. latch[s][k].signal \/ latch[s][k].ready \/ InBatch(s, k)
      BY <2>2, <3>0, <1>3
    <3>2. \A d \in Sources : phase[d] = "dropping" => phase'[d] = "dropping"
      BY <1>2
    <3>q. QED BY <3>1, <3>2, <1>0 DEF NetInv, FreshReported
  <2>q. QED BY <2>1, <2>2
<1>11. WriteHalfKnown' BY <1>0 DEF NetInv, WriteHalfKnown
<1>12. WakerOfOwner'
  <2> SUFFICES ASSUME NEW s \in Slots, NEW k \in Kinds, latch'[s][k].task # Nobody
               PROVE LET f == latch'[s][k].task IN
                     f[2] = k /\ index[f[1]] = s /\ phase'[f[1]] = "open"
    BY DEF WakerOfOwner
  <2>1. s # index[c] /\ latch'[s][k] = latch[s][k] BY <1>3
  <2>2. latch[s][k].task \in Ends BY <1>0, <2>1 DEF TypeOK
  <2>q. QED BY <2>1, <2>2, <1>0, <1>2, EndFacts DEF NetInv, WakerOfOwner
<1>13. SlotOwnedOnce' BY <1>0 DEF NetInv, SlotOwnedOnce
<1>q. QED
  BY <1>3, <1>4, <1>5, <1>6, <1>7, <1>8, <1>9, <1>10, <1>11, <1>12, <1>13
     DEF IInv, NetInv

(* The drop of a source that is not split. *)
LEMMA DropSourceStep ==
  ASSUME IInv, NEW c \in Sources, DropSource(c)
  PROVE  IInv'
<1> USE DEF DropSource, streamVars, kernelVars
<1>0. TypeOK BY DEF IInv
<1>1. LevelStep BY <1>0 DEF LevelStep, TypeOK
<1>q. QED BY <1>0, <1>1, DropStep DEF TypeOK

(* A half goes: the Pollable is dropped with the last one. *)
LEMMA ReleaseHalfStep ==
  ASSUME IInv, NEW c \in Streams, NEW k \in Kinds, ReleaseHalf(c, k), LevelStep,
         shutdown_on_drop' \in [Sources -> BOOLEAN], shut' \in [Sources -> BOOLEAN],
         k = "Read" => UNCHANGED <<shutdown_on_drop, shut>>,
         \A d \in Sources : d # c =>
           shut'[d] = shut[d] /\ shutdown_on_drop'[d] = shutdown_on_drop[d]
  PROVE  IInv'
<1> USE DEF ReleaseHalf, slotVars, eventVars
<1>0. TypeOK /\ NetInv /\ c \in Sources BY EndFacts DEF IInv
<1>1. /\ halves' \in [Sources -> SUBSET Kinds] /\ halves'[c] = halves[c] \ {k}
      /\ \A d \in Sources : d # c => halves'[d] = halves[d]
  BY <1>0 DEF TypeOK
<1>2. CASE halves[c] = {k}
  <2>1. \A e \in EndsOf(c) : pc[e] = "idle"
    <3> SUFFICES ASSUME NEW e \in EndsOf(c), pc[e] # "idle" PROVE FALSE
      OBVIOUS
    <3>1. e \in Ends /\ e[1] = c BY DEF EndsOf
    <3>2. e[2] = k BY <1>0, <1>2, <3>1 DEF NetInv, CallsAreOpen
    <3>q. QED BY <3>1, <3>2, EndFacts
  <2>2. halves'[c] = {} BY <1>1, <1>2
  <2>q. QED BY <1>0, <1>1, <1>2, <2>1, <2>2, DropStep
<1>3. CASE halves[c] # {k}
  <2>1. Registration BY <1>3 DEF Registration
  <2>2. CallStep BY <1>0, <1>3 DEF CallStep, TypeOK
  <2>3. HalvesStep
    <3>1. WriteHalfKnown'
      BY <1>0, <1>1 DEF NetInv, WriteHalfKnown, Kinds
    <3>2. ASSUME NEW e \in Ends, pc[e] # "idle"
          PROVE halves'[e[1]] = {} \/ e[2] \in halves'[e[1]]
      <4>1. halves[e[1]] = {} \/ e[2] \in halves[e[1]]
        BY <1>0, <3>2 DEF NetInv, CallsAreOpen
      <4>2. e[1] = c => e[2] # k BY <3>2, EndFacts
      <4>q. QED BY <1>1, <4>1, <4>2, EndFacts
    <3>3. \A d \in Sources : phase[d] # "open" => halves'[d] = {}
      BY <1>0, <1>1 DEF NetInv, CallsAreOpen
    <3>q. QED BY <1>1, <3>1, <3>2, <3>3 DEF HalvesStep
  <2>q. QED BY <1>3, <2>1, <2>2, <2>3, KernelStep
<1>q. QED BY <1>2, <1>3

(* The drop of an owned half, which frees the source if it is the last, and *)
(* forget.                                                                 *)
LEMMA DropHalvesStep ==
  ASSUME IInv, NEW c \in Streams, DropReadHalf(c) \/ DropWriteHalf(c) \/ Forget(c)
  PROVE  IInv'
<1>0. TypeOK /\ c \in Sources /\ "Read" \in Kinds /\ "Write" \in Kinds
  BY EndFacts DEF IInv, Kinds
<1>1. UNCHANGED <<level, edge>> => LevelStep BY <1>0 DEF LevelStep, TypeOK
<1>2. CASE DropReadHalf(c)
  BY <1>0, <1>1, <1>2, ReleaseHalfStep DEF DropReadHalf, TypeOK
<1>3. CASE DropWriteHalf(c)
  <2>1. CASE shutdown_on_drop[c]
    <3>1. ReleaseHalf(c, "Write") /\ ShutdownWrite(c) /\ UNCHANGED shutdown_on_drop
      BY <1>3, <2>1 DEF DropWriteHalf
    <3>2. phase'[c] # "closed"
      BY <1>0, <3>1 DEF ReleaseHalf, DropPollable, TypeOK
    <3>3. /\ LevelStep /\ shut' \in [Sources -> BOOLEAN]
          /\ \A d \in Sources : d # c => shut'[d] = shut[d]
      BY <1>0, <3>1, <3>2, ShutdownLevel
    <3>q. QED BY <1>0, <3>1, <3>3, ReleaseHalfStep DEF TypeOK
  <2>2. CASE ~shutdown_on_drop[c]
    BY <1>0, <1>1, <1>3, <2>2, ReleaseHalfStep DEF DropWriteHalf, TypeOK
  <2>q. QED BY <2>1, <2>2
<1>4. CASE Forget(c)
  <2>1. /\ shutdown_on_drop' \in [Sources -> BOOLEAN]
        /\ \A d \in Sources : d # c => shutdown_on_drop'[d] = shutdown_on_drop[d]
    BY <1>0, <1>4 DEF Forget, TypeOK
  <2>q. QED BY <1>0, <1>1, <1>4, <2>1, ReleaseHalfStep DEF Forget, TypeOK
<1>q. QED BY <1>2, <1>3, <1>4
(* Poller::deregister: the slot of the source is free and no longer fresh. *)
LEMMA DeregisterStep ==
  ASSUME IInv, NEW c \in Sources, Deregister(c)
  PROVE  IInv'
<1> USE DEF Deregister, eventVars, callVars
<1>0. TypeOK /\ NetInv BY DEF IInv
<1>1. index[c] \in Slots BY <1>0 DEF NetInv, OpenHasSlot, TypeOK
<1>2. /\ available' \in Seq(Slots)
      /\ index' \in [Sources -> Slots \cup {NoSlot}]
      /\ \A d \in Sources : index'[d] = IF d = c THEN NoSlot ELSE index[d]
      /\ SlotOwnedOnce'
  BY <1>0, <1>1, DeallocFacts DEF NetInv
<1>3. /\ phase' \in [Sources -> {"closed", "open", "dropping"}]
      /\ phase'[c] = "closed"
      /\ \A d \in Sources : d # c => phase'[d] = phase[d]
  BY <1>0 DEF TypeOK
<1>4. /\ level' \in [Ends -> BOOLEAN] /\ edge' \in [Ends -> BOOLEAN]
      /\ \A e \in Ends : level'[e] <=> level[e] /\ e[1] # c
      /\ \A e \in Ends : edge'[e] <=> edge[e] /\ e[1] # c
      /\ reported' \subseteq Ends
      /\ \A e \in Ends : e \in reported' <=> e \in reported /\ e[1] # c
  BY <1>0 DEF TypeOK, EndsOf
<1>5. /\ budgets' \in [Ends -> 0 .. BUDGET]
      /\ shutdown_on_drop' \in [Sources -> BOOLEAN] /\ shut' \in [Sources -> BOOLEAN]
      /\ \A d \in Sources : d # c =>
           shutdown_on_drop'[d] = shutdown_on_drop[d] /\ shut'[d] = shut[d]
  BY <1>0, NetIoAssumption DEF TypeOK
<1>6. \A e \in Ends : e[1] # c =>
        /\ phase'[e[1]] = phase[e[1]] /\ index'[e[1]] = index[e[1]]
        /\ LatchOf(e)' = LatchOf(e)
  BY <1>2, <1>3, EndFacts DEF LatchOf
<1>7. \A e \in Ends : pc[e] # "idle" => e[1] # c
  BY <1>0 DEF NetInv, CallsAreOpen
<1>8. TypeOK' BY <1>0, <1>2, <1>3, <1>4, <1>5 DEF TypeOK
<1>9. OpenHasSlot'
  <2>1. ASSUME NEW d \in Sources PROVE phase'[d] = "closed" <=> index'[d] = NoSlot
    BY <1>0, <1>2, <1>3 DEF NetInv, OpenHasSlot
  <2>2. \A e \in Ends : level'[e] => phase'[e[1]] # "closed"
    BY <1>0, <1>4, <1>6 DEF NetInv, OpenHasSlot
  <2>q. QED BY <2>1, <2>2 DEF OpenHasSlot
<1>10. CallsAreOpen'
  <2>1. \A e \in Ends : pc[e] # "idle" =>
          /\ phase'[e[1]] = "open"
          /\ halves[e[1]] = {} \/ e[2] \in halves[e[1]]
    BY <1>0, <1>6, <1>7 DEF NetInv, CallsAreOpen
  <2>2. \A d \in Sources : phase'[d] # "open" => halves[d] = {}
    BY <1>0, <1>3 DEF NetInv, CallsAreOpen
  <2>q. QED BY <2>1, <2>2 DEF CallsAreOpen
<1>11. PlacesInPollIo' BY <1>0, <1>6, <1>7 DEF NetInv, PlacesInPollIo
<1>12. WakerOnlyUnset' BY <1>0 DEF NetInv, WakerOnlyUnset
<1>13. Registered' BY <1>0, <1>6, <1>7 DEF NetInv, Registered
<1>14. ReadinessSomewhere'
  <2> SUFFICES ASSUME NEW e \in Ends, level'[e]
               PROVE \/ edge'[e] \/ InBatch(index'[e[1]], e[2]) \/ LatchOf(e)'.signal
                     \/ LatchOf(e)'.ready /\ pc[e] # "reset"
    BY DEF ReadinessSomewhere, InBatch
  <2>q. QED BY <1>0, <1>4, <1>6 DEF NetInv, ReadinessSomewhere
<1>15. BatchesKnown' BY <1>0 DEF NetInv, BatchesKnown
<1>16. FreshReported'
  <2> SUFFICES ASSUME NEW s \in fresh', NEW k \in Kinds,
                      latch[s][k].signal \/ latch[s][k].ready \/ InBatch(s, k)
               PROVE \/ \E e \in reported' : index'[e[1]] = s /\ e[2] = k
                     \/ \E d \in Sources : index'[d] = s /\ phase'[d] = "dropping"
    BY DEF FreshReported, InBatch
  <2>0. s \in fresh /\ s # index[c] OBVIOUS
  <2>1. CASE \E e \in reported : index[e[1]] = s /\ e[2] = k
    <3>1. PICK e \in reported : index[e[1]] = s /\ e[2] = k BY <2>1
    <3>2. e \in Ends /\ e[1] # c BY <1>0, <2>0, <3>1 DEF TypeOK
    <3>q. QED BY <3>1, <3>2, <1>4, <1>6
  <2>2. CASE \E d \in Sources : index[d] = s /\ phase[d] = "dropping"
    BY <2>0, <2>2, <1>2, <1>3
  <2>q. QED BY <1>0, <2>0, <2>1, <2>2 DEF NetInv, FreshReported
<1>17. WriteHalfKnown'
  BY <1>0, <1>5 DEF NetInv, WriteHalfKnown, CallsAreOpen
<1>18. WakerOfOwner'
  <2> SUFFICES ASSUME NEW s \in Slots, NEW k \in Kinds, latch[s][k].task # Nobody
               PROVE LET f == latch[s][k].task IN
                     f[2] = k /\ index'[f[1]] = s /\ phase'[f[1]] = "open"
    BY DEF WakerOfOwner
  <2>1. latch[s][k].task \in Ends BY <1>0 DEF TypeOK
  <2>q. QED BY <2>1, <1>0, <1>6 DEF NetInv, WakerOfOwner
<1>19. PendingExact' BY <1>0 DEF NetInv, PendingExact
<1>q. QED
  BY <1>2, <1>8, <1>9, <1>10, <1>11, <1>12, <1>13, <1>14, <1>15, <1>16, <1>17,
     <1>18, <1>19 DEF IInv, NetInv
-----------------------------------------------------------------------------
(* Poller::try_poll that takes the selector moves one poller only. *)
LEMMA TryPollStep ==
  ASSUME IInv, NEW p \in Pollers, TryPoll(p)
  PROVE  IInv'
<1> USE DEF TryPoll, slotVars, sourceVars, streamVars, callVars, kernelVars
<1>0. TypeOK /\ NetInv BY DEF IInv
<1>1. TypeOK' BY <1>0 DEF TypeOK
<1>2. BatchesKnown' BY <1>0 DEF NetInv, BatchesKnown
<1>3. OpenHasSlot' /\ CallsAreOpen' /\ PlacesInPollIo' /\ WakerOnlyUnset' /\ Registered'
  BY <1>0 DEF NetInv, OpenHasSlot, CallsAreOpen, PlacesInPollIo, WakerOnlyUnset,
              Registered, LatchOf
<1>4. ReadinessSomewhere' BY <1>0 DEF NetInv, ReadinessSomewhere, LatchOf, InBatch
<1>5. FreshReported' BY <1>0 DEF NetInv, FreshReported, InBatch
<1>6. WriteHalfKnown' BY <1>0 DEF NetInv, WriteHalfKnown
<1>7. WakerOfOwner' BY <1>0 DEF NetInv, WakerOfOwner
<1>8. SlotOwnedOnce' BY <1>0 DEF NetInv, SlotOwnedOnce
<1>9. PendingExact' BY <1>0 DEF NetInv, PendingExact
<1>q. QED BY <1>1, <1>2, <1>3, <1>4, <1>5, <1>6, <1>7, <1>8, <1>9 DEF IInv, NetInv

(* A select moves the readiness that the kernel has from the edges to the  *)
(* batch.                                                                  *)
LEMMA SelectStep ==
  ASSUME IInv, NEW p \in Pollers, Select(p)
  PROVE  IInv'
<1> USE DEF slotVars, sourceVars, streamVars, callVars
<1> DEFINE ready == {e \in Ends : level[e] /\ \E f \in EndsOf(e[1]) : edge[f]}
           B == {<<Token(index[e[1]]), e[2]>> : e \in ready}
<1>0. TypeOK /\ NetInv BY DEF IInv
<1>1. /\ selector = p /\ selector' = Nobody /\ batch' = [batch EXCEPT ![p] = B]
      /\ edge' = [e \in Ends |-> FALSE]
      /\ reported' = reported \cup {e \in ready : index[e[1]] \in fresh}
      /\ UNCHANGED <<program, next_block, available, fresh, latch, pending,
           phase, index, halves, shutdown_on_drop, shut, pendings, budgets,
           pc, call, woken, level>>
  BY DEF Select
<1>2. \A e \in ready : /\ e \in Ends /\ level[e] /\ e[1] \in Sources
                       /\ index[e[1]] \in Slots /\ e[2] \in Kinds
                       /\ index[e[1]].block < next_block
  <2>1. \A e \in ready : e \in Ends /\ level[e] OBVIOUS
  <2>2. \A e \in ready : e[1] \in Sources /\ e[2] \in Kinds /\ index[e[1]] \in Slots
    BY <1>0, <2>1, EndFacts DEF NetInv, OpenHasSlot, TypeOK
  <2>q. QED BY <1>0, <2>1, <2>2 DEF NetInv, SlotOwnedOnce
<1>3. \A e \in Ends : level[e] /\ edge[e] => e \in ready BY DEF EndsOf
<1> HIDE DEF ready
<1>4. B \subseteq {Token(s) : s \in Slots} \X Kinds BY <1>2
<1>5. /\ batch' \in [Pollers -> SUBSET ({Token(s) : s \in Slots} \X Kinds)]
      /\ batch'[p] = B /\ \A q \in Pollers : q # p => batch'[q] = batch[q]
      /\ batch[p] = {}
  BY <1>0, <1>1, <1>4 DEF TypeOK, NetInv, BatchesKnown
<1>7. TypeOK' BY <1>0, <1>1, <1>2, <1>5 DEF TypeOK
<1>8. OpenHasSlot' /\ CallsAreOpen' /\ PlacesInPollIo' /\ WakerOnlyUnset' /\ Registered'
  BY <1>0, <1>1 DEF NetInv, OpenHasSlot, CallsAreOpen, PlacesInPollIo, WakerOnlyUnset,
              Registered, LatchOf
<1>9. ReadinessSomewhere'
  <2> SUFFICES ASSUME NEW e \in Ends, level[e]
               PROVE \/ InBatch(index[e[1]], e[2])' \/ LatchOf(e).signal
                     \/ LatchOf(e).ready /\ pc[e] # "reset"
    BY <1>1 DEF ReadinessSomewhere, LatchOf, InBatch
  <2>1. CASE edge[e]
    <3>1. <<Token(index[e[1]]), e[2]>> \in batch'[p] BY <1>3, <1>5, <2>1
    <3>q. QED BY <3>1, <1>1 DEF InBatch
  <2>2. CASE ~edge[e]
    <3>1. InBatch(index[e[1]], e[2]) => InBatch(index[e[1]], e[2])'
      BY <1>1, <1>5 DEF InBatch
    <3>q. QED BY <3>1, <1>0, <2>2 DEF NetInv, ReadinessSomewhere
  <2>q. QED BY <2>1, <2>2
<1>10. BatchesKnown'
  <2>1. \A q \in Pollers : selector' # q BY <1>1, NetIoAssumption
  <2>2. ASSUME NEW q \in Pollers, NEW w \in batch'[q]
        PROVE \E s \in Slots : w[1] = Token(s) /\ s.block < next_block
    <3>1. CASE q = p
      <4>1. PICK e \in ready : w = <<Token(index[e[1]]), e[2]>> BY <3>1, <1>5
      <4>q. QED BY <4>1, <1>2
    <3>2. CASE q # p BY <3>2, <1>0, <1>5 DEF NetInv, BatchesKnown
    <3>q. QED BY <3>1, <3>2
  <2>q. QED BY <2>1, <2>2, <1>1 DEF BatchesKnown
<1>11. FreshReported'
  <2> SUFFICES ASSUME NEW s \in fresh, NEW k \in Kinds,
                 \/ latch[s][k].signal \/ latch[s][k].ready
                 \/ \E q \in Pollers : <<Token(s), k>> \in batch'[q]
               PROVE \/ \E e \in reported' : index[e[1]] = s /\ e[2] = k
                     \/ \E c \in Sources : index[c] = s /\ phase[c] = "dropping"
    BY <1>1 DEF FreshReported, InBatch
  <2>1. CASE <<Token(s), k>> \in B
    <3>1. PICK e \in ready : <<Token(s), k>> = <<Token(index[e[1]]), e[2]>> BY <2>1
    <3>2. s \in Slots /\ index[e[1]] \in Slots BY <1>0, <1>2 DEF TypeOK
    <3>3. index[e[1]] = s /\ e[2] = k BY <3>1, <3>2, TokenNamesSlot
    <3>4. e \in reported' BY <1>1, <3>3
    <3>q. QED BY <3>3, <3>4
  <2>2. CASE <<Token(s), k>> \notin B
    <3>1. latch[s][k].signal \/ latch[s][k].ready \/ InBatch(s, k)
      BY <1>5, <2>2 DEF InBatch
    <3>2. reported \subseteq reported' BY <1>1
    <3>q. QED BY <1>0, <3>1, <3>2 DEF NetInv, FreshReported
  <2>q. QED BY <2>1, <2>2
<1>12. WriteHalfKnown' BY <1>0, <1>1 DEF NetInv, WriteHalfKnown
<1>13. WakerOfOwner' BY <1>0, <1>1 DEF NetInv, WakerOfOwner
<1>14. SlotOwnedOnce' BY <1>0, <1>1 DEF NetInv, SlotOwnedOnce
<1>15. PendingExact' BY <1>0, <1>1 DEF NetInv, PendingExact
<1>q. QED
  BY <1>7, <1>8, <1>9, <1>10, <1>11, <1>12, <1>13, <1>14, <1>15 DEF IInv, NetInv

(* A wake moves readiness from the batch to the waker of the slot. *)
LEMMA ProcessStep ==
  ASSUME IInv, NEW p \in Pollers, Process(p)
  PROVE  IInv'
<1> USE DEF slotVars, sourceVars, streamVars, kernelVars
<1>0. TypeOK /\ NetInv BY DEF IInv
<1>1. PICK w \in batch[p] :
        batch' = [batch EXCEPT ![p] = @ \ {w}] /\ WakeSlot(Index(w[1]), {w[2]})
  BY DEF Process
<1>2. UNCHANGED <<program, next_block, available, fresh, pending, selector,
        phase, index, halves, shutdown_on_drop, shut, pendings, budgets, pc,
        call, level, edge, reported>>
  BY DEF Process
<1>3. PICK s \in Slots : w[1] = Token(s) /\ s.block < next_block
  BY <1>0 DEF NetInv, BatchesKnown
<1>4. Index(w[1]) = s BY <1>3, TokenNamesSlot
<1> DEFINE k == w[2]
<1>5. k \in Kinds /\ w = <<Token(s), k>> /\ InBatch(s, k)
  <2>1. w \in {Token(t) : t \in Slots} \X Kinds BY <1>0 DEF TypeOK
  <2>2. w[2] \in Kinds /\ w = <<w[1], w[2]>> BY <2>1
  <2>q. QED BY <1>3, <2>2 DEF InBatch
<1> HIDE DEF k
<1>6. WakeSlot(s, {k}) /\ {k} \in SUBSET Kinds BY <1>1, <1>4, <1>5 DEF k
<1>7. /\ WakerOnlyUnset' /\ Registered' /\ PlacesInPollIo'
      /\ latch' \in [Slots -> [Kinds -> Latches]]
      /\ woken' \in [Ends -> BOOLEAN]
      /\ \A j \in {k} : latch'[s][j].signal /\ latch'[s][j].task = Nobody
      /\ \A t \in Slots, j \in Kinds :
           /\ latch'[t][j].ready = latch[t][j].ready
           /\ latch[t][j].signal => latch'[t][j].signal
           /\ t # s \/ j \notin {k} => latch'[t][j] = latch[t][j]
      /\ \A f \in Ends : phase[f[1]] # "closed" =>
           /\ LatchOf(f)'.ready = LatchOf(f).ready
           /\ LatchOf(f).signal => LatchOf(f)'.signal
  BY <1>2, <1>6, WakeKeeps
<1>8. /\ batch' \in [Pollers -> SUBSET ({Token(t) : t \in Slots} \X Kinds)]
      /\ \A q \in Pollers : batch'[q] \subseteq batch[q]
      /\ \A q \in Pollers : \A v \in batch[q] : v # w => v \in batch'[q]
  <2>1. batch'[p] = batch[p] \ {w} /\ \A q \in Pollers : q # p => batch'[q] = batch[q]
    BY <1>0, <1>1 DEF TypeOK
  <2>2. batch' \in [Pollers -> SUBSET ({Token(t) : t \in Slots} \X Kinds)]
    <3>1. batch[p] \ {w} \in SUBSET ({Token(t) : t \in Slots} \X Kinds)
      BY <1>0 DEF TypeOK
    <3>q. QED BY <1>0, <1>1, <3>1 DEF TypeOK
  <2>q. QED BY <2>1, <2>2
<1>9. TypeOK' BY <1>0, <1>2, <1>7, <1>8 DEF TypeOK, Latches
<1>10. OpenHasSlot' /\ CallsAreOpen' BY <1>0, <1>2 DEF NetInv, OpenHasSlot, CallsAreOpen
<1>11. ReadinessSomewhere'
  <2> SUFFICES ASSUME NEW e \in Ends, level[e]
               PROVE \/ edge[e] \/ InBatch(index[e[1]], e[2])' \/ LatchOf(e)'.signal
                     \/ LatchOf(e)'.ready /\ pc[e] # "reset"
    BY <1>2 DEF ReadinessSomewhere, InBatch
  <2>1. phase[e[1]] # "closed" /\ index[e[1]] \in Slots /\ e[2] \in Kinds
    BY <1>0, EndFacts DEF NetInv, OpenHasSlot, TypeOK
  <2>2. CASE <<Token(index[e[1]]), e[2]>> = w
    <3>1. Token(index[e[1]]) = Token(s) /\ e[2] = k BY <1>5, <2>2
    <3>2. index[e[1]] = s BY <2>1, <3>1, TokenNamesSlot
    <3>q. QED BY <3>1, <3>2, <1>2, <1>7 DEF LatchOf
  <2>3. CASE <<Token(index[e[1]]), e[2]>> # w
    <3>1. InBatch(index[e[1]], e[2]) => InBatch(index[e[1]], e[2])'
      BY <1>2, <1>8, <2>3 DEF InBatch
    <3>q. QED BY <1>0, <1>7, <2>1, <3>1 DEF NetInv, ReadinessSomewhere
  <2>q. QED BY <2>2, <2>3
<1>12. BatchesKnown'
  BY <1>0, <1>2, <1>8 DEF NetInv, BatchesKnown
<1>13. FreshReported'
  <2> SUFFICES ASSUME NEW t \in fresh, NEW j \in Kinds,
                 \/ latch'[t][j].signal \/ latch'[t][j].ready
                 \/ \E q \in Pollers : <<Token(t), j>> \in batch'[q]
               PROVE \/ \E e \in reported : index[e[1]] = t /\ e[2] = j
                     \/ \E c \in Sources : index[c] = t /\ phase[c] = "dropping"
    BY <1>2 DEF FreshReported, InBatch
  <2>1. t \in Slots BY <1>0 DEF TypeOK
  <2>2. CASE t = s /\ j = k
    BY <1>0, <1>5, <2>2 DEF NetInv, FreshReported
  <2>3. CASE t # s \/ j # k
    <3>1. latch'[t][j] = latch[t][j] BY <1>7, <2>1, <2>3
    <3>2. (\E q \in Pollers : <<Token(t), j>> \in batch'[q]) => InBatch(t, j)
      BY <1>8 DEF InBatch
    <3>q. QED BY <1>0, <3>1, <3>2 DEF NetInv, FreshReported
  <2>q. QED BY <2>2, <2>3
<1>14. WriteHalfKnown' BY <1>0, <1>2 DEF NetInv, WriteHalfKnown
<1>15. WakerOfOwner'
  <2> SUFFICES ASSUME NEW t \in Slots, NEW j \in Kinds, latch'[t][j].task # Nobody
               PROVE LET f == latch'[t][j].task IN
                     f[2] = j /\ index[f[1]] = t /\ phase[f[1]] = "open"
    BY <1>2 DEF WakerOfOwner
  <2>1. latch'[t][j] = latch[t][j] BY <1>7
  <2>q. QED BY <2>1, <1>0 DEF NetInv, WakerOfOwner
<1>16. SlotOwnedOnce' BY <1>0, <1>2 DEF NetInv, SlotOwnedOnce
<1>17. PendingExact' BY <1>0, <1>2 DEF NetInv, PendingExact
<1>q. QED
  BY <1>7, <1>9, <1>10, <1>11, <1>12, <1>13, <1>14, <1>15, <1>16, <1>17
     DEF IInv, NetInv
-----------------------------------------------------------------------------
(* A step of poll_io, do_io included *)
LEMMA CallsStep ==
  ASSUME IInv, NEW e \in Ends,
         \/ \E how \in CallsOf(e) : Call(e, how)
         \/ Repoll(e) \/ PendingBegin(e) \/ DoIo(e) \/ Reset(e)
         \/ Cancel(e) \/ Arrive(e)
  PROVE  IInv'
<1>0. TypeOK /\ NetInv BY DEF IInv
<1>1. /\ call[e] \in {"none", "io", "ready", "try"} /\ woken[e] \in BOOLEAN
      /\ phase[e[1]] = "open" => LatchOf(e) \in Latches
  BY <1>0, EndFacts DEF TypeOK, LatchOf, Latches, NetInv, OpenHasSlot
<1>2. pc[e] # "idle" => phase[e[1]] = "open" /\ (BorrowedHalf(e) \/ OwnedHalf(e))
  BY <1>0 DEF NetInv, CallsAreOpen, BorrowedHalf, OwnedHalf
<1>3. ASSUME NEW how \in CallsOf(e), Call(e, how) PROVE IInv'
  <2>1. /\ phase[e[1]] = "open" /\ (BorrowedHalf(e) \/ OwnedHalf(e))
        /\ pc[e] = "idle" /\ Round(e, how, LatchOf(e), FALSE)
    BY <1>3 DEF Call
  <2>2. how \in {"none", "io", "ready", "try"} BY DEF CallsOf
  <2>q. QED BY <1>1, <2>1, <2>2, RoundStep
<1>4. CASE Repoll(e)
  BY <1>1, <1>2, <1>4, RoundStep DEF Repoll
<1>5. CASE PendingBegin(e) BY <1>5, BeginStep
<1>6. CASE DoIo(e)
  <2>1. CASE IoReady(e) BY <2>1, IoReadyStep
  <2>2. CASE IoNothing(e)
    <3>1. /\ Goto(e, call[e], "idle", FALSE) /\ pc[e] # "idle"
          /\ UNCHANGED <<program, slotVars, latch, pending, eventVars,
                         sourceVars, pendings, budgets, kernelVars>>
      BY <2>2 DEF IoNothing
    <3>q. QED BY <3>1, MoveStep
  <2>3. CASE IoWouldBlock(e)
    <3>1. /\ Goto(e, call[e], "reset", woken[e]) /\ pc[e] = "io" /\ ~level[e]
          /\ UNCHANGED <<program, slotVars, latch, pending, eventVars,
                         sourceVars, pendings, budgets, kernelVars>>
      BY <2>3 DEF IoWouldBlock
    <3>q. QED BY <1>1, <3>1, MoveStep
  <2>4. CASE \E c \in Streams : IoAccept(e, c) BY <2>4, IoAcceptStep
  <2>q. QED BY <1>6, <2>1, <2>2, <2>3, <2>4 DEF DoIo
<1>7. CASE Reset(e)
  <2> DEFINE l == [LatchOf(e) EXCEPT !.ready = FALSE]
  <2>1. pc[e] = "reset" /\ Round(e, call[e], l, woken[e]) BY <1>7 DEF Reset
  <2>2. /\ l \in Latches /\ l.task = LatchOf(e).task
        /\ l.signal = LatchOf(e).signal /\ ~l.ready
    BY <1>1, <1>2, <2>1 DEF Latches
  <2> HIDE DEF l
  <2>q. QED BY <1>1, <1>2, <2>1, <2>2, RoundStep
<1>8. CASE Cancel(e)
  <2>1. /\ Goto(e, call[e], "idle", FALSE) /\ pc[e] # "idle"
        /\ UNCHANGED <<program, slotVars, latch, pending, eventVars,
                       sourceVars, pendings, budgets, kernelVars>>
    BY <1>8 DEF Cancel
  <2>q. QED BY <2>1, MoveStep
<1>9. CASE Arrive(e) BY <1>9, ArriveStep
<1>q. QED BY <1>3, <1>4, <1>5, <1>6, <1>7, <1>8, <1>9

(* A step that changes nothing. *)
LEMMA UnchangedStep == ASSUME IInv, UNCHANGED vars PROVE IInv'
<1> USE DEF vars, slotVars, eventVars, sourceVars, streamVars, callVars, kernelVars
<1>0. TypeOK /\ NetInv BY DEF IInv
<1>1. Registration /\ LevelStep /\ CallStep /\ HalvesStep
  <2>1. Registration BY DEF Registration
  <2>2. LevelStep BY <1>0 DEF LevelStep, TypeOK
  <2>3. CallStep BY <1>0 DEF CallStep, TypeOK
  <2>4. HalvesStep BY SameHalves
  <2>q. QED BY <2>1, <2>2, <2>3, <2>4
<1>q. QED BY <1>1, KernelStep

(* The inductive invariant from which the theorems below follow. *)
LEMMA NetInvariant == Spec => []IInv
<1>1. Init => IInv
  <2> SUFFICES ASSUME Init PROVE IInv
    OBVIOUS
  <2> USE DEF Init
  <2>1. TypeOK
    <3>1. latch \in [Slots -> [Kinds -> Latches]] BY DEF Latches
    <3>2. NoSlot \in Slots \cup {NoSlot} OBVIOUS
    <3>q. QED BY <3>1, <3>2, NetIoAssumption DEF TypeOK, Latches
  <2>2. OpenHasSlot /\ CallsAreOpen BY EndFacts DEF OpenHasSlot, CallsAreOpen
  <2>3. PlacesInPollIo /\ WakerOnlyUnset /\ Registered
    BY DEF PlacesInPollIo, WakerOnlyUnset, Registered
  <2>4. ReadinessSomewhere /\ BatchesKnown BY DEF ReadinessSomewhere, BatchesKnown
  <2>5. FreshReported BY DEF FreshReported, InBatch
  <2>6. WriteHalfKnown /\ WakerOfOwner BY DEF WriteHalfKnown, WakerOfOwner
  <2>7. SlotOwnedOnce
    <3>1. \A s \in Slots : ~(s.block < 0) BY NetIoAssumption DEF Slots
    <3>q. QED BY <3>1, NoSlotIsNoSlot DEF SlotOwnedOnce
  <2>8. PendingExact
    <3>1. {e \in Ends : pendings[e]} = {} OBVIOUS
    <3>q. QED BY <3>1, FS_EmptySet DEF PendingExact
  <2>q. QED BY <2>1, <2>2, <2>3, <2>4, <2>5, <2>6, <2>7, <2>8 DEF IInv, NetInv
<1>2. IInv /\ [Next]_vars => IInv'
  <2> SUFFICES ASSUME IInv, [Next]_vars PROVE IInv'
    OBVIOUS
  <2>1. ASSUME NEW c \in Sources, Lifecycle(c) PROVE IInv'
    BY <2>1, OpenStep, DropSourceStep, DeregisterStep DEF Lifecycle
  <2>2. ASSUME NEW c \in Streams, Halves(c) PROVE IInv'
    BY <2>2, SplitStep, PollShutdownStep, DropHalvesStep DEF Halves
  <2>3. ASSUME NEW p \in Pollers, TryPoll(p) \/ Network(p) PROVE IInv'
    BY <2>3, TryPollStep, SelectStep, ProcessStep DEF Network
  <2>4. CASE UNCHANGED vars BY <2>4, UnchangedStep
  <2>q. QED BY <2>1, <2>2, <2>3, <2>4, CallsStep DEF Next
<1>q. QED BY <1>1, <1>2, PTL DEF Spec

(* Types: registration, poll_io, the selects and the drops leave every     *)
(* field in its domain; Poller.pending never goes below zero.              *)
THEOREM NetTypes == Spec => []TypeOK
<1>1. IInv => TypeOK BY DEF IInv
<1>q. QED BY <1>1, NetInvariant, PTL

(* io_pending_begin and io_pending_complete balance: Poller.pending is the *)
(* number of ends that are pending, whatever is polled, dropped or yields. *)
THEOREM PendingIsExact == Spec => []PendingExact
<1>1. IInv => PendingExact BY DEF IInv, NetInv
<1>q. QED BY <1>1, NetInvariant, PTL

(* WakerStorage: no slot is given to two sources, lost or available twice, *)
(* for any number of blocks and entries that fit a token.                  *)
THEOREM SlotsAreOwnedOnce == Spec => []SlotOwnedOnce
<1>1. IInv => SlotOwnedOnce BY DEF IInv, NetInv
<1>q. QED BY <1>1, NetInvariant, PTL

(* A waker that a slot holds belongs to the source that has the slot.      *)
THEOREM WakersAreOfOwners == Spec => []WakerOfOwner
<1>1. IInv => WakerOfOwner BY DEF IInv, NetInv
<1>q. QED BY <1>1, NetInvariant, PTL

(* The assertion of reset holds, and process finds the block of each slot  *)
(* that a batch names, through the packing of the slot into a token.       *)
THEOREM NetIsPanicFree == Spec => []NetNeverPanics
<1>1. IInv => NetNeverPanics
  <2> SUFFICES ASSUME IInv PROVE NetNeverPanics
    OBVIOUS
  <2>1. \A e \in Ends : pc[e] = "reset" => LatchOf(e).ready
    BY DEF IInv, NetInv, PlacesInPollIo
  <2>2. \A p \in Pollers : \A w \in batch[p] : Index(w[1]).block < next_block
    BY TokenNamesSlot DEF IInv, NetInv, BatchesKnown
  <2>q. QED BY <2>1, <2>2 DEF NetNeverPanics
<1>q. QED BY <1>1, NetInvariant, PTL

(* A task that waits for a source that is ready is registered, counted,    *)
(* and the event is with the kernel or in a batch, or it has been woken:   *)
(* no order of arrivals, selects, wakes, resets and rounds loses it.       *)
THEOREM ReadinessIsNeverLost == Spec => []NoLostReadiness
<1>1. IInv => NoLostReadiness
  <2> SUFFICES ASSUME IInv, NEW e \in Ends, pc[e] = "waiting", ~woken[e]
               PROVE /\ LatchOf(e).task = e /\ pendings[e]
                     /\ level[e] => edge[e] \/ InBatch(index[e[1]], e[2])
    BY DEF NoLostReadiness, InBatch
  <2>1. LatchOf(e).task = e /\ pendings[e] BY DEF IInv, NetInv, Registered
  <2>2. index[e[1]] \in Slots /\ e[2] \in Kinds /\ e # Nobody
    <3>1. phase[e[1]] = "open" BY DEF IInv, NetInv, CallsAreOpen
    <3>2. e[1] \in Sources /\ e[2] \in Kinds /\ e # Nobody BY EndFacts
    <3>3. index[e[1]] # NoSlot BY <3>1, <3>2 DEF IInv, NetInv, OpenHasSlot
    <3>q. QED BY <3>2, <3>3 DEF IInv, TypeOK
  <2>3. ~LatchOf(e).signal /\ ~LatchOf(e).ready
    BY <2>1, <2>2 DEF IInv, NetInv, WakerOnlyUnset, LatchOf
  <2>q. QED BY <2>1, <2>3 DEF IInv, NetInv, ReadinessSomewhere
<1>q. QED BY <1>1, NetInvariant, PTL

(* A source in a slot that nobody had before is taken to be ready only     *)
(* after a select has reported it.                                         *)
THEOREM FreshSlotsAreNeverEarly == Spec => []FreshSlotNeverEarly
<1>1. IInv => FreshSlotNeverEarly
  <2> SUFFICES ASSUME IInv, NEW e \in Ends, phase[e[1]] = "open",
                      index[e[1]] \in fresh, LatchOf(e).ready \/ LatchOf(e).signal
               PROVE e \in reported
    BY DEF FreshSlotNeverEarly
  <2>0. TypeOK /\ NetInv /\ SlotOwnedOnce BY DEF IInv, NetInv
  <2>1. e[1] \in Sources /\ e[2] \in Kinds /\ index[e[1]] \in Slots
    BY <2>0, EndFacts DEF TypeOK
  <2>2. \/ \E f \in reported : index[f[1]] = index[e[1]] /\ f[2] = e[2]
        \/ \E c \in Sources : index[c] = index[e[1]] /\ phase[c] = "dropping"
    BY <2>0, <2>1 DEF NetInv, FreshReported, LatchOf
  <2>3. CASE \E f \in reported : index[f[1]] = index[e[1]] /\ f[2] = e[2]
    <3>1. PICK f \in reported : index[f[1]] = index[e[1]] /\ f[2] = e[2] BY <2>3
    <3>2. f \in Ends BY <2>0 DEF TypeOK
    <3>q. QED BY <2>0, <2>1, <3>1, <3>2, SameEnd
  <2>4. CASE \E c \in Sources : index[c] = index[e[1]] /\ phase[c] = "dropping"
    BY <2>0, <2>1, <2>4, NoSlotIsNoSlot DEF SlotOwnedOnce
  <2>q. QED BY <2>2, <2>3, <2>4
<1>q. QED BY <1>1, NetInvariant, PTL

(* The owned write half is never let go without shutdown(Write), unless it *)
(* was forgotten or reunited.                                              *)
THEOREM WriteHalvesShutDown == Spec => WriteHalfShutsDown
<1> DEFINE A(c) == "Write" \in halves[c] /\ "Write" \notin halves'[c]
                     => shut'[c] \/ Forget(c) \/ Reunite(c)
<1>1. IInv /\ [Next]_vars => [\A c \in Streams : A(c)]_vars
  <2> SUFFICES ASSUME IInv, Next, NEW c \in Streams,
                      "Write" \in halves[c], "Write" \notin halves'[c]
               PROVE shut'[c] \/ Forget(c) \/ Reunite(c)
    OBVIOUS
  <2>0. TypeOK /\ NetInv /\ c \in Sources /\ halves'[c] # halves[c]
    BY EndFacts DEF IInv
  <2>1. ASSUME NEW d \in Sources, Lifecycle(d) PROVE FALSE
    BY <2>0, <2>1 DEF Lifecycle, Open, DropSource, Deregister, streamVars
  <2>2. ASSUME NEW e \in Ends,
               \/ \E how \in CallsOf(e) : Call(e, how)
               \/ Repoll(e) \/ PendingBegin(e) \/ DoIo(e) \/ Reset(e)
               \/ Cancel(e) \/ Arrive(e)
        PROVE FALSE
    <3>1. UNCHANGED halves
      BY <2>2 DEF Call, Repoll, PendingBegin, DoIo, Reset, Cancel, Arrive, Round,
                  IoReady, IoNothing, IoWouldBlock, IoAccept, sourceVars, streamVars
    <3>q. QED BY <2>0, <3>1
  <2>3. ASSUME NEW p \in Pollers, TryPoll(p) \/ Network(p) PROVE FALSE
    BY <2>0, <2>3 DEF TryPoll, Network, Select, Process, sourceVars, streamVars
  <2>4. ASSUME NEW d \in Streams, Halves(d)
        PROVE shut'[c] \/ Forget(c) \/ Reunite(c)
    <3>0. d \in Sources BY EndFacts
    <3>1. CASE IntoSplit(d)
      BY <2>0, <3>0, <3>1 DEF IntoSplit, TypeOK, Kinds
    <3>2. CASE Reunite(d)
      BY <2>0, <3>0, <3>2 DEF Reunite, TypeOK
    <3>3. CASE PollShutdown(d)
      BY <2>0, <3>3 DEF PollShutdown
    <3>4. CASE DropReadHalf(d)
      <4>1. halves' = [halves EXCEPT ![d] = @ \ {"Read"}]
        BY <3>4 DEF DropReadHalf, ReleaseHalf
      <4>q. QED BY <2>0, <3>0, <4>1 DEF TypeOK
    <3>5. CASE DropWriteHalf(d)
      <4>1. halves' = [halves EXCEPT ![d] = @ \ {"Write"}]
        BY <3>5 DEF DropWriteHalf, ReleaseHalf
      <4>2. c = d BY <2>0, <3>0, <4>1 DEF TypeOK
      <4>3. shutdown_on_drop[c] \/ shut[c] BY <2>0 DEF NetInv, WriteHalfKnown
      <4>4. CASE shutdown_on_drop[c]
        <5>1. shut' = [shut EXCEPT ![c] = TRUE]
          BY <3>5, <4>2, <4>4 DEF DropWriteHalf, ShutdownWrite
        <5>q. QED BY <2>0, <5>1 DEF TypeOK
      <4>5. CASE ~shutdown_on_drop[c]
        BY <3>5, <4>2, <4>3, <4>5 DEF DropWriteHalf
      <4>q. QED BY <4>4, <4>5
    <3>6. CASE Forget(d)
      <4>1. halves' = [halves EXCEPT ![d] = @ \ {"Write"}]
        BY <3>6 DEF Forget, ReleaseHalf
      <4>2. c = d BY <2>0, <3>0, <4>1 DEF TypeOK
      <4>q. QED BY <3>6, <4>2
    <3>q. QED BY <2>4, <3>1, <3>2, <3>3, <3>4, <3>5, <3>6 DEF Halves
  <2>q. QED BY <2>1, <2>2, <2>3, <2>4 DEF Next
<1>q. QED BY <1>1, NetInvariant, PTL DEF Spec, WriteHalfShutsDown
=============================================================================
