-------------------------- MODULE TimerQueueProofs --------------------------
(***************************************************************************)
(* Proofs about module TimerQueue, for any number of sleeps, threads and   *)
(* entries, any durations and instants, and any bounds of the clock and of *)
(* deadlines.                                                              *)
(***************************************************************************)
EXTENDS TimerQueue, WellFoundedInduction, TLAPS

(* Any set of naturals that is not empty has a least element, which is     *)
(* what Min gives.                                                         *)
LEMMA MinIsLeast ==
  ASSUME NEW S \in SUBSET Nat, S # {}
  PROVE  Min(S) \in S /\ \A y \in S : Min(S) <= y
<1> DEFINE R == OpToRel(<, Nat)
<1>1. IsWellFoundedOn(R, Nat) BY NatLessThanWellFounded
<1>2. \A x, y \in Nat : <<y, x>> \in R <=> y < x BY DEF OpToRel
<1> HIDE DEF R
<1>3. PICK x \in S : \A y \in S : ~(<<y, x>> \in R) BY <1>1, WFMin
<1>4. ASSUME NEW y \in S PROVE x <= y
  <2>1. x \in Nat /\ y \in Nat OBVIOUS
  <2>2. ~(y < x) BY <2>1, <1>2, <1>3, Zenon
  <2>q. QED BY <2>1, <2>2
<1>q. QED BY <1>3, <1>4 DEF Min

(* The larger of two naturals *)
LEMMA MaxOfTwo ==
  ASSUME NEW a \in Int, NEW b \in Int
  PROVE  Max({a, b}) = IF a >= b THEN a ELSE b
<1> DEFINE m == IF a >= b THEN a ELSE b
<1>1. m \in {a, b} /\ \A y \in {a, b} : m >= y OBVIOUS
<1>2. \A x \in {a, b} : (\A y \in {a, b} : x >= y) => x = m OBVIOUS
<1>q. QED BY <1>1, <1>2 DEF Max

(* and the smaller. *)
LEMMA MinOfTwo ==
  ASSUME NEW a \in Int, NEW b \in Int
  PROVE  Min({a, b}) = IF a <= b THEN a ELSE b
<1> DEFINE m == IF a <= b THEN a ELSE b
<1>1. m \in {a, b} /\ \A y \in {a, b} : m <= y OBVIOUS
<1>2. \A x \in {a, b} : (\A y \in {a, b} : x <= y) => x = m OBVIOUS
<1>q. QED BY <1>1, <1>2 DEF Min
-----------------------------------------------------------------------------
(* A Sleep has a Delay from schedule to complete. *)
DelaysHeld ==
  \A s \in Sleeps :
    IF sleep[s] \in {"poll", "Polling", "complete"}
    THEN delay[s].entry \in Entries
    ELSE delay[s] = NoDelay

(* An entry that is marked as queued is in the tree. *)
QueuedInTree == \A e \in Entries : queued[e] => \E q \in tree : q[2] = e

(* No reading of the clock is ahead of it. *)
ClocksBehind ==
  /\ current <= now
  /\ \A p \in Pollers : pc[p] = "poll" => seen[p] <= now

(* What a new entry shows or is about to show is due. *)
NewEntryDue ==
  \A s \in Sleeps :
    LET e == delay[s].entry IN
    /\ e \in Entries /\ ~reused[s]
    /\ signal[e] \/ ready[e] \/ \E p \in Pollers : e \in expired[p]
    => delay[s].deadline <= now

QueueInv ==
  /\ ExpiresIsMin /\ EntryOwnedOnce /\ QueueNeverPanics /\ FirstUseNeverEarly
  /\ DelaysHeld /\ QueuedInTree /\ ClocksBehind /\ NewEntryDue

IInv == TypeOK /\ QueueInv
-----------------------------------------------------------------------------
(* EarliestOf gives the least deadline of a tree ... *)
LEMMA EarliestFacts ==
  ASSUME NEW t \in SUBSET ((1 .. MaxDeadline) \X Entries)
  PROVE  /\ EarliestOf(t) \in 0 .. MaxDeadline
         /\ EarliestOf(t) = 0 <=> t = {}
         /\ t # {} => EarliestOf(t) \in Deadlines(t)
         /\ \A q \in t : EarliestOf(t) <= q[1]
<1>0. MaxDeadline \in Nat BY TimerQueueAssumption
<1>1. \A q \in t : q[1] \in 1 .. MaxDeadline OBVIOUS
<1>2. Deadlines(t) \in SUBSET Nat /\ \A d \in Deadlines(t) : d \in 1 .. MaxDeadline
  BY <1>0, <1>1 DEF Deadlines
<1>3. CASE t = {} BY <1>0, <1>3 DEF EarliestOf, Deadlines
<1>4. CASE t # {}
  <2>1. Deadlines(t) # {} BY <1>4 DEF Deadlines
  <2>2. EarliestOf(t) = Min(Deadlines(t)) BY <1>4 DEF EarliestOf
  <2>3. EarliestOf(t) \in Deadlines(t) /\ \A y \in Deadlines(t) : EarliestOf(t) <= y
    BY <1>2, <2>1, <2>2, MinIsLeast
  <2>4. EarliestOf(t) \in 1 .. MaxDeadline BY <1>2, <2>3
  <2>5. \A q \in t : q[1] \in Deadlines(t) BY DEF Deadlines
  <2>q. QED BY <1>0, <1>4, <2>3, <2>4, <2>5
<1>q. QED BY <1>3, <1>4

(* ... and is the only one that is least. *)
LEMMA EarliestIs ==
  ASSUME NEW t \in SUBSET ((1 .. MaxDeadline) \X Entries), t # {},
         NEW x \in Deadlines(t), \A q \in t : x <= q[1]
  PROVE  EarliestOf(t) = x
<1>0. MaxDeadline \in Nat BY TimerQueueAssumption
<1>1. EarliestOf(t) \in Deadlines(t) /\ \A q \in t : EarliestOf(t) <= q[1]
  BY EarliestFacts
<1>2. PICK q \in t : q[1] = x BY DEF Deadlines
<1>3. PICK r \in t : r[1] = EarliestOf(t) BY <1>1 DEF Deadlines
<1>4. EarliestOf(t) <= x /\ x <= EarliestOf(t) BY <1>1, <1>2, <1>3
<1>5. x \in Int /\ EarliestOf(t) \in Int BY <1>0, <1>2, <1>3
<1>q. QED BY <1>4, <1>5

(* The cache as a list: pop takes the last entry, push adds one. *)
LEMMA CachePop ==
  ASSUME NEW c \in Seq(Entries), c # <<>>,
         \A i, j \in 1 .. Len(c) : c[i] = c[j] => i = j
  PROVE  /\ Front(c) \in Seq(Entries) /\ Last(c) \in Range(c) /\ Last(c) \in Entries
         /\ Range(Front(c)) \subseteq Range(c) /\ Last(c) \notin Range(Front(c))
         /\ \A i, j \in 1 .. Len(Front(c)) : Front(c)[i] = Front(c)[j] => i = j
<1> DEFINE n == Len(c)
           f == Front(c)
<1>1. n \in Nat /\ n # 0 /\ DOMAIN c = 1 .. n OBVIOUS
<1>2. /\ f \in Seq(Entries) /\ Len(f) = n - 1 /\ DOMAIN f = 1 .. n - 1
      /\ \A i \in 1 .. n - 1 : f[i] = c[i]
  BY <1>1 DEF Front
<1>3. Last(c) = c[n] /\ n \in DOMAIN c /\ c[n] \in Entries BY <1>1 DEF Last
<1> HIDE DEF f, n
<1>4. Range(f) \subseteq Range(c) BY <1>1, <1>2 DEF Range
<1>5. c[n] \notin Range(f)
  <2> SUFFICES ASSUME NEW i \in 1 .. n - 1, f[i] = c[n] PROVE FALSE
    BY <1>2 DEF Range
  <2>1. c[i] = c[n] /\ i \in 1 .. n /\ n \in 1 .. n /\ i # n BY <1>1, <1>2
  <2>q. QED BY <2>1 DEF n
<1>6. \A i, j \in 1 .. Len(f) : f[i] = f[j] => i = j
  <2> SUFFICES ASSUME NEW i \in 1 .. n - 1, NEW j \in 1 .. n - 1, f[i] = f[j]
               PROVE i = j
    BY <1>2
  <2>1. c[i] = c[j] /\ i \in 1 .. n /\ j \in 1 .. n BY <1>1, <1>2
  <2>q. QED BY <2>1 DEF n
<1>q. QED BY <1>2, <1>3, <1>4, <1>5, <1>6 DEF f, Range

(* An entry that is pushed to the cache and was not in it is there once. *)
LEMMA CachePush ==
  ASSUME NEW c \in Seq(Entries), NEW e \in Entries, e \notin Range(c),
         \A i, j \in 1 .. Len(c) : c[i] = c[j] => i = j
  PROVE  LET a == Append(c, e) IN
         /\ a \in Seq(Entries) /\ Range(a) = Range(c) \cup {e}
         /\ \A i, j \in 1 .. Len(a) : a[i] = a[j] => i = j
<1> DEFINE n == Len(c)
           a == Append(c, e)
<1>1. n \in Nat /\ DOMAIN c = 1 .. n OBVIOUS
<1>2. /\ a \in Seq(Entries) /\ Len(a) = n + 1 /\ DOMAIN a = 1 .. n + 1
      /\ a[n + 1] = e /\ \A i \in 1 .. n : a[i] = c[i]
  OBVIOUS
<1>3. \A i \in 1 .. n : c[i] \in Range(c) BY <1>1 DEF Range
<1> HIDE DEF a, n
<1>4. Range(a) = Range(c) \cup {e}
  <2>1. Range(a) \subseteq Range(c) \cup {e}
    <3> SUFFICES ASSUME NEW i \in 1 .. n + 1 PROVE a[i] \in Range(c) \cup {e}
      BY <1>2 DEF Range
    <3>1. i = n + 1 \/ i \in 1 .. n BY <1>1
    <3>q. QED BY <3>1, <1>2, <1>3
  <2>2. Range(c) \subseteq Range(a)
    <3> SUFFICES ASSUME NEW i \in 1 .. n PROVE c[i] \in Range(a)
      BY <1>1 DEF Range
    <3>1. i \in 1 .. n + 1 /\ a[i] = c[i] BY <1>1, <1>2
    <3>q. QED BY <3>1, <1>2 DEF Range
  <2>3. e \in Range(a)
    <3>1. n + 1 \in 1 .. n + 1 BY <1>1
    <3>q. QED BY <3>1, <1>2 DEF Range
  <2>q. QED BY <2>1, <2>2, <2>3
<1>5. ASSUME NEW i \in 1 .. n + 1, NEW j \in 1 .. n + 1, a[i] = a[j] PROVE i = j
  <2>1. (i = n + 1 \/ i \in 1 .. n) /\ (j = n + 1 \/ j \in 1 .. n) BY <1>1
  <2>2. CASE i \in 1 .. n /\ j \in 1 .. n
    <3>1. c[i] = c[j] BY <1>2, <1>5, <2>2
    <3>q. QED BY <2>2, <3>1 DEF n
  <2>3. CASE i = n + 1 /\ j \in 1 .. n BY <1>2, <1>3, <1>5, <2>3
  <2>4. CASE i \in 1 .. n /\ j = n + 1 BY <1>2, <1>3, <1>5, <2>4
  <2>5. CASE i = n + 1 /\ j = n + 1 BY <2>5
  <2>q. QED BY <2>1, <2>2, <2>3, <2>4, <2>5
<1>q. QED BY <1>2, <1>4, <1>5 DEF a
-----------------------------------------------------------------------------
(* Steps that leave the queue and the Delays alone keep what relates them. *)
LEMMA SameQueue ==
  ASSUME QueueInv, UNCHANGED <<expires, tree, cache, queued, delay>>
  PROVE  ExpiresIsMin' /\ EntryOwnedOnce' /\ QueuedInTree'
<1>1. ExpiresIsMin' BY DEF QueueInv, ExpiresIsMin
<1>2. EntryOwnedOnce' BY DEF QueueInv, EntryOwnedOnce
<1>3. QueuedInTree' BY DEF QueueInv, QueuedInTree
<1>q. QED BY <1>1, <1>2, <1>3

(* The clock, and the steps that only move one Sleep. *)
LEMMA TickStep == ASSUME IInv, Tick PROVE IInv'
<1> USE DEF Tick, queueVars, wakerVars, sleepVars, pollerVars
<1>0. TypeOK /\ QueueInv BY DEF IInv
<1>1. /\ now \in Nat /\ now' \in Nat /\ now' = now + 1 /\ now' \in 0 .. MaxNow
      /\ current \in Nat
      /\ \A p \in Pollers : seen[p] \in Nat
      /\ \A s \in Sleeps : delay[s].deadline \in Nat
  BY <1>0, TimerQueueAssumption DEF TypeOK
<1>2. TypeOK' BY <1>0, <1>1 DEF TypeOK
<1>3. ExpiresIsMin' /\ EntryOwnedOnce' /\ QueuedInTree' BY <1>0, SameQueue
<1>4. QueueNeverPanics' /\ DelaysHeld'
  BY <1>0 DEF QueueInv, QueueNeverPanics, DelaysHeld
<1>5. ClocksBehind' BY <1>0, <1>1 DEF QueueInv, ClocksBehind
<1>6. FirstUseNeverEarly' BY <1>0, <1>1 DEF QueueInv, FirstUseNeverEarly
<1>7. NewEntryDue' BY <1>0, <1>1 DEF QueueInv, NewEntryDue
<1>q. QED BY <1>2, <1>3, <1>4, <1>5, <1>6, <1>7 DEF IInv, QueueInv

(* Sleep::poll of a delay that has passed, and the poll after its yield:   *)
(* no entry, no key and no waker changes.                                  *)
LEMMA YieldStep ==
  ASSUME IInv, NEW s \in Sleeps,
         \/ sleep[s] = "Start" /\ Yield(s) /\ current' \in {current, now}
         \/ SleepPolled(s) /\ UNCHANGED current,
         UNCHANGED <<now, expires, tree, cache, queued, wakerVars, delay,
                     reused, pollerVars>>
  PROVE  IInv'
<1> USE DEF Yield, SleepPolled, wakerVars, pollerVars
<1>0. TypeOK /\ QueueInv BY DEF IInv
<1>1. /\ sleep' \in [Sleeps -> {"Start", "poll", "Polling", "complete", "Polled", "panic"}]
      /\ woken' \in [Sleeps -> BOOLEAN]
      /\ sleep[s] \in {"Start", "Polled"} /\ sleep'[s] \in {"Start", "Polled"}
      /\ \A r \in Sleeps : r # s => sleep'[r] = sleep[r]
      /\ current' \in {current, now}
  BY <1>0 DEF TypeOK
<1>2. TypeOK' BY <1>0, <1>1 DEF TypeOK
<1>3. ExpiresIsMin' /\ EntryOwnedOnce' /\ QueuedInTree' BY <1>0, SameQueue
<1>4. QueueNeverPanics' BY <1>0, <1>1 DEF QueueInv, QueueNeverPanics
<1>5. DelaysHeld'
  BY <1>0, <1>1 DEF QueueInv, DelaysHeld, NoDelay
<1>6. ClocksBehind'
  <2>1. now \in Nat BY <1>0, TimerQueueAssumption DEF TypeOK
  <2>q. QED BY <1>0, <1>1, <2>1 DEF QueueInv, ClocksBehind
<1>7. FirstUseNeverEarly' BY <1>0, <1>1 DEF QueueInv, FirstUseNeverEarly
<1>8. NewEntryDue' BY <1>0 DEF QueueInv, NewEntryDue
<1>q. QED BY <1>2, <1>3, <1>4, <1>5, <1>6, <1>7, <1>8 DEF IInv, QueueInv

(* A poll of the AtomicWaker of an entry: Ready only if it was signalled,  *)
(* for a new entry thus only when it was due.                              *)
LEMMA WakerStep ==
  ASSUME IInv, NEW s \in Sleeps, WakerReady(s) \/ WakerPending(s)
  PROVE  IInv'
<1> USE DEF queueVars, pollerVars
<1>0. TypeOK /\ QueueInv BY DEF IInv
<1> DEFINE e == delay[s].entry
<1>1. /\ sleep[s] \in {"poll", "Polling"} /\ e \in Entries
      /\ UNCHANGED <<now, expires, current, tree, cache, queued, delay, reused,
                     pc, seen, expired>>
  BY <1>0 DEF WakerReady, WakerPending, QueueInv, DelaysHeld
<1>2. /\ sleep' \in [Sleeps -> {"Start", "poll", "Polling", "complete", "Polled", "panic"}]
      /\ woken' \in [Sleeps -> BOOLEAN]
      /\ \A r \in Sleeps : r # s => sleep'[r] = sleep[r]
      /\ signal' \in [Entries -> BOOLEAN] /\ ready' \in [Entries -> BOOLEAN]
      /\ task' \in [Entries -> Sleeps \cup {NoSleep}]
      /\ \A f \in Entries : f # e => signal'[f] = signal[f] /\ ready'[f] = ready[f]
      /\ \/ sleep'[s] = "complete" /\ (signal[e] \/ ready[e])
         \/ sleep'[s] = "Polling" /\ signal' = signal /\ ready' = ready
  <2> HIDE DEF e
  <2>1. CASE WakerReady(s)
    <3>1. /\ signal[e] \/ ready[e]
          /\ signal' = [signal EXCEPT ![e] = ready[e] /\ @]
          /\ ready' = [ready EXCEPT ![e] = TRUE]
          /\ sleep' = [sleep EXCEPT ![s] = "complete"]
          /\ woken' = [woken EXCEPT ![s] = FALSE]
          /\ UNCHANGED task
      BY <2>1 DEF WakerReady, e
    <3>q. QED BY <1>0, <1>1, <3>1 DEF TypeOK
  <2>2. CASE WakerPending(s)
    <3>1. /\ task' = [task EXCEPT ![e] = s]
          /\ sleep' = [sleep EXCEPT ![s] = "Polling"]
          /\ woken' = [woken EXCEPT ![s] = FALSE]
          /\ UNCHANGED <<signal, ready>>
      BY <2>2 DEF WakerPending, e
    <3>q. QED BY <1>0, <1>1, <3>1 DEF TypeOK
  <2>q. QED BY <2>1, <2>2
<1>3. TypeOK' BY <1>0, <1>1, <1>2 DEF TypeOK
<1>4. ExpiresIsMin' /\ EntryOwnedOnce' /\ QueuedInTree' BY <1>0, <1>1, SameQueue
<1>5. QueueNeverPanics' BY <1>0, <1>1, <1>2 DEF QueueInv, QueueNeverPanics
<1>6. DelaysHeld' BY <1>0, <1>1, <1>2 DEF QueueInv, DelaysHeld
<1>7. ClocksBehind' BY <1>0, <1>1 DEF QueueInv, ClocksBehind
<1>8. FirstUseNeverEarly'
  <2>1. sleep'[s] = "complete" /\ ~reused[s] => delay[s].deadline <= now
    BY <1>0, <1>1, <1>2 DEF QueueInv, NewEntryDue
  <2>q. QED BY <1>0, <1>1, <1>2, <2>1 DEF QueueInv, FirstUseNeverEarly
<1>9. NewEntryDue'
  <2> SUFFICES ASSUME NEW r \in Sleeps, delay[r].entry \in Entries, ~reused[r],
                      \/ signal'[delay[r].entry] \/ ready'[delay[r].entry]
                      \/ \E p \in Pollers : delay[r].entry \in expired[p]
               PROVE delay[r].deadline <= now
    BY <1>1 DEF NewEntryDue
  <2>1. \/ signal[delay[r].entry] \/ ready[delay[r].entry]
        \/ \E p \in Pollers : delay[r].entry \in expired[p]
    BY <1>2
  <2>q. QED BY <1>0, <2>1 DEF QueueInv, NewEntryDue
<1>q. QED BY <1>3, <1>4, <1>5, <1>6, <1>7, <1>8, <1>9 DEF IInv, QueueInv
-----------------------------------------------------------------------------
(* schedule: the entry e, which nobody has, goes into the tree.  It is new *)
(* and shows nothing, or the Delay is marked as reused.                    *)
LEMMA EnqueueStep ==
  ASSUME IInv, NEW s \in Sleeps, NEW deadline \in 1 .. MaxDeadline,
         sleep[s] = "Start", deadline > now,
         NEW e \in Entries, NEW b \in BOOLEAN,
         \A r \in Sleeps : delay[r].entry # e,
         Enqueue(s, deadline, e), current' = now,
         reused' = [reused EXCEPT ![s] = b],
         cache' \in Seq(Entries), Range(cache') \subseteq Range(cache) \ {e},
         \A i, j \in 1 .. Len(cache') : cache'[i] = cache'[j] => i = j,
         signal' \in [Entries -> BOOLEAN], ready' \in [Entries -> BOOLEAN],
         task' \in [Entries -> Sleeps \cup {NoSleep}],
         \A f \in Entries : f # e => signal'[f] = signal[f] /\ ready'[f] = ready[f],
         \/ b
         \/ ~signal'[e] /\ ~ready'[e] /\ \A p \in Pollers : e \notin expired[p],
         UNCHANGED <<now, woken, pollerVars>>
  PROVE  IInv'
<1> USE DEF Enqueue, pollerVars
<1>0. TypeOK /\ QueueInv BY DEF IInv
<1>1. /\ MaxDeadline \in Nat /\ MaxNow \in Nat /\ now \in Nat /\ now \in 0 .. MaxNow
      /\ expires \in Nat /\ NoEntry \notin Entries
  BY <1>0, TimerQueueAssumption DEF TypeOK
<1> DEFINE d == [deadline |-> deadline, entry |-> e]
<1>2. /\ delay' \in [Sleeps -> [deadline : 0 .. MaxDeadline, entry : Entries \cup {NoEntry}]]
      /\ delay'[s] = d /\ d.deadline = deadline /\ d.entry = e
      /\ \A r \in Sleeps : r # s => delay'[r] = delay[r]
  <2>1. d \in [deadline : 0 .. MaxDeadline, entry : Entries \cup {NoEntry}]
    BY <1>1
  <2>q. QED BY <1>0, <2>1 DEF TypeOK
<1> HIDE DEF d
<1>3. /\ sleep' \in [Sleeps -> {"Start", "poll", "Polling", "complete", "Polled", "panic"}]
      /\ sleep'[s] = "poll" /\ \A r \in Sleeps : r # s => sleep'[r] = sleep[r]
      /\ queued' \in [Entries -> BOOLEAN] /\ queued'[e]
      /\ \A f \in Entries : f # e => queued'[f] = queued[f]
      /\ reused' \in [Sleeps -> BOOLEAN] /\ reused'[s] = b
      /\ \A r \in Sleeps : r # s => reused'[r] = reused[r]
  BY <1>0 DEF TypeOK
<1>4. /\ tree' \subseteq (1 .. MaxDeadline) \X Entries
      /\ tree' = tree \cup {<<deadline, e>>}
  BY <1>0 DEF TypeOK
<1>5. delay[s] = NoDelay BY <1>0 DEF QueueInv, DelaysHeld
<1>6. TypeOK'
  <2>1. expires' \in 0 .. MaxDeadline BY <1>0, <1>1 DEF TypeOK
  <2>q. QED BY <1>0, <1>1, <1>2, <1>3, <1>4, <2>1 DEF TypeOK
<1>7. ExpiresIsMin'
  <2>1. /\ tree \in SUBSET ((1 .. MaxDeadline) \X Entries)
        /\ tree' \in SUBSET ((1 .. MaxDeadline) \X Entries) /\ tree' # {}
    BY <1>0, <1>4 DEF TypeOK
  <2>2. /\ expires = 0 <=> tree = {}
        /\ tree # {} => expires \in Deadlines(tree)
        /\ \A q \in tree : expires <= q[1]
    BY <1>0, <2>1, EarliestFacts DEF QueueInv, ExpiresIsMin
  <2>3. \A q \in tree : q[1] \in Nat BY <1>1, <2>1
  <2>4. expires' \in Deadlines(tree')
    <3>1. deadline \in Deadlines(tree')
      <4>1. <<deadline, e>> \in tree' /\ <<deadline, e>>[1] = deadline BY <1>4
      <4>q. QED BY <4>1 DEF Deadlines
    <3>2. Deadlines(tree) \subseteq Deadlines(tree') BY <1>4 DEF Deadlines
    <3>q. QED BY <2>2, <3>1, <3>2
  <2>5. \A q \in tree' : expires' <= q[1]
    <3> SUFFICES ASSUME NEW q \in tree' PROVE expires' <= q[1]
      OBVIOUS
    <3>1. CASE q = <<deadline, e>> BY <1>1, <3>1
    <3>2. CASE q \in tree
      <4>1. expires <= q[1] /\ q[1] \in Nat BY <2>2, <2>3, <3>2
      <4>2. expires # 0 BY <2>2, <3>2
      <4>q. QED BY <1>1, <4>1, <4>2
    <3>q. QED BY <1>4, <3>1, <3>2
  <2>6. EarliestOf(tree') = expires' BY <2>1, <2>4, <2>5, EarliestIs
  <2>q. QED BY <2>6 DEF ExpiresIsMin, EarliestOf, Deadlines
<1>8. EntryOwnedOnce'
  <2>1. \A r, t \in Sleeps :
          delay'[r].entry = delay'[t].entry => r = t \/ delay'[r] = NoDelay
    BY <1>0, <1>2 DEF QueueInv, EntryOwnedOnce
  <2>2. \A r \in Sleeps : delay'[r].entry \notin Range(cache')
    BY <1>0, <1>2 DEF QueueInv, EntryOwnedOnce
  <2>3. ASSUME NEW q \in tree'
        PROVE queued'[q[2]] /\ \E r \in Sleeps : <<delay'[r].deadline, delay'[r].entry>> = q
    <3>1. CASE q = <<deadline, e>> BY <1>2, <1>3, <3>1
    <3>2. CASE q \in tree
      <4>0. q[2] \in Entries BY <1>0, <3>2 DEF TypeOK
      <4>1. queued[q[2]] BY <1>0, <3>2 DEF QueueInv, EntryOwnedOnce
      <4>2. PICK r \in Sleeps : <<delay[r].deadline, delay[r].entry>> = q
        BY <1>0, <3>2 DEF QueueInv, EntryOwnedOnce
      <4>3. r # s
        BY <1>1, <1>5, <4>0, <4>2 DEF NoDelay
      <4>q. QED BY <1>2, <1>3, <4>0, <4>1, <4>2, <4>3
    <3>q. QED BY <1>4, <3>1, <3>2
  <2>q. QED BY <2>1, <2>2, <2>3 DEF EntryOwnedOnce
<1>9. QueueNeverPanics' BY <1>0, <1>3 DEF QueueInv, QueueNeverPanics
<1>10. DelaysHeld' BY <1>0, <1>2, <1>3 DEF QueueInv, DelaysHeld
<1>11. QueuedInTree'
  <2> SUFFICES ASSUME NEW f \in Entries, queued'[f] PROVE \E q \in tree' : q[2] = f
    BY DEF QueuedInTree
  <2>1. CASE f = e
    <3>1. <<deadline, e>> \in tree' /\ <<deadline, e>>[2] = e BY <1>4
    <3>q. QED BY <2>1, <3>1
  <2>2. CASE f # e BY <1>0, <1>3, <1>4, <2>2 DEF QueueInv, QueuedInTree
  <2>q. QED BY <2>1, <2>2
<1>12. ClocksBehind' BY <1>0, <1>1 DEF QueueInv, ClocksBehind
<1>13. FirstUseNeverEarly' BY <1>0, <1>2, <1>3 DEF QueueInv, FirstUseNeverEarly
<1>14. NewEntryDue'
  <2> SUFFICES ASSUME NEW r \in Sleeps, delay'[r].entry \in Entries, ~reused'[r],
                      \/ signal'[delay'[r].entry] \/ ready'[delay'[r].entry]
                      \/ \E p \in Pollers : delay'[r].entry \in expired[p]
               PROVE delay'[r].deadline <= now
    BY DEF NewEntryDue
  <2>1. r # s BY <1>2, <1>3
  <2>q. QED BY <1>0, <1>2, <1>3, <2>1 DEF QueueInv, NewEntryDue
<1>q. QED
  BY <1>6, <1>7, <1>8, <1>9, <1>10, <1>11, <1>12, <1>13, <1>14 DEF IInv, QueueInv
(* sleep and sleep_until, with a deadline that a u64 of milliseconds holds *)
LEMMA SleepUntilStep ==
  ASSUME IInv, NEW s \in Sleeps, NEW deadline \in 0 .. MaxDeadline,
         SleepUntil(s, deadline)
  PROVE  IInv'
<1>0. TypeOK /\ QueueInv BY DEF IInv
<1>1. CASE SleepPast(s, deadline)
  <2>1. /\ sleep[s] = "Start" /\ Yield(s) /\ current' \in {current, now}
        /\ UNCHANGED <<now, expires, tree, cache, queued, wakerVars, delay,
                       reused, pollerVars>>
    BY <1>1 DEF SleepPast
  <2>q. QED BY <2>1, YieldStep
<1>2. deadline > now => deadline \in 1 .. MaxDeadline
  BY <1>0, TimerQueueAssumption DEF TypeOK
<1>3. CASE ScheduleCached(s, deadline)
  <2> DEFINE e == Last(cache)
  <2>1. /\ sleep[s] = "Start" /\ deadline > now /\ current' = now
        /\ cache # <<>> /\ cache' = Front(cache)
        /\ reused' = [reused EXCEPT ![s] = TRUE]
        /\ Enqueue(s, deadline, e)
        /\ UNCHANGED <<now, wakerVars, woken, pollerVars>>
    BY <1>3 DEF ScheduleCached
  <2>2. cache \in Seq(Entries) /\ \A i, j \in 1 .. Len(cache) : cache[i] = cache[j] => i = j
    BY <1>0 DEF TypeOK, QueueInv, EntryOwnedOnce
  <2>3. /\ Front(cache) \in Seq(Entries) /\ e \in Range(cache) /\ e \in Entries
        /\ Range(Front(cache)) \subseteq Range(cache) /\ e \notin Range(Front(cache))
        /\ \A i, j \in 1 .. Len(Front(cache)) : Front(cache)[i] = Front(cache)[j] => i = j
    BY <2>1, <2>2, CachePop
  <2>4. \A r \in Sleeps : delay[r].entry # e
    BY <1>0, <2>3 DEF QueueInv, EntryOwnedOnce
  <2>5. /\ signal' \in [Entries -> BOOLEAN] /\ ready' \in [Entries -> BOOLEAN]
        /\ task' \in [Entries -> Sleeps \cup {NoSleep}]
        /\ \A f \in Entries : f # e => signal'[f] = signal[f] /\ ready'[f] = ready[f]
    BY <1>0, <2>1 DEF TypeOK, wakerVars
  <2> HIDE DEF e
  <2>6. /\ cache' \in Seq(Entries) /\ Range(cache') \subseteq Range(cache) \ {e}
        /\ \A i, j \in 1 .. Len(cache') : cache'[i] = cache'[j] => i = j
    BY <2>1, <2>3
  <2>q. QED BY <1>2, <2>1, <2>3, <2>4, <2>5, <2>6, EnqueueStep
<1>4. CASE ScheduleNew(s, deadline)
  <2> DEFINE e == CHOOSE u \in Unused : TRUE
  <2>1. /\ sleep[s] = "Start" /\ deadline > now /\ current' = now /\ cache = <<>>
        /\ Unused # {} /\ Enqueue(s, deadline, e)
        /\ signal' = [signal EXCEPT ![e] = FALSE]
        /\ ready' = [ready EXCEPT ![e] = FALSE]
        /\ task' = [task EXCEPT ![e] = NoSleep]
        /\ reused' = [reused EXCEPT ![s] = FALSE]
        /\ UNCHANGED <<now, cache, woken, pollerVars>>
    BY <1>4 DEF ScheduleNew
  <2>2. e \in Unused BY <2>1
  <2> HIDE DEF e
  <2>3. /\ e \in Entries /\ e \notin Range(cache)
        /\ \A r \in Sleeps : delay[r].entry # e
        /\ \A p \in Pollers : e \notin expired[p]
    BY <2>2 DEF Unused
  <2>4. /\ signal' \in [Entries -> BOOLEAN] /\ ready' \in [Entries -> BOOLEAN]
        /\ task' \in [Entries -> Sleeps \cup {NoSleep}]
        /\ ~signal'[e] /\ ~ready'[e]
        /\ \A f \in Entries : f # e => signal'[f] = signal[f] /\ ready'[f] = ready[f]
    BY <1>0, <2>1, <2>3 DEF TypeOK
  <2>5. /\ cache' \in Seq(Entries) /\ Range(cache') \subseteq Range(cache) \ {e}
        /\ \A i, j \in 1 .. Len(cache') : cache'[i] = cache'[j] => i = j
    BY <1>0, <2>1, <2>3 DEF TypeOK, QueueInv, EntryOwnedOnce
  <2>q. QED BY <1>2, <2>1, <2>3, <2>4, <2>5, EnqueueStep
<1>q. QED BY <1>1, <1>3, <1>4 DEF SleepUntil

(* complete, of a Sleep that was notified or of one that is dropped: an    *)
(* entry that is queued is found under its deadline.                       *)
LEMMA CompleteStep ==
  ASSUME IInv, NEW s \in Sleeps, sleep[s] \in {"complete", "Polling"}, Complete(s)
  PROVE  IInv'
<1>0. TypeOK /\ QueueInv BY DEF IInv
<1> DEFINE d == delay[s].deadline
           e == delay[s].entry
           left == tree \ {<<d, e>>}
           lost == d \notin Deadlines(left)
<1>1. /\ IF queued[e]
         THEN /\ tree' = left
              /\ expires' = IF lost /\ expires = d THEN EarliestOf(left) ELSE expires
              /\ sleep' = [sleep EXCEPT ![s] =
                   IF d \notin Deadlines(tree) \/ (lost /\ expires = 0)
                   THEN "panic" ELSE "Start"]
         ELSE /\ sleep' = [sleep EXCEPT ![s] = "Start"]
              /\ UNCHANGED <<tree, expires>>
      /\ queued' = [queued EXCEPT ![e] = FALSE] /\ CacheFree(e)
      /\ delay' = [delay EXCEPT ![s] = NoDelay]
      /\ reused' = [reused EXCEPT ![s] = FALSE]
      /\ woken' = [woken EXCEPT ![s] = FALSE]
      /\ UNCHANGED <<now, current, wakerVars, pollerVars>>
  BY DEF Complete
<1>2. /\ e \in Entries /\ d \in 0 .. MaxDeadline /\ NoEntry \notin Entries
      /\ tree \in SUBSET ((1 .. MaxDeadline) \X Entries)
      /\ \A q \in tree : q[1] \in 1 .. MaxDeadline /\ q[2] \in Entries /\ q = <<q[1], q[2]>>
      /\ MaxDeadline \in Nat /\ expires \in Nat
  BY <1>0, TimerQueueAssumption DEF TypeOK, QueueInv, DelaysHeld
<1> HIDE DEF d, e
(* The entry is in the tree under this deadline, or not at all. *)
<1>3. \A q \in tree : q[2] = e => q = <<d, e>>
  <2> SUFFICES ASSUME NEW q \in tree, q[2] = e PROVE q = <<d, e>>
    OBVIOUS
  <2>1. PICK r \in Sleeps : <<delay[r].deadline, delay[r].entry>> = q
    BY <1>0 DEF QueueInv, EntryOwnedOnce
  <2>2. delay[r].entry = e /\ delay[r] # NoDelay BY <1>2, <2>1 DEF NoDelay
  <2>3. r = s BY <1>0, <2>2 DEF QueueInv, EntryOwnedOnce, e
  <2>q. QED BY <2>1, <2>3 DEF d, e
<1>4. queued[e] <=> <<d, e>> \in tree
  <2>1. queued[e] => <<d, e>> \in tree
    BY <1>0, <1>2, <1>3 DEF QueueInv, QueuedInTree
  <2>2. <<d, e>> \in tree => queued[e]
    <3>1. <<d, e>>[2] = e OBVIOUS
    <3>q. QED BY <1>0, <3>1 DEF QueueInv, EntryOwnedOnce
  <2>q. QED BY <2>1, <2>2
<1>5. /\ expires = 0 <=> tree = {}
      /\ tree # {} => expires \in Deadlines(tree)
      /\ \A q \in tree : expires <= q[1]
  BY <1>0, <1>2, EarliestFacts DEF QueueInv, ExpiresIsMin
<1>6. tree' = left /\ left \in SUBSET ((1 .. MaxDeadline) \X Entries)
  <2>1. ~queued[e] => left = tree BY <1>4
  <2>q. QED BY <1>1, <1>2, <2>1
<1>7. sleep' = [sleep EXCEPT ![s] = "Start"]
  <2>1. CASE queued[e]
    <3>1. <<d, e>> \in tree /\ <<d, e>>[1] = d BY <1>4, <2>1
    <3>2. d \in Deadlines(tree) BY <3>1 DEF Deadlines
    <3>3. expires # 0 BY <1>5, <3>1
    <3>q. QED BY <1>1, <2>1, <3>2, <3>3
  <2>2. CASE ~queued[e] BY <1>1, <2>2
  <2>q. QED BY <2>1, <2>2
<1>8. expires' = EarliestOf(left)
  <2>1. CASE ~queued[e]
    BY <1>0, <1>1, <1>4, <2>1 DEF QueueInv, ExpiresIsMin
  <2>2. CASE queued[e] /\ lost /\ expires = d BY <1>1, <2>2
  <2>3. CASE queued[e] /\ ~(lost /\ expires = d)
    <3>1. expires' = expires BY <1>1, <2>3
    <3>2. expires \in Deadlines(left)
      <4>0. tree # {} BY <1>4, <2>3
      <4>1. CASE expires = d BY <2>3, <4>1
      <4>2. CASE expires # d
        <5>1. PICK q \in tree : q[1] = expires BY <1>5, <4>0 DEF Deadlines
        <5>2. q # <<d, e>> BY <4>2, <5>1
        <5>q. QED BY <5>1, <5>2 DEF Deadlines
      <4>q. QED BY <4>1, <4>2
    <3>3. left # {} /\ \A q \in left : expires <= q[1]
      BY <1>5, <3>2 DEF Deadlines
    <3> HIDE DEF left
    <3>q. QED BY <1>6, <3>1, <3>2, <3>3, EarliestIs
  <2>q. QED BY <2>1, <2>2, <2>3
<1>9. /\ queued' \in [Entries -> BOOLEAN] /\ ~queued'[e]
      /\ \A f \in Entries : f # e => queued'[f] = queued[f]
      /\ delay' \in [Sleeps -> [deadline : 0 .. MaxDeadline, entry : Entries \cup {NoEntry}]]
      /\ delay'[s] = NoDelay
      /\ \A r \in Sleeps : r # s => delay'[r] = delay[r]
      /\ reused' \in [Sleeps -> BOOLEAN] /\ woken' \in [Sleeps -> BOOLEAN]
      /\ \A r \in Sleeps : r # s => reused'[r] = reused[r]
      /\ sleep' \in [Sleeps -> {"Start", "poll", "Polling", "complete", "Polled", "panic"}]
      /\ sleep'[s] = "Start" /\ \A r \in Sleeps : r # s => sleep'[r] = sleep[r]
      /\ UNCHANGED <<now, current, signal, ready, task, pc, seen, expired>>
  <2>1. NoDelay \in [deadline : 0 .. MaxDeadline, entry : Entries \cup {NoEntry}]
    BY <1>2 DEF NoDelay
  <2>q. QED BY <1>0, <1>1, <1>2, <1>7, <2>1 DEF TypeOK, wakerVars, pollerVars
<1>10. /\ cache' \in Seq(Entries) /\ Range(cache') \subseteq Range(cache) \cup {e}
       /\ \A i, j \in 1 .. Len(cache') : cache'[i] = cache'[j] => i = j
  <2>1. /\ cache \in Seq(Entries) /\ e \notin Range(cache)
        /\ \A i, j \in 1 .. Len(cache) : cache[i] = cache[j] => i = j
    BY <1>0 DEF TypeOK, QueueInv, EntryOwnedOnce, e
  <2>2. /\ Append(cache, e) \in Seq(Entries)
        /\ Range(Append(cache, e)) = Range(cache) \cup {e}
        /\ \A i, j \in 1 .. Len(Append(cache, e)) :
             Append(cache, e)[i] = Append(cache, e)[j] => i = j
    BY <1>2, <2>1, CachePush
  <2>3. cache' = Append(cache, e) \/ cache' = cache BY <1>1 DEF CacheFree
  <2>q. QED BY <2>1, <2>2, <2>3
<1>11. TypeOK'
  <2>1. expires' \in 0 .. MaxDeadline BY <1>6, <1>8, EarliestFacts
  <2>q. QED BY <1>0, <1>6, <1>9, <1>10, <2>1 DEF TypeOK
<1>12. ExpiresIsMin' BY <1>6, <1>8 DEF ExpiresIsMin, EarliestOf, Deadlines
<1>13. EntryOwnedOnce'
  <2>0. \A r \in Sleeps : r # s => delay[r].entry # e
    BY <1>0, <1>2 DEF QueueInv, EntryOwnedOnce, NoDelay, e
  <2>1. \A r, t \in Sleeps :
          delay'[r].entry = delay'[t].entry => r = t \/ delay'[r] = NoDelay
    <3> SUFFICES ASSUME NEW r \in Sleeps, NEW t \in Sleeps, r # t,
                        delay'[r].entry = delay'[t].entry
                 PROVE delay'[r] = NoDelay
      OBVIOUS
    <3>1. CASE r = s BY <1>9, <3>1
    <3>2. CASE r # s /\ t # s
      BY <1>0, <1>9, <3>2 DEF QueueInv, EntryOwnedOnce
    <3>3. CASE r # s /\ t = s
      <4>1. delay[r].entry = NoEntry BY <1>9, <3>3 DEF NoDelay
      <4>q. QED BY <1>0, <1>2, <1>9, <3>3, <4>1 DEF QueueInv, DelaysHeld
    <3>q. QED BY <3>1, <3>2, <3>3
  <2>2. ASSUME NEW r \in Sleeps PROVE delay'[r].entry \notin Range(cache')
    <3>1. CASE r = s
      <4>1. Range(cache) \subseteq Entries BY <1>0 DEF TypeOK, Range
      <4>q. QED BY <1>2, <1>9, <1>10, <3>1, <4>1 DEF NoDelay
    <3>2. CASE r # s
      BY <1>0, <1>9, <1>10, <2>0, <3>2 DEF QueueInv, EntryOwnedOnce
    <3>q. QED BY <3>1, <3>2
  <2>3. ASSUME NEW q \in tree'
        PROVE queued'[q[2]] /\ \E r \in Sleeps : <<delay'[r].deadline, delay'[r].entry>> = q
    <3>1. q \in tree /\ q # <<d, e>> BY <1>6
    <3>2. q[2] # e /\ q[2] \in Entries BY <1>2, <1>3, <3>1
    <3>3. queued[q[2]] BY <1>0, <3>1 DEF QueueInv, EntryOwnedOnce
    <3>4. PICK r \in Sleeps : <<delay[r].deadline, delay[r].entry>> = q
      BY <1>0, <3>1 DEF QueueInv, EntryOwnedOnce
    <3>5. r # s BY <3>2, <3>4 DEF e
    <3>q. QED BY <1>9, <3>2, <3>3, <3>4, <3>5
  <2>q. QED BY <1>10, <2>1, <2>2, <2>3 DEF EntryOwnedOnce
<1>14. QueueNeverPanics' BY <1>0, <1>9 DEF QueueInv, QueueNeverPanics
<1>15. DelaysHeld' BY <1>0, <1>9 DEF QueueInv, DelaysHeld
<1>16. QueuedInTree'
  <2> SUFFICES ASSUME NEW f \in Entries, queued'[f] PROVE \E q \in tree' : q[2] = f
    BY DEF QueuedInTree
  <2>1. f # e /\ queued[f] BY <1>9
  <2>2. PICK q \in tree : q[2] = f BY <1>0, <2>1 DEF QueueInv, QueuedInTree
  <2>3. q # <<d, e>> BY <2>1, <2>2
  <2>q. QED BY <1>6, <2>2, <2>3
<1>17. ClocksBehind' BY <1>0, <1>9 DEF QueueInv, ClocksBehind
<1>18. FirstUseNeverEarly' BY <1>0, <1>9 DEF QueueInv, FirstUseNeverEarly
<1>19. NewEntryDue'
  <2> SUFFICES ASSUME NEW r \in Sleeps, delay'[r].entry \in Entries, ~reused'[r],
                      \/ signal[delay'[r].entry] \/ ready[delay'[r].entry]
                      \/ \E p \in Pollers : delay'[r].entry \in expired[p]
               PROVE delay'[r].deadline <= now
    BY <1>9 DEF NewEntryDue
  <2>1. r # s BY <1>2, <1>9 DEF NoDelay
  <2>q. QED BY <1>0, <1>9, <2>1 DEF QueueInv, NewEntryDue
<1>q. QED
  BY <1>11, <1>12, <1>13, <1>14, <1>15, <1>16, <1>17, <1>18, <1>19
     DEF IInv, QueueInv
-----------------------------------------------------------------------------
(* The steps of poll_timers outside the lock *)
LEMMA PeekStep ==
  ASSUME IInv, NEW p \in Pollers, PeekExpires(p) \/ ReadClock(p) \/ ProcessEnd(p)
  PROVE  IInv'
<1> USE DEF queueVars, wakerVars, sleepVars
<1>0. TypeOK /\ QueueInv BY DEF IInv
<1>1. /\ MaxDeadline \in Nat /\ MaxNow \in Nat /\ MaxNow <= MaxDeadline
      /\ now \in 0 .. MaxNow /\ expires \in 0 .. MaxDeadline
  BY <1>0, TimerQueueAssumption DEF TypeOK
<1>2. UNCHANGED <<now, expires, current, tree, cache, queued, signal, ready,
                  task, sleep, delay, woken, reused, expired>>
  BY DEF PeekExpires, ReadClock, ProcessEnd
<1>3. /\ pc' \in [Pollers -> {"idle", "clock", "poll", "process", "panic"}]
      /\ seen' \in [Pollers -> 0 .. MaxDeadline]
      /\ pc'[p] # "panic" /\ (pc'[p] = "poll" => seen'[p] <= now)
      /\ \A q \in Pollers : q # p => pc'[q] = pc[q] /\ seen'[q] = seen[q]
  <2>1. CASE PeekExpires(p) BY <1>0, <1>1, <2>1 DEF PeekExpires, TypeOK
  <2>2. CASE ReadClock(p)
    <3>1. PICK t \in 0 .. now :
            /\ pc' = [pc EXCEPT ![p] = IF t < seen[p] THEN "idle" ELSE "poll"]
            /\ seen' = [seen EXCEPT ![p] = IF t < seen[p] THEN 0 ELSE t]
      BY <2>2 DEF ReadClock
    <3>2. t \in 0 .. MaxDeadline /\ 0 \in 0 .. MaxDeadline /\ t <= now BY <1>1
    <3>q. QED BY <1>0, <3>1, <3>2 DEF TypeOK
  <2>3. CASE ProcessEnd(p) BY <1>0, <2>3 DEF ProcessEnd, TypeOK
  <2>q. QED BY <2>1, <2>2, <2>3
<1>4. TypeOK' BY <1>0, <1>2, <1>3 DEF TypeOK
<1>5. ExpiresIsMin' /\ EntryOwnedOnce' /\ QueuedInTree' BY <1>0, <1>2, SameQueue
<1>6. QueueNeverPanics' BY <1>0, <1>2, <1>3 DEF QueueInv, QueueNeverPanics
<1>7. DelaysHeld' /\ FirstUseNeverEarly' /\ NewEntryDue'
  BY <1>0, <1>2 DEF QueueInv, DelaysHeld, FirstUseNeverEarly, NewEntryDue
<1>8. ClocksBehind' BY <1>0, <1>2, <1>3 DEF QueueInv, ClocksBehind
<1>q. QED BY <1>4, <1>5, <1>6, <1>7, <1>8 DEF IInv, QueueInv

(* Queue::poll takes out of the tree what is due and leaves the rest.      *)
LEMMA PollStep ==
  ASSUME IInv, NEW p \in Pollers, Poll(p)
  PROVE  IInv'
<1>0. TypeOK /\ QueueInv BY DEF IInv
<1> DEFINE t == Max({current, seen[p]})
           due == Due(t)
<1>1. /\ pc[p] = "poll" /\ current' = t /\ tree' = tree \ due
      /\ expires' = EarliestOf(tree \ due)
      /\ queued' = [e \in Entries |-> queued[e] /\ e \notin EntriesOf(due)]
      /\ expired' = [expired EXCEPT ![p] = @ \cup EntriesOf(due)]
      /\ seen' = [seen EXCEPT ![p] = 0]
      /\ pc' = [pc EXCEPT ![p] =
                  IF \A e \in EntriesOf(due) : queued[e] THEN "process" ELSE "panic"]
      /\ UNCHANGED <<now, cache, wakerVars, sleepVars>>
  BY DEF Poll
<1>2. t \in Nat /\ t <= now /\ t \in 0 .. MaxNow
  <2>1. /\ current \in Nat /\ seen[p] \in Nat /\ now \in 0 .. MaxNow /\ MaxNow \in Nat
        /\ current <= now
    BY <1>0, TimerQueueAssumption DEF TypeOK, QueueInv, ClocksBehind
  <2>2. seen[p] <= now BY <1>0, <1>1 DEF QueueInv, ClocksBehind
  <2>q. QED BY <2>1, <2>2, MaxOfTwo
<1>3. /\ due \subseteq tree /\ \A q \in due : q[1] <= t
      /\ tree \in SUBSET ((1 .. MaxDeadline) \X Entries)
      /\ \A q \in tree : q[1] \in Nat /\ q[2] \in Entries
      /\ EntriesOf(due) \subseteq Entries
      /\ \A e \in EntriesOf(due) : \E q \in due : q[2] = e
      /\ \A q \in due : q[2] \in EntriesOf(due)
  <2>1. due \subseteq tree /\ \A q \in due : q[1] <= t BY DEF Due
  <2>2. /\ tree \in SUBSET ((1 .. MaxDeadline) \X Entries)
        /\ \A q \in tree : q[1] \in Nat /\ q[2] \in Entries
    BY <1>0, TimerQueueAssumption DEF TypeOK
  <2> HIDE DEF due
  <2>q. QED BY <2>1, <2>2 DEF EntriesOf
<1> HIDE DEF due, t
(* What is due belongs to a Sleep whose deadline is over. *)
<1>4. \A e \in EntriesOf(due) : queued[e]
  BY <1>0, <1>3 DEF QueueInv, EntryOwnedOnce
<1>5. ASSUME NEW s \in Sleeps, delay[s].entry \in EntriesOf(due)
      PROVE delay[s].deadline <= now /\ <<delay[s].deadline, delay[s].entry>> \in due
  <2>1. PICK q \in due : q[2] = delay[s].entry BY <1>3, <1>5
  <2>2. PICK r \in Sleeps : <<delay[r].deadline, delay[r].entry>> = q
    BY <1>0, <1>3, <2>1 DEF QueueInv, EntryOwnedOnce
  <2>3. delay[s].entry = delay[r].entry /\ delay[s] # NoDelay
    BY <1>3, <1>5, <2>1, <2>2, TimerQueueAssumption DEF NoDelay
  <2>4. s = r BY <1>0, <2>3 DEF QueueInv, EntryOwnedOnce
  <2>5. delay[s].deadline = q[1] /\ q[1] <= t /\ q[1] \in Nat
    BY <1>3, <2>1, <2>2, <2>4
  <2>6. now \in Nat BY <1>0, TimerQueueAssumption DEF TypeOK
  <2>q. QED BY <1>2, <2>1, <2>2, <2>4, <2>5, <2>6
<1>6. /\ UNCHANGED <<now, cache, signal, ready, task, sleep, delay, woken, reused>>
      /\ pc' \in [Pollers -> {"idle", "clock", "poll", "process", "panic"}]
      /\ pc'[p] = "process" /\ \A q \in Pollers : q # p => pc'[q] = pc[q] /\ seen'[q] = seen[q]
      /\ seen' \in [Pollers -> 0 .. MaxDeadline]
      /\ expired' \in [Pollers -> SUBSET Entries]
      /\ \A q \in Pollers : expired'[q] \subseteq expired[q] \cup EntriesOf(due)
      /\ queued' \in [Entries -> BOOLEAN]
      /\ \A e \in Entries : queued'[e] <=> queued[e] /\ e \notin EntriesOf(due)
  <2>1. 0 \in 0 .. MaxDeadline BY TimerQueueAssumption
  <2>2. expired' \in [Pollers -> SUBSET Entries]
    <3>1. expired[p] \cup EntriesOf(due) \in SUBSET Entries BY <1>0, <1>3 DEF TypeOK
    <3>q. QED BY <1>0, <1>1, <3>1 DEF TypeOK
  <2>3. \A q \in Pollers : expired'[q] \subseteq expired[q] \cup EntriesOf(due)
    BY <1>0, <1>1 DEF TypeOK
  <2>q. QED BY <1>0, <1>1, <1>4, <2>1, <2>2, <2>3 DEF TypeOK, wakerVars, sleepVars
<1>7. tree' \in SUBSET ((1 .. MaxDeadline) \X Entries) /\ tree' \subseteq tree
  BY <1>1, <1>3
<1>8. TypeOK'
  <2>1. expires' \in 0 .. MaxDeadline BY <1>1, <1>7, EarliestFacts
  <2>q. QED BY <1>0, <1>1, <1>2, <1>6, <1>7, <2>1 DEF TypeOK
<1>9. ExpiresIsMin' BY <1>1 DEF ExpiresIsMin, EarliestOf, Deadlines
<1>10. EntryOwnedOnce'
  <2>1. ASSUME NEW q \in tree' PROVE queued'[q[2]]
    <3>1. q \in tree /\ q \notin due /\ q[2] \in Entries BY <1>1, <1>3
    <3>2. queued[q[2]] BY <1>0, <3>1 DEF QueueInv, EntryOwnedOnce
    <3>3. PICK r \in Sleeps : <<delay[r].deadline, delay[r].entry>> = q
      BY <1>0, <3>1 DEF QueueInv, EntryOwnedOnce
    <3>4. q[2] \notin EntriesOf(due) BY <1>5, <3>1, <3>3
    <3>q. QED BY <1>6, <3>1, <3>2, <3>4
  <2>q. QED BY <1>0, <1>6, <1>7, <2>1 DEF QueueInv, EntryOwnedOnce
<1>11. QueueNeverPanics' BY <1>0, <1>6 DEF QueueInv, QueueNeverPanics
<1>12. DelaysHeld' /\ FirstUseNeverEarly'
  BY <1>0, <1>6 DEF QueueInv, DelaysHeld, FirstUseNeverEarly
<1>13. QueuedInTree'
  <2> SUFFICES ASSUME NEW f \in Entries, queued'[f] PROVE \E q \in tree' : q[2] = f
    BY DEF QueuedInTree
  <2>1. queued[f] /\ f \notin EntriesOf(due) BY <1>6
  <2>2. PICK q \in tree : q[2] = f BY <1>0, <2>1 DEF QueueInv, QueuedInTree
  <2>3. q \notin due BY <1>3, <2>1, <2>2
  <2>q. QED BY <1>1, <2>2, <2>3
<1>14. ClocksBehind' BY <1>0, <1>1, <1>2, <1>6 DEF QueueInv, ClocksBehind
<1>15. NewEntryDue'
  <2> SUFFICES ASSUME NEW r \in Sleeps, delay[r].entry \in Entries, ~reused[r],
                      \/ signal[delay[r].entry] \/ ready[delay[r].entry]
                      \/ \E q \in Pollers : delay[r].entry \in expired'[q]
               PROVE delay[r].deadline <= now
    BY <1>6 DEF NewEntryDue
  <2>1. CASE delay[r].entry \in EntriesOf(due) BY <1>5, <2>1
  <2>2. CASE delay[r].entry \notin EntriesOf(due)
    BY <1>0, <1>6, <2>2 DEF QueueInv, NewEntryDue
  <2>q. QED BY <2>1, <2>2
<1>q. QED
  BY <1>8, <1>9, <1>10, <1>11, <1>12, <1>13, <1>14, <1>15 DEF IInv, QueueInv

(* A wake of an expired entry *)
LEMMA ProcessStep ==
  ASSUME IInv, NEW p \in Pollers, Process(p)
  PROVE  IInv'
<1>0. TypeOK /\ QueueInv BY DEF IInv
<1>1. PICK e \in expired[p] :
        /\ signal' = [signal EXCEPT ![e] = TRUE]
        /\ task' = [task EXCEPT ![e] = NoSleep]
        /\ woken' = [s \in Sleeps |-> woken[s] \/ task[e] = s]
        /\ expired' = [expired EXCEPT ![p] = @ \ {e}]
  BY DEF Process
<1>2. UNCHANGED <<now, expires, current, tree, cache, queued, ready, sleep,
                  delay, reused, pc, seen>>
  BY DEF Process, queueVars
<1>3. /\ e \in Entries
      /\ signal' \in [Entries -> BOOLEAN]
      /\ task' \in [Entries -> Sleeps \cup {NoSleep}]
      /\ woken' \in [Sleeps -> BOOLEAN]
      /\ expired' \in [Pollers -> SUBSET Entries]
      /\ \A q \in Pollers : expired'[q] \subseteq expired[q]
      /\ \A f \in Entries : f # e => signal'[f] = signal[f]
  <2>1. e \in Entries BY <1>0 DEF TypeOK
  <2>2. expired' \in [Pollers -> SUBSET Entries]
    <3>1. expired[p] \ {e} \in SUBSET Entries BY <1>0 DEF TypeOK
    <3>q. QED BY <1>0, <1>1, <3>1 DEF TypeOK
  <2>q. QED BY <1>0, <1>1, <2>1, <2>2 DEF TypeOK
<1>4. TypeOK' BY <1>0, <1>2, <1>3 DEF TypeOK
<1>5. ExpiresIsMin' /\ EntryOwnedOnce' /\ QueuedInTree' BY <1>0, <1>2, SameQueue
<1>6. QueueNeverPanics' /\ DelaysHeld' /\ FirstUseNeverEarly' /\ ClocksBehind'
  BY <1>0, <1>2
     DEF QueueInv, QueueNeverPanics, DelaysHeld, FirstUseNeverEarly, ClocksBehind
<1>7. NewEntryDue'
  <2> SUFFICES ASSUME NEW r \in Sleeps, delay[r].entry \in Entries, ~reused[r],
                      \/ signal'[delay[r].entry] \/ ready[delay[r].entry]
                      \/ \E q \in Pollers : delay[r].entry \in expired'[q]
               PROVE delay[r].deadline <= now
    BY <1>2 DEF NewEntryDue
  <2>1. \/ signal[delay[r].entry] \/ ready[delay[r].entry]
        \/ \E q \in Pollers : delay[r].entry \in expired[q]
    BY <1>3
  <2>q. QED BY <1>0, <2>1 DEF QueueInv, NewEntryDue
<1>q. QED BY <1>4, <1>5, <1>6, <1>7 DEF IInv, QueueInv
-----------------------------------------------------------------------------
(* The inductive invariant from which the theorems below follow. *)
LEMMA QueueInvariant == Spec => []IInv
<1>1. Init => IInv
  <2> SUFFICES ASSUME Init PROVE IInv
    OBVIOUS
  <2> USE DEF Init
  <2>1. TypeOK
    <3>1. NoDelay \in [deadline : 0 .. MaxDeadline, entry : Entries \cup {NoEntry}]
      BY TimerQueueAssumption DEF NoDelay
    <3>q. QED BY <3>1, TimerQueueAssumption DEF TypeOK
  <2>2. ExpiresIsMin BY DEF ExpiresIsMin, EarliestOf
  <2>3. EntryOwnedOnce BY DEF EntryOwnedOnce, Range
  <2>4. QueueNeverPanics /\ FirstUseNeverEarly /\ DelaysHeld
    BY DEF QueueNeverPanics, FirstUseNeverEarly, DelaysHeld
  <2>5. QueuedInTree /\ ClocksBehind BY DEF QueuedInTree, ClocksBehind
  <2>6. NewEntryDue BY TimerQueueAssumption DEF NewEntryDue, NoDelay
  <2>q. QED BY <2>1, <2>2, <2>3, <2>4, <2>5, <2>6 DEF IInv, QueueInv
<1>2. IInv /\ [Next]_vars => IInv'
  <2> SUFFICES ASSUME IInv, [Next]_vars PROVE IInv'
    OBVIOUS
  <2>0. TypeOK BY DEF IInv
  <2>1. CASE Tick BY <2>1, TickStep
  <2>2. ASSUME NEW s \in Sleeps, SleepZero(s) PROVE IInv'
    BY <2>2, YieldStep DEF SleepZero, queueVars
  <2>3. ASSUME NEW s \in Sleeps, NEW ms \in Millis, SleepUntil(s, DeadlineFor(ms))
        PROVE IInv'
    <3>1. /\ ms \in Nat /\ now \in Nat /\ MaxDeadline \in Nat
      BY <2>0, TimerQueueAssumption DEF TypeOK
    <3>2. Max({ms, 1}) \in Nat BY <3>1, MaxOfTwo
    <3> DEFINE m == Max({ms, 1}) + now
    <3>3. DeadlineFor(ms) = Min({m, MaxDeadline}) BY DEF DeadlineFor
    <3>4. m \in Nat BY <3>1, <3>2
    <3> HIDE DEF m
    <3>5. Min({m, MaxDeadline}) = IF m <= MaxDeadline THEN m ELSE MaxDeadline
      BY <3>1, <3>4, MinOfTwo
    <3>6. DeadlineFor(ms) \in 0 .. MaxDeadline BY <3>1, <3>3, <3>4, <3>5
    <3>q. QED BY <2>3, <3>6, SleepUntilStep
  <2>4. ASSUME NEW s \in Sleeps, NEW at \in Instants, SleepUntil(s, at) PROVE IInv'
    BY <2>4, SleepUntilStep, TimerQueueAssumption
  <2>5. ASSUME NEW s \in Sleeps, SleepPoll(s) PROVE IInv'
    <3>1. CASE WakerReady(s) \/ WakerPending(s) BY <3>1, WakerStep
    <3>2. CASE SleepPolled(s) BY <3>2, YieldStep DEF SleepPolled, queueVars
    <3>q. QED BY <2>5, <3>1, <3>2 DEF SleepPoll
  <2>6. ASSUME NEW s \in Sleeps, SleepComplete(s) \/ SleepDrop(s) PROVE IInv'
    BY <2>6, CompleteStep DEF SleepComplete, SleepDrop
  <2>7. ASSUME NEW p \in Pollers, PollTimers(p) PROVE IInv'
    BY <2>7, PeekStep, PollStep, ProcessStep DEF PollTimers
  <2>8. CASE UNCHANGED vars
    <3> USE <2>8 DEF vars, queueVars, wakerVars, sleepVars, pollerVars
    <3>1. TypeOK' BY <2>0 DEF TypeOK
    <3>2. ExpiresIsMin' /\ EntryOwnedOnce' /\ QueuedInTree' BY SameQueue DEF IInv
    <3>3. QueueNeverPanics' /\ FirstUseNeverEarly' /\ DelaysHeld' /\ ClocksBehind'
          /\ NewEntryDue'
      BY DEF IInv, QueueInv, QueueNeverPanics, FirstUseNeverEarly, DelaysHeld,
             ClocksBehind, NewEntryDue
    <3>q. QED BY <3>1, <3>2, <3>3 DEF IInv, QueueInv
  <2>q. QED BY <2>1, <2>2, <2>3, <2>4, <2>5, <2>6, <2>7, <2>8 DEF Next
<1>q. QED BY <1>1, <1>2, PTL DEF Spec

(* Types: every critical section of the queue leaves its fields, the       *)
(* Delays and the expired lists in their domains; no deadline is 0.        *)
THEOREM QueueTypes == Spec => []TypeOK
<1>1. IInv => TypeOK BY DEF IInv
<1>q. QED BY <1>1, QueueInvariant, PTL

(* Queue.expires is the earliest deadline whenever the lock is free, with  *)
(* any interleaving of schedule, complete and poll.                        *)
THEOREM ExpiresIsEarliest == Spec => []ExpiresIsMin
<1>1. IInv => ExpiresIsMin BY DEF IInv, QueueInv
<1>q. QED BY <1>1, QueueInvariant, PTL

(* An entry has one owner, and in the tree stands under its deadline: the  *)
(* reuse of entries through the cache never gives one to two Sleeps.       *)
THEOREM EntriesAreOwnedOnce == Spec => []EntryOwnedOnce
<1>1. IInv => EntryOwnedOnce BY DEF IInv, QueueInv
<1>q. QED BY <1>1, QueueInvariant, PTL

(* The assertion of poll, and the unreachable! and the unwrap of complete, *)
(* hold when Sleeps are cancelled while threads expire them.               *)
THEOREM QueueIsPanicFree == Spec => []QueueNeverPanics
<1>1. IInv => QueueNeverPanics BY DEF IInv, QueueInv
<1>q. QED BY <1>1, QueueInvariant, PTL

(* A Sleep whose entry is new is never early, whatever readings of the     *)
(* clock the threads bring to poll.                                        *)
THEOREM FirstUseIsNeverEarly == Spec => []FirstUseNeverEarly
<1>1. IInv => FirstUseNeverEarly BY DEF IInv, QueueInv
<1>q. QED BY <1>1, QueueInvariant, PTL
-----------------------------------------------------------------------------
(* A thread has expired entries only while it processes them. *)
ExpiredInHand == \A p \in Pollers : expired[p] # {} => pc[p] = "process"

(* A waker that was called, or answers Ready, has no task registered. *)
SignalledEmpty == \A e \in Entries : signal[e] \/ ready[e] => task[e] = NoSleep

(* A Sleep that waits is registered with its entry or was woken. *)
RegisteredOf(s) == sleep[s] = "Polling" => woken[s] \/ task[delay[s].entry] = s

(* Where the entry of a Sleep is until the Sleep has seen its signal. *)
Expiring(e) == \E p \in Pollers : pc[p] = "process" /\ e \in expired[p]

HeldOf(s) ==
  sleep[s] \in {"poll", "Polling"} =>
    \/ <<delay[s].deadline, delay[s].entry>> \in tree
    \/ Expiring(delay[s].entry)
    \/ signal[delay[s].entry] \/ ready[delay[s].entry]

HeldInv ==
  /\ ExpiredInHand /\ SignalledEmpty
  /\ \A s \in Sleeps : RegisteredOf(s) /\ HeldOf(s)

(* The entry of a Sleep that has one is nobody else's. *)
LEMMA OwnEntry ==
  ASSUME IInv, NEW s \in Sleeps, sleep[s] \in {"poll", "Polling", "complete"},
         NEW r \in Sleeps, r # s
  PROVE  /\ delay[s].entry \in Entries /\ delay[r].entry # delay[s].entry
<1>1. delay[s].entry \in Entries BY DEF IInv, QueueInv, DelaysHeld
<1>2. delay[s] # NoDelay BY <1>1, TimerQueueAssumption DEF NoDelay
<1>q. QED BY <1>1, <1>2 DEF IInv, QueueInv, EntryOwnedOnce

(* Steps that touch neither tree, wakers nor expired entries, and give no  *)
(* Sleep anything to wait for.                                             *)
LEMMA HeldFrame ==
  ASSUME HeldInv, UNCHANGED <<tree, signal, ready, task, delay, expired>>,
         \A r \in Sleeps : \/ sleep'[r] = sleep[r] /\ woken'[r] = woken[r]
                           \/ sleep'[r] \notin {"poll", "Polling"},
         \A p \in Pollers : pc'[p] = pc[p] \/ expired[p] = {}
  PROVE  HeldInv'
<1>1. ExpiredInHand' /\ SignalledEmpty' BY DEF HeldInv, ExpiredInHand, SignalledEmpty
<1>2. \A e : Expiring(e) => Expiring(e)' BY DEF Expiring
<1>3. ASSUME NEW s \in Sleeps PROVE RegisteredOf(s)' /\ HeldOf(s)'
  <2>1. RegisteredOf(s) /\ HeldOf(s) BY DEF HeldInv
  <2>2. RegisteredOf(s)' BY <2>1 DEF RegisteredOf
  <2>3. HeldOf(s)' BY <1>2, <2>1 DEF HeldOf, Expiring
  <2>q. QED BY <2>2, <2>3
<1>q. QED BY <1>1, <1>3 DEF HeldInv

(* schedule puts the entry of a new Delay into the tree, and no other      *)
(* Sleep has that entry.                                                   *)
LEMMA HeldSchedule ==
  ASSUME IInv, HeldInv, NEW s \in Sleeps, NEW deadline, NEW e \in Entries,
         Enqueue(s, deadline, e), \A r \in Sleeps : delay[r].entry # e,
         \/ UNCHANGED wakerVars
         \/ /\ signal' = [signal EXCEPT ![e] = FALSE]
            /\ ready' = [ready EXCEPT ![e] = FALSE]
            /\ task' = [task EXCEPT ![e] = NoSleep],
         UNCHANGED <<woken, pollerVars>>
  PROVE  HeldInv'
<1> USE DEF pollerVars
<1>0. TypeOK BY DEF IInv
<1>1. /\ sleep' = [sleep EXCEPT ![s] = "poll"] /\ tree' = tree \cup {<<deadline, e>>}
      /\ delay' = [delay EXCEPT ![s] = [deadline |-> deadline, entry |-> e]]
  BY DEF Enqueue
<1>2. /\ \A f \in Entries : f # e =>
           signal'[f] = signal[f] /\ ready'[f] = ready[f] /\ task'[f] = task[f]
      /\ signal'[e] \/ ready'[e] => task'[e] = NoSleep
  BY <1>0 DEF TypeOK, wakerVars, HeldInv, SignalledEmpty
<1>3. ExpiredInHand' /\ SignalledEmpty' BY <1>2 DEF HeldInv, ExpiredInHand, SignalledEmpty
<1>4. \A f : Expiring(f)' <=> Expiring(f) BY DEF Expiring
<1>5. ASSUME NEW r \in Sleeps, r # s PROVE RegisteredOf(r)' /\ HeldOf(r)'
  <2>1. RegisteredOf(r) /\ HeldOf(r) BY DEF HeldInv
  <2>2. sleep'[r] = sleep[r] /\ delay'[r] = delay[r] BY <1>0, <1>1, <1>5 DEF TypeOK
  <2>3. sleep[r] \in {"poll", "Polling"} => delay[r].entry \in Entries /\ delay[r].entry # e
    BY DEF IInv, QueueInv, DelaysHeld
  <2>4. RegisteredOf(r)' BY <1>2, <2>1, <2>2, <2>3 DEF RegisteredOf
  <2>5. HeldOf(r)'
    <3> SUFFICES ASSUME sleep[r] \in {"poll", "Polling"} PROVE HeldOf(r)'
      BY <2>2 DEF HeldOf
    <3>1. CASE <<delay[r].deadline, delay[r].entry>> \in tree
      BY <1>1, <2>2, <3>1 DEF HeldOf
    <3>2. CASE Expiring(delay[r].entry) BY <2>2, <3>2 DEF HeldOf, Expiring
    <3>3. CASE signal[delay[r].entry] \/ ready[delay[r].entry]
      BY <1>2, <2>2, <2>3, <3>3 DEF HeldOf
    <3>q. QED BY <2>1, <3>1, <3>2, <3>3 DEF HeldOf
  <2>q. QED BY <2>4, <2>5
<1>6. RegisteredOf(s)' /\ HeldOf(s)' BY <1>0, <1>1 DEF TypeOK, RegisteredOf, HeldOf
<1>q. QED BY <1>3, <1>5, <1>6 DEF HeldInv

(* The poll of a Sleep registers its task or ends its wait, and touches    *)
(* the waker of its own entry only.                                        *)
LEMMA HeldWaker ==
  ASSUME IInv, HeldInv, NEW s \in Sleeps, WakerReady(s) \/ WakerPending(s)
  PROVE  HeldInv'
<1>0. TypeOK BY DEF IInv
<1>1. /\ sleep[s] \in {"poll", "Polling"} /\ UNCHANGED <<tree, delay, pc, expired>>
      /\ \A r \in Sleeps : r # s => sleep'[r] = sleep[r] /\ woken'[r] = woken[r]
  BY <1>0 DEF WakerReady, WakerPending, queueVars, pollerVars, TypeOK
<1>2. PICK e \in Entries : e = delay[s].entry
  BY <1>1 DEF IInv, QueueInv, DelaysHeld
<1>3. \A f \in Entries : f # e =>
        signal'[f] = signal[f] /\ ready'[f] = ready[f] /\ task'[f] = task[f]
  BY <1>0, <1>2 DEF WakerReady, WakerPending, TypeOK
<1>4. /\ signal'[e] \/ ready'[e] => task'[e] = NoSleep
      /\ \/ sleep'[s] = "complete"
         \/ sleep'[s] = "Polling" /\ task'[e] = s /\ signal'[e] = signal[e] /\ ready'[e] = ready[e]
  <2>1. CASE WakerReady(s)
    <3>1. (signal[e] \/ ready[e]) /\ sleep'[s] = "complete" /\ UNCHANGED task
      BY <1>0, <1>2, <2>1 DEF WakerReady, TypeOK
    <3>q. QED BY <3>1 DEF HeldInv, SignalledEmpty
  <2>2. CASE WakerPending(s)
    BY <1>0, <1>2, <2>2 DEF WakerPending, TypeOK
  <2>q. QED BY <2>1, <2>2
<1>5. ExpiredInHand' /\ SignalledEmpty'
  BY <1>1, <1>3, <1>4 DEF HeldInv, ExpiredInHand, SignalledEmpty
<1>6. ASSUME NEW r \in Sleeps, r # s PROVE RegisteredOf(r)' /\ HeldOf(r)'
  <2>1. RegisteredOf(r) /\ HeldOf(r) BY DEF HeldInv
  <2>2. sleep[r] \in {"poll", "Polling"} => delay[r].entry \in Entries /\ delay[r].entry # e
    BY <1>1, <1>2, <1>6, OwnEntry DEF IInv, QueueInv, DelaysHeld
  <2>3. RegisteredOf(r)' BY <1>1, <1>3, <1>6, <2>1, <2>2 DEF RegisteredOf
  <2>4. HeldOf(r)' BY <1>1, <1>3, <1>6, <2>1, <2>2 DEF HeldOf, Expiring
  <2>q. QED BY <2>3, <2>4
<1>7. RegisteredOf(s)' BY <1>1, <1>2, <1>4 DEF RegisteredOf
<1>8. HeldOf(s)'
  <2>1. HeldOf(s) BY DEF HeldInv
  <2>q. QED BY <1>1, <1>2, <1>4, <2>1 DEF HeldOf, Expiring
<1>q. QED BY <1>5, <1>6, <1>7, <1>8 DEF HeldInv

(* complete takes only its own pair out of the tree. *)
LEMMA HeldComplete ==
  ASSUME IInv, HeldInv, NEW s \in Sleeps, sleep[s] \in {"complete", "Polling"}, Complete(s)
  PROVE  HeldInv'
<1> USE DEF wakerVars, pollerVars
<1>0. TypeOK BY DEF IInv
<1>1. /\ UNCHANGED <<signal, ready, task, pc, expired>>
      /\ \A r \in Sleeps : r # s => /\ sleep'[r] = sleep[r] /\ woken'[r] = woken[r]
                                    /\ delay'[r] = delay[r]
      /\ sleep'[s] \in {"Start", "panic"}
      /\ \A q \in tree : q = <<delay[s].deadline, delay[s].entry>> \/ q \in tree'
  BY <1>0 DEF Complete, TypeOK
<1>2. ExpiredInHand' /\ SignalledEmpty'
  BY <1>1 DEF HeldInv, ExpiredInHand, SignalledEmpty
<1>3. ASSUME NEW r \in Sleeps, r # s PROVE RegisteredOf(r)' /\ HeldOf(r)'
  <2>1. RegisteredOf(r) /\ HeldOf(r) BY DEF HeldInv
  <2>2. delay[r].entry # delay[s].entry BY <1>3, OwnEntry
  <2>3. RegisteredOf(r)' BY <1>1, <1>3, <2>1 DEF RegisteredOf
  <2>4. HeldOf(r)' BY <1>1, <1>3, <2>1, <2>2 DEF HeldOf, Expiring
  <2>q. QED BY <2>3, <2>4
<1>4. RegisteredOf(s)' /\ HeldOf(s)' BY <1>1 DEF RegisteredOf, HeldOf
<1>q. QED BY <1>2, <1>3, <1>4 DEF HeldInv

(* What poll takes out of the tree it hands to the thread that polls. *)
LEMMA HeldPoll ==
  ASSUME IInv, HeldInv, NEW p \in Pollers, Poll(p)
  PROVE  HeldInv'
<1>0. TypeOK BY DEF IInv
<1>1. PICK due \in SUBSET tree :
        /\ tree' = tree \ due
        /\ expired' = [expired EXCEPT ![p] = @ \cup EntriesOf(due)]
        /\ pc' = [pc EXCEPT ![p] =
                    IF \A e \in EntriesOf(due) : queued[e] THEN "process" ELSE "panic"]
        /\ UNCHANGED <<signal, ready, task, sleep, delay, woken>>
  BY DEF Poll, Due, wakerVars, sleepVars
<1>2. \A e \in EntriesOf(due) : queued[e]
  BY DEF EntriesOf, IInv, QueueInv, EntryOwnedOnce
<1>3. /\ pc'[p] = "process" /\ expired'[p] = expired[p] \cup EntriesOf(due)
      /\ \A q \in Pollers : q # p => pc'[q] = pc[q] /\ expired'[q] = expired[q]
  BY <1>0, <1>1, <1>2 DEF TypeOK
<1>4. \A e : Expiring(e) \/ e \in EntriesOf(due) => Expiring(e)' BY <1>3 DEF Expiring
<1>5. ExpiredInHand' /\ SignalledEmpty'
  BY <1>1, <1>3 DEF HeldInv, ExpiredInHand, SignalledEmpty
<1>6. ASSUME NEW r \in Sleeps PROVE RegisteredOf(r)' /\ HeldOf(r)'
  <2>1. RegisteredOf(r) /\ HeldOf(r) BY DEF HeldInv
  <2>2. RegisteredOf(r)' BY <1>1, <2>1 DEF RegisteredOf
  <2>3. <<delay[r].deadline, delay[r].entry>> \in due => delay[r].entry \in EntriesOf(due)
    BY DEF EntriesOf
  <2>4. HeldOf(r)' BY <1>1, <1>4, <2>1, <2>3 DEF HeldOf, Expiring
  <2>q. QED BY <2>2, <2>4
<1>q. QED BY <1>5, <1>6 DEF HeldInv

(* A wake leaves its signal and wakes whoever is registered. *)
LEMMA HeldProcess ==
  ASSUME IInv, HeldInv, NEW p \in Pollers, Process(p)
  PROVE  HeldInv'
<1>0. TypeOK BY DEF IInv
<1>1. PICK e \in expired[p] :
        /\ signal' = [signal EXCEPT ![e] = TRUE]
        /\ task' = [task EXCEPT ![e] = NoSleep]
        /\ woken' = [s \in Sleeps |-> woken[s] \/ task[e] = s]
        /\ expired' = [expired EXCEPT ![p] = @ \ {e}]
  BY DEF Process
<1>2. UNCHANGED <<tree, ready, sleep, delay, pc>> BY DEF Process, queueVars
<1>3. /\ e \in Entries /\ signal'[e] /\ task'[e] = NoSleep
      /\ \A f \in Entries : f # e => signal'[f] = signal[f] /\ task'[f] = task[f]
      /\ \A q \in Pollers, f \in Entries : f # e /\ f \in expired[q] => f \in expired'[q]
      /\ \A q \in Pollers : expired'[q] \subseteq expired[q]
  BY <1>0, <1>1 DEF TypeOK
<1>4. ExpiredInHand' /\ SignalledEmpty'
  <2>1. ExpiredInHand' BY <1>2, <1>3 DEF HeldInv, ExpiredInHand
  <2>2. SignalledEmpty' BY <1>2, <1>3 DEF HeldInv, SignalledEmpty
  <2>q. QED BY <2>1, <2>2
<1>5. ASSUME NEW r \in Sleeps PROVE RegisteredOf(r)' /\ HeldOf(r)'
  <2>1. RegisteredOf(r) /\ HeldOf(r) BY DEF HeldInv
  <2>2. sleep[r] \in {"poll", "Polling"} => delay[r].entry \in Entries
    BY DEF IInv, QueueInv, DelaysHeld
  <2>3. RegisteredOf(r)'
    <3>1. woken'[r] <=> woken[r] \/ task[e] = r BY <1>1
    <3>q. QED BY <1>2, <1>3, <2>1, <2>2, <3>1 DEF RegisteredOf
  <2>4. HeldOf(r)' BY <1>2, <1>3, <2>1, <2>2 DEF HeldOf, Expiring
  <2>q. QED BY <2>3, <2>4
<1>q. QED BY <1>4, <1>5 DEF HeldInv

(* schedule from the cache or with a new entry *)
LEMMA HeldSleepUntil ==
  ASSUME IInv, HeldInv, NEW s \in Sleeps, NEW deadline, SleepUntil(s, deadline)
  PROVE  HeldInv'
<1>0. TypeOK /\ EntryOwnedOnce BY DEF IInv, QueueInv
<1>1. CASE SleepPast(s, deadline)
  BY <1>0, <1>1, HeldFrame DEF SleepPast, Yield, wakerVars, pollerVars, TypeOK
<1>2. CASE ScheduleCached(s, deadline)
  <2>1. cache \in Seq(Entries) /\ cache # <<>> BY <1>0, <1>2 DEF ScheduleCached, TypeOK
  <2>2. Last(cache) \in Range(cache) /\ Last(cache) \in Entries
    BY <1>0, <2>1, CachePop DEF EntryOwnedOnce
  <2>3. \A r \in Sleeps : delay[r].entry # Last(cache)
    BY <1>0, <2>2 DEF EntryOwnedOnce
  <2>q. QED BY <1>2, <2>2, <2>3, HeldSchedule DEF ScheduleCached
<1>3. CASE ScheduleNew(s, deadline)
  <2>1. PICK e \in Unused :
          /\ Enqueue(s, deadline, e)
          /\ signal' = [signal EXCEPT ![e] = FALSE]
          /\ ready' = [ready EXCEPT ![e] = FALSE]
          /\ task' = [task EXCEPT ![e] = NoSleep]
    BY <1>3 DEF ScheduleNew
  <2>2. e \in Entries /\ \A r \in Sleeps : delay[r].entry # e BY DEF Unused
  <2>q. QED BY <1>3, <2>1, <2>2, HeldSchedule DEF ScheduleNew
<1>q. QED BY <1>1, <1>2, <1>3 DEF SleepUntil

(* A Sleep that waits is never forgotten: until its task is woken, its     *)
(* entry is in the tree, where poll finds it at its deadline, or with a    *)
(* thread that processes it, with its task's waker in it.  This is what    *)
(* SleepEnds needs besides fairness, for any number of Sleeps and threads. *)
THEOREM WaitsAreHeld == Spec => []WaitingIsHeld
<1>1. Init => HeldInv
  BY DEF Init, HeldInv, ExpiredInHand, SignalledEmpty, RegisteredOf, HeldOf
<1>2. IInv /\ HeldInv /\ [Next]_vars => HeldInv'
  <2> SUFFICES ASSUME IInv, HeldInv, [Next]_vars PROVE HeldInv'
    OBVIOUS
  <2>0. TypeOK BY DEF IInv
  <2>1. CASE Tick
    BY <2>1, HeldFrame DEF Tick, queueVars, wakerVars, sleepVars, pollerVars
  <2>2. ASSUME NEW s \in Sleeps, SleepZero(s) \/ SleepPolled(s) PROVE HeldInv'
    BY <2>0, <2>2, HeldFrame
       DEF SleepZero, SleepPolled, Yield, queueVars, wakerVars, pollerVars, TypeOK
  <2>3. ASSUME NEW s \in Sleeps, NEW deadline, SleepUntil(s, deadline) PROVE HeldInv'
    BY <2>3, HeldSleepUntil
  <2>4. ASSUME NEW s \in Sleeps, SleepPoll(s) PROVE HeldInv'
    BY <2>2, <2>4, HeldWaker DEF SleepPoll
  <2>5. ASSUME NEW s \in Sleeps, SleepComplete(s) \/ SleepDrop(s) PROVE HeldInv'
    BY <2>5, HeldComplete DEF SleepComplete, SleepDrop
  <2>6. ASSUME NEW p \in Pollers, PollTimers(p) PROVE HeldInv'
    <3>1. CASE PeekExpires(p) \/ ReadClock(p) \/ ProcessEnd(p)
      <4>1. UNCHANGED <<tree, signal, ready, task, delay, expired, sleep, woken>>
        BY <3>1 DEF PeekExpires, ReadClock, ProcessEnd, queueVars, wakerVars, sleepVars
      <4>2. expired[p] = {}
        BY <3>1 DEF PeekExpires, ReadClock, ProcessEnd, HeldInv, ExpiredInHand
      <4>3. \A q \in Pollers : q # p => pc'[q] = pc[q]
        BY <2>0, <3>1 DEF PeekExpires, ReadClock, ProcessEnd, TypeOK
      <4>q. QED BY <4>1, <4>2, <4>3, HeldFrame
    <3>q. QED BY <2>6, <3>1, HeldPoll, HeldProcess DEF PollTimers
  <2>7. CASE UNCHANGED vars
    BY <2>7, HeldFrame DEF vars, queueVars, wakerVars, sleepVars, pollerVars
  <2>q. QED BY <2>1, <2>2, <2>3, <2>4, <2>5, <2>6, <2>7 DEF Next
<1>3. IInv /\ HeldInv => WaitingIsHeld
  <2> SUFFICES ASSUME IInv, HeldInv, NEW s \in Sleeps, sleep[s] = "Polling", ~woken[s]
               PROVE /\ task[delay[s].entry] = s
                     /\ \/ <<delay[s].deadline, delay[s].entry>> \in tree
                        \/ \E p \in Pollers : pc[p] = "process" /\ delay[s].entry \in expired[p]
    BY DEF WaitingIsHeld
  <2>1. delay[s].entry \in Entries BY DEF IInv, QueueInv, DelaysHeld
  <2>2. task[delay[s].entry] = s BY DEF HeldInv, RegisteredOf
  <2>3. ~signal[delay[s].entry] /\ ~ready[delay[s].entry]
    BY <2>1, <2>2, TimerQueueAssumption DEF HeldInv, SignalledEmpty
  <2>q. QED BY <2>2, <2>3 DEF HeldInv, HeldOf, Expiring
<1>q. QED BY <1>1, <1>2, <1>3, QueueInvariant, PTL DEF Spec
=============================================================================
