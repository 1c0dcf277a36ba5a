---------------------------- MODULE WorkerProofs ----------------------------
(***************************************************************************)
(* Proof that Scheduler keeps every worker index in exactly one place, for *)
(* any number of workers, threads and tasks.  Each step either leaves the  *)
(* places alone (Still) or moves one index from one place to another.      *)
(* At the end, what the threads do with the notifications of a Parker and  *)
(* with the wakes of a block_on future.                                    *)
(***************************************************************************)
EXTENDS SchedulerProofs

(* The places of an index by kind. *)
FunAt(f, kind, w) == {<<kind, x>> : x \in {u \in Threads : f[u] = w}}
SeqAt(s, w) == {<<"idle", i>> : i \in {j \in 1 .. Len(s) : s[j] = w}}

WordWorker == [x \in Threads |-> word[x].worker]

IdleAt(w) == SeqAt(idle, w)
WorkerAt(w) == FunAt(worker, "worker", w)
GotAt(w) == FunAt(got, "got", w)
HandAt(w) == FunAt(hand, "hand", w)
WordAt(w) == FunAt(WordWorker, "word", w)

(* The places of an index are those of the five kinds, now and after a step. *)
LEMMA PlacesByKind ==
  ASSUME NEW w
  PROVE /\ Places(w) = IdleAt(w) \cup WorkerAt(w) \cup GotAt(w) \cup HandAt(w) \cup WordAt(w)
        /\ Places(w)' = IdleAt(w)' \cup WorkerAt(w)' \cup GotAt(w)' \cup HandAt(w)' \cup WordAt(w)'
<1>1. {u \in Threads : word[u].worker = w} = {u \in Threads : WordWorker[u] = w}
  BY DEF WordWorker
<1>2. {u \in Threads : word'[u].worker = w} = {u \in Threads : WordWorker'[u] = w}
  BY DEF WordWorker
<1>3. Places(w) = IdleAt(w) \cup WorkerAt(w) \cup GotAt(w) \cup HandAt(w) \cup WordAt(w)
  BY <1>1 DEF Places, IdleAt, WorkerAt, GotAt, HandAt, WordAt, FunAt, SeqAt
<1>4. Places(w)' = IdleAt(w)' \cup WorkerAt(w)' \cup GotAt(w)' \cup HandAt(w)' \cup WordAt(w)'
  BY <1>2 DEF Places, IdleAt, WorkerAt, GotAt, HandAt, WordAt, FunAt, SeqAt
<1>q. QED BY <1>3, <1>4

(* A place of one kind is not a place of another. *)
LEMMA FunAtKind ==
  ASSUME NEW f, NEW k, NEW w, NEW l, NEW x, l # k
  PROVE <<l, x>> \notin FunAt(f, k, w)
BY DEF FunAt

(* A place outside the idle queue is none of its positions. *)
LEMMA SeqAtKind ==
  ASSUME NEW s, NEW w, NEW l, NEW x, l # "idle"
  PROVE <<l, x>> \notin SeqAt(s, w)
BY DEF SeqAt

(* g is f with f[t] replaced. *)
Sets(f, g, t, v) == \A x \in Threads : g[x] = IF x = t THEN v ELSE f[x]

(* An index is put into a variable that had none, and taken out again.     *)
LEMMA FunPut ==
  ASSUME NEW f \in [Threads -> Slot], NEW g, NEW t \in Threads, NEW v \in Workers, NEW k,
         f[t] = NoWorker, NEW w \in Workers,
         Sets(f, g, t, v)
  PROVE FunAt(g, k, w) = IF w = v THEN FunAt(f, k, w) \cup {<<k, t>>} ELSE FunAt(f, k, w)
<1>1. {u \in Threads : g[u] = w}
        = IF w = v THEN {u \in Threads : f[u] = w} \cup {t} ELSE {u \in Threads : f[u] = w}
  BY NoWorkerIsNoWorker DEF Sets
<1>q. QED BY <1>1 DEF FunAt

(* A variable that held an index holds none any more. *)
LEMMA FunTake ==
  ASSUME NEW f \in [Threads -> Slot], NEW g, NEW t \in Threads, NEW k, f[t] \in Workers,
         NEW w \in Workers,
         Sets(f, g, t, NoWorker)
  PROVE /\ FunAt(g, k, w) = IF w = f[t] THEN FunAt(f, k, w) \ {<<k, t>>} ELSE FunAt(f, k, w)
        /\ <<k, t>> \in FunAt(f, k, f[t])
<1>1. {u \in Threads : g[u] = w}
        = IF w = f[t] THEN {u \in Threads : f[u] = w} \ {t} ELSE {u \in Threads : f[u] = w}
  BY NoWorkerIsNoWorker DEF Sets
<1>2. ASSUME NEW S PROVE {<<k, x>> : x \in S \ {t}} = {<<k, x>> : x \in S} \ {<<k, t>>}
  OBVIOUS
<1>q. QED BY <1>1, <1>2 DEF FunAt

(* IdleQueue::push adds one place. *)
LEMMA SeqPut ==
  ASSUME NEW s \in Seq(Workers), NEW v \in Workers, NEW w \in Workers
  PROVE SeqAt(Append(s, v), w)
          = IF w = v THEN SeqAt(s, w) \cup {<<"idle", Len(s) + 1>>} ELSE SeqAt(s, w)
<1> DEFINE n == Len(s)
           r == Append(s, v)
<1>1. /\ n \in Nat /\ Len(r) = n + 1 /\ r[n + 1] = v
      /\ \A i \in 1 .. n : r[i] = s[i]
  BY PushFacts
<1> HIDE DEF r, n
<1>2. {j \in 1 .. (n + 1) : r[j] = w}
        = IF w = v THEN {j \in 1 .. n : s[j] = w} \cup {n + 1} ELSE {j \in 1 .. n : s[j] = w}
  BY <1>1
<1>q. QED BY <1>1, <1>2 DEF SeqAt, n, r

(* IdleQueue::pop removes one place. *)
LEMMA SeqTake ==
  ASSUME NEW s \in Seq(Workers), s # <<>>, NEW w \in Workers
  PROVE /\ SeqAt(SubSeq(s, 1, Len(s) - 1), w)
             = IF w = s[Len(s)] THEN SeqAt(s, w) \ {<<"idle", Len(s)>>} ELSE SeqAt(s, w)
        /\ <<"idle", Len(s)>> \in SeqAt(s, s[Len(s)])
<1> DEFINE n == Len(s)
           r == SubSeq(s, 1, n - 1)
<1>1. /\ n \in Nat \ {0} /\ Len(r) = n - 1
      /\ \A i \in 1 .. (n - 1) : r[i] = s[i]
  BY PopFacts
<1> HIDE DEF r, n
<1>2. {j \in 1 .. (n - 1) : r[j] = w}
        = IF w = s[n] THEN {j \in 1 .. n : s[j] = w} \ {n} ELSE {j \in 1 .. n : s[j] = w}
  BY <1>1
<1>3. ASSUME NEW S PROVE {<<"idle", x>> : x \in S \ {n}} = {<<"idle", x>> : x \in S} \ {<<"idle", n>>}
  OBVIOUS
<1>4. n \in {j \in 1 .. n : s[j] = s[n]}
  BY <1>1
<1>q. QED BY <1>1, <1>2, <1>3, <1>4 DEF SeqAt, n, r
-----------------------------------------------------------------------------
(* A step moves index v from place a to place b. *)
Moves(v, a, b) ==
  /\ v \in Workers /\ a \in Places(v)
  /\ \A w \in Workers :
       Places(w)' = IF w = v THEN (Places(w) \ {a}) \cup {b} ELSE Places(w)

(* A step that moves one index to a new place keeps all of them in one place. *)
LEMMA MoveConserves ==
  ASSUME WorkerConservation, NEW v, NEW a, NEW b, Moves(v, a, b)
  PROVE WorkerConservation'
<1> SUFFICES ASSUME NEW w \in Workers
             PROVE \E p \in Places(w)' : Places(w)' = {p}
  BY DEF WorkerConservation
<1>1. PICK p \in Places(w) : Places(w) = {p}
  BY DEF WorkerConservation
<1>2. CASE w = v
  <2>1. Places(w)' = {b}
    BY <1>1, <1>2 DEF Moves
  <2>q. QED BY <2>1
<1>3. CASE w # v
  BY <1>1, <1>3 DEF Moves
<1>q. QED BY <1>2, <1>3

(* A step leaves every place alone. *)
Still ==
  /\ UNCHANGED <<idle, worker, got, hand>>
  /\ \A x \in Threads : word'[x].worker = word[x].worker

(* A step that leaves every place alone keeps them so. *)
LEMMA StillConserves ==
  ASSUME WorkerConservation, Still
  PROVE WorkerConservation'
<1>1. WordWorker' = WordWorker
  BY DEF Still, WordWorker
<1>2. ASSUME NEW w PROVE Places(w)' = Places(w)
  <2>1. /\ IdleAt(w)' = IdleAt(w) /\ WorkerAt(w)' = WorkerAt(w) /\ GotAt(w)' = GotAt(w)
        /\ HandAt(w)' = HandAt(w) /\ WordAt(w)' = WordAt(w)
    BY <1>1 DEF Still, IdleAt, WorkerAt, GotAt, HandAt, WordAt, FunAt, SeqAt
  <2>q. QED BY <2>1, PlacesByKind
<1>q. QED BY <1>2 DEF WorkerConservation
(* Which kind a place is of. *)
LEMMA Kinds ==
  ASSUME NEW w, NEW x
  PROVE /\ <<"idle", x>> \notin WorkerAt(w) \cup GotAt(w) \cup HandAt(w) \cup WordAt(w)
        /\ <<"worker", x>> \notin IdleAt(w) \cup GotAt(w) \cup HandAt(w) \cup WordAt(w)
        /\ <<"got", x>> \notin IdleAt(w) \cup WorkerAt(w) \cup HandAt(w) \cup WordAt(w)
        /\ <<"hand", x>> \notin IdleAt(w) \cup WorkerAt(w) \cup GotAt(w) \cup WordAt(w)
        /\ <<"word", x>> \notin IdleAt(w) \cup WorkerAt(w) \cup GotAt(w) \cup HandAt(w)
<1>1. <<"idle", x>> \notin WorkerAt(w) \cup GotAt(w) \cup HandAt(w) \cup WordAt(w)
  BY FunAtKind, SeqAtKind DEF IdleAt, WorkerAt, GotAt, HandAt, WordAt
<1>2. <<"worker", x>> \notin IdleAt(w) \cup GotAt(w) \cup HandAt(w) \cup WordAt(w)
  BY FunAtKind, SeqAtKind DEF IdleAt, WorkerAt, GotAt, HandAt, WordAt
<1>3. <<"got", x>> \notin IdleAt(w) \cup WorkerAt(w) \cup HandAt(w) \cup WordAt(w)
  BY FunAtKind, SeqAtKind DEF IdleAt, WorkerAt, GotAt, HandAt, WordAt
<1>4. <<"hand", x>> \notin IdleAt(w) \cup WorkerAt(w) \cup GotAt(w) \cup WordAt(w)
  BY FunAtKind, SeqAtKind DEF IdleAt, WorkerAt, GotAt, HandAt, WordAt
<1>5. <<"word", x>> \notin IdleAt(w) \cup WorkerAt(w) \cup GotAt(w) \cup HandAt(w)
  BY FunAtKind, SeqAtKind DEF IdleAt, WorkerAt, GotAt, HandAt, WordAt
<1>q. QED BY <1>1, <1>2, <1>3, <1>4, <1>5

(* search_retry takes an index out of the idle queue. *)
LEMMA MoveSearchRetryPop ==
  ASSUME Typing, LocalInv, NEW t \in Threads, SearchRetryPop(t)
  PROVE \E v, a, b : Moves(v, a, b)
<1> DEFINE v == idle[Len(idle)]
           a == <<"idle", Len(idle)>>
           b == <<"got", t>>
<1>1. /\ idle \in Seq(Workers) /\ idle # <<>> /\ got \in [Threads -> Slot]
      /\ idle' = SubSeq(idle, 1, Len(idle) - 1)
      /\ got' = [got EXCEPT ![t] = idle[Len(idle)]] /\ got[t] = NoWorker
  BY DEF SearchRetryPop, IdlePop, IdleTop, Typing, IndexTyping, LocalInv, LocalOf, Where,
        CallPcs, Handing, Claiming, Attached, Detached, Blocked
<1>2. idle[Len(idle)] \in Workers
  BY <1>1, PopFacts
<1>a. ASSUME NEW w \in Workers
      PROVE /\ IdleAt(w)' = IF w = v THEN IdleAt(w) \ {a} ELSE IdleAt(w)
            /\ a \in IdleAt(v)
  BY <1>1, SeqTake DEF IdleAt
<1>b. ASSUME NEW w \in Workers
      PROVE GotAt(w)' = IF w = v THEN GotAt(w) \cup {b} ELSE GotAt(w)
  <2>1. /\ v \in Workers /\ t \in Threads /\ got \in [Threads -> Slot] /\ got[t] = NoWorker
        /\ Sets(got, got', t, v)
    BY <1>1, <1>2 DEF Sets
  <2> HIDE DEF v
  <2>2. FunAt(got', "got", w)
          = IF w = v THEN FunAt(got, "got", w) \cup {b} ELSE FunAt(got, "got", w)
    BY <2>1, FunPut
  <2>q. QED BY <2>2 DEF GotAt
<1>c. ASSUME NEW w \in Workers
      PROVE WorkerAt(w)' = WorkerAt(w) /\ HandAt(w)' = HandAt(w) /\ WordAt(w)' = WordAt(w)
  BY <1>1 DEF SearchRetryPop, WorkerAt, HandAt, WordAt, FunAt, SeqAt, WordWorker, parkVars
<1>d. ASSUME NEW w \in Workers
      PROVE a \notin WorkerAt(w) \cup GotAt(w) \cup HandAt(w) \cup WordAt(w)
  BY Kinds
<1>e. v \in Workers
  BY <1>2
<1>f. a \in Places(v)
  BY <1>a, <1>e, PlacesByKind
<1> HIDE DEF v, a, b
<1>g. ASSUME NEW w \in Workers
      PROVE Places(w)' = IF w = v THEN (Places(w) \ {a}) \cup {b} ELSE Places(w)
  <2>1. /\ Places(w) = IdleAt(w) \cup WorkerAt(w) \cup GotAt(w) \cup HandAt(w) \cup WordAt(w)
        /\ Places(w)' = IdleAt(w)' \cup WorkerAt(w)' \cup GotAt(w)' \cup HandAt(w)' \cup WordAt(w)'
    BY PlacesByKind
  <2>2. CASE w = v
    <3>1. /\ IdleAt(w)' = IdleAt(w) \ {a} /\ GotAt(w)' = GotAt(w) \cup {b}
          /\ WorkerAt(w)' = WorkerAt(w) /\ HandAt(w)' = HandAt(w) /\ WordAt(w)' = WordAt(w)
          /\ a \notin WorkerAt(w) \cup GotAt(w) \cup HandAt(w) \cup WordAt(w)
      BY <1>a, <1>b, <1>c, <1>d, <2>2
    <3>2. ASSUME NEW p
          PROVE p \in Places(w)' <=> p = b \/ (p \in Places(w) /\ p # a)
      BY <2>1, <3>1
    <3>3. Places(w)' = (Places(w) \ {a}) \cup {b}
      BY <3>2
    <3>q. QED BY <2>2, <3>3
  <2>3. CASE w # v
    <3>1. /\ IdleAt(w)' = IdleAt(w) /\ GotAt(w)' = GotAt(w)
          /\ WorkerAt(w)' = WorkerAt(w) /\ HandAt(w)' = HandAt(w) /\ WordAt(w)' = WordAt(w)
      BY <1>a, <1>b, <1>c, <2>3
    <3>q. QED BY <2>1, <2>3, <3>1
  <2>q. QED BY <2>2, <2>3
<1>h. Moves(v, a, b)
  BY <1>e, <1>f, <1>g DEF Moves
<1>q. QED BY <1>h

(* notify takes an index out of the idle queue. *)
LEMMA MoveNotifyPop ==
  ASSUME Typing, LocalInv, NEW t \in Threads, NotifyPop(t), IdlePop, hand' = [hand EXCEPT ![t] = IdleTop]
  PROVE \E v, a, b : Moves(v, a, b)
<1> DEFINE v == idle[Len(idle)]
           a == <<"idle", Len(idle)>>
           b == <<"hand", t>>
<1>1. /\ idle \in Seq(Workers) /\ idle # <<>> /\ hand \in [Threads -> Slot]
      /\ idle' = SubSeq(idle, 1, Len(idle) - 1)
      /\ hand' = [hand EXCEPT ![t] = idle[Len(idle)]] /\ hand[t] = NoWorker
      /\ UNCHANGED <<worker, got, word>>
  BY DEF NotifyPop, IdlePop, IdleTop, Typing, IndexTyping, parkVars, LocalInv, LocalOf, Handing
<1>2. idle[Len(idle)] \in Workers
  BY <1>1, PopFacts
<1>a. ASSUME NEW w \in Workers
      PROVE /\ IdleAt(w)' = IF w = v THEN IdleAt(w) \ {a} ELSE IdleAt(w)
            /\ a \in IdleAt(v)
  BY <1>1, SeqTake DEF IdleAt
<1>b. ASSUME NEW w \in Workers
      PROVE HandAt(w)' = IF w = v THEN HandAt(w) \cup {b} ELSE HandAt(w)
  <2>1. /\ v \in Workers /\ t \in Threads /\ hand \in [Threads -> Slot] /\ hand[t] = NoWorker
        /\ Sets(hand, hand', t, v)
    BY <1>1, <1>2 DEF Sets
  <2> HIDE DEF v
  <2>2. FunAt(hand', "hand", w)
          = IF w = v THEN FunAt(hand, "hand", w) \cup {b} ELSE FunAt(hand, "hand", w)
    BY <2>1, FunPut
  <2>q. QED BY <2>2 DEF HandAt
<1>c. ASSUME NEW w \in Workers
      PROVE WorkerAt(w)' = WorkerAt(w) /\ GotAt(w)' = GotAt(w) /\ WordAt(w)' = WordAt(w)
  BY <1>1 DEF WorkerAt, GotAt, WordAt, WordWorker, FunAt
<1>d. ASSUME NEW w \in Workers
      PROVE a \notin WorkerAt(w) \cup GotAt(w) \cup HandAt(w) \cup WordAt(w)
  BY Kinds
<1>e. v \in Workers
  BY <1>2
<1>f. a \in Places(v)
  BY <1>a, <1>e, PlacesByKind
<1> HIDE DEF v, a, b
<1>g. ASSUME NEW w \in Workers
      PROVE Places(w)' = IF w = v THEN (Places(w) \ {a}) \cup {b} ELSE Places(w)
  <2>1. /\ Places(w) = IdleAt(w) \cup WorkerAt(w) \cup GotAt(w) \cup HandAt(w) \cup WordAt(w)
        /\ Places(w)' = IdleAt(w)' \cup WorkerAt(w)' \cup GotAt(w)' \cup HandAt(w)' \cup WordAt(w)'
    BY PlacesByKind
  <2>2. CASE w = v
    <3>1. /\ IdleAt(w)' = IdleAt(w) \ {a} /\ HandAt(w)' = HandAt(w) \cup {b}
          /\ WorkerAt(w)' = WorkerAt(w) /\ GotAt(w)' = GotAt(w) /\ WordAt(w)' = WordAt(w)
          /\ a \notin WorkerAt(w) \cup GotAt(w) \cup HandAt(w) \cup WordAt(w)
      BY <1>a, <1>b, <1>c, <1>d, <2>2
    <3>2. ASSUME NEW p
          PROVE p \in Places(w)' <=> p = b \/ (p \in Places(w) /\ p # a)
      BY <2>1, <3>1
    <3>3. Places(w)' = (Places(w) \ {a}) \cup {b}
      BY <3>2
    <3>q. QED BY <2>2, <3>3
  <2>3. CASE w # v
    <3>1. /\ IdleAt(w)' = IdleAt(w) /\ HandAt(w)' = HandAt(w)
          /\ WorkerAt(w)' = WorkerAt(w) /\ GotAt(w)' = GotAt(w) /\ WordAt(w)' = WordAt(w)
      BY <1>a, <1>b, <1>c, <2>3
    <3>q. QED BY <2>1, <2>3, <3>1
  <2>q. QED BY <2>2, <2>3
<1>h. Moves(v, a, b)
  BY <1>e, <1>f, <1>g DEF Moves
<1>q. QED BY <1>h

(* notify gives an index back when spawn fails. *)
LEMMA MoveNotifyGiveBack ==
  ASSUME Typing, LocalInv, NEW t \in Threads, NotifyGiveBack(t)
  PROVE \E v, a, b : Moves(v, a, b)
<1> DEFINE v == hand[t]
           a == <<"hand", t>>
           b == <<"idle", Len(idle) + 1>>
<1>1. /\ idle \in Seq(Workers) /\ hand \in [Threads -> Slot] /\ hand[t] \in Workers
      /\ idle' = Append(idle, hand[t])
      /\ hand' = [hand EXCEPT ![t] = NoWorker]
  BY DEF NotifyGiveBack, IdlePush, Typing, IndexTyping, LocalInv, LocalOf, Where, CallPcs,
        Handing, Claiming, Attached, Detached, Blocked
<1>a. ASSUME NEW w \in Workers
      PROVE /\ HandAt(w)' = IF w = v THEN HandAt(w) \ {a} ELSE HandAt(w)
            /\ a \in HandAt(v)
  <2>1. /\ hand \in [Threads -> Slot] /\ hand[t] \in Workers
        /\ Sets(hand, hand', t, NoWorker)
    BY <1>1 DEF Sets
  <2>2. /\ FunAt(hand', "hand", w)
             = IF w = hand[t] THEN FunAt(hand, "hand", w) \ {a} ELSE FunAt(hand, "hand", w)
        /\ a \in FunAt(hand, "hand", hand[t])
    BY <2>1, FunTake
  <2>q. QED BY <2>2 DEF HandAt
<1>b. ASSUME NEW w \in Workers
      PROVE IdleAt(w)' = IF w = v THEN IdleAt(w) \cup {b} ELSE IdleAt(w)
  BY <1>1, SeqPut DEF IdleAt
<1>c. ASSUME NEW w \in Workers
      PROVE WorkerAt(w)' = WorkerAt(w) /\ GotAt(w)' = GotAt(w) /\ WordAt(w)' = WordAt(w)
  BY <1>1 DEF NotifyGiveBack, WorkerAt, GotAt, WordAt, FunAt, SeqAt, WordWorker, parkVars
<1>d. ASSUME NEW w \in Workers
      PROVE a \notin IdleAt(w) \cup WorkerAt(w) \cup GotAt(w) \cup WordAt(w)
  BY Kinds
<1>e. v \in Workers
  BY <1>1
<1>f. a \in Places(v)
  BY <1>a, <1>e, PlacesByKind
<1> HIDE DEF v, a, b
<1>g. ASSUME NEW w \in Workers
      PROVE Places(w)' = IF w = v THEN (Places(w) \ {a}) \cup {b} ELSE Places(w)
  <2>1. /\ Places(w) = IdleAt(w) \cup WorkerAt(w) \cup GotAt(w) \cup HandAt(w) \cup WordAt(w)
        /\ Places(w)' = IdleAt(w)' \cup WorkerAt(w)' \cup GotAt(w)' \cup HandAt(w)' \cup WordAt(w)'
    BY PlacesByKind
  <2>2. CASE w = v
    <3>1. /\ HandAt(w)' = HandAt(w) \ {a} /\ IdleAt(w)' = IdleAt(w) \cup {b}
          /\ WorkerAt(w)' = WorkerAt(w) /\ GotAt(w)' = GotAt(w) /\ WordAt(w)' = WordAt(w)
          /\ a \notin IdleAt(w) \cup WorkerAt(w) \cup GotAt(w) \cup WordAt(w)
      BY <1>a, <1>b, <1>c, <1>d, <2>2
    <3>2. ASSUME NEW p
          PROVE p \in Places(w)' <=> p = b \/ (p \in Places(w) /\ p # a)
      BY <2>1, <3>1
    <3>3. Places(w)' = (Places(w) \ {a}) \cup {b}
      BY <3>2
    <3>q. QED BY <2>2, <3>3
  <2>3. CASE w # v
    <3>1. /\ HandAt(w)' = HandAt(w) /\ IdleAt(w)' = IdleAt(w)
          /\ WorkerAt(w)' = WorkerAt(w) /\ GotAt(w)' = GotAt(w) /\ WordAt(w)' = WordAt(w)
      BY <1>a, <1>b, <1>c, <2>3
    <3>q. QED BY <2>1, <2>3, <3>1
  <2>q. QED BY <2>2, <2>3
<1>h. Moves(v, a, b)
  BY <1>e, <1>f, <1>g DEF Moves
<1>q. QED BY <1>h

(* search_failed gives an index back. *)
LEMMA MoveGoIdle ==
  ASSUME Typing, LocalInv, NEW t \in Threads, GoIdle(t)
  PROVE \E v, a, b : Moves(v, a, b)
<1> DEFINE v == got[t]
           a == <<"got", t>>
           b == <<"idle", Len(idle) + 1>>
<1>1. /\ idle \in Seq(Workers) /\ got \in [Threads -> Slot] /\ got[t] \in Workers
      /\ idle' = Append(idle, got[t])
      /\ got' = [got EXCEPT ![t] = NoWorker]
  BY DEF GoIdle, IdlePush, Typing, IndexTyping, LocalInv, LocalOf, Where, CallPcs,
        Handing, Claiming, Attached, Detached, Blocked
<1>a. ASSUME NEW w \in Workers
      PROVE /\ GotAt(w)' = IF w = v THEN GotAt(w) \ {a} ELSE GotAt(w)
            /\ a \in GotAt(v)
  <2>1. /\ got \in [Threads -> Slot] /\ got[t] \in Workers
        /\ Sets(got, got', t, NoWorker)
    BY <1>1 DEF Sets
  <2>2. /\ FunAt(got', "got", w)
             = IF w = got[t] THEN FunAt(got, "got", w) \ {a} ELSE FunAt(got, "got", w)
        /\ a \in FunAt(got, "got", got[t])
    BY <2>1, FunTake
  <2>q. QED BY <2>2 DEF GotAt
<1>b. ASSUME NEW w \in Workers
      PROVE IdleAt(w)' = IF w = v THEN IdleAt(w) \cup {b} ELSE IdleAt(w)
  BY <1>1, SeqPut DEF IdleAt
<1>c. ASSUME NEW w \in Workers
      PROVE WorkerAt(w)' = WorkerAt(w) /\ HandAt(w)' = HandAt(w) /\ WordAt(w)' = WordAt(w)
  BY <1>1 DEF GoIdle, WorkerAt, HandAt, WordAt, FunAt, SeqAt, WordWorker, parkVars
<1>d. ASSUME NEW w \in Workers
      PROVE a \notin IdleAt(w) \cup WorkerAt(w) \cup HandAt(w) \cup WordAt(w)
  BY Kinds
<1>e. v \in Workers
  BY <1>1
<1>f. a \in Places(v)
  BY <1>a, <1>e, PlacesByKind
<1> HIDE DEF v, a, b
<1>g. ASSUME NEW w \in Workers
      PROVE Places(w)' = IF w = v THEN (Places(w) \ {a}) \cup {b} ELSE Places(w)
  <2>1. /\ Places(w) = IdleAt(w) \cup WorkerAt(w) \cup GotAt(w) \cup HandAt(w) \cup WordAt(w)
        /\ Places(w)' = IdleAt(w)' \cup WorkerAt(w)' \cup GotAt(w)' \cup HandAt(w)' \cup WordAt(w)'
    BY PlacesByKind
  <2>2. CASE w = v
    <3>1. /\ GotAt(w)' = GotAt(w) \ {a} /\ IdleAt(w)' = IdleAt(w) \cup {b}
          /\ WorkerAt(w)' = WorkerAt(w) /\ HandAt(w)' = HandAt(w) /\ WordAt(w)' = WordAt(w)
          /\ a \notin IdleAt(w) \cup WorkerAt(w) \cup HandAt(w) \cup WordAt(w)
      BY <1>a, <1>b, <1>c, <1>d, <2>2
    <3>2. ASSUME NEW p
          PROVE p \in Places(w)' <=> p = b \/ (p \in Places(w) /\ p # a)
      BY <2>1, <3>1
    <3>3. Places(w)' = (Places(w) \ {a}) \cup {b}
      BY <3>2
    <3>q. QED BY <2>2, <3>3
  <2>3. CASE w # v
    <3>1. /\ GotAt(w)' = GotAt(w) /\ IdleAt(w)' = IdleAt(w)
          /\ WorkerAt(w)' = WorkerAt(w) /\ HandAt(w)' = HandAt(w) /\ WordAt(w)' = WordAt(w)
      BY <1>a, <1>b, <1>c, <2>3
    <3>q. QED BY <2>1, <2>3, <3>1
  <2>q. QED BY <2>2, <2>3
<1>h. Moves(v, a, b)
  BY <1>e, <1>f, <1>g DEF Moves
<1>q. QED BY <1>h

(* transition_to_running attaches the index. *)
LEMMA MoveTransitionToRunning ==
  ASSUME Typing, LocalInv, NEW t \in Threads, TransitionToRunning(t)
  PROVE \E v, a, b : Moves(v, a, b)
<1> DEFINE v == got[t]
           a == <<"got", t>>
           b == <<"worker", t>>
<1>1. /\ got \in [Threads -> Slot] /\ worker \in [Threads -> Slot]
      /\ got[t] \in Workers /\ worker[t] = NoWorker
      /\ got' = [got EXCEPT ![t] = NoWorker] /\ worker' = [worker EXCEPT ![t] = got[t]]
  BY DEF TransitionToRunning, Typing, IndexTyping, LocalInv, LocalOf, Where, CallPcs,
        Handing, Claiming, Attached, Detached, Blocked
<1>a. ASSUME NEW w \in Workers
      PROVE /\ GotAt(w)' = IF w = v THEN GotAt(w) \ {a} ELSE GotAt(w)
            /\ a \in GotAt(v)
  <2>1. /\ got \in [Threads -> Slot] /\ got[t] \in Workers
        /\ Sets(got, got', t, NoWorker)
    BY <1>1 DEF Sets
  <2>2. /\ FunAt(got', "got", w)
             = IF w = got[t] THEN FunAt(got, "got", w) \ {a} ELSE FunAt(got, "got", w)
        /\ a \in FunAt(got, "got", got[t])
    BY <2>1, FunTake
  <2>q. QED BY <2>2 DEF GotAt
<1>b. ASSUME NEW w \in Workers
      PROVE WorkerAt(w)' = IF w = v THEN WorkerAt(w) \cup {b} ELSE WorkerAt(w)
  <2>1. /\ v \in Workers /\ t \in Threads /\ worker \in [Threads -> Slot] /\ worker[t] = NoWorker
        /\ Sets(worker, worker', t, v)
    BY <1>1 DEF Sets
  <2> HIDE DEF v
  <2>2. FunAt(worker', "worker", w)
          = IF w = v THEN FunAt(worker, "worker", w) \cup {b} ELSE FunAt(worker, "worker", w)
    BY <2>1, FunPut
  <2>q. QED BY <2>2 DEF WorkerAt
<1>c. ASSUME NEW w \in Workers
      PROVE IdleAt(w)' = IdleAt(w) /\ HandAt(w)' = HandAt(w) /\ WordAt(w)' = WordAt(w)
  BY <1>1 DEF TransitionToRunning, IdleAt, HandAt, WordAt, FunAt, SeqAt, WordWorker, parkVars
<1>d. ASSUME NEW w \in Workers
      PROVE a \notin IdleAt(w) \cup WorkerAt(w) \cup HandAt(w) \cup WordAt(w)
  BY Kinds
<1>e. v \in Workers
  BY <1>1
<1>f. a \in Places(v)
  BY <1>a, <1>e, PlacesByKind
<1> HIDE DEF v, a, b
<1>g. ASSUME NEW w \in Workers
      PROVE Places(w)' = IF w = v THEN (Places(w) \ {a}) \cup {b} ELSE Places(w)
  <2>1. /\ Places(w) = IdleAt(w) \cup WorkerAt(w) \cup GotAt(w) \cup HandAt(w) \cup WordAt(w)
        /\ Places(w)' = IdleAt(w)' \cup WorkerAt(w)' \cup GotAt(w)' \cup HandAt(w)' \cup WordAt(w)'
    BY PlacesByKind
  <2>2. CASE w = v
    <3>1. /\ GotAt(w)' = GotAt(w) \ {a} /\ WorkerAt(w)' = WorkerAt(w) \cup {b}
          /\ IdleAt(w)' = IdleAt(w) /\ HandAt(w)' = HandAt(w) /\ WordAt(w)' = WordAt(w)
          /\ a \notin IdleAt(w) \cup WorkerAt(w) \cup HandAt(w) \cup WordAt(w)
      BY <1>a, <1>b, <1>c, <1>d, <2>2
    <3>2. ASSUME NEW p
          PROVE p \in Places(w)' <=> p = b \/ (p \in Places(w) /\ p # a)
      BY <2>1, <3>1
    <3>3. Places(w)' = (Places(w) \ {a}) \cup {b}
      BY <3>2
    <3>q. QED BY <2>2, <3>3
  <2>3. CASE w # v
    <3>1. /\ GotAt(w)' = GotAt(w) /\ WorkerAt(w)' = WorkerAt(w)
          /\ IdleAt(w)' = IdleAt(w) /\ HandAt(w)' = HandAt(w) /\ WordAt(w)' = WordAt(w)
      BY <1>a, <1>b, <1>c, <2>3
    <3>q. QED BY <2>1, <2>3, <3>1
  <2>q. QED BY <2>2, <2>3
<1>h. Moves(v, a, b)
  BY <1>e, <1>f, <1>g DEF Moves
<1>q. QED BY <1>h

(* transition_to_idle detaches it. *)
LEMMA MoveRelease ==
  ASSUME Typing, LocalInv, NEW t \in Threads, Release(t)
  PROVE \E v, a, b : Moves(v, a, b)
<1> DEFINE v == worker[t]
           a == <<"worker", t>>
           b == <<"got", t>>
<1>1. /\ worker \in [Threads -> Slot] /\ got \in [Threads -> Slot]
      /\ worker[t] \in Workers /\ got[t] = NoWorker
      /\ worker' = [worker EXCEPT ![t] = NoWorker] /\ got' = [got EXCEPT ![t] = worker[t]]
  BY DEF Release, Typing, IndexTyping, LocalInv, LocalOf, Where, CallPcs, Handing,
        Claiming, Attached, Detached, Blocked
<1>a. ASSUME NEW w \in Workers
      PROVE /\ WorkerAt(w)' = IF w = v THEN WorkerAt(w) \ {a} ELSE WorkerAt(w)
            /\ a \in WorkerAt(v)
  <2>1. /\ worker \in [Threads -> Slot] /\ worker[t] \in Workers
        /\ Sets(worker, worker', t, NoWorker)
    BY <1>1 DEF Sets
  <2>2. /\ FunAt(worker', "worker", w)
             = IF w = worker[t] THEN FunAt(worker, "worker", w) \ {a} ELSE FunAt(worker, "worker", w)
        /\ a \in FunAt(worker, "worker", worker[t])
    BY <2>1, FunTake
  <2>q. QED BY <2>2 DEF WorkerAt
<1>b. ASSUME NEW w \in Workers
      PROVE GotAt(w)' = IF w = v THEN GotAt(w) \cup {b} ELSE GotAt(w)
  <2>1. /\ v \in Workers /\ t \in Threads /\ got \in [Threads -> Slot] /\ got[t] = NoWorker
        /\ Sets(got, got', t, v)
    BY <1>1 DEF Sets
  <2> HIDE DEF v
  <2>2. FunAt(got', "got", w)
          = IF w = v THEN FunAt(got, "got", w) \cup {b} ELSE FunAt(got, "got", w)
    BY <2>1, FunPut
  <2>q. QED BY <2>2 DEF GotAt
<1>c. ASSUME NEW w \in Workers
      PROVE IdleAt(w)' = IdleAt(w) /\ HandAt(w)' = HandAt(w) /\ WordAt(w)' = WordAt(w)
  BY <1>1 DEF Release, IdleAt, HandAt, WordAt, FunAt, SeqAt, WordWorker, parkVars
<1>d. ASSUME NEW w \in Workers
      PROVE a \notin IdleAt(w) \cup GotAt(w) \cup HandAt(w) \cup WordAt(w)
  BY Kinds
<1>e. v \in Workers
  BY <1>1
<1>f. a \in Places(v)
  BY <1>a, <1>e, PlacesByKind
<1> HIDE DEF v, a, b
<1>g. ASSUME NEW w \in Workers
      PROVE Places(w)' = IF w = v THEN (Places(w) \ {a}) \cup {b} ELSE Places(w)
  <2>1. /\ Places(w) = IdleAt(w) \cup WorkerAt(w) \cup GotAt(w) \cup HandAt(w) \cup WordAt(w)
        /\ Places(w)' = IdleAt(w)' \cup WorkerAt(w)' \cup GotAt(w)' \cup HandAt(w)' \cup WordAt(w)'
    BY PlacesByKind
  <2>2. CASE w = v
    <3>1. /\ WorkerAt(w)' = WorkerAt(w) \ {a} /\ GotAt(w)' = GotAt(w) \cup {b}
          /\ IdleAt(w)' = IdleAt(w) /\ HandAt(w)' = HandAt(w) /\ WordAt(w)' = WordAt(w)
          /\ a \notin IdleAt(w) \cup GotAt(w) \cup HandAt(w) \cup WordAt(w)
      BY <1>a, <1>b, <1>c, <1>d, <2>2
    <3>2. ASSUME NEW p
          PROVE p \in Places(w)' <=> p = b \/ (p \in Places(w) /\ p # a)
      BY <2>1, <3>1
    <3>3. Places(w)' = (Places(w) \ {a}) \cup {b}
      BY <3>2
    <3>q. QED BY <2>2, <3>3
  <2>3. CASE w # v
    <3>1. /\ WorkerAt(w)' = WorkerAt(w) /\ GotAt(w)' = GotAt(w)
          /\ IdleAt(w)' = IdleAt(w) /\ HandAt(w)' = HandAt(w) /\ WordAt(w)' = WordAt(w)
      BY <1>a, <1>b, <1>c, <2>3
    <3>q. QED BY <2>1, <2>3, <3>1
  <2>q. QED BY <2>2, <2>3
<1>h. Moves(v, a, b)
  BY <1>e, <1>f, <1>g DEF Moves
<1>q. QED BY <1>h

(* A new thread is given the index. *)
LEMMA MoveSpawnThread ==
  ASSUME Typing, LocalInv, NEW t \in Threads, SpawnThread(t)
  PROVE \E v, a, b : Moves(v, a, b)
<1>p. PICK p \in Pool : /\ pc[p] = "off"
                         /\ got' = [got EXCEPT ![p] = hand[t]]
                         /\ hand' = [hand EXCEPT ![t] = NoWorker]
                         /\ word' = [word EXCEPT ![p] = Empty]
  BY DEF SpawnThread
<1> DEFINE v == hand[t]
           a == <<"hand", t>>
           b == <<"got", p>>
<1>1. /\ hand \in [Threads -> Slot] /\ got \in [Threads -> Slot]
      /\ hand[t] \in Workers /\ got[p] = NoWorker /\ p \in Threads
      /\ hand' = [hand EXCEPT ![t] = NoWorker] /\ got' = [got EXCEPT ![p] = hand[t]]
  BY <1>p DEF SpawnThread, Threads, Typing, IndexTyping, LocalInv, LocalOf, Where,
        CallPcs, Handing, Claiming, Attached, Detached, Blocked
<1>2. WordWorker' = WordWorker
  <2>1. word[p].worker = NoWorker /\ p \in Threads /\ word \in [Threads -> Words]
    BY <1>p, <1>1 DEF Typing, IndexTyping, LocalInv, LocalOf, Where, CallPcs, Handing,
          Claiming, Attached, Detached, Blocked
  <2>2. \A x \in Threads : word'[x].worker = word[x].worker
    BY <1>p, <2>1, WordFacts
  <2>q. QED BY <2>2 DEF WordWorker
<1>a. ASSUME NEW w \in Workers
      PROVE /\ HandAt(w)' = IF w = v THEN HandAt(w) \ {a} ELSE HandAt(w)
            /\ a \in HandAt(v)
  <2>1. /\ hand \in [Threads -> Slot] /\ hand[t] \in Workers
        /\ Sets(hand, hand', t, NoWorker)
    BY <1>1 DEF Sets
  <2>2. /\ FunAt(hand', "hand", w)
             = IF w = hand[t] THEN FunAt(hand, "hand", w) \ {a} ELSE FunAt(hand, "hand", w)
        /\ a \in FunAt(hand, "hand", hand[t])
    BY <2>1, FunTake
  <2>q. QED BY <2>2 DEF HandAt
<1>b. ASSUME NEW w \in Workers
      PROVE GotAt(w)' = IF w = v THEN GotAt(w) \cup {b} ELSE GotAt(w)
  <2>1. /\ v \in Workers /\ p \in Threads /\ got \in [Threads -> Slot] /\ got[p] = NoWorker
        /\ Sets(got, got', p, v)
    BY <1>1 DEF Sets
  <2> HIDE DEF v
  <2>2. FunAt(got', "got", w)
          = IF w = v THEN FunAt(got, "got", w) \cup {b} ELSE FunAt(got, "got", w)
    BY <2>1, FunPut
  <2>q. QED BY <2>2 DEF GotAt
<1>c. ASSUME NEW w \in Workers
      PROVE IdleAt(w)' = IdleAt(w) /\ WorkerAt(w)' = WorkerAt(w) /\ WordAt(w)' = WordAt(w)
  BY <1>1, <1>2 DEF SpawnThread, execVars, IdleAt, WorkerAt, WordAt
<1>d. ASSUME NEW w \in Workers
      PROVE a \notin IdleAt(w) \cup WorkerAt(w) \cup GotAt(w) \cup WordAt(w)
  BY Kinds
<1>e. v \in Workers
  BY <1>1
<1>f. a \in Places(v)
  BY <1>a, <1>e, PlacesByKind
<1> HIDE DEF v, a, b
<1>g. ASSUME NEW w \in Workers
      PROVE Places(w)' = IF w = v THEN (Places(w) \ {a}) \cup {b} ELSE Places(w)
  <2>1. /\ Places(w) = IdleAt(w) \cup WorkerAt(w) \cup GotAt(w) \cup HandAt(w) \cup WordAt(w)
        /\ Places(w)' = IdleAt(w)' \cup WorkerAt(w)' \cup GotAt(w)' \cup HandAt(w)' \cup WordAt(w)'
    BY PlacesByKind
  <2>2. CASE w = v
    <3>1. /\ HandAt(w)' = HandAt(w) \ {a} /\ GotAt(w)' = GotAt(w) \cup {b}
          /\ IdleAt(w)' = IdleAt(w) /\ WorkerAt(w)' = WorkerAt(w) /\ WordAt(w)' = WordAt(w)
          /\ a \notin IdleAt(w) \cup WorkerAt(w) \cup GotAt(w) \cup WordAt(w)
      BY <1>a, <1>b, <1>c, <1>d, <2>2
    <3>2. ASSUME NEW q
          PROVE q \in Places(w)' <=> q = b \/ (q \in Places(w) /\ q # a)
      BY <2>1, <3>1
    <3>3. Places(w)' = (Places(w) \ {a}) \cup {b}
      BY <3>2
    <3>q. QED BY <2>2, <3>3
  <2>3. CASE w # v
    <3>1. /\ HandAt(w)' = HandAt(w) /\ GotAt(w)' = GotAt(w)
          /\ IdleAt(w)' = IdleAt(w) /\ WorkerAt(w)' = WorkerAt(w) /\ WordAt(w)' = WordAt(w)
      BY <1>a, <1>b, <1>c, <2>3
    <3>q. QED BY <2>1, <2>3, <3>1
  <2>q. QED BY <2>2, <2>3
<1>h. Moves(v, a, b)
  BY <1>e, <1>f, <1>g DEF Moves
<1>q. QED BY <1>h

(* unpark hands the index to a parked thread. *)
LEMMA MoveUnparkSome ==
  ASSUME Typing, LocalInv, NEW t \in Threads, UnparkSome(t), tgt[t] # NoThread,
         word[tgt[t]].tag \notin {"Empty", "Notified"}
  PROVE \E v, a, b : Moves(v, a, b)
<1> DEFINE u == tgt[t]
<1> DEFINE v == hand[t]
           a == <<"hand", t>>
           b == <<"word", u>>
<1>1. /\ hand \in [Threads -> Slot] /\ hand[t] \in Workers
      /\ hand' = [hand EXCEPT ![t] = NoWorker] /\ u \in Threads
      /\ word \in [Threads -> Words] /\ word' = [word EXCEPT ![u] = Notified(hand[t])]
      /\ UNCHANGED <<idle, worker, got>>
  BY DEF UnparkSome, execVars, Typing, IndexTyping, ThreadTyping, LocalInv, LocalOf, Handing
<1>2. /\ WordWorker \in [Threads -> Slot] /\ WordWorker[u] = NoWorker
      /\ Sets(WordWorker, WordWorker', u, hand[t])
  <2>1. word[u].worker = NoWorker /\ \A x \in Threads : word[x].worker \in Slot
    BY <1>1, WordCases
  <2>2. Notified(hand[t]).worker = hand[t]
    BY <1>1, NotifiedFacts DEF Slot
  <2>q. QED BY <1>1, <2>1, <2>2 DEF WordWorker, Sets
<1>a. ASSUME NEW w \in Workers
      PROVE /\ HandAt(w)' = IF w = v THEN HandAt(w) \ {a} ELSE HandAt(w)
            /\ a \in HandAt(v)
  <2>1. /\ hand \in [Threads -> Slot] /\ hand[t] \in Workers
        /\ Sets(hand, hand', t, NoWorker)
    BY <1>1 DEF Sets
  <2>2. /\ FunAt(hand', "hand", w)
             = IF w = hand[t] THEN FunAt(hand, "hand", w) \ {a} ELSE FunAt(hand, "hand", w)
        /\ a \in FunAt(hand, "hand", hand[t])
    BY <2>1, FunTake
  <2>q. QED BY <2>2 DEF HandAt
<1>b. ASSUME NEW w \in Workers
      PROVE WordAt(w)' = IF w = v THEN WordAt(w) \cup {b} ELSE WordAt(w)
  <2>1. /\ v \in Workers /\ u \in Threads /\ WordWorker \in [Threads -> Slot] /\ WordWorker[u] = NoWorker
        /\ Sets(WordWorker, WordWorker', u, v)
    BY <1>1, <1>2
  <2> HIDE DEF v, u
  <2>2. FunAt(WordWorker', "word", w)
          = IF w = v THEN FunAt(WordWorker, "word", w) \cup {b} ELSE FunAt(WordWorker, "word", w)
    BY <2>1, FunPut
  <2>q. QED BY <2>2 DEF WordAt
<1>c. ASSUME NEW w \in Workers
      PROVE IdleAt(w)' = IdleAt(w) /\ WorkerAt(w)' = WorkerAt(w) /\ GotAt(w)' = GotAt(w)
  BY <1>1 DEF IdleAt, WorkerAt, GotAt
<1>d. ASSUME NEW w \in Workers
      PROVE a \notin IdleAt(w) \cup WorkerAt(w) \cup GotAt(w) \cup WordAt(w)
  BY Kinds
<1>e. v \in Workers
  BY <1>1
<1>f. a \in Places(v)
  BY <1>a, <1>e, PlacesByKind
<1> HIDE DEF v, a, b
<1>g. ASSUME NEW w \in Workers
      PROVE Places(w)' = IF w = v THEN (Places(w) \ {a}) \cup {b} ELSE Places(w)
  <2>1. /\ Places(w) = IdleAt(w) \cup WorkerAt(w) \cup GotAt(w) \cup HandAt(w) \cup WordAt(w)
        /\ Places(w)' = IdleAt(w)' \cup WorkerAt(w)' \cup GotAt(w)' \cup HandAt(w)' \cup WordAt(w)'
    BY PlacesByKind
  <2>2. CASE w = v
    <3>1. /\ HandAt(w)' = HandAt(w) \ {a} /\ WordAt(w)' = WordAt(w) \cup {b}
          /\ IdleAt(w)' = IdleAt(w) /\ WorkerAt(w)' = WorkerAt(w) /\ GotAt(w)' = GotAt(w)
          /\ a \notin IdleAt(w) \cup WorkerAt(w) \cup GotAt(w) \cup WordAt(w)
      BY <1>a, <1>b, <1>c, <1>d, <2>2
    <3>2. ASSUME NEW p
          PROVE p \in Places(w)' <=> p = b \/ (p \in Places(w) /\ p # a)
      BY <2>1, <3>1
    <3>3. Places(w)' = (Places(w) \ {a}) \cup {b}
      BY <3>2
    <3>q. QED BY <2>2, <3>3
  <2>3. CASE w # v
    <3>1. /\ HandAt(w)' = HandAt(w) /\ WordAt(w)' = WordAt(w)
          /\ IdleAt(w)' = IdleAt(w) /\ WorkerAt(w)' = WorkerAt(w) /\ GotAt(w)' = GotAt(w)
      BY <1>a, <1>b, <1>c, <2>3
    <3>q. QED BY <2>1, <2>3, <3>1
  <2>q. QED BY <2>2, <2>3
<1>h. Moves(v, a, b)
  BY <1>e, <1>f, <1>g DEF Moves
<1>q. QED BY <1>h

(* A parked thread finds the index it was handed. *)
LEMMA MoveParkNotified ==
  ASSUME Typing, LocalInv, NEW t \in Threads, ParkNotified(t), word[t].worker \in Workers
  PROVE \E v, a, b : Moves(v, a, b)
<1> DEFINE v == WordWorker[t]
           a == <<"word", t>>
           b == <<"got", t>>
<1>1. /\ got \in [Threads -> Slot] /\ got[t] = NoWorker
      /\ got' = [got EXCEPT ![t] = word[t].worker]
      /\ word \in [Threads -> Words] /\ word' = [word EXCEPT ![t] = Empty]
      /\ UNCHANGED <<idle, worker, hand>>
  BY DEF ParkNotified, PollUnparked, execVars, Typing, IndexTyping, LocalInv, LocalOf,
        Where, CallPcs, Handing, Claiming, Attached, Detached, Blocked
<1>2. /\ WordWorker \in [Threads -> Slot] /\ WordWorker[t] = word[t].worker
      /\ WordWorker[t] \in Workers /\ Sets(WordWorker, WordWorker', t, NoWorker)
  <2>1. \A x \in Threads : word[x].worker \in Slot
    BY <1>1, WordCases
  <2>q. QED BY <1>1, <2>1, WordFacts DEF WordWorker, Sets
<1>a. ASSUME NEW w \in Workers
      PROVE /\ WordAt(w)' = IF w = v THEN WordAt(w) \ {a} ELSE WordAt(w)
            /\ a \in WordAt(v)
  <2>1. /\ WordWorker \in [Threads -> Slot] /\ WordWorker[t] \in Workers
        /\ Sets(WordWorker, WordWorker', t, NoWorker)
    BY <1>2
  <2>2. /\ FunAt(WordWorker', "word", w)
             = IF w = WordWorker[t] THEN FunAt(WordWorker, "word", w) \ {a} ELSE FunAt(WordWorker, "word", w)
        /\ a \in FunAt(WordWorker, "word", WordWorker[t])
    BY <2>1, FunTake
  <2>q. QED BY <2>2 DEF WordAt
<1>b. ASSUME NEW w \in Workers
      PROVE GotAt(w)' = IF w = v THEN GotAt(w) \cup {b} ELSE GotAt(w)
  <2>1. /\ v \in Workers /\ t \in Threads /\ got \in [Threads -> Slot] /\ got[t] = NoWorker
        /\ Sets(got, got', t, v)
    BY <1>1, <1>2 DEF Sets
  <2> HIDE DEF v
  <2>2. FunAt(got', "got", w)
          = IF w = v THEN FunAt(got, "got", w) \cup {b} ELSE FunAt(got, "got", w)
    BY <2>1, FunPut
  <2>q. QED BY <2>2 DEF GotAt
<1>c. ASSUME NEW w \in Workers
      PROVE IdleAt(w)' = IdleAt(w) /\ WorkerAt(w)' = WorkerAt(w) /\ HandAt(w)' = HandAt(w)
  BY <1>1 DEF IdleAt, WorkerAt, HandAt
<1>d. ASSUME NEW w \in Workers
      PROVE a \notin IdleAt(w) \cup WorkerAt(w) \cup GotAt(w) \cup HandAt(w)
  BY Kinds
<1>e. v \in Workers
  BY <1>2
<1>f. a \in Places(v)
  BY <1>a, <1>e, PlacesByKind
<1> HIDE DEF v, a, b
<1>g. ASSUME NEW w \in Workers
      PROVE Places(w)' = IF w = v THEN (Places(w) \ {a}) \cup {b} ELSE Places(w)
  <2>1. /\ Places(w) = IdleAt(w) \cup WorkerAt(w) \cup GotAt(w) \cup HandAt(w) \cup WordAt(w)
        /\ Places(w)' = IdleAt(w)' \cup WorkerAt(w)' \cup GotAt(w)' \cup HandAt(w)' \cup WordAt(w)'
    BY PlacesByKind
  <2>2. CASE w = v
    <3>1. /\ WordAt(w)' = WordAt(w) \ {a} /\ GotAt(w)' = GotAt(w) \cup {b}
          /\ IdleAt(w)' = IdleAt(w) /\ WorkerAt(w)' = WorkerAt(w) /\ HandAt(w)' = HandAt(w)
          /\ a \notin IdleAt(w) \cup WorkerAt(w) \cup GotAt(w) \cup HandAt(w)
      BY <1>a, <1>b, <1>c, <1>d, <2>2
    <3>2. ASSUME NEW p
          PROVE p \in Places(w)' <=> p = b \/ (p \in Places(w) /\ p # a)
      BY <2>1, <3>1
    <3>3. Places(w)' = (Places(w) \ {a}) \cup {b}
      BY <3>2
    <3>q. QED BY <2>2, <3>3
  <2>3. CASE w # v
    <3>1. /\ WordAt(w)' = WordAt(w) /\ GotAt(w)' = GotAt(w)
          /\ IdleAt(w)' = IdleAt(w) /\ WorkerAt(w)' = WorkerAt(w) /\ HandAt(w)' = HandAt(w)
      BY <1>a, <1>b, <1>c, <2>3
    <3>q. QED BY <2>1, <2>3, <3>1
  <2>q. QED BY <2>2, <2>3
<1>h. Moves(v, a, b)
  BY <1>e, <1>f, <1>g DEF Moves
<1>q. QED BY <1>h

-----------------------------------------------------------------------------
(* The steps that move no index.  A word that is overwritten held none.    *)
LEMMA ExecutorStill ==
  ASSUME NEW t \in Threads, Executor(t),
         ~SearchRetryPop(t), ~NotifyPop(t), ~NotifyGiveBack(t)
  PROVE Still
BY DEF Still, Executor, SearchRetryNone, SearchRetryAdd, NotifySkip, NotifyPending,
       NotifyCas, NotifyDec, SearchBegin, SearchBeginAdd, SearchFailedDec,
       SearchFailedCheck, Discover, execVars, parkVars, localVars

(* The steps of WorkerContext that attach or release no worker. *)
LEMMA WorkerLoopStill ==
  ASSUME Typing, LocalInv, NEW t \in Threads, WorkerLoop(t),
         ~TransitionToRunning(t), ~Release(t), ~GoIdle(t)
  PROVE Still
<1>1. CASE Exit(t)
  <2>1. /\ word \in [Threads -> Words] /\ word' = [word EXCEPT ![t] = Empty]
        /\ word[t].worker = NoWorker
    BY <1>1 DEF Exit, Typing, IndexTyping, LocalInv, LocalOf, Where, CallPcs, Blocked
  <2>2. \A x \in Threads : word'[x].worker = word[x].worker
    BY <2>1, WordFacts
  <2>q. QED BY <1>1, <2>2 DEF Exit, Still, execVars
<1>2. CASE ~Exit(t)
  BY <1>2 DEF Still, WorkerLoop, PollFuture, FutureReady, FuturePending, PollEvents,
       Consume, StealFrom, PopLocal, SearchMiss, TaskSuspend, TaskYield, Finish, Woken,
       PopInject, Inject, execVars, parkVars, localVars
<1>q. QED BY <1>1, <1>2

(* The steps of the application, of clocks and of sockets. *)
LEMMA EnvironmentStill ==
  ASSUME Typing, LocalInv, NEW t \in Threads, Environment(t)
  PROVE Still
<1>1. CASE BlockOn(t)
  <2>1. /\ word \in [Threads -> Words] /\ word' = [word EXCEPT ![t] = Empty]
        /\ word[t].worker = NoWorker
    BY <1>1 DEF BlockOn, Typing, IndexTyping, LocalInv, LocalOf, Where, CallPcs, Blocked
  <2>2. \A x \in Threads : word'[x].worker = word[x].worker
    BY <2>1, WordFacts
  <2>q. QED BY <1>1, <2>2 DEF BlockOn, Still, execVars, localVars
<1>2. CASE WaitTimeout(t) \/ SelectReturn(t)
  <2>1. /\ word \in [Threads -> Words] /\ word' = [word EXCEPT ![t] = Empty]
        /\ word[t].worker = NoWorker
    BY <1>2, WordFacts DEF WaitTimeout, SelectReturn, Typing, IndexTyping
  <2>2. \A x \in Threads : word'[x].worker = word[x].worker
    BY <2>1, WordFacts
  <2>q. QED BY <1>2, <2>2 DEF WaitTimeout, SelectReturn, Still, execVars, localVars
<1>3. CASE Schedule(t) \/ \E u \in Users : WakeFuture(t, u)
  BY <1>3 DEF Still, Schedule, WakeFuture, execVars, parkVars, localVars
<1>q. QED BY <1>1, <1>2, <1>3 DEF Environment

(* The steps of ThreadPool and Parker that hand over no worker. *)
LEMMA ThreadPoolStill ==
  ASSUME Typing, LocalInv, NEW t \in Threads, ThreadPool(t), ~SpawnThread(t),
         ~(UnparkSome(t) /\ tgt[t] # NoThread /\ word[tgt[t]].tag \notin {"Empty", "Notified"}),
         ~(ParkNotified(t) /\ word[t].worker \in Workers)
  PROVE Still
<1> USE DEF Still, execVars, parkVars, localVars
<1>w. word \in [Threads -> Words] /\ got \in [Threads -> Slot]
  BY DEF Typing, IndexTyping
<1>1. CASE SpawnIdle(t) \/ SpawnReserve(t) \/ SpawnError(t) \/ WaitPush(t) \/ Unlist(t)
  BY <1>1 DEF SpawnIdle, SpawnReserve, SpawnError, WaitPush, Unlist
<1>2. CASE UnparkSome(t)
  BY <1>2 DEF UnparkSome
<1>3. CASE UnparkNone(t)
  <2>1. \A x \in Threads :
          word'[x] = word[x] \/ (word[x].tag # "Notified" /\ word'[x] = Notified(NoWorker))
    BY <1>3 DEF UnparkNone
  <2>2. Notified(NoWorker).worker = NoWorker
    BY NotifiedFacts DEF Slot
  <2>3. \A x \in Threads : word'[x].worker = word[x].worker
    BY <1>w, <2>1, <2>2, WordCases
  <2>q. QED BY <1>3, <2>3 DEF UnparkNone
<1>4. CASE Park(t)
  <2>1. \A x \in Threads : word'[x] = word[x] \/ (word[x].tag # "Notified" /\ word'[x] \in {Waiting, Polling})
    BY <1>w, <1>4 DEF Park
  <2>2. \A x \in Threads : word'[x].worker = word[x].worker
    BY <1>w, <2>1, WordCases, WordFacts
  <2>q. QED BY <1>4, <2>2 DEF Park
<1>5. CASE WaitNotified(t) \/ ParkNotified(t)
  <2>1. /\ got' = [got EXCEPT ![t] = word[t].worker] /\ word' = [word EXCEPT ![t] = Empty]
        /\ UNCHANGED <<idle, worker, hand>>
    BY <1>5 DEF WaitNotified, ParkNotified, PollUnparked
  <2>2. word[t].worker = NoWorker
    <3>1. CASE WaitNotified(t)
      BY <3>1 DEF WaitNotified, LocalInv, LocalOf, Where, CallPcs, Blocked
    <3>2. CASE ParkNotified(t)
      BY <1>w, <3>2, WordCases DEF Slot
    <3>q. QED BY <1>5, <3>1, <3>2
  <2>3. got[t] = NoWorker
    BY <1>5 DEF WaitNotified, ParkNotified, LocalInv, LocalOf, Where, CallPcs, Claiming
  <2>4. got' = got
    BY <1>w, <2>1, <2>2, <2>3
  <2>5. \A x \in Threads : word'[x].worker = word[x].worker
    BY <1>w, <2>1, <2>2, WordFacts
  <2>q. QED BY <2>1, <2>4, <2>5
<1>q. QED BY <1>1, <1>2, <1>3, <1>4, <1>5 DEF ThreadPool

(* Every step keeps every worker index in exactly one place. *)
LEMMA ConservationStep ==
  Typing /\ LocalInv /\ WorkerConservation /\ [Next]_vars => WorkerConservation'
<1> SUFFICES ASSUME Typing, LocalInv, WorkerConservation, [Next]_vars
             PROVE WorkerConservation'
  OBVIOUS
<1>1. ASSUME NEW t \in Threads, Executor(t) PROVE WorkerConservation'
  <2>1. CASE SearchRetryPop(t)
    BY <2>1, MoveSearchRetryPop, MoveConserves
  <2>2. CASE NotifyPop(t)
    <3>1. CASE IdlePop /\ hand' = [hand EXCEPT ![t] = IdleTop]
      BY <2>2, <3>1, MoveNotifyPop, MoveConserves
    <3>2. CASE UNCHANGED <<idle, pending, hand>>
      <4>1. Still
        BY <2>2, <3>2 DEF Still, NotifyPop, parkVars
      <4>q. QED BY <4>1, StillConserves
    <3>q. QED BY <2>2, <3>1, <3>2 DEF NotifyPop
  <2>3. CASE NotifyGiveBack(t)
    BY <2>3, MoveNotifyGiveBack, MoveConserves
  <2>q. QED BY <1>1, <2>1, <2>2, <2>3, ExecutorStill, StillConserves
<1>2. ASSUME NEW t \in Threads, ThreadPool(t) PROVE WorkerConservation'
  <2>1. CASE SpawnThread(t)
    BY <2>1, MoveSpawnThread, MoveConserves
  <2>2. CASE UnparkSome(t) /\ tgt[t] # NoThread /\ word[tgt[t]].tag \notin {"Empty", "Notified"}
    BY <2>2, MoveUnparkSome, MoveConserves
  <2>3. CASE ParkNotified(t) /\ word[t].worker \in Workers
    BY <2>3, MoveParkNotified, MoveConserves
  <2>q. QED BY <1>2, <2>1, <2>2, <2>3, ThreadPoolStill, StillConserves
<1>3. ASSUME NEW t \in Threads, WorkerLoop(t) PROVE WorkerConservation'
  <2>1. CASE TransitionToRunning(t)
    BY <2>1, MoveTransitionToRunning, MoveConserves
  <2>2. CASE Release(t)
    BY <2>2, MoveRelease, MoveConserves
  <2>3. CASE GoIdle(t)
    BY <2>3, MoveGoIdle, MoveConserves
  <2>q. QED BY <1>3, <2>1, <2>2, <2>3, WorkerLoopStill, StillConserves
<1>4. ASSUME NEW t \in Threads, Environment(t) PROVE WorkerConservation'
  BY <1>4, EnvironmentStill, StillConserves
<1>5. CASE UNCHANGED vars
  <2>1. Still
    BY <1>5 DEF Still, vars, execVars, parkVars, localVars
  <2>q. QED BY <2>1, StillConserves
<1>q. QED BY <1>1, <1>2, <1>3, <1>4, <1>5 DEF Next

(* At the start every index is in the idle queue once. *)
LEMMA ConservationInit == Init => WorkerConservation
<1> SUFFICES ASSUME Init, NEW w \in Workers
             PROVE \E p \in Places(w) : Places(w) = {p}
  BY DEF WorkerConservation
<1>1. /\ Len(idle) = NumWorkers /\ w + 1 \in 1 .. NumWorkers
      /\ \A i \in 1 .. NumWorkers : idle[i] = i - 1
  BY SchedulerAssumption DEF Init, Workers
<1>2. {j \in 1 .. Len(idle) : idle[j] = w} = {w + 1}
  BY <1>1, SchedulerAssumption DEF Workers
<1>3. IdleAt(w) = {<<"idle", w + 1>>}
  BY <1>2 DEF IdleAt, SeqAt
<1>4. /\ \A u \in Threads : worker[u] # w /\ got[u] # w /\ hand[u] # w /\ WordWorker[u] # w
  BY NoWorkerIsNoWorker, WordFacts DEF Init, WordWorker
<1>5. WorkerAt(w) = {} /\ GotAt(w) = {} /\ HandAt(w) = {} /\ WordAt(w) = {}
  BY <1>4 DEF WorkerAt, GotAt, HandAt, WordAt, FunAt
<1>6. Places(w) = {<<"idle", w + 1>>}
  BY <1>3, <1>5, PlacesByKind
<1>q. QED BY <1>6

(* However many threads notify, park, time out, are created, fail to be    *)
(* created and exit, every worker index is in exactly one place: none is   *)
(* lost and no two threads ever own the same worker.                       *)
THEOREM WorkersAreConserved == Spec => []WorkerConservation
<1>q. QED BY ConservationInit, ConservationStep, LocalInvariant, PTL DEF Spec

(* No two threads are attached to one worker: they never share a Producer  *)
(* of a run queue, which only one thread may push to.                      *)
THEOREM WorkersAreExclusive ==
  Spec => [](\A t, u \in Threads : worker[t] = worker[u] /\ worker[t] # NoWorker => t = u)
<1> DEFINE Exclusive ==
      \A t, u \in Threads : worker[t] = worker[u] /\ worker[t] # NoWorker => t = u
<1>1. Typing /\ WorkerConservation => Exclusive
  <2> SUFFICES ASSUME Typing, WorkerConservation, NEW t \in Threads, NEW u \in Threads,
                      worker[t] = worker[u], worker[t] # NoWorker
               PROVE t = u
    OBVIOUS
  <2>1. worker[t] \in Workers
    BY DEF Typing, IndexTyping, Slot
  <2>2. <<"worker", t>> \in Places(worker[t]) /\ <<"worker", u>> \in Places(worker[t])
    BY DEF Places
  <2>3. <<"worker", t>> = <<"worker", u>>
    BY <2>1, <2>2 DEF WorkerConservation
  <2>q. QED BY <2>3
<1>q. QED BY <1>1, WorkersAreConserved, LocalInvariant, PTL
-----------------------------------------------------------------------------
(* Every notification of a Parker is taken by its thread, together with    *)
(* the worker it carries: no timeout, second unpark or poll drops it.      *)
THEOREM NotificationsAreTaken == Spec => NotificationTaken
<1> DEFINE Taken(u) ==
      word[u].tag = "Notified" /\ word'[u] # word[u] =>
         /\ word'[u] = Empty
         /\ \/ /\ got'[u] = word[u].worker
               /\ pc'[u] \in (IF got'[u] = NoWorker THEN {"unlist", "woken"}
                              ELSE {"attach", "pop_inject"})
            \/ word[u].worker = NoWorker /\ pc[u] \in {"exit", "out", "off"}
<1>1. ASSUME Typing, LocalInv, [Next]_vars, NEW u \in Threads PROVE Taken(u)
  <2>a. word \in [Threads -> Words] /\ got \in [Threads -> Slot] /\ pc \in [Threads -> Pcs]
    BY <1>1 DEF Typing, IndexTyping, ThreadTyping
  <2>b. ASSUME NEW x \in Threads, pc[x] \in {"exit", "out", "off"} PROVE word[x].worker = NoWorker
    <3>1. Where(x) = pc[x] /\ pc[x] \notin Blocked \cup {"panic"}
      BY <2>b DEF Where, CallPcs, Blocked
    <3>q. QED BY <1>1, <3>1 DEF LocalInv, LocalOf
  <2>c. Waiting.tag # "Notified" /\ Polling.tag # "Notified" BY DEF Waiting, Polling
  <2>1. CASE UNCHANGED word BY <2>1
  <2>2. ASSUME NEW t \in Threads, Executor(t) PROVE UNCHANGED word
    BY <2>2 DEF Executor, parkVars, SearchRetryPop, SearchRetryNone, SearchRetryAdd, NotifySkip,
       NotifyPending, NotifyCas, NotifyPop, NotifyGiveBack, NotifyDec, SearchBegin,
       SearchBeginAdd, SearchFailedDec, SearchFailedCheck, Discover
  <2>3. ASSUME NEW t \in Threads, ThreadPool(t) PROVE Taken(u)
    <3>p. ASSUME NEW list, NEW next \in {"woken", "unlist"}, PollUnparked(t, list, next)
          PROVE Taken(u)
      <4>1. /\ got'[t] = word[t].worker /\ word'[t] = Empty
            /\ pc'[t] = IF word[t].worker = NoWorker THEN next
                       ELSE IF list = {} THEN "attach" ELSE "pop_inject"
            /\ \A x \in Threads \ {t} : word'[x] = word[x]
        BY <2>a, <3>p DEF PollUnparked, Goto
      <4>q. QED BY <4>1
    <3>1. CASE SpawnThread(t)
      <4>1. PICK p \in Pool : pc[p] = "off" /\ word' = [word EXCEPT ![p] = Empty]
        BY <3>1 DEF SpawnThread
      <4>2. p \in Threads BY DEF Threads
      <4>3. word[p].worker = NoWorker BY <2>b, <4>1, <4>2
      <4>q. QED BY <2>a, <4>1, <4>2, <4>3
    <3>2. CASE UnparkSome(t)
      <4>1. word'[u] = word[u] \/ word[u].tag \notin {"Empty", "Notified"}
        BY <2>a, <3>2 DEF UnparkSome
      <4>q. QED BY <4>1
    <3>3. CASE UnparkNone(t)
      <4>1. word'[u] = word[u] \/ word[u].tag # "Notified" BY <3>3 DEF UnparkNone
      <4>q. QED BY <4>1
    <3>4. CASE WaitNotified(t)
      <4>1. PollUnparked(t, {}, "woken") BY <3>4 DEF WaitNotified
      <4>q. QED BY <4>1, <3>p
    <3>5. CASE Park(t)
      <4>1. word'[u] = word[u] \/ word[u].tag # "Notified" BY <2>a, <3>5 DEF Park
      <4>q. QED BY <4>1
    <3>6. CASE ParkNotified(t)
      <4>1. PICK list : PollUnparked(t, list, "unlist") BY <3>6 DEF ParkNotified
      <4>q. QED BY <4>1, <3>p
    <3>7. CASE SpawnIdle(t) \/ SpawnReserve(t) \/ SpawnError(t) \/ WaitPush(t) \/ Unlist(t)
      BY <3>7, <2>1 DEF SpawnIdle, SpawnReserve, SpawnError, WaitPush, Unlist, parkVars
    <3>q. QED BY <2>3, <3>1, <3>2, <3>3, <3>4, <3>5, <3>6, <3>7 DEF ThreadPool
  <2>4. ASSUME NEW t \in Threads, WorkerLoop(t) PROVE Taken(u)
    <3>1. CASE Exit(t)
      <4>1. pc[t] = "exit" /\ word' = [word EXCEPT ![t] = Empty] BY <3>1 DEF Exit
      <4>q. QED BY <2>a, <2>b, <4>1
    <3>2. CASE ~Exit(t)
      <4>1. UNCHANGED word
        BY <2>4, <3>2 DEF WorkerLoop, parkVars, TransitionToRunning, PollFuture, FutureReady,
           FuturePending, PollEvents, Consume, StealFrom, PopLocal, SearchMiss, Release,
           GoIdle, TaskSuspend, TaskYield, Finish, Woken, PopInject, Inject
      <4>q. QED BY <2>1, <4>1
    <3>q. QED BY <3>1, <3>2
  <2>5. ASSUME NEW t \in Threads, Environment(t) PROVE Taken(u)
    <3>1. CASE BlockOn(t)
      <4>1. pc[t] = "out" /\ word' = [word EXCEPT ![t] = Empty] BY <3>1 DEF BlockOn
      <4>q. QED BY <2>a, <2>b, <4>1
    <3>2. CASE WaitTimeout(t)
      <4>1. word[t] = Waiting /\ word' = [word EXCEPT ![t] = Empty] BY <3>2 DEF WaitTimeout
      <4>q. QED BY <2>a, <2>c, <4>1
    <3>3. CASE SelectReturn(t)
      <4>1. word[t] = Polling /\ word' = [word EXCEPT ![t] = Empty] BY <3>3 DEF SelectReturn
      <4>q. QED BY <2>a, <2>c, <4>1
    <3>4. CASE Schedule(t) BY <3>4, <2>1 DEF Schedule, parkVars
    <3>5. ASSUME NEW v \in Users, WakeFuture(t, v) PROVE Taken(u)
      BY <3>5, <2>1 DEF WakeFuture
    <3>q. QED BY <2>5, <3>1, <3>2, <3>3, <3>4, <3>5 DEF Environment
  <2>6. CASE UNCHANGED vars BY <2>1, <2>6 DEF vars, parkVars
  <2>q. QED BY <1>1, <2>1, <2>2, <2>3, <2>4, <2>5, <2>6 DEF Next
<1>2. ASSUME Typing, LocalInv, [Next]_vars PROVE [\A u \in Threads : Taken(u)]_vars
  BY <1>1, <1>2
<1>q. QED BY <1>2, LocalInvariant, PTL DEF Spec, NotificationTaken
-----------------------------------------------------------------------------
(* Where a thread polls its future, the future is running or was woken     *)
(* while it ran.                                                           *)
PolledOf(u) == Where(u) = "polling" => fut[u] \in {"RUNNING", "NOTIFIED"}

PolledInv == \A u \in Threads : PolledOf(u)

(* What WakeUnderWay says of one thread. *)
WakeOf(u) ==
  /\ fut'[u] = "SCHEDULED"
  /\ fut[u] \in {"NONE", "IDLE"} \/ (fut[u] = "SCHEDULED" /\ UnderWay(u))
  => UnderWay(u)' \/ pc'[u] = "panic"

(* Every step of every thread t keeps a wake of u under way. *)
LEMMA WakeStep ==
  ASSUME Typing, LocalInv, PolledInv, [Next]_vars, NEW u \in Threads
  PROVE  PolledOf(u)' /\ (u \in Users => WakeOf(u))
<1> DEFINE Kept(x) == PolledOf(x)' /\ (x \in Users => WakeOf(x))
<1>a. /\ \A x \in Threads : pc[x] \in CallPcs => cont[x] \in Returns
      /\ \A x \in Threads : pc[x] = "retry" => cont[x] \in {"poll", "wait", "inject"}
      /\ \A x \in Threads : pc[x] = "to_idle" => flag[x] \/ cont[x] \in {"wait", "exit"}
  BY DEF LocalInv, LocalOf
<1>b. /\ pc \in [Threads -> Pcs] /\ cont \in [Threads -> Pcs]
      /\ fut \in [Threads -> {"NONE", "IDLE", "SCHEDULED", "RUNNING", "NOTIFIED"}]
      /\ tgt \in [Threads -> Threads \cup {NoThread}]
      /\ held \in [Threads -> Tasks \cup {NoTask}] /\ word \in [Threads -> Words]
      /\ NoTask \notin Tasks /\ NoThread \notin Threads
  BY SchedulerAssumption DEF Typing, IndexTyping, ThreadTyping, TaskTyping
<1>c. PolledOf(u) BY DEF PolledInv
<1> USE <1>a, <1>b, <1>c
    DEF PolledOf, WakeOf, UnderWay, OnItsWay, Where, CallPcs, Returns, execVars,
        queueVars, poolVars, parkVars, localVars, Goto
<1>1. ASSUME NEW t \in Threads, Executor(t) PROVE Kept(u)
  <2>1. CASE SearchRetryPop(t)
    BY <2>1 DEF SearchRetryPop
  <2>2. CASE SearchRetryNone(t)
    <3>1. cont[t] \in {"poll", "wait", "inject"}
      BY <2>2 DEF SearchRetryNone
    <3>q. QED BY <2>2, <3>1 DEF SearchRetryNone
  <2>3. CASE SearchRetryAdd(t)
    BY <2>3 DEF SearchRetryAdd
  <2>4. CASE NotifySkip(t)
    BY <2>4 DEF NotifySkip
  <2>5. CASE NotifyPending(t)
    BY <2>5 DEF NotifyPending
  <2>6. CASE NotifyCas(t)
    BY <2>6 DEF NotifyCas
  <2>7. CASE NotifyPop(t)
    BY <2>7 DEF NotifyPop
  <2>8. CASE NotifyGiveBack(t)
    BY <2>8 DEF NotifyGiveBack
  <2>9. CASE NotifyDec(t)
    BY <2>9 DEF NotifyDec
  <2>10. CASE SearchBegin(t)
    BY <2>10 DEF SearchBegin
  <2>11. CASE SearchBeginAdd(t)
    BY <2>11 DEF SearchBeginAdd
  <2>12. CASE SearchFailedDec(t)
    BY <2>12 DEF SearchFailedDec
  <2>13. CASE SearchFailedCheck(t)
    BY <2>13 DEF SearchFailedCheck
  <2>14. CASE Discover(t)
    BY <2>14 DEF Discover, Dispatch
  <2>q. QED BY <1>1, <2>1, <2>2, <2>3, <2>4, <2>5, <2>6, <2>7, <2>8, <2>9, <2>10, <2>11,
        <2>12, <2>13, <2>14 DEF Executor
<1>2. ASSUME NEW t \in Threads, ThreadPool(t) PROVE Kept(u)
  <2>1. CASE SpawnIdle(t)
    BY <2>1 DEF SpawnIdle
  <2>2. CASE SpawnReserve(t)
    BY <2>2 DEF SpawnReserve
  <2>3. CASE SpawnThread(t)
    BY <2>3 DEF SpawnThread, Threads
  <2>4. CASE SpawnError(t)
    BY <2>4 DEF SpawnError
  <2>5. CASE UnparkSome(t)
    BY <2>5 DEF UnparkSome
  <2>6. CASE UnparkNone(t)
    <3>1. /\ pc[t] = "unpark_none" /\ pc'[t] = cont[t] /\ UNCHANGED <<fut, cont, held>>
          /\ \A x \in Threads \ {t} : pc'[x] = pc[x] /\ tgt'[x] = tgt[x]
          /\ word[u].tag = "Notified" \/ tgt[t] = u => word'[u].tag = "Notified"
      BY <2>6 DEF UnparkNone, Notified
    <3>2. Where(u)' = Where(u) BY <3>1
    <3>3. UnderWay(u) => UnderWay(u)'
      <4>1. CASE OnItsWay(u) BY <3>1, <3>2, <4>1
      <4>2. CASE word[u].tag = "Notified" BY <3>1, <4>2
      <4>3. ASSUME NEW x \in Threads, pc[x] = "unpark_none", tgt[x] = u PROVE UnderWay(u)'
        BY <3>1, <4>3
      <4>q. QED BY <4>1, <4>2, <4>3
    <3>q. QED BY <3>1, <3>2, <3>3
  <2>7. CASE WaitNotified(t)
    BY <2>7 DEF WaitNotified, PollUnparked
  <2>8. CASE WaitPush(t)
    BY <2>8 DEF WaitPush
  <2>9. CASE Park(t)
    BY <2>9 DEF Park
  <2>10. CASE ParkNotified(t)
    BY <2>10 DEF ParkNotified, PollUnparked
  <2>11. CASE Unlist(t)
    BY <2>11 DEF Unlist
  <2>q. QED BY <1>2, <2>1, <2>2, <2>3, <2>4, <2>5, <2>6, <2>7, <2>8, <2>9, <2>10, <2>11
        DEF ThreadPool
<1>3. ASSUME NEW t \in Threads, WorkerLoop(t) PROVE Kept(u)
  <2>1. CASE TransitionToRunning(t)
    BY <2>1 DEF TransitionToRunning
  <2>2. CASE PollFuture(t)
    BY <2>2 DEF PollFuture, Found, AfterPoll
  <2>3. CASE FutureReady(t)
    BY <2>3 DEF FutureReady, Found
  <2>4. CASE FuturePending(t)
    BY <2>4 DEF FuturePending, AfterPoll
  <2>5. CASE PollEvents(t)
    BY <2>5 DEF PollEvents, PopAndInject, Found
  <2>6. CASE Consume(t)
    BY <2>6 DEF Consume, StealBatch, Found
  <2>7. ASSUME NEW v \in Workers, StealFrom(t, v) PROVE Kept(u)
    BY <2>7 DEF StealFrom, StealBatch, Found
  <2>8. CASE PopLocal(t)
    BY <2>8 DEF PopLocal, Found
  <2>9. CASE SearchMiss(t)
    BY <2>9 DEF SearchMiss
  <2>10. CASE Release(t)
    BY <2>10 DEF Release
  <2>11. CASE GoIdle(t)
    BY <2>11 DEF GoIdle
  <2>12. CASE TaskSuspend(t)
    BY <2>12 DEF TaskSuspend
  <2>13. CASE TaskYield(t)
    BY <2>13 DEF TaskYield
  <2>14. CASE Finish(t)
    BY <2>14 DEF Finish
  <2>15. CASE Exit(t)
    BY <2>15 DEF Exit
  <2>16. CASE Woken(t)
    BY <2>16 DEF Woken
  <2>17. CASE PopInject(t)
    BY <2>17 DEF PopInject, PopAndInject
  <2>18. CASE Inject(t)
    BY <2>18 DEF Inject
  <2>q. QED BY <1>3, <2>1, <2>2, <2>3, <2>4, <2>5, <2>6, <2>7, <2>8, <2>9, <2>10, <2>11,
        <2>12, <2>13, <2>14, <2>15, <2>16, <2>17, <2>18 DEF WorkerLoop
<1>4. ASSUME NEW t \in Threads, Environment(t) PROVE Kept(u)
  <2>1. CASE BlockOn(t)
    BY <2>1 DEF BlockOn
  <2>2. CASE Schedule(t)
    BY <2>2 DEF Schedule, InBody
  <2>3. ASSUME NEW v \in Users, WakeFuture(t, v) PROVE Kept(u)
    BY <2>3 DEF WakeFuture, CanWake, InBody
  <2>4. CASE WaitTimeout(t)
    BY <2>4 DEF WaitTimeout
  <2>5. CASE SelectReturn(t)
    BY <2>5 DEF SelectReturn
  <2>q. QED BY <1>4, <2>1, <2>2, <2>3, <2>4, <2>5 DEF Environment
<1>5. CASE UNCHANGED vars BY <1>5 DEF vars
<1>q. QED BY <1>1, <1>2, <1>3, <1>4, <1>5 DEF Next

(* A wake of a block_on future is never lost on its way, for any number of *)
(* threads and wakers: it ends in a poll, or in the panic of the thread    *)
(* that should have polled.                                                *)
THEOREM WakesStayUnderWay == Spec => WakeUnderWay
<1>1. Init => PolledInv
  BY DEF Init, PolledInv, PolledOf, Where, CallPcs
<1>2. Typing /\ LocalInv /\ PolledInv /\ [Next]_vars => PolledInv'
  BY WakeStep DEF PolledInv
<1>3. Typing /\ LocalInv /\ PolledInv /\ [Next]_vars => [\A u \in Users : WakeOf(u)]_vars
  BY WakeStep DEF Threads
<1>4. [][\A u \in Users : WakeOf(u)]_vars => WakeUnderWay
  BY PTL DEF WakeUnderWay, WakeOf
<1>q. QED BY <1>1, <1>2, <1>3, <1>4, LocalInvariant, PTL DEF Spec
=============================================================================
