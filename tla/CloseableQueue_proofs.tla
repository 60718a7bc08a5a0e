------------------------ MODULE CloseableQueue_proofs ------------------------
(***************************************************************************)
(* Theorems about CloseableQueue, for any threads, items and capacity: the *)
(* types, that close leaves no get asleep, that no wake-up is lost, and    *)
(* that the queue implements ClosableFifo.                                 *)
(***************************************************************************)
EXTENDS CloseableQueue, SequenceTheorems, FiniteSetTheorems, TLAPS

--------------------------------------------------------------------------------
(* Every call is one of the three kinds, so its method is never "none".    *)
LEMMA CallKinds ==
  ASSUME NEW c \in Calls
  PROVE  /\ c.mode \in Modes /\ c # Idle
         /\ \/ c.op = "put" /\ c.item \in Items /\ ~c.immediate
            \/ c.op = "get" /\ ~c.immediate
            \/ c.op = "close"
<1>. DEFINE Kind ==
       \/ c.op = "put" /\ c.item \in Items /\ ~c.immediate
       \/ c.op = "get" /\ ~c.immediate
       \/ c.op = "close"
<1>1. CASE c \in PutCalls
  <2>1. c.mode \in Modes /\ Kind /\ c.op = "put" BY <1>1 DEF PutCalls
  <2>. QED BY <2>1 DEF Idle
<1>2. CASE c \in GetCalls
  <2>1. c.mode \in Modes /\ Kind /\ c.op = "get" BY <1>2 DEF GetCalls
  <2>. QED BY <2>1 DEF Idle
<1>3. CASE c \in CloseCalls
  <2>1. c.mode \in Modes /\ Kind /\ c.op = "close" BY <1>3 DEF CloseCalls
  <2>. QED BY <2>1 DEF Idle
<1>. QED BY <1>1, <1>2, <1>3 DEF Calls

(* What a thread may call is a call. *)
LEMMA MayCallCalls == \A t \in Threads : MayCall(t) \subseteq Calls
BY DEF MayCall, Calls

(* A notify wakes none of the threads or some that wait. *)
LEMMA OneOfSubset == ASSUME NEW S, NEW N \in OneOf(S) PROVE N \subseteq S
BY DEF OneOf

(* What is the same for every return: the thread is idle again, those that *)
(* were notified are woken, and the types of phase, call and expired hold. *)
LEMMA LeaveTypes ==
  ASSUME TypeOK, NEW t \in Threads, NEW N, Leave(t, N),
         N \subseteq AtFull("waiting") \union AtEmpty("waiting")
  PROVE  /\ phase' \in [Threads -> {"idle", "waiting", "woken"}]
         /\ call' \in [Threads -> Calls \union {Idle}]
         /\ \A u \in Threads : (phase'[u] = "idle") <=> (call'[u] = Idle)
         /\ expired' \subseteq {u \in Threads : call'[u].mode = "timed"}
<1>1. \A u \in N : u \in Threads /\ phase[u] = "waiting"
  BY DEF AtFull, AtEmpty
<1>2. phase' \in [Threads -> {"idle", "waiting", "woken"}]
  BY DEF TypeOK, Leave
<1>3. call' \in [Threads -> Calls \union {Idle}]
  BY DEF TypeOK, Leave
<1>4. \A u \in Threads : (phase'[u] = "idle") <=> (call'[u] = Idle)
  BY <1>1 DEF TypeOK, Leave
<1>5. expired' \subseteq {u \in Threads : call'[u].mode = "timed"}
  BY DEF TypeOK, Leave
<1>. QED BY <1>2, <1>3, <1>4, <1>5

(* The same for a call that waits, again or for the first time. *)
LEMMA WaitTypes ==
  ASSUME TypeOK, NEW t \in Threads, NEW c \in Calls, Wait(t, c),
         phase[t] = "idle" \/ call[t] = c
  PROVE  /\ phase' \in [Threads -> {"idle", "waiting", "woken"}]
         /\ call' \in [Threads -> Calls \union {Idle}]
         /\ \A u \in Threads : (phase'[u] = "idle") <=> (call'[u] = Idle)
         /\ expired' \subseteq {u \in Threads : call'[u].mode = "timed"}
<1>1. c # Idle BY CallKinds
<1>2. phase' \in [Threads -> {"idle", "waiting", "woken"}]
  BY DEF TypeOK, Wait
<1>3. call' \in [Threads -> Calls \union {Idle}]
  BY DEF TypeOK, Wait
<1>4. \A u \in Threads : (phase'[u] = "idle") <=> (call'[u] = Idle)
  BY <1>1 DEF TypeOK, Wait
<1>5. expired' \subseteq {u \in Threads : call'[u].mode = "timed"}
  BY DEF TypeOK, Wait, Idle
<1>. QED BY <1>2, <1>3, <1>4, <1>5

(* The part of the types that the end of a method can disturb. *)
BufferOK ==
  /\ buffer \in Seq(Items) /\ (MaxSize > 0 => Len(buffer) <= MaxSize)
  /\ closed \in BOOLEAN /\ ended \in BOOLEAN

(* A put enters its item only below the limit. *)
LEMMA PutBuffer ==
  ASSUME BufferOK, ~Full, NEW i \in Items, buffer' = Append(buffer, i),
         UNCHANGED <<closed, ended>>
  PROVE  BufferOK'
<1>1. buffer' \in Seq(Items) /\ Len(buffer') = Len(buffer) + 1
  BY AppendProperties DEF BufferOK
<1>2. MaxSize > 0 => Len(buffer') <= MaxSize
  BY <1>1, QueueAssumption, LenProperties DEF Full, BufferOK
<1>. QED BY <1>1, <1>2 DEF BufferOK

(* A get makes the buffer shorter. *)
LEMMA GetBuffer ==
  ASSUME BufferOK, buffer # <<>>, buffer' = Tail(buffer), UNCHANGED <<closed, ended>>
  PROVE  BufferOK'
<1>1. buffer' \in Seq(Items) /\ Len(buffer') = Len(buffer) - 1
  BY HeadTailProperties DEF BufferOK
<1>2. MaxSize > 0 => Len(buffer') <= MaxSize
  BY <1>1, QueueAssumption, LenProperties DEF BufferOK
<1>. QED BY <1>1, <1>2 DEF BufferOK

(* From the loop on, a method keeps the types. *)
LEMMA LoopTypes ==
  ASSUME TypeOK, NEW t \in Threads, NEW c \in Calls, Loop(t, c),
         phase[t] = "idle" \/ call[t] = c
  PROVE  /\ BufferOK'
         /\ phase' \in [Threads -> {"idle", "waiting", "woken"}]
         /\ call' \in [Threads -> Calls \union {Idle}]
         /\ \A u \in Threads : (phase'[u] = "idle") <=> (call'[u] = Idle)
         /\ expired' \subseteq {u \in Threads : call'[u].mode = "timed"}
<1>. BufferOK BY DEF TypeOK, BufferOK
<1>1. CASE Wait(t, c)
  <2>1. BufferOK' BY <1>1 DEF Wait, BufferOK
  <2>. QED BY <1>1, <2>1, WaitTypes
<1>2. CASE Raise(t)
  <2>1. BufferOK' BY <1>2 DEF Raise, BufferOK
  <2>. QED BY <1>2, <2>1, LeaveTypes DEF Raise
<1>3. CASE (Blocked(c) => c.immediate) /\ c.op = "put" /\ PutItem(t, c)
  <2>1. c.item \in Items /\ ~Full BY <1>3, CallKinds DEF Blocked
  <2>2. BufferOK' BY <1>3, <2>1, PutBuffer DEF PutItem
  <2>3. PICK N \in WokenByPut : Leave(t, N) BY <1>3 DEF PutItem
  <2>4. N \subseteq AtEmpty("waiting") BY OneOfSubset DEF WokenByPut
  <2>. QED BY <2>2, <2>3, <2>4, LeaveTypes
<1>4. CASE GetItem(t)
  <2>1. BufferOK' BY <1>4, GetBuffer DEF GetItem
  <2>2. PICK N \in WokenByGet : Leave(t, N) BY <1>4 DEF GetItem
  <2>3. N \subseteq AtFull("waiting") BY OneOfSubset DEF WokenByGet
  <2>. QED BY <2>1, <2>2, <2>3, LeaveTypes
<1>5. CASE RaiseClosed(t)
  <2>1. BufferOK' BY <1>5 DEF RaiseClosed, BufferOK
  <2>. QED BY <1>5, <2>1, LeaveTypes DEF RaiseClosed
<1>6. CASE Close(t, c)
  <2>1. BufferOK' BY <1>6 DEF Close, BufferOK
  <2>2. PICK N \in WokenByClose(c) : Leave(t, N) BY <1>6 DEF Close
  <2>3. N \subseteq AtFull("waiting") \union AtEmpty("waiting")
    BY DEF WokenByClose
  <2>. QED BY <2>1, <2>2, <2>3, LeaveTypes
<1>. QED BY <1>1, <1>2, <1>3, <1>4, <1>5, <1>6 DEF Loop

(* The types hold: a queue with a limit never exceeds it, whoever waits,   *)
(* gives up, closes or is woken in whatever order.                         *)
THEOREM TypeCorrect == Spec => []TypeOK
<1>1. Init => TypeOK
  <2>. SUFFICES ASSUME Init PROVE TypeOK
    OBVIOUS
  <2>1. buffer \in Seq(Items) /\ (MaxSize > 0 => Len(buffer) <= MaxSize)
    BY EmptySeq, QueueAssumption DEF Init
  <2>2. /\ phase \in [Threads -> {"idle", "waiting", "woken"}]
        /\ call \in [Threads -> Calls \union {Idle}]
        /\ \A t \in Threads : (phase[t] = "idle") <=> (call[t] = Idle)
    BY DEF Init
  <2>. QED BY <2>1, <2>2 DEF Init, TypeOK
<1>2. TypeOK /\ [Next]_vars => TypeOK'
  <2>. SUFFICES ASSUME TypeOK, [Next]_vars PROVE TypeOK'
    OBVIOUS
  <2>. USE DEF BufferOK
  <2>1. ASSUME NEW t \in Threads, Begin(t) PROVE TypeOK'
    <3>1. PICK c \in MayCall(t) :
            /\ phase[t] = "idle"
            /\ offered' = offered \union ({c.item} \ {None})
            /\ \/ (Refused(c) \/ BadTimeout(c)) /\ Raise(t)
               \/ ~Refused(c) /\ ~BadTimeout(c) /\ Loop(t, c)
      BY <2>1 DEF Begin
    <3>2. c \in Calls BY MayCallCalls
    <3>3. offered' \subseteq Items
      BY <3>1, <3>2 DEF Calls, PutCalls, GetCalls, CloseCalls, TypeOK
    <3>4. CASE Raise(t)
      <4>1. BufferOK' BY <3>4 DEF Raise, TypeOK
      <4>. QED BY <3>3, <3>4, <4>1, LeaveTypes DEF Raise, TypeOK
    <3>5. CASE Loop(t, c)
      BY <3>1, <3>2, <3>3, <3>5, LoopTypes DEF TypeOK
    <3>. QED BY <3>1, <3>4, <3>5
  <2>2. ASSUME NEW t \in Threads, Resume(t) PROVE TypeOK'
    <3>1. call[t] \in Calls BY <2>2 DEF Resume, TypeOK
    <3>2. offered' \subseteq Items BY <2>2 DEF Resume, TypeOK
    <3>. QED BY <2>2, <3>1, <3>2, LoopTypes DEF Resume, TypeOK
  <2>3. ASSUME NEW t \in Threads, Expire(t) PROVE TypeOK'
    BY <2>3 DEF Expire, TypeOK
  <2>4. CASE UNCHANGED vars
    BY <2>4 DEF vars, TypeOK
  <2>. QED BY <2>1, <2>2, <2>3, <2>4 DEF Next
<1>. QED BY <1>1, <1>2, PTL DEF Spec

--------------------------------------------------------------------------------
(* After the loop of a method nobody waits on not_empty of a closed queue. *)
LEMMA LoopFrees ==
  ASSUME TypeOK, CloseFreesGetters, NEW t \in Threads, NEW c \in Calls, Loop(t, c)
  PROVE  CloseFreesGetters'
<1>. SUFFICES ASSUME closed' = TRUE, NEW u \in Threads,
                     phase'[u] = "waiting", call'[u].op = "get"
              PROVE  FALSE
  BY DEF CloseFreesGetters, AtEmpty
<1>1. CASE Blocked(c) /\ ~GivesUp(t, c) /\ Wait(t, c)
  <2>1. closed = TRUE BY <1>1 DEF Wait
  <2>2. u = t
    BY <1>1, <2>1 DEF Wait, CloseFreesGetters, AtEmpty, TypeOK
  <2>3. c.op = "get" BY <1>1, <2>2 DEF Wait, TypeOK
  <2>. QED BY <1>1, <2>1, <2>3 DEF Blocked, GivesUp
<1>2. ASSUME NEW N, Leave(t, N) PROVE u # t /\ u \notin N /\ phase[u] = "waiting" /\ call[u].op = "get"
  BY <1>2 DEF Leave, TypeOK
<1>3. CASE Raise(t)
  BY <1>2, <1>3 DEF Raise, CloseFreesGetters, AtEmpty
<1>4. CASE PutItem(t, c)
  BY <1>2, <1>4 DEF PutItem, CloseFreesGetters, AtEmpty
<1>5. CASE GetItem(t)
  BY <1>2, <1>5 DEF GetItem, CloseFreesGetters, AtEmpty
<1>6. CASE RaiseClosed(t)
  BY <1>2, <1>6 DEF RaiseClosed, CloseFreesGetters, AtEmpty
<1>7. CASE Close(t, c)
  BY <1>2, <1>7 DEF Close, WokenByClose, AtEmpty
<1>. QED BY <1>1, <1>3, <1>4, <1>5, <1>6, <1>7 DEF Loop

(* Once the queue is closed no thread sleeps in get: close wakes all of    *)
(* them and get does not wait again.                                       *)
THEOREM GettersFreed == Spec => []CloseFreesGetters
<1>1. Init => CloseFreesGetters
  BY DEF Init, CloseFreesGetters
<1>2. TypeOK /\ CloseFreesGetters /\ [Next]_vars => CloseFreesGetters'
  <2>. SUFFICES ASSUME TypeOK, CloseFreesGetters, [Next]_vars
                PROVE  CloseFreesGetters'
    OBVIOUS
  <2>1. ASSUME NEW t \in Threads, Begin(t) PROVE CloseFreesGetters'
    <3>1. PICK c \in MayCall(t) : Raise(t) \/ Loop(t, c)
      BY <2>1 DEF Begin
    <3>2. c \in Calls BY MayCallCalls
    <3>3. CASE Raise(t)
      BY <3>3 DEF Raise, Leave, CloseFreesGetters, AtEmpty, TypeOK
    <3>. QED BY <3>1, <3>2, <3>3, LoopFrees
  <2>2. ASSUME NEW t \in Threads, Resume(t) PROVE CloseFreesGetters'
    <3>1. call[t] \in Calls BY <2>2 DEF Resume, TypeOK
    <3>. QED BY <2>2, <3>1, LoopFrees DEF Resume
  <2>3. ASSUME NEW t \in Threads, Expire(t) PROVE CloseFreesGetters'
    BY <2>3 DEF Expire, CloseFreesGetters, AtEmpty, TypeOK
  <2>4. CASE UNCHANGED vars
    BY <2>4 DEF vars, CloseFreesGetters, AtEmpty
  <2>. QED BY <2>1, <2>2, <2>3, <2>4 DEF Next
<1>. QED BY <1>1, <1>2, TypeCorrect, PTL DEF Spec

--------------------------------------------------------------------------------
(* WakeupsSuffice: the threads that were woken from a condition and did    *)
(* not run yet are enough for the items, or for the room, while others     *)
(* still wait.  A step moves at most its own thread out of the woken and   *)
(* the notified ones into them.                                            *)

\* The threads of each kind can be counted.
LEMMA WaitersFinite ==
  ASSUME NEW S \in SUBSET Threads
  PROVE  IsFiniteSet(S) /\ Cardinality(S) \in Nat
BY QueueAssumption, FS_Subset, FS_CardinalityType

\* A thread that leaves a set takes at most one from its size.
LEMMA RemovalBound ==
  ASSUME NEW S, IsFiniteSet(S), NEW t
  PROVE  Cardinality(S \ {t}) >= Cardinality(S) - 1
<1>1. Cardinality(S) \in Nat BY FS_CardinalityType
<1>2. Cardinality(S \ {t}) = IF t \in S THEN Cardinality(S) - 1 ELSE Cardinality(S)
  BY FS_RemoveElement, Zenon
<1>. QED BY <1>1, <1>2

(* What a return with the notified threads N does to who waits and who is  *)
(* woken.                                                                  *)
LEMMA LeaveSets ==
  ASSUME TypeOK, NEW t \in Threads, NEW N, Leave(t, N), phase[t] # "waiting",
         N \subseteq AtFull("waiting") \union AtEmpty("waiting")
  PROVE  /\ AtEmpty("waiting")' = AtEmpty("waiting") \ N
         /\ AtEmpty("woken")' = (AtEmpty("woken") \ {t}) \union (N \intersect AtEmpty("waiting"))
         /\ AtFull("waiting")' = AtFull("waiting") \ N
         /\ AtFull("woken")' = (AtFull("woken") \ {t}) \union (N \intersect AtFull("waiting"))
<1>1. \A u \in N : u \in Threads /\ phase[u] = "waiting" /\ u # t
  BY DEF AtFull, AtEmpty
<1>2. \A u \in Threads :
        /\ phase'[u] = IF u = t THEN "idle" ELSE IF u \in N THEN "woken" ELSE phase[u]
        /\ call'[u] = IF u = t THEN Idle ELSE call[u]
  BY DEF Leave, TypeOK
<1>3. AtEmpty("waiting")' = AtEmpty("waiting") \ N
  BY <1>1, <1>2 DEF AtEmpty
<1>4. AtEmpty("woken")' = (AtEmpty("woken") \ {t}) \union (N \intersect AtEmpty("waiting"))
  BY <1>1, <1>2 DEF AtEmpty, AtFull
<1>5. AtFull("waiting")' = AtFull("waiting") \ N
  BY <1>1, <1>2 DEF AtFull
<1>6. AtFull("woken")' = (AtFull("woken") \ {t}) \union (N \intersect AtFull("waiting"))
  BY <1>1, <1>2 DEF AtEmpty, AtFull
<1>. QED BY <1>3, <1>4, <1>5, <1>6

(* No thread waits on both conditions. *)
LEMMA OneCondition ==
  ASSUME NEW p, NEW q PROVE AtEmpty(p) \intersect AtFull(q) = {}
BY DEF AtEmpty, AtFull

(* Whose thread is woken where, when it is at the loop of a method. *)
LEMMA AtLoop ==
  ASSUME TypeOK, NEW t \in Threads, NEW c \in Calls,
         phase[t] = "idle" \/ (phase[t] = "woken" /\ call[t] = c)
  PROVE  /\ phase[t] # "waiting"
         /\ c.op # "get" => t \notin AtEmpty("woken")
         /\ c.op = "get" => t \notin AtFull("woken")
BY DEF AtEmpty, AtFull

(* From the loop on, a method leaves enough threads woken. *)
LEMMA LoopWakes ==
  ASSUME TypeOK, WakeupsSuffice, NEW t \in Threads, NEW c \in Calls, Loop(t, c),
         phase[t] = "idle" \/ (phase[t] = "woken" /\ call[t] = c)
  PROVE  WakeupsSuffice'
<1>1. /\ phase[t] # "waiting"
      /\ c.op # "get" => t \notin AtEmpty("woken")
      /\ c.op = "get" => t \notin AtFull("woken")
  BY AtLoop
<1>2. /\ AtEmpty("woken") \in SUBSET Threads /\ AtFull("woken") \in SUBSET Threads
      /\ AtEmpty("woken")' \in SUBSET Threads /\ AtFull("woken")' \in SUBSET Threads
  BY DEF AtEmpty, AtFull
<1>3. /\ IsFiniteSet(AtEmpty("woken")) /\ Cardinality(AtEmpty("woken")) \in Nat
      /\ IsFiniteSet(AtFull("woken")) /\ Cardinality(AtFull("woken")) \in Nat
      /\ Cardinality(AtEmpty("woken")') \in Nat /\ Cardinality(AtFull("woken")') \in Nat
  BY <1>2, WaitersFinite
<1>4. buffer \in Seq(Items) /\ Len(buffer) \in Nat /\ MaxSize \in Nat
  BY QueueAssumption, LenProperties DEF TypeOK
<1>5. Empty => Len(buffer) = 0
  BY <1>4, EmptySeq DEF Empty
<1>6. CASE Blocked(c) /\ Wait(t, c)
  <2>1. \A u \in Threads : /\ phase'[u] = IF u = t THEN "waiting" ELSE phase[u]
                           /\ call'[u] = IF u = t THEN c ELSE call[u]
    BY <1>6 DEF Wait, TypeOK
  <2>2. UNCHANGED <<buffer, closed>>
    BY <1>6 DEF Wait
  <2>3. CASE c.op = "get"
    <3>1. AtFull("waiting")' = AtFull("waiting") /\ AtFull("woken")' = AtFull("woken")
      BY <1>1, <2>1, <2>3 DEF AtFull
    <3>2. Len(buffer') = 0
      BY <1>5, <1>6, <2>2, <2>3 DEF Blocked
    <3>3. ItemsHaveTakers'
      BY <1>3, <3>2 DEF ItemsHaveTakers
    <3>4. RoomHasTakers'
      BY <2>2, <3>1 DEF WakeupsSuffice, RoomHasTakers
    <3>. QED BY <3>3, <3>4 DEF WakeupsSuffice
  <2>4. CASE c.op # "get"
    <3>1. AtEmpty("waiting")' = AtEmpty("waiting") /\ AtEmpty("woken")' = AtEmpty("woken")
      BY <1>1, <2>1, <2>4 DEF AtEmpty
    <3>2. Len(buffer') >= MaxSize
      BY <1>6, <2>2, <2>4 DEF Blocked, Full
    <3>3. ItemsHaveTakers'
      BY <2>2, <3>1 DEF WakeupsSuffice, ItemsHaveTakers
    <3>4. RoomHasTakers'
      BY <1>3, <1>4, <2>2, <3>2 DEF RoomHasTakers
    <3>. QED BY <3>3, <3>4 DEF WakeupsSuffice
  <2>. QED BY <2>3, <2>4
<1>7. CASE Blocked(c) /\ Raise(t)
  <2>1. Leave(t, {}) /\ UNCHANGED <<buffer, closed>>
    BY <1>7 DEF Raise
  <2>2. /\ AtEmpty("waiting")' = AtEmpty("waiting") /\ AtEmpty("woken")' = AtEmpty("woken") \ {t}
        /\ AtFull("waiting")' = AtFull("waiting") /\ AtFull("woken")' = AtFull("woken") \ {t}
    <3>1. {} \subseteq AtFull("waiting") \union AtEmpty("waiting")
      OBVIOUS
    <3>2. /\ AtEmpty("waiting")' = AtEmpty("waiting") \ {}
          /\ AtEmpty("woken")' = (AtEmpty("woken") \ {t}) \union ({} \intersect AtEmpty("waiting"))
          /\ AtFull("waiting")' = AtFull("waiting") \ {}
          /\ AtFull("woken")' = (AtFull("woken") \ {t}) \union ({} \intersect AtFull("waiting"))
      BY <1>1, <2>1, <3>1, LeaveSets
    <3>. QED BY <3>2
  <2>3. CASE c.op = "get"
    <3>1. Len(buffer') = 0 /\ AtFull("woken")' = AtFull("woken")
      BY <1>1, <1>5, <1>7, <2>1, <2>2, <2>3 DEF Blocked
    <3>2. ItemsHaveTakers'
      BY <1>3, <3>1 DEF ItemsHaveTakers
    <3>3. RoomHasTakers'
      BY <2>1, <2>2, <3>1 DEF WakeupsSuffice, RoomHasTakers
    <3>. QED BY <3>2, <3>3 DEF WakeupsSuffice
  <2>4. CASE c.op # "get"
    <3>1. Len(buffer') >= MaxSize /\ AtEmpty("woken")' = AtEmpty("woken")
      BY <1>1, <1>7, <2>1, <2>2, <2>4 DEF Blocked, Full
    <3>2. ItemsHaveTakers'
      BY <2>1, <2>2, <3>1 DEF WakeupsSuffice, ItemsHaveTakers
    <3>3. RoomHasTakers'
      BY <1>3, <1>4, <2>1, <3>1 DEF RoomHasTakers
    <3>. QED BY <3>2, <3>3 DEF WakeupsSuffice
  <2>. QED BY <2>3, <2>4
<1>8. CASE c.op = "put" /\ PutItem(t, c)
  <2>1. PICK N \in OneOf(AtEmpty("waiting")) : Leave(t, N)
    BY <1>8 DEF PutItem, WokenByPut
  <2>2. N \subseteq AtEmpty("waiting") /\ N \intersect AtFull("waiting") = {}
    BY OneOfSubset, OneCondition
  <2>3. /\ AtEmpty("waiting")' = AtEmpty("waiting") \ N
        /\ AtEmpty("woken")' = AtEmpty("woken") \union N
        /\ AtFull("waiting")' = AtFull("waiting") /\ AtFull("woken")' = AtFull("woken") \ {t}
    BY <1>1, <1>8, <2>1, <2>2, LeaveSets, SMTT(30)
  <2>4. Len(buffer') = Len(buffer) + 1 /\ UNCHANGED closed
    <3>1. c.item \in Items BY <1>8, CallKinds
    <3>. QED BY <1>4, <1>8, <3>1, AppendProperties DEF PutItem
  <2>5. ItemsHaveTakers'
    <3>1. SUFFICES ASSUME AtEmpty("waiting")' # {}
                   PROVE  Cardinality(AtEmpty("woken")') >= Len(buffer')
      BY DEF ItemsHaveTakers
    <3>2. AtEmpty("waiting") # {} /\ Cardinality(AtEmpty("woken")) >= Len(buffer)
      BY <2>3, <3>1 DEF WakeupsSuffice, ItemsHaveTakers
    <3>3. PICK u \in AtEmpty("waiting") : N = {u}
      BY <2>1, <3>2 DEF OneOf
    <3>4. u \notin AtEmpty("woken")
      BY DEF AtEmpty
    <3>5. Cardinality(AtEmpty("woken")') = Cardinality(AtEmpty("woken")) + 1
      <4>1. AtEmpty("woken")' = AtEmpty("woken") \union {u}
        BY <2>3, <3>3
      <4>2. Cardinality(AtEmpty("woken") \union {u}) = Cardinality(AtEmpty("woken")) + 1
        BY <1>3, <3>4, FS_AddElement
      <4>. QED BY <4>1, <4>2
    <3>. QED BY <1>3, <1>4, <2>4, <3>2, <3>5
  <2>6. RoomHasTakers'
    <3>1. Cardinality(AtFull("woken")') >= Cardinality(AtFull("woken")) - 1
      <4>1. AtFull("woken")' = AtFull("woken") \ {t}
        BY <2>3
      <4>2. Cardinality(AtFull("woken") \ {t}) >= Cardinality(AtFull("woken")) - 1
        BY <1>3, RemovalBound
      <4>. QED BY <4>1, <4>2
    <3>. QED BY <1>3, <1>4, <2>3, <2>4, <3>1 DEF WakeupsSuffice, RoomHasTakers
  <2>. QED BY <2>5, <2>6 DEF WakeupsSuffice
<1>9. CASE c.op = "get" /\ GetItem(t)
  <2>1. PICK N \in OneOf(AtFull("waiting")) : Leave(t, N)
    BY <1>9 DEF GetItem, WokenByGet
  <2>2. N \subseteq AtFull("waiting") /\ N \intersect AtEmpty("waiting") = {}
    BY OneOfSubset, OneCondition
  <2>3. /\ AtFull("waiting")' = AtFull("waiting") \ N
        /\ AtFull("woken")' = AtFull("woken") \union N
        /\ AtEmpty("waiting")' = AtEmpty("waiting") /\ AtEmpty("woken")' = AtEmpty("woken") \ {t}
    BY <1>1, <1>9, <2>1, <2>2, LeaveSets
  <2>4. Len(buffer') = Len(buffer) - 1 /\ UNCHANGED closed
    BY <1>4, <1>9, HeadTailProperties DEF GetItem
  <2>5. ItemsHaveTakers'
    <3>1. Cardinality(AtEmpty("woken")') >= Cardinality(AtEmpty("woken")) - 1
      <4>1. AtEmpty("woken")' = AtEmpty("woken") \ {t}
        BY <2>3
      <4>2. Cardinality(AtEmpty("woken") \ {t}) >= Cardinality(AtEmpty("woken")) - 1
        BY <1>3, RemovalBound
      <4>. QED BY <4>1, <4>2
    <3>. QED BY <1>3, <1>4, <2>3, <2>4, <3>1 DEF WakeupsSuffice, ItemsHaveTakers
  <2>6. RoomHasTakers'
    <3>1. SUFFICES ASSUME ~closed, AtFull("waiting")' # {}
                   PROVE  Cardinality(AtFull("woken")') + Len(buffer') >= MaxSize
      BY <2>4 DEF RoomHasTakers
    <3>2. AtFull("waiting") # {} /\ Cardinality(AtFull("woken")) + Len(buffer) >= MaxSize
      BY <2>3, <3>1 DEF WakeupsSuffice, RoomHasTakers
    <3>3. PICK u \in AtFull("waiting") : N = {u}
      BY <2>1, <3>2 DEF OneOf
    <3>4. u \notin AtFull("woken")
      BY DEF AtFull
    <3>5. Cardinality(AtFull("woken")') = Cardinality(AtFull("woken")) + 1
      <4>1. AtFull("woken")' = AtFull("woken") \union {u}
        BY <2>3, <3>3
      <4>2. Cardinality(AtFull("woken") \union {u}) = Cardinality(AtFull("woken")) + 1
        BY <1>3, <3>4, FS_AddElement
      <4>. QED BY <4>1, <4>2
    <3>. QED BY <1>3, <1>4, <2>4, <3>2, <3>5
  <2>. QED BY <2>5, <2>6 DEF WakeupsSuffice
<1>10. CASE RaiseClosed(t)
  <2>1. Len(buffer') = 0 /\ closed'
    BY <1>5, <1>10 DEF RaiseClosed
  <2>2. ItemsHaveTakers'
    BY <1>3, <2>1 DEF ItemsHaveTakers
  <2>. QED BY <2>1, <2>2 DEF WakeupsSuffice, RoomHasTakers
<1>11. CASE Close(t, c)
  <2>1. PICK N \in WokenByClose(c) : Leave(t, N)
    BY <1>11 DEF Close
  <2>2. AtEmpty("waiting") \subseteq N /\ N \subseteq AtFull("waiting") \union AtEmpty("waiting")
    BY <2>1 DEF WokenByClose
  <2>3. AtEmpty("waiting")' = {}
    BY <1>1, <2>1, <2>2, LeaveSets
  <2>. QED BY <1>11, <2>3 DEF Close, WakeupsSuffice, ItemsHaveTakers, RoomHasTakers
<1>. QED BY <1>6, <1>7, <1>8, <1>9, <1>10, <1>11 DEF Loop

(* No wake-up is lost on either condition, for any number of threads.      *)
THEOREM NoWakeupLost == Spec => []WakeupsSuffice
<1>1. Init => WakeupsSuffice
  BY DEF Init, WakeupsSuffice, ItemsHaveTakers, RoomHasTakers, AtEmpty, AtFull
<1>2. TypeOK /\ WakeupsSuffice /\ [Next]_vars => WakeupsSuffice'
  <2>. SUFFICES ASSUME TypeOK, WakeupsSuffice, [Next]_vars
                PROVE  WakeupsSuffice'
    OBVIOUS
  <2>1. ASSUME NEW t \in Threads, Begin(t) PROVE WakeupsSuffice'
    <3>1. PICK c \in MayCall(t) : phase[t] = "idle" /\ (Raise(t) \/ Loop(t, c))
      BY <2>1 DEF Begin
    <3>2. c \in Calls BY MayCallCalls
    <3>3. CASE Raise(t)
      <4>1. Leave(t, {}) /\ UNCHANGED <<buffer, closed>>
        BY <3>3 DEF Raise
      <4>2. t \notin AtEmpty("woken") /\ t \notin AtFull("woken")
        BY <3>1 DEF AtEmpty, AtFull
      <4>3. /\ AtEmpty("waiting")' = AtEmpty("waiting") /\ AtEmpty("woken")' = AtEmpty("woken")
            /\ AtFull("waiting")' = AtFull("waiting") /\ AtFull("woken")' = AtFull("woken")
        BY <3>1, <4>1, <4>2, LeaveSets
      <4>. QED BY <4>1, <4>3 DEF WakeupsSuffice, ItemsHaveTakers, RoomHasTakers
    <3>. QED BY <3>1, <3>2, <3>3, LoopWakes
  <2>2. ASSUME NEW t \in Threads, Resume(t) PROVE WakeupsSuffice'
    <3>1. call[t] \in Calls BY <2>2 DEF Resume, TypeOK
    <3>. QED BY <2>2, <3>1, LoopWakes DEF Resume
  <2>3. ASSUME NEW t \in Threads, Expire(t) PROVE WakeupsSuffice'
    <3>1. /\ UNCHANGED <<buffer, closed, call>>
          /\ \A u \in Threads : phase'[u] = IF u = t THEN "woken" ELSE phase[u]
      BY <2>3 DEF Expire, TypeOK
    <3>2. /\ AtEmpty("waiting")' \subseteq AtEmpty("waiting")
          /\ AtFull("waiting")' \subseteq AtFull("waiting")
          /\ AtEmpty("woken") \subseteq AtEmpty("woken")' /\ AtEmpty("woken")' \in SUBSET Threads
          /\ AtFull("woken") \subseteq AtFull("woken")' /\ AtFull("woken")' \in SUBSET Threads
      BY <3>1 DEF AtEmpty, AtFull
    <3>3. /\ Cardinality(AtEmpty("woken")) <= Cardinality(AtEmpty("woken")')
          /\ Cardinality(AtFull("woken")) <= Cardinality(AtFull("woken")')
      BY <3>2, WaitersFinite, FS_Subset
    <3>4. /\ Cardinality(AtEmpty("woken")) \in Nat /\ Cardinality(AtEmpty("woken")') \in Nat
          /\ Cardinality(AtFull("woken")) \in Nat /\ Cardinality(AtFull("woken")') \in Nat
      <4>1. AtEmpty("woken") \in SUBSET Threads /\ AtFull("woken") \in SUBSET Threads
        BY DEF AtEmpty, AtFull
      <4>. QED BY <3>2, <4>1, WaitersFinite
    <3>5. Len(buffer) \in Nat /\ MaxSize \in Nat
      BY QueueAssumption, LenProperties DEF TypeOK
    <3>6. ItemsHaveTakers'
      BY <3>1, <3>2, <3>3, <3>4, <3>5 DEF WakeupsSuffice, ItemsHaveTakers
    <3>7. RoomHasTakers'
      BY <3>1, <3>2, <3>3, <3>4, <3>5 DEF WakeupsSuffice, RoomHasTakers
    <3>. QED BY <3>6, <3>7 DEF WakeupsSuffice
  <2>4. CASE UNCHANGED vars
    BY <2>4 DEF vars, WakeupsSuffice, ItemsHaveTakers, RoomHasTakers, AtEmpty, AtFull
  <2>. QED BY <2>1, <2>2, <2>3, <2>4 DEF Next
<1>. QED BY <1>1, <1>2, TypeCorrect, PTL DEF Spec

--------------------------------------------------------------------------------
(* A return takes the thread out of the puts under way. *)
LEMMA LeaveEarly ==
  ASSUME TypeOK, NEW t \in Threads, NEW N, Leave(t, N)
  PROVE  EarlyPuts' = EarlyPuts \ {t}
BY DEF Leave, EarlyPuts, TypeOK, Idle

(* A wait puts the thread there if it waits in put. *)
LEMMA WaitEarly ==
  ASSUME TypeOK, NEW t \in Threads, NEW c, Wait(t, c)
  PROVE  EarlyPuts' = IF c.op = "put" THEN EarlyPuts \union {t} ELSE EarlyPuts \ {t}
BY DEF Wait, EarlyPuts, TypeOK

(* A thread at the loop is either there already or may still begin. *)
LEMMA LoopRefines ==
  ASSUME TypeOK, NEW t \in Threads, NEW c \in Calls, Loop(t, c),
         \/ call[t] = c
         \/ call[t] = Idle /\ ~Refused(c)
  PROVE  Fifo!Next \/ UNCHANGED Fifo!vars
<1>1. c.op = "put" => ~closed \/ t \in EarlyPuts
  BY DEF Refused, EarlyPuts
<1>2. CASE Wait(t, c)
  <2>1. UNCHANGED <<buffer, closed, ended>> BY <1>2 DEF Wait
  <2>2. CASE c.op = "put"
    <3>1. EarlyPuts' = EarlyPuts \union {t} BY <1>2, <2>2, WaitEarly
    <3>2. CASE ~closed BY <2>1, <3>1, <3>2 DEF Fifo!Next, Fifo!Begin
    <3>3. CASE t \in EarlyPuts
      <4>1. EarlyPuts' = EarlyPuts BY <3>1, <3>3
      <4>. QED BY <2>1, <4>1 DEF Fifo!vars
    <3>. QED BY <1>1, <2>2, <3>2, <3>3
  <2>3. CASE c.op # "put"
    <3>1. EarlyPuts' = EarlyPuts \ {t} BY <1>2, <2>3, WaitEarly
    <3>. QED BY <2>1, <3>1 DEF Fifo!Next, Fifo!Leave
  <2>. QED BY <2>2, <2>3
<1>3. CASE Raise(t)
  <2>1. EarlyPuts' = EarlyPuts \ {t} BY <1>3, LeaveEarly DEF Raise
  <2>. QED BY <1>3, <2>1 DEF Raise, Fifo!Next, Fifo!Leave
<1>4. CASE c.op = "put" /\ PutItem(t, c)
  <2>1. EarlyPuts' = EarlyPuts \ {t} BY <1>4, LeaveEarly DEF PutItem
  <2>2. c.item \in Items BY <1>4, CallKinds
  <2>3. Fifo!Enter(t, c.item) BY <1>1, <1>4, <2>1 DEF PutItem, Fifo!Enter
  <2>. QED BY <2>2, <2>3 DEF Fifo!Next
<1>5. ASSUME c.op # "put" PROVE EarlyPuts \ {t} = EarlyPuts
  BY <1>5 DEF EarlyPuts, Idle
<1>6. CASE c.op = "get" /\ GetItem(t)
  <2>1. EarlyPuts' = EarlyPuts BY <1>5, <1>6, LeaveEarly DEF GetItem
  <2>. QED BY <1>6, <2>1 DEF GetItem, Fifo!Next, Fifo!Take
<1>7. CASE c.op = "get" /\ RaiseClosed(t)
  <2>1. EarlyPuts' = EarlyPuts BY <1>5, <1>7, LeaveEarly DEF RaiseClosed
  <2>. QED BY <1>7, <2>1 DEF RaiseClosed, Empty, Fifo!Next, Fifo!End
<1>8. CASE c.op = "close" /\ Close(t, c)
  <2>1. EarlyPuts' = EarlyPuts BY <1>5, <1>8, LeaveEarly DEF Close
  <2>. QED BY <1>8, <2>1 DEF Close, Fifo!Next, Fifo!Close
<1>. QED BY <1>2, <1>3, <1>4, <1>6, <1>7, <1>8 DEF Loop

(* The queue with its mutex, conditions, time-outs and closers implements  *)
(* the closable FIFO: each step of it is a step of ClosableFifo or none.   *)
THEOREM ImplementsFifo == Spec => FifoSpec
<1>1. Init => Fifo!Init
  BY DEF Init, Fifo!Init, EarlyPuts, Idle
<1>2. TypeOK /\ [Next]_vars => [Fifo!Next]_(Fifo!vars)
  <2>. SUFFICES ASSUME TypeOK, [Next]_vars PROVE Fifo!Next \/ UNCHANGED Fifo!vars
    OBVIOUS
  <2>1. ASSUME NEW t \in Threads, Begin(t) PROVE Fifo!Next \/ UNCHANGED Fifo!vars
    <3>1. PICK c \in MayCall(t) :
            /\ phase[t] = "idle"
            /\ Raise(t) \/ (~Refused(c) /\ Loop(t, c))
      BY <2>1 DEF Begin
    <3>2. c \in Calls /\ call[t] = Idle BY <3>1, MayCallCalls DEF TypeOK
    <3>3. CASE Raise(t)
      <4>1. EarlyPuts' = EarlyPuts \ {t} BY <3>3, LeaveEarly DEF Raise
      <4>. QED BY <3>3, <4>1 DEF Raise, Fifo!Next, Fifo!Leave
    <3>. QED BY <3>1, <3>2, <3>3, LoopRefines
  <2>2. ASSUME NEW t \in Threads, Resume(t) PROVE Fifo!Next \/ UNCHANGED Fifo!vars
    <3>1. call[t] \in Calls BY <2>2 DEF Resume, TypeOK
    <3>. QED BY <2>2, <3>1, LoopRefines DEF Resume
  <2>3. ASSUME NEW t \in Threads, Expire(t) PROVE UNCHANGED Fifo!vars
    BY <2>3 DEF Expire, Fifo!vars, EarlyPuts
  <2>4. CASE UNCHANGED vars
    BY <2>4 DEF vars, Fifo!vars, EarlyPuts
  <2>. QED BY <2>1, <2>2, <2>3, <2>4 DEF Next
<1>. QED BY <1>1, <1>2, TypeCorrect, PTL DEF Spec, FifoSpec, Fifo!Spec
================================================================================
