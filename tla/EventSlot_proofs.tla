---------------------------- MODULE EventSlot_proofs ----------------------------
(***************************************************************************)
(* Proofs about EventSlot, for any events, calls and peers: the types, that *)
(* no handler that waits for its call is left behind by the slot, and that  *)
(* the queues, the signal and the loop of the slot implement NestedCalls.   *)
(***************************************************************************)
EXTENDS EventSlot, SequenceTheorems, FiniteSetTheorems, TLAPS

-----------------------------------------------------------------------------
(* An event that a peer holds, in its inbox or in its handler, is one that   *)
(* the item still awaits from this peer; the item is finished when nothing   *)
(* is awaited, and only then its slot returns.  What receive took is         *)
(* executed before the slot looks at its queue again.                        *)

RaisedOnce ==
  /\ \A e \in Events : slotPc[e] = "new" <=> e \notin running
  /\ \A e \in Events : e \notin running \/ e \in done => awaiting[e] = {}
  /\ \A e \in Events : slotPc[e] = "returned" => e \in done

HeldByPeers ==
  /\ \A p \in Peers : handling[p] # None => p \in awaiting[handling[p]]
  /\ \A p \in Peers : calling[p] # None => handling[p] # None
  /\ \A p \in Peers : \A j \in 1..Len(inbox[p]) :
       p \in awaiting[inbox[p][j]] /\ inbox[p][j] # handling[p]
  /\ \A p \in Peers : \A j, k \in 1..Len(inbox[p]) : inbox[p][j] = inbox[p][k] => j = k

Batches == \A e \in Events : slotPc[e] # "run" => batch[e] = <<>>

SlotInv == TypeOK /\ RaisedOnce /\ HeldByPeers /\ Batches

\* The names that are neither an event nor a call nor a peer are three.
LEMMA Names ==
  /\ Default # Foreign /\ Default # None /\ Foreign # None
  /\ {Default, Foreign, None} \cap (Events \cup Calls \cup Peers) = {}
<1>1. \A x, y : IsFiniteSet({x} \cup {y}) /\ Cardinality({x} \cup {y}) \in {1, 2}
  <2> SUFFICES ASSUME NEW x, NEW y
               PROVE  IsFiniteSet({x} \cup {y}) /\ Cardinality({x} \cup {y}) \in {1, 2}
    OBVIOUS
  <2>1. IsFiniteSet({x}) /\ Cardinality({x}) = 1
    BY FS_Singleton
  <2>2. /\ IsFiniteSet({x} \cup {y})
        /\ Cardinality({x} \cup {y}) = IF y \in {x} THEN Cardinality({x}) ELSE Cardinality({x}) + 1
    BY <2>1, FS_AddElement
  <2> QED
    BY <2>1, <2>2
<1>2. ASSUME NEW x, NEW y, {Default, Foreign, None} = {x} \cup {y} PROVE FALSE
  BY <1>1, <1>2, SlotAssumption
<1>3. Default # Foreign
  <2>1. Default = Foreign => {Default, Foreign, None} = {Default} \cup {None}
    OBVIOUS
  <2> QED
    BY <1>2, <2>1
<1>4. Default # None
  <2>1. Default = None => {Default, Foreign, None} = {Default} \cup {Foreign}
    OBVIOUS
  <2> QED
    BY <1>2, <2>1
<1>5. Foreign # None
  <2>1. Foreign = None => {Default, Foreign, None} = {Default} \cup {Foreign}
    OBVIOUS
  <2> QED
    BY <1>2, <2>1
<1> QED
  BY <1>3, <1>4, <1>5, SlotAssumption

\* At first no event is raised and no call sent.
LEMMA SlotInit == Init => SlotInv
<1> SUFFICES ASSUME Init PROVE SlotInv
  OBVIOUS
<1>1. TypeOK
  <2>1. <<>> \in Seq(Calls) /\ <<>> \in Seq(Events) /\ <<>> \in Seq(Events \cup Calls)
    BY EmptySeq
  <2> QED
    BY <2>1 DEF Init, TypeOK
<1>2. RaisedOnce /\ HeldByPeers /\ Batches
  BY Names DEF Init, RaisedOnce, HeldByPeers, Batches
<1> QED
  BY <1>1, <1>2 DEF SlotInv

\* A wake-up moves no slot but one that is asleep.
Woken ==
  \A e \in Events : \/ slotPc'[e] = slotPc[e]
                    \/ slotPc[e] = "asleep" /\ slotPc'[e] = "receive"

\* That is all wakeOne does.
LEMMA WakeOneMoves ==
  ASSUME TypeOK, NEW e, WakeOne(e) \/ UNCHANGED slotPc
  PROVE  /\ Woken
         /\ slotPc' \in [Events -> {"new", "test", "wait", "asleep", "receive", "run", "returned"}]
  BY DEF WakeOne, Woken, TypeOK

\* A wake-up that comes with no change to the rest keeps the invariants.
LEMMA WokenKeeps ==
  ASSUME RaisedOnce, Batches, Woken, UNCHANGED <<running, awaiting, done, batch>>
  PROVE  RaisedOnce' /\ Batches'
  BY DEF RaisedOnce, Batches, Woken

\* An arriving call is queued in one place or dropped.
LEMMA ScheduleKeeps ==
  ASSUME SlotInv, NEW c \in Calls, NEW x \in Events \cup {Default, Foreign}, Schedule(c, x)
  PROVE  /\ inbounds' \in Seq(Calls) /\ signals' \in Nat
         /\ queue' \in [Events -> Seq(Calls)]
         /\ slotPc' \in [Events -> {"new", "test", "wait", "asleep", "receive", "run", "returned"}]
         /\ context' \in [Calls -> Events \cup {Default, Foreign, None}] /\ dropped' \subseteq Calls
         /\ UNCHANGED <<loopBatch, stack, batch, running, awaiting, done, answered>>
         /\ RaisedOnce' /\ Batches'
<1>1. /\ TypeOK /\ RaisedOnce /\ Batches
      /\ UNCHANGED <<loopBatch, stack, batch, running, awaiting, done, answered>>
  BY DEF SlotInv, Schedule, itemVars
<1>2. WakeOne(x) \/ UNCHANGED slotPc
  BY DEF Schedule
<1>3. inbounds' \in Seq(Calls) /\ signals' \in Nat /\ dropped' \subseteq Calls
  <2>1. /\ inbounds' = inbounds \/ inbounds' = Append(inbounds, c)
        /\ signals' = signals \/ signals' = signals + 1
        /\ dropped' = dropped \/ dropped' = dropped \cup {c}
    BY DEF Schedule, EmitInbound
  <2>2. inbounds \in Seq(Calls) /\ signals \in Nat /\ dropped \subseteq Calls
    BY <1>1 DEF TypeOK
  <2>3. Append(inbounds, c) \in Seq(Calls)
    BY <2>2
  <2> QED
    BY <2>1, <2>2, <2>3
<1>4. queue' \in [Events -> Seq(Calls)]
  <2>1. \/ queue' = queue
        \/ x \in running /\ queue' = [queue EXCEPT ![x] = Append(queue[x], c)]
    BY DEF Schedule
  <2>2. queue \in [Events -> Seq(Calls)] /\ running \subseteq Events
    BY <1>1 DEF TypeOK
  <2>3. x \in Events => Append(queue[x], c) \in Seq(Calls)
    BY <2>2
  <2> QED
    BY <2>1, <2>2, <2>3
<1>5. context' \in [Calls -> Events \cup {Default, Foreign, None}]
  BY <1>1 DEF Schedule, TypeOK
<1> QED
  BY <1>1, <1>2, <1>3, <1>4, <1>5, WakeOneMoves, WokenKeeps

\* What is first in a sequence, and what is left of it.
LEMMA FirstOf ==
  ASSUME NEW S, NEW s \in Seq(S), s # <<>>
  PROVE  Head(s) \in S /\ Tail(s) \in Seq(S)
  BY HeadTailProperties

\* What is put on the stack makes a stack.
LEMMA Pushed ==
  ASSUME NEW s \in Seq(Events \cup Calls), NEW a \in Events \cup Calls
  PROVE  <<a>> \o s \in Seq(Events \cup Calls)
<1>1. <<a>> \in Seq(Events \cup Calls)
  OBVIOUS
<1> QED
  BY <1>1, ConcatProperties

\* Every step keeps the invariants.
LEMMA SlotNext == SlotInv /\ [Next]_vars => SlotInv'
<1> SUFFICES ASSUME SlotInv, [Next]_vars PROVE SlotInv'
  OBVIOUS
<1>0. TypeOK /\ RaisedOnce /\ HeldByPeers /\ Batches
  BY DEF SlotInv
<1>1. CASE HandleInbound
  <2>1. TypeOK'
    BY <1>0, <1>1 DEF HandleInbound, TypeOK, itemVars, callVars, peerVars
  <2>2. RaisedOnce' /\ HeldByPeers' /\ Batches'
    BY <1>0, <1>1 DEF HandleInbound, RaisedOnce, HeldByPeers, Batches, itemVars, peerVars
  <2> QED
    BY <2>1, <2>2 DEF SlotInv
<1>2. CASE ExecuteFromLoop
  <2>1. loopBatch' \in Seq(Calls) /\ stack' \in Seq(Events \cup Calls)
    BY <1>0, <1>2, FirstOf, Pushed DEF ExecuteFromLoop, TypeOK
  <2>2. TypeOK'
    BY <1>0, <1>2, <2>1 DEF ExecuteFromLoop, TypeOK, itemVars, callVars, peerVars
  <2>3. RaisedOnce' /\ HeldByPeers' /\ Batches'
    BY <1>0, <1>2 DEF ExecuteFromLoop, RaisedOnce, HeldByPeers, Batches, itemVars, peerVars
  <2> QED
    BY <2>2, <2>3 DEF SlotInv
<1>3. CASE FinishCall
  <2>1. stack # <<>>
    BY <1>3, Names DEF FinishCall, Top
  <2>2. stack' \in Seq(Events \cup Calls) /\ answered' \subseteq Calls
    BY <1>0, <1>3, <2>1, FirstOf DEF FinishCall, TypeOK
  <2>3. TypeOK'
    BY <1>0, <1>3, <2>2 DEF FinishCall, TypeOK, itemVars, peerVars
  <2>4. RaisedOnce' /\ HeldByPeers' /\ Batches'
    BY <1>0, <1>3 DEF FinishCall, RaisedOnce, HeldByPeers, Batches, itemVars, peerVars
  <2> QED
    BY <2>3, <2>4 DEF SlotInv
<1>4. ASSUME NEW e \in Events, NEW P \in SUBSET Peers, Raise(e, P) PROVE SlotInv'
  <2>0. /\ slotPc[e] = "new" /\ e \notin running /\ e \notin done /\ awaiting[e] = {}
        /\ running' = running \cup {e} /\ UNCHANGED <<batch, handling, calling>>
    BY <1>0, <1>4 DEF Raise, OutboundSend, RaisedOnce, TypeOK
  <2>1. /\ \A f \in Events : slotPc'[f] = IF f = e THEN "test" ELSE slotPc[f]
        /\ \A f \in Events : awaiting'[f] = IF f = e THEN P ELSE awaiting[f]
        /\ done' = IF P = {} THEN done \cup {e} ELSE done
    <3>1. /\ slotPc' = [slotPc EXCEPT ![e] = "test"] /\ awaiting' = [awaiting EXCEPT ![e] = P]
          /\ done' = IF P = {} THEN done \cup {e} ELSE done
      BY <1>4 DEF Raise
    <3>2. DOMAIN slotPc = Events /\ DOMAIN awaiting = Events
      BY <1>0 DEF TypeOK
    <3> QED
      BY <3>1, <3>2
  <2>2. \A p \in Peers : inbox'[p] = IF p \in P THEN Append(inbox[p], e) ELSE inbox[p]
    BY <1>4 DEF Raise
  <2>3. TypeOK'
    <3>1. stack' \in Seq(Events \cup Calls)
      BY <1>0, <1>4, Pushed DEF Raise, TypeOK
    <3>2. inbox' \in [Peers -> Seq(Events)]
      BY <1>0, <1>4 DEF Raise, TypeOK
    <3>3. done' \subseteq running' /\ running' \subseteq Events
      BY <1>0, <2>0, <2>1 DEF TypeOK
    <3> QED
      BY <1>0, <1>4, <3>1, <3>2, <3>3 DEF Raise, TypeOK, callVars
  <2>4. RaisedOnce'
    BY <1>0, <2>0, <2>1 DEF RaisedOnce
  <2>5. Batches'
    BY <1>0, <2>0, <2>1 DEF Batches
  <2>6. \A p \in Peers : \A j \in 1..Len(inbox[p]) : inbox[p][j] # e
    BY <1>0, <2>0 DEF HeldByPeers
  <2>7. \A p \in Peers : handling[p] # e
    BY <1>0, <2>0, Names DEF HeldByPeers
  <2>8. ASSUME NEW p \in Peers
        PROVE  /\ \A j \in 1..Len(inbox'[p]) : p \in awaiting'[inbox'[p][j]] /\ inbox'[p][j] # handling'[p]
               /\ \A j, k \in 1..Len(inbox'[p]) : inbox'[p][j] = inbox'[p][k] => j = k
    <3>0. inbox[p] \in Seq(Events) /\ Len(inbox[p]) \in Nat /\ \A j \in 1..Len(inbox[p]) : inbox[p][j] \in Events
      <4>1. inbox[p] \in Seq(Events)
        BY <1>0 DEF TypeOK
      <4> QED
        BY <4>1, LenProperties, ElementOfSeq
    <3>1. CASE p \in P
      <4>1. /\ Len(inbox'[p]) = Len(inbox[p]) + 1 /\ inbox'[p][Len(inbox[p]) + 1] = e
            /\ \A j \in 1..Len(inbox[p]) : inbox'[p][j] = inbox[p][j]
        <5>1. inbox'[p] = Append(inbox[p], e)
          BY <2>2, <3>1
        <5> QED
          BY <3>0, <5>1, AppendProperties
      <4>2. \A j : j \in 1..Len(inbox[p]) + 1 <=> j \in 1..Len(inbox[p]) \/ j = Len(inbox[p]) + 1
        BY <3>0
      <4>3. ASSUME NEW j \in 1..Len(inbox'[p])
            PROVE  p \in awaiting'[inbox'[p][j]] /\ inbox'[p][j] # handling'[p]
        <5>1. CASE j \in 1..Len(inbox[p])
          <6>1. inbox'[p][j] = inbox[p][j] /\ inbox[p][j] \in Events /\ inbox[p][j] # e
            BY <2>6, <3>0, <4>1, <5>1
          <6>2. p \in awaiting[inbox[p][j]] /\ inbox[p][j] # handling[p]
            BY <1>0, <5>1 DEF HeldByPeers
          <6> QED
            BY <2>0, <2>1, <6>1, <6>2
        <5>2. CASE j = Len(inbox[p]) + 1
          <6>1. inbox'[p][j] = e
            BY <4>1, <5>2
          <6> QED
            BY <2>0, <2>1, <2>7, <3>1, <6>1
        <5> QED
          BY <4>1, <4>2, <5>1, <5>2
      <4>4. ASSUME NEW j \in 1..Len(inbox'[p]), NEW k \in 1..Len(inbox'[p]),
                   inbox'[p][j] = inbox'[p][k]
            PROVE  j = k
        <5>1. inbox[p][j] = inbox[p][k] /\ j \in 1..Len(inbox[p]) /\ k \in 1..Len(inbox[p])
                => j = k
          BY <1>0 DEF HeldByPeers
        <5>2. \A i \in 1..Len(inbox[p]) : inbox'[p][i] # e
          BY <2>6, <4>1
        <5>3. /\ j \in 1..Len(inbox[p]) \/ j = Len(inbox[p]) + 1
              /\ k \in 1..Len(inbox[p]) \/ k = Len(inbox[p]) + 1
          BY <4>1, <4>2
        <5> QED
          BY <4>1, <4>4, <5>1, <5>2, <5>3
      <4> QED
        BY <4>3, <4>4
    <3>2. CASE p \notin P
      BY <1>0, <2>0, <2>1, <2>2, <2>6, <3>0, <3>2 DEF HeldByPeers
    <3> QED
      BY <3>1, <3>2
  <2>9. \A p \in Peers : handling'[p] # None => p \in awaiting'[handling'[p]]
    BY <1>0, <2>0, <2>1, <2>7 DEF HeldByPeers, TypeOK
  <2> QED
    BY <1>0, <2>0, <2>3, <2>4, <2>5, <2>8, <2>9 DEF SlotInv, HeldByPeers
<1>5. ASSUME NEW e \in Events, Slot(e) PROVE SlotInv'
  <2>0. UNCHANGED <<inbounds, signals, loopBatch, itemVars, callVars, peerVars>>
    BY <1>5 DEF Slot, SlotTest, SlotWait, SlotReceive, SlotRun
  <2>1. stack # <<>> /\ Head(stack) = e
    BY <1>5, Names DEF Slot, SlotTest, SlotWait, SlotReceive, SlotRun, Top
  <2>2. CASE SlotTest(e)
    <3>1. stack' \in Seq(Events \cup Calls)
      <4>1. stack \in Seq(Events \cup Calls)
        BY <1>0 DEF TypeOK
      <4>2. Tail(stack) \in Seq(Events \cup Calls)
        BY <2>1, <4>1, FirstOf
      <4> QED
        BY <2>2, <4>1, <4>2 DEF SlotTest
    <3>2. /\ slotPc[e] = "test" /\ UNCHANGED <<batch, queue>>
          /\ \A f \in Events : slotPc'[f] = IF f = e THEN IF e \in done THEN "returned" ELSE "wait"
                                            ELSE slotPc[f]
      BY <1>0, <2>2 DEF SlotTest, TypeOK
    <3>3. TypeOK'
      BY <1>0, <2>0, <2>2, <3>1 DEF SlotTest, TypeOK, itemVars, callVars, peerVars
    <3> QED
      BY <1>0, <2>0, <3>2, <3>3
         DEF SlotInv, RaisedOnce, HeldByPeers, Batches, itemVars, peerVars
  <2>3. CASE SlotWait(e)
    <3>1. /\ slotPc[e] = "wait" /\ UNCHANGED <<batch, queue>>
          /\ \A f \in Events : slotPc'[f] = IF f = e THEN "asleep" ELSE slotPc[f]
      BY <1>0, <2>3 DEF SlotWait, TypeOK
    <3>2. TypeOK'
      BY <1>0, <2>0, <2>3 DEF SlotWait, TypeOK, itemVars, callVars, peerVars
    <3> QED
      BY <1>0, <2>0, <3>1, <3>2
         DEF SlotInv, RaisedOnce, HeldByPeers, Batches, itemVars, peerVars
  <2>4. CASE SlotReceive(e)
    <3>1. /\ slotPc[e] = "receive"
          /\ \A f \in Events : slotPc'[f] = IF f = e THEN "run" ELSE slotPc[f]
          /\ \A f \in Events : f # e => batch'[f] = batch[f]
      BY <1>0, <2>4 DEF SlotReceive, Received, TypeOK
    <3>2. queue' \in [Events -> Seq(Calls)] /\ batch' \in [Events -> Seq(Calls)]
      BY <1>0, <2>4, EmptySeq DEF SlotReceive, Received, LeftBehind, TypeOK
    <3>3. TypeOK'
      BY <1>0, <2>0, <2>4, <3>2 DEF SlotReceive, TypeOK, itemVars, callVars, peerVars
    <3> QED
      BY <1>0, <2>0, <3>1, <3>3
         DEF SlotInv, RaisedOnce, HeldByPeers, Batches, itemVars, peerVars
  <2>5. CASE SlotRun(e)
    <3>1. /\ slotPc[e] = "run"
          /\ \A f \in Events : f # e => slotPc'[f] = slotPc[f] /\ batch'[f] = batch[f]
          /\ \/ slotPc'[e] = "run"
             \/ slotPc'[e] = "test" /\ batch'[e] = <<>>
      BY <1>0, <2>5 DEF SlotRun, TypeOK
    <3>2. batch[e] # <<>> => Head(batch[e]) \in Calls /\ Tail(batch[e]) \in Seq(Calls)
      BY <1>0, FirstOf DEF TypeOK
    <3>3. stack' \in Seq(Events \cup Calls) /\ batch' \in [Events -> Seq(Calls)]
      <4>1. stack \in Seq(Events \cup Calls) /\ batch \in [Events -> Seq(Calls)]
        BY <1>0 DEF TypeOK
      <4>2. CASE batch[e] # <<>> /\ stack' = <<Head(batch[e])>> \o stack
                 /\ batch' = [batch EXCEPT ![e] = Tail(@)]
        <5>1. <<Head(batch[e])>> \o stack \in Seq(Events \cup Calls)
          BY <3>2, <4>1, <4>2, Pushed
        <5>2. [batch EXCEPT ![e] = Tail(@)] \in [Events -> Seq(Calls)]
          BY <3>2, <4>1, <4>2
        <5> QED
          BY <4>2, <5>1, <5>2
      <4>3. CASE UNCHANGED <<stack, batch>>
        BY <4>1, <4>3
      <4> QED
        BY <2>5, <4>2, <4>3 DEF SlotRun
    <3>4. TypeOK'
      BY <1>0, <2>0, <2>5, <3>3 DEF SlotRun, TypeOK, itemVars, callVars, peerVars
    <3> QED
      BY <1>0, <2>0, <3>1, <3>4
         DEF SlotInv, RaisedOnce, HeldByPeers, Batches, itemVars, peerVars
  <2> QED
    BY <1>5, <2>2, <2>3, <2>4, <2>5 DEF Slot
<1>6. ASSUME NEW p \in Peers, PeerTakes(p) PROVE SlotInv'
  <2>0. /\ handling[p] = None /\ inbox[p] # <<>> /\ inbox[p] \in Seq(Events)
        /\ UNCHANGED <<batch, slotPc, running, awaiting, done, calling>>
    BY <1>0, <1>6 DEF PeerTakes, TypeOK, mainVars, itemVars
  <2>1. /\ \A q \in Peers : q # p => handling'[q] = handling[q] /\ inbox'[q] = inbox[q]
        /\ handling'[p] = Head(inbox[p]) /\ inbox'[p] = Tail(inbox[p])
    BY <1>0, <1>6 DEF PeerTakes, TypeOK
  <2>2. /\ Head(inbox[p]) = inbox[p][1] /\ Head(inbox[p]) \in Events
        /\ Tail(inbox[p]) \in Seq(Events)
        /\ Len(inbox[p]) \in Nat \ {0} /\ Len(Tail(inbox[p])) = Len(inbox[p]) - 1
        /\ \A j \in 1..Len(Tail(inbox[p])) : Tail(inbox[p])[j] = inbox[p][j + 1]
    BY <2>0, HeadTailProperties, EmptySeq
  <2>3. TypeOK'
    BY <1>0, <1>6, <2>2 DEF PeerTakes, TypeOK, mainVars, itemVars, callVars
  <2>4. 1 \in 1..Len(inbox[p])
        /\ \A j \in 1..Len(inbox'[p]) : j + 1 \in 1..Len(inbox[p]) /\ j + 1 # 1
    BY <2>1, <2>2
  <2>5. ASSUME NEW j \in 1..Len(inbox'[p])
        PROVE  p \in awaiting'[inbox'[p][j]] /\ inbox'[p][j] # handling'[p]
    <3>1. inbox'[p][j] = inbox[p][j + 1] /\ handling'[p] = inbox[p][1]
      BY <2>1, <2>2
    <3>2. p \in awaiting[inbox[p][j + 1]] /\ inbox[p][j + 1] # inbox[p][1]
      BY <1>0, <2>4 DEF HeldByPeers
    <3> QED
      BY <2>0, <3>1, <3>2
  <2>6. ASSUME NEW j \in 1..Len(inbox'[p]), NEW k \in 1..Len(inbox'[p]), inbox'[p][j] = inbox'[p][k]
        PROVE  j = k
    <3>1. j + 1 = k + 1
      BY <1>0, <2>1, <2>2, <2>4, <2>6 DEF HeldByPeers
    <3> QED
      BY <2>2, <3>1
  <2>7. HeldByPeers'
    <3>1. /\ p \in awaiting'[handling'[p]] /\ handling'[p] # None
      <4>1. handling'[p] = inbox[p][1] /\ handling'[p] \in Events
        BY <2>1, <2>2
      <4>2. p \in awaiting[inbox[p][1]]
        BY <1>0, <2>4 DEF HeldByPeers
      <4> QED
        BY <2>0, <4>1, <4>2, Names
    <3>2. \A q \in Peers : handling'[q] # None => q \in awaiting'[handling'[q]]
      BY <1>0, <2>0, <2>1, <3>1 DEF HeldByPeers
    <3>3. \A q \in Peers : calling'[q] # None => handling'[q] # None
      BY <1>0, <2>0, <2>1, <3>1 DEF HeldByPeers
    <3>4. \A q \in Peers : \A j \in 1..Len(inbox'[q]) :
            q \in awaiting'[inbox'[q][j]] /\ inbox'[q][j] # handling'[q]
      BY <1>0, <2>0, <2>1, <2>5 DEF HeldByPeers
    <3>5. \A q \in Peers : \A j, k \in 1..Len(inbox'[q]) : inbox'[q][j] = inbox'[q][k] => j = k
      BY <1>0, <2>1, <2>6 DEF HeldByPeers
    <3> QED
      BY <3>2, <3>3, <3>4, <3>5 DEF HeldByPeers
  <2> QED
    BY <1>0, <2>0, <2>3, <2>7 DEF SlotInv, RaisedOnce, Batches
<1>7. ASSUME NEW p \in Peers, NEW c \in Calls, PeerCalls(p, c) PROVE SlotInv'
  <2>1. /\ handling[p] \in Events /\ Schedule(c, handling[p]) /\ UNCHANGED <<inbox, handling>>
        /\ calling' \in [Peers -> Calls \cup {None}]
        /\ \A q \in Peers : calling'[q] = IF q = p THEN c ELSE calling[q]
    BY <1>0, <1>7 DEF PeerCalls, HandlerFree, TypeOK
  <2>2. /\ inbounds' \in Seq(Calls) /\ signals' \in Nat
        /\ queue' \in [Events -> Seq(Calls)]
        /\ slotPc' \in [Events -> {"new", "test", "wait", "asleep", "receive", "run", "returned"}]
        /\ context' \in [Calls -> Events \cup {Default, Foreign, None}] /\ dropped' \subseteq Calls
        /\ UNCHANGED <<loopBatch, stack, batch, running, awaiting, done, answered>>
        /\ RaisedOnce' /\ Batches'
    BY <2>1, ScheduleKeeps
  <2>3. TypeOK'
    BY <1>0, <2>1, <2>2 DEF TypeOK
  <2>4. HeldByPeers'
    BY <1>0, <2>1, <2>2, Names DEF HeldByPeers
  <2> QED
    BY <2>2, <2>3, <2>4 DEF SlotInv
<1>8. ASSUME NEW p \in Peers, PeerAnswers(p) PROVE SlotInv'
  <2> DEFINE e == handling[p]
  <2>0. /\ e \in Events /\ p \in awaiting[e] /\ NotifyHandledBy(e, p)
        /\ UNCHANGED <<inbounds, signals, loopBatch, stack, batch, queue, running, inbox>>
        /\ UNCHANGED <<context, answered, dropped>>
    BY <1>0, <1>8 DEF PeerAnswers, HandlerFree, TypeOK, HeldByPeers, callVars
  <2>1. /\ \A q \in Peers : handling'[q] = IF q = p THEN None ELSE handling[q]
        /\ \A q \in Peers : calling'[q] = IF q = p THEN None ELSE calling[q]
        /\ handling' \in [Peers -> Events \cup {None}]
        /\ calling' \in [Peers -> Calls \cup {None}]
    BY <1>0, <1>8 DEF PeerAnswers, TypeOK
  <2> HIDE DEF e
  <2>2. /\ awaiting' \in [Events -> SUBSET Peers]
        /\ \A f \in Events : awaiting'[f] = IF f = e THEN awaiting[e] \ {p} ELSE awaiting[f]
    BY <1>0, <2>0 DEF NotifyHandledBy, TypeOK
  <2>3. /\ done \subseteq done' /\ done' \subseteq done \cup {e}
        /\ e \in done' \ done => awaiting[e] \subseteq {p}
    BY <2>0 DEF NotifyHandledBy, LastAnswer
  <2>4. /\ Woken
        /\ slotPc' \in [Events -> {"new", "test", "wait", "asleep", "receive", "run", "returned"}]
    BY <1>0, <2>0, WakeOneMoves DEF NotifyHandledBy
  <2>5. e \in running /\ e \notin done
    BY <1>0, <2>0 DEF RaisedOnce
  <2>6. TypeOK'
    BY <1>0, <2>0, <2>1, <2>2, <2>3, <2>4, <2>5 DEF TypeOK
  <2>7. RaisedOnce' /\ Batches'
    BY <1>0, <2>0, <2>2, <2>3, <2>4, <2>5 DEF RaisedOnce, Batches, Woken
  <2>8. HeldByPeers'
    <3>1. \A q \in Peers : \A j \in 1..Len(inbox[q]) : inbox[q][j] \in Events
      <4>1. \A q \in Peers : inbox[q] \in Seq(Events)
        BY <1>0 DEF TypeOK
      <4> QED
        BY <4>1, ElementOfSeq
    <3>2. \A q \in Peers : handling[q] \in Events \cup {None}
      BY <1>0 DEF TypeOK
    <3>3. \A q \in Peers : \A j \in 1..Len(inbox[q]) :
            q \in awaiting'[inbox[q][j]] /\ inbox[q][j] # handling'[q]
      BY <1>0, <2>1, <2>2, <3>1, Names DEF HeldByPeers, e
    <3>4. \A q \in Peers : handling'[q] # None => q \in awaiting'[handling'[q]]
      BY <1>0, <2>1, <2>2, <3>2 DEF HeldByPeers
    <3>5. \A q \in Peers : calling'[q] # None => handling'[q] # None
      BY <1>0, <2>1 DEF HeldByPeers
    <3> QED
      BY <1>0, <2>0, <3>3, <3>4, <3>5 DEF HeldByPeers
  <2> QED
    BY <2>6, <2>7, <2>8 DEF SlotInv
<1>9. ASSUME NEW c \in Calls, ClientCalls(c) PROVE SlotInv'
  <2>1. PICK x \in {Default, Foreign} : Schedule(c, x)
    BY <1>9 DEF ClientCalls
  <2>2. UNCHANGED <<inbox, handling, calling>>
    BY <1>9 DEF ClientCalls, peerVars
  <2>3. /\ inbounds' \in Seq(Calls) /\ signals' \in Nat
        /\ queue' \in [Events -> Seq(Calls)]
        /\ slotPc' \in [Events -> {"new", "test", "wait", "asleep", "receive", "run", "returned"}]
        /\ context' \in [Calls -> Events \cup {Default, Foreign, None}] /\ dropped' \subseteq Calls
        /\ UNCHANGED <<loopBatch, stack, batch, running, awaiting, done, answered>>
        /\ RaisedOnce' /\ Batches'
    BY <2>1, ScheduleKeeps
  <2>4. TypeOK' /\ HeldByPeers'
    BY <1>0, <2>2, <2>3 DEF TypeOK, HeldByPeers
  <2> QED
    BY <2>3, <2>4 DEF SlotInv
<1>10. CASE UNCHANGED vars
  BY <1>0, <1>10 DEF SlotInv, TypeOK, RaisedOnce, HeldByPeers, Batches, vars, mainVars, itemVars,
                     callVars, peerVars
<1> QED
  BY <1>1, <1>2, <1>3, <1>4, <1>5, <1>6, <1>7, <1>8, <1>9, <1>10 DEF Next, Main, Peer

\* No interleaving of the main thread, the gRPC threads and the peers takes a
\* variable out of its type; in particular only an event that was raised is done.
THEOREM TypeCorrect == Spec => []TypeOK
<1>1. SlotInv => TypeOK
  BY DEF SlotInv
<1> QED
  BY <1>1, SlotInit, SlotNext, PTL DEF Spec

\* The slot of the event a peer handles does not return before the handler's
\* call is answered, whatever the peers do whose handlers do not wait.
THEOREM NoCallIsOrphaned == Spec => []NoOrphanedCall
<1>1. SlotInv => NoOrphanedCall
  BY DEF SlotInv, TypeOK, RaisedOnce, HeldByPeers, NoOrphanedCall
<1> QED
  BY <1>1, SlotInit, SlotNext, PTL DEF Spec

-----------------------------------------------------------------------------
(* The refinement of NestedCalls.  What waits in a context is what its loop  *)
(* has received and not yet executed, followed by what is queued.  Moving    *)
(* the queue into an empty batch, the signal, the sleep and the wake-up of   *)
(* the slot change nothing of it.                                            *)

Line(x) == IF x = Default THEN loopBatch \o inbounds ELSE batch[x] \o queue[x]
Waiting == [x \in Events \cup {Default} |-> Line(x)]
Unsent == {c \in Calls : context[c] = None}

\* What is received comes before what is queued, and joins it at the end.
LEMMA Lines ==
  ASSUME NEW s \in Seq(Calls), NEW t \in Seq(Calls)
  PROVE  /\ s # <<>> => s \o t # <<>> /\ Head(s \o t) = Head(s) /\ Tail(s \o t) = Tail(s) \o t
         /\ \A c \in Calls : s \o Append(t, c) = Append(s \o t, c)
         /\ s \o <<>> = s /\ <<>> \o s = s
<1>1. s \o <<>> = s /\ <<>> \o s = s
  BY ConcatEmptySeq
<1>2. ASSUME NEW c \in Calls PROVE s \o Append(t, c) = Append(s \o t, c)
  <2>1. Append(t, c) = t \o <<c>> /\ s \o t \in Seq(Calls) /\ <<c>> \in Seq(Calls)
    BY AppendIsConcat, ConcatProperties
  <2>2. Append(s \o t, c) = (s \o t) \o <<c>>
    BY <2>1, AppendIsConcat
  <2>3. (s \o t) \o <<c>> = s \o (t \o <<c>>)
    BY <2>1, ConcatAssociative
  <2> QED
    BY <2>1, <2>2, <2>3
<1>3. ASSUME s # <<>> PROVE s \o t # <<>> /\ Head(s \o t) = Head(s) /\ Tail(s \o t) = Tail(s) \o t
  <2> DEFINE u == s \o t
             v == Tail(s) \o t
  <2>1. /\ u \in Seq(Calls) /\ Len(u) = Len(s) + Len(t) /\ Len(t) \in Nat
        /\ \A k \in 1..Len(s) + Len(t) : u[k] = IF k <= Len(s) THEN s[k] ELSE t[k - Len(s)]
    BY ConcatProperties, LenProperties
  <2>2. /\ Len(s) \in Nat \ {0} /\ Tail(s) \in Seq(Calls) /\ Len(Tail(s)) = Len(s) - 1
        /\ \A k \in 1..Len(s) - 1 : Tail(s)[k] = s[k + 1]
        /\ Head(s) = s[1]
    BY <1>3, EmptySeq, HeadTailProperties
  <2>3. /\ v \in Seq(Calls) /\ Len(v) = Len(Tail(s)) + Len(t)
        /\ \A k \in 1..Len(Tail(s)) + Len(t) :
             v[k] = IF k <= Len(Tail(s)) THEN Tail(s)[k] ELSE t[k - Len(Tail(s))]
    BY <2>2, ConcatProperties
  <2> HIDE DEF u, v
  <2>4. u # <<>> /\ Head(u) = u[1] /\ u[1] = s[1]
    BY <2>1, <2>2
  <2>5. /\ Tail(u) \in Seq(Calls) /\ Len(Tail(u)) = Len(u) - 1
        /\ \A k \in 1..Len(u) - 1 : Tail(u)[k] = u[k + 1]
    BY <2>1, <2>4, HeadTailProperties
  <2>6. Len(Tail(u)) = Len(v)
    BY <2>1, <2>2, <2>3, <2>5
  <2>7. ASSUME NEW k \in 1..Len(v) PROVE Tail(u)[k] = v[k]
    <3>1. k \in Nat /\ k >= 1 /\ k <= Len(s) - 1 + Len(t)
      BY <2>1, <2>2, <2>3
    <3>2. Tail(u)[k] = u[k + 1]
      BY <2>5, <2>6, <2>7
    <3>3. k + 1 \in 1..Len(s) + Len(t)
      BY <2>1, <2>2, <3>1
    <3>4. CASE k <= Len(s) - 1
      <4>1. k \in 1..Len(s) - 1 /\ k + 1 <= Len(s) /\ k <= Len(Tail(s))
            /\ k \in 1..Len(Tail(s)) + Len(t)
        BY <2>1, <2>2, <3>1, <3>4
      <4>2. u[k + 1] = s[k + 1]
        BY <2>1, <3>3, <4>1
      <4>3. v[k] = Tail(s)[k]
        BY <2>3, <4>1
      <4>4. Tail(s)[k] = s[k + 1]
        BY <2>2, <4>1
      <4> QED
        BY <3>2, <4>2, <4>3, <4>4
    <3>5. CASE ~(k <= Len(s) - 1)
      <4>1. ~(k + 1 <= Len(s)) /\ ~(k <= Len(Tail(s))) /\ k + 1 - Len(s) = k - Len(Tail(s))
            /\ k \in 1..Len(Tail(s)) + Len(t)
        BY <2>1, <2>2, <3>1, <3>5
      <4>2. u[k + 1] = t[k + 1 - Len(s)]
        BY <2>1, <3>3, <4>1
      <4>3. v[k] = t[k - Len(Tail(s))]
        BY <2>3, <4>1
      <4>4. t[k + 1 - Len(s)] = t[k - Len(Tail(s))]
        BY <4>1
      <4> QED
        BY <3>2, <4>2, <4>3, <4>4
    <3> QED
      BY <3>4, <3>5
  <2>8. Tail(u) = v
    BY <2>3, <2>5, <2>6, <2>7, SeqEqual
  <2> QED
    BY <2>2, <2>4, <2>8 DEF u, v
<1> QED
  BY <1>1, <1>2, <1>3

\* The lines of a state with its types.
LEMMA LineTypes ==
  ASSUME TypeOK, NEW x \in Events \cup {Default}
  PROVE  /\ Line(x) \in Seq(Calls) /\ Waiting[x] = Line(x)
         /\ DOMAIN Waiting = Events \cup {Default}
  BY ConcatProperties DEF TypeOK, Line, Waiting

\* A step that changes one line.
LEMMA OneLine ==
  ASSUME NEW x \in Events \cup {Default}, NEW s, Line(x)' = s,
         \A y \in (Events \cup {Default}) \ {x} : Line(y)' = Line(y)
  PROVE  Waiting' = [Waiting EXCEPT ![x] = s]
<1>1. \A y \in Events \cup {Default} : Line(y)' = IF y = x THEN s ELSE Line(y)
  OBVIOUS
<1>2. Waiting' = [y \in Events \cup {Default} |-> Line(y)']
  BY DEF Waiting
<1>3. [Waiting EXCEPT ![x] = s] = [y \in Events \cup {Default} |-> IF y = x THEN s ELSE Line(y)]
  BY DEF Waiting
<1> QED
  BY <1>1, <1>2, <1>3

\* A step that changes no line.
LEMMA NoLine ==
  ASSUME \A y \in Events \cup {Default} : Line(y)' = Line(y)
  PROVE  Waiting' = Waiting
  BY DEF Waiting

\* An arriving call joins the line of its context, or is refused.
LEMMA ScheduleArrives ==
  ASSUME SlotInv, NEW c \in Calls, NEW x \in Events \cup {Default, Foreign}, Schedule(c, x)
  PROVE  Promise!Refuse(c) \/ (x \in Events \cup {Default} /\ Promise!Arrive(c, x))
<1>0. /\ TypeOK /\ context[c] = None /\ context' = [context EXCEPT ![c] = x] /\ x # None
      /\ UNCHANGED <<loopBatch, stack, batch, running, awaiting, answered>>
      /\ Default \notin Events
  BY Names DEF SlotInv, Schedule, itemVars
<1>1. c \in Unsent /\ Unsent' = Unsent \ {c}
  <2>1. \A d \in Calls : context'[d] = IF d = c THEN x ELSE context[d]
    BY <1>0 DEF TypeOK
  <2> QED
    BY <1>0, <2>1 DEF Unsent
<1>2. inbounds \in Seq(Calls) /\ loopBatch \in Seq(Calls)
      /\ queue \in [Events -> Seq(Calls)] /\ batch \in [Events -> Seq(Calls)] /\ running \subseteq Events
  BY <1>0 DEF TypeOK
<1>3. CASE x = Default /\ inbounds' = Append(inbounds, c) /\ queue' = queue
  <2>1. Line(Default)' = Append(Line(Default), c)
    BY <1>0, <1>2, <1>3, Lines DEF Line
  <2>2. \A y \in Events : Line(y)' = Line(y)
    BY <1>0, <1>3 DEF Line
  <2>3. Waiting' = [Waiting EXCEPT ![Default] = Append(@, c)]
    <3>1. \A y \in (Events \cup {Default}) \ {Default} : Line(y)' = Line(y)
      BY <2>2
    <3>2. Waiting' = [Waiting EXCEPT ![Default] = Append(Line(Default), c)]
      BY <2>1, <3>1, OneLine
    <3> QED
      BY <1>0, <3>2, LineTypes
  <2>4. Promise!Arrive(c, Default)
    BY <1>0, <1>1, <2>3 DEF Promise!Arrive, Waiting, Line, Unsent
  <2> QED
    BY <1>3, <2>4
<1>4. CASE x # Default /\ x \notin running /\ UNCHANGED <<inbounds, queue>>
  <2>1. Waiting' = Waiting
    BY <1>0, <1>4 DEF Waiting, Line
  <2> QED
    BY <1>0, <1>1, <2>1 DEF Promise!Refuse, Waiting, Line, Unsent
<1>5. CASE x \in running /\ queue' = [queue EXCEPT ![x] = Append(queue[x], c)]
           /\ inbounds' = inbounds
  <2>1. x \in Events /\ x # Default /\ queue'[x] = Append(queue[x], c)
        /\ \A y \in Events : y # x => queue'[y] = queue[y]
    BY <1>0, <1>2, <1>5
  <2>2. Line(x)' = Append(Line(x), c)
    <3>1. batch[x] \in Seq(Calls) /\ queue[x] \in Seq(Calls)
      BY <1>2, <2>1
    <3>2. batch[x] \o Append(queue[x], c) = Append(batch[x] \o queue[x], c)
      BY <3>1, Lines
    <3>3. Line(x)' = batch[x] \o Append(queue[x], c) /\ Line(x) = batch[x] \o queue[x]
      BY <1>0, <2>1, ZenonT(30) DEF Line
    <3> QED
      BY <3>2, <3>3
  <2>3. \A y \in (Events \cup {Default}) \ {x} : Line(y)' = Line(y)
    BY <1>0, <1>5, <2>1 DEF Line
  <2>4. Waiting' = [Waiting EXCEPT ![x] = Append(@, c)]
    <3>1. Waiting' = [Waiting EXCEPT ![x] = Append(Line(x), c)]
      BY <2>1, <2>2, <2>3, OneLine
    <3> QED
      BY <1>0, <2>1, <3>1, LineTypes
  <2>5. Promise!Arrive(c, x)
    BY <1>0, <1>1, <1>5, <2>4 DEF Promise!Arrive, Waiting, Line, Unsent
  <2> QED
    BY <2>1, <2>5
<1>6. \/ x = Default /\ inbounds' = Append(inbounds, c) /\ queue' = queue
      \/ x # Default /\ x \notin running /\ UNCHANGED <<inbounds, queue>>
      \/ /\ x \in running /\ queue' = [queue EXCEPT ![x] = Append(queue[x], c)]
         /\ inbounds' = inbounds
  BY DEF Schedule
<1> QED
  BY <1>3, <1>4, <1>5, <1>6

\* What a loop executes is the first of its line.
LEMMA RunsFirst ==
  ASSUME TypeOK, NEW x \in Events \cup {Default}, NEW s \in Seq(Calls), NEW t \in Seq(Calls),
         s # <<>>, Line(x) = s \o t, Line(x)' = Tail(s) \o t,
         \A y \in (Events \cup {Default}) \ {x} : Line(y)' = Line(y),
         x = IF stack = <<>> THEN Default ELSE Head(stack),
         stack' = <<Head(s)>> \o stack,
         UNCHANGED <<context, awaiting, running, answered>>
  PROVE  Promise!Run(x)
<1>1. Line(x) # <<>> /\ Head(Line(x)) = Head(s) /\ Line(x)' = Tail(Line(x))
  <2>1. s \o t # <<>> /\ Head(s \o t) = Head(s) /\ Tail(s \o t) = Tail(s) \o t
    BY Lines, ZenonT(30)
  <2> QED
    BY <2>1
<1>2. Waiting[x] = Line(x)
  BY LineTypes
<1>3. Waiting' = [Waiting EXCEPT ![x] = Tail(@)]
  <2>1. Waiting' = [Waiting EXCEPT ![x] = Tail(Line(x))]
    BY <1>1, OneLine
  <2> QED
    BY <1>2, <2>1
<1>4. Unsent' = Unsent
  BY DEF Unsent
<1> QED
  BY <1>1, <1>2, <1>3, <1>4 DEF Promise!Run, Promise!Current, Waiting, Line, Unsent

\* Every step is a step of the nested calls or changes nothing of them.
LEMMA PromiseStep ==
  ASSUME SlotInv, [Next]_vars PROVE [Promise!Next]_(Promise!nvars)
<1>0. /\ TypeOK /\ RaisedOnce /\ HeldByPeers /\ Batches /\ Default \notin Events /\ None # Default
      /\ inbounds \in Seq(Calls) /\ loopBatch \in Seq(Calls) /\ stack \in Seq(Events \cup Calls)
      /\ queue \in [Events -> Seq(Calls)] /\ batch \in [Events -> Seq(Calls)]
      /\ None \notin Events \cup Calls
  BY Names DEF SlotInv, TypeOK
<1>1. CASE HandleInbound
  <2>1. /\ loopBatch = <<>> /\ loopBatch' = inbounds /\ inbounds' = <<>>
        /\ UNCHANGED <<stack, batch, queue, awaiting, running, context, answered>>
    BY <1>1 DEF HandleInbound, InEventLoop, itemVars, callVars
  <2>2. \A y \in Events \cup {Default} : Line(y)' = Line(y)
    BY <1>0, <2>1, Lines DEF Line
  <2>3. Waiting' = Waiting /\ Unsent' = Unsent
    BY <2>1, <2>2, NoLine DEF Unsent
  <2> QED
    BY <2>1, <2>3 DEF Promise!nvars, Waiting, Line, Unsent
<1>2. CASE ExecuteFromLoop
  <2>1. /\ stack = <<>> /\ loopBatch # <<>> /\ loopBatch' = Tail(loopBatch)
        /\ stack' = <<Head(loopBatch)>> \o stack
        /\ UNCHANGED <<inbounds, batch, queue, awaiting, running, context, answered>>
    BY <1>2 DEF ExecuteFromLoop, LoopMayExecute, itemVars, callVars
  <2>2. /\ Line(Default) = loopBatch \o inbounds /\ Line(Default)' = Tail(loopBatch) \o inbounds
        /\ \A y \in (Events \cup {Default}) \ {Default} : Line(y)' = Line(y)
    BY <2>1 DEF Line
  <2>3. Promise!Run(Default)
    BY <1>0, <2>1, <2>2, RunsFirst
  <2> QED
    BY <2>3 DEF Promise!Next, Promise!Contexts
<1>3. CASE FinishCall
  <2>1. /\ Top \in Calls /\ answered' = answered \cup {Top} /\ stack' = Tail(stack)
        /\ UNCHANGED <<inbounds, loopBatch, batch, queue, awaiting, running, context>>
    BY <1>3 DEF FinishCall, itemVars
  <2>2. stack # <<>> /\ Top = Head(stack)
    BY <1>0, <2>1 DEF Top
  <2>3. Waiting' = Waiting /\ Unsent' = Unsent
    BY <2>1 DEF Waiting, Line, Unsent
  <2>4. Promise!Answer
    BY <2>1, <2>2, <2>3 DEF Promise!Answer, Promise!Current, Waiting, Line, Unsent
  <2> QED
    BY <2>4 DEF Promise!Next
<1>4. ASSUME NEW e \in Events, NEW P \in SUBSET Peers, Raise(e, P) PROVE Promise!Raise(e, P)
  <2>1. /\ e \notin running /\ running' = running \cup {e} /\ stack' = <<e>> \o stack
        /\ awaiting' = [awaiting EXCEPT ![e] = P]
        /\ UNCHANGED <<inbounds, loopBatch, batch, queue, context, answered>>
    BY <1>0, <1>4 DEF Raise, OutboundSend, RaisedOnce, callVars
  <2>2. Promise!Current \in Calls \cup {Default}
    BY <1>0, <1>4 DEF Raise, InEventLoop, Top, Promise!Current
  <2>3. Waiting' = Waiting /\ Unsent' = Unsent
    BY <2>1 DEF Waiting, Line, Unsent
  <2> QED
    BY <2>1, <2>2, <2>3 DEF Promise!Raise, Waiting, Line, Unsent
<1>5. ASSUME NEW e \in Events, Slot(e) PROVE [Promise!Next]_(Promise!nvars)
  <2>0. UNCHANGED <<inbounds, loopBatch, awaiting, running, done, context, answered>>
        /\ stack # <<>> /\ Head(stack) = e /\ Unsent' = Unsent
    BY <1>0, <1>5 DEF Slot, SlotTest, SlotWait, SlotReceive, SlotRun, Top, itemVars, callVars,
                      Unsent
  <2>1. CASE SlotTest(e)
    <3>1. UNCHANGED <<batch, queue>>
      BY <2>1 DEF SlotTest
    <3>2. Waiting' = Waiting
      BY <2>0, <3>1 DEF Waiting, Line
    <3>3. CASE e \in done
      <4>1. stack' = Tail(stack) /\ awaiting[e] = {}
        BY <1>0, <2>1, <3>3 DEF SlotTest, RaisedOnce
      <4>2. Promise!Return(e)
        BY <2>0, <3>2, <4>1 DEF Promise!Return, Promise!Current, Waiting, Line, Unsent
      <4> QED
        BY <4>2 DEF Promise!Next
    <3>4. CASE e \notin done
      <4>1. stack' = stack
        BY <2>1, <3>4 DEF SlotTest
      <4> QED
        BY <2>0, <3>2, <4>1 DEF Promise!nvars, Waiting, Line, Unsent
    <3> QED
      BY <3>3, <3>4
  <2>2. CASE SlotWait(e)
    <3>1. UNCHANGED <<batch, queue, stack>>
      BY <2>2 DEF SlotWait
    <3>2. Waiting' = Waiting
      BY <2>0, <3>1 DEF Waiting, Line
    <3> QED
      BY <2>0, <3>1, <3>2 DEF Promise!nvars, Waiting, Line, Unsent
  <2>3. CASE SlotReceive(e)
    <3>1. batch[e] = <<>> /\ stack' = stack
          /\ batch'[e] = queue[e] /\ queue'[e] = <<>>
          /\ \A f \in Events : f # e => batch'[f] = batch[f] /\ queue'[f] = queue[f]
      BY <1>0, <2>3 DEF SlotReceive, Received, LeftBehind, Batches
    <3>2. batch'[e] \o queue'[e] = batch[e] \o queue[e]
      <4>1. queue[e] \in Seq(Calls)
        BY <1>0
      <4> QED
        BY <3>1, <4>1, Lines
    <3>3. \A y \in Events \cup {Default} : Line(y)' = Line(y)
      BY <1>0, <2>0, <3>1, <3>2 DEF Line
    <3>4. Waiting' = Waiting
      BY <3>3, NoLine
    <3> QED
      BY <2>0, <3>1, <3>4 DEF Promise!nvars, Waiting, Line, Unsent
  <2>4. CASE SlotRun(e)
    <3>1. queue' = queue
      BY <2>4 DEF SlotRun
    <3>2. CASE /\ batch[e] # <<>> /\ stack' = <<Head(batch[e])>> \o stack
               /\ batch' = [batch EXCEPT ![e] = Tail(@)]
      <4>1. /\ batch'[e] = Tail(batch[e]) /\ batch[e] \in Seq(Calls) /\ queue[e] \in Seq(Calls)
            /\ \A f \in Events : f # e => batch'[f] = batch[f]
        BY <1>0, <3>2
      <4>2. Line(e) = batch[e] \o queue[e] /\ Line(e)' = Tail(batch[e]) \o queue[e]
            /\ \A y \in (Events \cup {Default}) \ {e} : Line(y)' = Line(y)
        BY <1>0, <2>0, <3>1, <4>1 DEF Line
      <4>3. Promise!Run(e)
        BY <1>0, <2>0, <3>2, <4>1, <4>2, RunsFirst
      <4> QED
        BY <4>3 DEF Promise!Next, Promise!Contexts
    <3>3. CASE UNCHANGED <<stack, batch>>
      <4>1. Waiting' = Waiting
        BY <2>0, <3>1, <3>3 DEF Waiting, Line
      <4> QED
        BY <2>0, <3>3, <4>1 DEF Promise!nvars, Waiting, Line, Unsent
    <3> QED
      BY <2>4, <3>2, <3>3 DEF SlotRun
  <2> QED
    BY <1>5, <2>1, <2>2, <2>3, <2>4 DEF Slot
<1>6. ASSUME NEW p \in Peers, PeerTakes(p) PROVE UNCHANGED Promise!nvars
  BY <1>6 DEF PeerTakes, mainVars, itemVars, callVars, Promise!nvars
<1>7. ASSUME NEW p \in Peers, NEW c \in Calls, PeerCalls(p, c) PROVE Promise!Next
  <2>1. PICK x \in Events : Schedule(c, x)
    BY <1>0, <1>7 DEF PeerCalls, HandlerFree, TypeOK
  <2>2. Promise!Refuse(c) \/ (x \in Events \cup {Default} /\ Promise!Arrive(c, x))
    BY <2>1, ScheduleArrives
  <2> QED
    BY <2>2 DEF Promise!Next, Promise!Contexts
<1>8. ASSUME NEW p \in Peers, PeerAnswers(p) PROVE Promise!Next
  <2> DEFINE e == handling[p]
  <2>1. /\ e \in Events /\ p \in awaiting[e] /\ awaiting' = [awaiting EXCEPT ![e] = @ \ {p}]
        /\ UNCHANGED <<inbounds, loopBatch, stack, batch, queue, running, context, answered>>
    BY <1>0, <1>8 DEF PeerAnswers, HandlerFree, NotifyHandledBy, TypeOK, HeldByPeers, callVars
  <2> HIDE DEF e
  <2>2. Waiting' = Waiting /\ Unsent' = Unsent
    BY <2>1 DEF Waiting, Line, Unsent
  <2>3. Promise!Handle(e, p)
    BY <2>1, <2>2 DEF Promise!Handle, Waiting, Line, Unsent
  <2> QED
    BY <2>1, <2>3 DEF Promise!Next
<1>9. ASSUME NEW c \in Calls, ClientCalls(c) PROVE Promise!Next
  <2>1. PICK x \in {Default, Foreign} : Schedule(c, x)
    BY <1>9 DEF ClientCalls
  <2>2. Promise!Refuse(c) \/ (x \in Events \cup {Default} /\ Promise!Arrive(c, x))
    BY <2>1, ScheduleArrives
  <2> QED
    BY <2>2 DEF Promise!Next, Promise!Contexts
<1>10. CASE UNCHANGED vars
  BY <1>10 DEF vars, mainVars, itemVars, callVars, Promise!nvars
<1> QED
  BY <1>1, <1>2, <1>3, <1>4, <1>5, <1>6, <1>7, <1>8, <1>9, <1>10
     DEF Next, Main, Peer, Promise!Next

\* At first nothing runs and no call has arrived.
LEMMA PromiseInit == Init => Promise!Init
<1> SUFFICES ASSUME Init PROVE Promise!Init
  OBVIOUS
<1>1. Default \notin Events
  BY Names
<1>2. \A x \in Events \cup {Default} : Line(x) = <<>>
  BY <1>1 DEF Init, Line
<1>3. Waiting = [x \in Events \cup {Default} |-> <<>>]
  BY <1>2 DEF Waiting
<1>4. Unsent = Calls
  BY DEF Init, Unsent
<1> QED
  BY <1>3, <1>4 DEF Init, Promise!Init, Promise!Contexts, Waiting, Line, Unsent

\* The slot's queues, batches, sleep and wake-ups keep the server's promise:
\* calls and events nest as on one stack, every call runs once, on top of the
\* event in whose context it was made, in the order of arrival, and an event
\* leaves the stack only when all the peers it was sent to have handled it.
THEOREM CallsNest == Spec => PromiseSpec
<1>1. SlotInv /\ [Next]_vars => [Promise!Next]_(Promise!nvars)
  BY PromiseStep
<1> QED
  BY <1>1, SlotInit, SlotNext, PromiseInit, PTL DEF Spec, PromiseSpec, Promise!Spec
================================================================================
