--------------------------- MODULE InboundCall_proofs ---------------------------
(***************************************************************************)
(* Proofs about InboundCall, for any set of calls and any of them that     *)
(* throw: the types of its state, that a call that was started before it   *)
(* was canceled is finished once, and what CANCELLED means to a client.    *)
(***************************************************************************)
EXTENDS InboundCall, SequenceTheorems, TLAPS

-----------------------------------------------------------------------------
(* Type correctness: the types of TypeOK, and that the main thread has a   *)
(* call whenever it is at work.                                            *)

Busy == pc = "idle" <=> current = None

TypeInv == TypeOK /\ Busy

\* Finish leaves a status and a fault of their types.
LEMMA FinishTypes ==
  ASSUME TypeOK, NEW c \in Calls, NEW s \in {"result", "cancelled"}, Finish(c, s)
  PROVE  /\ status' \in [Calls -> {"none", "result", "cancelled"}]
         /\ fault' = NoFault \/ fault' \in [kind : FaultKinds, call : Calls]
<1>1. CASE UNCHANGED status /\ (Fail("use_after_delete", c) \/ Fail("second_finish", c))
  BY <1>1 DEF TypeOK, Fail, FaultKinds
<1>2. CASE status' = [status EXCEPT ![c] = s] /\ UNCHANGED fault
  BY <1>2 DEF TypeOK
<1> QED
  BY <1>1, <1>2 DEF Finish

\* The types hold initially.
LEMMA TypeInit == Init => TypeInv
<1> SUFFICES ASSUME Init PROVE TypeInv
  OBVIOUS
<1>1. queue \in Seq(arrived)
  BY EmptySeq DEF Init
<1> QED
  BY <1>1 DEF Init, TypeInv, TypeOK, Busy

\* Every step keeps the types.
LEMMA TypeNext == TypeInv /\ [Next]_vars => TypeInv'
<1> SUFFICES ASSUME TypeOK, Busy, [Next]_vars PROVE TypeOK' /\ Busy'
  BY DEF TypeInv
<1>0. arrived \subseteq Calls /\ queue \in Seq(arrived)
  BY DEF TypeOK
<1>1. ASSUME NEW c \in Calls, Schedule(c) PROVE TypeOK' /\ Busy'
  <2>1. arrived' = arrived \cup {c} /\ queue \in Seq(arrived') /\ c \in arrived'
    BY <1>0, <1>1, SeqMonotonic DEF Schedule
  <2>2. queue' \in Seq(arrived')
    BY <1>1, <2>1, AppendProperties DEF Schedule
  <2>3. fault' = NoFault \/ fault' \in [kind : FaultKinds, call : Calls]
    BY <1>1 DEF Schedule, Fail, FaultKinds, TypeOK
  <2> QED
    BY <1>1, <2>1, <2>2, <2>3 DEF Schedule, TypeOK, Busy
<1>2. CASE Take
  <2>1. Head(queue) \in arrived /\ Tail(queue) \in Seq(arrived)
    BY <1>0, <1>2, HeadTailProperties DEF Take
  <2>2. Head(queue) # None
    BY <1>0, <2>1, CallAssumption
  <2> QED
    BY <1>2, <2>1, <2>2 DEF Take, TypeOK, Busy
<1>3. CASE Start
  <2>1. current \in arrived
    BY <1>3 DEF Start, TypeOK, Busy
  <2> QED
    BY <1>3, <2>1 DEF Start, TypeOK, Busy
<1>4. CASE Work
  <2>1. current \in arrived /\ current \in Calls
    BY <1>0, <1>4 DEF Work, TypeOK, Busy
  <2>2. effects' \subseteq arrived /\ pc' \in {"work", "finish"}
    BY <1>4, <2>1 DEF Work, TypeOK
  <2>3. fault' = NoFault \/ fault' \in [kind : FaultKinds, call : Calls]
    BY <1>4, <2>1 DEF Work, TypeOK, Fail, FaultKinds
  <2> QED
    BY <1>4, <2>2, <2>3 DEF Work, TypeOK, Busy
<1>5. CASE Answer
  <2>1. current \in Calls
    BY <1>0, <1>5 DEF Answer, TypeOK, Busy
  <2>2. /\ status' \in [Calls -> {"none", "result", "cancelled"}]
        /\ fault' = NoFault \/ fault' \in [kind : FaultKinds, call : Calls]
    BY <1>5, <2>1, FinishTypes DEF Answer, AnswerResult
  <2> QED
    BY <1>5, <2>2 DEF Answer, Returned, TypeOK, Busy
<1>6. ASSUME NEW c \in Calls, OnCancel(c) PROVE TypeOK' /\ Busy'
  BY <1>6 DEF OnCancel, TypeOK, Busy
<1>7. ASSUME NEW c \in Calls, OnCancelTest(c) PROVE TypeOK' /\ Busy'
  <2>1. /\ status' \in [Calls -> {"none", "result", "cancelled"}]
        /\ fault' = NoFault \/ fault' \in [kind : FaultKinds, call : Calls]
    <3>1. CASE UNCHANGED <<status, fault>>
      BY <3>1 DEF TypeOK
    <3>2. CASE Finish(c, "cancelled")
      BY <3>2, FinishTypes
    <3> QED
      BY <1>7, <3>1, <3>2 DEF OnCancelTest
  <2> QED
    BY <1>7, <2>1 DEF OnCancelTest, TypeOK, Busy
<1>8. ASSUME NEW c \in Calls, OnDone(c) PROVE TypeOK' /\ Busy'
  BY <1>8 DEF OnDone, TypeOK, Busy
<1>9. CASE UNCHANGED vars
  BY <1>9 DEF vars, TypeOK, Busy
<1> QED
  BY <1>1, <1>2, <1>3, <1>4, <1>5, <1>6, <1>7, <1>8, <1>9 DEF Next, Main

\* Every reachable state of InboundCall has the types of TypeOK.
THEOREM TypeCorrect == Spec => []TypeOK
<1>1. Spec => []TypeInv
  BY TypeInit, TypeNext, PTL DEF Spec
<1>2. TypeInv => TypeOK
  BY DEF TypeInv
<1> QED
  BY <1>1, <1>2, PTL
-----------------------------------------------------------------------------
(* StartedFinishesOnce and CancelledHasNoEffect.  Finish can find the       *)
(* reactor finished or deleted only when OnCancel finished it first, and   *)
(* OnCancel finishes a call it has marked canceled and not seen started.   *)
(* The queue matters because a call is executed once: what is queued was   *)
(* not started, has had no effect and was not answered with a result, and  *)
(* is queued once.                                                         *)

\* A queued call was not executed, and is not queued twice.
QueueFresh ==
  /\ \A i \in 1..Len(queue) :
       /\ queue[i] \notin started \cup effects \cup {current}
       /\ status[queue[i]] # "result"
  /\ \A i, j \in 1..Len(queue) : queue[i] = queue[j] => i = j

\* Nor was the call the main thread has, up to where it is.
CurrentFresh ==
  /\ current \in Calls => status[current] # "result"
  /\ pc = "start" => current \notin started \cup effects

\* Who answered a call, and that only an answered one is deleted.
StatusOrigin ==
  /\ \A c \in Calls : status[c] # "none" => c \in arrived
  /\ \A c \in Calls : status[c] = "cancelled" => c \in canceled \ started
  /\ \A c \in Calls : cancelPc[c] = "test" => c \in canceled
  /\ \A c \in deleted : status[c] # "none"

\* Whose operation was applied: the current call, an answered one, or the
\* one the process ended with.
EffectOrigin ==
  \A c \in effects : c = current \/ status[c] = "result" \/ c = fault.call

FaultOrigin ==
  fault.kind \in {"second_finish", "use_after_delete"} => fault.call \in canceled \ started

CallInv ==
  TypeInv /\ QueueFresh /\ CurrentFresh /\ StatusOrigin /\ EffectOrigin /\ FaultOrigin

\* At first no call has arrived.
LEMMA CallInit == Init => CallInv
<1> SUFFICES ASSUME Init PROVE CallInv
  OBVIOUS
<1>1. TypeInv
  BY TypeInit
<1>2. QueueFresh
  BY DEF Init, QueueFresh
<1>3. CurrentFresh
  BY CallAssumption DEF Init, CurrentFresh
<1>4. StatusOrigin /\ EffectOrigin /\ FaultOrigin
  BY DEF Init, StatusOrigin, EffectOrigin, FaultOrigin, NoFault
<1> QED
  BY <1>1, <1>2, <1>3, <1>4 DEF CallInv

\* The queue of arrived calls grows by one that had not arrived.
LEMMA FreshSchedule ==
  ASSUME CallInv, NEW c \in Calls, Schedule(c) PROVE QueueFresh'
<1>1. /\ queue \in Seq(arrived) /\ c \notin arrived
      /\ started \subseteq arrived /\ effects \subseteq arrived
      /\ current \in arrived \cup {None} /\ c # None
  BY CallAssumption DEF CallInv, TypeInv, TypeOK, Schedule
<1>2. status[c] = "none"
  BY <1>1 DEF CallInv, StatusOrigin
<1>3. UNCHANGED <<started, effects, current, status>>
  BY DEF Schedule
<1>4. CASE queue' = queue
  BY <1>3, <1>4 DEF CallInv, QueueFresh
<1>5. CASE queue' = Append(queue, c)
  <2>1. /\ Len(queue') = Len(queue) + 1 /\ Len(queue) \in Nat
        /\ \A i \in 1..Len(queue) : queue'[i] = queue[i] /\ queue[i] \in arrived
        /\ queue'[Len(queue) + 1] = c
    BY <1>1, <1>5, AppendProperties, ElementOfSeq, LenProperties
  <2>2. \A i \in 1..Len(queue') : i \in 1..Len(queue) \/ i = Len(queue) + 1
    BY <2>1
  <2>3. ASSUME NEW i \in 1..Len(queue')
        PROVE  /\ queue'[i] \notin started \cup effects \cup {current}
               /\ status[queue'[i]] # "result"
    <3>1. CASE i \in 1..Len(queue)
      BY <2>1, <3>1 DEF CallInv, QueueFresh
    <3>2. CASE i = Len(queue) + 1
      BY <1>1, <1>2, <2>1, <3>2
    <3> QED
      BY <2>2, <3>1, <3>2
  <2>4. ASSUME NEW i \in 1..Len(queue'), NEW j \in 1..Len(queue'), queue'[i] = queue'[j]
        PROVE  i = j
    <3>1. CASE i \in 1..Len(queue) /\ j \in 1..Len(queue)
      BY <2>1, <2>4, <3>1 DEF CallInv, QueueFresh
    <3>2. CASE i = Len(queue) + 1 \/ j = Len(queue) + 1
      BY <1>1, <2>1, <2>2, <2>4, <3>2
    <3> QED
      BY <2>2, <3>1, <3>2
  <2> QED
    BY <1>3, <2>3, <2>4 DEF QueueFresh
<1> QED
  BY <1>4, <1>5 DEF Schedule

\* The rest of the queue stays fresh when its first call is taken or skipped.
LEMMA FreshTake ==
  ASSUME CallInv, Take PROVE QueueFresh' /\ CurrentFresh'
<1>1. /\ queue \in Seq(arrived) /\ queue # <<>>
      /\ Len(queue) \in Nat \ {0}
  BY LenProperties, EmptySeq DEF CallInv, TypeInv, TypeOK, Take
<1>2. /\ Len(queue') = Len(queue) - 1
      /\ \A i \in 1..Len(queue') : queue'[i] = queue[i + 1] /\ i + 1 \in 1..Len(queue)
      /\ Head(queue) = queue[1] /\ 1 \in 1..Len(queue)
  BY <1>1, HeadTailProperties DEF Take
<1>3. UNCHANGED <<started, effects, status>> /\ current' \in {current, Head(queue)}
  BY DEF Take
<1>4. ASSUME NEW i \in 1..Len(queue')
      PROVE  /\ queue'[i] \notin started \cup effects \cup {current'}
             /\ status[queue'[i]] # "result"
  <2>1. queue'[i] = queue[i + 1] /\ i + 1 \in 1..Len(queue) /\ i + 1 # 1
    BY <1>1, <1>2
  <2>2. queue[i + 1] # queue[1]
    BY <1>2, <2>1 DEF CallInv, QueueFresh
  <2> QED
    BY <1>2, <1>3, <2>1, <2>2 DEF CallInv, QueueFresh
<1>5. ASSUME NEW i \in 1..Len(queue'), NEW j \in 1..Len(queue'), queue'[i] = queue'[j]
      PROVE  i = j
  <2>1. i + 1 = j + 1
    BY <1>2, <1>5 DEF CallInv, QueueFresh
  <2> QED
    BY <1>1, <1>2, <2>1
<1>6. CurrentFresh'
  <2>1. CASE UNCHANGED <<current, pc>>
    BY <1>3, <2>1 DEF CallInv, CurrentFresh
  <2>2. CASE current' = queue[1]
    BY <1>2, <1>3, <2>2 DEF CallInv, QueueFresh, CurrentFresh
  <2> QED
    BY <1>2, <2>1, <2>2 DEF Take
<1> QED
  BY <1>3, <1>4, <1>5, <1>6 DEF QueueFresh

\* An answer keeps who answered and whose effects they are; it fails only for
\* a call that was canceled before it was started.
LEMMA FinishKeeps ==
  ASSUME CallInv, NEW c \in Calls, NEW s \in {"result", "cancelled"}, Finish(c, s),
         c \in arrived, s = "cancelled" => c \in canceled \ started,
         s = "result" => status[c] # "result",
         UNCHANGED <<arrived, started, canceled, cancelPc, deleted>>
  PROVE  /\ StatusOrigin' /\ FaultOrigin'
         /\ \A d \in Calls : d # c => status'[d] = status[d]
         /\ status'[c] = s \/ fault'.call = c
<1>0. TypeOK /\ StatusOrigin
  BY DEF CallInv, TypeInv
<1>1. CASE status[c] = "none" /\ status' = [status EXCEPT ![c] = s] /\ UNCHANGED fault
  <2>1. \A d \in Calls : status'[d] = IF d = c THEN s ELSE status[d]
    BY <1>0, <1>1 DEF TypeOK
  <2>2. StatusOrigin'
    BY <1>0, <2>1 DEF StatusOrigin, TypeOK
  <2>3. FaultOrigin'
    BY <1>1 DEF CallInv, FaultOrigin
  <2> QED
    BY <2>1, <2>2, <2>3
<1>2. CASE /\ status[c] # "none" /\ UNCHANGED status
           /\ Fail("use_after_delete", c) \/ Fail("second_finish", c)
  <2>1. c \in canceled \ started
    <3>1. status[c] \in {"none", "result", "cancelled"}
      BY <1>0 DEF TypeOK
    <3>2. status[c] = "cancelled" \/ s = "cancelled"
      BY <1>2, <3>1
    <3> QED
      BY <1>0, <3>2 DEF StatusOrigin
  <2>2. StatusOrigin'
    BY <1>0, <1>2 DEF StatusOrigin
  <2>3. FaultOrigin' /\ fault'.call = c
    BY <1>2, <2>1 DEF FaultOrigin, Fail
  <2> QED
    BY <1>2, <2>2, <2>3
<1>3. c \in deleted => status[c] # "none"
  BY <1>0 DEF StatusOrigin
<1> QED
  BY <1>1, <1>2, <1>3 DEF Finish

\* Every step keeps the invariant.
LEMMA CallNext == CallInv /\ [Next]_vars => CallInv'
<1> SUFFICES ASSUME CallInv, [Next]_vars
             PROVE  QueueFresh' /\ CurrentFresh' /\ StatusOrigin' /\ EffectOrigin' /\ FaultOrigin'
  BY TypeNext DEF CallInv
<1>0. TypeOK /\ Busy /\ QueueFresh /\ CurrentFresh /\ StatusOrigin /\ EffectOrigin /\ FaultOrigin
  BY DEF CallInv, TypeInv
<1>1. ASSUME NEW c \in Calls, Schedule(c)
      PROVE QueueFresh' /\ CurrentFresh' /\ StatusOrigin' /\ EffectOrigin' /\ FaultOrigin'
  <2>1. fault.call = None /\ fault.kind = "none" /\ None \notin effects
    BY <1>0, <1>1, CallAssumption DEF Schedule, Alive, NoFault, TypeOK
  <2>2. EffectOrigin'
    BY <1>0, <1>1, <2>1 DEF Schedule, EffectOrigin
  <2>3. FaultOrigin'
    BY <1>0, <1>1, <2>1 DEF Schedule, FaultOrigin, Fail
  <2>4. CurrentFresh' /\ StatusOrigin'
    BY <1>0, <1>1 DEF Schedule, CurrentFresh, StatusOrigin
  <2> QED
    BY <1>1, <2>2, <2>3, <2>4, FreshSchedule
<1>2. CASE Take
  <2>1. QueueFresh' /\ CurrentFresh'
    BY <1>2, FreshTake
  <2>2. \A c \in effects : c # current
    BY <1>0, <1>2, CallAssumption DEF Take, Busy, TypeOK
  <2>3. StatusOrigin' /\ EffectOrigin' /\ FaultOrigin'
    BY <1>0, <1>2, <2>2 DEF Take, StatusOrigin, EffectOrigin, FaultOrigin
  <2> QED
    BY <2>1, <2>3
<1>3. CASE Start
  <2>1. current \in Calls /\ started' = started \cup ({current} \ canceled)
    BY <1>0, <1>3 DEF Start, Busy, TypeOK
  <2>2. UNCHANGED <<arrived, queue, canceled, current, effects, cancelPc, status, deleted, fault>>
    BY <1>3 DEF Start
  <2>3. QueueFresh' /\ CurrentFresh' /\ EffectOrigin'
    BY <1>0, <1>3, <2>1, <2>2 DEF Start, QueueFresh, CurrentFresh, EffectOrigin
  <2>4. StatusOrigin' /\ FaultOrigin'
    BY <1>0, <2>1, <2>2 DEF StatusOrigin, FaultOrigin
  <2> QED
    BY <2>3, <2>4
<1>4. CASE Work
  <2>1. current \in Calls /\ effects' \subseteq effects \cup {current} /\ pc' # "start"
    BY <1>0, <1>4 DEF Work, Busy, TypeOK
  <2>2. UNCHANGED <<arrived, queue, started, canceled, current, cancelPc, status, deleted>>
    BY <1>4 DEF Work
  <2>3. QueueFresh' /\ CurrentFresh' /\ StatusOrigin'
    BY <1>0, <2>1, <2>2 DEF QueueFresh, CurrentFresh, StatusOrigin
  <2>4. EffectOrigin'
    <3>1. fault.call = None /\ None \notin effects
      BY <1>0, <1>4, CallAssumption DEF Work, Alive, NoFault, TypeOK
    <3> QED
      BY <1>0, <2>1, <2>2, <3>1 DEF EffectOrigin
  <2>5. FaultOrigin'
    <3>1. CASE current \in deleted
      <4>1. current \in canceled \ started
        BY <1>0, <2>1, <3>1 DEF StatusOrigin, CurrentFresh, TypeOK
      <4> QED
        BY <1>4, <2>2, <3>1, <4>1 DEF Work, Fail, FaultOrigin
    <3>2. CASE current \notin deleted
      BY <1>0, <1>4, <3>2 DEF Work, Fail, FaultOrigin
    <3> QED
      BY <3>1, <3>2
  <2> QED
    BY <2>3, <2>4, <2>5
<1>5. CASE Answer
  <2>1. current \in Calls /\ current \in arrived /\ status[current] # "result"
    BY <1>0, <1>5 DEF Answer, Busy, TypeOK, CurrentFresh
  <2>2. /\ UNCHANGED <<arrived, queue, started, canceled, effects, cancelPc, deleted>>
        /\ current' = None /\ pc' = "idle" /\ Finish(current, "result")
    BY <1>5 DEF Answer, AnswerResult, Returned
  <2>3. /\ StatusOrigin' /\ FaultOrigin'
        /\ \A d \in Calls : d # current => status'[d] = status[d]
        /\ status'[current] = "result" \/ fault'.call = current
    BY <2>1, <2>2, FinishKeeps
  <2>4. QueueFresh'
    <3>1. \A i \in 1..Len(queue) : queue[i] \in Calls /\ queue[i] # None
      BY <1>0, ElementOfSeq, CallAssumption DEF TypeOK
    <3>2. \A i \in 1..Len(queue) : status'[queue[i]] = status[queue[i]]
      BY <1>0, <2>3, <3>1 DEF QueueFresh
    <3> QED
      BY <1>0, <2>2, <3>1, <3>2 DEF QueueFresh
  <2>5. CurrentFresh'
    BY <2>2, CallAssumption DEF CurrentFresh
  <2>6. EffectOrigin'
    <3>1. \A c \in effects : c = current \/ status[c] = "result"
      BY <1>0, <1>5, CallAssumption DEF Answer, Alive, NoFault, TypeOK, EffectOrigin
    <3>2. effects \subseteq Calls
      BY <1>0 DEF TypeOK
    <3> QED
      BY <2>2, <2>3, <3>1, <3>2 DEF EffectOrigin
  <2> QED
    BY <2>3, <2>4, <2>5, <2>6
<1>6. ASSUME NEW c \in Calls, OnCancel(c)
      PROVE QueueFresh' /\ CurrentFresh' /\ StatusOrigin' /\ EffectOrigin' /\ FaultOrigin'
  <2>1. /\ canceled' = canceled \cup {c}
        /\ \A d \in Calls : cancelPc'[d] = IF d = c THEN "test" ELSE cancelPc[d]
    BY <1>0, <1>6 DEF OnCancel, TypeOK
  <2>2. StatusOrigin'
    BY <1>0, <1>6, <2>1 DEF OnCancel, StatusOrigin
  <2>3. QueueFresh' /\ CurrentFresh' /\ EffectOrigin' /\ FaultOrigin'
    BY <1>0, <1>6, <2>1 DEF OnCancel, QueueFresh, CurrentFresh, EffectOrigin, FaultOrigin
  <2> QED
    BY <2>2, <2>3
<1>7. ASSUME NEW c \in Calls, OnCancelTest(c)
      PROVE QueueFresh' /\ CurrentFresh' /\ StatusOrigin' /\ EffectOrigin' /\ FaultOrigin'
  <2>1. /\ UNCHANGED <<arrived, queue, started, canceled, current, pc, effects, deleted>>
        /\ \A d \in Calls : cancelPc'[d] = "test" => cancelPc[d] = "test"
        /\ c \in canceled /\ c \in arrived
    BY <1>0, <1>7 DEF OnCancelTest, TypeOK, StatusOrigin
  <2>2. CASE UNCHANGED <<status, fault>>
    BY <1>0, <2>1, <2>2
       DEF QueueFresh, CurrentFresh, StatusOrigin, EffectOrigin, FaultOrigin
  <2>3. CASE CancelFinishes(c) /\ Finish(c, "cancelled")
    <3>1. c \in canceled \ started
      BY <2>1, <2>3 DEF CancelFinishes
    <3>2. CASE fault' = fault /\ status[c] = "none" /\ status' = [status EXCEPT ![c] = "cancelled"]
      <4>1. \A d \in Calls : status'[d] = IF d = c THEN "cancelled" ELSE status[d]
        BY <1>0, <3>2 DEF TypeOK
      <4>2. StatusOrigin'
        BY <1>0, <2>1, <3>1, <4>1 DEF StatusOrigin, TypeOK
      <4>3. \A i \in 1..Len(queue) : queue[i] \in Calls
        BY <1>0, ElementOfSeq DEF TypeOK
      <4>4. QueueFresh' /\ CurrentFresh'
        BY <1>0, <2>1, <4>1, <4>3 DEF QueueFresh, CurrentFresh
      <4>5. EffectOrigin' /\ FaultOrigin'
        BY <1>0, <2>1, <3>2, <4>1 DEF EffectOrigin, FaultOrigin, TypeOK
      <4> QED
        BY <4>2, <4>4, <4>5
    <3>3. CASE UNCHANGED status /\ (Fail("use_after_delete", c) \/ Fail("second_finish", c))
      <4>1. QueueFresh' /\ CurrentFresh' /\ StatusOrigin'
        BY <1>0, <2>1, <3>3 DEF QueueFresh, CurrentFresh, StatusOrigin
      <4>2. FaultOrigin'
        BY <2>1, <3>1, <3>3 DEF FaultOrigin, Fail
      <4>3. fault.call \notin effects
        BY <1>0, <1>7, CallAssumption DEF OnCancelTest, Alive, NoFault, TypeOK
      <4>4. EffectOrigin'
        BY <1>0, <2>1, <3>3, <4>3 DEF EffectOrigin
      <4> QED
        BY <4>1, <4>2, <4>4
    <3> QED
      BY <2>3, <3>2, <3>3 DEF Finish
  <2> QED
    BY <1>7, <2>2, <2>3 DEF OnCancelTest
<1>8. ASSUME NEW c \in Calls, OnDone(c)
      PROVE QueueFresh' /\ CurrentFresh' /\ StatusOrigin' /\ EffectOrigin' /\ FaultOrigin'
  BY <1>0, <1>8
     DEF OnDone, QueueFresh, CurrentFresh, StatusOrigin, EffectOrigin, FaultOrigin
<1>9. CASE UNCHANGED vars
  BY <1>0, <1>9
     DEF vars, QueueFresh, CurrentFresh, StatusOrigin, EffectOrigin, FaultOrigin
<1> QED
  BY <1>1, <1>2, <1>3, <1>4, <1>5, <1>6, <1>7, <1>8, <1>9 DEF Next, Main

\* The invariant holds of every state.
LEMMA CallAlways == Spec => []CallInv
  BY CallInit, CallNext, PTL DEF Spec

\* A call whose execution started before it was canceled is finished once, on
\* a reactor that still exists.
THEOREM FinishedOnce == Spec => []StartedFinishesOnce
<1>1. CallInv => StartedFinishesOnce
  <2> SUFFICES ASSUME CallInv PROVE StartedFinishesOnce
    OBVIOUS
  <2>1. ASSUME current \in deleted PROVE current \in canceled \ started
    BY <2>1 DEF CallInv, TypeInv, TypeOK, StatusOrigin, CurrentFresh
  <2> QED
    BY <2>1 DEF CallInv, FaultOrigin, StartedFinishesOnce
<1> QED
  BY <1>1, CallAlways, PTL

\* A client that was told CANCELLED can rely on the call having had no
\* effect, unless the server is still executing it or died of it.
THEOREM CancelledIsClean == Spec => []CancelledHasNoEffect
<1>1. CallInv => CancelledHasNoEffect
  BY DEF CallInv, EffectOrigin, CancelledHasNoEffect
<1> QED
  BY <1>1, CallAlways, PTL
================================================================================
