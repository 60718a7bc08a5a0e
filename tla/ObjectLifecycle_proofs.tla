------------------------- MODULE ObjectLifecycle_proofs -------------------------
(***************************************************************************)
(* Proofs about ObjectLifecycle, for any tasks, objects and classes and    *)
(* any bounds: the types of its state, that a control is not destroyed     *)
(* while the main thread is in its slot, that every control has its owner  *)
(* and every event finds its object, and that an object keeps a dead id    *)
(* only on its way to clearing it.                                         *)
(***************************************************************************)
EXTENDS ObjectLifecycle, TLAPS

-----------------------------------------------------------------------------
(* Type correctness. *)

\* What a task is doing stays well-typed, whatever step it goes to.
LEMMA TaskTypes ==
  ASSUME task \in [Tasks -> Work], NEW t \in Tasks, NEW step \in Steps
  PROVE  /\ Goes(t, step) => task' \in [Tasks -> Work]
         /\ Ends(t) => task' \in [Tasks -> Work]
<1>1. Idle \in Work
  BY ObjectAssumption DEF Idle, Work, Steps
<1>2. [task[t] EXCEPT !.at = step] \in Work
  BY DEF Work
<1> QED
  BY <1>1, <1>2 DEF Goes, Ends

\* So does what it takes up.
LEMMA BeginTypes ==
  ASSUME TypeOK, NEW t \in Tasks, NEW o \in Objects, NEW step \in Steps,
         NEW i \in {0} \cup Ids, NEW c \in 0..MaxEvents, Begin(t, o, step, i, c)
  PROVE  task' \in [Tasks -> Work] /\ overlap' \subseteq Objects
<1>1. [at |-> step, object |-> o, id |-> i, context |-> c] \in Work
  BY DEF Work
<1>2. task' \in [Tasks -> Work]
  BY <1>1 DEF Begin, TypeOK
<1> QED
  BY <1>2 DEF Begin, TypeOK

\* The context of a call is an event or none.
LEMMA ContextTypes ==
  ASSUME TypeOK, NEW t \in Tasks
  PROVE  ContextOf(t) \in 0..MaxEvents
  BY ObjectAssumption DEF TypeOK, ContextOf

\* An answer leaves well-typed work and a well-typed count of failures.
LEMMA AnsweredTypes ==
  ASSUME TypeOK, NEW t \in Tasks, NEW answer \in BOOLEAN, Answered(t, answer),
         answer => task' \in [Tasks -> Work]
  PROVE  task' \in [Tasks -> Work] /\ failures' \in 0..MaxFailures
<1>1. CASE answer /\ UNCHANGED failures
  BY <1>1 DEF TypeOK
<1>2. CASE failures < MaxFailures /\ failures' = failures + 1 /\ Ends(t)
  <2>1. failures' \in 0..MaxFailures
    BY <1>2, ObjectAssumption DEF TypeOK
  <2>2. "idle" \in Steps
    BY DEF Steps
  <2>3. task' \in [Tasks -> Work]
    BY <1>2, <2>2, TaskTypes DEF TypeOK
  <2> QED
    BY <2>1, <2>3
<1> QED
  BY <1>1, <1>2 DEF Answered

\* The types hold initially.
LEMMA TypeInit == Init => TypeOK
<1> SUFFICES ASSUME Init PROVE TypeOK
  OBVIOUS
<1>1. Idle \in Work
  BY ObjectAssumption DEF Idle, Work, Steps
<1>2. /\ instance \in [Objects -> {0} \cup Ids] /\ registered \in [Ids -> Objects \cup {None}]
      /\ cache \in [Clsids -> {0} \cup Ids] /\ task \in [Tasks -> Work]
  BY <1>1 DEF Init
<1>3. aio \in BOOLEAN /\ handling \in BOOLEAN
  BY DEF Init
<1>4. created \in 0..MaxControls /\ events \in 0..MaxEvents /\ failures \in 0..MaxFailures
  BY ObjectAssumption DEF Init
<1> QED
  BY <1>2, <1>3, <1>4 DEF Init, TypeOK

\* Every step keeps the types.
LEMMA TypeNext == TypeOK /\ [Next]_vars => TypeOK'
<1> SUFFICES ASSUME TypeOK, [Next]_vars PROVE TypeOK'
  OBVIOUS
<1> USE DEF serverVars, clientVars, countVars, histVars
<1>1. ASSUME NEW t \in Tasks, NEW o \in Objects, Initialize(t, o), UNCHANGED aio PROVE TypeOK'
  <2>1. task' \in [Tasks -> Work] /\ overlap' \subseteq Objects
    BY <1>1, BeginTypes, ObjectAssumption DEF Initialize, Steps
  <2> QED
    BY <1>1, <2>1 DEF Initialize, TypeOK
<1>2. ASSUME NEW t \in Tasks, NEW o \in Objects, CallMember(t, o), UNCHANGED aio PROVE TypeOK'
  <2>1. instance[o] \in {0} \cup Ids /\ ContextOf(t) \in 0..MaxEvents /\ "call" \in Steps
    BY ContextTypes DEF TypeOK, Steps
  <2>2. task' \in [Tasks -> Work] /\ overlap' \subseteq Objects
    BY <1>2, <2>1, BeginTypes DEF CallMember
  <2> QED
    BY <1>2, <2>2 DEF CallMember, TypeOK
<1>3. ASSUME NEW t \in Tasks, NEW o \in Objects, Finalize(t, o), UNCHANGED aio PROVE TypeOK'
  <2>1. instance[o] \in {0} \cup Ids /\ 0 \in 0..MaxEvents /\ "finalize" \in Steps
    BY ObjectAssumption DEF TypeOK, Steps
  <2>2. task' \in [Tasks -> Work] /\ overlap' \subseteq Objects
    BY <1>3, <2>1, BeginTypes DEF Finalize
  <2>3. registered' \in [Ids -> Objects \cup {None}] /\ destroyed' \subseteq Objects
    BY <1>3 DEF Finalize, Unregister, TypeOK
  <2> QED
    BY <1>3, <2>2, <2>3 DEF Finalize, TypeOK
<1>4. ASSUME NEW t \in Tasks, NEW o \in Objects, Destroy(t, o), UNCHANGED aio PROVE TypeOK'
  <2>1. instance[o] \in {0} \cup Ids /\ 0 \in 0..MaxEvents /\ "destroy" \in Steps
    BY ObjectAssumption DEF TypeOK, Steps
  <2>2. task' \in [Tasks -> Work] /\ overlap' \subseteq Objects
    BY <1>4, <2>1, BeginTypes DEF Destroy
  <2>3. destroyed' \subseteq Objects
    BY <1>4 DEF Destroy, TypeOK
  <2> QED
    BY <1>4, <2>2, <2>3 DEF Destroy, TypeOK
<1>5. ASSUME NEW t \in Tasks, LocalStep(t), UNCHANGED aio PROVE TypeOK'
  <2> USE DEF Steps
  <2>0. /\ task[t].id \in {0} \cup Ids /\ task[t].object \in Objects \cup {None}
        /\ ContextOf(t) \in 0..MaxEvents /\ task \in [Tasks -> Work]
    BY ContextTypes DEF TypeOK, Work
  <2>1. CASE LookUp(t)
    <3>1. [task[t] EXCEPT !.at = "describe", !.context = ContextOf(t)] \in Work
      BY <2>0 DEF Work
    <3>2. task' \in [Tasks -> Work]
      BY <2>0, <2>1, <3>1, TaskTypes DEF LookUp, Sends
    <3> QED
      BY <1>5, <2>1, <3>2 DEF LookUp, TypeOK
  <2>2. CASE StoreMembers(t)
    <3>1. task' \in [Tasks -> Work]
      BY <2>0, <2>2, TaskTypes DEF StoreMembers
    <3> QED
      BY <1>5, <2>0, <2>2, <3>1 DEF StoreMembers, TypeOK
  <2>3. CASE Assign(t)
    <3>1. task' \in [Tasks -> Work]
      BY <2>0, <2>3, TaskTypes DEF Assign
    <3>2. registered' \in [Ids -> Objects \cup {None}]
      BY <2>0, <2>3 DEF Assign, RegisterObject, TypeOK
    <3> QED
      BY <1>5, <2>0, <2>3, <3>1, <3>2 DEF Assign, TypeOK
  <2>4. CASE Register(t)
    <3>1. task' \in [Tasks -> Work]
      BY <2>0, <2>4, TaskTypes DEF Register
    <3>2. registered' \in [Ids -> Objects \cup {None}]
      BY <2>0, <2>4 DEF Register, RegisterObject, TypeOK
    <3> QED
      BY <1>5, <2>0, <2>4, <3>1, <3>2 DEF Register, TypeOK
  <2>5. CASE Clear(t)
    <3>1. task' \in [Tasks -> Work]
      BY <2>0, <2>5, TaskTypes DEF Clear
    <3> QED
      BY <1>5, <2>0, <2>5, <3>1 DEF Clear, TypeOK
  <2> QED
    BY <1>5, <2>1, <2>2, <2>3, <2>4, <2>5 DEF LocalStep
<1>6. ASSUME NEW t \in Tasks, Execute(t), UNCHANGED aio PROVE TypeOK'
  <2> USE DEF Steps
  <2>0. task[t] \in Work /\ task \in [Tasks -> Work]
    BY DEF TypeOK
  <2>1. CASE ExecuteCreate(t)
    <3>1. CASE created < MaxControls /\ created' = created + 1
               /\ controls' = controls \cup {created + 1}
               /\ Answered(t, task' = [task EXCEPT ![t].at = "created", ![t].id = created + 1])
      <4>1. created + 1 \in Ids /\ created + 1 \in 0..MaxControls
        BY <3>1, ObjectAssumption DEF TypeOK, Ids
      <4>2. [task[t] EXCEPT !.at = "created", !.id = created + 1] \in Work
        BY <2>0, <4>1 DEF Work
      <4>3. task' \in [Tasks -> Work] /\ failures' \in 0..MaxFailures
        BY <2>0, <3>1, <4>2, AnsweredTypes
      <4> QED
        BY <1>6, <2>1, <3>1, <4>1, <4>3 DEF ExecuteCreate, TypeOK
    <3>2. CASE Ends(t) /\ UNCHANGED <<created, controls, failures>>
      <4>1. task' \in [Tasks -> Work]
        BY <2>0, <3>2, TaskTypes
      <4> QED
        BY <1>6, <2>1, <3>2, <4>1 DEF ExecuteCreate, TypeOK
    <3> QED
      BY <2>1, <3>1, <3>2 DEF ExecuteCreate
  <2>2. CASE ExecuteDescribe(t)
    <3>1. (IF task[t].id \in controls THEN Goes(t, "described") ELSE Ends(t))
            => task' \in [Tasks -> Work]
      BY <2>0, TaskTypes
    <3>2. task' \in [Tasks -> Work] /\ failures' \in 0..MaxFailures
      BY <2>2, <3>1, AnsweredTypes DEF ExecuteDescribe, Goes, Ends
    <3> QED
      BY <1>6, <2>2, <3>2 DEF ExecuteDescribe, TypeOK
  <2>3. CASE ExecuteCall(t)
    <3>1. task' \in [Tasks -> Work]
      BY <2>0, <2>3, TaskTypes DEF ExecuteCall
    <3>2. connected' \subseteq Ids
      BY <2>3 DEF ExecuteCall, TypeOK
    <3> QED
      BY <1>6, <2>3, <3>1, <3>2 DEF ExecuteCall, TypeOK
  <2>4. CASE ExecuteDestroy(t)
    <3>1. (IF task[t].id \in controls THEN AfterDestroy(t) ELSE Ends(t))
            => task' \in [Tasks -> Work]
      BY <2>0, TaskTypes DEF AfterDestroy
    <3>2. task' \in [Tasks -> Work] /\ failures' \in 0..MaxFailures
      BY <2>4, <3>1, AnsweredTypes DEF ExecuteDestroy, AfterDestroy, Goes, Ends
    <3> QED
      BY <1>6, <2>4, <3>2 DEF ExecuteDestroy, TypeOK
  <2> QED
    BY <1>6, <2>1, <2>2, <2>3, <2>4 DEF Execute
<1>7. ASSUME NEW t \in Tasks, CallFails(t), UNCHANGED aio PROVE TypeOK'
  <2>1. task' \in [Tasks -> Work]
    BY <1>7, TaskTypes DEF CallFails, TypeOK, Steps
  <2>2. failures' \in 0..MaxFailures
    BY <1>7, ObjectAssumption DEF CallFails, TypeOK
  <2> QED
    BY <1>7, <2>1, <2>2 DEF CallFails, TypeOK
<1>8. ASSUME NEW o \in Objects, Collect(o), UNCHANGED aio PROVE TypeOK'
  <2>1. instance[o] \in Ids
    BY <1>8 DEF Collect, TypeOK
  <2> QED
    BY <1>8, <2>1 DEF Collect, TypeOK
<1>9. CASE Fire /\ UNCHANGED aio
  <2>1. events' \in 0..MaxEvents
    BY <1>9, ObjectAssumption DEF Fire, TypeOK
  <2>2. task' \in [Tasks -> Work] /\ main' \in {0} \cup Ids
    BY <1>9 DEF Fire, TypeOK
  <2> QED
    BY <1>9, <2>1, <2>2 DEF Fire, TypeOK
<1>10. CASE HandleEvent /\ UNCHANGED aio
  BY <1>10 DEF HandleEvent, TypeOK
<1>11. CASE AnswerEvent /\ UNCHANGED aio
  BY <1>11 DEF AnswerEvent, TypeOK
<1>12. CASE UNCHANGED vars
  BY <1>12 DEF vars, TypeOK
<1> QED
  BY <1>1, <1>2, <1>3, <1>4, <1>5, <1>6, <1>7, <1>8, <1>9, <1>10, <1>11, <1>12 DEF Next

\* The state has its types, for any number of objects, tasks and controls.
THEOREM TypeCorrect == Spec => []TypeOK
<1> QED
  BY TypeInit, TypeNext, PTL DEF Spec

-----------------------------------------------------------------------------
(* A control outlives its slot: a Destroy carries no context, so it is     *)
(* executed only while no slot is on the stack, and what is connected, and *)
(* may fire, exists.                                                       *)

SlotInv ==
  /\ connected \subseteq controls
  /\ main # 0 => main \in controls
  /\ \A t \in Tasks : task[t].at \in {"create", "finalize", "destroy"} => task[t].context = 0

\* Every step keeps what RaisingControlLives rests on.
LEMMA SlotNext == TypeOK /\ SlotInv /\ [Next]_vars => SlotInv'
<1> SUFFICES ASSUME TypeOK, SlotInv, [Next]_vars PROVE SlotInv'
  OBVIOUS
<1> USE DEF SlotInv, serverVars, clientVars, countVars, histVars
<1>0. task \in [Tasks -> Work] /\ \A t \in Tasks : task[t] \in Work
  BY DEF TypeOK
<1>1. ASSUME NEW t \in Tasks, NEW o \in Objects,
             Initialize(t, o) \/ CallMember(t, o) \/ Finalize(t, o) \/ Destroy(t, o)
      PROVE SlotInv'
  BY <1>0, <1>1 DEF Initialize, CallMember, Finalize, Destroy, Begin
<1>2. ASSUME NEW t \in Tasks, LocalStep(t) PROVE SlotInv'
  BY <1>0, <1>2 DEF LocalStep, LookUp, StoreMembers, Assign, Register, Clear, Goes,
     Sends, Ends, Idle, Work
<1>3. ASSUME NEW t \in Tasks, ExecuteCreate(t) PROVE SlotInv'
  BY <1>0, <1>3 DEF ExecuteCreate, Answered, Ends, Idle, Work
<1>4. ASSUME NEW t \in Tasks, ExecuteDescribe(t) PROVE SlotInv'
  BY <1>0, <1>4 DEF ExecuteDescribe, Answered, Goes, Ends, Idle, Work
<1>5. ASSUME NEW t \in Tasks, ExecuteCall(t) PROVE SlotInv'
  BY <1>0, <1>5 DEF ExecuteCall, Ends, Idle, Work
<1>6. ASSUME NEW t \in Tasks, ExecuteDestroy(t) PROVE SlotInv'
  <2>1. task[t].context = 0 /\ main = 0
    BY <1>6 DEF ExecuteDestroy, Executable
  <2> QED
    BY <1>0, <1>6, <2>1 DEF ExecuteDestroy, AfterDestroy, Answered, Goes, Ends, Idle, Work
<1>7. ASSUME NEW t \in Tasks, CallFails(t) PROVE SlotInv'
  BY <1>0, <1>7 DEF CallFails, Ends, Idle, Work
<1>8. ASSUME NEW o \in Objects, Collect(o) PROVE SlotInv'
  BY <1>8 DEF Collect
<1>9. CASE Fire \/ HandleEvent \/ AnswerEvent
  BY <1>9 DEF Fire, HandleEvent, AnswerEvent
<1>10. CASE UNCHANGED vars
  BY <1>10 DEF vars
<1> QED
  BY <1>1, <1>2, <1>3, <1>4, <1>5, <1>6, <1>7, <1>8, <1>9, <1>10 DEF Next, Execute

\* The control whose event is being raised stays in the ControlSet until its
\* slot returns, whatever handlers and other threads destroy meanwhile.
THEOREM RaisingControlIsKept == Spec => []RaisingControlLives
<1>1. Init => SlotInv
  BY DEF Init, SlotInv, Idle
<1>2. SlotInv => RaisingControlLives
  BY DEF SlotInv, RaisingControlLives
<1> QED
  BY <1>1, <1>2, TypeInit, TypeNext, SlotNext, PTL DEF Spec

-----------------------------------------------------------------------------
(* Who owns a control.                                                     *)

Initializing == {"create", "created", "describe", "described", "assign"}
Owning == Initializing \ {"create"}

\* Ids are given out once, and only a task at work has an object.
Numbered ==
  /\ controls \subseteq 1..created
  /\ \A o \in Objects : instance[o] <= created
  /\ \A t \in Tasks : task[t].id <= created
  /\ \A t \in Tasks : task[t].object = None <=> task[t].at = "idle"

\* No two tasks work on one object, and each has it in the state its work needs.
Alone ==
  /\ \A t, u \in Tasks : task[t].object = task[u].object /\ task[t].object # None => t = u
  /\ \A t \in Tasks :
       /\ task[t].at \in Initializing => instance[task[t].object] = 0
       /\ task[t].at \in {"register", "finalize", "clear", "call"} =>
            instance[task[t].object] = task[t].id
       /\ task[t].at = "clear" => task[t].id \notin controls

\* No id is of two objects, or of an object and a task that initializes one.
Distinct ==
  /\ \A o, p \in Objects : instance[o] = instance[p] /\ instance[o] # 0 => o = p
  /\ \A t \in Tasks : task[t].at \in Owning =>
       task[t].id # 0 /\ \A o \in Objects : instance[o] # task[t].id
  /\ \A t, u \in Tasks :
       task[t].at \in Owning /\ task[u].at \in Owning /\ task[t].id = task[u].id => t = u

\* An object is registered unless a task is at it, or its control is gone.
Registered ==
  \A o \in Objects : instance[o] # 0 =>
    \/ registered[instance[o]] = o \/ instance[o] \notin controls
    \/ \E t \in Tasks : task[t].object = o /\ task[t].at \in {"register", "finalize"}

Fine == failures = 0 /\ overlap = {}

OwnerInv ==
  /\ Numbered
  /\ Fine => Alone /\ Distinct /\ Registered
  /\ ControlHasOwner /\ EventFindsItsObject

\* Every step keeps ids numbered.
LEMMA NumberedNext == TypeOK /\ Numbered /\ [Next]_vars => Numbered'
<1> SUFFICES ASSUME TypeOK, Numbered, [Next]_vars PROVE Numbered'
  OBVIOUS
<1> USE ObjectAssumption DEF Numbered, serverVars, clientVars, countVars, histVars, Ids
<1>0. /\ task \in [Tasks -> Work] /\ \A t \in Tasks : task[t] \in Work
      /\ instance \in [Objects -> {0} \cup Ids] /\ created \in Nat
  BY DEF TypeOK
<1>1. ASSUME NEW t \in Tasks, NEW o \in Objects,
             Initialize(t, o) \/ CallMember(t, o) \/ Finalize(t, o) \/ Destroy(t, o)
      PROVE Numbered'
  <2>1. PICK step \in Steps \ {"idle"}, i \in {0, instance[o]}, c \in Nat :
          task' = [task EXCEPT ![t] = [at |-> step, object |-> o, id |-> i, context |-> c]]
    <3>1. ContextOf(t) \in Nat /\ 0 \in Nat
      BY ContextTypes
    <3>2. CASE Initialize(t, o)
      BY <3>1, <3>2 DEF Initialize, Begin, Steps
    <3>3. CASE CallMember(t, o)
      BY <3>1, <3>3 DEF CallMember, Begin, Steps
    <3>4. CASE Finalize(t, o)
      BY <3>1, <3>4 DEF Finalize, Begin, Steps
    <3>5. CASE Destroy(t, o)
      BY <3>1, <3>5 DEF Destroy, Begin, Steps
    <3> QED
      BY <1>1, <3>2, <3>3, <3>4, <3>5
  <2>2. UNCHANGED <<controls, created, instance>>
    BY <1>1 DEF Initialize, CallMember, Finalize, Destroy
  <2> QED
    BY <1>0, <2>1, <2>2
<1>2. ASSUME NEW t \in Tasks, LocalStep(t) PROVE Numbered'
  BY <1>0, <1>2 DEF LocalStep, LookUp, StoreMembers, Assign, Register, Clear, Goes,
     Sends, Ends, Idle, Work
<1>3. ASSUME NEW t \in Tasks, ExecuteCreate(t) PROVE Numbered'
  <2>1. CASE created' = created + 1 /\ controls' = controls \cup {created + 1}
             /\ Answered(t, task' = [task EXCEPT ![t].at = "created", ![t].id = created + 1])
    BY <1>0, <1>3, <2>1 DEF ExecuteCreate, Answered, Ends, Idle, Work
  <2>2. CASE Ends(t) /\ UNCHANGED <<created, controls, failures>>
    BY <1>0, <1>3, <2>2 DEF ExecuteCreate, Ends, Idle, Work
  <2> QED
    BY <1>3, <2>1, <2>2 DEF ExecuteCreate
<1>4. ASSUME NEW t \in Tasks, ExecuteDescribe(t) PROVE Numbered'
  BY <1>0, <1>4 DEF ExecuteDescribe, Answered, Goes, Ends, Idle, Work
<1>5. ASSUME NEW t \in Tasks, ExecuteCall(t) PROVE Numbered'
  BY <1>0, <1>5 DEF ExecuteCall, Ends, Idle, Work
<1>6. ASSUME NEW t \in Tasks, ExecuteDestroy(t) PROVE Numbered'
  BY <1>0, <1>6 DEF ExecuteDestroy, AfterDestroy, Answered, Goes, Ends, Idle, Work
<1>7. ASSUME NEW t \in Tasks, CallFails(t) PROVE Numbered'
  BY <1>0, <1>7 DEF CallFails, Ends, Idle, Work
<1>8. ASSUME NEW o \in Objects, Collect(o) PROVE Numbered'
  BY <1>0, <1>8 DEF Collect
<1>9. CASE Fire \/ HandleEvent \/ AnswerEvent
  BY <1>9 DEF Fire, HandleEvent, AnswerEvent
<1>10. CASE UNCHANGED vars
  BY <1>10 DEF vars
<1> QED
  BY <1>1, <1>2, <1>3, <1>4, <1>5, <1>6, <1>7, <1>8, <1>9, <1>10 DEF Next, Execute

\* What has failed stays failed.
LEMMA FineBefore ==
  ASSUME TypeOK, [Next]_vars, Fine'
  PROVE  Fine
<1> USE DEF Fine, TypeOK, serverVars, clientVars, countVars, histVars
<1>1. ASSUME NEW t \in Tasks, NEW o \in Objects,
             Initialize(t, o) \/ CallMember(t, o) \/ Finalize(t, o) \/ Destroy(t, o)
      PROVE Fine
  BY <1>1 DEF Initialize, CallMember, Finalize, Destroy, Begin
<1>2. ASSUME NEW t \in Tasks, LocalStep(t) PROVE Fine
  BY <1>2 DEF LocalStep, LookUp, StoreMembers, Assign, Register, Clear
<1>3. ASSUME NEW t \in Tasks, Execute(t) PROVE Fine
  BY <1>3 DEF Execute, ExecuteCreate, ExecuteDescribe, ExecuteCall, ExecuteDestroy, Answered
<1>4. ASSUME NEW t \in Tasks, CallFails(t) PROVE Fine
  BY <1>4 DEF CallFails
<1>5. ASSUME NEW o \in Objects, Collect(o) PROVE Fine
  BY <1>5 DEF Collect
<1>6. CASE Fire \/ HandleEvent \/ AnswerEvent
  BY <1>6 DEF Fire, HandleEvent, AnswerEvent
<1>7. CASE UNCHANGED vars
  BY <1>7 DEF vars
<1> QED
  BY <1>1, <1>2, <1>3, <1>4, <1>5, <1>6, <1>7 DEF Next

OwnedNow == Alone /\ Distinct /\ Registered /\ ControlHasOwner /\ EventFindsItsObject

\* A task that takes up work is alone with its object, or there is an overlap.
LEMMA OwnerBegin ==
  ASSUME TypeOK, SlotInv, Numbered, OwnedNow, Fine, Fine', NEW t \in Tasks, NEW o \in Objects,
         Initialize(t, o) \/ CallMember(t, o) \/ Finalize(t, o) \/ Destroy(t, o)
  PROVE  OwnedNow'
<1> USE DEF Initializing, Owning, serverVars, clientVars, countVars, histVars
<1>0. /\ task \in [Tasks -> Work] /\ \A u \in Tasks : task[u] \in Work
      /\ instance \in [Objects -> {0} \cup Ids] /\ registered \in [Ids -> Objects \cup {None}]
  BY DEF TypeOK
<1>1. PICK step \in {"create", "call", "finalize", "destroy"}, i \in {0, instance[o]},
           c \in 0..MaxEvents :
        /\ task' = [task EXCEPT ![t] = [at |-> step, object |-> o, id |-> i, context |-> c]]
        /\ step = "create" => instance[o] = 0
        /\ step \in {"call", "finalize", "destroy"} => i = instance[o] /\ instance[o] # 0
        /\ IF step = "finalize" THEN registered' = [registered EXCEPT ![instance[o]] = None]
           ELSE registered' = registered
  <2>1. ContextOf(t) \in 0..MaxEvents /\ 0 \in 0..MaxEvents
    BY ContextTypes, ObjectAssumption
  <2>2. CASE Initialize(t, o)
    BY <2>1, <2>2 DEF Initialize, Begin, NotInitialized
  <2>3. CASE CallMember(t, o)
    BY <2>1, <2>3 DEF CallMember, Begin
  <2>4. CASE Finalize(t, o)
    BY <2>1, <2>4 DEF Finalize, Begin, Unregister
  <2>5. CASE Destroy(t, o)
    BY <2>1, <2>5 DEF Destroy, Begin
  <2> QED
    BY <2>2, <2>3, <2>4, <2>5
<1>2. UNCHANGED <<controls, created, connected, instance, dropped, failures>>
  BY DEF Initialize, CallMember, Finalize, Destroy
<1>3. task[t] = Idle /\ \A u \in Tasks \ {t} : task[u].object # o
  BY DEF Initialize, CallMember, Finalize, Destroy, Begin, Fine
<1>4. task[t].at = "idle" /\ o # None
  BY <1>3, ObjectAssumption DEF Idle
<1>5. Alone'
  BY <1>0, <1>1, <1>2, <1>3, <1>4 DEF OwnedNow, Alone
<1>6. Distinct'
  BY <1>0, <1>1, <1>2, <1>4 DEF OwnedNow, Distinct
<1>10. /\ \A u \in Tasks \ {t} : task'[u] = task[u]
       /\ task'[t].at = step /\ task'[t].object = o /\ task'[t].id = i
  BY <1>0, <1>1
<1>11. \A j \in Ids : \/ registered'[j] = registered[j]
                      \/ step = "finalize" /\ j = instance[o]
  BY <1>0, <1>1
<1>7. Registered'
  <2> SUFFICES ASSUME NEW p \in Objects, instance[p] # 0, instance[p] \in controls
               PROVE  \/ registered'[instance[p]] = p
                      \/ \E u \in Tasks : task'[u].object = p
                                         /\ task'[u].at \in {"register", "finalize"}
    BY <1>2 DEF Registered
  <2>1. \/ registered[instance[p]] = p
        \/ \E u \in Tasks : task[u].object = p /\ task[u].at \in {"register", "finalize"}
    BY DEF OwnedNow, Registered
  <2>2. instance[p] \in Ids /\ (instance[p] = instance[o] => p = o)
    BY <1>0 DEF OwnedNow, Distinct
  <2> QED
    BY <1>4, <1>10, <1>11, <2>1, <2>2
<1>8. ControlHasOwner'
  BY <1>0, <1>1, <1>2, <1>4 DEF OwnedNow, ControlHasOwner, Fine
<1>9. EventFindsItsObject'
  <2> SUFFICES ASSUME NEW j \in connected \ dropped
               PROVE  \/ \E p \in Objects : registered'[j] = p /\ instance[p] = j
                      \/ \E u \in Tasks : task'[u].id = j /\ task'[u].at = "finalize"
    BY <1>2 DEF EventFindsItsObject
  <2>1. \/ \E p \in Objects : registered[j] = p /\ instance[p] = j
        \/ \E u \in Tasks : task[u].id = j /\ task[u].at = "finalize"
    BY DEF OwnedNow, EventFindsItsObject, Fine
  <2>2. j \in Ids /\ (step = "finalize" => i = instance[o])
    BY <1>1 DEF TypeOK
  <2> QED
    BY <1>4, <1>10, <1>11, <2>1, <2>2
<1> QED
  BY <1>5, <1>6, <1>7, <1>8, <1>9 DEF OwnedNow

\* A step that only moves a task on among the states of one kind, or ends its
\* work on something nobody owns, keeps everything in order.
LEMMA OwnerMoves ==
  ASSUME TypeOK, Numbered, OwnedNow, Fine, Fine', NEW t \in Tasks, NEW w \in Work,
         task' = [task EXCEPT ![t] = w],
         UNCHANGED <<controls, connected, instance, registered, dropped>>,
         \/ /\ w.object = task[t].object /\ w.id = task[t].id
            /\ task[t].at \in Owning /\ w.at \in Owning
         \/ w = Idle /\ task[t].at \in {"create", "call", "destroy"}
         \/ w = Idle /\ task[t].at \notin {"register"} /\ task[t].id \notin controls
              /\ task[t].id \notin connected
  PROVE  OwnedNow'
<1> USE DEF Initializing, Owning
<1>0. /\ task \in [Tasks -> Work] /\ \A u \in Tasks : task[u] \in Work
      /\ \A u \in Tasks \ {t} : task'[u] = task[u]
      /\ task'[t] = w
  BY DEF TypeOK
<1>1. w = Idle => w.object = None /\ w.at = "idle"
  BY DEF Idle
<1>2. Alone'
  BY <1>0, <1>1 DEF OwnedNow, Alone, Numbered
<1>3. Distinct'
  BY <1>0, <1>1 DEF OwnedNow, Distinct
<1>4. Registered'
  <2> SUFFICES ASSUME NEW p \in Objects, instance[p] # 0, instance[p] \in controls,
                      registered[instance[p]] # p
               PROVE  \E u \in Tasks : task'[u].object = p
                                      /\ task'[u].at \in {"register", "finalize"}
    BY DEF Registered
  <2>1. PICK u \in Tasks : task[u].object = p /\ task[u].at \in {"register", "finalize"}
    BY DEF OwnedNow, Registered
  <2>2. task[u].id = instance[p]
    BY <2>1 DEF OwnedNow, Alone
  <2> QED
    BY <1>0, <2>1, <2>2
<1>5. ControlHasOwner'
  <2> SUFFICES ASSUME NEW j \in controls \ dropped, \A o \in Objects : instance[o] # j
               PROVE  \E u \in Tasks : task'[u].id = j /\ task'[u].at \in Owning
    BY DEF ControlHasOwner
  <2>1. PICK u \in Tasks : task[u].id = j /\ task[u].at \in Owning
    BY DEF OwnedNow, ControlHasOwner, Fine
  <2> QED
    BY <1>0, <2>1
<1>6. EventFindsItsObject'
  <2> SUFFICES ASSUME NEW j \in connected \ dropped,
                      ~\E o \in Objects : registered[j] = o /\ instance[o] = j
               PROVE  \E u \in Tasks : task'[u].id = j /\ task'[u].at = "finalize"
    BY DEF EventFindsItsObject
  <2>1. PICK u \in Tasks : task[u].id = j /\ task[u].at = "finalize"
    BY DEF OwnedNow, EventFindsItsObject, Fine
  <2> QED
    BY <1>0, <2>1
<1> QED
  BY <1>2, <1>3, <1>4, <1>5, <1>6 DEF OwnedNow

\* The steps of a task between its calls.
LEMMA OwnerLocal ==
  ASSUME TypeOK, SlotInv, Numbered, OwnedNow, Fine, Fine', NEW t \in Tasks, LocalStep(t)
  PROVE  OwnedNow'
<1> USE DEF serverVars, clientVars, countVars, histVars
<1> DEFINE o == task[t].object
           id == task[t].id
<1>0. /\ task \in [Tasks -> Work] /\ \A u \in Tasks : task[u] \in Work
      /\ instance \in [Objects -> {0} \cup Ids] /\ registered \in [Ids -> Objects \cup {None}]
      /\ connected \subseteq Ids
  BY DEF TypeOK
<1>1. CASE LookUp(t)
  <2>1. PICK w \in Work : /\ task' = [task EXCEPT ![t] = w] /\ w.object = o /\ w.id = id
                         /\ w.at \in {"describe", "assign"}
    <3>1. [task[t] EXCEPT !.at = "describe", !.context = ContextOf(t)] \in Work
      BY <1>0, ContextTypes DEF Work, Steps
    <3>2. [task[t] EXCEPT !.at = "assign"] \in Work
      BY <1>0 DEF Work, Steps
    <3> QED
      BY <1>0, <1>1, <3>1, <3>2 DEF LookUp, Sends, Goes, Work
  <2> QED
    BY <1>1, <2>1, OwnerMoves DEF LookUp, Owning, Initializing
<1>2. CASE StoreMembers(t)
  <2>1. PICK w \in Work : /\ task' = [task EXCEPT ![t] = w] /\ w.object = o /\ w.id = id
                         /\ w.at = "assign"
    <3>1. [task[t] EXCEPT !.at = "assign"] \in Work
      BY <1>0 DEF Work, Steps
    <3> QED
      BY <1>0, <1>2, <3>1 DEF StoreMembers, Goes, Work
  <2> QED
    BY <1>2, <2>1, OwnerMoves DEF StoreMembers, Owning, Initializing
<1>3. CASE Assign(t)
  <2>1. /\ task[t].at \in Owning /\ o \in Objects /\ id \in Ids /\ instance[o] = 0 /\ id # 0
        /\ \A p \in Objects : instance[p] # id
    BY <1>0, <1>3 DEF Assign, OwnedNow, Alone, Distinct, Numbered, Owning, Initializing, Work
  <2>2. /\ instance'[o] = id /\ \A p \in Objects \ {o} : instance'[p] = instance[p]
        /\ UNCHANGED <<controls, connected, dropped, failures, overlap>>
    BY <1>0, <1>3, <2>1 DEF Assign
  <2>3. /\ \A u \in Tasks \ {t} : task'[u] = task[u]
        /\ \/ task'[t].at = "idle" /\ task'[t].object = None
           \/ task'[t].at = "register" /\ task'[t].object = o /\ task'[t].id = id
    BY <1>0, <1>3 DEF Assign, Goes, Ends, Idle, Work
  <2>4. /\ \A j \in Ids \ {id} : registered'[j] = registered[j]
        /\ task'[t].at = "register" \/ registered'[id] = o
    BY <1>0, <1>3, <2>1 DEF Assign, RegisterObject, RegisteredId, Goes, Work
  <2>5. Alone'
    <3>1. \A u \in Tasks \ {t} : task[u].object # o
      BY <2>1, ObjectAssumption DEF OwnedNow, Alone
    <3> QED
      BY <1>0, <2>1, <2>2, <2>3, <3>1 DEF OwnedNow, Alone, Initializing, Numbered, Work, Steps
  <2>6. Distinct'
    BY <1>0, <2>1, <2>2, <2>3 DEF OwnedNow, Distinct, Owning, Initializing
  <2>7. Registered'
    <3> SUFFICES ASSUME NEW p \in Objects, instance'[p] # 0, instance'[p] \in controls,
                        registered'[instance'[p]] # p
                 PROVE  \E u \in Tasks : task'[u].object = p
                                        /\ task'[u].at \in {"register", "finalize"}
      BY <2>2 DEF Registered
    <3>1. CASE p = o
      BY <2>2, <2>3, <2>4, <3>1
    <3>2. CASE p # o
      <4>1. instance'[p] = instance[p] /\ instance[p] \in Ids \ {id}
        BY <1>0, <2>1, <2>2, <3>2
      <4>2. PICK u \in Tasks : task[u].object = p /\ task[u].at \in {"register", "finalize"}
        BY <2>4, <4>1 DEF OwnedNow, Registered
      <4> QED
        BY <2>3, <3>2, <4>2
    <3> QED
      BY <3>1, <3>2
  <2>8. ControlHasOwner'
    <3> SUFFICES ASSUME NEW j \in controls \ dropped, \A p \in Objects : instance'[p] # j
                 PROVE  \E u \in Tasks : task'[u].id = j /\ task'[u].at \in Owning
      BY <2>2 DEF ControlHasOwner, Owning, Initializing
    <3>1. j # id /\ \A p \in Objects : instance[p] # j
      BY <2>1, <2>2, ObjectAssumption DEF Numbered
    <3>2. PICK u \in Tasks : task[u].id = j /\ task[u].at \in Owning
      BY <3>1 DEF OwnedNow, ControlHasOwner, Fine, Owning, Initializing
    <3> QED
      BY <2>3, <3>1, <3>2
  <2>9. EventFindsItsObject'
    <3> SUFFICES ASSUME NEW j \in connected \ dropped,
                        ~\E u \in Tasks : task'[u].id = j /\ task'[u].at = "finalize"
                 PROVE  \E p \in Objects : registered'[j] = p /\ instance'[p] = j
      BY <2>2 DEF EventFindsItsObject
    <3>1. \A u \in Tasks : ~(task[u].id = j /\ task[u].at = "finalize")
      BY <2>1, <2>3 DEF Owning, Initializing
    <3>2. PICK p \in Objects : registered[j] = p /\ instance[p] = j
      BY <3>1 DEF OwnedNow, EventFindsItsObject, Fine
    <3>3. p # o /\ j # id /\ j \in Ids
      BY <1>0, <2>1, <3>2 DEF Ids
    <3> QED
      BY <2>2, <2>4, <3>2, <3>3
  <2> QED
    BY <2>5, <2>6, <2>7, <2>8, <2>9 DEF OwnedNow
<1>4. CASE Register(t)
  <2>1. o \in Objects /\ instance[o] = id
    BY <1>0, <1>4 DEF Register, OwnedNow, Alone, Numbered, Work
  <2>2. /\ \A u \in Tasks \ {t} : task'[u] = task[u]
        /\ task'[t].at = "idle" /\ task'[t].object = None
        /\ task[t].at = "register"
    BY <1>0, <1>4 DEF Register, Ends, Idle
  <2>3. /\ UNCHANGED <<instance, controls, connected, dropped, failures, overlap>>
        /\ \A j \in Ids \ {id} : registered'[j] = registered[j]
        /\ id \in Ids => registered'[id] = o
    BY <1>0, <1>4 DEF Register, RegisterObject, RegisteredId
  <2>4. Alone'
    BY <1>0, <2>2, <2>3 DEF OwnedNow, Alone, Initializing
  <2>5. Distinct'
    BY <1>0, <2>2, <2>3 DEF OwnedNow, Distinct, Owning, Initializing
  <2>6. Registered'
    <3> SUFFICES ASSUME NEW p \in Objects, instance[p] # 0, instance[p] \in controls,
                        registered'[instance[p]] # p
                 PROVE  \E u \in Tasks : task'[u].object = p
                                        /\ task'[u].at \in {"register", "finalize"}
      BY <2>3 DEF Registered
    <3>1. p # o /\ instance[p] \in Ids \ {id}
      BY <1>0, <2>1, <2>3 DEF OwnedNow, Distinct
    <3>2. PICK u \in Tasks : task[u].object = p /\ task[u].at \in {"register", "finalize"}
      BY <2>3, <3>1 DEF OwnedNow, Registered
    <3> QED
      BY <2>2, <3>1, <3>2
  <2>7. ControlHasOwner'
    BY <2>2, <2>3 DEF OwnedNow, ControlHasOwner, Fine
  <2>8. EventFindsItsObject'
    <3> SUFFICES ASSUME NEW j \in connected \ dropped,
                        ~\E u \in Tasks : task'[u].id = j /\ task'[u].at = "finalize"
                 PROVE  \E p \in Objects : registered'[j] = p /\ instance[p] = j
      BY <2>3 DEF EventFindsItsObject
    <3>1. \A u \in Tasks : ~(task[u].id = j /\ task[u].at = "finalize")
      BY <2>2
    <3>2. PICK p \in Objects : registered[j] = p /\ instance[p] = j
      BY <3>1 DEF OwnedNow, EventFindsItsObject, Fine
    <3>3. j \in Ids
      BY <1>0
    <3> QED
      BY <2>1, <2>3, <3>2, <3>3
  <2> QED
    BY <2>4, <2>5, <2>6, <2>7, <2>8 DEF OwnedNow
<1>5. CASE Clear(t)
  <2>1. o \in Objects /\ instance[o] = id /\ id \notin controls
    BY <1>0, <1>5 DEF Clear, OwnedNow, Alone, Numbered, Work
  <2>2. /\ \A u \in Tasks \ {t} : task'[u] = task[u] /\ task[u].object # o
        /\ task'[t].at = "idle" /\ task'[t].object = None
        /\ task[t].at = "clear"
    BY <1>0, <1>5, <2>1, ObjectAssumption DEF Clear, Ends, Idle, OwnedNow, Alone
  <2>3. /\ UNCHANGED <<registered, controls, connected, dropped, failures, overlap>>
        /\ instance'[o] = 0 /\ \A p \in Objects \ {o} : instance'[p] = instance[p]
    BY <1>0, <1>5, <2>1 DEF Clear
  <2>4. Alone'
    BY <1>0, <2>2, <2>3 DEF OwnedNow, Alone, Initializing, Numbered, Work
  <2>5. Distinct'
    BY <1>0, <2>2, <2>3 DEF OwnedNow, Distinct, Owning, Initializing
  <2>6. Registered'
    BY <2>2, <2>3 DEF OwnedNow, Registered
  <2>7. ControlHasOwner'
    <3> SUFFICES ASSUME NEW j \in controls \ dropped, \A p \in Objects : instance'[p] # j
                 PROVE  \E u \in Tasks : task'[u].id = j /\ task'[u].at \in Owning
      BY <2>3 DEF ControlHasOwner, Owning, Initializing
    <3>1. \A p \in Objects : instance[p] # j
      BY <2>1, <2>3
    <3>2. PICK u \in Tasks : task[u].id = j /\ task[u].at \in Owning
      BY <3>1 DEF OwnedNow, ControlHasOwner, Fine, Owning, Initializing
    <3> QED
      BY <2>2, <3>2 DEF Owning, Initializing
  <2>8. EventFindsItsObject'
    <3> SUFFICES ASSUME NEW j \in connected \ dropped,
                        ~\E u \in Tasks : task'[u].id = j /\ task'[u].at = "finalize"
                 PROVE  \E p \in Objects : registered[j] = p /\ instance'[p] = j
      BY <2>3 DEF EventFindsItsObject
    <3>1. \A u \in Tasks : ~(task[u].id = j /\ task[u].at = "finalize")
      BY <2>2
    <3>2. PICK p \in Objects : registered[j] = p /\ instance[p] = j
      BY <3>1 DEF OwnedNow, EventFindsItsObject, Fine
    <3>3. j # id
      BY <2>1 DEF SlotInv
    <3> QED
      BY <2>1, <2>3, <3>2, <3>3
  <2> QED
    BY <2>4, <2>5, <2>6, <2>7, <2>8 DEF OwnedNow
<1> QED
  BY <1>1, <1>2, <1>3, <1>4, <1>5 DEF LocalStep

\* Without failures an answer arrives.
LEMMA AnswerArrives ==
  ASSUME TypeOK, Fine, Fine', NEW t \in Tasks, NEW answer \in BOOLEAN, Answered(t, answer)
  PROVE  answer
  BY DEF Answered, Fine

\* A created control belongs to the task that asked for it.
LEMMA OwnerCreate ==
  ASSUME TypeOK, Numbered, OwnedNow, Fine, Fine', NEW t \in Tasks, ExecuteCreate(t)
  PROVE  OwnedNow'
<1> USE DEF serverVars, clientVars, countVars, histVars
<1>0. /\ task \in [Tasks -> Work] /\ \A u \in Tasks : task[u] \in Work
      /\ instance \in [Objects -> {0} \cup Ids] /\ created \in Nat
  BY DEF TypeOK
<1>1. CASE created' = created + 1 /\ controls' = controls \cup {created + 1}
           /\ Answered(t, task' = [task EXCEPT ![t].at = "created", ![t].id = created + 1])
  <2>1. task' = [task EXCEPT ![t].at = "created", ![t].id = created + 1]
    BY <1>1, AnswerArrives
  <2>2. /\ \A u \in Tasks \ {t} : task'[u] = task[u]
        /\ task'[t].at = "created" /\ task'[t].id = created + 1
        /\ task'[t].object = task[t].object /\ task[t].at = "create"
    BY <1>0, <2>1 DEF ExecuteCreate, Work
  <2>3. UNCHANGED <<instance, registered, connected, dropped, failures, overlap>>
    BY <1>1, <2>1 DEF ExecuteCreate, Fine
  <2>4. /\ created + 1 # 0 /\ \A p \in Objects : instance[p] # created + 1
        /\ \A u \in Tasks : task[u].id # created + 1
    BY <1>0 DEF Numbered, Work, Ids
  <2>5. Alone'
    BY <1>0, <1>1, <2>2, <2>3, <2>4 DEF OwnedNow, Alone, Initializing
  <2>6. Distinct'
    BY <1>0, <2>2, <2>3, <2>4 DEF OwnedNow, Distinct, Owning, Initializing
  <2>7. Registered'
    BY <1>1, <2>2, <2>3, <2>4 DEF OwnedNow, Registered
  <2>8. ControlHasOwner'
    BY <1>1, <2>2, <2>3 DEF OwnedNow, ControlHasOwner, Fine
  <2>9. EventFindsItsObject'
    BY <2>2, <2>3 DEF OwnedNow, EventFindsItsObject, Fine
  <2> QED
    BY <2>5, <2>6, <2>7, <2>8, <2>9 DEF OwnedNow
<1>2. CASE Ends(t) /\ UNCHANGED <<created, controls, failures>>
  <2>1. Idle \in Work
    BY ObjectAssumption DEF Idle, Work, Steps
  <2> QED
    BY <1>2, <2>1, OwnerMoves DEF ExecuteCreate, Ends
<1> QED
  BY <1>1, <1>2 DEF ExecuteCreate

\* The task of a destroyed control is about to clear its object, or ends.
LEMMA OwnerDestroy ==
  ASSUME TypeOK, SlotInv, Numbered, OwnedNow, Fine, Fine', NEW t \in Tasks, ExecuteDestroy(t)
  PROVE  OwnedNow'
<1> USE DEF serverVars, clientVars, countVars, histVars
<1> DEFINE id == task[t].id
<1>0. /\ task \in [Tasks -> Work] /\ \A u \in Tasks : task[u] \in Work
  BY DEF TypeOK
<1>1. IF id \in controls THEN AfterDestroy(t) ELSE Ends(t)
  BY AnswerArrives DEF ExecuteDestroy, AfterDestroy, Ends, Goes
<1>2. /\ \A u \in Tasks \ {t} : task'[u] = task[u]
      /\ task[t].at \in {"finalize", "destroy"}
      /\ \/ task'[t].at = "idle" /\ task'[t].object = None
         \/ /\ task'[t].at = "clear" /\ task'[t].object = task[t].object
            /\ task'[t].id = id /\ task[t].at = "finalize"
  BY <1>0, <1>1 DEF ExecuteDestroy, AfterDestroy, Goes, Ends, Idle, Work
<1>3. /\ UNCHANGED <<instance, registered, dropped, failures, overlap>>
      /\ controls' = controls \ {id} /\ connected' = connected \ {id}
  BY DEF ExecuteDestroy, Fine
<1>4. Alone'
  BY <1>0, <1>2, <1>3 DEF OwnedNow, Alone, Initializing
<1>5. Distinct'
  BY <1>0, <1>2, <1>3 DEF OwnedNow, Distinct, Owning, Initializing
<1>6. Registered'
  <2> SUFFICES ASSUME NEW p \in Objects, instance[p] # 0, instance[p] \in controls',
                      registered[instance[p]] # p
               PROVE  \E u \in Tasks : task'[u].object = p
                                      /\ task'[u].at \in {"register", "finalize"}
    BY <1>3 DEF Registered
  <2>1. PICK u \in Tasks : task[u].object = p /\ task[u].at \in {"register", "finalize"}
    BY <1>3 DEF OwnedNow, Registered
  <2>2. u # t
    BY <1>2, <1>3, <2>1 DEF OwnedNow, Alone
  <2> QED
    BY <1>2, <2>1, <2>2
<1>7. ControlHasOwner'
  <2> SUFFICES ASSUME NEW j \in controls' \ dropped, \A p \in Objects : instance[p] # j
               PROVE  \E u \in Tasks : task'[u].id = j /\ task'[u].at \in Owning
    BY <1>3 DEF ControlHasOwner, Owning, Initializing
  <2>1. PICK u \in Tasks : task[u].id = j /\ task[u].at \in Owning
    BY <1>3 DEF OwnedNow, ControlHasOwner, Fine, Owning, Initializing
  <2> QED
    BY <1>2, <2>1 DEF Owning, Initializing
<1>8. EventFindsItsObject'
  <2> SUFFICES ASSUME NEW j \in connected' \ dropped,
                      ~\E p \in Objects : registered[j] = p /\ instance[p] = j
               PROVE  \E u \in Tasks : task'[u].id = j /\ task'[u].at = "finalize"
    BY <1>3 DEF EventFindsItsObject
  <2>1. PICK u \in Tasks : task[u].id = j /\ task[u].at = "finalize"
    BY <1>3 DEF OwnedNow, EventFindsItsObject, Fine
  <2> QED
    BY <1>2, <1>3, <2>1
<1> QED
  BY <1>4, <1>5, <1>6, <1>7, <1>8 DEF OwnedNow

\* A description that arrives moves its task on; a refused one leaves no control.
LEMMA OwnerDescribe ==
  ASSUME TypeOK, SlotInv, Numbered, OwnedNow, Fine, Fine', NEW t \in Tasks, ExecuteDescribe(t)
  PROVE  OwnedNow'
<1> USE DEF serverVars, clientVars, histVars
<1>0. task \in [Tasks -> Work] /\ task[t] \in Work /\ task[t].at = "describe"
  BY DEF TypeOK, ExecuteDescribe
<1>1. UNCHANGED <<controls, connected, instance, registered, dropped>>
  BY DEF ExecuteDescribe
<1>2. IF task[t].id \in controls THEN Goes(t, "described") ELSE Ends(t)
  BY AnswerArrives DEF ExecuteDescribe, Goes, Ends
<1>3. CASE task[t].id \in controls
  <2>1. [task[t] EXCEPT !.at = "described"] \in Work
    BY <1>0 DEF Work, Steps
  <2>2. PICK w \in Work : /\ task' = [task EXCEPT ![t] = w] /\ w.object = task[t].object
                         /\ w.id = task[t].id /\ w.at = "described"
    BY <1>0, <1>2, <1>3, <2>1 DEF Goes, Work
  <2> QED
    BY <1>0, <1>1, <2>2, OwnerMoves DEF Owning, Initializing
<1>4. CASE task[t].id \notin controls
  <2>1. Idle \in Work /\ task[t].id \notin connected
    BY <1>4, ObjectAssumption DEF Idle, Work, Steps, SlotInv
  <2> QED
    BY <1>0, <1>1, <1>2, <1>4, <2>1, OwnerMoves DEF Ends
<1> QED
  BY <1>3, <1>4

\* What a call connects is the control of a registered object.
LEMMA OwnerCall ==
  ASSUME TypeOK, SlotInv, Numbered, OwnedNow, Fine, Fine', NEW t \in Tasks, ExecuteCall(t)
  PROVE  OwnedNow'
<1> USE DEF clientVars, countVars, histVars
<1> DEFINE o == task[t].object
           id == task[t].id
<1>0. task \in [Tasks -> Work] /\ \A u \in Tasks : task[u] \in Work
  BY DEF TypeOK
<1>1. /\ \A u \in Tasks \ {t} : task'[u] = task[u]
      /\ task[t].at = "call" /\ task'[t].at = "idle" /\ task'[t].object = None
  BY <1>0 DEF ExecuteCall, Ends, Idle
<1>2. /\ UNCHANGED <<controls, instance, registered, dropped>>
      /\ connected' \subseteq connected \cup (controls \cap {id})
  BY DEF ExecuteCall
<1>3. Alone'
  BY <1>0, <1>1, <1>2 DEF OwnedNow, Alone, Initializing
<1>4. Distinct'
  BY <1>0, <1>1, <1>2 DEF OwnedNow, Distinct, Owning, Initializing
<1>5. Registered'
  BY <1>1, <1>2 DEF OwnedNow, Registered
<1>6. ControlHasOwner'
  BY <1>1, <1>2 DEF OwnedNow, ControlHasOwner, Fine
<1>7. EventFindsItsObject'
  <2> SUFFICES ASSUME NEW j \in connected' \ dropped
               PROVE  \/ \E p \in Objects : registered[j] = p /\ instance[p] = j
                      \/ \E u \in Tasks : task'[u].id = j /\ task'[u].at = "finalize"
    BY <1>2 DEF EventFindsItsObject
  <2>1. CASE j \in connected
    <3>1. \/ \E p \in Objects : registered[j] = p /\ instance[p] = j
          \/ \E u \in Tasks : task[u].id = j /\ task[u].at = "finalize"
      BY <2>1 DEF OwnedNow, EventFindsItsObject, Fine
    <3> QED
      BY <1>1, <3>1
  <2>2. CASE j = id /\ id \in controls
    <3>1. o \in Objects /\ o # None /\ instance[o] = id /\ id # 0
      BY <1>0, <1>1, <2>2, ObjectAssumption DEF OwnedNow, Alone, Numbered, Work, TypeOK, Ids
    <3>2. \A u \in Tasks : task[u].object = o => task[u].at = "call"
      BY <1>1, <3>1 DEF OwnedNow, Alone
    <3>3. registered[instance[o]] = o
      BY <2>2, <3>1, <3>2 DEF OwnedNow, Registered
    <3> QED
      BY <2>2, <3>1, <3>3
  <2> QED
    BY <1>2, <2>1, <2>2
<1> QED
  BY <1>3, <1>4, <1>5, <1>6, <1>7 DEF OwnedNow

\* Forgetting an object touches no other.
LEMMA OwnerCollect ==
  ASSUME TypeOK, Numbered, OwnedNow, Fine, Fine', NEW o \in Objects, Collect(o)
  PROVE  OwnedNow'
<1> USE DEF serverVars, countVars
<1>0. /\ instance \in [Objects -> {0} \cup Ids] /\ registered \in [Ids -> Objects \cup {None}]
      /\ \A u \in Tasks : task[u] \in Work
      /\ connected \subseteq Ids
  BY DEF TypeOK
<1>1. /\ UNCHANGED <<task, controls, connected>>
      /\ dropped' = dropped \cup {instance[o]}
      /\ instance[o] # 0 /\ \A u \in Tasks : task[u].object # o
  BY DEF Collect
<1>2. /\ instance'[o] = 0 /\ \A p \in Objects \ {o} : instance'[p] = instance[p]
      /\ \A j \in Ids : registered[j] # o => registered'[j] = registered[j]
  BY <1>0 DEF Collect
<1>3. Alone'
  BY <1>0, <1>1, <1>2 DEF OwnedNow, Alone, Numbered, Work, Initializing
<1>4. Distinct'
  BY <1>0, <1>1, <1>2 DEF OwnedNow, Distinct, Owning, Initializing
<1>5. Registered'
  BY <1>0, <1>1, <1>2 DEF OwnedNow, Registered
<1>6. ControlHasOwner'
  BY <1>0, <1>1, <1>2 DEF OwnedNow, ControlHasOwner, Fine
<1>7. EventFindsItsObject'
  BY <1>0, <1>1, <1>2 DEF OwnedNow, EventFindsItsObject, Fine
<1> QED
  BY <1>3, <1>4, <1>5, <1>6, <1>7 DEF OwnedNow

\* Every step keeps everything in order, as long as nothing has failed.
LEMMA OwnedNext ==
  ASSUME TypeOK, SlotInv, Numbered, OwnedNow, Fine, Fine', [Next]_vars
  PROVE  OwnedNow'
<1>1. ASSUME NEW t \in Tasks, NEW o \in Objects,
             Initialize(t, o) \/ CallMember(t, o) \/ Finalize(t, o) \/ Destroy(t, o)
      PROVE  OwnedNow'
  BY <1>1, OwnerBegin
<1>2. ASSUME NEW t \in Tasks, LocalStep(t) PROVE OwnedNow'
  BY <1>2, OwnerLocal
<1>3. ASSUME NEW t \in Tasks, Execute(t) PROVE OwnedNow'
  BY <1>3, OwnerCreate, OwnerDescribe, OwnerCall, OwnerDestroy DEF Execute
<1>4. ASSUME NEW t \in Tasks, CallFails(t) PROVE OwnedNow'
  BY <1>4 DEF CallFails, Fine
<1>5. ASSUME NEW o \in Objects, Collect(o) PROVE OwnedNow'
  BY <1>5, OwnerCollect
<1>6. CASE UNCHANGED <<task, controls, connected, instance, registered, dropped>>
  BY <1>6 DEF OwnedNow, Alone, Distinct, Registered, ControlHasOwner, EventFindsItsObject, Fine
<1>7. Fire \/ HandleEvent \/ AnswerEvent \/ UNCHANGED vars
        => UNCHANGED <<task, controls, connected, instance, registered, dropped>>
  BY DEF Fire, HandleEvent, AnswerEvent, vars, serverVars, clientVars, histVars
<1> QED
  BY <1>1, <1>2, <1>3, <1>4, <1>5, <1>6, <1>7 DEF Next

\* OwnerInv is inductive.
LEMMA OwnerNext == TypeOK /\ SlotInv /\ OwnerInv /\ [Next]_vars => OwnerInv'
<1> SUFFICES ASSUME TypeOK, SlotInv, OwnerInv, [Next]_vars PROVE OwnerInv'
  OBVIOUS
<1>1. Numbered'
  BY NumberedNext DEF OwnerInv
<1>2. CASE Fine'
  <2>1. Fine
    BY <1>2, FineBefore
  <2>2. OwnedNow'
    BY <1>2, <2>1, OwnedNext DEF OwnerInv, OwnedNow
  <2> QED
    BY <1>1, <2>2 DEF OwnerInv, OwnedNow
<1>3. CASE ~Fine'
  BY <1>1, <1>3 DEF OwnerInv, ControlHasOwner, EventFindsItsObject, Fine
<1> QED
  BY <1>2, <1>3

\* Nothing is in disorder at first.
LEMMA OwnerInit == Init => OwnerInv
<1> SUFFICES ASSUME Init PROVE OwnerInv
  OBVIOUS
<1> USE DEF Init, Idle, Initializing, Owning
<1>1. Numbered
  BY DEF Numbered
<1>2. Alone /\ Distinct /\ Registered
  BY DEF Alone, Distinct, Registered
<1>3. ControlHasOwner /\ EventFindsItsObject
  BY DEF ControlHasOwner, EventFindsItsObject
<1> QED
  BY <1>1, <1>2, <1>3 DEF OwnerInv

\* Every control belongs to an object, or to the task that initializes one,
\* while no answer is lost and no two tasks work on one object.
THEOREM ControlsAreOwned == Spec => []ControlHasOwner
<1>1. Init => SlotInv
  BY DEF Init, SlotInv, Idle
<1>2. OwnerInv => ControlHasOwner
  BY DEF OwnerInv
<1> QED
  BY <1>1, <1>2, TypeInit, TypeNext, SlotNext, OwnerInit, OwnerNext, PTL DEF Spec

\* An event that is raised finds the object of its control, unless a
\* finalizer is at it, under the same conditions.
THEOREM EventsFindObjects == Spec => []EventFindsItsObject
<1>1. Init => SlotInv
  BY DEF Init, SlotInv, Idle
<1>2. OwnerInv => EventFindsItsObject
  BY DEF OwnerInv
<1> QED
  BY <1>1, <1>2, TypeInit, TypeNext, SlotNext, OwnerInit, OwnerNext, PTL DEF Spec
-----------------------------------------------------------------------------
(* Dead ids.  An id is held for one object only: by the object, and by the *)
(* tasks at work on it.  So it takes a task at work on the object to       *)
(* remove its control, and as long as it is alone there it leaves the      *)
(* object destroyed, or goes on to clear it.                               *)

HeldForOne ==
  /\ \A o, p \in Objects : instance[o] = instance[p] /\ instance[o] # 0 => o = p
  /\ \A t \in Tasks, o \in Objects :
       task[t].id # 0 /\ instance[o] = task[t].id => task[t].object = o
  /\ \A t, u \in Tasks :
       task[t].id # 0 /\ task[t].id = task[u].id => task[t].object = task[u].object

\* What a task that is alone with object o has to rely on.
InStep(t, o) ==
  /\ task[t].at \in Initializing => instance[o] = 0
  /\ task[t].at \in {"register", "call", "finalize", "destroy", "clear"} =>
       instance[o] = task[t].id
  /\ task[t].at \in Owning => task[t].id \in controls
  /\ task[t].at = "destroy" \/ (task[t].at = "finalize" /\ aio) => o \in destroyed

ClearedOrDestroyed(o) ==
  instance[o] # 0 /\ instance[o] \notin controls =>
    o \in destroyed \/ \E t \in Tasks : task[t].at = "clear" /\ task[t].object = o

DeadInv ==
  failures = 0 =>
    \A o \in Objects \ overlap :
      /\ \A t, u \in Tasks : task[t].object = o /\ task[u].object = o => t = u
      /\ \A t \in Tasks : task[t].object = o => InStep(t, o)
      /\ ClearedOrDestroyed(o)

\* A task that takes up an object.
LEMMA TaskBegins ==
  ASSUME TypeOK, NEW t \in Tasks, NEW o \in Objects,
         Initialize(t, o) \/ CallMember(t, o) \/ Finalize(t, o) \/ Destroy(t, o)
  PROVE  /\ \A u \in Tasks \ {t} : task'[u] = task[u]
         /\ task[t] = Idle /\ task'[t].object = o
         /\ task'[t].at \in {"create", "call", "finalize", "destroy"}
         /\ task'[t].at = "create" => task'[t].id = 0 /\ instance[o] = 0
         /\ task'[t].at # "create" => task'[t].id = instance[o]
         /\ task'[t].at = "destroy" \/ (task'[t].at = "finalize" /\ aio) => o \in destroyed'
         /\ UNCHANGED <<instance, controls, failures>>
         /\ destroyed \subseteq destroyed' /\ overlap \subseteq overlap'
         /\ o \notin overlap' => \A u \in Tasks \ {t} : task[u].object # o
<1> USE DEF serverVars, clientVars, countVars
<1>0. task \in [Tasks -> Work]
  BY DEF TypeOK
<1>1. CASE Initialize(t, o)
  BY <1>0, <1>1 DEF Initialize, Begin, NotInitialized
<1>2. CASE CallMember(t, o)
  BY <1>0, <1>2 DEF CallMember, Begin
<1>3. CASE Finalize(t, o)
  BY <1>0, <1>3 DEF Finalize, Begin
<1>4. CASE Destroy(t, o)
  BY <1>0, <1>4 DEF Destroy, Begin
<1> QED
  BY <1>1, <1>2, <1>3, <1>4

\* Every step keeps an id with its object: a new one is greater than all.
LEMMA HeldNext == TypeOK /\ Numbered /\ HeldForOne /\ [Next]_vars => HeldForOne'
<1> SUFFICES ASSUME TypeOK, Numbered, HeldForOne, [Next]_vars PROVE HeldForOne'
  OBVIOUS
<1> USE DEF HeldForOne, serverVars, clientVars, countVars, histVars
<1>0. /\ task \in [Tasks -> Work] /\ \A t \in Tasks : task[t] \in Work
      /\ instance \in [Objects -> {0} \cup Ids]
  BY DEF TypeOK
<1>1. ASSUME NEW t \in Tasks, NEW o \in Objects,
             Initialize(t, o) \/ CallMember(t, o) \/ Finalize(t, o) \/ Destroy(t, o)
      PROVE HeldForOne'
  <2>1. /\ \A u \in Tasks \ {t} : task'[u] = task[u]
        /\ task'[t].object = o /\ task'[t].id \in {0, instance[o]} /\ instance' = instance
    BY <1>1, TaskBegins
  <2> QED
    BY <2>1
<1>2. ASSUME NEW t \in Tasks, LookUp(t) \/ StoreMembers(t) \/ CallFails(t) \/ ExecuteDescribe(t)
                                \/ ExecuteCall(t) \/ ExecuteDestroy(t)
      PROVE HeldForOne'
  <2>1. /\ instance' = instance
        /\ \A u \in Tasks \ {t} : task'[u] = task[u]
        /\ \/ task'[t].id = task[t].id /\ task'[t].object = task[t].object
           \/ task'[t].id = 0
    <3>1. CASE LookUp(t) \/ StoreMembers(t) \/ CallFails(t)
      BY <1>0, <3>1 DEF LookUp, StoreMembers, CallFails, Goes, Sends, Ends, Idle, Work
    <3>2. CASE ExecuteDescribe(t) \/ ExecuteCall(t)
      BY <1>0, <3>2 DEF ExecuteDescribe, ExecuteCall, Answered, Goes, Ends, Idle, Work
    <3>3. CASE ExecuteDestroy(t)
      BY <1>0, <3>3 DEF ExecuteDestroy, AfterDestroy, Answered, Goes, Ends, Idle, Work
    <3> QED
      BY <1>2, <3>1, <3>2, <3>3
  <2> QED
    BY <2>1
<1>3. ASSUME NEW t \in Tasks, Assign(t) \/ Register(t) \/ Clear(t) PROVE HeldForOne'
  <2>1. /\ \A u \in Tasks \ {t} : task'[u] = task[u]
        /\ \/ task'[t].id = task[t].id /\ task'[t].object = task[t].object
           \/ task'[t].id = 0
    BY <1>0, <1>3 DEF Assign, Register, Clear, Goes, Ends, Idle, Work
  <2>2. \/ instance' = instance
        \/ \E i \in {0, task[t].id} : instance' = [instance EXCEPT ![task[t].object] = i]
    BY <1>3 DEF Assign, Register, Clear
  <2> QED
    BY <1>0, <2>1, <2>2
<1>4. ASSUME NEW t \in Tasks, ExecuteCreate(t) PROVE HeldForOne'
  <2>1. instance' = instance /\ created \in Nat
    BY <1>4, ObjectAssumption DEF ExecuteCreate, TypeOK
  <2>2. /\ \A u \in Tasks \ {t} : task'[u] = task[u]
        /\ task'[t].id \in {0, created + 1}
    BY <1>0, <1>4 DEF ExecuteCreate, Answered, Ends, Idle, Work
  <2>3. /\ \A o \in Objects : instance[o] # created + 1
        /\ \A u \in Tasks : task[u].id # created + 1
    BY <1>0, <2>1, ObjectAssumption DEF Numbered, Ids, Work
  <2> QED
    BY <2>1, <2>2, <2>3
<1>5. ASSUME NEW o \in Objects, Collect(o) PROVE HeldForOne'
  BY <1>0, <1>5 DEF Collect
<1>6. CASE Fire \/ HandleEvent \/ AnswerEvent \/ UNCHANGED vars
  BY <1>6 DEF Fire, HandleEvent, AnswerEvent, vars
<1> QED
  BY <1>1, <1>2, <1>3, <1>4, <1>5, <1>6 DEF Next, LocalStep, Execute

\* A step of another task, on another object, does not touch an object.
LEMMA OtherObject ==
  ASSUME NEW o \in Objects, NEW t \in Tasks, task[t].object # o, task'[t].object # o,
         \A u \in Tasks \ {t} : task'[u] = task[u],
         instance'[o] = instance[o], instance[o] \in controls => instance[o] \in controls',
         \A u \in Tasks : task[u].object = o /\ task[u].id \in controls => task[u].id \in controls',
         destroyed \subseteq destroyed', aio' = aio,
         \A u \in Tasks : task[u].object = o => InStep(u, o), ClearedOrDestroyed(o)
  PROVE  (\A u \in Tasks : task'[u].object = o => InStep(u, o)') /\ ClearedOrDestroyed(o)'
<1>1. \A u \in Tasks : task'[u].object = o => u # t /\ task'[u] = task[u] /\ InStep(u, o)
  OBVIOUS
<1>2. \A u \in Tasks : task'[u].object = o => InStep(u, o)'
  BY <1>1 DEF InStep
<1>3. ClearedOrDestroyed(o)'
  BY <1>1 DEF ClearedOrDestroyed
<1> QED
  BY <1>2, <1>3

\* The step of a task that is alone with its object.
LEMMA OwnObject ==
  ASSUME TypeOK, SlotInv, Numbered, HeldForOne, NEW t \in Tasks, NEW o \in Objects,
         task[t].object = o, \A u \in Tasks : task[u].object = o => u = t,
         InStep(t, o), ClearedOrDestroyed(o), failures' = 0,
         LocalStep(t) \/ Execute(t) \/ CallFails(t), aio' = aio
  PROVE  (task'[t].object = o => InStep(t, o)') /\ ClearedOrDestroyed(o)'
<1> USE DEF serverVars, clientVars, countVars, histVars, Initializing, Owning
<1>0. /\ task \in [Tasks -> Work] /\ \A u \in Tasks : task[u] \in Work
      /\ instance \in [Objects -> {0} \cup Ids] /\ failures \in Nat /\ o # None
      /\ Idle.at = "idle" /\ Idle.object = None
  BY ObjectAssumption DEF TypeOK, Idle
<1>1. \A u \in Tasks : task[u].at = "clear" /\ task[u].object = o => u = t
  OBVIOUS
<1>2. CASE LookUp(t) \/ StoreMembers(t)
  <2>1. UNCHANGED <<instance, controls, destroyed>>
    BY <1>2 DEF LookUp, StoreMembers
  <2>2. /\ task'[t].at \in {"describe", "assign"} /\ task[t].at \in {"created", "described"}
        /\ task'[t].id = task[t].id
    BY <1>0, <1>2 DEF LookUp, StoreMembers, Goes, Sends, Work
  <2>3. InStep(t, o)'
    BY <2>1, <2>2 DEF InStep
  <2>4. ClearedOrDestroyed(o)'
    BY <2>1, <2>2 DEF InStep, ClearedOrDestroyed
  <2> QED
    BY <2>3, <2>4
<1>3. CASE Assign(t)
  <2>1. UNCHANGED <<controls, destroyed>> /\ task[t].id \in controls /\ instance'[o] = task[t].id
    BY <1>0, <1>3 DEF Assign, InStep
  <2>2. ClearedOrDestroyed(o)'
    BY <2>1 DEF ClearedOrDestroyed
  <2>3. task'[t] = Idle \/ (task'[t].at = "register" /\ task'[t].id = task[t].id)
    BY <1>0, <1>3 DEF Assign, Ends, Goes, Work
  <2>4. task'[t].object = o => InStep(t, o)'
    BY <1>0, <2>1, <2>3 DEF InStep
  <2> QED
    BY <2>2, <2>4
<1>4. CASE Register(t) \/ Clear(t)
  <2>1. /\ UNCHANGED <<controls, destroyed>> /\ task'[t] = Idle
        /\ instance'[o] \in {0, instance[o]}
        /\ task[t].at = "clear" => instance'[o] = 0
    BY <1>0, <1>4 DEF Register, Clear, Ends
  <2>2. ClearedOrDestroyed(o)'
    BY <1>0, <2>1 DEF ClearedOrDestroyed
  <2> QED
    BY <1>0, <2>1, <2>2
<1>5. CASE ExecuteCreate(t)
  <2>1. /\ UNCHANGED <<instance, destroyed>> /\ instance[o] = 0 /\ controls \subseteq controls'
    BY <1>5 DEF ExecuteCreate, InStep
  <2>2. task'[t] = Idle \/ (task'[t].at = "created" /\ task'[t].id \in controls')
    BY <1>0, <1>5 DEF ExecuteCreate, Answered, Ends, Work
  <2>3. task'[t].object = o => InStep(t, o)'
    BY <1>0, <2>1, <2>2 DEF InStep
  <2> QED
    BY <2>1, <2>3 DEF ClearedOrDestroyed
<1>6. CASE ExecuteDescribe(t)
  <2>1. /\ UNCHANGED <<instance, destroyed, controls>> /\ instance[o] = 0
    BY <1>6 DEF ExecuteDescribe, InStep
  <2>2. task'[t] = Idle \/ (task'[t].at = "described" /\ task'[t].id = task[t].id
                             /\ task[t].at = "describe")
    BY <1>0, <1>6 DEF ExecuteDescribe, Answered, Goes, Ends, Work
  <2>3. task'[t].object = o => InStep(t, o)'
    BY <1>0, <2>1, <2>2 DEF InStep
  <2> QED
    BY <2>1, <2>3 DEF ClearedOrDestroyed
<1>7. CASE ExecuteCall(t) \/ CallFails(t)
  <2>1. UNCHANGED <<instance, destroyed, controls>> /\ task'[t] = Idle /\ task[t].at # "clear"
    BY <1>0, <1>7 DEF ExecuteCall, CallFails, Calls, Ends
  <2>2. ClearedOrDestroyed(o)'
    BY <1>0, <1>1, <2>1 DEF ClearedOrDestroyed
  <2> QED
    BY <1>0, <2>1, <2>2
<1>8. CASE ExecuteDestroy(t)
  <2>1. /\ UNCHANGED <<instance, destroyed>> /\ instance[o] = task[t].id
        /\ controls' = controls \ {task[t].id} /\ task[t].at \in {"finalize", "destroy"}
        /\ task[t].at = "destroy" \/ aio => o \in destroyed
    BY <1>8 DEF ExecuteDestroy, InStep
  <2>2. task[t].id \in controls \/ task[t].id = 0 \/ o \in destroyed
    BY <1>0, <1>1, <2>1 DEF ClearedOrDestroyed
  <2>3. /\ task'[t] = Idle \/ (task'[t].at = "clear" /\ task'[t].object = o
                                /\ task'[t].id = task[t].id)
        /\ o \in destroyed \/ task[t].id = 0 \/ task'[t].at = "clear"
    BY <1>0, <1>8, <2>1, <2>2 DEF ExecuteDestroy, Answered, AfterDestroy, Goes, Ends, Work
  <2>4. task'[t].object = o => InStep(t, o)'
    BY <1>0, <2>1, <2>3 DEF InStep
  <2>5. ClearedOrDestroyed(o)'
    BY <1>0, <2>1, <2>3 DEF ClearedOrDestroyed
  <2> QED
    BY <2>4, <2>5
<1> QED
  BY <1>2, <1>3, <1>4, <1>5, <1>6, <1>7, <1>8 DEF LocalStep, Execute

\* A step of a task moves that task on or ends its work.
LEMMA TaskMoves ==
  ASSUME TypeOK, NEW t \in Tasks, LocalStep(t) \/ Execute(t) \/ CallFails(t)
  PROVE  /\ \A u \in Tasks \ {t} : task'[u] = task[u]
         /\ task'[t].object \in {task[t].object, None}
<1>0. task \in [Tasks -> Work] /\ task[t] \in Work
  BY DEF TypeOK
<1>1. CASE LookUp(t) \/ StoreMembers(t) \/ CallFails(t)
  BY <1>0, <1>1 DEF LookUp, StoreMembers, CallFails, Goes, Sends, Ends, Idle, Work
<1>2. CASE Assign(t) \/ Register(t) \/ Clear(t)
  BY <1>0, <1>2 DEF Assign, Register, Clear, Goes, Ends, Idle, Work
<1>3. CASE ExecuteCreate(t)
  BY <1>0, <1>3 DEF ExecuteCreate, Answered, Ends, Idle, Work
<1>4. CASE ExecuteDescribe(t) \/ ExecuteCall(t)
  BY <1>0, <1>4 DEF ExecuteDescribe, ExecuteCall, Answered, Goes, Ends, Idle, Work
<1>5. CASE ExecuteDestroy(t)
  BY <1>0, <1>5 DEF ExecuteDestroy, AfterDestroy, Answered, Goes, Ends, Idle, Work
<1> QED
  BY <1>1, <1>2, <1>3, <1>4, <1>5 DEF LocalStep, Execute

\* What a step of a task leaves of the objects it does not work on.
LEMMA StepElsewhere ==
  ASSUME TypeOK, Numbered, HeldForOne, NEW t \in Tasks, NEW o \in Objects,
         LocalStep(t) \/ Execute(t) \/ CallFails(t), task[t].object # o
  PROVE  /\ \A u \in Tasks \ {t} : task'[u] = task[u]
         /\ task'[t].object \in {task[t].object, None}
         /\ instance'[o] = instance[o] /\ UNCHANGED destroyed
         /\ instance[o] \in controls => instance[o] \in controls'
         /\ \A u \in Tasks : task[u].object = o /\ task[u].id \in controls => task[u].id \in controls'
<1> USE DEF serverVars, clientVars, countVars, histVars
<1>0. /\ task \in [Tasks -> Work] /\ \A u \in Tasks : task[u] \in Work
      /\ instance \in [Objects -> {0} \cup Ids]
  BY DEF TypeOK
<1>1. /\ \A u \in Tasks \ {t} : task'[u] = task[u]
      /\ task'[t].object \in {task[t].object, None}
  BY TaskMoves
<1>2. instance'[o] = instance[o] /\ UNCHANGED destroyed
  <2>1. CASE Assign(t) \/ Clear(t)
    BY <1>0, <2>1 DEF Assign, Clear
  <2>2. CASE LookUp(t) \/ StoreMembers(t) \/ Register(t) \/ CallFails(t) \/ Execute(t)
    BY <2>2 DEF LookUp, StoreMembers, Register, CallFails, Execute, ExecuteCreate,
       ExecuteDescribe, ExecuteCall, ExecuteDestroy
  <2> QED
    BY <2>1, <2>2 DEF LocalStep
<1>3. controls \subseteq controls' \/ controls' = controls \ {task[t].id}
  BY DEF LocalStep, Execute, LookUp, StoreMembers, Assign, Register, Clear, CallFails,
     ExecuteCreate, ExecuteDescribe, ExecuteCall, ExecuteDestroy
<1>4. 0 \notin controls
  BY DEF TypeOK, Ids
<1>5. instance[o] \in controls => instance[o] # task[t].id
  BY <1>4 DEF HeldForOne
<1>6. \A u \in Tasks : task[u].object = o /\ task[u].id \in controls => task[u].id # task[t].id
  BY <1>4 DEF HeldForOne
<1> QED
  BY <1>1, <1>2, <1>3, <1>5, <1>6

\* Every step keeps DeadInv.
LEMMA DeadNext ==
  TypeOK /\ SlotInv /\ Numbered /\ HeldForOne /\ DeadInv /\ [Next]_vars => DeadInv'
<1> SUFFICES ASSUME TypeOK, SlotInv, Numbered, HeldForOne, DeadInv, [Next]_vars,
                    failures' = 0, NEW o \in Objects, o \notin overlap'
             PROVE  /\ \A t, u \in Tasks : task'[t].object = o /\ task'[u].object = o => t = u
                    /\ \A t \in Tasks : task'[t].object = o => InStep(t, o)'
                    /\ ClearedOrDestroyed(o)'
  BY DEF DeadInv
<1> USE DEF serverVars, clientVars, countVars, histVars
<1>0. /\ task \in [Tasks -> Work] /\ \A u \in Tasks : task[u] \in Work
      /\ instance \in [Objects -> {0} \cup Ids] /\ o # None
      /\ Idle.at = "idle" /\ Idle.object = None
  BY ObjectAssumption DEF TypeOK, Idle
<1>1. failures = 0 /\ overlap \subseteq overlap' /\ aio' = aio
  <2>1. failures \in Nat
    BY ObjectAssumption DEF TypeOK
  <2>2. ASSUME NEW t \in Tasks, LocalStep(t) \/ Execute(t) \/ CallFails(t)
        PROVE  failures' \in {failures, failures + 1} /\ overlap' = overlap
    <3>1. CASE LocalStep(t) \/ CallFails(t)
      BY <3>1 DEF LocalStep, LookUp, StoreMembers, Assign, Register, Clear, CallFails
    <3>2. CASE Execute(t)
      BY <3>2 DEF Execute, ExecuteCreate, ExecuteDescribe, ExecuteCall, ExecuteDestroy, Answered
    <3> QED
      BY <2>2, <3>1, <3>2
  <2>3. ASSUME NEW t \in Tasks, NEW p \in Objects,
               Initialize(t, p) \/ CallMember(t, p) \/ Finalize(t, p) \/ Destroy(t, p)
        PROVE  failures' = failures /\ overlap \subseteq overlap'
    BY <2>3, TaskBegins
  <2>4. ASSUME UNCHANGED vars \/ Fire \/ HandleEvent \/ AnswerEvent
               \/ \E p \in Objects : Collect(p)
        PROVE  failures' = failures /\ overlap' = overlap
    BY <2>4 DEF Fire, HandleEvent, AnswerEvent, Collect, vars
  <2>5. aio' = aio
    BY DEF Next, vars
  <2> QED
    BY <2>1, <2>2, <2>3, <2>4, <2>5 DEF Next
<1>2. /\ \A t, u \in Tasks : task[t].object = o /\ task[u].object = o => t = u
      /\ \A t \in Tasks : task[t].object = o => InStep(t, o)
      /\ ClearedOrDestroyed(o)
  BY <1>1 DEF DeadInv
<1>3. ASSUME NEW t \in Tasks, LocalStep(t) \/ Execute(t) \/ CallFails(t)
      PROVE  /\ \A u, v \in Tasks : task'[u].object = o /\ task'[v].object = o => u = v
             /\ \A u \in Tasks : task'[u].object = o => InStep(u, o)'
             /\ ClearedOrDestroyed(o)'
  <2>1. /\ \A u \in Tasks \ {t} : task'[u] = task[u]
        /\ task'[t].object \in {task[t].object, None}
    BY <1>3, TaskMoves
  <2>2. \A u, v \in Tasks : task'[u].object = o /\ task'[v].object = o => u = v
    BY <1>0, <1>2, <2>1
  <2>3. CASE task[t].object = o
    <3>1. \A u \in Tasks : task[u].object = o => u = t
      BY <1>2, <2>3
    <3>2. (task'[t].object = o => InStep(t, o)') /\ ClearedOrDestroyed(o)'
      BY <1>1, <1>2, <1>3, <2>3, <3>1, OwnObject
    <3>3. \A u \in Tasks : task'[u].object = o => u = t
      BY <2>1, <3>1
    <3> QED
      BY <2>2, <3>2, <3>3
  <2>4. CASE task[t].object # o
    <3>1. /\ task'[t].object # o /\ instance'[o] = instance[o] /\ destroyed \subseteq destroyed'
          /\ instance[o] \in controls => instance[o] \in controls'
          /\ \A u \in Tasks : task[u].object = o /\ task[u].id \in controls => task[u].id \in controls'
      BY <1>0, <1>3, <2>4, StepElsewhere
    <3> QED
      BY <1>1, <1>2, <2>1, <2>2, <2>4, <3>1, OtherObject
  <2> QED
    BY <2>3, <2>4
<1>4. ASSUME NEW t \in Tasks, NEW p \in Objects,
             Initialize(t, p) \/ CallMember(t, p) \/ Finalize(t, p) \/ Destroy(t, p)
      PROVE  /\ \A u, v \in Tasks : task'[u].object = o /\ task'[v].object = o => u = v
             /\ \A u \in Tasks : task'[u].object = o => InStep(u, o)'
             /\ ClearedOrDestroyed(o)'
  <2>1. /\ \A u \in Tasks \ {t} : task'[u] = task[u]
        /\ task[t] = Idle /\ task'[t].object = p
        /\ task'[t].at \in {"create", "call", "finalize", "destroy"}
        /\ task'[t].at = "create" => instance[p] = 0
        /\ task'[t].at # "create" => task'[t].id = instance[p]
        /\ task'[t].at = "destroy" \/ (task'[t].at = "finalize" /\ aio) => p \in destroyed'
    BY <1>4, TaskBegins
  <2>2. /\ UNCHANGED <<instance, controls>> /\ destroyed \subseteq destroyed'
        /\ p = o => \A u \in Tasks \ {t} : task[u].object # o
    BY <1>4, TaskBegins
  <2>3. \A u, v \in Tasks : task'[u].object = o /\ task'[v].object = o => u = v
    BY <1>2, <2>1, <2>2
  <2>4. CASE p = o
    <3>1. \A u \in Tasks : task'[u].object = o => u = t
      BY <2>1, <2>2, <2>4
    <3>2. InStep(t, o)'
      BY <1>1, <2>1, <2>2, <2>4 DEF InStep, Initializing, Owning
    <3>3. ClearedOrDestroyed(o)'
      BY <1>0, <1>2, <2>1, <2>2 DEF ClearedOrDestroyed
    <3> QED
      BY <2>3, <3>1, <3>2, <3>3
  <2>5. CASE p # o
    <3>1. task[t].object # o /\ task'[t].object # o /\ \A u \in Tasks \ {t} : task'[u] = task[u]
      BY <1>0, <2>1, <2>5
    <3> QED
      BY <1>1, <1>2, <2>2, <2>3, <3>1, OtherObject
  <2> QED
    BY <2>4, <2>5
<1>5. ASSUME NEW p \in Objects, Collect(p)
      PROVE  /\ \A u, v \in Tasks : task'[u].object = o /\ task'[v].object = o => u = v
             /\ \A u \in Tasks : task'[u].object = o => InStep(u, o)'
             /\ ClearedOrDestroyed(o)'
  <2>1. /\ UNCHANGED <<controls, task>> /\ destroyed' = destroyed \ {p}
        /\ instance'[o] = IF p = o THEN 0 ELSE instance[o]
        /\ p = o => \A u \in Tasks : task[u].object # o
    BY <1>0, <1>5 DEF Collect
  <2> QED
    BY <1>1, <1>2, <2>1 DEF InStep, ClearedOrDestroyed
<1>6. CASE Fire \/ HandleEvent \/ AnswerEvent \/ UNCHANGED vars
  <2>1. UNCHANGED <<task, instance, controls, destroyed>>
    BY <1>6 DEF Fire, HandleEvent, AnswerEvent, vars
  <2> QED
    BY <1>1, <1>2, <2>1 DEF InStep, ClearedOrDestroyed
<1> QED
  BY <1>3, <1>4, <1>5, <1>6 DEF Next

\* The id of a control that is gone stays with an object only until its
\* finalizer has cleared it, unless the object was destroyed, two tasks worked
\* on this very object at once, or something failed.
THEOREM DeadIdsAreCleared == Spec => []DeadIdIsTemporary
<1>1. Init => HeldForOne /\ DeadInv
  <2> SUFFICES ASSUME Init PROVE HeldForOne /\ DeadInv
    OBVIOUS
  <2>1. /\ \A o \in Objects : instance[o] = 0
        /\ \A t \in Tasks : task[t].id = 0 /\ task[t].object = None
    BY DEF Init, Idle
  <2> QED
    BY <2>1, ObjectAssumption DEF HeldForOne, DeadInv, ClearedOrDestroyed
<1>2. Init => SlotInv /\ Numbered
  BY DEF Init, SlotInv, Numbered, Idle
<1>3. TypeOK /\ DeadInv => DeadIdIsTemporary
  <2> SUFFICES ASSUME TypeOK, DeadInv, NEW o \in Objects, instance[o] # 0,
                      instance[o] \notin controls, o \notin destroyed \cup overlap,
                      ~(failures > 0)
               PROVE  \E t \in Tasks : task[t].at = "clear" /\ task[t].object = o
    BY DEF DeadIdIsTemporary
  <2>1. failures = 0
    BY ObjectAssumption DEF TypeOK
  <2> QED
    BY <2>1 DEF DeadInv, ClearedOrDestroyed
<1> QED
  BY <1>1, <1>2, <1>3, TypeInit, TypeNext, SlotNext, NumberedNext, HeldNext, DeadNext, PTL
     DEF Spec
================================================================================
