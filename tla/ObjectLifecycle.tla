----------------------------- MODULE ObjectLifecycle -----------------------------
(***************************************************************************)
(* The life of AxServeObjects and of the controls they stand for.  An      *)
(* object creates a control at the server, describes it unless the members *)
(* of its class are cached, keeps its instance id and is registered under  *)
(* it, so that the event loop finds the object an event is for.  Leaving   *)
(* the object's context, or destroying it, removes the control.            *)
(*                                                                         *)
(* The client is synchronous, with threads, or asynchronous, with tasks    *)
(* that are interrupted only where they await.  Create and Destroy carry   *)
(* no event context and wait for the server's main thread to be free; the  *)
(* other calls carry the context of the event being handled: by their own  *)
(* thread, or, in the asynchronous client, by any task.  Events raised     *)
(* while another one is handled are EventSlot's subject.                   *)
(***************************************************************************)
EXTENDS Naturals

CONSTANTS Tasks,       \* client threads or tasks, the event loop's included
          Loop,        \* the one that runs the event loop
          Objects,     \* AxServeObjects
          Clsids, ClassOf,
          None,        \* no object
          MaxControls, \* bound: controls created
          MaxEvents,   \* bound: events raised
          MaxFailures  \* bound: answers lost and calls failed on the way

ASSUME ObjectAssumption ==
  /\ Loop \in Tasks /\ None \notin Objects
  /\ ClassOf \in [Objects -> Clsids]
  /\ MaxControls \in Nat /\ MaxEvents \in Nat /\ MaxFailures \in Nat

VARIABLES
  aio,         \* is the client asynchronous?  (constant in a behaviour)
  controls,    \* ControlSet::m_controls, by instance id: 1, 2, ...
  created,     \* ids given out
  connected,   \* controls with an event connected to this client
  main,        \* control whose event the main thread waits for, or 0
  handling,    \* is the event on the client's context stack?
  instance,    \* _instance of each object, or 0
  registered,  \* AxServeInstancesManager: the object of an id
  cache,       \* AxServeMembersManagerCache: the control described for a class
  task,        \* what each task is doing
  events, failures,               \* counters, bounded
  overlap, destroyed, dropped     \* history: objects two tasks worked on at
                                  \* once, objects destroyed but not cleared,
                                  \* controls whose object was collected

serverVars == <<controls, created, connected, main>>
clientVars == <<handling, instance, registered, cache>>
countVars  == <<events, failures>>
histVars   == <<overlap, destroyed, dropped>>
vars == <<aio, serverVars, clientVars, task, countVars, histVars>>

Ids == 1..MaxControls
Steps == {"idle", "create", "created", "describe", "described", "assign",
          "register", "call", "finalize", "destroy", "clear"}
Work == [at : Steps, object : Objects \cup {None}, id : {0} \cup Ids,
         context : 0..MaxEvents]
Idle == [at |-> "idle", object |-> None, id |-> 0, context |-> 0]

Init ==
  /\ aio \in BOOLEAN
  /\ controls = {} /\ created = 0 /\ connected = {} /\ main = 0
  /\ handling = FALSE
  /\ instance = [o \in Objects |-> 0]
  /\ registered = [i \in Ids |-> None]
  /\ cache = [c \in Clsids |-> 0]
  /\ task = [t \in Tasks |-> Idle]
  /\ events = 0 /\ failures = 0
  /\ overlap = {} /\ destroyed = {} /\ dropped = {}

-----------------------------------------------------------------------------
(* Steps of a task. *)

\* _contextualize_request: the event on top of the stack the caller sees.
ContextOfNone(t) == 0
ContextOf(t) == IF handling /\ (t = Loop \/ aio) THEN events ELSE 0

Goes(t, step) == task' = [task EXCEPT ![t].at = step]
Sends(t, step) == task' = [task EXCEPT ![t].at = step, ![t].context = ContextOf(t)]
Ends(t) == task' = [task EXCEPT ![t] = Idle]

\* A task takes up work on o; handlers run only while an event is handled.
Begin(t, o, step, i, context) ==
  /\ task[t] = Idle
  /\ t = Loop => handling
  /\ task' = [task EXCEPT ![t] = [at |-> step, object |-> o, id |-> i,
                                  context |-> context]]
  /\ overlap' = IF \E u \in Tasks \ {t} : task[u].object = o
                THEN overlap \cup {o} ELSE overlap

\* Construction or entering; an object that has its instance returns at once.
NotInitializedAny(o) == TRUE
NotInitialized(o) == instance[o] = 0

Initialize(t, o) ==
  /\ NotInitialized(o)
  /\ Begin(t, o, "create", 0, 0)
  /\ UNCHANGED <<serverVars, clientVars, countVars, destroyed, dropped>>

\* _get_members_manager.
LookUp(t) ==
  /\ task[t].at = "created"
  /\ IF cache[ClassOf[task[t].object]] = 0 THEN Sends(t, "describe") ELSE Goes(t, "assign")
  /\ UNCHANGED <<serverVars, clientVars, countVars, histVars>>

StoreMembers(t) ==
  /\ task[t].at = "described"
  /\ cache' = [cache EXCEPT ![ClassOf[task[t].object]] = task[t].id]
  /\ Goes(t, "assign")
  /\ UNCHANGED <<serverVars, handling, instance, registered, countVars, histVars>>

\* The id under which _initialize_internals registers the object.
RegisteredIdDescribed(t) == cache[ClassOf[task[t].object]]
RegisteredId(t) == task[t].id

RegisterObject(t) ==
  registered' = [registered EXCEPT ![RegisteredId(t)] = task[t].object]

\* Nothing is awaited between the assignment and the registration.
Assign(t) ==
  /\ task[t].at = "assign"
  /\ instance' = [instance EXCEPT ![task[t].object] = task[t].id]
  /\ IF aio THEN RegisterObject(t) /\ Ends(t)
     ELSE Goes(t, "register") /\ UNCHANGED registered
  /\ UNCHANGED <<serverVars, handling, cache, countVars, histVars>>

Register(t) ==
  /\ task[t].at = "register"
  /\ RegisterObject(t)
  /\ Ends(t)
  /\ UNCHANGED <<serverVars, handling, instance, cache, countVars, histVars>>

\* Reading or setting a property, a method call, connect or disconnect.
CallMember(t, o) ==
  /\ instance[o] # 0
  /\ Begin(t, o, "call", instance[o], ContextOf(t))
  /\ UNCHANGED <<serverVars, clientVars, countVars, destroyed, dropped>>

\* Leaving the context of the object; in the asynchronous client destroy too.
Unregister(i) == registered' = [registered EXCEPT ![i] = None]

Finalize(t, o) ==
  /\ instance[o] # 0
  /\ Begin(t, o, "finalize", instance[o], 0)
  /\ Unregister(instance[o])
  /\ destroyed' = IF aio THEN destroyed \cup {o} ELSE destroyed
  /\ UNCHANGED <<serverVars, handling, instance, cache, countVars, dropped>>

\* AxServeClient.destroy of the synchronous client.
Destroy(t, o) ==
  /\ ~aio
  /\ instance[o] # 0 /\ registered[instance[o]] # None
  /\ Begin(t, o, "destroy", instance[o], 0)
  /\ destroyed' = destroyed \cup {o}
  /\ UNCHANGED <<serverVars, clientVars, countVars, dropped>>

Clear(t) ==
  /\ task[t].at = "clear"
  /\ instance' = [instance EXCEPT ![task[t].object] = 0]
  /\ Ends(t)
  /\ UNCHANGED <<serverVars, handling, registered, cache, countVars, histVars>>

\* Nobody refers to the object any more, nor is its event being handled: the
\* weak dictionary forgets it, and nothing tells the server.
Collect(o) ==
  /\ instance[o] # 0 /\ \A t \in Tasks : task[t].object # o
  /\ ~(handling /\ registered[main] = o)
  /\ registered' = [i \in Ids |-> IF registered[i] = o THEN None ELSE registered[i]]
  /\ dropped' = dropped \cup {instance[o]}
  /\ instance' = [instance EXCEPT ![o] = 0]
  /\ destroyed' = destroyed \ {o}
  /\ UNCHANGED <<serverVars, handling, cache, task, countVars, overlap>>

-----------------------------------------------------------------------------
(* The server executes the call of a task. *)

Calls == {"create", "describe", "call", "finalize", "destroy"}

\* Executor: a call without context runs in the main thread's own loop, one
\* with context in the slot of its event.
ExecutableAnywhere(t) == task[t].context \in {0, events}
Executable(t) ==
  IF task[t].context = 0 THEN main = 0
  ELSE main # 0 /\ task[t].context = events

\* The answer is lost: the call took effect and raises in the client.
Answered(t, answer) ==
  \/ answer /\ UNCHANGED failures
  \/ failures < MaxFailures /\ failures' = failures + 1 /\ Ends(t)

ExecuteCreate(t) ==
  /\ task[t].at = "create" /\ Executable(t)
  /\ \/ /\ created < MaxControls
        /\ created' = created + 1
        /\ controls' = controls \cup {created + 1}
        /\ Answered(t, task' = [task EXCEPT ![t].at = "created", ![t].id = created + 1])
     \/ /\ Ends(t)
        /\ UNCHANGED <<created, controls, failures>>
  /\ UNCHANGED <<connected, main, clientVars, events, histVars>>

ExecuteDescribe(t) ==
  /\ task[t].at = "describe" /\ Executable(t)
  /\ Answered(t, IF task[t].id \in controls THEN Goes(t, "described") ELSE Ends(t))
  /\ UNCHANGED <<serverVars, clientVars, events, histVars>>

ExecuteCall(t) ==
  /\ task[t].at = "call" /\ Executable(t)
  /\ \/ connected' = connected \cup (controls \cap {task[t].id})
     \/ connected' = connected \ {task[t].id}
  /\ Ends(t)
  /\ UNCHANGED <<controls, created, main, clientVars, countVars, histVars>>

\* What follows a successful Destroy.
AfterDestroyEnds(t) == Ends(t)
AfterDestroy(t) ==
  IF task[t].at = "finalize" /\ ~aio THEN Goes(t, "clear") ELSE Ends(t)

ExecuteDestroy(t) ==
  /\ task[t].at \in {"finalize", "destroy"} /\ Executable(t)
  /\ controls' = controls \ {task[t].id}
  /\ connected' = connected \ {task[t].id}
  /\ Answered(t, IF task[t].id \in controls THEN AfterDestroy(t) ELSE Ends(t))
  /\ UNCHANGED <<created, main, clientVars, events, histVars>>

\* A call never gets to the server.
CallFails(t) ==
  /\ task[t].at \in Calls /\ failures < MaxFailures
  /\ failures' = failures + 1
  /\ Ends(t)
  /\ UNCHANGED <<serverVars, clientVars, events, histVars>>

-----------------------------------------------------------------------------
(* Events. *)

Fire ==
  /\ main = 0 /\ events < MaxEvents
  /\ main' \in connected
  /\ events' = events + 1
  /\ UNCHANGED <<controls, created, connected, clientVars, task, failures, histVars>>

\* An event for an object that is not registered is answered all the same.
HandleEvent ==
  /\ main # 0 /\ ~handling
  /\ handling' = (registered[main] # None)
  /\ main' = IF registered[main] = None THEN 0 ELSE main
  /\ UNCHANGED <<controls, created, connected, instance, registered, cache,
                 task, countVars, histVars>>

AnswerEvent ==
  /\ handling /\ task[Loop] = Idle
  /\ handling' = FALSE
  /\ main' = 0
  /\ UNCHANGED <<controls, created, connected, instance, registered, cache,
                 task, countVars, histVars>>

-----------------------------------------------------------------------------

LocalStep(t) == LookUp(t) \/ StoreMembers(t) \/ Assign(t) \/ Register(t) \/ Clear(t)

Execute(t) ==
  ExecuteCreate(t) \/ ExecuteDescribe(t) \/ ExecuteCall(t) \/ ExecuteDestroy(t)

Next ==
  /\ \/ \E t \in Tasks, o \in Objects :
          Initialize(t, o) \/ CallMember(t, o) \/ Finalize(t, o) \/ Destroy(t, o)
     \/ \E t \in Tasks : LocalStep(t) \/ Execute(t) \/ CallFails(t)
     \/ \E o \in Objects : Collect(o)
     \/ Fire \/ HandleEvent \/ AnswerEvent
  /\ UNCHANGED aio

Spec == Init /\ [][Next]_vars

\* Tasks go on, the server's main thread executes what it may execute, the
\* event loop takes events and handlers return.
Fairness ==
  /\ \A t \in Tasks : WF_vars(LocalStep(t) /\ UNCHANGED aio)
  /\ \A t \in Tasks : SF_vars(Execute(t) /\ UNCHANGED aio)
  /\ WF_vars(HandleEvent /\ UNCHANGED aio) /\ SF_vars(AnswerEvent /\ UNCHANGED aio)

FairSpec == Spec /\ Fairness

-----------------------------------------------------------------------------
(* Properties. *)

TypeOK ==
  /\ aio \in BOOLEAN /\ handling \in BOOLEAN
  /\ controls \subseteq Ids /\ connected \subseteq Ids
  /\ created \in 0..MaxControls /\ main \in {0} \cup Ids
  /\ instance \in [Objects -> {0} \cup Ids]
  /\ registered \in [Ids -> Objects \cup {None}]
  /\ cache \in [Clsids -> {0} \cup Ids]
  /\ task \in [Tasks -> Work]
  /\ events \in 0..MaxEvents /\ failures \in 0..MaxFailures
  /\ overlap \subseteq Objects /\ destroyed \subseteq Objects /\ dropped \subseteq Ids

\* The control whose event the main thread is waiting for in Control::slot
\* stays in the ControlSet, which holds the only lasting reference to it:
\* a Destroy from a handler does not run while the slot is on the stack.
RaisingControlLives == main # 0 => main \in controls

\* A control the client asked for belongs to an object or to the task that is
\* initializing one, so that somebody can destroy it, unless an answer was
\* lost, two tasks used one object at the same time, or the object was
\* collected.
ControlHasOwner ==
  failures = 0 /\ overlap = {} =>
    \A i \in controls \ dropped :
      \/ \E o \in Objects : instance[o] = i
      \/ \E t \in Tasks : /\ task[t].id = i
                          /\ task[t].at \in {"created", "describe", "described", "assign"}

\* An object holds the id of a control that is gone only while its finalizer
\* is about to clear it; for good only after destroy(), after the
\* asynchronous client's finalizer, or when something failed.
DeadIdIsTemporary ==
  \A o \in Objects :
    instance[o] # 0 /\ instance[o] \notin controls =>
      \/ o \in destroyed \cup overlap \/ failures > 0
      \/ \E t \in Tasks : task[t].at = "clear" /\ task[t].object = o

\* The event loop finds the object that stands for a connected control, and
\* no other, unless a finalizer has already unregistered it; with the same
\* three exceptions.
EventFindsItsObject ==
  failures = 0 /\ overlap = {} =>
    \A i \in connected \ dropped :
      \/ \E o \in Objects : registered[i] = o /\ instance[o] = i
      \/ \E t \in Tasks : task[t].id = i /\ task[t].at = "finalize"

\* A handler created or destroyed an object: the call waits for the main
\* thread, which waits for the handler.
HandlerDeadlock ==
  main # 0 /\ task[Loop].at \in {"create", "finalize", "destroy"}

\* A call in the context of an event that has been answered: a task of the
\* asynchronous client made it while another task's handler ran.
Orphaned(t) == task[t].context # 0 /\ (main = 0 \/ task[t].context # events)

\* Every call comes back, unless a handler waits for itself or the event the
\* call was attributed to is over.
CallReturns ==
  \A t \in Tasks :
    task[t].at \in Calls ~> task[t].at \notin Calls \/ Orphaned(t) \/ HandlerDeadlock
================================================================================
