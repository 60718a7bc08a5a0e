----------------------------- MODULE EventHandlers -----------------------------
(***************************************************************************)
(* Handlers of one event of one control, on both sides of the wire.  The   *)
(* client keeps a list of handlers under a lock; connect sends             *)
(* ConnectEvent for the first handler and disconnect sends DisconnectEvent *)
(* after the last, both while they hold the lock.  The server counts the   *)
(* connections of the peer and sends the event to a peer it has an entry   *)
(* for, keeping its main thread until the peer has answered.  The client's *)
(* event loop copies the list under the lock and runs the copy.  A handler *)
(* that raises, be it only the error of a connect of its own, skips those  *)
(* behind it; its event is answered all the same, and the event loop ends: *)
(* what the server sends later is received by nobody.                      *)
(*                                                                         *)
(* A call with context DEFAULT waits for the main thread to be free; one   *)
(* with the context of an event is executed while the main thread waits    *)
(* for that event, and not later.  The synchronous client keeps contexts   *)
(* per thread, so that only calls of handlers carry one.  The asynchronous *)
(* client has one stack of contexts: what any of its tasks calls while an  *)
(* event is handled carries the context of the event.  A call may fail on  *)
(* the way there or on the way back.                                       *)
(***************************************************************************)
EXTENDS Integers, Sequences, SequencesExt

CONSTANTS Threads,     \* client threads, or tasks, that connect and disconnect
          Loop,        \* the one that runs the event loop
          Handlers,
          None,        \* no thread; also: no entry for the peer
          MaxEvents,   \* bound: times the control fires the event
          MaxFailures, \* bound: calls that fail
          MaxHandlers  \* bound: length of the list of handlers

ASSUME HandlersAssumption ==
  /\ Loop \notin Threads /\ None \notin Threads \cup {Loop} \cup Int
  /\ MaxEvents \in Nat /\ MaxFailures \in Nat /\ MaxHandlers \in Nat

VARIABLES
  aio,                \* is the client asynchronous?  (constant)
  handlers, lock,     \* the list, and the owner of its lock
  call, pending,      \* per thread: its call's state, and its connect/disconnect
  context,            \* per thread: the event its call carries, 0 for none
  count,              \* server: m_connections[peer], or None
  main,               \* server: is the main thread waiting for the client?
  loop, todo, ran,    \* event loop: where it is, copied handlers, those it ran
  due,                \* handlers connected when the event fired, and since
  events, failures    \* counters, bounded

clientVars == <<aio, handlers, lock, call, pending, context>>
loopVars   == <<loop, todo, ran>>
vars == <<clientVars, loopVars, count, main, due, events, failures>>

Clients == Threads \cup {Loop}
NoOp == [kind |-> "none", handler |-> None]

Init ==
  /\ aio \in BOOLEAN /\ handlers = <<>> /\ lock = None
  /\ context = [t \in Clients |-> 0]
  /\ call = [t \in Clients |-> "none"] /\ pending = [t \in Clients |-> NoOp]
  /\ count = None /\ main = "free"
  /\ loop = "idle" /\ todo = <<>> /\ ran = {} /\ due = {}
  /\ events = 0 /\ failures = 0

-----------------------------------------------------------------------------
(* The client: AxServeEventType.connect and disconnect. *)

\* A client thread at any time; the loop thread from inside a handler.
MayCall(t) ==
  /\ pending[t] = NoOp
  /\ lock = None
  /\ t = Loop => loop = "handler"

\* Is the call to the server needed?  handlers is the list before a connect
\* and after a disconnect.
NeedsCallAlways(list) == TRUE
NeedsCall(list) == list = <<>>

RemoveFirstOf(list, h) ==
  LET k == CHOOSE k \in DOMAIN list : list[k] = h /\ \A j \in 1..(k-1) : list[j] # h
  IN  RemoveAt(list, k)

\* What a removal changes in a round of handlers that is under way: nothing,
\* the event loop runs a copy of the list.
LeftToRunLive(h) == IF h \in ran /\ todo # <<>> THEN Tail(todo) ELSE todo
LeftToRun(h) == todo

\* _contextualize_request: the event on top of the stack, that of the thread
\* or that of the client, is there while the event is being handled.
CurrentContext(t) ==
  IF (aio \/ t = Loop) /\ loop \in {"event", "next", "handler"} THEN events ELSE 0

Begin(t, kind, h) ==
  /\ context' = [context EXCEPT ![t] = CurrentContext(t)]
  /\ lock' = t
  /\ pending' = [pending EXCEPT ![t] = [kind |-> kind, handler |-> h]]
  /\ call' = [call EXCEPT ![t] = "sent"]

Connect(t, h) ==
  /\ MayCall(t) /\ Len(handlers) < MaxHandlers
  /\ \/ /\ NeedsCall(handlers)
        /\ Begin(t, "connect", h)
        /\ UNCHANGED handlers
     \/ /\ ~NeedsCall(handlers)
        /\ handlers' = Append(handlers, h)
        /\ UNCHANGED <<lock, pending, call, context>>
  /\ UNCHANGED <<aio, loopVars, count, main, due, events, failures>>

Disconnect(t, h) ==
  /\ MayCall(t) /\ h \in Range(handlers)
  /\ handlers' = RemoveFirstOf(handlers, h)
  /\ due' = due \cap Range(handlers')
  /\ \/ NeedsCall(handlers') /\ Begin(t, "disconnect", h)
     \/ ~NeedsCall(handlers') /\ UNCHANGED <<lock, pending, call, context>>
  /\ todo' = LeftToRun(h)
  /\ UNCHANGED <<aio, loop, ran, count, main, events, failures>>

Release(t) == lock' = None

ConnectedAnyway(t) == pending[t].kind = "connect"
Connected(t) == pending[t].kind = "connect" /\ call[t] = "ok"

\* The call is back: connect appends the handler if it succeeded, and both
\* release the lock; a failure is raised to the caller.
CallReturns(t) ==
  /\ call[t] \in {"ok", "failed"}
  /\ handlers' = IF Connected(t) THEN Append(handlers, pending[t].handler)
                 ELSE handlers
  /\ Release(t)
  /\ call' = [call EXCEPT ![t] = "none"]
  /\ pending' = [pending EXCEPT ![t] = NoOp]
  /\ context' = [context EXCEPT ![t] = 0]
  /\ UNCHANGED <<aio, loopVars, count, main, due, events, failures>>

-----------------------------------------------------------------------------
(* The server: OutboundConnections, and its callers in Control and Executor. *)

ConnectPeer(n) == IF n = None THEN 1 ELSE n + 1

\* The count before the decrement decides whether the entry goes.
DisconnectPeer(n) == IF n <= 0 THEN None ELSE n - 1

MainExecutes(t) ==
  IF context[t] = 0 THEN main = "free" ELSE main = "waiting" /\ context[t] = events

\* The server executes the call; the answer may be lost.
Execute(t) ==
  /\ call[t] = "sent" /\ MainExecutes(t)
  /\ \E result \in {"ok", "failed"} :
       /\ call' = [call EXCEPT ![t] = result]
       /\ \/ /\ pending[t].kind = "connect"
             /\ count' = ConnectPeer(count)
             /\ failures' = IF result = "ok" THEN failures ELSE failures + 1
          \/ /\ pending[t].kind = "disconnect" /\ count # None
             /\ count' = DisconnectPeer(count)
             /\ failures' = IF result = "ok" THEN failures ELSE failures + 1
          \/ /\ pending[t].kind = "disconnect" /\ count = None
             /\ result = "failed"
             /\ UNCHANGED <<count, failures>>
       /\ failures' <= MaxFailures
  /\ UNCHANGED <<aio, handlers, lock, pending, context, loopVars, main, due, events>>

\* The call never gets to the server.
CallFails(t) ==
  /\ call[t] = "sent" /\ failures < MaxFailures
  /\ call' = [call EXCEPT ![t] = "failed"]
  /\ failures' = failures + 1
  /\ UNCHANGED <<aio, handlers, lock, pending, context, loopVars, count, main, due, events>>

IsTarget(n) == n # None

\* The control fires the event: Control::slot, OutboundReactorSet::reactorsFor.
Fire ==
  /\ main = "free" /\ events < MaxEvents
  /\ events' = events + 1
  /\ due' = Range(handlers)
  /\ ran' = {}
  /\ \/ /\ IsTarget(count) /\ main' = "waiting"
        /\ loop' = IF loop = "ended" THEN "ended" ELSE "sent"
     \/ ~IsTarget(count) /\ UNCHANGED <<main, loop>>
  /\ UNCHANGED <<clientVars, todo, count, failures>>

-----------------------------------------------------------------------------
(* The client's event loop: AxServeEvent.__call__ for one event. *)

\* The context is pushed; it is popped when the handlers have run.
ReceiveEvent ==
  /\ loop = "sent"
  /\ loop' = "event"
  /\ UNCHANGED <<clientVars, todo, ran, count, main, due, events, failures>>

LockFree == lock = None

CopyHandlers ==
  /\ loop = "event" /\ LockFree
  /\ todo' = handlers
  /\ loop' = "next"
  /\ UNCHANGED <<clientVars, ran, count, main, due, events, failures>>

RunHandler ==
  /\ loop = "next" /\ todo # <<>>
  /\ ran' = ran \cup {Head(todo)}
  /\ todo' = Tail(todo)
  /\ loop' = "handler"
  /\ UNCHANGED <<clientVars, count, main, due, events, failures>>

HandlerReturns ==
  /\ loop = "handler" /\ pending[Loop] = NoOp
  /\ loop' = "next"
  /\ UNCHANGED <<clientVars, todo, ran, count, main, due, events, failures>>

\* The exception passes through __call__ and the context of the event, which
\* answers on the way out, and ends exec and its thread or task.
HandlerRaises ==
  /\ loop = "handler" /\ pending[Loop] = NoOp
  /\ loop' = "ended"
  /\ main' = "free"
  /\ UNCHANGED <<clientVars, todo, ran, count, due, events, failures>>

HandlerEnds == HandlerReturns \/ HandlerRaises

AnswerEvent ==
  /\ loop = "next" /\ todo = <<>>
  /\ loop' = "idle"
  /\ main' = "free"
  /\ UNCHANGED <<clientVars, todo, ran, count, due, events, failures>>

-----------------------------------------------------------------------------

LoopStep == ReceiveEvent \/ CopyHandlers \/ RunHandler \/ HandlerEnds \/ AnswerEvent

Next ==
  \/ \E t \in Clients, h \in Handlers : Connect(t, h) \/ Disconnect(t, h)
  \/ \E t \in Clients : CallReturns(t) \/ Execute(t) \/ CallFails(t)
  \/ Fire
  \/ LoopStep

Spec == Init /\ [][Next]_vars

\* The loop thread, the server's main thread and a thread whose call is back
\* go on, a waiter for the lock is not passed over forever, and a handler
\* returns or raises however often it connects; nobody need connect,
\* disconnect or fire.
Fairness ==
  /\ WF_vars(LoopStep) /\ SF_vars(CopyHandlers) /\ SF_vars(HandlerEnds)
  /\ \A t \in Clients : WF_vars(CallReturns(t)) /\ WF_vars(Execute(t))

FairSpec == Spec /\ Fairness

-----------------------------------------------------------------------------
(* Properties. *)

TypeOK ==
  /\ handlers \in Seq(Handlers) /\ lock \in Clients \cup {None}
  /\ aio \in BOOLEAN /\ context \in [Clients -> 0..MaxEvents]
  /\ call \in [Clients -> {"none", "sent", "ok", "failed"}]
  /\ pending \in [Clients -> {NoOp} \cup
                   [kind : {"connect", "disconnect"}, handler : Handlers]]
  /\ count \in Nat \cup {None} /\ main \in {"free", "waiting"}
  /\ loop \in {"idle", "sent", "event", "next", "handler", "ended"}
  /\ todo \in Seq(Handlers) /\ ran \subseteq Handlers /\ due \subseteq Handlers
  /\ events \in 0..MaxEvents /\ failures \in 0..MaxFailures

\* A client with a handler in its list is a target of the event at the server,
\* also after calls that failed on either way.
ServerKnowsHandlers == handlers # <<>> => IsTarget(count)

\* When no call is under way the server counts one connection for a client
\* with handlers, none for one without, and at most one more per failed call.
CountFollowsList ==
  lock = None /\ count # None =>
    LET used == IF handlers = <<>> THEN 0 ELSE 1
    IN  used <= count /\ count <= used + failures

\* Every handler connected when the event fires, and not disconnected since,
\* has run when the event is answered; but those behind a handler that raised.
DueHandlersRun ==
  [][main = "waiting" /\ main' = "free" =>
       due \subseteq IF loop' = "ended" THEN ran \cup Range(todo) ELSE ran]_vars

\* The loop waits for the lock of a thread whose call the server does not
\* execute: it waits for the event to be answered, or for an earlier one.
LockCycle ==
  /\ loop = "event" /\ lock \in Threads
  /\ call[lock] = "sent" /\ ~MainExecutes(lock)

\* A task's call carries the context of an event that has been answered.
Orphaned(t) ==
  /\ aio /\ t # Loop
  /\ call[t] = "sent" /\ context[t] # 0
  /\ ~(main = "waiting" /\ context[t] = events)

\* The server waits for the answer to an event that was sent when the event
\* loop had ended.
Unanswered == main = "waiting" /\ loop = "ended"


================================================================================
