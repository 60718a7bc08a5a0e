------------------------------- MODULE EventSlot -------------------------------
(***************************************************************************)
(* How the server raises an event synchronously.  A COM control fires an   *)
(* event on the Qt main thread; Control::slot sends it to the peers that   *)
(* are connected to it and keeps the main thread in a loop until all of    *)
(* them have answered.  While it waits, the calls that the event handlers  *)
(* make (context EVENT) are executed by that loop, and may themselves      *)
(* raise events; calls of context DEFAULT wait for the main thread to get  *)
(* back to its own event loop.                                             *)
(*                                                                         *)
(* Main thread: Executor::handleInbound, Executor::execute, Control::slot. *)
(* gRPC threads: Executor::schedule for an arriving call, and              *)
(* OutboundItem::notifyHandledBy for an answer.  Peers: the event loop of  *)
(* the Python client, one event at a time, each handler making calls in    *)
(* the context of the event it handles: blocking calls, except for the     *)
(* peers in Detached.  An asynchronous client is one of those: its event   *)
(* context belongs to all of its tasks, so a task the handler does not     *)
(* wait for calls in the context of the event too.                         *)
(*                                                                         *)
(* sendTo keeps m_reactorsMutex until every reactor has the event, so an   *)
(* answer cannot be counted before the event was sent to all: raising an   *)
(* event is one step.  OutboundReactor models that step's inside.          *)
(***************************************************************************)
EXTENDS Naturals, Sequences, FiniteSets, SequencesExt

CONSTANTS Events,   \* the OutboundItems
          Calls,    \* the InboundItems
          Peers,    \* the clients with an event stream
          Default,  \* ContextType::DEFAULT
          Foreign,  \* the id of an event this server does not know
          None,
          Detached  \* peers whose handlers may answer while a call is pending

ASSUME SlotAssumption ==
  /\ Events \cap Calls = {}
  /\ {Default, Foreign, None} \cap (Events \cup Calls \cup Peers) = {}
  /\ Cardinality({Default, Foreign, None}) = 3
  /\ Detached \subseteq Peers

VARIABLES
  inbounds, signals, loopBatch,      \* Executor: queue, queued signals, batch
  stack,                             \* main thread: slots and calls, top first
  running,                           \* OutboundChannel::m_running
  queue, batch, slotPc,              \* per event: m_inbounds, loop of the slot
  awaiting, done,                    \* per event: m_reactors; finished promises
  context, answered, dropped,        \* per call: where it was sent, its fate
  inbox, handling, calling           \* per peer: events to handle, its handler

mainVars  == <<loopBatch, stack, batch, slotPc>>
itemVars  == <<running, awaiting, done>>
callVars  == <<context, answered, dropped>>
peerVars  == <<inbox, handling, calling>>
vars == <<inbounds, signals, mainVars, queue, itemVars, callVars, peerVars>>

Init ==
  /\ inbounds = <<>> /\ signals = 0 /\ loopBatch = <<>>
  /\ stack = <<>>
  /\ running = {}
  /\ queue = [e \in Events |-> <<>>]
  /\ batch = [e \in Events |-> <<>>]
  /\ slotPc = [e \in Events |-> "new"]
  /\ awaiting = [e \in Events |-> {}] /\ done = {}
  /\ context = [c \in Calls |-> None] /\ answered = {} /\ dropped = {}
  /\ inbox = [p \in Peers |-> <<>>]
  /\ handling = [p \in Peers |-> None]
  /\ calling = [p \in Peers |-> None]

-----------------------------------------------------------------------------
(* OutboundItem: m_condition.  wakeOne wakes the slot only if it is already *)
(* asleep; nothing remembers the call otherwise.                            *)

WakeOne(e) ==
  slotPc' = IF slotPc[e] = "asleep" THEN [slotPc EXCEPT ![e] = "receive"]
            ELSE slotPc

\* The signal emitted for each item that InboundChannel::send queues.
EmitInboundWhenIdle == signals' = IF stack = <<>> THEN signals + 1 ELSE signals
EmitInbound == signals' = signals + 1

(* A call reaches the server: InboundReactor's constructor, Executor::schedule, *)
(* and InboundChannel::send or OutboundChannel::send.                           *)
Schedule(c, x) ==
  /\ context[c] = None
  /\ context' = [context EXCEPT ![c] = x]
  /\ \/ /\ x = Default
        /\ inbounds' = Append(inbounds, c)
        /\ EmitInbound
        /\ UNCHANGED <<queue, slotPc, dropped>>
     \/ /\ x # Default /\ x \notin running
        /\ dropped' = dropped \cup {c}
        /\ UNCHANGED <<inbounds, signals, queue, slotPc>>
     \/ /\ x \in running
        /\ queue' = [queue EXCEPT ![x] = Append(@, c)]
        /\ WakeOne(x)
        /\ UNCHANGED <<inbounds, signals, dropped>>
  /\ UNCHANGED <<loopBatch, stack, batch, itemVars, answered>>

(* OutboundItem::notifyHandledBy, and finish when no reactor is left. *)
LastAnswerAny(e, p) == TRUE
LastAnswerEarly(e, p) == awaiting[e] = {}
LastAnswer(e, p) == awaiting[e] \subseteq {p}

NotifyHandledBy(e, p) ==
  /\ awaiting' = [awaiting EXCEPT ![e] = @ \ {p}]
  /\ \/ /\ LastAnswer(e, p)
        /\ done' = done \cup {e}
        /\ WakeOne(e)
     \/ /\ ~LastAnswer(e, p)
        /\ UNCHANGED <<done, slotPc>>

-----------------------------------------------------------------------------
(* The main thread. *)

Top == IF stack = <<>> THEN None ELSE Head(stack)

InEventLoop == stack = <<>> /\ loopBatch = <<>>

HandleInbound ==
  /\ InEventLoop /\ signals > 0
  /\ signals' = signals - 1
  /\ loopBatch' = inbounds
  /\ inbounds' = <<>>
  /\ UNCHANGED <<stack, batch, slotPc, queue, itemVars, callVars, peerVars>>

\* Only the main thread's own loop executes what handleInbound received.
LoopMayExecute == stack = <<>>

\* Executor::execute, up to the point where the control is called.
ExecuteFromLoop ==
  /\ LoopMayExecute /\ loopBatch # <<>>
  /\ stack' = <<Head(loopBatch)>> \o stack
  /\ loopBatch' = Tail(loopBatch)
  /\ UNCHANGED <<inbounds, signals, batch, slotPc, queue, itemVars, callVars, peerVars>>

\* The control has returned; Finish answers the call.
FinishCall ==
  /\ Top \in Calls
  /\ answered' = answered \cup {Top}
  /\ stack' = Tail(stack)
  /\ UNCHANGED <<inbounds, signals, loopBatch, batch, slotPc, queue, itemVars,
                 context, dropped, peerVars>>

\* OutboundChannel::send enters the event in m_running, for good.
OutboundSend(e) == running' = running \cup {e}

\* A control fires e, from its own message or inside a call, and
\* Control::slot sends it to the reactors of the connected peers P.  With no
\* reactor sendTo finishes the item at once.
Raise(e, P) ==
  /\ slotPc[e] = "new"
  /\ InEventLoop \/ Top \in Calls
  /\ stack' = <<e>> \o stack
  /\ slotPc' = [slotPc EXCEPT ![e] = "test"]
  /\ OutboundSend(e)
  /\ awaiting' = [awaiting EXCEPT ![e] = P]
  /\ done' = IF P = {} THEN done \cup {e} ELSE done
  /\ inbox' = [p \in Peers |-> IF p \in P THEN Append(inbox[p], e) ELSE inbox[p]]
  /\ UNCHANGED <<inbounds, signals, loopBatch, batch, queue, callVars,
                 handling, calling>>

\* The loop of Control::slot for the event on top of the stack: test done(),
\* wait(), receive(), execute each, test again.
SlotTest(e) ==
  /\ Top = e /\ slotPc[e] = "test"
  /\ \/ /\ e \in done
        /\ slotPc' = [slotPc EXCEPT ![e] = "returned"]
        /\ stack' = Tail(stack)
     \/ /\ e \notin done
        /\ slotPc' = [slotPc EXCEPT ![e] = "wait"]
        /\ UNCHANGED stack
  /\ UNCHANGED <<inbounds, signals, loopBatch, batch, queue, itemVars, callVars, peerVars>>

SlotWait(e) ==
  /\ Top = e /\ slotPc[e] = "wait"
  /\ slotPc' = [slotPc EXCEPT ![e] = "asleep"]
  /\ UNCHANGED <<inbounds, signals, loopBatch, stack, batch, queue, itemVars,
                 callVars, peerVars>>

\* OutboundChannel::receive's item side: what is taken, what is left behind.
ReceivedReversed(e) == [batch EXCEPT ![e] = Reverse(queue[e])]
Received(e) == [batch EXCEPT ![e] = queue[e]]
LeftBehind(e) == [queue EXCEPT ![e] = <<>>]

SlotReceive(e) ==
  /\ Top = e /\ slotPc[e] = "receive"
  /\ batch' = Received(e)
  /\ queue' = LeftBehind(e)
  /\ slotPc' = [slotPc EXCEPT ![e] = "run"]
  /\ UNCHANGED <<inbounds, signals, loopBatch, stack, itemVars, callVars, peerVars>>

SlotRun(e) ==
  /\ Top = e /\ slotPc[e] = "run"
  /\ \/ /\ batch[e] # <<>>
        /\ stack' = <<Head(batch[e])>> \o stack
        /\ batch' = [batch EXCEPT ![e] = Tail(@)]
        /\ UNCHANGED slotPc
     \/ /\ batch[e] = <<>>
        /\ slotPc' = [slotPc EXCEPT ![e] = "test"]
        /\ UNCHANGED <<stack, batch>>
  /\ UNCHANGED <<inbounds, signals, loopBatch, queue, itemVars, callVars, peerVars>>

Slot(e) == SlotTest(e) \/ SlotWait(e) \/ SlotReceive(e) \/ SlotRun(e)

-----------------------------------------------------------------------------
(* The clients.  A peer's event loop takes one event at a time; its handler *)
(* may call in the context of that event, and blocks until the answer       *)
(* unless the call is detached; then it answers the event.  Other threads   *)
(* of a client call outside any event.                                      *)

PeerTakes(p) ==
  /\ handling[p] = None /\ inbox[p] # <<>>
  /\ handling' = [handling EXCEPT ![p] = Head(inbox[p])]
  /\ inbox' = [inbox EXCEPT ![p] = Tail(@)]
  /\ UNCHANGED <<inbounds, signals, mainVars, queue, itemVars, callVars, calling>>

HandlerFree(p) ==
  /\ handling[p] # None
  /\ calling[p] = None \/ calling[p] \in answered \/ p \in Detached

PeerCalls(p, c) ==
  /\ HandlerFree(p)
  /\ Schedule(c, handling[p])
  /\ calling' = [calling EXCEPT ![p] = c]
  /\ UNCHANGED <<inbox, handling>>

PeerAnswers(p) ==
  /\ HandlerFree(p)
  /\ NotifyHandledBy(handling[p], p)
  /\ handling' = [handling EXCEPT ![p] = None]
  /\ calling' = [calling EXCEPT ![p] = None]
  /\ UNCHANGED <<inbounds, signals, loopBatch, stack, batch, queue, running,
                 callVars, inbox>>

ClientCalls(c) ==
  /\ \E x \in {Default, Foreign} : Schedule(c, x)
  /\ UNCHANGED peerVars

-----------------------------------------------------------------------------

Main ==
  HandleInbound \/ ExecuteFromLoop \/ FinishCall \/ (\E e \in Events : Slot(e))

Peer(p) == PeerTakes(p) \/ PeerAnswers(p)

Next ==
  \/ Main
  \/ \E e \in Events, P \in SUBSET Peers : Raise(e, P)
  \/ \E p \in Peers : Peer(p) \/ \E c \in Calls : PeerCalls(p, c)
  \/ \E c \in Calls : ClientCalls(c)

Spec == Init /\ [][Next]_vars

\* The main thread runs whenever it is not asleep, and every peer goes on with
\* the event it handles.
Fairness ==
  /\ WF_vars(Main)
  /\ \A p \in Peers : WF_vars(Peer(p))

FairSpec == Spec /\ Fairness

-----------------------------------------------------------------------------
(* Properties. *)

TypeOK ==
  /\ inbounds \in Seq(Calls) /\ loopBatch \in Seq(Calls) /\ signals \in Nat
  /\ stack \in Seq(Events \cup Calls)
  /\ running \subseteq Events /\ done \subseteq running
  /\ queue \in [Events -> Seq(Calls)] /\ batch \in [Events -> Seq(Calls)]
  /\ slotPc \in [Events -> {"new", "test", "wait", "asleep", "receive", "run",
                            "returned"}]
  /\ awaiting \in [Events -> SUBSET Peers]
  /\ context \in [Calls -> Events \cup {Default, Foreign, None}]
  /\ answered \subseteq Calls /\ dropped \subseteq Calls
  /\ inbox \in [Peers -> Seq(Events)]
  /\ handling \in [Peers -> Events \cup {None}]
  /\ calling \in [Peers -> Calls \cup {None}]

\* A peer's handler that waits for its call is never left behind: the slot of
\* the event it handles does not return before the call is answered, whatever
\* the peers do whose handlers do not wait.
NoOrphanedCall ==
  \A p \in Peers \ Detached :
    calling[p] \notin answered \cup {None} => slotPc[handling[p]] # "returned"

\* A call of a handler that does not wait, which came after the slot's last
\* look at the queue or after its return: nothing executes it any more.
Orphaned(c) == context[c] \in Events /\ slotPc[context[c]] = "returned"

\* The main thread sleeps on an event that is already handled, or that has
\* a call to execute: the wake-up came before the sleep.
Overslept(e) == slotPc[e] = "asleep" /\ (e \in done \/ queue[e] # <<>>)

\* A peer's handler waits for a call whose execution raised an event that
\* the same peer must handle next.
ReentrantWait(p) ==
  /\ calling[p] \notin answered \cup {None} /\ p \notin Detached
  /\ \E e \in Range(inbox[p]) : slotPc[e] # "returned"

\* The two ways in which the code stops making progress.
Stuck ==
  \/ \E e \in Events : Overslept(e)
  \/ \E p \in Peers : ReentrantWait(p)

\* Every event raised is eventually handled and its slot returns, unless a
\* wake-up was lost or a peer waits for itself.
SlotReturnsOrIsStuck ==
  \A e \in Events : slotPc[e] = "test" ~> slotPc[e] = "returned" \/ Stuck

\* Every call that the server accepted, in either context, is eventually
\* answered, with the same two exceptions, or orphaned.
CallAnsweredOrStuck ==
  \A c \in Calls :
    context[c] \in Events \cup {Default} ~> c \in answered \/ Orphaned(c) \/ Stuck

\* A call is on the main thread's stack right under an event that it fired.
FiredIn(c, e) ==
  \E i \in 1..(Len(stack) - 1) : stack[i] = e /\ stack[i + 1] = c

\* A call whose execution fires an event to a connected handler eventually
\* returns: the tests set a property that fires one, and go on with the next
\* call.
FiringCallReturns ==
  \A c \in Calls : (\E e \in Events : FiredIn(c, e)) ~> c \in answered

-----------------------------------------------------------------------------
(* The queues, the signal and the loop of the slot implement the stack of  *)
(* nested calls and events that the server promises.                       *)

Promise == INSTANCE NestedCalls WITH
  waiting <- [x \in Events \cup {Default} |->
                IF x = Default THEN loopBatch \o inbounds
                ELSE batch[x] \o queue[x]],
  unsent <- {c \in Calls : context[c] = None},
  todo <- awaiting,
  raised <- running
PromiseSpec == Promise!Spec
================================================================================
