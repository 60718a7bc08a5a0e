---------------------------- MODULE OutboundReactor ----------------------------
(***************************************************************************)
(* One event stream of the server: the OutboundReactor of a HandleEvent    *)
(* call, with the threads that enter it.                                   *)
(*                                                                         *)
(*   "main"    the Qt main thread, inside OutboundItem::sendTo;            *)
(*   "writer"  the gRPC thread running OnWriteDone;                        *)
(*   reader    the gRPC thread running OnReadDone;                         *)
(*   closer    the gRPC thread running OnDone.                             *)
(*                                                                         *)
(* A critical section of one mutex is one step.  Only two sections lock a  *)
(* second mutex while they hold the first, so only those are split: sendTo *)
(* keeps the item's m_reactorsMutex for the whole of reactor->send, and    *)
(* OnDone keeps m_runningMutex, then m_pendingMutex, while it notifies the *)
(* items.  The gRPC library is external: it allows one outstanding write   *)
(* and one Finish, and aborts the process otherwise; OnDone runs once      *)
(* Finish was called and no operation or other callback is outstanding.    *)
(* After OnDone the stream object is gone.                                 *)
(***************************************************************************)
EXTENDS Naturals, Sequences, FiniteSets, Functions

CONSTANTS Items,       \* the events (OutboundItem) sent on this stream
          None,        \* "no item"
          Pong,        \* the message m_pong
          MaxPings,    \* bound: pings the client sends
          ClientLeaves \* whether the client may close or lose the stream

ASSUME ReactorAssumption ==
  /\ None \notin Items
  /\ Pong \notin Items \cup {None}
  /\ MaxPings \in Nat
  /\ ClientLeaves \in BOOLEAN

VARIABLES
  pending, running, writing, pongs,   \* the reactor's m_ members
  started,                            \* items whose sendTo was called
  done,                               \* items whose m_reactors this reactor left
  sending,                            \* item whose m_reactorsMutex sendTo holds
  pc, taken,                          \* NextWrite, per thread that calls it
  readPc, readItem,                   \* OnReadDone
  donePc, toNotify,                   \* OnDone
  outstanding, finished, fault,       \* the gRPC stream
  client, toClient, toServer, pings,  \* the peer and the two directions
  handled                             \* events whose handlers the peer has run

itemVars   == <<started, done>>
nextVars   == <<pc, taken, sending>>
readVars   == <<readPc, readItem>>
doneVars   == <<donePc, toNotify>>
clientVars == <<client, toClient, toServer, pings, handled>>
vars == <<pending, running, writing, pongs, itemVars, nextVars, readVars,
          doneVars, outstanding, finished, fault, clientVars>>

Threads == {"main", "writer"}
Messages == Items \cup {Pong}
Ping == Pong  \* the client's ping, which m_pong answers

Init ==
  /\ pending = <<>> /\ running = {} /\ writing = FALSE /\ pongs = 0
  /\ started = {} /\ done = {}
  /\ sending = None
  /\ pc = [t \in Threads |-> "idle"] /\ taken = [t \in Threads |-> None]
  /\ readPc = "reading" /\ readItem = None
  /\ donePc = "idle" /\ toNotify = {}
  /\ outstanding = <<>> /\ finished = FALSE /\ fault = "none"
  /\ client = "open" /\ toClient = <<>> /\ toServer = <<>> /\ pings = 0
  /\ handled = {}

-----------------------------------------------------------------------------
(* A fault aborts the process or leaves the stream undefined: no step follows. *)
Alive == fault = "none"

(* The locks that are held across steps. *)

PendingMutexFreeLate == donePc \notin {"running", "pending"}
PendingMutexFree == donePc # "pending"
RunningMutexFree == donePc # "running"
ReactorsMutexFree(i) == sending # i

(* OutboundItem::notifyHandledBy, called with the item's mutex free. *)
NotifyHandledBy(i) ==
  /\ ReactorsMutexFree(i)
  /\ done' = done \cup {i}
  /\ UNCHANGED started

(* The gRPC operations the reactor starts. *)
StartWrite(m) ==
  /\ outstanding' = Append(outstanding, m)
  /\ fault' = IF donePc # "idle" THEN "write_after_done"
              ELSE IF outstanding # <<>> THEN "overlapping_write"
              ELSE fault
  /\ toClient' = IF client = "open" /\ ~finished THEN Append(toClient, m)
                 ELSE toClient
  /\ UNCHANGED <<client, toServer, pings, handled, finished>>

Finish ==
  /\ finished' = TRUE
  /\ fault' = IF finished THEN "second_finish" ELSE fault
  /\ UNCHANGED <<outstanding, clientVars>>

-----------------------------------------------------------------------------
(* NextWrite, run by the main thread at the end of send and by the writer. *)

\* The thread leaves NextWrite; the main thread also leaves sendTo and
\* releases the item's mutex.
Leave(t) ==
  /\ pc' = [pc EXCEPT ![t] = "idle"]
  /\ taken' = [taken EXCEPT ![t] = None]
  /\ sending' = IF t = "main" THEN None ELSE sending

Goto(t, label) ==
  /\ pc' = [pc EXCEPT ![t] = label]
  /\ UNCHANGED <<taken, sending>>

CheckWriting(t) ==
  /\ Alive
  /\ pc[t] = "check"
  /\ \/ writing /\ Leave(t)
     \/ ~writing /\ Goto(t, "pong")
  /\ UNCHANGED <<pending, running, writing, pongs, itemVars, readVars,
                 doneVars, outstanding, finished, fault, clientVars>>

PongOwed == pongs > 0

\* The pong is written without raising m_writing.
WritePong(t) ==
  /\ Alive
  /\ pc[t] = "pong"
  /\ \/ /\ PongOwed
        /\ StartWrite(Pong)
        /\ pongs' = pongs - 1
        /\ Leave(t)
     \/ /\ ~PongOwed
        /\ Goto(t, "take")
        /\ UNCHANGED <<pongs, outstanding, finished, fault, clientVars>>
  /\ UNCHANGED <<pending, running, writing, itemVars, readVars, doneVars>>

\* The second look at m_writing, under m_pendingMutex.
MayTakeUnchecked == pending # <<>>
MayTake == pending # <<>> /\ ~writing

TakePending(t) ==
  /\ Alive
  /\ pc[t] = "take"
  /\ PendingMutexFree
  /\ \/ /\ ~MayTake
        /\ Leave(t)
        /\ UNCHANGED <<pending, writing>>
     \/ /\ MayTake
        /\ writing' = TRUE
        /\ pending' = Tail(pending)
        /\ taken' = [taken EXCEPT ![t] = Head(pending)]
        /\ pc' = [pc EXCEPT ![t] = "run"]
        /\ UNCHANGED sending
  /\ UNCHANGED <<running, pongs, itemVars, readVars, doneVars, outstanding,
                 finished, fault, clientVars>>

AddRunning(t) ==
  /\ Alive
  /\ pc[t] = "run"
  /\ RunningMutexFree
  /\ running' = running \cup {taken[t]}
  /\ Goto(t, "write")
  /\ UNCHANGED <<pending, writing, pongs, itemVars, readVars, doneVars,
                 outstanding, finished, fault, clientVars>>

WriteItem(t) ==
  /\ Alive
  /\ pc[t] = "write"
  /\ StartWrite(taken[t])
  /\ Leave(t)
  /\ UNCHANGED <<pending, running, writing, pongs, itemVars, readVars, doneVars>>

NextWrite(t) ==
  CheckWriting(t) \/ WritePong(t) \/ TakePending(t) \/ AddRunning(t) \/ WriteItem(t)

-----------------------------------------------------------------------------
(* The main thread: OutboundItem::sendTo with this reactor as the target.  *)
(* dissolve removes the reactor from a copy of the set, so a reactor whose *)
(* OnDone has run is still a target.                                       *)

SendTo(i) ==
  /\ Alive
  /\ pc["main"] = "idle"
  /\ i \notin started
  /\ started' = started \cup {i}
  /\ sending' = i
  /\ pc' = [pc EXCEPT !["main"] = "enqueue"]
  /\ UNCHANGED <<pending, running, writing, pongs, done, taken, readVars,
                 doneVars, outstanding, finished, fault, clientVars>>

EnqueuedFirst(i) == <<i>> \o pending
Enqueued(i) == Append(pending, i)

Enqueue ==
  /\ Alive
  /\ pc["main"] = "enqueue"
  /\ PendingMutexFree
  /\ pending' = Enqueued(sending)
  /\ Goto("main", "check")
  /\ UNCHANGED <<running, writing, pongs, itemVars, readVars, doneVars,
                 outstanding, finished, fault, clientVars>>

-----------------------------------------------------------------------------
(* The writer thread: OnWriteDone.  It resets m_writing and then either    *)
(* starts the next write or finishes the stream with UNKNOWN.              *)

WriteDoneStops(ok) == IF ok THEN "idle" ELSE "finish"
WriteDoneSwapped(ok) == IF ok THEN "finish" ELSE "check"
WriteDoneLabel(ok) == IF ok THEN "check" ELSE "finish"

OnWriteDone ==
  /\ Alive
  /\ outstanding # <<>>
  /\ pc["writer"] = "idle"
  /\ outstanding' = Tail(outstanding)
  /\ writing' = FALSE
  /\ \E ok \in BOOLEAN :
       /\ ok \/ client = "gone" \/ finished
       /\ Goto("writer", WriteDoneLabel(ok))
  /\ UNCHANGED <<pending, running, pongs, itemVars, readVars, doneVars,
                 finished, fault, clientVars>>

FinishAfterFailedWrite ==
  /\ Alive
  /\ pc["writer"] = "finish"
  /\ Finish
  /\ Leave("writer")
  /\ UNCHANGED <<pending, running, writing, pongs, itemVars, readVars, doneVars>>

-----------------------------------------------------------------------------
(* The reader thread: OnReadDone. *)

ReadPing ==
  /\ Alive
  /\ readPc = "reading"
  /\ toServer # <<>> /\ Head(toServer) = Ping
  /\ toServer' = Tail(toServer)
  /\ pongs' = pongs + 1
  /\ UNCHANGED <<pending, running, writing, itemVars, nextVars, readVars,
                 doneVars, outstanding, finished, fault, client, toClient, pings,
                 handled>>

ReadResponse ==
  /\ Alive
  /\ readPc = "reading"
  /\ toServer # <<>> /\ Head(toServer) # Ping
  /\ RunningMutexFree
  /\ LET i == Head(toServer) IN
       /\ toServer' = Tail(toServer)
       /\ running' = running \ {i}
       /\ IF i \in running THEN readPc' = "notify" /\ readItem' = i
          ELSE UNCHANGED readVars
  /\ UNCHANGED <<pending, writing, pongs, itemVars, nextVars, doneVars,
                 outstanding, finished, fault, client, toClient, pings,
                 handled>>

NotifyHandled ==
  /\ Alive
  /\ readPc = "notify"
  /\ NotifyHandledBy(readItem)
  /\ readPc' = "reading" /\ readItem' = None
  /\ UNCHANGED <<pending, running, writing, pongs, nextVars, doneVars,
                 outstanding, finished, fault, clientVars>>

ReadFails ==
  /\ Alive
  /\ readPc = "reading"
  /\ client = "gone" \/ finished \/ (client = "closed" /\ toServer = <<>>)
  /\ readPc' = "stopped"
  /\ Finish
  /\ UNCHANGED <<pending, running, writing, pongs, itemVars, nextVars,
                 readItem, doneVars>>

-----------------------------------------------------------------------------
(* The closer thread: OnDone. *)

OnDone ==
  /\ Alive
  /\ donePc = "idle"
  /\ finished /\ readPc = "stopped" /\ outstanding = <<>> /\ pc["writer"] = "idle"
  /\ donePc' = "running"
  /\ toNotify' = running
  /\ UNCHANGED <<pending, running, writing, pongs, itemVars, nextVars, readVars,
                 outstanding, finished, fault, clientVars>>

NotifyClosed(i) ==
  /\ Alive
  /\ i \in toNotify
  /\ NotifyHandledBy(i)
  /\ toNotify' = toNotify \ {i}
  /\ UNCHANGED <<pending, running, writing, pongs, nextVars, readVars, donePc,
                 outstanding, finished, fault, clientVars>>

StillPending == Range(pending)

ClearRunning ==
  /\ Alive
  /\ donePc = "running" /\ toNotify = {}
  /\ running' = {}
  /\ donePc' = "pending"
  /\ toNotify' = StillPending
  /\ UNCHANGED <<pending, writing, pongs, itemVars, nextVars, readVars,
                 outstanding, finished, fault, clientVars>>

\* Ends OnDone: m_pending is cleared and dissolve leaves the reactor
\* registered.
ClearPending ==
  /\ Alive
  /\ donePc = "pending" /\ toNotify = {}
  /\ pending' = <<>>
  /\ donePc' = "over"
  /\ UNCHANGED <<running, writing, pongs, itemVars, nextVars, readVars, toNotify,
                 outstanding, finished, fault, clientVars>>

-----------------------------------------------------------------------------
(* The peer: the client's event loop, which answers each event once, in    *)
(* order, while its request queue is open.                                 *)

ClientHandles ==
  /\ client = "open" /\ toClient # <<>>
  /\ toClient' = Tail(toClient)
  /\ toServer' = IF Head(toClient) = Pong THEN toServer
                 ELSE Append(toServer, Head(toClient))
  /\ handled' = handled \cup ({Head(toClient)} \ {Pong})
  /\ UNCHANGED <<client, pings>>

ClientPings ==
  /\ client = "open" /\ pings < MaxPings
  /\ pings' = pings + 1
  /\ toServer' = Append(toServer, Ping)
  /\ UNCHANGED <<client, toClient, handled>>

ClientCloses ==
  /\ ClientLeaves /\ client = "open"
  /\ client' = "closed"
  /\ UNCHANGED <<toClient, toServer, pings, handled>>

ClientIsLost ==
  /\ ClientLeaves /\ client # "gone"
  /\ client' = "gone"
  /\ toClient' = <<>> /\ toServer' = <<>>
  /\ UNCHANGED <<pings, handled>>

Client ==
  /\ Alive
  /\ ClientHandles \/ ClientPings \/ ClientCloses \/ ClientIsLost
  /\ UNCHANGED <<pending, running, writing, pongs, itemVars, nextVars, readVars,
                 doneVars, outstanding, finished, fault>>

-----------------------------------------------------------------------------

Main   == Enqueue \/ NextWrite("main")
Writer == OnWriteDone \/ FinishAfterFailedWrite \/ NextWrite("writer")
Reader == ReadPing \/ ReadResponse \/ NotifyHandled \/ ReadFails
Closer == OnDone \/ (\E i \in Items : NotifyClosed(i)) \/ ClearRunning \/ ClearPending

Next ==
  \/ \E i \in Items : SendTo(i)
  \/ Main \/ Writer \/ Reader \/ Closer
  \/ Client

Spec == Init /\ [][Next]_vars

\* Each thread that can take a step takes it, and a connected client answers
\* the events it receives; the main thread need not send, nor the client ping
\* or leave.
Fairness ==
  /\ WF_vars(Main)
  /\ WF_vars(Writer)
  /\ WF_vars(Reader)
  /\ WF_vars(Closer)
  /\ WF_vars(ClientHandles /\ Client)

FairSpec == Spec /\ Fairness

-----------------------------------------------------------------------------
(* Properties. *)

\* Every variable keeps its type; in particular the count of pongs owed,
\* which two threads decrement, never goes below zero.
TypeOK ==
  /\ pending \in Seq(Items) /\ running \subseteq Items
  /\ writing \in BOOLEAN /\ pongs \in Nat
  /\ started \subseteq Items /\ done \subseteq Items
  /\ sending \in Items \cup {None}
  /\ pc \in [Threads -> {"idle", "enqueue", "check", "pong", "take", "run",
                         "write", "finish"}]
  /\ taken \in [Threads -> Items \cup {None}]
  /\ readPc \in {"reading", "notify", "stopped"} /\ readItem \in Items \cup {None}
  /\ donePc \in {"idle", "running", "pending", "over"} /\ toNotify \subseteq Items
  /\ outstanding \in Seq(Messages) /\ finished \in BOOLEAN
  /\ fault \in {"none", "overlapping_write", "second_finish", "write_after_done"}
  /\ client \in {"open", "closed", "gone"}
  /\ toClient \in Seq(Messages) /\ toServer \in Seq(Messages)
  /\ pings \in 0..MaxPings /\ handled \subseteq Items

\* As long as the client has sent no ping, two threads never have a write of
\* this stream outstanding at once, whatever sendTo and OnWriteDone do
\* (m_writing excludes them; only a pong is written without it).
WriteExclusion ==
  pings = 0 => fault # "overlapping_write" /\ Len(outstanding) <= 1

\* A client that keeps its stream open never makes the server call Finish
\* twice or write to a stream that is gone.
FaultNeedsDeparture ==
  client = "open" => fault \notin {"second_finish", "write_after_done"}

\* The main thread waits for a mutex OnDone holds, and OnDone will wait for
\* the mutex of the item the main thread is sending.
LockCycle ==
  /\ \/ pc["main"] \in {"enqueue", "take"} /\ ~PendingMutexFree
     \/ pc["main"] = "run" /\ ~RunningMutexFree
  /\ sending \in toNotify

\* Without pings the two threads can deadlock in one way only: sendTo has
\* enqueued the item and is about to dequeue in NextWrite while OnDone walks
\* m_pending.  (With pings a second writer may have passed the main thread,
\* and the cycle may also close on m_runningMutex.)
LockCycleOnPending ==
  LockCycle /\ pings = 0 => donePc = "pending" /\ pc["main"] = "take"

\* Every event sent is eventually settled, by the client's response or by
\* OnDone, unless the library's rules were broken or the lock cycle closed.
EventSettles ==
  \A i \in Items : i \in started ~> (i \in done \/ fault # "none" \/ LockCycle)

-----------------------------------------------------------------------------
(* What the stream promises, and how this module keeps it. *)

Taken == IF taken["writer"] # None /\ pc["writer"] # "idle" THEN <<taken["writer"]>>
         ELSE IF taken["main"] # None THEN <<taken["main"]>> ELSE <<>>
Entering == IF pc["main"] = "enqueue" THEN <<sending>> ELSE <<>>
Queue == Taken \o pending \o Entering

\* Without pings the stream is an event delivery: events are handed to the
\* transport in the order sendTo was called, and settled only when the client
\* has run their handlers or the stream has ended.
Delivery == INSTANCE EventDelivery WITH
  queue <- Queue,
  delivered <- started \ Range(Queue),
  settled <- done,
  over <- finished
DeliverySpec == Delivery!Spec
================================================================================
