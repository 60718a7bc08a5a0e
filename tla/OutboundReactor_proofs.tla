------------------------- MODULE OutboundReactor_proofs -------------------------
(***************************************************************************)
(* Proofs about OutboundReactor, for any set of events, any number of      *)
(* pings and clients that may or may not leave: the rules of gRPC it keeps *)
(* and breaks, the one place where its mutexes can close a cycle, and that *)
(* it implements EventDelivery while nobody pings.  Each invariant is      *)
(* proved from TypeOK and the part of the state it rests on, one step per  *)
(* action.                                                                 *)
(***************************************************************************)
EXTENDS OutboundReactor, SequenceTheorems, TLAPS

-----------------------------------------------------------------------------
(* Type correctness.  An item that a thread is about to use is a real one: *)
(* the item of sendTo until it is enqueued, the one NextWrite took until   *)
(* it is written, the one OnReadDone took until it is notified.            *)

Carried ==
  /\ pc["main"] = "enqueue" => sending \in Items
  /\ \A t \in Threads : pc[t] \in {"run", "write"} => taken[t] \in Items
  /\ readPc = "notify" => readItem \in Items

TInv == TypeOK /\ Carried

\* The initial state has its types and no thread carries an item.
LEMMA TypeInit == Init => TInv
<1> SUFFICES ASSUME Init PROVE TInv
  OBVIOUS
<1>1. writing \in BOOLEAN /\ finished \in BOOLEAN
  BY DEF Init
<1>2. /\ pending \in Seq(Items) /\ outstanding \in Seq(Messages)
      /\ toClient \in Seq(Messages) /\ toServer \in Seq(Messages)
  BY DEF Init
<1>3. /\ pc = [t \in Threads |-> "idle"] /\ taken = [t \in Threads |-> None]
      /\ "main" \in Threads
  BY DEF Init, Threads
<1>4. pings \in 0..MaxPings /\ pongs \in Nat
  BY ReactorAssumption DEF Init
<1> QED
  BY <1>1, <1>2, <1>3, <1>4 DEF Init, TInv, TypeOK, Carried

\* What starts a write leaves sequences of messages.
LEMMA StartWriteTypes ==
  ASSUME outstanding \in Seq(Messages), toClient \in Seq(Messages),
         NEW m \in Messages, StartWrite(m)
  PROVE  outstanding' \in Seq(Messages) /\ toClient' \in Seq(Messages)
  BY DEF StartWrite

\* What NextWrite dequeues is an item.
LEMMA DequeueTypes ==
  ASSUME pending \in Seq(Items), MayTake
  PROVE  Tail(pending) \in Seq(Items) /\ Head(pending) \in Items
  BY DEF MayTake

\* The client answers the messages it receives, and sends only pings besides.
LEMMA ClientTypes ==
  ASSUME toClient \in Seq(Messages), toServer \in Seq(Messages),
         handled \subseteq Items, Client
  PROVE  /\ toClient' \in Seq(Messages) /\ toServer' \in Seq(Messages)
         /\ handled' \subseteq Items
<1>1. CASE ClientHandles
  <2>1. Head(toClient) \in Messages /\ Tail(toClient) \in Seq(Messages)
    BY <1>1 DEF ClientHandles
  <2>2. toServer' \in Seq(Messages)
    BY <1>1, <2>1 DEF ClientHandles
  <2>3. {Head(toClient)} \ {Pong} \subseteq Items
    BY <2>1 DEF Messages
  <2> QED
    BY <1>1, <2>1, <2>2, <2>3 DEF ClientHandles
<1>2. CASE ClientPings
  BY <1>2 DEF ClientPings, Messages, Ping
<1>3. CASE ClientCloses
  BY <1>3 DEF ClientCloses
<1>4. CASE ClientIsLost
  <2>1. <<>> \in Seq(Messages)
    OBVIOUS
  <2> QED
    BY <1>4, <2>1 DEF ClientIsLost
<1> QED
  BY <1>1, <1>2, <1>3, <1>4 DEF Client

\* Every action keeps the types and the items the threads carry.
LEMMA TypeNext == TInv /\ [Next]_vars => TInv'
<1> SUFFICES ASSUME TInv, [Next]_vars PROVE TInv'
  OBVIOUS
<1> USE ReactorAssumption DEF TInv, TypeOK, Carried, Threads, Messages, Ping
<1>1. ASSUME NEW t \in Threads, CheckWriting(t) PROVE TInv'
  BY <1>1 DEF CheckWriting, Leave, Goto, itemVars, readVars, doneVars, clientVars
<1>2. ASSUME NEW t \in Threads, WritePong(t) PROVE TInv'
  <2>1. writing' \in BOOLEAN /\ finished' \in BOOLEAN
    BY <1>2 DEF WritePong, StartWrite
  <2>2. outstanding' \in Seq(Messages) /\ toClient' \in Seq(Messages)
    BY <1>2, StartWriteTypes DEF WritePong, clientVars
  <2>3. pongs' \in Nat
    BY <1>2 DEF WritePong, PongOwed
  <2> QED
    BY <1>2, <2>1, <2>2, <2>3 DEF WritePong, StartWrite, Leave, Goto, itemVars,
       readVars, doneVars, clientVars
<1>3. ASSUME NEW t \in Threads, TakePending(t) PROVE TInv'
  <2>1. writing' \in BOOLEAN
    BY <1>3 DEF TakePending
  <2>2. /\ pending' \in Seq(Items)
        /\ MayTake => Head(pending) \in Items
    BY <1>3, DequeueTypes DEF TakePending
  <2> QED
    BY <1>3, <2>1, <2>2 DEF TakePending, Leave, itemVars, readVars, doneVars,
       clientVars
<1>4. ASSUME NEW t \in Threads, AddRunning(t) PROVE TInv'
  BY <1>4 DEF AddRunning, Goto, itemVars, readVars, doneVars, clientVars
<1>5. ASSUME NEW t \in Threads, WriteItem(t) PROVE TInv'
  BY <1>5 DEF WriteItem, StartWrite, Leave, itemVars, readVars, doneVars
<1>6. ASSUME NEW i \in Items, SendTo(i) PROVE TInv'
  BY <1>6 DEF SendTo, readVars, doneVars, clientVars
<1>7. CASE Enqueue
  BY <1>7 DEF Enqueue, Enqueued, Goto, itemVars, readVars, doneVars, clientVars
<1>8. CASE OnWriteDone
  <2>1. writing' \in BOOLEAN /\ finished' \in BOOLEAN
    BY <1>8 DEF OnWriteDone
  <2>2. outstanding' \in Seq(Messages)
    BY <1>8 DEF OnWriteDone
  <2> QED
    BY <1>8, <2>1, <2>2 DEF OnWriteDone, WriteDoneLabel, Goto, itemVars, readVars,
       doneVars, clientVars
<1>9. CASE FinishAfterFailedWrite
  BY <1>9 DEF FinishAfterFailedWrite, Finish, Leave, itemVars, readVars, doneVars,
     clientVars
<1>10. CASE ReadPing
  BY <1>10 DEF ReadPing, itemVars, nextVars, readVars, doneVars
<1>11. CASE ReadResponse
  BY <1>11 DEF ReadResponse, itemVars, nextVars, readVars, doneVars
<1>12. CASE NotifyHandled
  BY <1>12 DEF NotifyHandled, NotifyHandledBy, nextVars, doneVars, clientVars
<1>13. CASE ReadFails
  BY <1>13 DEF ReadFails, Finish, itemVars, nextVars, doneVars, clientVars
<1>14. CASE OnDone
  BY <1>14 DEF OnDone, itemVars, nextVars, readVars, clientVars
<1>15. ASSUME NEW i \in Items, NotifyClosed(i) PROVE TInv'
  BY <1>15 DEF NotifyClosed, NotifyHandledBy, nextVars, readVars, clientVars
<1>16. CASE ClearRunning
  BY <1>16 DEF ClearRunning, StillPending, Range, itemVars, nextVars, readVars,
     clientVars
<1>17. CASE ClearPending
  BY <1>17 DEF ClearPending, itemVars, nextVars, readVars, clientVars
<1>18. CASE Client
  <2>1. writing' \in BOOLEAN /\ finished' \in BOOLEAN
    BY <1>18 DEF Client
  <2>2. client' \in {"open", "closed", "gone"}
    BY <1>18 DEF Client, ClientHandles, ClientPings, ClientCloses, ClientIsLost
  <2>3. /\ toClient' \in Seq(Messages) /\ toServer' \in Seq(Messages)
        /\ handled' \subseteq Items
    BY <1>18, ClientTypes
  <2>4. pings' \in 0..MaxPings
    BY <1>18 DEF Client, ClientHandles, ClientPings, ClientCloses, ClientIsLost
  <2> QED
    BY <1>18, <2>1, <2>2, <2>3, <2>4 DEF Client, itemVars, nextVars,
       readVars, doneVars
<1>19. CASE UNCHANGED vars
  BY <1>19 DEF vars, itemVars, nextVars, readVars, doneVars, clientVars
<1> QED
  BY <1>1, <1>2, <1>3, <1>4, <1>5, <1>6, <1>7, <1>8, <1>9, <1>10, <1>11, <1>12,
     <1>13, <1>14, <1>15, <1>16, <1>17, <1>18, <1>19
  DEF Next, Main, Writer, Reader, Closer, NextWrite

\* No interleaving of sendTo, the callbacks and the client takes a variable out
\* of its type; in particular m_pongs is never decremented below zero.
THEOREM TypeCorrect == Spec => []TypeOK
<1>1. TInv => TypeOK
  BY DEF TInv
<1> QED
  BY <1>1, TypeInit, TypeNext, PTL DEF Spec

-----------------------------------------------------------------------------
(* Exclusion of writes.  WriteExclusion is not inductive: it says nothing of *)
(* the thread that has raised m_writing and has not started its write yet.   *)
(* As long as no ping was sent there is no pong to write, so at any time one *)
(* thread is between raising m_writing and StartWrite, or one write is       *)
(* outstanding, or neither; and in the first two cases m_writing is set.     *)

Claims(t) == pc[t] \in {"run", "write"}

NoPong ==
  pongs = 0 /\ \A k \in 1..Len(toServer) : toServer[k] # Ping

OneWriter ==
  /\ \A t \in Threads : Claims(t) => writing /\ outstanding = <<>>
  /\ \A t, u \in Threads : Claims(t) /\ Claims(u) => t = u
  /\ outstanding # <<>> => writing
  /\ Len(outstanding) <= 1
  /\ fault # "overlapping_write"

WInv == pings = 0 => NoPong /\ OneWriter

\* At first nothing is written and no ping is on its way.
LEMMA WriteInit == Init => WInv
  BY DEF Init, WInv, NoPong, OneWriter, Claims

\* An action that leaves alone the threads in NextWrite, m_writing and the
\* writes of the stream keeps their exclusion.
LEMMA OneWriterUntouched ==
  ASSUME OneWriter, UNCHANGED <<writing, outstanding, fault, pc>>
  PROVE  OneWriter'
  BY DEF OneWriter, Claims

\* A ping is in the stream only if the client sent one.
LEMMA NoPongNext ==
  ASSUME TInv, NoPong, pings' = 0, [Next]_vars
  PROVE  NoPong'
<1>1. /\ pongs \in Nat /\ pings \in Nat
      /\ toServer \in Seq(Messages) /\ toClient \in Seq(Messages)
  BY ReactorAssumption DEF TInv, TypeOK
<1> DEFINE Pingless(s) == \A k \in 1..Len(s) : s[k] # Ping
<1>2. Pingless(toServer) /\ pongs = 0
  BY DEF NoPong
<1>3. CASE Client
  <2>1. CASE ClientHandles
    <3>1. toServer' = toServer
          \/ /\ toServer' = Append(toServer, Head(toClient))
             /\ Head(toClient) # Ping /\ Head(toClient) \in Messages
      BY <1>1, <2>1 DEF ClientHandles, Ping
    <3>2. Pingless(toServer')
      BY <1>1, <1>2, <3>1, AppendProperties
    <3> QED
      BY <1>2, <1>3, <3>2 DEF Client, NoPong
  <2>2. CASE ClientPings
    BY <1>1, <2>2 DEF ClientPings
  <2>3. CASE ClientCloses
    BY <1>2, <1>3, <2>3 DEF Client, ClientCloses, NoPong
  <2>4. CASE ClientIsLost
    BY <1>2, <1>3, <2>4 DEF Client, ClientIsLost, NoPong
  <2> QED
    BY <1>3, <2>1, <2>2, <2>3, <2>4 DEF Client
<1>4. CASE ReadPing
  BY <1>1, <1>2, <1>4 DEF ReadPing
<1>5. CASE ReadResponse
  <2>1. toServer' = Tail(toServer) /\ toServer # <<>> /\ pongs' = pongs
    BY <1>5 DEF ReadResponse
  <2>2. Pingless(toServer')
    BY <1>1, <1>2, <2>1, HeadTailProperties
  <2> QED
    BY <1>2, <2>1, <2>2 DEF NoPong
<1>6. ASSUME NEW t \in Threads, NextWrite(t) PROVE NoPong'
  <2>1. pongs' = pongs
    BY <1>1, <1>2, <1>6 DEF NextWrite, CheckWriting, WritePong, PongOwed, TakePending,
       AddRunning, WriteItem
  <2>2. toServer' = toServer
    BY <1>6 DEF NextWrite, CheckWriting, WritePong, TakePending, AddRunning,
       WriteItem, StartWrite, clientVars
  <2> QED
    BY <1>2, <2>1, <2>2 DEF NoPong
<1>7. CASE NotifyHandled \/ ReadFails \/ Closer \/ Enqueue \/ OnWriteDone
           \/ FinishAfterFailedWrite \/ (\E i \in Items : SendTo(i)) \/ UNCHANGED vars
  <2>1. pongs' = pongs /\ toServer' = toServer
    BY <1>7 DEF NotifyHandled, ReadFails, Closer, OnDone, NotifyClosed, ClearRunning,
       ClearPending, Enqueue, OnWriteDone, FinishAfterFailedWrite, Finish, SendTo,
       vars, clientVars
  <2> QED
    BY <1>2, <2>1 DEF NoPong
<1> QED
  BY <1>3, <1>4, <1>5, <1>6, <1>7 DEF Next, Main, Writer, Reader, Threads

\* Every action keeps the exclusion, as long as no ping was sent.
LEMMA WriteNext == TInv /\ WInv /\ [Next]_vars => WInv'
<1> SUFFICES ASSUME TInv, WInv, [Next]_vars, pings' = 0 PROVE NoPong' /\ OneWriter'
  BY DEF WInv
<1>1. /\ pings \in Nat /\ writing \in BOOLEAN /\ pongs \in Nat
      /\ pc \in [Threads -> {"idle", "enqueue", "check", "pong", "take", "run",
                             "write", "finish"}]
      /\ outstanding \in Seq(Messages)
  BY ReactorAssumption DEF TInv, TypeOK
<1>2. pings = 0
  <2>1. pings' = pings \/ pings' = pings + 1
    BY DEF Next, Main, Writer, Reader, Closer, NextWrite, CheckWriting, WritePong,
       TakePending, AddRunning, WriteItem, StartWrite, SendTo, Enqueue, OnWriteDone,
       FinishAfterFailedWrite, Finish, ReadPing, ReadResponse, NotifyHandled,
       ReadFails, OnDone, NotifyClosed, ClearRunning, ClearPending, Client,
       ClientHandles, ClientPings, ClientCloses, ClientIsLost, clientVars, vars
  <2> QED
    BY <1>1, <2>1
<1>3. NoPong /\ OneWriter
  BY <1>2 DEF WInv
<1>4. NoPong'
  BY <1>3, NoPongNext
<1>5. ASSUME NEW t \in Threads, CheckWriting(t) \/ WritePong(t) PROVE OneWriter'
  <2>1. writing' = writing /\ outstanding' = outstanding /\ fault' = fault
    BY <1>1, <1>3, <1>5 DEF CheckWriting, WritePong, PongOwed, NoPong
  <2>2. \A u \in Threads : Claims(u)' => Claims(u)
    BY <1>1, <1>5 DEF CheckWriting, WritePong, Leave, Goto, Claims
  <2> QED
    BY <1>3, <2>1, <2>2 DEF OneWriter
<1>6. ASSUME NEW t \in Threads, TakePending(t) PROVE OneWriter'
  <2>1. outstanding' = outstanding /\ fault' = fault
    BY <1>6 DEF TakePending
  <2>2. CASE MayTake
    <3>1. ~writing /\ writing' = TRUE
      BY <1>6, <2>2 DEF TakePending, MayTake
    <3>2. outstanding = <<>> /\ \A u \in Threads : ~Claims(u)
      BY <1>3, <3>1 DEF OneWriter
    <3>3. \A u \in Threads : Claims(u)' => u = t
      BY <1>1, <1>6, <2>2, <3>2 DEF TakePending, Claims
    <3> QED
      BY <1>3, <2>1, <3>1, <3>2, <3>3 DEF OneWriter
  <2>3. CASE ~MayTake
    <3>1. writing' = writing
      BY <1>6, <2>3 DEF TakePending
    <3>2. \A u \in Threads : Claims(u)' => Claims(u)
      BY <1>1, <1>6, <2>3 DEF TakePending, Leave, Claims
    <3> QED
      BY <1>3, <2>1, <3>1, <3>2 DEF OneWriter
  <2> QED
    BY <2>2, <2>3
<1>7. ASSUME NEW t \in Threads, AddRunning(t) PROVE OneWriter'
  <2>1. writing' = writing /\ outstanding' = outstanding /\ fault' = fault
    BY <1>7 DEF AddRunning
  <2>2. \A u \in Threads : Claims(u)' <=> Claims(u)
    BY <1>1, <1>7 DEF AddRunning, Goto, Claims
  <2> QED
    BY <1>3, <2>1, <2>2 DEF OneWriter
<1>8. ASSUME NEW t \in Threads, WriteItem(t) PROVE OneWriter'
  <2>1. Claims(t)
    BY <1>8 DEF WriteItem, Claims
  <2>2. writing /\ outstanding = <<>> /\ \A u \in Threads : Claims(u) => u = t
    BY <1>3, <2>1 DEF OneWriter
  <2>3. writing' = writing /\ fault' # "overlapping_write"
    BY <1>3, <1>8, <2>2 DEF WriteItem, StartWrite, OneWriter
  <2>4. Len(outstanding') = 1
    BY <1>8, <2>2 DEF WriteItem, StartWrite
  <2>5. \A u \in Threads : ~Claims(u)'
    BY <1>1, <1>8, <2>2 DEF WriteItem, Leave, Claims
  <2> QED
    BY <2>2, <2>3, <2>4, <2>5 DEF OneWriter
<1>9. CASE OnWriteDone
  <2>1. outstanding # <<>> /\ outstanding' = Tail(outstanding) /\ fault' = fault
    BY <1>9 DEF OnWriteDone
  <2>2. outstanding' = <<>>
    BY <1>1, <1>3, <2>1, EmptySeq, HeadTailProperties DEF OneWriter
  <2>3. \A u \in Threads : ~Claims(u)
    BY <1>3, <2>1 DEF OneWriter
  <2>4. \A u \in Threads : ~Claims(u)'
    BY <1>1, <1>9, <2>3 DEF OnWriteDone, WriteDoneLabel, Goto, Claims
  <2> QED
    BY <1>3, <1>4, <2>1, <2>2, <2>4 DEF OneWriter
<1>10. CASE FinishAfterFailedWrite
  <2>1. /\ writing' = writing /\ outstanding' = outstanding
        /\ fault' # "overlapping_write"
    BY <1>3, <1>10 DEF FinishAfterFailedWrite, Finish, OneWriter
  <2>2. \A u \in Threads : Claims(u)' => Claims(u)
    BY <1>1, <1>10 DEF FinishAfterFailedWrite, Leave, Claims
  <2> QED
    BY <1>3, <1>4, <2>1, <2>2 DEF OneWriter
<1>11. ASSUME NEW i \in Items, SendTo(i) PROVE OneWriter'
  <2>1. writing' = writing /\ outstanding' = outstanding /\ fault' = fault
    BY <1>11 DEF SendTo
  <2>2. \A u \in Threads : Claims(u)' => Claims(u)
    BY <1>1, <1>11 DEF SendTo, Claims
  <2> QED
    BY <1>3, <2>1, <2>2 DEF OneWriter
<1>12. CASE Enqueue
  <2>1. writing' = writing /\ outstanding' = outstanding /\ fault' = fault
    BY <1>12 DEF Enqueue
  <2>2. \A u \in Threads : Claims(u)' => Claims(u)
    BY <1>1, <1>12 DEF Enqueue, Goto, Claims
  <2> QED
    BY <1>3, <1>4, <2>1, <2>2 DEF OneWriter
<1>13. CASE ReadFails
  <2>1. /\ writing' = writing /\ outstanding' = outstanding /\ pc' = pc
        /\ fault' # "overlapping_write"
    BY <1>3, <1>13 DEF ReadFails, Finish, OneWriter, nextVars
  <2> QED
    BY <1>3, <1>4, <2>1 DEF OneWriter, Claims
<1>14. CASE ReadPing \/ ReadResponse \/ NotifyHandled \/ Closer \/ Client
            \/ UNCHANGED vars
  <2>1. UNCHANGED <<writing, outstanding, fault, pc>>
    BY <1>14 DEF ReadPing, ReadResponse, NotifyHandled, Closer, OnDone, NotifyClosed,
       ClearRunning, ClearPending, Client, nextVars, vars
  <2> QED
    BY <1>3, <1>4, <2>1, OneWriterUntouched
<1> QED
  BY <1>4, <1>5, <1>6, <1>7, <1>8, <1>9, <1>10, <1>11, <1>12, <1>13, <1>14
  DEF Next, Main, Writer, Reader, NextWrite, Threads

\* Until the client sends a ping, sendTo on the main thread and OnWriteDone on
\* the writer never have two writes of the stream outstanding: testing
\* m_writing again under m_pendingMutex, and resetting it before NextWrite, is
\* enough, for any number of events and whenever the client leaves.
THEOREM WritesExclusive == Spec => []WriteExclusion
<1>1. WInv => WriteExclusion
  BY DEF WInv, OneWriter, WriteExclusion
<1> QED
  BY <1>1, TypeInit, TypeNext, WriteInit, WriteNext, PTL DEF Spec

-----------------------------------------------------------------------------
(* Faults of a stream whose client stays.  FaultNeedsDeparture rests on the  *)
(* order of events: nothing begins the end of the stream (a failed read, a   *)
(* failed write, Finish, OnDone) while the client is connected.              *)

Whole ==
  /\ ~finished /\ readPc # "stopped" /\ donePc = "idle"
  /\ \A t \in Threads : pc[t] # "finish"
  /\ fault \notin {"second_finish", "write_after_done"}

DInv == client = "open" => Whole

\* At first the stream is whole.
LEMMA DepartureInit == Init => DInv
  BY DEF Init, DInv, Whole

\* A client that left does not come back to the stream.
LEMMA ClientStaysAway ==
  ASSUME TInv, [Next]_vars, client' = "open"
  PROVE  client = "open"
  BY DEF TInv, TypeOK, Next, Main, Writer, Reader, Closer, NextWrite, CheckWriting,
     WritePong, TakePending, AddRunning, WriteItem, StartWrite, SendTo, Enqueue,
     OnWriteDone, FinishAfterFailedWrite, Finish, ReadPing, ReadResponse,
     NotifyHandled, ReadFails, OnDone, NotifyClosed, ClearRunning, ClearPending,
     Client, ClientHandles, ClientPings, ClientCloses, ClientIsLost, clientVars, vars

\* Every action keeps the stream whole while the client stays.
LEMMA DepartureNext == TInv /\ DInv /\ [Next]_vars => DInv'
<1> SUFFICES ASSUME TInv, DInv, [Next]_vars, client' = "open" PROVE Whole'
  BY DEF DInv
<1>1. client = "open" /\ Whole
  BY ClientStaysAway DEF DInv
<1>2. pc \in [Threads -> {"idle", "enqueue", "check", "pong", "take", "run",
                         "write", "finish"}]
  BY DEF TInv, TypeOK
<1>3. ASSUME NEW t \in Threads, NextWrite(t) PROVE Whole'
  <2>1. finished' = finished /\ readPc' = readPc /\ donePc' = donePc
    BY <1>3 DEF NextWrite, CheckWriting, WritePong, TakePending, AddRunning, WriteItem,
       StartWrite, readVars, doneVars
  <2>2. \A u \in Threads : pc'[u] # "finish"
    BY <1>1, <1>2, <1>3 DEF Whole, NextWrite, CheckWriting, WritePong, TakePending,
       AddRunning, WriteItem, Leave, Goto
  <2>3. fault' \notin {"second_finish", "write_after_done"}
    BY <1>1, <1>3 DEF Whole, NextWrite, CheckWriting, WritePong, TakePending,
       AddRunning, WriteItem, StartWrite
  <2> QED
    BY <1>1, <2>1, <2>2, <2>3 DEF Whole
<1>4. ASSUME NEW i \in Items, SendTo(i) PROVE Whole'
  BY <1>1, <1>2, <1>4 DEF Whole, SendTo, readVars, doneVars
<1>5. CASE Enqueue
  BY <1>1, <1>2, <1>5 DEF Whole, Enqueue, Goto, readVars, doneVars
<1>6. CASE OnWriteDone
  BY <1>1, <1>2, <1>6 DEF Whole, OnWriteDone, WriteDoneLabel, Goto, readVars, doneVars
<1>7. ~FinishAfterFailedWrite /\ ~ReadFails /\ ~OnDone
  BY <1>1 DEF Whole, FinishAfterFailedWrite, ReadFails, OnDone, Threads
<1>8. CASE ReadPing \/ ReadResponse \/ NotifyHandled
  BY <1>1, <1>8 DEF Whole, ReadPing, ReadResponse, NotifyHandled, nextVars, readVars,
     doneVars
<1>9. ASSUME NEW i \in Items, NotifyClosed(i) PROVE Whole'
  BY <1>1, <1>9 DEF Whole, NotifyClosed, nextVars, readVars
<1>10. ~ClearRunning /\ ~ClearPending
  BY <1>1 DEF Whole, ClearRunning, ClearPending
<1>11. CASE Client
  BY <1>1, <1>11 DEF Whole, Client, nextVars, readVars, doneVars
<1>12. CASE UNCHANGED vars
  BY <1>1, <1>12 DEF Whole, vars, nextVars, readVars, doneVars
<1> QED
  BY <1>3, <1>4, <1>5, <1>6, <1>7, <1>8, <1>9, <1>10, <1>11, <1>12
  DEF Next, Main, Writer, Reader, Closer, Threads

\* A client that keeps its stream open never makes the server finish the stream
\* twice, nor write to a stream that is gone: both of the ways in which the
\* callbacks break gRPC's rules begin with the client's departure.
THEOREM FaultsNeedDeparture == Spec => []FaultNeedsDeparture
<1>1. DInv => FaultNeedsDeparture
  BY DEF DInv, Whole, FaultNeedsDeparture
<1> QED
  BY <1>1, TypeInit, TypeNext, DepartureInit, DepartureNext, PTL DEF Spec

-----------------------------------------------------------------------------
(* The one cycle of locks.  OnDone walks m_running and then m_pending while  *)
(* the main thread is in sendTo.  Where an item is decides who can wait for  *)
(* whom: the one being sent is nowhere until it is enqueued, it is the last  *)
(* of m_pending until a thread takes it, and it is not in m_running when the *)
(* main thread is about to add an item there, since without pings no other   *)
(* thread can have taken it after the last look at m_writing.                *)

Distinct(s) == \A j, k \in 1..Len(s) : s[j] = s[k] => j = k

Waiting == Range(pending)

ItemPlaces ==
  /\ Distinct(pending)
  /\ running \cup Waiting \cup toNotify \subseteq started
  /\ running \cap Waiting = {}
  /\ donePc = "running" => toNotify \subseteq running

TakenPlaces ==
  \A t \in Threads : pc[t] = "run" => taken[t] \in started \ (running \cup Waiting)

SendingPlaces ==
  /\ pc["main"] = "enqueue" =>
       /\ sending \in started \ (running \cup Waiting \cup toNotify)
       /\ \A t \in Threads : pc[t] = "run" => taken[t] # sending
  /\ pc["main"] \in {"check", "pong", "take"} /\ pending # <<>> =>
       pending[Len(pending)] = sending
  /\ pc["main"] = "run" => sending \notin running

Places == ItemPlaces /\ TakenPlaces /\ SendingPlaces

CInv == pings = 0 => Places

\* An item that is not in m_pending becomes its last.
LEMMA PendingGrows ==
  ASSUME NEW s \in Seq(Items), NEW i \in Items, Distinct(s), i \notin Range(s)
  PROVE  /\ Distinct(Append(s, i)) /\ Range(Append(s, i)) = Range(s) \cup {i}
         /\ Append(s, i)[Len(Append(s, i))] = i
<1>1. /\ Append(s, i) \in Seq(Items) /\ Len(s) \in Nat
      /\ Len(Append(s, i)) = Len(s) + 1 /\ Append(s, i)[Len(s) + 1] = i
      /\ \A k \in 1..Len(s) : Append(s, i)[k] = s[k]
  BY AppendProperties, LenProperties
<1>2. /\ Range(s) = {s[k] : k \in 1..Len(s)}
      /\ Range(Append(s, i)) = {Append(s, i)[k] : k \in 1..Len(s) + 1}
  BY <1>1, RangeEquality
<1>3. \A k : k \in 1..Len(s) + 1 <=> k \in 1..Len(s) \/ k = Len(s) + 1
  BY <1>1
<1>4. \A k \in 1..Len(s) : s[k] # i
  BY <1>2
<1>5. Distinct(Append(s, i))
  BY <1>1, <1>3, <1>4 DEF Distinct
<1>6. Range(Append(s, i)) = Range(s) \cup {i}
  BY <1>1, <1>2, <1>3
<1> QED
  BY <1>1, <1>5, <1>6

\* Taking the first leaves the others, and the last the last.
LEMMA PendingShrinks ==
  ASSUME NEW s \in Seq(Items), s # <<>>, Distinct(s)
  PROVE  /\ Head(s) \in Range(s) /\ s[Len(s)] \in Range(s)
         /\ Distinct(Tail(s)) /\ Range(Tail(s)) \subseteq Range(s) \ {Head(s)}
         /\ Tail(s) # <<>> => Tail(s)[Len(Tail(s))] = s[Len(s)]
<1>1. /\ Tail(s) \in Seq(Items) /\ Len(s) \in Nat \ {0} /\ Len(Tail(s)) = Len(s) - 1
      /\ Head(s) = s[1] /\ \A k \in 1..Len(Tail(s)) : Tail(s)[k] = s[k + 1]
      /\ Tail(s) # <<>> => Len(Tail(s)) \in Nat \ {0}
  BY HeadTailProperties, EmptySeq
<1>2. /\ Range(s) = {s[k] : k \in 1..Len(s)}
      /\ Range(Tail(s)) = {Tail(s)[k] : k \in 1..Len(Tail(s))}
  BY <1>1, RangeEquality, ZenonT(30)
<1>3. 1 \in 1..Len(s) /\ Len(s) \in 1..Len(s)
  BY <1>1
<1>4. \A k \in 1..Len(Tail(s)) : k + 1 \in 1..Len(s) /\ k + 1 # 1
  BY <1>1
<1>5. \A k \in 1..Len(Tail(s)) : s[k + 1] # s[1]
  BY <1>3, <1>4 DEF Distinct
<1>6. Range(Tail(s)) \subseteq Range(s) \ {Head(s)}
  BY <1>1, <1>2, <1>4, <1>5
<1>7. ASSUME NEW j \in 1..Len(Tail(s)), NEW k \in 1..Len(Tail(s)), Tail(s)[j] = Tail(s)[k]
      PROVE  j = k
  <2>1. j + 1 = k + 1
    BY <1>1, <1>4, <1>7 DEF Distinct
  <2> QED
    BY <1>1, <2>1
<1>8. ASSUME Tail(s) # <<>> PROVE Tail(s)[Len(Tail(s))] = s[Len(s)]
  <2>1. Len(Tail(s)) \in 1..Len(Tail(s)) /\ Len(Tail(s)) + 1 = Len(s)
    BY <1>1, <1>8
  <2> QED
    BY <1>1, <2>1
<1> QED
  BY <1>1, <1>2, <1>3, <1>6, <1>7, <1>8 DEF Distinct

\* At first no item is anywhere.
LEMMA PlacesInit == Init => CInv
<1> SUFFICES ASSUME Init PROVE Places
  BY DEF CInv
<1>1. Waiting = {}
  BY DEF Init, Waiting, Range
<1>2. ItemPlaces
  BY <1>1 DEF Init, ItemPlaces, Distinct
<1>3. \A t \in Threads : pc[t] = "idle"
  BY DEF Init
<1>4. TakenPlaces /\ SendingPlaces
  BY <1>3 DEF TakenPlaces, SendingPlaces, Threads
<1> QED
  BY <1>2, <1>4 DEF Places

\* An action that moves no item and brings no thread to the points of
\* Places keeps them.
LEMMA PlacesUntouched ==
  ASSUME Places, UNCHANGED <<pending, started>>, running' \subseteq running,
         toNotify' \subseteq toNotify, donePc' = "running" => donePc = "running",
         donePc = "running" => running' = running,
         \A t \in Threads : pc'[t] = "run" => pc[t] = "run" /\ taken'[t] = taken[t],
         \/ pc'["main"] \notin {"enqueue", "check", "pong", "take", "run"}
         \/ sending' = sending /\ pc'["main"] = pc["main"]
         \/ sending' = sending /\ {pc["main"], pc'["main"]} \subseteq {"check", "pong", "take"}
  PROVE  Places'
<1>1. Waiting' = Waiting
  BY DEF Waiting
<1>2. ItemPlaces'
  BY <1>1 DEF Places, ItemPlaces
<1>3. TakenPlaces'
  BY <1>1 DEF Places, TakenPlaces
<1>4. SendingPlaces'
  BY <1>1 DEF Places, SendingPlaces
<1> QED
  BY <1>2, <1>3, <1>4 DEF Places

\* Every action keeps the places, as long as no ping was sent.
LEMMA PlacesNext == TInv /\ WInv /\ CInv /\ [Next]_vars => CInv'
<1> SUFFICES ASSUME TInv, WInv, CInv, [Next]_vars, pings' = 0 PROVE Places'
  BY DEF CInv
<1>0. /\ pc \in [Threads -> {"idle", "enqueue", "check", "pong", "take", "run", "write", "finish"}]
      /\ taken \in [Threads -> Items \cup {None}] /\ pending \in Seq(Items)
      /\ "main" \in Threads /\ "writer" \in Threads /\ \A t \in Threads : t \in {"main", "writer"}
  BY DEF TInv, TypeOK, Threads
<1>1. pings = 0
  <2>1. pings \in Nat
    BY ReactorAssumption DEF TInv, TypeOK
  <2>2. pings' = pings \/ pings' = pings + 1
    BY DEF Next, Main, Writer, Reader, Closer, NextWrite, CheckWriting, WritePong, TakePending,
       AddRunning, WriteItem, StartWrite, SendTo, Enqueue, OnWriteDone, FinishAfterFailedWrite,
       Finish, ReadPing, ReadResponse, NotifyHandled, ReadFails, OnDone, NotifyClosed,
       ClearRunning, ClearPending, Client, ClientHandles, ClientPings, ClientCloses,
       ClientIsLost, clientVars, vars
  <2> QED
    BY <2>1, <2>2
<1>2. Places /\ OneWriter
  BY <1>1 DEF CInv, WInv
<1>3. ItemPlaces /\ TakenPlaces /\ SendingPlaces
  BY <1>2 DEF Places
<1>4. ASSUME NEW t \in Threads, CheckWriting(t) \/ WritePong(t) PROVE Places'
  <2>1. /\ UNCHANGED <<pending, started, running, toNotify, donePc>>
        /\ \/ pc' = [pc EXCEPT ![t] = "idle"] /\ taken' = [taken EXCEPT ![t] = None]
              /\ sending' = IF t = "main" THEN None ELSE sending
           \/ /\ pc[t] \in {"check", "pong"} /\ UNCHANGED <<taken, sending>>
              /\ \E l \in {"pong", "take"} : pc' = [pc EXCEPT ![t] = l]
    BY <1>4 DEF CheckWriting, WritePong, Leave, Goto, itemVars, doneVars
  <2>2. CASE /\ pc' = [pc EXCEPT ![t] = "idle"] /\ taken' = [taken EXCEPT ![t] = None]
             /\ sending' = IF t = "main" THEN None ELSE sending
    <3>1. \A u \in Threads : /\ pc'[u] = IF u = t THEN "idle" ELSE pc[u]
                             /\ taken'[u] = IF u = t THEN None ELSE taken[u]
      BY <1>0, <2>2
    <3> QED
      BY <1>0, <1>2, <2>1, <2>2, <3>1, PlacesUntouched
  <2>3. CASE /\ pc[t] \in {"check", "pong"} /\ UNCHANGED <<taken, sending>>
             /\ \E l \in {"pong", "take"} : pc' = [pc EXCEPT ![t] = l]
    <3>1. PICK l \in {"pong", "take"} : \A u \in Threads : pc'[u] = IF u = t THEN l ELSE pc[u]
      BY <1>0, <2>3
    <3> QED
      BY <1>0, <1>2, <2>1, <2>3, <3>1, PlacesUntouched
  <2> QED
    BY <2>1, <2>2, <2>3
<1>5. ASSUME NEW t \in Threads, WriteItem(t) PROVE Places'
  <2>1. /\ UNCHANGED <<pending, started, running, toNotify, donePc>>
        /\ pc' = [pc EXCEPT ![t] = "idle"] /\ taken' = [taken EXCEPT ![t] = None]
        /\ sending' = IF t = "main" THEN None ELSE sending
    BY <1>5 DEF WriteItem, Leave, itemVars, doneVars
  <2>2. \A u \in Threads : /\ pc'[u] = IF u = t THEN "idle" ELSE pc[u]
                           /\ taken'[u] = IF u = t THEN None ELSE taken[u]
    BY <1>0, <2>1
  <2> QED
    BY <1>0, <1>2, <2>1, <2>2, PlacesUntouched
<1>6. ASSUME NEW t \in Threads, TakePending(t) PROVE Places'
  <2>1. UNCHANGED <<started, running, toNotify, donePc>> /\ pc[t] = "take"
    BY <1>6 DEF TakePending, itemVars, doneVars
  <2>2. CASE ~MayTake /\ Leave(t) /\ UNCHANGED <<pending, writing>>
    <3>1. /\ sending' = IF t = "main" THEN None ELSE sending
          /\ \A u \in Threads : /\ pc'[u] = IF u = t THEN "idle" ELSE pc[u]
                                /\ taken'[u] = IF u = t THEN None ELSE taken[u]
      BY <1>0, <2>2 DEF Leave
    <3> QED
      BY <1>0, <1>2, <2>1, <2>2, <3>1, PlacesUntouched
  <2>3. CASE /\ MayTake /\ pending' = Tail(pending)
             /\ taken' = [taken EXCEPT ![t] = Head(pending)]
             /\ pc' = [pc EXCEPT ![t] = "run"] /\ UNCHANGED sending
    <3>1. /\ Head(pending) \in Waiting /\ pending[Len(pending)] \in Waiting
          /\ Distinct(pending') /\ Waiting' \subseteq Waiting \ {Head(pending)}
          /\ pending # <<>>
          /\ pending' # <<>> => pending'[Len(pending')] = pending[Len(pending)]
      BY <1>0, <1>3, <2>3, PendingShrinks DEF ItemPlaces, MayTake, Waiting
    <3>2. \A u \in Threads : /\ pc'[u] = IF u = t THEN "run" ELSE pc[u]
                             /\ taken'[u] = IF u = t THEN Head(pending) ELSE taken[u]
      BY <1>0, <2>3
    <3>3. ItemPlaces'
      BY <1>3, <2>1, <3>1 DEF ItemPlaces
    <3>4. TakenPlaces'
      BY <1>3, <2>1, <3>1, <3>2 DEF TakenPlaces, ItemPlaces
    <3>5. SendingPlaces'
      BY <1>0, <1>3, <2>1, <2>3, <3>1, <3>2 DEF SendingPlaces, ItemPlaces
    <3> QED
      BY <3>3, <3>4, <3>5 DEF Places
  <2> QED
    BY <1>6, <2>2, <2>3 DEF TakePending
<1>7. ASSUME NEW t \in Threads, AddRunning(t) PROVE Places'
  <2>1. /\ UNCHANGED <<pending, started, toNotify, donePc, taken, sending>>
        /\ pc[t] = "run" /\ donePc # "running"
        /\ running' = running \cup {taken[t]} /\ pc' = [pc EXCEPT ![t] = "write"]
    BY <1>7 DEF AddRunning, Goto, RunningMutexFree, itemVars, doneVars
  <2>2. \A u \in Threads : u # t => pc[u] # "run"
    BY <1>2, <2>1 DEF OneWriter, Claims
  <2>3. \A u \in Threads : pc'[u] # "run" /\ (u # t => pc'[u] = pc[u])
    BY <1>0, <2>1, <2>2
  <2>4. Waiting' = Waiting /\ taken[t] \in started \ (running \cup Waiting)
    BY <1>3, <2>1 DEF Waiting, TakenPlaces
  <2>5. ItemPlaces' /\ TakenPlaces'
    BY <1>3, <2>1, <2>3, <2>4 DEF ItemPlaces, TakenPlaces
  <2>6. SendingPlaces'
    BY <1>0, <1>3, <2>1, <2>3, <2>4 DEF SendingPlaces
  <2> QED
    BY <2>5, <2>6 DEF Places
<1>8. ASSUME NEW i \in Items, SendTo(i) PROVE Places'
  <2>1. /\ UNCHANGED <<pending, running, toNotify, donePc, taken>>
        /\ i \notin started /\ started' = started \cup {i} /\ sending' = i
        /\ pc' = [pc EXCEPT !["main"] = "enqueue"]
    BY <1>8 DEF SendTo, doneVars
  <2>2. Waiting' = Waiting
    BY <2>1 DEF Waiting
  <2>3. \A u \in Threads : pc'[u] = IF u = "main" THEN "enqueue" ELSE pc[u]
    BY <1>0, <2>1
  <2>4. ItemPlaces' /\ TakenPlaces'
    BY <1>3, <2>1, <2>2, <2>3 DEF ItemPlaces, TakenPlaces
  <2>5. SendingPlaces'
    BY <1>0, <1>3, <2>1, <2>2, <2>3 DEF SendingPlaces, ItemPlaces, TakenPlaces
  <2> QED
    BY <2>4, <2>5 DEF Places
<1>9. CASE Enqueue
  <2>1. /\ UNCHANGED <<running, toNotify, donePc, taken, started, sending>>
        /\ pending' = Append(pending, sending) /\ pc["main"] = "enqueue"
        /\ pc' = [pc EXCEPT !["main"] = "check"]
    BY <1>9 DEF Enqueue, Enqueued, Goto, itemVars, doneVars
  <2>2. /\ sending \in Items /\ sending \in started \ (running \cup Waiting \cup toNotify)
        /\ \A t \in Threads : pc[t] = "run" => taken[t] # sending
    BY <1>3, <2>1 DEF SendingPlaces, TInv, Carried
  <2>3. /\ Distinct(pending') /\ Waiting' = Waiting \cup {sending}
        /\ pending'[Len(pending')] = sending
    BY <1>0, <1>3, <2>1, <2>2, PendingGrows DEF ItemPlaces, Waiting
  <2>4. \A u \in Threads : pc'[u] = IF u = "main" THEN "check" ELSE pc[u]
    BY <1>0, <2>1
  <2>5. ItemPlaces' /\ TakenPlaces'
    BY <1>3, <2>1, <2>2, <2>3, <2>4 DEF ItemPlaces, TakenPlaces
  <2>6. SendingPlaces'
    BY <1>0, <2>1, <2>3, <2>4 DEF SendingPlaces
  <2> QED
    BY <2>5, <2>6 DEF Places
<1>10. CASE OnWriteDone \/ FinishAfterFailedWrite
  <2>1. /\ UNCHANGED <<pending, started, running, toNotify, donePc, sending>>
        /\ \E l \in {"idle", "check", "finish"} : pc' = [pc EXCEPT !["writer"] = l]
    BY <1>10 DEF OnWriteDone, FinishAfterFailedWrite, WriteDoneLabel, Goto, Leave, itemVars,
                 doneVars
  <2>2. taken'["main"] = taken["main"]
    BY <1>0, <1>10 DEF OnWriteDone, FinishAfterFailedWrite, Goto, Leave
  <2>3. pc'["main"] = pc["main"] /\ pc'["writer"] # "run"
    BY <1>0, <2>1
  <2> QED
    BY <1>0, <1>2, <2>1, <2>2, <2>3, PlacesUntouched
<1>11. CASE ReadPing \/ ReadResponse \/ NotifyHandled \/ ReadFails
  <2>1. /\ UNCHANGED <<pending, started, toNotify, donePc, sending, pc, taken>>
        /\ running' \subseteq running /\ (donePc = "running" => running' = running)
    BY <1>11 DEF ReadPing, ReadResponse, NotifyHandled, ReadFails, NotifyHandledBy,
                 RunningMutexFree, itemVars, nextVars, doneVars
  <2> QED
    BY <1>2, <2>1, PlacesUntouched
<1>12. CASE Closer
  <2>1. /\ UNCHANGED <<started, sending, pc, taken>>
    BY <1>12 DEF Closer, OnDone, NotifyClosed, NotifyHandledBy, ClearRunning, ClearPending,
                 itemVars, nextVars
  <2>2. CASE OnDone
    <3>1. UNCHANGED <<pending, running>> /\ toNotify' = running
      BY <2>2 DEF OnDone
    <3>2. Waiting' = Waiting
      BY <3>1 DEF Waiting
    <3>3. ItemPlaces' /\ TakenPlaces' /\ SendingPlaces'
      BY <1>3, <2>1, <3>1, <3>2 DEF ItemPlaces, TakenPlaces, SendingPlaces
    <3> QED
      BY <3>3 DEF Places
  <2>3. ASSUME NEW i \in Items, NotifyClosed(i) PROVE Places'
    BY <1>2, <2>1, <2>3, PlacesUntouched DEF NotifyClosed
  <2>4. CASE ClearRunning
    <3>1. pending' = pending /\ running' = {} /\ donePc' = "pending" /\ toNotify' = Waiting
      BY <2>4 DEF ClearRunning, StillPending, Waiting
    <3>2. Waiting' = Waiting
      BY <3>1 DEF Waiting
    <3>3. ItemPlaces' /\ TakenPlaces' /\ SendingPlaces'
      BY <1>3, <2>1, <3>1, <3>2 DEF ItemPlaces, TakenPlaces, SendingPlaces
    <3> QED
      BY <3>3 DEF Places
  <2>5. CASE ClearPending
    <3>1. pending' = <<>> /\ donePc' = "over" /\ UNCHANGED <<running, toNotify>>
      BY <2>5 DEF ClearPending
    <3>2. Waiting' = {} /\ Distinct(pending')
      BY <3>1 DEF Waiting, Range, Distinct
    <3>3. ItemPlaces' /\ TakenPlaces' /\ SendingPlaces'
      BY <1>3, <2>1, <3>1, <3>2 DEF ItemPlaces, TakenPlaces, SendingPlaces
    <3> QED
      BY <3>3 DEF Places
  <2> QED
    BY <1>12, <2>2, <2>3, <2>4, <2>5 DEF Closer
<1>13. CASE Client \/ UNCHANGED vars
  <2>1. UNCHANGED <<pending, running, started, toNotify, donePc, sending, pc, taken>>
    BY <1>13 DEF Client, vars, itemVars, nextVars, doneVars
  <2> QED
    BY <1>2, <2>1, PlacesUntouched
<1> QED
  BY <1>4, <1>5, <1>6, <1>7, <1>8, <1>9, <1>10, <1>11, <1>12, <1>13
     DEF Next, Main, Writer, Reader, NextWrite, Threads

\* Without pings the main thread and OnDone can deadlock in one way only:
\* sendTo is about to dequeue in NextWrite while OnDone walks m_pending.
THEOREM OneCycleOnly == Spec => []LockCycleOnPending
<1>1. CInv => LockCycleOnPending
  BY DEF CInv, Places, ItemPlaces, SendingPlaces, LockCycleOnPending, LockCycle,
         PendingMutexFree, RunningMutexFree
<1> QED
  BY <1>1, TypeInit, TypeNext, WriteInit, WriteNext, PlacesInit, PlacesNext, PTL DEF Spec
-----------------------------------------------------------------------------
(* The refinement of EventDelivery.  An item is held by the stream from the  *)
(* call of sendTo until its write starts, or m_pending is cleared, and gone  *)
(* after that.  What is on its way to the client is gone and not handled,    *)
(* what is on its way back is handled.  OnDone clears m_pending when every   *)
(* item in it is settled; the main thread can have taken an item then, but   *)
(* no other one is waiting: its own item, which is the last to wait, cannot  *)
(* have been notified while sendTo holds it.                                 *)

Held == Waiting \cup {taken[t] : t \in {u \in Threads : Claims(u)}}
                \cup (IF pc["main"] = "enqueue" THEN {sending} ELSE {})
Gone == started \ Held

QueuePlaces ==
  /\ \A t \in Threads : taken[t] # None <=> Claims(t)
  /\ \A t \in Threads : Claims(t) => taken[t] \in started \ Waiting
  /\ pc["main"] = "enqueue" => \A t \in Threads : Claims(t) => taken[t] # sending
  /\ Claims("main") /\ pending # <<>> => pending[Len(pending)] = sending

ClosingPlaces ==
  /\ donePc # "idle" => finished
  /\ toNotify # {} => donePc # "idle"
  /\ donePc # "idle" /\ Alive => pc["writer"] = "idle" /\ outstanding = <<>>
  /\ donePc = "pending" =>
       /\ Waiting \subseteq done \cup toNotify
       /\ sending \in Waiting => sending \in toNotify

ClientPlaces ==
  /\ Distinct(toClient) /\ Range(toClient) \subseteq Gone \ handled
  /\ handled \subseteq Gone /\ Range(toServer) \subseteq handled
  /\ readPc = "notify" => readItem \in handled

RInv == pings = 0 => QueuePlaces /\ ClosingPlaces /\ ClientPlaces

\* At first nothing is held or gone, and OnDone has not begun.
LEMMA RefinementInit == Init => RInv
<1> SUFFICES ASSUME Init PROVE QueuePlaces /\ ClosingPlaces /\ ClientPlaces
  BY DEF RInv
<1>1. \A t \in Threads : pc[t] = "idle" /\ taken[t] = None
  BY DEF Init
<1>2. QueuePlaces
  BY <1>1 DEF QueuePlaces, Claims, Threads
<1>3. ClosingPlaces
  BY DEF Init, ClosingPlaces
<1>4. Distinct(toClient) /\ Range(toClient) = {} /\ Range(toServer) = {}
  BY DEF Init, Distinct, Range
<1>5. ClientPlaces
  BY <1>4 DEF Init, ClientPlaces
<1> QED
  BY <1>2, <1>3, <1>5

\* Where a held item is.
LEMMA HeldAt ==
  ASSUME NEW x
  PROVE  x \in Held <=> \/ x \in Waiting
                        \/ \E t \in Threads : Claims(t) /\ taken[t] = x
                        \/ pc["main"] = "enqueue" /\ sending = x
  BY DEF Held

\* Every action keeps what the threads have taken apart from what waits.
LEMMA QueuePlacesNext ==
  ASSUME TInv, Places, OneWriter, NoPong, QueuePlaces, [Next]_vars
  PROVE  QueuePlaces'
<1>0. /\ pc \in [Threads -> {"idle", "enqueue", "check", "pong", "take", "run", "write", "finish"}]
      /\ taken \in [Threads -> Items \cup {None}] /\ pending \in Seq(Items)
      /\ "main" \in Threads /\ "writer" \in Threads /\ \A t \in Threads : t \in {"main", "writer"}
      /\ None \notin Items /\ started \subseteq Items
  BY ReactorAssumption DEF TInv, TypeOK, Threads
<1>1. ItemPlaces /\ SendingPlaces /\ Carried
  BY DEF Places, TInv
<1>2. ASSUME NEW t \in Threads, CheckWriting(t) \/ WritePong(t) \/ WriteItem(t) PROVE QueuePlaces'
  <2>1. /\ UNCHANGED <<pending, started>>
        /\ \/ pc' = [pc EXCEPT ![t] = "idle"] /\ taken' = [taken EXCEPT ![t] = None]
              /\ sending' = IF t = "main" THEN None ELSE sending
           \/ /\ pc[t] \in {"check", "pong"} /\ UNCHANGED <<taken, sending>>
              /\ \E l \in {"pong", "take"} : pc' = [pc EXCEPT ![t] = l]
    BY <1>2 DEF CheckWriting, WritePong, WriteItem, Leave, Goto, itemVars
  <2>2. CASE /\ pc' = [pc EXCEPT ![t] = "idle"] /\ taken' = [taken EXCEPT ![t] = None]
             /\ sending' = IF t = "main" THEN None ELSE sending
    <3>1. \A u \in Threads : /\ pc'[u] = IF u = t THEN "idle" ELSE pc[u]
                             /\ taken'[u] = IF u = t THEN None ELSE taken[u]
      BY <1>0, <2>2
    <3> QED
      BY <1>0, <2>1, <2>2, <3>1 DEF QueuePlaces, Claims, Waiting
  <2>3. CASE /\ pc[t] \in {"check", "pong"} /\ UNCHANGED <<taken, sending>>
             /\ \E l \in {"pong", "take"} : pc' = [pc EXCEPT ![t] = l]
    <3>1. PICK l \in {"pong", "take"} : \A u \in Threads : pc'[u] = IF u = t THEN l ELSE pc[u]
      BY <1>0, <2>3
    <3> QED
      BY <1>0, <2>1, <2>3, <3>1 DEF QueuePlaces, Claims, Waiting
  <2> QED
    BY <2>1, <2>2, <2>3
<1>3. ASSUME NEW t \in Threads, TakePending(t) PROVE QueuePlaces'
  <2>1. started' = started /\ pc[t] = "take"
    BY <1>3 DEF TakePending, itemVars
  <2>2. CASE ~MayTake /\ Leave(t) /\ UNCHANGED <<pending, writing>>
    <3>1. /\ sending' = IF t = "main" THEN None ELSE sending
          /\ \A u \in Threads : /\ pc'[u] = IF u = t THEN "idle" ELSE pc[u]
                                /\ taken'[u] = IF u = t THEN None ELSE taken[u]
      BY <1>0, <2>2 DEF Leave
    <3> QED
      BY <1>0, <2>1, <2>2, <3>1 DEF QueuePlaces, Claims, Waiting
  <2>3. CASE /\ MayTake /\ pending' = Tail(pending)
             /\ taken' = [taken EXCEPT ![t] = Head(pending)]
             /\ pc' = [pc EXCEPT ![t] = "run"] /\ UNCHANGED sending
    <3>1. /\ Head(pending) \in Waiting /\ pending[Len(pending)] \in Waiting
          /\ Waiting' \subseteq Waiting \ {Head(pending)} /\ pending # <<>>
          /\ pending' # <<>> => pending'[Len(pending')] = pending[Len(pending)]
      BY <1>0, <1>1, <2>3, PendingShrinks DEF ItemPlaces, MayTake, Waiting
    <3>2. \A u \in Threads : /\ pc'[u] = IF u = t THEN "run" ELSE pc[u]
                             /\ taken'[u] = IF u = t THEN Head(pending) ELSE taken[u]
      BY <1>0, <2>3
    <3>3. ~writing
      BY <2>3 DEF MayTake
    <3>4. \A u \in Threads : Claims(u)' <=> u = t
      BY <3>2, <3>3 DEF OneWriter, Claims
    <3>5. \A u \in Threads : ~Claims(u) /\ (taken[u] = None)
      BY <3>3 DEF OneWriter, QueuePlaces
    <3>6. Head(pending) \in started /\ Head(pending) # None
      BY <1>0, <1>1, <3>1 DEF ItemPlaces
    <3>7. (\A u \in Threads : taken[u] # None <=> Claims(u))'
      BY <3>2, <3>4, <3>5, <3>6
    <3>8. (\A u \in Threads : Claims(u) => taken[u] \in started \ Waiting)'
      BY <2>1, <3>1, <3>2, <3>4, <3>6
    <3>9. (pc["main"] = "enqueue" => \A u \in Threads : Claims(u) => taken[u] # sending)'
      BY <1>0, <1>1, <2>3, <3>1, <3>2, <3>4 DEF SendingPlaces
    <3>10. (Claims("main") /\ pending # <<>> => pending[Len(pending)] = sending)'
      BY <1>0, <1>1, <2>1, <2>3, <3>1, <3>2, <3>4 DEF SendingPlaces
    <3> QED
      BY <3>7, <3>8, <3>9, <3>10 DEF QueuePlaces
  <2> QED
    BY <1>3, <2>2, <2>3 DEF TakePending
<1>4. ASSUME NEW t \in Threads, AddRunning(t) PROVE QueuePlaces'
  <2>1. UNCHANGED <<pending, started, taken, sending>> /\ pc[t] = "run"
        /\ pc' = [pc EXCEPT ![t] = "write"]
    BY <1>4 DEF AddRunning, Goto, itemVars
  <2>2. \A u \in Threads : pc'[u] = IF u = t THEN "write" ELSE pc[u]
    BY <1>0, <2>1
  <2> QED
    BY <1>0, <2>1, <2>2 DEF QueuePlaces, Claims, Waiting
<1>5. ASSUME NEW i \in Items, SendTo(i) PROVE QueuePlaces'
  <2>1. /\ UNCHANGED <<pending, taken>> /\ pc["main"] = "idle"
        /\ i \notin started /\ started' = started \cup {i} /\ sending' = i
        /\ pc' = [pc EXCEPT !["main"] = "enqueue"]
    BY <1>5 DEF SendTo
  <2>2. \A u \in Threads : pc'[u] = IF u = "main" THEN "enqueue" ELSE pc[u]
    BY <1>0, <2>1
  <2> QED
    BY <1>0, <2>1, <2>2 DEF QueuePlaces, Claims, Waiting
<1>6. CASE Enqueue
  <2>1. /\ UNCHANGED <<taken, started, sending>>
        /\ pending' = Append(pending, sending) /\ pc["main"] = "enqueue"
        /\ pc' = [pc EXCEPT !["main"] = "check"]
    BY <1>6 DEF Enqueue, Enqueued, Goto, itemVars
  <2>2. Waiting' = Waiting \cup {sending}
    BY <1>0, <1>1, <2>1, PendingGrows DEF ItemPlaces, SendingPlaces, Carried, Waiting
  <2>3. \A u \in Threads : pc'[u] = IF u = "main" THEN "check" ELSE pc[u]
    BY <1>0, <2>1
  <2> QED
    BY <1>0, <2>1, <2>2, <2>3 DEF QueuePlaces, Claims
<1>7. CASE OnWriteDone \/ FinishAfterFailedWrite
  <2>1. /\ UNCHANGED <<pending, started, sending>> /\ pc["writer"] \in {"idle", "finish"}
        /\ \E l \in {"idle", "check", "finish"} : pc' = [pc EXCEPT !["writer"] = l]
    BY <1>7 DEF OnWriteDone, FinishAfterFailedWrite, WriteDoneLabel, Goto, Leave, itemVars
  <2>2. PICK l \in {"idle", "check", "finish"} :
          \A u \in Threads : pc'[u] = IF u = "writer" THEN l ELSE pc[u]
    BY <1>0, <2>1
  <2>3. taken["writer"] = None
    BY <1>0, <2>1 DEF QueuePlaces, Claims
  <2>4. \A u \in Threads : taken'[u] = taken[u]
    BY <1>0, <1>7, <2>3 DEF OnWriteDone, FinishAfterFailedWrite, Goto, Leave
  <2> QED
    BY <1>0, <2>1, <2>2, <2>4 DEF QueuePlaces, Claims, Waiting
<1>8. CASE ClearPending
  <2>1. UNCHANGED <<started, sending, pc, taken>> /\ pending' = <<>>
    BY <1>8 DEF ClearPending, itemVars, nextVars
  <2>2. Waiting' = {}
    BY <2>1 DEF Waiting, Range
  <2> QED
    BY <2>1, <2>2 DEF QueuePlaces, Claims
<1>9. CASE \/ ReadPing \/ ReadResponse \/ NotifyHandled \/ ReadFails \/ OnDone
           \/ (\E i \in Items : NotifyClosed(i)) \/ ClearRunning \/ Client \/ UNCHANGED vars
  <2>1. UNCHANGED <<pending, started, sending, pc, taken>>
    BY <1>9 DEF ReadPing, ReadResponse, NotifyHandled, ReadFails, NotifyHandledBy, OnDone,
                NotifyClosed, ClearRunning, Client, vars, itemVars, nextVars
  <2> QED
    BY <2>1 DEF QueuePlaces, Claims, Waiting
<1> QED
  BY <1>2, <1>3, <1>4, <1>5, <1>6, <1>7, <1>8, <1>9
     DEF Next, Main, Writer, Reader, Closer, NextWrite, Threads

\* Every action keeps what is left to notify and what is settled by OnDone.
LEMMA ClosingPlacesNext ==
  ASSUME TInv, Places, NoPong, ClosingPlaces, [Next]_vars
  PROVE  ClosingPlaces'
<1>0. /\ pc \in [Threads -> {"idle", "enqueue", "check", "pong", "take", "run", "write", "finish"}]
      /\ pending \in Seq(Items) /\ sending \in Items \cup {None}
      /\ "main" \in Threads /\ "writer" \in Threads /\ \A t \in Threads : t \in {"main", "writer"}
      /\ None \notin Items /\ started \subseteq Items
  BY ReactorAssumption DEF TInv, TypeOK, Threads
<1>1. ItemPlaces /\ Waiting \subseteq started
  BY DEF Places, ItemPlaces
<1>2. \/ sending' = sending /\ Waiting' = Waiting
      \/ sending' = None /\ Waiting' = Waiting
      \/ sending' \notin started /\ Waiting' = Waiting
      \/ PendingMutexFree /\ UNCHANGED donePc
      \/ donePc' = "over"
  BY DEF Next, Main, Writer, Reader, Closer, NextWrite, CheckWriting, WritePong, TakePending,
         AddRunning, WriteItem, Leave, Goto, SendTo, Enqueue, OnWriteDone,
         FinishAfterFailedWrite, ReadPing, ReadResponse, NotifyHandled, ReadFails, OnDone,
         NotifyClosed, ClearRunning, ClearPending, Client, vars, itemVars, nextVars, doneVars,
         Waiting
<1>3. /\ finished => finished'
      /\ done \subseteq done'
  BY DEF Next, Main, Writer, Reader, Closer, NextWrite, CheckWriting, WritePong, StartWrite,
         TakePending, AddRunning, WriteItem, SendTo, Enqueue, OnWriteDone,
         FinishAfterFailedWrite, Finish, ReadPing, ReadResponse, NotifyHandled,
         NotifyHandledBy, ReadFails, OnDone, NotifyClosed, ClearRunning, ClearPending, Client,
         vars, itemVars
<1>4. ASSUME UNCHANGED doneVars, pc'["writer"] = "idle" \/ pc'["writer"] = pc["writer"]
                                   \/ donePc = "idle",
             \/ UNCHANGED <<outstanding, fault>>
             \/ donePc = "idle"
             \/ fault' # "none"
      PROVE  ClosingPlaces'
  <2>1. UNCHANGED <<donePc, toNotify>>
    BY <1>4 DEF doneVars
  <2>2. donePc = "pending" => /\ (sending \in Waiting => sending \in toNotify)'
                              /\ Waiting' = Waiting
    BY <1>0, <1>1, <1>2, <2>1 DEF ClosingPlaces, PendingMutexFree
  <2> QED
    BY <1>3, <1>4, <2>1, <2>2 DEF ClosingPlaces, Alive
<1>5. ASSUME NEW t \in Threads, CheckWriting(t) \/ WritePong(t) \/ TakePending(t) \/ AddRunning(t)
      PROVE  ClosingPlaces'
  <2>1. UNCHANGED <<outstanding, fault>>
    BY <1>5 DEF CheckWriting, WritePong, PongOwed, NoPong, TakePending, AddRunning
  <2>2. UNCHANGED doneVars /\ Alive /\ pc[t] # "idle"
    BY <1>5 DEF CheckWriting, WritePong, TakePending, AddRunning, Alive
  <2>3. t # "writer" => pc'["writer"] = pc["writer"]
    BY <1>0, <1>5 DEF CheckWriting, WritePong, TakePending, AddRunning, Leave, Goto
  <2> QED
    BY <1>4, <2>1, <2>2, <2>3 DEF ClosingPlaces
<1>6. ASSUME NEW t \in Threads, WriteItem(t) PROVE ClosingPlaces'
  <2>1. UNCHANGED doneVars /\ (donePc # "idle" => fault' # "none")
    BY <1>6 DEF WriteItem, StartWrite
  <2>2. pc'["writer"] = "idle" \/ pc'["writer"] = pc["writer"]
    BY <1>0, <1>6 DEF WriteItem, Leave
  <2> QED
    BY <1>4, <2>1, <2>2
<1>7. CASE OnWriteDone
  <2>1. UNCHANGED doneVars /\ donePc = "idle"
    BY <1>7 DEF OnWriteDone, ClosingPlaces
  <2> QED
    BY <1>4, <2>1
<1>8. CASE FinishAfterFailedWrite
  <2>1. UNCHANGED doneVars /\ donePc = "idle"
    BY <1>8 DEF FinishAfterFailedWrite, ClosingPlaces
  <2> QED
    BY <1>4, <2>1
<1>9. ASSUME NEW i \in Items, SendTo(i) PROVE ClosingPlaces'
  <2>1. UNCHANGED doneVars /\ UNCHANGED <<outstanding, fault>>
    BY <1>9 DEF SendTo
  <2>2. pc'["writer"] = pc["writer"]
    BY <1>0, <1>9 DEF SendTo
  <2> QED
    BY <1>4, <2>1, <2>2
<1>10. CASE Enqueue
  <2>1. UNCHANGED doneVars /\ UNCHANGED <<outstanding, fault>>
    BY <1>10 DEF Enqueue
  <2>2. pc'["writer"] = pc["writer"]
    BY <1>0, <1>10 DEF Enqueue, Goto
  <2> QED
    BY <1>4, <2>1, <2>2
<1>11. CASE ReadPing \/ ReadResponse \/ NotifyHandled \/ Client \/ UNCHANGED vars
  <2>1. UNCHANGED doneVars /\ UNCHANGED <<outstanding, fault, pc>>
    BY <1>11 DEF ReadPing, ReadResponse, NotifyHandled, Client, nextVars, vars
  <2> QED
    BY <1>4, <2>1
<1>12. CASE ReadFails
  <2>1. UNCHANGED <<doneVars, outstanding, pc>> /\ (fault' = fault \/ fault' # "none")
    BY <1>12 DEF ReadFails, Finish, nextVars
  <2> QED
    BY <1>4, <2>1
<1>13. CASE OnDone
  BY <1>13 DEF OnDone, ClosingPlaces, nextVars
<1>14. ASSUME NEW i \in Items, NotifyClosed(i) PROVE ClosingPlaces'
  <2>1. /\ i \in toNotify /\ toNotify' = toNotify \ {i} /\ done' = done \cup {i}
        /\ sending # i
        /\ UNCHANGED <<donePc, pending, pc, sending, outstanding, fault, finished>>
    BY <1>14 DEF NotifyClosed, NotifyHandledBy, ReactorsMutexFree, nextVars
  <2>2. Waiting' = Waiting
    BY <2>1 DEF Waiting
  <2> QED
    BY <2>1, <2>2 DEF ClosingPlaces, Alive
<1>15. CASE ClearRunning
  <2>1. /\ donePc = "running" /\ donePc' = "pending" /\ toNotify' = Waiting
        /\ UNCHANGED <<pending, pc, sending, outstanding, fault, finished, done>>
    BY <1>15 DEF ClearRunning, StillPending, Waiting, nextVars, itemVars
  <2>2. Waiting' = Waiting
    BY <2>1 DEF Waiting
  <2> QED
    BY <2>1, <2>2 DEF ClosingPlaces, Alive
<1>16. CASE ClearPending
  <2>1. /\ donePc = "pending" /\ donePc' = "over" /\ toNotify' = {}
        /\ UNCHANGED <<pc, outstanding, fault, finished>>
    BY <1>16 DEF ClearPending, nextVars
  <2> QED
    BY <2>1 DEF ClosingPlaces, Alive
<1> QED
  BY <1>5, <1>6, <1>7, <1>8, <1>9, <1>10, <1>11, <1>12, <1>13, <1>14, <1>15, <1>16
     DEF Next, Main, Writer, Reader, Closer, NextWrite, Threads

(* Sequences of items, with concatenation as an operator of its own. *)

Line == Seq(Items)
Cat(s, t) == s \o t
Unit(i) == <<i>>

\* Concatenation is associative and the empty sequence its unit.
LEMMA Lines ==
  /\ <<>> \in Line /\ \A i \in Items : Unit(i) \in Line
  /\ \A s, t \in Line : Cat(s, t) \in Line
  /\ \A s, t, u \in Line : Cat(Cat(s, t), u) = Cat(s, Cat(t, u))
  /\ \A s \in Line : Cat(s, <<>>) = s /\ Cat(<<>>, s) = s
  /\ \A s \in Line, i \in Items : Append(s, i) = Cat(s, Unit(i))
<1>1. <<>> \in Line /\ \A i \in Items : Unit(i) \in Line
  BY DEF Line, Unit
<1>2. /\ \A s, t \in Line : Cat(s, t) \in Line
      /\ \A s, t, u \in Line : Cat(Cat(s, t), u) = Cat(s, Cat(t, u))
  BY ConcatProperties, ConcatAssociative DEF Line, Cat
<1>3. \A s \in Line : Cat(s, <<>>) = s /\ Cat(<<>>, s) = s
  BY ConcatEmptySeq DEF Line, Cat
<1>4. \A s \in Line, i \in Items : Append(s, i) = Cat(s, Unit(i))
  BY AppendIsConcat DEF Line, Cat, Unit
<1> QED
  BY <1>1, <1>2, <1>3, <1>4

\* The range of a concatenation is that of the parts.
LEMMA LineRanges ==
  /\ \A s, t \in Line : Range(Cat(s, t)) = Range(s) \cup Range(t)
  /\ Range(<<>>) = {} /\ \A i : Range(Unit(i)) = {i}
<1>1. \A s, t \in Line : Range(Cat(s, t)) = Range(s) \cup Range(t)
  BY RangeConcatenation DEF Line, Cat
<1>2. Range(<<>>) = {} /\ \A i : Range(Unit(i)) = {i}
  BY DEF Range, Unit
<1> QED
  BY <1>1, <1>2

\* What is put before a sequence is its head, and what is after it its tail.
LEMMA HeadThenTail ==
  /\ \A i \in Items, s \in Line :
       Cat(Unit(i), s) # <<>> /\ Head(Cat(Unit(i), s)) = i /\ Tail(Cat(Unit(i), s)) = s
  /\ \A s \in Line : s # <<>> => Head(s) \in Items /\ Tail(s) \in Line
                                 /\ s = Cat(Unit(Head(s)), Tail(s))
<1>1. ASSUME NEW i \in Items, NEW s \in Line
      PROVE  Cat(Unit(i), s) # <<>> /\ Head(Cat(Unit(i), s)) = i /\ Tail(Cat(Unit(i), s)) = s
  <2> DEFINE u == <<i>> \o s
  <2>1. /\ u \in Seq(Items) /\ Len(u) = 1 + Len(s) /\ Len(s) \in Nat
        /\ \A k \in 1..1 + Len(s) : u[k] = IF k <= 1 THEN i ELSE s[k - 1]
    BY ConcatProperties, LenProperties DEF Line
  <2>2. u # <<>> /\ Head(u) = i
    BY <2>1, EmptySeq
  <2>3. /\ Tail(u) \in Seq(Items) /\ Len(Tail(u)) = Len(s)
        /\ \A k \in 1..Len(Tail(u)) : Tail(u)[k] = u[k + 1]
    BY <2>1, <2>2, HeadTailProperties
  <2>4. \A k \in 1..Len(Tail(u)) : Tail(u)[k] = s[k]
    BY <2>1, <2>3
  <2>5. Tail(u) = s
    BY <2>3, <2>4, SeqEqual DEF Line
  <2> QED
    BY <2>2, <2>5 DEF Cat, Unit
<1>2. ASSUME NEW s \in Line, s # <<>>
      PROVE  Head(s) \in Items /\ Tail(s) \in Line /\ s = Cat(Unit(Head(s)), Tail(s))
  <2>1. Head(s) \in Items /\ Tail(s) \in Line /\ Len(s) \in Nat \ {0} /\ Len(Tail(s)) = Len(s) - 1
        /\ Head(s) = s[1] /\ \A k \in 1..Len(Tail(s)) : Tail(s)[k] = s[k + 1]
    BY <1>2, HeadTailProperties, EmptySeq DEF Line
  <2> DEFINE u == <<Head(s)>> \o Tail(s)
  <2>2. /\ u \in Seq(Items) /\ Len(u) = Len(s)
        /\ \A k \in 1..Len(s) : u[k] = IF k <= 1 THEN s[1] ELSE Tail(s)[k - 1]
    BY <2>1, ConcatProperties DEF Line
  <2>3. \A k \in 1..Len(s) : k > 1 => Tail(s)[k - 1] = s[k]
    BY <2>1
  <2>4. \A k \in 1..Len(s) : u[k] = s[k]
    BY <2>1, <2>2, <2>3
  <2>5. u = s
    BY <2>2, <2>4, SeqEqual DEF Line
  <2> QED
    BY <2>1, <2>5 DEF Cat, Unit
<1> QED
  BY <1>1, <1>2

\* Dropping the first part of a sequence leaves the second.
LEMMA FrontDropped ==
  ASSUME NEW s \in Line, NEW t \in Line
  PROVE  /\ Len(s) \in 0..Len(Cat(s, t))
         /\ SubSeq(Cat(s, t), Len(s) + 1, Len(Cat(s, t))) = t
         /\ {Cat(s, t)[k] : k \in 1..Len(s)} = Range(s)
         /\ \A k \in 1..Len(s) : Cat(s, t)[k] \in Range(s)
<1> DEFINE u == s \o t
<1>1. /\ u \in Seq(Items) /\ Len(u) = Len(s) + Len(t) /\ Len(s) \in Nat /\ Len(t) \in Nat
      /\ \A k \in 1..Len(s) + Len(t) : u[k] = IF k <= Len(s) THEN s[k] ELSE t[k - Len(s)]
  BY ConcatProperties, LenProperties DEF Line
<1>2. \A k \in 1..Len(s) : u[k] = s[k]
  BY <1>1
<1>3. Range(s) = {s[k] : k \in 1..Len(s)}
  BY RangeEquality DEF Line
<1> DEFINE v == SubSeq(u, Len(s) + 1, Len(u))
<1>4. \A k \in Len(s) + 1..Len(u) : u[k] \in Items
  <2>1. \A k \in 1..Len(u) : u[k] \in Items
    BY <1>1, ElementOfSeq
  <2> QED
    BY <1>1, <2>1
<1>5. /\ v \in Seq(Items)
      /\ Len(v) = IF Len(s) + 1 <= Len(u) THEN Len(u) - (Len(s) + 1) + 1 ELSE 0
      /\ \A k \in 1..Len(u) - (Len(s) + 1) + 1 : v[k] = u[Len(s) + 1 + k - 1]
  <2>1. Len(s) + 1 \in Int /\ Len(u) \in Int
    BY <1>1
  <2> HIDE DEF u
  <2> QED
    BY <1>4, <2>1, SubSeqProperties
<1>6. Len(v) = Len(t)
  BY <1>1, <1>5
<1>7. \A k \in 1..Len(t) : v[k] = t[k]
  <2> SUFFICES ASSUME NEW k \in 1..Len(t) PROVE v[k] = t[k]
    OBVIOUS
  <2>1. /\ k \in 1..Len(u) - (Len(s) + 1) + 1 /\ Len(s) + 1 + k - 1 = Len(s) + k
        /\ Len(s) + k \in 1..Len(s) + Len(t) /\ ~(Len(s) + k <= Len(s)) /\ Len(s) + k - Len(s) = k
    BY <1>1
  <2> HIDE DEF u, v
  <2> QED
    BY <1>1, <1>5, <2>1
<1>8. v = t
  BY <1>5, <1>6, <1>7, SeqEqual DEF Line
<1>9. {u[k] : k \in 1..Len(s)} = Range(s)
  BY <1>2, <1>3
<1>10. \A k \in 1..Len(s) : u[k] \in Range(s)
  BY <1>9
<1> QED
  BY <1>1, <1>8, <1>9, <1>10 DEF Cat

\* The parts of the queue: what a thread took, m_pending, what sendTo brings.
QueueParts ==
  /\ Taken \in Line /\ pending \in Line /\ Entering \in Line
  /\ Queue = Cat(Cat(Taken, pending), Entering)
  /\ \A t \in Threads : Claims(t) => Taken = Unit(taken[t]) /\ taken[t] \in Items
  /\ (\A t \in Threads : ~Claims(t)) => Taken = <<>>
  /\ pc["main"] = "enqueue" => Entering = Unit(sending) /\ sending \in Items
  /\ pc["main"] # "enqueue" => Entering = <<>>
  /\ Range(Queue) = Held

\* What is queued is what is held.
LEMMA QueueIsHeld == TInv /\ OneWriter /\ QueuePlaces => QueueParts
<1> SUFFICES ASSUME TInv, OneWriter, QueuePlaces PROVE QueueParts
  OBVIOUS
<1>0. /\ "main" \in Threads /\ "writer" \in Threads /\ "main" # "writer"
      /\ \A t \in Threads : t \in {"main", "writer"}
      /\ pending \in Line /\ None \notin Items
  BY ReactorAssumption DEF TInv, TypeOK, Threads, Line
<1>1. \A t \in Threads : Claims(t) => taken[t] \in Items
  BY DEF TInv, Carried, Claims
<1>2. \A t \in Threads : taken[t] # None <=> Claims(t)
  BY DEF QueuePlaces
<1>3. \A t, u \in Threads : Claims(t) /\ Claims(u) => t = u
  BY DEF OneWriter
<1>4. \A t \in Threads : Claims(t) => pc[t] # "idle"
  BY DEF Claims
<1>5. \A t \in Threads : Claims(t) => Taken = Unit(taken[t])
  <2>1. CASE Claims("writer")
    BY <1>0, <1>2, <1>3, <1>4, <2>1 DEF Taken, Unit
  <2>2. CASE ~Claims("writer")
    <3>1. taken["writer"] = None
      BY <1>0, <1>2, <2>2
    <3>2. Claims("main") => taken["main"] # None
      BY <1>0, <1>2
    <3> QED
      BY <1>0, <2>2, <3>1, <3>2 DEF Taken, Unit
  <2> QED
    BY <2>1, <2>2
<1>6. (\A t \in Threads : ~Claims(t)) => Taken = <<>>
  BY <1>0, <1>2 DEF Taken
<1>7. /\ pc["main"] = "enqueue" => Entering = Unit(sending) /\ sending \in Items
      /\ pc["main"] # "enqueue" => Entering = <<>>
  BY DEF Entering, Unit, TInv, Carried
<1>8. Taken \in Line /\ Entering \in Line
  BY <1>1, <1>5, <1>6, <1>7, Lines
<1>9. Queue = Cat(Cat(Taken, pending), Entering)
  BY DEF Queue, Cat
<1>10. Range(Queue) = Held
  <2>1. Range(Queue) = (Range(Taken) \cup Waiting) \cup Range(Entering)
    <3>1. Cat(Taken, pending) \in Line
      BY <1>0, <1>8, Lines
    <3>2. Range(Queue) = Range(Cat(Taken, pending)) \cup Range(Entering)
      BY <1>8, <1>9, <3>1, LineRanges
    <3>3. Range(Cat(Taken, pending)) = Range(Taken) \cup Range(pending)
      BY <1>0, <1>8, LineRanges
    <3> QED
      BY <3>2, <3>3 DEF Waiting
  <2>2. \A x : x \in Range(Taken) <=> \E t \in Threads : Claims(t) /\ taken[t] = x
    BY <1>3, <1>5, <1>6, LineRanges
  <2>3. \A x : x \in Range(Entering) <=> pc["main"] = "enqueue" /\ sending = x
    BY <1>7, LineRanges
  <2>4. \A x : x \in Range(Queue) <=> x \in Held
    BY <2>1, <2>2, <2>3, HeldAt
  <2> QED
    BY <2>4
<1> QED
  BY <1>0, <1>1, <1>5, <1>6, <1>7, <1>8, <1>9, <1>10 DEF QueueParts

\* The call of sendTo queues the item behind all others.
LEMMA SendToAppends ==
  ASSUME QueueParts, QueueParts', TInv, QueuePlaces, NEW i \in Items, SendTo(i)
  PROVE  Queue' = Append(Queue, i)
<1>0. /\ pc \in [Threads -> {"idle", "enqueue", "check", "pong", "take", "run", "write", "finish"}]
      /\ "main" \in Threads /\ "writer" \in Threads
  BY DEF TInv, TypeOK, Threads
<1>1. /\ pc["main"] = "idle" /\ UNCHANGED <<pending, taken>> /\ sending' = i
      /\ pc' = [pc EXCEPT !["main"] = "enqueue"]
  BY DEF SendTo
<1>2. pc'["main"] = "enqueue" /\ pc'["writer"] = pc["writer"]
  BY <1>0, <1>1
<1>3. Taken' = Taken
  BY <1>1, <1>2 DEF Taken
<1>4. Entering = <<>> /\ Entering' = Unit(i)
  BY <1>1, <1>2 DEF QueueParts
<1> DEFINE front == Cat(Taken, pending)
<1>5. front \in Line
  BY Lines DEF QueueParts
<1>6. Queue = Cat(front, <<>>) /\ Queue' = Cat(front, Unit(i))
  BY <1>1, <1>3, <1>4 DEF QueueParts
<1> HIDE DEF front
<1>7. i \in Items /\ Queue = front
  BY <1>5, <1>6, Lines
<1>8. Append(front, i) = Cat(front, Unit(i))
  BY <1>5, <1>7, Lines
<1> QED
  BY <1>6, <1>7, <1>8

\* What starts a write takes the first of the queue.
LEMMA WriteItemTakes ==
  ASSUME QueueParts, QueueParts', TInv, OneWriter, QueuePlaces,
         NEW t \in Threads, WriteItem(t)
  PROVE  /\ Queue # <<>> /\ Head(Queue) = taken[t] /\ Queue' = Tail(Queue)
         /\ Held = Held' \cup {taken[t]} /\ taken[t] \in started \ Held'
<1>0. /\ pc \in [Threads -> {"idle", "enqueue", "check", "pong", "take", "run", "write", "finish"}]
      /\ taken \in [Threads -> Items \cup {None}]
      /\ "main" \in Threads /\ \A u \in Threads : u \in {"main", "writer"}
  BY DEF TInv, TypeOK, Threads
<1>1. /\ pc[t] = "write" /\ UNCHANGED pending
      /\ pc' = [pc EXCEPT ![t] = "idle"] /\ sending' = IF t = "main" THEN None ELSE sending
  BY DEF WriteItem, Leave
<1>2. \A u \in Threads : pc'[u] = IF u = t THEN "idle" ELSE pc[u]
  BY <1>0, <1>1
<1>3. Claims(t) /\ \A u \in Threads : ~Claims(u)'
  BY <1>1, <1>2 DEF OneWriter, Claims
<1>4. Taken = Unit(taken[t]) /\ Taken' = <<>> /\ taken[t] \in Items
  BY <1>3 DEF QueueParts
<1>5. Entering' = Entering
  BY <1>0, <1>1, <1>2 DEF QueueParts
<1>6. Queue = Cat(Unit(taken[t]), Queue') /\ Queue' \in Line
  <2>1. /\ pending \in Line /\ Entering \in Line /\ Unit(taken[t]) \in Line
        /\ Queue = Cat(Cat(Unit(taken[t]), pending), Entering)
        /\ Queue' = Cat(Cat(<<>>, pending), Entering)
    BY <1>1, <1>4, <1>5, Lines DEF QueueParts
  <2>2. Queue' = Cat(pending, Entering)
    BY <2>1, Lines
  <2> QED
    BY <2>1, <2>2, Lines
<1>7. Range(Queue) = Range(Queue') \cup {taken[t]}
  <2>1. Unit(taken[t]) \in Line
    BY <1>4, Lines
  <2>2. Range(Queue) = Range(Unit(taken[t])) \cup Range(Queue')
    BY <1>6, <2>1, LineRanges
  <2> QED
    BY <2>2, LineRanges
<1>8. Held = Held' \cup {taken[t]}
  BY <1>7 DEF QueueParts
<1>9. Queue # <<>> /\ Head(Queue) = taken[t] /\ Tail(Queue) = Queue'
  BY <1>4, <1>6, HeadThenTail
<1>10. taken[t] \in started /\ taken[t] \notin Waiting
  BY <1>3 DEF QueuePlaces
<1>11. taken[t] \notin Held'
  <2>1. Waiting' = Waiting
    BY <1>1 DEF Waiting
  <2>2. pc'["main"] = "enqueue" => sending' # taken[t]
    BY <1>0, <1>1, <1>2, <1>3 DEF QueuePlaces
  <2> QED
    BY <1>3, <1>10, <2>1, <2>2 DEF Held
<1> QED
  BY <1>8, <1>9, <1>10, <1>11

\* OnDone clears m_pending when no thread has an item of it, or nothing of
\* it is left.
LEMMA ClearPendingDrops ==
  ASSUME QueueParts, QueueParts', TInv, Places, QueuePlaces, ClosingPlaces, ClearPending
  PROVE  \E n \in 0..Len(Queue) :
           /\ Queue' = SubSeq(Queue, n + 1, Len(Queue))
           /\ \A k \in 1..n : Queue[k] \in done
           /\ Held = Held' \cup {Queue[k] : k \in 1..n}
           /\ {Queue[k] : k \in 1..n} \subseteq started \ Held'
<1>0. "main" \in Threads /\ \A u \in Threads : u \in {"main", "writer"}
  BY DEF Threads
<1>1. /\ UNCHANGED <<pc, taken, sending>> /\ donePc = "pending" /\ toNotify = {}
      /\ pending' = <<>> /\ Alive
  BY DEF ClearPending, nextVars
<1>2. Taken' = Taken /\ Entering' = Entering
  BY <1>1 DEF Taken, Entering
<1>3. Waiting \subseteq done
  BY <1>1 DEF ClosingPlaces
<1>4. ASSUME NEW t \in Threads, Claims(t) PROVE pending = <<>>
  <2>1. t = "main"
    BY <1>0, <1>1, <1>4 DEF ClosingPlaces, Claims
  <2>2. ASSUME pending # <<>> PROVE FALSE
    <3>1. pending[Len(pending)] = sending
      BY <1>4, <2>1, <2>2 DEF QueuePlaces
    <3>2. pending[Len(pending)] \in Waiting
      BY <2>2, PendingShrinks DEF Places, ItemPlaces, TInv, TypeOK, Waiting
    <3> QED
      BY <1>1, <3>1, <3>2 DEF ClosingPlaces
  <2> QED
    BY <2>2
<1>5. Cat(Taken, pending) = Cat(pending, Taken)
  <2>1. CASE \E t \in Threads : Claims(t)
    BY <1>4, <2>1, Lines DEF QueueParts
  <2>2. CASE \A t \in Threads : ~Claims(t)
    BY <2>2, Lines DEF QueueParts
  <2> QED
    BY <2>1, <2>2
<1>6. Queue = Cat(pending, Queue') /\ Queue' \in Line /\ pending \in Line
  <2>1. /\ pending \in Line /\ Entering \in Line /\ Taken \in Line
        /\ Queue = Cat(Cat(pending, Taken), Entering)
        /\ Queue' = Cat(Cat(Taken, <<>>), Entering)
    BY <1>1, <1>2, <1>5 DEF QueueParts
  <2>2. Queue' = Cat(Taken, Entering)
    BY <2>1, Lines
  <2> QED
    BY <2>1, <2>2, Lines
<1>7. Range(Queue) = Range(Queue') \cup Waiting
  <2>1. Range(Queue) = Range(pending) \cup Range(Queue')
    BY <1>6, LineRanges
  <2> QED
    BY <2>1 DEF Waiting
<1>8. /\ Len(pending) \in 0..Len(Queue) /\ Queue' = SubSeq(Queue, Len(pending) + 1, Len(Queue))
      /\ {Queue[k] : k \in 1..Len(pending)} = Waiting
      /\ \A k \in 1..Len(pending) : Queue[k] \in Waiting
  <2>1. Waiting = Range(pending)
    BY DEF Waiting
  <2> DEFINE line == Cat(pending, Queue')
  <2>2. /\ Len(pending) \in 0..Len(line) /\ Queue' = SubSeq(line, Len(pending) + 1, Len(line))
        /\ {line[k] : k \in 1..Len(pending)} = Waiting
        /\ \A k \in 1..Len(pending) : line[k] \in Waiting
    BY <1>6, <2>1, FrontDropped
  <2> HIDE DEF line
  <2>3. line = Queue
    BY <1>6 DEF line
  <2> QED
    BY <2>2, <2>3
<1>9. Held = Held' \cup Waiting
  BY <1>7 DEF QueueParts
<1>10. Waiting \subseteq started \ Held'
  <2>1. Waiting \subseteq started
    BY DEF Places, ItemPlaces
  <2>2. Waiting' = {}
    BY <1>1 DEF Waiting, Range
  <2>3. ASSUME NEW x \in Waiting PROVE x \notin Held'
    <3>1. pending # <<>>
      BY <2>3 DEF Waiting, Range
    <3>2. \A t \in Threads : ~Claims(t)'
      BY <1>1, <1>4, <3>1 DEF Claims
    <3>3. pc'["main"] = "enqueue" => sending' # x
      BY <1>1, <2>3 DEF Places, SendingPlaces
    <3> QED
      BY <2>2, <3>2, <3>3 DEF Held
  <2> QED
    BY <2>1, <2>3
<1> QED
  BY <1>3, <1>8, <1>9, <1>10

\* An action that leaves m_pending, what the threads took and what sendTo
\* brings leaves the queue.
LEMMA PartsKept ==
  ASSUME QueueParts, QueueParts', pending' = pending,
         \A t \in Threads : (Claims(t)' <=> Claims(t)) /\ (Claims(t) => taken'[t] = taken[t]),
         pc'["main"] = "enqueue" <=> pc["main"] = "enqueue",
         pc["main"] = "enqueue" => sending' = sending
  PROVE  Queue' = Queue
<1>1. Taken' = Taken
  <2>1. CASE \E t \in Threads : Claims(t)
    BY <2>1 DEF QueueParts
  <2>2. CASE \A t \in Threads : ~Claims(t)
    BY <2>2 DEF QueueParts
  <2> QED
    BY <2>1, <2>2
<1>2. Entering' = Entering
  BY DEF QueueParts
<1> QED
  BY <1>1, <1>2 DEF QueueParts

\* No other action changes the queue: NextWrite and sendTo move an item from
\* one part of it to the next.
LEMMA QueueKept ==
  ASSUME TInv, OneWriter, NoPong, QueuePlaces, QueueParts, QueueParts', [Next]_vars,
         ~\E i \in Items : SendTo(i), ~\E t \in Threads : WriteItem(t), ~ClearPending
  PROVE  Queue' = Queue
<1>0. /\ pc \in [Threads -> {"idle", "enqueue", "check", "pong", "take", "run", "write", "finish"}]
      /\ taken \in [Threads -> Items \cup {None}] /\ pending \in Line
      /\ "main" \in Threads /\ "writer" \in Threads /\ \A t \in Threads : t \in {"main", "writer"}
  BY ReactorAssumption DEF TInv, TypeOK, Threads, Line
<1>1. ASSUME NEW t \in Threads, CheckWriting(t) \/ WritePong(t) PROVE Queue' = Queue
  <2>1. /\ pending' = pending
        /\ pc[t] \in {"check", "pong"}
        /\ \/ pc' = [pc EXCEPT ![t] = "idle"] /\ taken' = [taken EXCEPT ![t] = None]
              /\ sending' = IF t = "main" THEN None ELSE sending
           \/ /\ UNCHANGED <<taken, sending>>
              /\ \E l \in {"pong", "take"} : pc' = [pc EXCEPT ![t] = l]
    BY <1>1 DEF CheckWriting, WritePong, Leave, Goto
  <2>2. /\ pc'[t] \in {"idle", "pong", "take"}
        /\ \A u \in Threads : u # t => pc'[u] = pc[u] /\ taken'[u] = taken[u]
        /\ t # "main" => sending' = sending
    BY <1>0, <2>1
  <2> QED
    BY <1>0, <2>1, <2>2, PartsKept DEF Claims
<1>2. ASSUME NEW t \in Threads, TakePending(t) PROVE Queue' = Queue
  <2>1. pc[t] = "take"
    BY <1>2 DEF TakePending
  <2>2. CASE ~MayTake /\ Leave(t) /\ UNCHANGED <<pending, writing>>
    <3>1. /\ pc'[t] = "idle" /\ (t # "main" => sending' = sending)
          /\ \A u \in Threads : u # t => pc'[u] = pc[u] /\ taken'[u] = taken[u]
      BY <1>0, <2>2 DEF Leave
    <3> QED
      BY <1>0, <2>1, <2>2, <3>1, PartsKept DEF Claims
  <2>3. CASE /\ MayTake /\ pending' = Tail(pending)
             /\ taken' = [taken EXCEPT ![t] = Head(pending)]
             /\ pc' = [pc EXCEPT ![t] = "run"] /\ UNCHANGED sending
    <3>1. pc'[t] = "run" /\ taken'[t] = Head(pending)
          /\ \A u \in Threads : u # t => pc'[u] = pc[u]
      BY <1>0, <2>3
    <3>2. ~writing /\ pending # <<>>
      BY <2>3 DEF MayTake
    <3>3. \A u \in Threads : ~Claims(u)
      BY <3>2 DEF OneWriter
    <3>4. Taken = <<>> /\ Taken' = Unit(Head(pending))
      BY <3>1, <3>3 DEF QueueParts, Claims
    <3>5. Entering' = Entering
      BY <1>0, <2>1, <2>3, <3>1 DEF QueueParts
    <3>6. pending = Cat(Unit(Head(pending)), Tail(pending))
      BY <1>0, <3>2, HeadThenTail
    <3>7. Queue = Cat(Cat(<<>>, pending), Entering)
          /\ Queue' = Cat(Cat(Unit(Head(pending)), Tail(pending)), Entering)
      BY <2>3, <3>4, <3>5 DEF QueueParts
    <3>8. Cat(<<>>, pending) = pending
      BY <1>0, Lines
    <3> QED
      BY <3>6, <3>7, <3>8
  <2> QED
    BY <1>2, <2>2, <2>3 DEF TakePending
<1>3. ASSUME NEW t \in Threads, AddRunning(t) PROVE Queue' = Queue
  <2>1. UNCHANGED <<pending, taken, sending>> /\ pc[t] = "run" /\ pc' = [pc EXCEPT ![t] = "write"]
    BY <1>3 DEF AddRunning, Goto
  <2>2. \A u \in Threads : pc'[u] = IF u = t THEN "write" ELSE pc[u]
    BY <1>0, <2>1
  <2> QED
    BY <1>0, <2>1, <2>2, PartsKept DEF Claims
<1>4. CASE Enqueue
  <2>1. /\ UNCHANGED <<taken, sending>>
        /\ pending' = Append(pending, sending) /\ pc["main"] = "enqueue"
        /\ pc' = [pc EXCEPT !["main"] = "check"]
    BY <1>4 DEF Enqueue, Enqueued, Goto
  <2>2. \A u \in Threads : pc'[u] = IF u = "main" THEN "check" ELSE pc[u]
    BY <1>0, <2>1
  <2>3. Taken' = Taken
    BY <1>0, <2>1, <2>2 DEF Taken
  <2>4. Entering = Unit(sending) /\ sending \in Items /\ Entering' = <<>>
    BY <1>0, <2>1, <2>2 DEF QueueParts
  <2>5. /\ Taken \in Line /\ Unit(sending) \in Line /\ pending' = Cat(pending, Unit(sending))
        /\ Queue = Cat(Cat(Taken, pending), Unit(sending))
        /\ Queue' = Cat(Cat(Taken, pending'), <<>>)
        /\ Cat(Taken, pending') \in Line
    BY <1>0, <2>1, <2>3, <2>4, Lines DEF QueueParts
  <2>6. Queue' = Cat(Taken, Cat(pending, Unit(sending)))
    BY <2>5, Lines
  <2> QED
    BY <1>0, <2>5, <2>6, Lines
<1>5. CASE OnWriteDone \/ FinishAfterFailedWrite
  <2>1. /\ UNCHANGED <<pending, sending>> /\ pc["writer"] \in {"idle", "finish"}
        /\ \E l \in {"idle", "check", "finish"} : pc' = [pc EXCEPT !["writer"] = l]
    BY <1>5 DEF OnWriteDone, FinishAfterFailedWrite, WriteDoneLabel, Goto, Leave
  <2>2. /\ pc'["main"] = pc["main"] /\ pc'["writer"] \in {"idle", "check", "finish"}
        /\ taken'["main"] = taken["main"]
    BY <1>0, <1>5, <2>1 DEF OnWriteDone, FinishAfterFailedWrite, Goto, Leave
  <2> QED
    BY <1>0, <2>1, <2>2, PartsKept DEF Claims
<1>6. CASE \/ ReadPing \/ ReadResponse \/ NotifyHandled \/ ReadFails \/ OnDone
           \/ (\E i \in Items : NotifyClosed(i)) \/ ClearRunning \/ Client \/ UNCHANGED vars
  <2>1. UNCHANGED <<pending, sending, pc, taken>>
    BY <1>6 DEF ReadPing, ReadResponse, NotifyHandled, ReadFails, NotifyHandledBy, OnDone,
                NotifyClosed, ClearRunning, Client, vars, itemVars, nextVars
  <2> QED
    BY <2>1 DEF Queue, Taken, Entering
<1> QED
  BY <1>1, <1>2, <1>3, <1>4, <1>5, <1>6
     DEF Next, Main, Writer, Reader, Closer, NextWrite, Threads

\* What is gone stays gone, and becomes so by a write or by OnDone only.
LEMMA GoneGrows ==
  ASSUME TInv, OneWriter, NoPong, Places, QueuePlaces, ClosingPlaces, QueueParts, QueueParts',
         [Next]_vars
  PROVE  Gone \subseteq Gone'
<1>1. started \subseteq started'
  BY DEF Next, Main, Writer, Reader, Closer, NextWrite, CheckWriting, WritePong, TakePending,
         AddRunning, WriteItem, SendTo, Enqueue, OnWriteDone, FinishAfterFailedWrite, ReadPing,
         ReadResponse, NotifyHandled, NotifyHandledBy, ReadFails, OnDone, NotifyClosed,
         ClearRunning, ClearPending, Client, vars, itemVars
<1>2. ASSUME NEW i \in Items, SendTo(i) PROVE Gone \subseteq Gone'
  <2>1. Queue' = Append(Queue, i) /\ Queue \in Line /\ i \notin started
    BY <1>2, SendToAppends, Lines DEF QueueParts, SendTo
  <2>2. Queue' = Cat(Queue, Unit(i)) /\ Unit(i) \in Line
    BY <2>1, Lines
  <2>3. Range(Queue') = Range(Queue) \cup {i}
    BY <2>1, <2>2, LineRanges
  <2> QED
    BY <1>1, <2>1, <2>3 DEF Gone, QueueParts
<1>3. ASSUME NEW t \in Threads, WriteItem(t) PROVE Gone \subseteq Gone'
  BY <1>1, <1>3, WriteItemTakes DEF Gone
<1>4. CASE ClearPending
  BY <1>1, <1>4, ClearPendingDrops DEF Gone
<1>5. CASE /\ ~\E i \in Items : SendTo(i)
           /\ ~\E t \in Threads : WriteItem(t)
           /\ ~ClearPending
  <2>1. Queue' = Queue
    BY <1>5, QueueKept
  <2> QED
    BY <1>1, <2>1 DEF Gone, QueueParts
<1> QED
  BY <1>2, <1>3, <1>4, <1>5

\* What is on its way to or from the client is a sequence of items.
LEMMA StreamsOfItems ==
  ASSUME TInv, ClientPlaces
  PROVE  toClient \in Seq(Items) /\ toServer \in Seq(Items)
<1>1. Gone \subseteq Items /\ toClient \in Seq(Messages) /\ toServer \in Seq(Messages)
  BY DEF TInv, TypeOK, Gone
<1>2. Range(toClient) \subseteq Items /\ Range(toServer) \subseteq Items
  BY <1>1 DEF ClientPlaces
<1>3. toClient \in Seq(Range(toClient)) /\ toServer \in Seq(Range(toServer))
  BY <1>1, SeqOfRange
<1> QED
  BY <1>2, <1>3, SeqMonotonic

\* Every action keeps what is on its way to the client unhandled, and what is
\* on its way back handled.
LEMMA ClientPlacesNext ==
  ASSUME TInv, OneWriter, NoPong, Places, QueuePlaces, ClosingPlaces, ClientPlaces,
         QueueParts, QueueParts', pings' = 0, [Next]_vars
  PROVE  ClientPlaces'
<1>0. toClient \in Seq(Items) /\ toServer \in Seq(Items) /\ Gone \subseteq Gone'
      /\ None \notin Items /\ Pong \notin Items /\ pings \in Nat
  BY StreamsOfItems, GoneGrows, ReactorAssumption DEF TInv, TypeOK
<1>1. /\ Distinct(toClient) /\ Range(toClient) \subseteq Gone \ handled
      /\ handled \subseteq Gone /\ Range(toServer) \subseteq handled
      /\ readPc = "notify" => readItem \in handled
  BY DEF ClientPlaces
<1>2. ASSUME NEW t \in Threads, WriteItem(t) PROVE ClientPlaces'
  <2>1. /\ UNCHANGED <<readPc, readItem, toServer, handled>>
        /\ toClient' = toClient \/ toClient' = Append(toClient, taken[t])
    BY <1>2 DEF WriteItem, StartWrite, readVars
  <2>2. taken[t] \in Held /\ taken[t] \in started \ Held' /\ taken[t] \in Items
    BY <1>2, WriteItemTakes DEF TInv, Carried, WriteItem
  <2>3. taken[t] \notin Gone /\ taken[t] \in Gone'
    <3>1. started' = started
      BY <1>2 DEF WriteItem, itemVars
    <3> QED
      BY <2>2, <3>1 DEF Gone
  <2>4. CASE toClient' = toClient
    BY <1>0, <1>1, <2>1, <2>4 DEF ClientPlaces
  <2>5. CASE toClient' = Append(toClient, taken[t])
    <3>1. Distinct(toClient') /\ Range(toClient') = Range(toClient) \cup {taken[t]}
      BY <1>0, <1>1, <2>2, <2>3, <2>5, PendingGrows
    <3> QED
      BY <1>0, <1>1, <2>1, <2>3, <3>1 DEF ClientPlaces
  <2> QED
    BY <2>1, <2>4, <2>5
<1>3. CASE Client
  <2>1. UNCHANGED <<readPc, readItem>>
    BY <1>3 DEF Client, readVars
  <2>2. CASE ClientHandles
    <3> DEFINE h == Head(toClient)
    <3>1. toClient # <<>> /\ toClient' = Tail(toClient)
      BY <2>2 DEF ClientHandles
    <3>2. /\ h \in Range(toClient) /\ Distinct(Tail(toClient))
          /\ Range(Tail(toClient)) \subseteq Range(toClient) \ {h}
      BY <1>0, <1>1, <3>1, PendingShrinks
    <3>3. h \in Items /\ h # Pong /\ h \in Gone
      BY <1>0, <1>1, <3>2, RangeOfSeq
    <3>4. toServer' = Append(toServer, h) /\ handled' = handled \cup {h}
      BY <2>2, <3>3 DEF ClientHandles
    <3>5. Range(toServer') = Range(toServer) \cup {h}
      <4>1. Append(toServer, h) = Cat(toServer, Unit(h)) /\ toServer \in Line /\ Unit(h) \in Line
        BY <1>0, <3>3, Lines DEF Line
      <4> QED
        BY <3>4, <4>1, LineRanges, ZenonT(30)
    <3> HIDE DEF h
    <3> QED
      BY <1>0, <1>1, <2>1, <3>1, <3>2, <3>3, <3>4, <3>5 DEF ClientPlaces
  <2>3. CASE ClientPings
    BY <1>0, <2>3 DEF ClientPings
  <2>4. CASE ClientCloses
    BY <1>0, <1>1, <2>1, <2>4 DEF ClientCloses, ClientPlaces
  <2>5. CASE ClientIsLost
    <3>1. toClient' = <<>> /\ toServer' = <<>> /\ handled' = handled
      BY <2>5 DEF ClientIsLost
    <3>2. Distinct(toClient') /\ Range(toClient') = {} /\ Range(toServer') = {}
      BY <3>1 DEF Distinct, Range
    <3> QED
      BY <1>0, <1>1, <2>1, <3>1, <3>2 DEF ClientPlaces
  <2> QED
    BY <1>3, <2>2, <2>3, <2>4, <2>5 DEF Client
<1>4. CASE ReadPing \/ ReadResponse
  <2>1. /\ UNCHANGED <<toClient, handled>> /\ toServer # <<>> /\ toServer' = Tail(toServer)
        /\ UNCHANGED <<readPc, readItem>> \/ readItem' = Head(toServer)
    BY <1>4 DEF ReadPing, ReadResponse, readVars
  <2>2. Head(toServer) \in Range(toServer) /\ Range(Tail(toServer)) \subseteq Range(toServer)
    <3>1. /\ Head(toServer) \in Items /\ Tail(toServer) \in Line
          /\ toServer = Cat(Unit(Head(toServer)), Tail(toServer))
      BY <1>0, <2>1, HeadThenTail DEF Line
    <3>2. Unit(Head(toServer)) \in Line
      BY <3>1, Lines
    <3>3. Range(toServer) = Range(Unit(Head(toServer))) \cup Range(Tail(toServer))
      BY <3>1, <3>2, LineRanges
    <3> QED
      BY <3>3, LineRanges
  <2> QED
    BY <1>0, <1>1, <2>1, <2>2 DEF ClientPlaces
<1>5. CASE NotifyHandled \/ ReadFails
  <2>1. UNCHANGED <<toClient, toServer, handled>> /\ readPc' # "notify"
    BY <1>5 DEF NotifyHandled, ReadFails, Finish, clientVars
  <2> QED
    BY <1>0, <1>1, <2>1 DEF ClientPlaces
<1>6. CASE \/ \E t \in Threads : CheckWriting(t) \/ WritePong(t) \/ TakePending(t) \/ AddRunning(t)
           \/ (\E i \in Items : SendTo(i)) \/ Enqueue \/ OnWriteDone \/ FinishAfterFailedWrite
           \/ Closer \/ UNCHANGED vars
  <2>1. UNCHANGED <<toClient, toServer, handled, readPc, readItem>>
    BY <1>6 DEF CheckWriting, WritePong, PongOwed, NoPong, TakePending, AddRunning, SendTo,
                Enqueue, OnWriteDone, FinishAfterFailedWrite, Finish, Closer, OnDone,
                NotifyClosed, ClearRunning, ClearPending, vars, clientVars, readVars
  <2> QED
    BY <1>0, <1>1, <2>1 DEF ClientPlaces
<1> QED
  BY <1>2, <1>3, <1>4, <1>5, <1>6
     DEF Next, Main, Writer, Reader, NextWrite, Threads

\* What is held was sent.
LEMMA HeldWasSent ==
  ASSUME TInv, Places, QueuePlaces PROVE Held \subseteq started
  BY DEF Held, Places, ItemPlaces, SendingPlaces, QueuePlaces, Threads

\* The invariants of a stream whose client has sent no ping.
Quiet == /\ TInv /\ NoPong /\ OneWriter /\ Places
         /\ QueuePlaces /\ ClosingPlaces /\ ClientPlaces /\ QueueParts

\* Without pings, every action is a step of the delivery or changes nothing
\* that it speaks of.
LEMMA DeliveryStep ==
  ASSUME Quiet, QueueParts', pings' = 0, [Next]_vars
  PROVE  [Delivery!Next]_(Delivery!evars)
<1> DEFINE delivered == started \ Range(Queue)
<1>0. delivered = Gone /\ delivered' = Gone' /\ Held \subseteq started /\ started \subseteq Items
      /\ Range(Queue) = Held
  BY HeldWasSent DEF Quiet, QueueParts, Gone, TInv, TypeOK
<1>range. Delivery!Range(Queue) = Range(Queue)
  BY DEF Range, Delivery!Range
<1>1. ASSUME NEW i \in Items, SendTo(i) PROVE Delivery!Accept(i)
  <2>1. /\ i \notin started /\ started' = started \cup {i}
        /\ UNCHANGED <<handled, done, finished>> /\ Queue \in Line
    BY <1>1, Lines DEF SendTo, clientVars, Quiet, QueueParts
  <2>2. Queue' = Append(Queue, i)
    BY <1>1, SendToAppends DEF Quiet
  <2>3. Range(Queue') = Held \cup {i}
    <3>1. Queue' = Cat(Queue, Unit(i)) /\ Unit(i) \in Line
      BY <2>1, <2>2, Lines
    <3> QED
      BY <1>0, <2>1, <3>1, LineRanges
  <2>4. delivered' = delivered
    BY <1>0, <2>1, <2>3
  <2>5. i \notin Range(Queue) \cup delivered
    BY <1>0, <2>1
  <2> QED
    BY <1>range, <2>1, <2>2, <2>4, <2>5 DEF Delivery!Accept
<1>2. ASSUME NEW t \in Threads, WriteItem(t) PROVE Delivery!Deliver
  <2>1. /\ Queue # <<>> /\ Head(Queue) = taken[t] /\ Queue' = Tail(Queue)
        /\ Held = Held' \cup {taken[t]} /\ taken[t] \in started \ Held'
    BY <1>2, WriteItemTakes DEF Quiet
  <2>2. UNCHANGED <<started, handled, done, finished>>
    BY <1>2 DEF WriteItem, StartWrite, itemVars
  <2>3. delivered' = delivered \cup {Head(Queue)}
    BY <1>0, <2>1, <2>2 DEF Gone
  <2> QED
    BY <2>1, <2>2, <2>3 DEF Delivery!Deliver
<1>3. CASE ClearPending
  <2>1. UNCHANGED <<started, handled, done, finished>> /\ finished
    BY <1>3 DEF ClearPending, itemVars, clientVars, Quiet, ClosingPlaces
  <2>2. PICK n \in 0..Len(Queue) :
          /\ Queue' = SubSeq(Queue, n + 1, Len(Queue))
          /\ \A k \in 1..n : Queue[k] \in done
          /\ Held = Held' \cup {Queue[k] : k \in 1..n}
          /\ {Queue[k] : k \in 1..n} \subseteq started \ Held'
    BY <1>3, ClearPendingDrops DEF Quiet
  <2>3. delivered' = delivered \cup {Queue[k] : k \in 1..n}
    BY <1>0, <2>1, <2>2 DEF Gone
  <2>4. Delivery!Drop
    BY <2>1, <2>2, <2>3 DEF Delivery!Drop
  <2> QED
    BY <2>4 DEF Delivery!Next
<1>4. CASE /\ ~\E i \in Items : SendTo(i)
           /\ ~\E t \in Threads : WriteItem(t)
           /\ ~ClearPending
  <2>1. Queue' = Queue
    BY <1>4, QueueKept DEF Quiet
  <2>2. started' = started
    BY <1>4 DEF Next, Main, Writer, Reader, Closer, NextWrite, CheckWriting, WritePong,
       TakePending, AddRunning, Enqueue, OnWriteDone, FinishAfterFailedWrite, ReadPing,
       ReadResponse, NotifyHandled, NotifyHandledBy, ReadFails, OnDone, NotifyClosed,
       ClearRunning, Client, vars, itemVars, Threads
  <2>3. Queue' = Queue /\ delivered' = delivered
    BY <2>1, <2>2
  <2>4. CASE Client
    <3>1. UNCHANGED <<done, finished>>
      BY <2>4 DEF Client, itemVars
    <3>2. CASE ClientHandles
      <4> DEFINE h == Head(toClient)
      <4>1. toClient # <<>> /\ h \in Range(toClient)
        <5>1. toClient # <<>> /\ toClient \in Seq(Items) /\ Distinct(toClient)
          BY <3>2, StreamsOfItems DEF ClientHandles, Quiet, ClientPlaces
        <5> QED
          BY <5>1, PendingShrinks
      <4>2. h \in Gone \ handled /\ h \in Items /\ h # Pong
        BY <1>0, <4>1, ReactorAssumption DEF Quiet, ClientPlaces, Gone
      <4>3. handled' = handled \cup {h}
        BY <3>2, <4>2 DEF ClientHandles
      <4>4. Delivery!Handle(h)
        BY <1>0, <2>3, <3>1, <4>2, <4>3 DEF Delivery!Handle
      <4> QED
        BY <4>2, <4>4 DEF Delivery!Next
    <3>3. CASE ClientPings \/ ClientCloses \/ ClientIsLost
      BY <2>3, <3>1, <3>3 DEF ClientPings, ClientCloses, ClientIsLost, Delivery!evars
    <3> QED
      BY <2>4, <3>2, <3>3 DEF Client
  <2>5. CASE NotifyHandled
    <3>1. /\ done' = done \cup {readItem} /\ readItem \in Items /\ readItem \in handled
          /\ UNCHANGED <<handled, finished>>
      BY <2>5 DEF NotifyHandled, NotifyHandledBy, clientVars, Quiet, TInv, Carried, ClientPlaces
    <3>2. Delivery!Settle(readItem)
      BY <2>3, <3>1 DEF Delivery!Settle
    <3> QED
      BY <3>1, <3>2 DEF Delivery!Next
  <2>6. ASSUME NEW i \in Items, NotifyClosed(i) PROVE Delivery!Settle(i)
    <3>1. /\ i \in toNotify /\ done' = done \cup {i} /\ UNCHANGED <<handled, finished>>
      BY <2>6 DEF NotifyClosed, NotifyHandledBy, clientVars
    <3>2. finished /\ i \in started
      BY <3>1 DEF Quiet, ClosingPlaces, Places, ItemPlaces
    <3>3. i \in Delivery!Range(Queue) \cup delivered
      BY <1>range, <3>2
    <3> QED
      BY <2>3, <3>1, <3>2, <3>3 DEF Delivery!Settle
  <2>7. CASE ReadFails \/ FinishAfterFailedWrite
    <3>1. finished' = TRUE /\ UNCHANGED <<handled, done>>
      BY <2>7 DEF ReadFails, FinishAfterFailedWrite, Finish, clientVars, itemVars
    <3>2. Delivery!End
      BY <2>3, <3>1 DEF Delivery!End
    <3> QED
      BY <3>2 DEF Delivery!Next
  <2>8. CASE \/ \E t \in Threads : CheckWriting(t) \/ WritePong(t) \/ TakePending(t) \/ AddRunning(t)
             \/ Enqueue \/ OnWriteDone \/ ReadPing \/ ReadResponse \/ OnDone \/ ClearRunning
             \/ UNCHANGED vars
    <3>1. UNCHANGED <<handled, done, finished>>
      BY <2>8 DEF CheckWriting, WritePong, StartWrite, TakePending, AddRunning, Enqueue,
                  OnWriteDone, ReadPing, ReadResponse, OnDone, ClearRunning, vars, clientVars,
                  itemVars
    <3> QED
      BY <2>3, <3>1 DEF Delivery!evars
  <2> QED
    BY <1>4, <2>4, <2>5, <2>6, <2>7, <2>8
       DEF Next, Main, Writer, Reader, Closer, NextWrite, Threads, Delivery!Next
<1> QED
  BY <1>1, <1>2, <1>3, <1>4 DEF Delivery!Next

\* At first nothing was accepted.
LEMMA DeliveryInit == Init => Delivery!Init
<1> SUFFICES ASSUME Init PROVE Delivery!Init
  OBVIOUS
<1>1. Taken = <<>> /\ Entering = <<>> /\ pending = <<>>
  BY DEF Init, Taken, Entering, Threads
<1>2. Queue = <<>>
  BY <1>1 DEF Queue
<1> QED
  BY <1>2 DEF Init, Delivery!Init

\* Every action keeps the places of the items, as long as no ping was sent.
LEMMA RefinementNext == TInv /\ WInv /\ CInv /\ RInv /\ [Next]_vars => RInv'
<1> SUFFICES ASSUME TInv, WInv, CInv, RInv, [Next]_vars, pings' = 0
             PROVE  QueuePlaces' /\ ClosingPlaces' /\ ClientPlaces'
  BY DEF RInv
<1>1. pings = 0
  <2>1. pings \in Nat
    BY ReactorAssumption DEF TInv, TypeOK
  <2>2. pings' = pings \/ pings' = pings + 1
    BY DEF Next, Main, Writer, Reader, Closer, NextWrite, CheckWriting, WritePong, TakePending,
       AddRunning, WriteItem, StartWrite, SendTo, Enqueue, OnWriteDone, FinishAfterFailedWrite,
       Finish, ReadPing, ReadResponse, NotifyHandled, ReadFails, OnDone, NotifyClosed,
       ClearRunning, ClearPending, Client, ClientHandles, ClientPings, ClientCloses,
       ClientIsLost, clientVars, vars
  <2> QED
    BY <2>1, <2>2
<1>2. NoPong /\ OneWriter /\ Places /\ QueuePlaces /\ ClosingPlaces /\ ClientPlaces
  BY <1>1 DEF WInv, CInv, RInv
<1>3. QueuePlaces' /\ ClosingPlaces'
  BY <1>2, QueuePlacesNext, ClosingPlacesNext
<1>4. QueueParts
  BY <1>2, QueueIsHeld
<1>5. TInv' /\ WInv'
  BY TypeNext, WriteNext
<1>6. OneWriter'
  BY <1>5 DEF WInv
<1>7. QueueParts'
  BY <1>3, <1>5, <1>6, QueueIsHeld, PTL
<1>8. ClientPlaces'
  BY <1>2, <1>4, <1>7, ClientPlacesNext
<1> QED
  BY <1>3, <1>8

\* As long as its client sends no ping, a stream delivers: events leave in the
\* order in which sendTo was called, each once, and the control that raised one
\* goes on only when the client has run its handlers or the stream has ended.
THEOREM DeliversWithoutPings == Spec /\ [](pings = 0) => DeliverySpec
<1> DEFINE AllInv == TInv /\ WInv /\ CInv /\ RInv
<1>1. AllInv /\ pings = 0 => Quiet
  BY QueueIsHeld DEF WInv, CInv, RInv, Quiet
<1>2. Quiet => QueueParts
  BY DEF Quiet
<1>3. Quiet /\ QueueParts' /\ (pings = 0)' /\ [Next]_vars => [Delivery!Next]_(Delivery!evars)
  BY DeliveryStep
<1>4. Init => AllInv
  BY TypeInit, WriteInit, PlacesInit, RefinementInit
<1>5. AllInv /\ [Next]_vars => AllInv'
  BY TypeNext, WriteNext, PlacesNext, RefinementNext
<1> HIDE DEF AllInv
<1> QED
  BY <1>1, <1>2, <1>3, <1>4, <1>5, DeliveryInit, PTL DEF Spec, DeliverySpec, Delivery!Spec

\* In particular when the client may send none.
COROLLARY DeliversIfNoPings ==
  ASSUME MaxPings = 0 PROVE Spec => DeliverySpec
<1>1. TInv => pings = 0
  BY DEF TInv, TypeOK
<1> QED
  BY <1>1, TypeInit, TypeNext, DeliversWithoutPings, PTL DEF Spec
================================================================================
