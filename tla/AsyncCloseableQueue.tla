-------------------------- MODULE AsyncCloseableQueue --------------------------
(***************************************************************************)
(* AsyncCloseableQueue of axserve.aio: an asyncio.Queue that can be        *)
(* closed.  Tasks run one at a time; a method runs to its return or to the *)
(* await of a future it has put at the end of _putters or _getters.        *)
(* _wakeup_next takes futures off the front and completes the first one    *)
(* that is not done; the task that awaits it runs some time later.  A task *)
(* may be cancelled while it waits: that cancels its future, or, if the    *)
(* future is done already, raises in the task when it runs.                *)
(* _unfinished_tasks is not modelled: nobody joins these queues.           *)
(***************************************************************************)
EXTENDS Naturals, Sequences, FiniteSets, SequencesExt

CONSTANTS Putters, Getters, Closers,   \* the tasks that may call each method
          Items,                       \* each is offered once
          MaxSize,                     \* 0: no limit
          None

Tasks == Putters \union Getters \union Closers

ASSUME AsyncQueueAssumption ==
  IsFiniteSet(Tasks) /\ MaxSize \in Nat /\ None \notin Items

(* with wait FALSE: put_nowait, get_nowait, close_nowait *)
Calls ==
  [op : {"put"}, item : Items, wait : BOOLEAN]
    \union [op : {"get", "close"}, item : {None}, wait : BOOLEAN]

Idle == [op |-> "none", item |-> None, wait |-> FALSE]

VARIABLES
  buffer, closed,
  putters, getters,   \* the futures that wait, named by their tasks
  future,             \* of each task: "none", "pending", "done", "cancelled"
  call,               \* the method that awaits the future
  mustCancel,         \* tasks cancelled after their future was done
  offered,            \* items some put was called with
  ended,              \* a get has raised QueueClosed
  leftAsleep          \* getters that close_nowait did not wake

vars == <<buffer, closed, putters, getters, future, call, mustCancel, offered,
          ended, leftAsleep>>

Init ==
  /\ buffer = <<>> /\ closed = FALSE
  /\ putters = <<>> /\ getters = <<>>
  /\ future = [t \in Tasks |-> "none"]
  /\ call = [t \in Tasks |-> Idle]
  /\ mustCancel = {} /\ offered = {} /\ ended = FALSE /\ leftAsleep = {}

MayCall(t) ==
  {c \in Calls :
     /\ c.op = "put"   => t \in Putters /\ c.item \notin offered
     /\ c.op = "get"   => t \in Getters
     /\ c.op = "close" => t \in Closers}

Full == MaxSize > 0 /\ Len(buffer) >= MaxSize
Empty == buffer = <<>>

--------------------------------------------------------------------------------
(* asyncio's _wakeup_next *)
FirstPending(waiters) == SelectInSeq(waiters, LAMBDA t : future[t] = "pending")

Woken(waiters) ==
  IF FirstPending(waiters) = 0 THEN {} ELSE {waiters[FirstPending(waiters)]}

AfterWakeup(waiters) ==
  IF FirstPending(waiters) = 0 THEN <<>>
  ELSE SubSeq(waiters, FirstPending(waiters) + 1, Len(waiters))

(* t returns or raises; the futures of the tasks in N are completed *)
Leave(t, N) ==
  /\ future' = [u \in Tasks |->
                  IF u = t THEN "none" ELSE IF u \in N THEN "done" ELSE future[u]]
  /\ call' = [call EXCEPT ![t] = Idle]
  /\ mustCancel' = mustCancel \ {t}

Raise(t) ==
  Leave(t, {}) /\ UNCHANGED <<buffer, closed, putters, getters, ended, leftAsleep>>

(* the condition of the while loops *)
MustWaitOpen(c) ==
  c.wait /\ IF c.op = "get" THEN Empty ELSE Full
MustWait(c) ==
  c.wait /\ IF c.op = "get" THEN ~closed /\ Empty ELSE Full

Await(t, c) ==
  /\ MustWait(c)
  /\ IF c.op = "get"
     THEN getters' = Append(getters, t) /\ UNCHANGED putters
     ELSE putters' = Append(putters, t) /\ UNCHANGED getters
  /\ future' = [future EXCEPT ![t] = "pending"]
  /\ call' = [call EXCEPT ![t] = c]
  /\ UNCHANGED <<buffer, closed, mustCancel, ended, leftAsleep>>

PutRefusedNever == FALSE
PutRefused == closed

PutNowait(t, c) ==
  \/ (PutRefused \/ Full) /\ Raise(t)
  \/ /\ ~PutRefused /\ ~Full
     /\ buffer' = Append(buffer, c.item)
     /\ getters' = AfterWakeup(getters)
     /\ Leave(t, Woken(getters))
     /\ UNCHANGED <<closed, putters, ended, leftAsleep>>

GetNowait(t) ==
  \/ /\ Empty
     /\ ended' = (ended \/ closed)
     /\ Leave(t, {})
     /\ UNCHANGED <<buffer, closed, putters, getters, leftAsleep>>
  \/ /\ ~Empty
     /\ buffer' = Tail(buffer)
     /\ putters' = AfterWakeup(putters)
     /\ Leave(t, Woken(putters))
     /\ UNCHANGED <<closed, getters, ended, leftAsleep>>

CloseNowait(t) ==
  /\ closed' = TRUE
  /\ getters' = AfterWakeup(getters)
  /\ Leave(t, Woken(getters))
  /\ leftAsleep' = {u \in Range(getters') : future[u] = "pending"}
  /\ UNCHANGED <<buffer, putters, ended>>

(* from the loop on *)
Loop(t, c) ==
  \/ Await(t, c)
  \/ /\ ~MustWait(c)
     /\ \/ c.op = "put" /\ PutNowait(t, c)
        \/ c.op = "get" /\ GetNowait(t)
        \/ c.op = "close" /\ CloseNowait(t)

(* the except clause: leave the line, and pass a wake-up on that cannot be *)
(* used                                                                    *)
PassOnNever(t) == FALSE
PassOn(t) == future[t] # "cancelled" /\ IF call[t].op = "get" THEN ~Empty ELSE ~Full

Abandon(t) ==
  LET line == IF call[t].op = "get" THEN getters ELSE putters
      left == RemoveFirst(line, t)
  IN  /\ Leave(t, IF PassOn(t) THEN Woken(left) ELSE {})
      /\ IF call[t].op = "get"
         THEN /\ getters' = IF PassOn(t) THEN AfterWakeup(left) ELSE left
              /\ UNCHANGED putters
         ELSE /\ putters' = IF PassOn(t) THEN AfterWakeup(left) ELSE left
              /\ UNCHANGED getters
      /\ UNCHANGED <<buffer, closed, ended, leftAsleep>>

--------------------------------------------------------------------------------
Begin(t) == \E c \in MayCall(t) :
  /\ call[t] = Idle
  /\ offered' = offered \union ({c.item} \ {None})
  /\ Loop(t, c)

Resume(t) ==
  /\ future[t] = "done" /\ t \notin mustCancel
  /\ Loop(t, call[t])
  /\ UNCHANGED offered

ResumeCancelled(t) ==
  /\ future[t] = "cancelled" \/ t \in mustCancel
  /\ Abandon(t)
  /\ UNCHANGED offered

(* Task.cancel on a task that waits *)
Cancel(t) ==
  /\ \/ /\ future[t] = "pending"
        /\ future' = [future EXCEPT ![t] = "cancelled"]
        /\ UNCHANGED mustCancel
     \/ /\ future[t] = "done" /\ t \notin mustCancel
        /\ mustCancel' = mustCancel \union {t}
        /\ UNCHANGED future
  /\ UNCHANGED <<buffer, closed, putters, getters, call, offered, ended, leftAsleep>>

Next == \E t \in Tasks : Begin(t) \/ Resume(t) \/ ResumeCancelled(t) \/ Cancel(t)

Spec == Init /\ [][Next]_vars

(* the event loop runs every task whose future is done *)
Fairness == \A t \in Tasks : WF_vars(Resume(t)) /\ WF_vars(ResumeCancelled(t))

FairSpec == Spec /\ Fairness

--------------------------------------------------------------------------------
Asleep(op) == {t \in Tasks : future[t] = "pending" /\ call[t].op \in op}
Awake(op) == {t \in Tasks : future[t] = "done" /\ call[t].op \in op}

(* Types of the state; a task has a future exactly while it is in a call,  *)
(* and only a done one is cancelled without its future.                    *)
TypeOK ==
  /\ buffer \in Seq(Items) /\ (MaxSize > 0 => Len(buffer) <= MaxSize)
  /\ closed \in BOOLEAN /\ ended \in BOOLEAN
  /\ future \in [Tasks -> {"none", "pending", "done", "cancelled"}]
  /\ call \in [Tasks -> Calls \union {Idle}]
  /\ \A t \in Tasks : (future[t] = "none") <=> (call[t] = Idle)
  /\ mustCancel \subseteq {t \in Tasks : future[t] = "done"}
  /\ offered \subseteq Items

(* Before the queue is closed a get sleeps only while every item has a     *)
(* task on its way to it, cancelled ones counted: they pass their wake-up  *)
(* on.                                                                     *)
ItemsHaveTakers ==
  ~closed /\ Asleep({"get"}) # {} => Cardinality(Awake({"get"})) >= Len(buffer)

(* The same for room and put.  After close it is not so: close waits among *)
(* the putters, takes a wake-up and leaves the room unused, and a put that *)
(* finds the queue closed does not pass its wake-up on.                    *)
RoomHasTakers ==
  ~closed /\ Asleep({"put", "close"}) # {}
    => Cardinality(Awake({"put", "close"})) + Len(buffer) >= MaxSize

(* No wake-up is lost on an open queue, whoever is cancelled.              *)
WakeupsSuffice == ItemsHaveTakers /\ RoomHasTakers

(* close_nowait wakes one getter only.  Those it leaves stay asleep, but   *)
(* no other get falls asleep on a closed queue.                            *)
OnlyLeftAsleep == closed => Asleep({"get"}) \subseteq leftAsleep

(* A task that waits in put goes on while there is room in the queue.  It  *)
(* is so as long as nobody closes the queue (async_closeable_queue.py:48). *)
PutGoesOn == \A t \in Tasks :
  (call[t].op = "put" /\ ~Full) ~> (call[t].op # "put" \/ Full)

Fifo == INSTANCE ClosableFifo WITH Threads <- Tasks, early <- {}

(* The queue keeps the promise of ClosableFifo, and more: no put enters    *)
(* anything after close, whenever it began.                                *)
FifoSpec == Fifo!Spec
================================================================================
