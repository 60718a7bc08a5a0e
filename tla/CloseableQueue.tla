---------------------------- MODULE CloseableQueue ----------------------------
(***************************************************************************)
(* CloseableQueue of axserve.common: a queue.Queue that can be closed.     *)
(* Every method holds the one mutex of the queue from its first line to    *)
(* its return or its wait on one of the two conditions, so what lies       *)
(* between is one step: Begin runs a method up to there, Resume runs it    *)
(* on from the wait.  The conditions and the mutex are the library's: a    *)
(* notify takes any one of the threads that wait on the condition, and a   *)
(* notified thread runs some time later, when others may have used the     *)
(* queue in between.                                                       *)
(*                                                                         *)
(* A time-out of zero is mode "now".  unfinished_tasks is not modelled:    *)
(* nobody joins these queues.                                              *)
(***************************************************************************)
EXTENDS Naturals, Sequences, FiniteSets

CONSTANTS Putters, Getters, Closers,   \* the threads that may call each method
          Items,                       \* each is offered once
          MaxSize,                     \* 0: no limit
          None

Threads == Putters \union Getters \union Closers

ASSUME QueueAssumption ==
  MaxSize \in Nat /\ None \notin Items /\ IsFiniteSet(Threads)

(* block and timeout: not blocking, blocking without and with a time-out   *)
Modes == {"now", "forever", "timed", "negative"}

PutCalls ==
  [op : {"put"}, mode : Modes, item : Items, immediate : {FALSE}, idempotent : {FALSE}]
GetCalls ==
  [op : {"get"}, mode : Modes, item : {None}, immediate : {FALSE}, idempotent : {FALSE}]
CloseCalls ==
  [op : {"close"}, mode : Modes, item : {None}, immediate : BOOLEAN, idempotent : BOOLEAN]

Calls == PutCalls \union GetCalls \union CloseCalls

Idle == [op |-> "none", mode |-> "now", item |-> None,
         immediate |-> FALSE, idempotent |-> FALSE]

VARIABLES
  buffer, closed,
  phase,    \* of each thread: "idle", "waiting" on a condition, "woken" from it
  call,     \* the method that waits
  expired,  \* threads whose time-out is over
  offered,  \* items some put was called with
  ended     \* a get has raised Closed

vars == <<buffer, closed, phase, call, expired, offered, ended>>

Init ==
  /\ buffer = <<>> /\ closed = FALSE
  /\ phase = [t \in Threads |-> "idle"]
  /\ call = [t \in Threads |-> Idle]
  /\ expired = {} /\ offered = {} /\ ended = FALSE

(* the calls a thread may make next *)
MayCall(t) ==
  {c \in PutCalls : t \in Putters /\ c.item \notin offered}
    \union {c \in GetCalls : t \in Getters}
    \union {c \in CloseCalls : t \in Closers}

Full == MaxSize > 0 /\ Len(buffer) >= MaxSize
Empty == buffer = <<>>

(* who waits on not_full and on not_empty, and who was woken from there *)
AtFull(p) == {t \in Threads : phase[t] = p /\ call[t].op \in {"put", "close"}}
AtEmpty(p) == {t \in Threads : phase[t] = p /\ call[t].op = "get"}

(* notify(): one waiter if there is any *)
OneOf(S) == IF S = {} THEN {{}} ELSE {{t} : t \in S}

--------------------------------------------------------------------------------
(* The tests of the methods.                                               *)

(* if self._closed, before any wait *)
RefusedNever(c) == FALSE
Refused(c) == closed /\ c.op \in {"put", "close"}

(* timeout < 0: looked at only where a time-out could matter *)
BadTimeout(c) == c.mode = "negative" /\ (c.op = "get" \/ MaxSize > 0)

(* the condition of the while loops, or of the test that replaces them *)
Blocked(c) ==
  \/ c.op = "get" /\ Empty /\ (closed => c.mode = "now")
  \/ c.op = "put" /\ Full
  \/ c.op = "close" /\ Full /\ (c.immediate => c.mode = "timed")

(* raise Full or Empty instead of waiting *)
GivesUpNow(t, c) == c.mode = "now"
GivesUp(t, c) == c.mode = "now" \/ (c.mode = "timed" /\ t \in expired)

--------------------------------------------------------------------------------
(* The ends of a method.  The thread leaves, N is notified.                *)

Leave(t, N) ==
  /\ phase' = [u \in Threads |->
                 IF u = t THEN "idle" ELSE IF u \in N THEN "woken" ELSE phase[u]]
  /\ call' = [call EXCEPT ![t] = Idle]
  /\ expired' = expired \ {t}

Raise(t) == Leave(t, {}) /\ UNCHANGED <<buffer, closed, ended>>

Wait(t, c) ==
  /\ phase' = [phase EXCEPT ![t] = "waiting"]
  /\ call' = [call EXCEPT ![t] = c]
  /\ UNCHANGED <<buffer, closed, expired, ended>>

WokenByPut == OneOf(AtEmpty("waiting"))

PutItem(t, c) ==
  /\ buffer' = Append(buffer, c.item)
  /\ \E N \in WokenByPut : Leave(t, N)
  /\ UNCHANGED <<closed, ended>>

WokenByGetNobody == {{}}
WokenByGet == OneOf(AtFull("waiting"))

GetItem(t) ==
  /\ buffer # <<>>
  /\ buffer' = Tail(buffer)
  /\ \E N \in WokenByGet : Leave(t, N)
  /\ UNCHANGED <<closed, ended>>

RaiseClosed(t) ==
  /\ closed /\ Empty
  /\ ended' = TRUE
  /\ Leave(t, {})
  /\ UNCHANGED <<buffer, closed>>

WokenByCloseOne(c) == OneOf(AtEmpty("waiting"))
WokenByClose(c) ==
  {AtEmpty("waiting") \union IF c.immediate THEN AtFull("waiting") ELSE {}}

Close(t, c) ==
  /\ closed' = TRUE
  /\ \E N \in WokenByClose(c) : Leave(t, N)
  /\ UNCHANGED <<buffer, ended>>

(* from the loop on, with the mutex held *)
Loop(t, c) ==
  \/ Blocked(c) /\ ~GivesUp(t, c) /\ Wait(t, c)
  \/ Blocked(c) /\ GivesUp(t, c) /\ ~c.immediate /\ Raise(t)
  \/ /\ Blocked(c) => GivesUp(t, c) /\ c.immediate
     /\ \/ c.op = "put" /\ PutItem(t, c)
        \/ c.op = "get" /\ (GetItem(t) \/ RaiseClosed(t))
        \/ c.op = "close" /\ Close(t, c)

--------------------------------------------------------------------------------
Begin(t) == \E c \in MayCall(t) :
  /\ phase[t] = "idle"
  /\ offered' = offered \union ({c.item} \ {None})
  /\ \/ (Refused(c) \/ BadTimeout(c)) /\ Raise(t)
     \/ ~Refused(c) /\ ~BadTimeout(c) /\ Loop(t, c)

Resume(t) ==
  /\ phase[t] = "woken"
  /\ Loop(t, call[t])
  /\ UNCHANGED offered

(* the time-out of a waiting call is over; a thread that was notified      *)
(* before may find it so as well                                           *)
Expire(t) ==
  /\ phase[t] # "idle" /\ call[t].mode = "timed" /\ t \notin expired
  /\ expired' = expired \union {t}
  /\ phase' = [phase EXCEPT ![t] = "woken"]
  /\ UNCHANGED <<buffer, closed, call, offered, ended>>

Next == \E t \in Threads : Begin(t) \/ Resume(t) \/ Expire(t)

Spec == Init /\ [][Next]_vars

(* a thread that was woken gets the mutex, and time goes on *)
Fairness == \A t \in Threads : WF_vars(Resume(t)) /\ WF_vars(Expire(t))

FairSpec == Spec /\ Fairness

--------------------------------------------------------------------------------
(* Types of the state; only a call that can wait is kept, and only a timed *)
(* one can have expired.                                                   *)
TypeOK ==
  /\ buffer \in Seq(Items) /\ (MaxSize > 0 => Len(buffer) <= MaxSize)
  /\ closed \in BOOLEAN /\ ended \in BOOLEAN
  /\ phase \in [Threads -> {"idle", "waiting", "woken"}]
  /\ call \in [Threads -> Calls \union {Idle}]
  /\ \A t \in Threads : (phase[t] = "idle") <=> (call[t] = Idle)
  /\ expired \subseteq {t \in Threads : call[t].mode = "timed"}
  /\ offered \subseteq Items

(* Nobody sleeps on not_empty of a closed queue: close notifies all of     *)
(* them, and get tests _closed before each wait.                           *)
CloseFreesGetters == closed => AtEmpty("waiting") = {}

(* A get sleeps only while every item of the queue has a woken get that is *)
(* on its way to it: notify() once per put is enough, whoever else takes   *)
(* items in between and whoever gives up.                                  *)
ItemsHaveTakers ==
  AtEmpty("waiting") # {} => Cardinality(AtEmpty("woken")) >= Len(buffer)

(* The same for room, until the queue is closed.  A close that waits on    *)
(* not_full takes a notification and leaves the room unused, so a put may  *)
(* sleep beside free room afterwards (closeable_queue.py:129).             *)
RoomHasTakers ==
  ~closed /\ AtFull("waiting") # {}
    => Cardinality(AtFull("woken")) + Len(buffer) >= MaxSize

(* No wake-up is lost, on either condition.                                *)
WakeupsSuffice == ItemsHaveTakers /\ RoomHasTakers

(* Every get of a closed queue returns, and so does every call with a      *)
(* time-out.                                                               *)
CallsEnd == \A t \in Threads :
  (call[t].mode = "timed" \/ (call[t].op = "get" /\ closed)) ~> (phase[t] = "idle")

(* puts that wait: they found the queue open when they began *)
EarlyPuts == {t \in Threads : call[t].op = "put"}

Fifo == INSTANCE ClosableFifo WITH early <- EarlyPuts

(* The queue keeps the promise of ClosableFifo: order, nothing taken twice *)
(* or made up, and what may still enter after close.                       *)
FifoSpec == Fifo!Spec
================================================================================
