------------------------------ MODULE InboundCall ------------------------------
(***************************************************************************)
(* The life of a unary call in the server, with cancellation.  A gRPC      *)
(* thread builds the InboundReactor, which schedules an InboundItem; the   *)
(* main thread executes the item and calls Finish on the reactor; another  *)
(* gRPC thread may run OnCancel at any moment; OnDone deletes the reactor  *)
(* once Finish was called and OnCancel is not running.                     *)
(*                                                                         *)
(* The item's QPromise carries the flags Started and Canceled: start has   *)
(* no effect on a canceled promise.  The gRPC library is external: a       *)
(* second Finish aborts the process, and so does an exception that leaves  *)
(* a callback or the event loop; a deleted reactor takes its request with  *)
(* it.  How a waiting event changes the order of execution is EventSlot's  *)
(* subject: here the main thread takes the calls in order of arrival.      *)
(***************************************************************************)
EXTENDS Naturals, Sequences, Functions

CONSTANTS Calls,   \* the calls clients make
          None,
          Throws   \* calls whose conversion of values throws when executed

ASSUME CallAssumption == None \notin Calls /\ Throws \subseteq Calls

VARIABLES
  arrived,            \* calls whose reactor was created
  queue,              \* scheduled items the main thread has not taken
  started, canceled,  \* flags of the items' promises
  current, pc,        \* the item Executor::execute works on, and where
  effects,            \* calls whose operation was applied to the control
  cancelPc,           \* OnCancel, per call
  status,             \* what Finish was called with first
  deleted,            \* reactors deleted by OnDone
  fault               \* why the process ended

vars == <<arrived, queue, started, canceled, current, pc, effects, cancelPc,
          status, deleted, fault>>

NoFault == [kind |-> "none", call |-> None]
Alive == fault = NoFault
FaultKinds == {"second_finish", "use_after_delete", "uncaught_exception"}

Init ==
  /\ arrived = {} /\ queue = <<>>
  /\ started = {} /\ canceled = {}
  /\ current = None /\ pc = "idle" /\ effects = {}
  /\ cancelPc = [c \in Calls |-> "idle"]
  /\ status = [c \in Calls |-> "none"]
  /\ deleted = {} /\ fault = NoFault

Fail(kind, c) == fault' = [kind |-> kind, call |-> c]

(* ServerUnaryReactor::Finish *)
Finish(c, s) ==
  \/ /\ c \in deleted
     /\ Fail("use_after_delete", c)
     /\ UNCHANGED status
  \/ /\ c \notin deleted /\ status[c] # "none"
     /\ Fail("second_finish", c)
     /\ UNCHANGED status
  \/ /\ c \notin deleted /\ status[c] = "none"
     /\ status' = [status EXCEPT ![c] = s]
     /\ UNCHANGED fault

-----------------------------------------------------------------------------
(* The constructor of InboundReactor.  Executor::schedule queues the item,  *)
(* drops it when its context is an event the server does not know, and      *)
(* throws when the context is neither DEFAULT nor EVENT.                    *)

Schedule(c) ==
  /\ Alive
  /\ c \notin arrived
  /\ arrived' = arrived \cup {c}
  /\ \/ queue' = Append(queue, c) /\ UNCHANGED fault
     \/ UNCHANGED <<queue, fault>>
     \/ Fail("uncaught_exception", c) /\ UNCHANGED queue
  /\ UNCHANGED <<started, canceled, current, pc, effects, cancelPc, status, deleted>>

-----------------------------------------------------------------------------
(* The main thread: Executor::execute. *)

\* An item canceled before this test is skipped.
Skips(c) == c \in canceled

Take ==
  /\ Alive
  /\ pc = "idle" /\ queue # <<>>
  /\ queue' = Tail(queue)
  /\ IF Skips(Head(queue)) THEN UNCHANGED <<current, pc>>
     ELSE current' = Head(queue) /\ pc' = "start"
  /\ UNCHANGED <<arrived, started, canceled, effects, cancelPc, status, deleted, fault>>

\* QPromise::start, ignored once the promise is canceled.
Start ==
  /\ Alive
  /\ pc = "start"
  /\ started' = started \cup ({current} \ canceled)
  /\ pc' = "work"
  /\ UNCHANGED <<arrived, queue, canceled, current, effects, cancelPc, status,
                 deleted, fault>>

\* The operation itself reads the request and applies it to the control; only
\* the calls into the control are inside a try block.  Conversions of the
\* arguments throw before the control is called, of the result after it.
Work ==
  /\ Alive
  /\ pc = "work"
  /\ \/ /\ current \in deleted
        /\ Fail("use_after_delete", current)
        /\ UNCHANGED <<effects, pc>>
     \/ /\ current \notin deleted /\ current \in Throws
        /\ Fail("uncaught_exception", current)
        /\ effects' \in {effects, effects \cup {current}}
        /\ UNCHANGED pc
     \/ /\ current \notin deleted /\ current \notin Throws
        /\ effects' = effects \cup {current}
        /\ pc' = "finish"
        /\ UNCHANGED fault
  /\ UNCHANGED <<arrived, queue, started, canceled, current, cancelPc, status, deleted>>

AnswerUncanceled ==
  IF current \in canceled THEN UNCHANGED <<status, fault>>
  ELSE Finish(current, "result")
AnswerResult == Finish(current, "result")

Returned == pc' = "idle" /\ current' = None

\* The reactor's Finish, then item->finish().
Answer ==
  /\ Alive
  /\ pc = "finish"
  /\ AnswerResult
  /\ Returned
  /\ UNCHANGED <<arrived, queue, started, canceled, effects, cancelPc, deleted>>

-----------------------------------------------------------------------------
(* The gRPC threads: OnCancel in two steps, OnDone. *)

OnCancel(c) ==
  /\ Alive
  /\ c \in arrived \ deleted /\ cancelPc[c] = "idle"
  /\ canceled' = canceled \cup {c}
  /\ cancelPc' = [cancelPc EXCEPT ![c] = "test"]
  /\ UNCHANGED <<arrived, queue, started, current, pc, effects, status, deleted, fault>>

\* OnCancel finishes a call whose execution has not started.
CancelFinishesAny(c) == TRUE
CancelFinishesNone(c) == FALSE
CancelFinishes(c) == c \notin started

OnCancelTest(c) ==
  /\ Alive
  /\ cancelPc[c] = "test"
  /\ cancelPc' = [cancelPc EXCEPT ![c] = "over"]
  /\ \/ ~CancelFinishes(c) /\ UNCHANGED <<status, fault>>
     \/ CancelFinishes(c) /\ Finish(c, "cancelled")
  /\ UNCHANGED <<arrived, queue, started, canceled, current, pc, effects, deleted>>

OnDone(c) ==
  /\ Alive
  /\ c \in arrived \ deleted
  /\ status[c] # "none" /\ cancelPc[c] # "test"
  /\ deleted' = deleted \cup {c}
  /\ UNCHANGED <<arrived, queue, started, canceled, current, pc, effects,
                 cancelPc, status, fault>>

-----------------------------------------------------------------------------

Main == Take \/ Start \/ Work \/ Answer

Next ==
  \/ Main
  \/ \E c \in Calls : Schedule(c) \/ OnCancel(c) \/ OnCancelTest(c) \/ OnDone(c)

Spec == Init /\ [][Next]_vars

\* The main thread and a callback that has begun go on; a client need not
\* call or cancel.
Fairness ==
  /\ WF_vars(Main)
  /\ \A c \in Calls : WF_vars(OnCancelTest(c)) /\ WF_vars(OnDone(c))

FairSpec == Spec /\ Fairness

-----------------------------------------------------------------------------
(* Properties. *)

TypeOK ==
  /\ arrived \subseteq Calls /\ queue \in Seq(arrived)
  /\ started \subseteq arrived /\ canceled \subseteq arrived
  /\ current \in arrived \cup {None} /\ pc \in {"idle", "start", "work", "finish"}
  /\ effects \subseteq arrived
  /\ cancelPc \in [Calls -> {"idle", "test", "over"}]
  /\ status \in [Calls -> {"none", "result", "cancelled"}]
  /\ deleted \subseteq arrived
  /\ fault = NoFault \/ fault \in [kind : FaultKinds, call : Calls]

\* A call whose execution started before it was canceled is finished once, on
\* a reactor that still exists, however OnCancel interleaves: only a
\* cancellation between the test and the start of execute can break this.
StartedFinishesOnce ==
  /\ fault.kind \in {"second_finish", "use_after_delete"} =>
       fault.call \in canceled \ started
  /\ current \in deleted => current \in canceled \ started

\* A client that was told CANCELLED can rely on the call having had no
\* effect, unless the server is still executing it or died of it.
CancelledHasNoEffect ==
  \A c \in Calls :
    status[c] = "cancelled" /\ c \in effects => c \in {current, fault.call}

\* Every scheduled call gets a status, as long as the process lives.
CallEnds ==
  \A c \in Calls :
    c \in Range(queue) ~> status[c] # "none" \/ ~Alive
================================================================================
