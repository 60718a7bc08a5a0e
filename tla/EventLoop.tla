-------------------------------- MODULE EventLoop --------------------------------
(***************************************************************************)
(* The event loop of a synchronous client: AxServeEventLoop runs in a      *)
(* thread that AxServeEventLoopManager starts, takes events off the        *)
(* stream, runs their handlers and answers.  stop() asks the server for a  *)
(* pong, on which the loop returns, and joins the thread.  The server's    *)
(* end of the stream is here with what stop() depends on: when a ping is   *)
(* answered.  NextWrite is one step; how its parts interleave is           *)
(* OutboundReactor's subject.                                              *)
(*                                                                         *)
(* A client starts its loop once and stops it once; a later client has a   *)
(* manager and a stream of its own.                                        *)
(***************************************************************************)
EXTENDS Naturals, Sequences, Functions

CONSTANTS MaxEvents   \* bound: events the server raises for this client

ASSUME LoopAssumption == MaxEvents \in Nat

Pong == 0             \* also stands for the client's ping; events are 1, 2, ...
None == MaxEvents + 1

VARIABLES
  loop,                     \* where the loop's thread is
  current,                  \* the event being handled
  eventLoop,                \* _event_loop: none, the one the thread runs, or another
  isRunning, isExitting,    \* of the AxServeEventLoop
  user,                     \* where the thread is that starts and stops
  toServer, toClient,       \* the stream
  raised,                   \* events raised so far
  answers,                  \* events answered, in the order of the answers
  pending, writing, pongs,  \* of the OutboundReactor
  outstanding,              \* the write that is under way, or None
  broken                    \* a second write was started meanwhile

loopVars == <<loop, current, eventLoop, isRunning, isExitting>>
serverVars == <<toClient, raised, answers, pending, writing, pongs, outstanding, broken>>
vars == <<loopVars, user, toServer, serverVars>>

Events == 1..MaxEvents

Init ==
  /\ loop = "none" /\ current = None
  /\ eventLoop = "none" /\ isRunning = FALSE /\ isExitting = FALSE
  /\ user = "idle" /\ toServer = <<>> /\ toClient = <<>>
  /\ raised = 0 /\ answers = <<>>
  /\ pending = <<>> /\ writing = FALSE /\ pongs = 0
  /\ outstanding = None /\ broken = FALSE

--------------------------------------------------------------------------------
(* The thread that starts and stops.                                       *)

Start ==
  /\ user \in {"idle", "started"}
  /\ user' = "started"
  /\ eventLoop' = IF eventLoop # "none" THEN eventLoop
                  ELSE IF loop = "none" THEN "first" ELSE "later"
  /\ loop' = IF loop = "none" THEN "new" ELSE loop
  /\ UNCHANGED <<current, isRunning, isExitting, toServer, serverVars>>

(* exit() of a loop that no thread runs has no effect *)
Stop ==
  /\ user = "started"
  /\ user' = CASE eventLoop = "first" -> "exit"
               [] eventLoop = "later" -> "clear"
               [] eventLoop = "none"  -> "join"
  /\ UNCHANGED <<loopVars, toServer, serverVars>>

(* the tests of exit(), under _state_lock *)
MayPingEarly == ~isExitting
MayPing == isRunning /\ ~isExitting

ExitTests ==
  /\ user = "exit"
  /\ isExitting' = (isExitting \/ MayPing)
  /\ user' = IF MayPing THEN "ping" ELSE "clear"
  /\ UNCHANGED <<loop, current, eventLoop, isRunning, toServer, serverVars>>

SendPing ==
  /\ user = "ping"
  /\ toServer' = Append(toServer, Pong)
  /\ user' = "clear"
  /\ UNCHANGED <<loopVars, serverVars>>

Clear ==
  /\ user = "clear"
  /\ eventLoop' = "none"
  /\ user' = "join"
  /\ UNCHANGED <<loop, current, isRunning, isExitting, toServer, serverVars>>

JoinableAlways == TRUE
Joinable == loop \in {"none", "ended"}

Join ==
  /\ user = "join" /\ Joinable
  /\ user' = "stopped"
  /\ UNCHANGED <<loopVars, toServer, serverVars>>

--------------------------------------------------------------------------------
(* The loop's thread.                                                      *)

(* _event_loop_exec_target reads _event_loop twice, stop() may clear it    *)
TargetTests ==
  /\ loop = "new"
  /\ loop' = IF eventLoop # "none" THEN "tested" ELSE "ended"
  /\ UNCHANGED <<current, eventLoop, isRunning, isExitting, user, toServer, serverVars>>

TargetCalls ==
  /\ loop = "tested"
  /\ loop' = IF eventLoop # "none" THEN "called" ELSE "ended"
  /\ UNCHANGED <<current, eventLoop, isRunning, isExitting, user, toServer, serverVars>>

EnterExec ==
  /\ loop = "called"
  /\ loop' = "receiving" /\ isRunning' = TRUE /\ isExitting' = FALSE
  /\ UNCHANGED <<current, eventLoop, user, toServer, serverVars>>

(* exec returns or raises *)
LeaveExec ==
  loop' = "ended" /\ isRunning' = FALSE /\ isExitting' = FALSE

Receive ==
  /\ loop = "receiving" /\ toClient # <<>>
  /\ toClient' = Tail(toClient)
  /\ \/ /\ Head(toClient) = Pong
        /\ LeaveExec
        /\ UNCHANGED current
     \/ /\ Head(toClient) # Pong
        /\ loop' = "handling" /\ current' = Head(toClient)
        /\ UNCHANGED <<isRunning, isExitting>>
  /\ UNCHANGED <<eventLoop, user, toServer, raised, answers, pending, writing,
                 pongs, outstanding, broken>>

(* the stream fails: RpcError leaves exec *)
ReceiveFails ==
  /\ loop = "receiving" /\ broken
  /\ LeaveExec
  /\ UNCHANGED <<current, eventLoop, user, toServer, serverVars>>

(* a handler calls stop() of its own client: all of it but the join, which *)
(* raises RuntimeError in the loop's own thread                            *)
HandlerStops ==
  /\ loop = "handling" /\ eventLoop = "first"
  /\ loop' = "raising"
  /\ eventLoop' = "none"
  /\ isExitting' = (isExitting \/ MayPing)
  /\ toServer' = IF MayPing THEN Append(toServer, Pong) ELSE toServer
  /\ UNCHANGED <<current, isRunning, user, serverVars>>

(* the finally clause of _create_handle_event_context *)
AnswersReturned(how) == IF how = "returns" THEN <<current>> ELSE <<>>
Answers(how) == <<current>>

Answer(how) ==
  /\ toServer' = toServer \o Answers(how)
  /\ current' = None
  /\ UNCHANGED <<eventLoop, user, serverVars>>

HandlerReturns ==
  /\ loop = "handling"
  /\ Answer("returns")
  /\ loop' = "receiving"
  /\ UNCHANGED <<isRunning, isExitting>>

HandlerRaises ==
  /\ loop \in {"handling", "raising"}
  /\ Answer("raises")
  /\ LeaveExec

--------------------------------------------------------------------------------
(* The server's end.                                                       *)

(* StartWrite while another write is under way breaks the stream *)
StartWrite(m, under) ==
  /\ outstanding' = m
  /\ broken' = (under # None)

Busy(isWriting) == isWriting

(* NextWrite, with the write under that is under way, m_writing and        *)
(* m_pending as the caller leaves them                                     *)
NextWrite(under, isWriting, items) ==
  \/ /\ Busy(isWriting)
     /\ outstanding' = under
     /\ writing' = isWriting /\ pending' = items
     /\ UNCHANGED <<pongs, broken>>
  \/ /\ ~Busy(isWriting) /\ pongs > 0
     /\ StartWrite(Pong, under)
     /\ pongs' = pongs - 1
     /\ writing' = isWriting /\ pending' = items
  \/ /\ ~Busy(isWriting) /\ pongs = 0 /\ items # <<>>
     /\ StartWrite(Head(items), under)
     /\ writing' = TRUE /\ pending' = Tail(items)
     /\ UNCHANGED pongs
  \/ /\ ~Busy(isWriting) /\ pongs = 0 /\ items = <<>>
     /\ outstanding' = under
     /\ writing' = isWriting /\ pending' = items
     /\ UNCHANGED <<pongs, broken>>

Send ==
  /\ ~broken /\ raised < MaxEvents
  /\ raised' = raised + 1
  /\ NextWrite(outstanding, writing, Append(pending, raised'))
  /\ UNCHANGED <<loopVars, user, toServer, toClient, answers>>

WritingAfter == FALSE

OnWriteDone ==
  /\ ~broken /\ outstanding # None
  /\ toClient' = Append(toClient, outstanding)
  /\ NextWrite(None, WritingAfter, pending)
  /\ UNCHANGED <<loopVars, user, toServer, raised, answers>>

PongsUnchanged == pongs
PongsAfterPing == pongs + 1

OnReadDone ==
  /\ ~broken /\ toServer # <<>>
  /\ toServer' = Tail(toServer)
  /\ \/ /\ Head(toServer) = Pong
        /\ pongs' = PongsAfterPing
        /\ UNCHANGED answers
     \/ /\ Head(toServer) # Pong
        /\ answers' = Append(answers, Head(toServer))
        /\ UNCHANGED pongs
  /\ UNCHANGED <<loopVars, user, toClient, raised, pending, writing, outstanding, broken>>

Server == Send \/ OnWriteDone \/ OnReadDone

--------------------------------------------------------------------------------
(* Types of the state; at most one pong is ever owed.                      *)
TypeOK ==
  /\ loop \in {"none", "new", "tested", "called", "receiving", "handling",
               "raising", "ended"}
  /\ current \in Events \union {None}
  /\ eventLoop \in {"none", "first", "later"} /\ isRunning \in BOOLEAN /\ isExitting \in BOOLEAN
  /\ user \in {"idle", "started", "exit", "ping", "clear", "join", "stopped"}
  /\ toServer \in Seq(Events \union {Pong}) /\ toClient \in Seq(Events \union {Pong})
  /\ raised \in 0..MaxEvents /\ answers \in Seq(Events)
  /\ pending \in Seq(Events) /\ writing \in BOOLEAN /\ pongs \in 0..1
  /\ outstanding \in Events \union {Pong, None} /\ broken \in BOOLEAN

(* A ping or the pong that answers it is somewhere in the stream *)
PongUnderWay ==
  Pong \in Range(toServer) \union Range(toClient) \/ pongs > 0 \/ outstanding = Pong

(* A pong is on its way only to a loop that was asked to exit, or to none: *)
(* a loop that nobody stops never returns on a pong.                       *)
PongMeansExit == PongUnderWay => isExitting \/ loop = "ended"

(* Where the messages are, from the oldest event to the latest: answered,  *)
(* answer sent, being handled, received, being written, waiting.           *)
One(m) == IF m = None THEN <<>> ELSE <<m>>
Places == answers \o (toServer \o (One(current) \o
            (toClient \o (One(outstanding) \o pending))))

(* s has the events 1 to n, each once and in order, and perhaps pongs      *)
InOrder(s, n) ==
  /\ \A i, j \in DOMAIN s : i < j /\ s[i] # Pong /\ s[j] # Pong => s[i] < s[j]
  /\ Range(s) \ {Pong} = 1..n

(* Every event is in one place on its way to the client or back, and in    *)
(* the order of raising.  A handler that raises is answered for like one   *)
(* that returns.                                                           *)
EventsInOrder == ~broken => InOrder(Places, raised)

(* exit() found the loop not running yet, and the loop runs now *)
ExitMissed == isRunning /\ ~isExitting /\ user = "join"

(* the ping arrived when no write was under way, and starts none itself *)
PongHeld == pongs > 0 /\ outstanding = None
================================================================================
