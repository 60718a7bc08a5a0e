------------------------------ MODULE ClientSession ------------------------------
(***************************************************************************)
(* A client from the store: AxServeClientStore starts a server process and *)
(* opens a client for the first caller of instance(), and gives the same   *)
(* client to all later ones.  close() stops the event loop, closes the     *)
(* stream and the channel and ends the process, in this order; whatever    *)
(* raises on the way leaves the rest undone.                               *)
(*                                                                         *)
(* The client is synchronous or asynchronous.  Tasks of the asynchronous   *)
(* one are interrupted only where they await, and awaiting the loop's task *)
(* raises what the loop raised; a thread that is joined raises nothing.    *)
(* One thread or task closes the client; its handlers may try to.          *)
(***************************************************************************)
EXTENDS EventLoop

CONSTANTS Callers,      \* threads or tasks that call instance()
          Nobody,       \* owner of a free lock
          MaxLaunches,  \* bound: server processes started
          MaxCloses     \* bound: calls of close()

ASSUME SessionAssumption ==
  Nobody \notin Callers /\ MaxLaunches \in Nat /\ MaxCloses \in Nat

VARIABLES
  aio,               \* is the client asynchronous?  (constant)
  caller,            \* per caller: where it is in instance()
  given,             \* per caller: the client it was given, or 0
  storeLock, stored, \* _clients_lock, and the client in _clients, or 0
  launched,          \* processes started
  process, channel, stream,  \* of the client: "none", "up" or "closed"
  closing,           \* where close() is
  closes,            \* calls of close()
  failed             \* the loop ended with an exception or was cancelled

storeVars == <<caller, given, storeLock, stored, launched>>
closeVars == <<process, channel, stream, closing, closes>>
sessionVars == <<vars, aio, storeVars, closeVars, failed>>

SessionInit ==
  /\ Init
  /\ aio \in BOOLEAN
  /\ caller = [c \in Callers |-> "idle"] /\ given = [c \in Callers |-> 0]
  /\ storeLock = Nobody /\ stored = 0 /\ launched = 0
  /\ process = "none" /\ channel = "none" /\ stream = "none"
  /\ closing = "no" /\ closes = 0 /\ failed = FALSE

-----------------------------------------------------------------------------
(* AxServeClientStore.instance. *)

At(c, here, there) == caller[c] = here /\ caller' = [caller EXCEPT ![c] = there]
IsGiven(c) == given' = [given EXCEPT ![c] = stored']

Instance(c) ==
  /\ \/ /\ stored # 0 /\ At(c, "idle", "done")
        /\ UNCHANGED stored /\ IsGiven(c)
     \/ /\ stored = 0 /\ At(c, "idle", "waiting")
        /\ UNCHANGED <<stored, given>>
  /\ UNCHANGED <<vars, aio, storeLock, launched, closeVars, failed>>

Acquire(c) ==
  /\ storeLock = Nobody /\ At(c, "waiting", "locked")
  /\ storeLock' = c
  /\ UNCHANGED <<vars, aio, given, stored, launched, closeVars, failed>>

\* The test under the lock.
StillMissingAlways == TRUE
StillMissing == stored = 0

Found(c) ==
  /\ ~StillMissing /\ At(c, "locked", "done")
  /\ storeLock' = Nobody
  /\ UNCHANGED stored /\ IsGiven(c)
  /\ UNCHANGED <<vars, aio, launched, closeVars, failed>>

Launch(c) ==
  /\ StillMissing /\ launched < MaxLaunches /\ At(c, "locked", "opening")
  /\ launched' = launched + 1
  /\ process' = "up" /\ channel' = "up"
  /\ UNCHANGED <<vars, aio, given, storeLock, stored, stream, closing, closes, failed>>

\* The channel gets ready in time: the stream and the loop are started.
Opens(c) ==
  /\ At(c, "opening", "done")
  /\ stream' = "up"
  /\ Start
  /\ stored' = launched /\ IsGiven(c)
  /\ storeLock' = Nobody
  /\ UNCHANGED <<aio, launched, process, channel, closing, closes, failed>>

\* It does not: instance() raises, and the process ends with its job object,
\* which only the exception still refers to.
OpenFails(c) ==
  /\ At(c, "opening", "raised")
  /\ process' = "none" /\ channel' = "none"
  /\ storeLock' = Nobody
  /\ UNCHANGED <<vars, aio, given, stored, launched, stream, closing, closes, failed>>

\* Entering the context of the client starts its loop unless it runs.
Enter ==
  /\ channel = "up" /\ stream = "up" /\ closing = "no" /\ ~isRunning
  /\ Start
  /\ UNCHANGED <<aio, storeVars, closeVars, failed>>

Store ==
  \E c \in Callers :
    Instance(c) \/ Acquire(c) \/ Found(c) \/ Launch(c) \/ Opens(c) \/ OpenFails(c)

-----------------------------------------------------------------------------
(* AxServeClient.close. *)

\* Without an await in between, nothing else runs in the asynchronous client:
\* neither in stop() before the ping and after it, nor until exec has begun.
StopRuns == aio /\ user \in {"exit", "clear"}
LoopStarts == aio /\ loop \in {"tested", "called"}

MayClose == closing \in {"no", "raised", "expired"} /\ closes < MaxCloses

Close ==
  /\ MayClose /\ ~LoopStarts
  /\ closes' = closes + 1
  /\ closing' = "stopping"
  /\ Stop
  /\ UNCHANGED <<aio, storeVars, process, channel, stream, failed>>

\* The loop has been stopped by an earlier call of close().
CloseAgain ==
  /\ MayClose /\ closes' = closes + 1
  /\ user = "stopped"
  /\ closing' = "stream"
  /\ UNCHANGED <<vars, aio, storeVars, process, channel, stream, failed>>

JoinRaisesAlways == failed
JoinRaises == aio /\ failed

Joined ==
  /\ closing = "stopping" /\ ~JoinRaises
  /\ Join
  /\ closing' = "stream"
  /\ UNCHANGED <<aio, storeVars, process, channel, stream, closes, failed>>

\* What stop() raises leaves _event_loop_exec_task set and the rest undone.
JoinFails ==
  /\ closing = "stopping" /\ JoinRaises
  /\ user = "join" /\ loop = "ended"
  /\ user' = "started"
  /\ closing' = "raised"
  /\ UNCHANGED <<loopVars, toServer, serverVars, aio, storeVars, process, channel,
                 stream, closes, failed>>

\* asyncio.timeout interrupts the await of the loop's task and cancels it.
StopExpires ==
  /\ aio /\ closing = "stopping"
  /\ user = "join" /\ loop # "ended"
  /\ user' = "started" /\ closing' = "expired"
  /\ failed' = TRUE
  /\ LeaveExec
  /\ toServer' = IF current = None THEN toServer ELSE Append(toServer, current)
  /\ current' = None
  /\ UNCHANGED <<eventLoop, serverVars, aio, storeVars, process, channel, stream, closes>>

\* The asynchronous client waits for it, and may be interrupted there.
CloseStream ==
  /\ closing = "stream"
  /\ stream' = "closed"
  /\ closing' \in IF aio THEN {"channel", "expired"} ELSE {"channel"}
  /\ UNCHANGED <<vars, aio, storeVars, process, channel, closes, failed>>

CloseChannel ==
  /\ closing = "channel"
  /\ channel' = "closed"
  /\ closing' = "process"
  /\ UNCHANGED <<vars, aio, storeVars, process, stream, closes, failed>>

\* The process is terminated; waiting for it may take too long.
Terminate ==
  /\ closing = "process"
  /\ process' = "closed"
  /\ closing' \in {"closed", "expired"}
  /\ UNCHANGED <<vars, aio, storeVars, channel, stream, closes, failed>>

-----------------------------------------------------------------------------
(* The event loop's steps, in the session. *)

StopStep ==
  /\ ~LoopStarts
  /\ ExitTests \/ SendPing \/ Clear
  /\ UNCHANGED <<aio, storeVars, closeVars, failed>>

LoopStep ==
  /\ ~StopRuns
  /\ \/ /\ TargetTests \/ TargetCalls \/ EnterExec \/ Receive \/ HandlerStops \/ HandlerReturns
        /\ UNCHANGED failed
     \/ HandlerRaises /\ failed' = TRUE
     \/ ReceiveFails /\ failed' = TRUE
  /\ UNCHANGED <<aio, storeVars, closeVars>>

ServerStep ==
  /\ process = "up" /\ channel = "up" /\ stream # "none"
  /\ Server
  /\ UNCHANGED <<aio, storeVars, closeVars, failed>>

CloseStep ==
  Joined \/ JoinFails \/ CloseStream \/ CloseChannel \/ Terminate

SessionNext ==
  \/ Store \/ Enter
  \/ Close \/ CloseAgain \/ CloseStep \/ StopExpires
  \/ StopStep \/ LoopStep \/ ServerStep

SessionSpec == SessionInit /\ [][SessionNext]_sessionVars

\* What has been begun goes on; nobody need ask for a client, close it or
\* raise an event, and a timeout need not expire.
SessionFairness ==
  /\ WF_sessionVars(StopStep) /\ WF_sessionVars(LoopStep) /\ WF_sessionVars(CloseStep)
  /\ WF_sessionVars(ServerStep /\ OnWriteDone) /\ WF_sessionVars(ServerStep /\ OnReadDone)

SessionFairSpec == SessionSpec /\ SessionFairness

-----------------------------------------------------------------------------
(* Properties. *)

\* All callers of instance() are given one client, whichever of them opens it
\* and whoever fails to before.
OneClient ==
  \A c, d \in Callers : given[c] # 0 /\ given[d] # 0 => given[c] = given[d]

\* When the channel goes down no handler is running, the stream has been
\* closed, and no later event of this client is begun.
ClosedQuietly ==
  channel = "closed" => loop \in {"none", "ended"} /\ current = None /\ stream = "closed"

\* close() returns or raises, but for the two ways in which stop() waits for
\* ever, and has then ended the server; only in the asynchronous client may
\* the server go on, if the loop had raised or was cancelled, when no later
\* call ends it either, or if the time ran out.
CloseEndsServer ==
  closing = "stopping" ~>
    \/ /\ closing \in {"closed", "expired", "raised"}
       /\ process = "closed" \/ (aio /\ (failed \/ closing = "expired"))
    \/ []ExitMissed \/ []PongHeld
================================================================================
