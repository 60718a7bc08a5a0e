-------------------------- MODULE ClientSession_proofs --------------------------
(***************************************************************************)
(* Proofs about ClientSession, for any callers, both clients and any       *)
(* bounds: that all callers are given one client, that the channel goes    *)
(* down quietly, that a pong is on its way only to a loop that was asked   *)
(* to exit, and that events stay in order on their way and back.           *)
(***************************************************************************)
EXTENDS ClientSession, SequenceTheorems, TLAPS

-----------------------------------------------------------------------------
(* OneClient.  The lock of the store is held from the test that finds no   *)
(* client to the storing of the one that was opened, so that the stored    *)
(* client is replaced by none: what a caller was given is what is stored.  *)

StoreInv ==
  /\ caller \in [Callers -> {"idle", "waiting", "locked", "opening", "done", "raised"}]
  /\ \A c \in Callers : caller[c] \in {"locked", "opening"} => storeLock = c
  /\ \A c \in Callers : caller[c] = "opening" => stored = 0
  /\ DOMAIN given = Callers
  /\ \A c \in Callers : given[c] # 0 => given[c] = stored

\* At first nothing is stored and no caller is under way.
LEMMA StoreInit == SessionInit => StoreInv
  BY DEF SessionInit, StoreInv

\* A caller's step moves that caller alone.
LEMMA AtMoves ==
  ASSUME StoreInv, NEW c \in Callers, NEW here,
         NEW there \in {"idle", "waiting", "locked", "opening", "done", "raised"},
         At(c, here, there)
  PROVE  /\ caller' \in [Callers -> {"idle", "waiting", "locked", "opening", "done", "raised"}]
         /\ \A d \in Callers : caller'[d] = IF d = c THEN there ELSE caller[d]
         /\ caller[c] = here
  BY DEF At, StoreInv

\* What a caller is given is what is stored then.
LEMMA GivenMoves ==
  ASSUME StoreInv, NEW c \in Callers, IsGiven(c)
  PROVE  /\ DOMAIN given' = Callers
         /\ \A d \in Callers : given'[d] = IF d = c THEN stored' ELSE given[d]
  BY DEF IsGiven, StoreInv

\* Every step keeps it.
LEMMA StoreNext == StoreInv /\ [SessionNext]_sessionVars => StoreInv'
<1> SUFFICES ASSUME StoreInv, [SessionNext]_sessionVars PROVE StoreInv'
  OBVIOUS
<1>0. \A c \in Callers : c # Nobody
  BY SessionAssumption
<1>1. ASSUME NEW c \in Callers, Instance(c) PROVE StoreInv'
  <2>1. CASE stored # 0 /\ At(c, "idle", "done") /\ UNCHANGED stored /\ IsGiven(c)
    BY <1>1, <2>1, AtMoves, GivenMoves DEF Instance, StoreInv
  <2>2. CASE At(c, "idle", "waiting") /\ UNCHANGED <<stored, given>>
    BY <1>1, <2>2, AtMoves DEF Instance, StoreInv
  <2> QED
    BY <1>1, <2>1, <2>2 DEF Instance
<1>2. ASSUME NEW c \in Callers, Acquire(c) PROVE StoreInv'
  BY <1>0, <1>2, AtMoves DEF Acquire, StoreInv
<1>3. ASSUME NEW c \in Callers, Found(c) PROVE StoreInv'
  BY <1>0, <1>3, AtMoves, GivenMoves DEF Found, StoreInv
<1>4. ASSUME NEW c \in Callers, Launch(c) PROVE StoreInv'
  BY <1>4, AtMoves DEF Launch, StillMissing, StoreInv
<1>5. ASSUME NEW c \in Callers, Opens(c) PROVE StoreInv'
  <2>1. stored = 0 /\ storeLock = c /\ \A d \in Callers : given[d] = 0
    BY <1>5, AtMoves DEF Opens, StoreInv
  <2>2. \A d \in Callers : caller'[d] \notin {"locked", "opening"}
    BY <1>5, <2>1, AtMoves DEF Opens, StoreInv
  <2>3. DOMAIN given' = Callers /\ \A d \in Callers : given'[d] # 0 => given'[d] = stored'
    BY <1>5, <2>1, GivenMoves DEF Opens
  <2> QED
    BY <1>5, <2>2, <2>3, AtMoves DEF Opens, StoreInv
<1>6. ASSUME NEW c \in Callers, OpenFails(c) PROVE StoreInv'
  BY <1>6, AtMoves DEF OpenFails, StoreInv
<1>7. CASE UNCHANGED storeVars
  BY <1>7 DEF storeVars, StoreInv
<1>8. CASE \/ Enter \/ Close \/ CloseAgain \/ CloseStep \/ StopExpires
           \/ StopStep \/ LoopStep \/ ServerStep \/ UNCHANGED sessionVars
  <2>1. UNCHANGED storeVars
    BY <1>8 DEF Enter, Close, CloseAgain, CloseStep, StopExpires, StopStep, LoopStep, ServerStep,
                Joined, JoinFails, CloseStream, CloseChannel, Terminate, sessionVars
  <2> QED
    BY <1>7, <2>1
<1> QED
  BY <1>1, <1>2, <1>3, <1>4, <1>5, <1>6, <1>8 DEF SessionNext, Store

\* All callers of instance() are given one client.
THEOREM OneClientForAll == SessionSpec => []OneClient
<1>1. StoreInv => OneClient
  BY DEF StoreInv, OneClient
<1> QED
  BY <1>1, StoreInit, StoreNext, PTL DEF SessionSpec

-----------------------------------------------------------------------------
(* ClosedQuietly.  close() goes on to the stream and the channel only when *)
(* stop() has joined the loop, after which nothing starts it again; while  *)
(* it was in a handler it could not be joined.                             *)

LoopQuiet ==
  /\ eventLoop \in {"none", "first", "later"}
  /\ user = "stopped" => loop \in {"none", "ended"}
  /\ current # None => loop \in {"handling", "raising"}

CloseOrder ==
  /\ closing \in {"stream", "channel", "process", "closed"} => user = "stopped"
  /\ closing \in {"channel", "process", "closed"} => stream = "closed"
  /\ channel = "closed" => user = "stopped" /\ stream = "closed"

QuietInv == LoopQuiet /\ CloseOrder

\* At first the loop was not started and nothing is open.
LEMMA QuietInit == SessionInit => QuietInv
  BY DEF SessionInit, Init, QuietInv, LoopQuiet, CloseOrder

\* The loop stays quiet: whatever the store, close() and the server do.
LEMMA LoopStaysQuiet == LoopQuiet /\ [SessionNext]_sessionVars => LoopQuiet'
<1> SUFFICES ASSUME LoopQuiet, [SessionNext]_sessionVars PROVE LoopQuiet'
  OBVIOUS
<1>1. CASE Start
  BY <1>1 DEF Start, LoopQuiet
<1>2. CASE Stop
  BY <1>2 DEF Stop, LoopQuiet, loopVars
<1>3. CASE Join
  BY <1>3 DEF Join, Joinable, LoopQuiet, loopVars
<1>4. CASE StopStep
  BY <1>4 DEF StopStep, ExitTests, SendPing, Clear, LoopQuiet, loopVars
<1>5. CASE LoopStep
  <2>1. CASE TargetTests \/ TargetCalls \/ EnterExec \/ ReceiveFails \/ HandlerStops
    BY <2>1 DEF TargetTests, TargetCalls, EnterExec, ReceiveFails, HandlerStops, LeaveExec, LoopQuiet
  <2>2. CASE Receive
    BY <2>2 DEF Receive, LeaveExec, LoopQuiet
  <2>3. CASE HandlerReturns \/ HandlerRaises
    BY <2>3 DEF HandlerReturns, HandlerRaises, Answer, LeaveExec, LoopQuiet
  <2> QED
    BY <1>5, <2>1, <2>2, <2>3 DEF LoopStep
<1>6. CASE JoinFails \/ StopExpires
  BY <1>6 DEF JoinFails, StopExpires, LeaveExec, LoopQuiet, loopVars
<1>7. CASE ServerStep
  BY <1>7 DEF ServerStep, Server, Send, OnWriteDone, OnReadDone, LoopQuiet, loopVars
<1>8. CASE UNCHANGED vars
  BY <1>8 DEF vars, loopVars, LoopQuiet
<1>9. CASE Store
  BY <1>1, <1>8, <1>9 DEF Store, Instance, Acquire, Found, Launch, Opens, OpenFails
<1>10. CASE Enter \/ Close \/ CloseAgain \/ CloseStep
  BY <1>1, <1>2, <1>3, <1>6, <1>8, <1>10
     DEF Enter, Close, CloseAgain, CloseStep, Joined, CloseStream, CloseChannel, Terminate
<1> QED
  BY <1>4, <1>5, <1>6, <1>7, <1>8, <1>9, <1>10 DEF SessionNext, sessionVars

\* So does the order in which things are closed.
LEMMA CloseStaysOrdered == CloseOrder /\ [SessionNext]_sessionVars => CloseOrder'
<1> SUFFICES ASSUME CloseOrder, [SessionNext]_sessionVars PROVE CloseOrder'
  OBVIOUS
<1>1. CASE Store
  <2>1. PICK c \in Callers :
          Instance(c) \/ Acquire(c) \/ Found(c) \/ Launch(c) \/ Opens(c) \/ OpenFails(c)
    BY <1>1 DEF Store
  <2>2. CASE Instance(c) \/ Acquire(c) \/ Found(c)
    BY <2>2 DEF Instance, Acquire, Found, vars, closeVars, CloseOrder
  <2>3. CASE Launch(c) \/ OpenFails(c)
    BY <2>3 DEF Launch, OpenFails, vars, CloseOrder
  <2>4. CASE Opens(c)
    BY <2>4 DEF Opens, Start, CloseOrder
  <2> QED
    BY <2>1, <2>2, <2>3, <2>4
<1>2. CASE Enter
  BY <1>2 DEF Enter, Start, closeVars, CloseOrder
<1>3. CASE Close \/ CloseAgain
  BY <1>3 DEF Close, CloseAgain, Stop, vars, CloseOrder
<1>4. CASE Joined \/ JoinFails \/ StopExpires
  BY <1>4 DEF Joined, Join, JoinFails, StopExpires, CloseOrder
<1>5. CASE CloseStream \/ CloseChannel \/ Terminate
  BY <1>5 DEF CloseStream, CloseChannel, Terminate, vars, CloseOrder
<1>6. CASE StopStep
  BY <1>6 DEF StopStep, ExitTests, SendPing, Clear, closeVars, CloseOrder
<1>7. CASE LoopStep
  <2>1. UNCHANGED <<user, closeVars>>
    BY <1>7 DEF LoopStep, TargetTests, TargetCalls, EnterExec, Receive, ReceiveFails, HandlerStops,
                HandlerReturns, HandlerRaises, Answer
  <2> QED
    BY <2>1 DEF closeVars, CloseOrder
<1>8. CASE ServerStep
  BY <1>8 DEF ServerStep, Server, Send, OnWriteDone, OnReadDone, closeVars, CloseOrder
<1>9. CASE UNCHANGED sessionVars
  BY <1>9 DEF sessionVars, vars, closeVars, CloseOrder
<1> QED
  BY <1>1, <1>2, <1>3, <1>4, <1>5, <1>6, <1>7, <1>8, <1>9 DEF SessionNext, CloseStep

\* Both parts hold of every state, each on its own.
LEMMA QuietAlways == SessionSpec => []QuietInv
  BY QuietInit, LoopStaysQuiet, CloseStaysOrdered, PTL DEF SessionSpec, QuietInv

\* When the channel goes down no handler is running, the stream has been
\* closed, and no later event of this client is begun.
THEOREM QuietWhenClosed == SessionSpec => []ClosedQuietly
<1>1. QuietInv => ClosedQuietly
  BY DEF QuietInv, LoopQuiet, CloseOrder, ClosedQuietly
<1> QED
  BY <1>1, QuietAlways, PTL

-----------------------------------------------------------------------------
(* PongMeansExit.  A ping is sent only by who has set isExitting, a loop   *)
(* that runs keeps it until it ends, and one that starts has found none    *)
(* set: the server makes a pong of a ping and of nothing else.             *)

StreamTypes ==
  /\ toServer \in Seq(Nat) /\ toClient \in Seq(Nat)
  /\ pending \in Seq(Nat \ {Pong}) /\ outstanding \in Nat /\ pongs \in Nat
  /\ raised \in Nat /\ current \in Nat \ {Pong}

ExitFlags ==
  /\ eventLoop \in {"none", "first", "later"}
  /\ isExitting => isRunning
  /\ isRunning => loop \in {"receiving", "handling", "raising"}
  /\ user = "ping" => isExitting \/ loop = "ended"

PongInv == StreamTypes /\ ExitFlags /\ PongMeansExit

\* An event added to a stream adds no pong.
LEMMA RangeAppend ==
  ASSUME NEW s \in Seq(Nat), NEW e \in Nat
  PROVE  /\ Append(s, e) \in Seq(Nat)
         /\ Pong \in Range(Append(s, e)) <=> Pong \in Range(s) \/ e = Pong
<1>1. /\ Append(s, e) \in Seq(Nat) /\ Len(s) \in Nat
      /\ Len(Append(s, e)) = Len(s) + 1 /\ Append(s, e)[Len(s) + 1] = e
      /\ \A i \in 1..Len(s) : Append(s, e)[i] = s[i]
  BY AppendProperties, LenProperties
<1>2. /\ Range(s) = {s[i] : i \in 1..Len(s)}
      /\ Range(Append(s, e)) = {Append(s, e)[i] : i \in 1..Len(s) + 1}
  BY <1>1, RangeEquality
<1>3. \A i : i \in 1..Len(s) + 1 <=> i \in 1..Len(s) \/ i = Len(s) + 1
  BY <1>1
<1> QED
  BY <1>1, <1>2, <1>3

\* Taking the first message off a stream adds none.
LEMMA RangeTail ==
  ASSUME NEW s \in Seq(Nat), s # <<>>
  PROVE  /\ Tail(s) \in Seq(Nat) /\ Head(s) \in Nat
         /\ Range(Tail(s)) \subseteq Range(s) /\ Head(s) \in Range(s)
<1>1. /\ Tail(s) \in Seq(Nat) /\ Head(s) \in Nat /\ Len(s) \in Nat \ {0}
      /\ Len(Tail(s)) = Len(s) - 1 /\ Head(s) = s[1]
      /\ \A i \in 1..Len(Tail(s)) : Tail(s)[i] = s[i + 1]
  BY HeadTailProperties, EmptySeq
<1>2. /\ Range(s) = {s[i] : i \in 1..Len(s)}
      /\ Range(Tail(s)) = {Tail(s)[i] : i \in 1..Len(Tail(s))}
  BY <1>1, RangeEquality, ZenonT(30)
<1>3. \A i \in 1..Len(Tail(s)) : i + 1 \in 1..Len(s)
  BY <1>1
<1>4. 1 \in 1..Len(s)
  BY <1>1
<1> QED
  BY <1>1, <1>2, <1>3, <1>4

\* NextWrite starts to write a pong only if one is owed.
LEMMA NextWriteKeeps ==
  ASSUME NEW under \in Nat, NEW isWriting, NEW items \in Seq(Nat \ {Pong}), pongs \in Nat,
         NextWrite(under, isWriting, items)
  PROVE  /\ outstanding' \in Nat /\ pongs' \in Nat /\ pending' \in Seq(Nat \ {Pong})
         /\ pongs' > 0 \/ outstanding' = Pong => pongs > 0 \/ under = Pong
<1>1. CASE outstanding' = under /\ pending' = items /\ UNCHANGED pongs
  BY <1>1
<1>2. CASE pongs > 0 /\ outstanding' = Pong /\ pongs' = pongs - 1 /\ pending' = items
  BY <1>2 DEF Pong
<1>3. CASE items # <<>> /\ outstanding' = Head(items) /\ pending' = Tail(items) /\ UNCHANGED pongs
  <2>1. Head(items) \in Nat \ {Pong} /\ Tail(items) \in Seq(Nat \ {Pong})
    BY <1>3, HeadTailProperties
  <2> QED
    BY <1>3, <2>1
<1>4. CASE outstanding' = under /\ pending' = items /\ pongs' = pongs
  BY <1>4
<1> QED
  BY <1>1, <1>2, <1>3, <1>4 DEF NextWrite, StartWrite

\* At first no pong is on its way and no flag is set.
LEMMA PongInit == SessionInit => PongInv
<1> SUFFICES ASSUME SessionInit PROVE PongInv
  OBVIOUS
<1>1. /\ toServer = <<>> /\ toClient = <<>> /\ pending = <<>> /\ outstanding = MaxEvents + 1
      /\ pongs = 0 /\ raised = 0 /\ current = MaxEvents + 1
  BY DEF SessionInit, Init, None
<1>2. MaxEvents + 1 \in Nat \ {Pong}
  BY LoopAssumption DEF Pong
<1>3. StreamTypes
  BY <1>1, <1>2, EmptySeq DEF StreamTypes, Pong
<1>4. ExitFlags
  BY DEF SessionInit, Init, ExitFlags
<1>5. Range(toServer) = {} /\ Range(toClient) = {}
  BY <1>1 DEF Range
<1>6. ~PongUnderWay
  BY <1>1, <1>2, <1>5 DEF PongUnderWay
<1> QED
  BY <1>3, <1>4, <1>6 DEF PongInv, PongMeansExit

\* The server's end brings no pong into the stream.
LEMMA ServerKeepsPongs ==
  ASSUME StreamTypes, Server
  PROVE  StreamTypes' /\ UNCHANGED <<loopVars, user>> /\ (PongUnderWay' => PongUnderWay)
<1>0. /\ toServer \in Seq(Nat) /\ toClient \in Seq(Nat)
      /\ pending \in Seq(Nat \ {Pong}) /\ outstanding \in Nat /\ pongs \in Nat
      /\ raised \in Nat /\ current \in Nat \ {Pong} /\ None \in Nat \ {Pong}
  BY LoopAssumption DEF StreamTypes, None, Pong
<1>1. CASE Send
  <2>1. raised' = raised + 1 /\ raised' \in Nat \ {Pong}
    BY <1>0, <1>1 DEF Send, Pong
  <2>2. Append(pending, raised') \in Seq(Nat \ {Pong})
    BY <1>0, <2>1, AppendProperties
  <2>3. /\ outstanding' \in Nat /\ pongs' \in Nat /\ pending' \in Seq(Nat \ {Pong})
        /\ pongs' > 0 \/ outstanding' = Pong => pongs > 0 \/ outstanding = Pong
    BY <1>0, <1>1, <2>2, NextWriteKeeps DEF Send
  <2>4. UNCHANGED <<loopVars, user, toServer, toClient>>
    BY <1>1 DEF Send
  <2> QED
    BY <1>0, <2>1, <2>3, <2>4 DEF StreamTypes, PongUnderWay, loopVars
<1>2. CASE OnWriteDone
  <2>1. /\ outstanding' \in Nat /\ pongs' \in Nat /\ pending' \in Seq(Nat \ {Pong})
        /\ pongs' > 0 \/ outstanding' = Pong => pongs > 0
    BY <1>0, <1>2, NextWriteKeeps DEF OnWriteDone
  <2>2. /\ toClient' \in Seq(Nat)
        /\ Pong \in Range(toClient') <=> Pong \in Range(toClient) \/ outstanding = Pong
    BY <1>0, <1>2, RangeAppend DEF OnWriteDone
  <2>3. UNCHANGED <<loopVars, user, toServer, raised>>
    BY <1>2 DEF OnWriteDone
  <2> QED
    BY <1>0, <2>1, <2>2, <2>3 DEF StreamTypes, PongUnderWay, loopVars
<1>3. CASE OnReadDone
  <2>1. /\ toServer' \in Seq(Nat) /\ Range(toServer') \subseteq Range(toServer)
        /\ Head(toServer) \in Range(toServer)
    BY <1>0, <1>3, RangeTail DEF OnReadDone
  <2>2. /\ pongs' \in Nat
        /\ pongs' # pongs => Head(toServer) = Pong
    BY <1>0, <1>3 DEF OnReadDone, PongsAfterPing
  <2>3. UNCHANGED <<loopVars, user, toClient, raised, pending, outstanding>>
    BY <1>3 DEF OnReadDone
  <2> QED
    BY <1>0, <2>1, <2>2, <2>3 DEF StreamTypes, PongUnderWay, loopVars
<1> QED
  BY <1>1, <1>2, <1>3 DEF Server

\* A step that leaves the stream alone keeps what is in it.
LEMMA StreamUnchanged ==
  ASSUME StreamTypes,
         UNCHANGED <<toServer, toClient, pending, outstanding, pongs, raised, current>>
  PROVE  StreamTypes' /\ (PongUnderWay' <=> PongUnderWay)
  BY DEF StreamTypes, PongUnderWay

\* The thread that starts and stops keeps the invariant.
LEMMA UserKeepsPongs ==
  ASSUME PongInv, Start \/ Stop \/ Join \/ ExitTests \/ SendPing \/ Clear
  PROVE  PongInv'
<1>0. StreamTypes /\ ExitFlags /\ PongMeansExit
  BY DEF PongInv
<1>1. CASE Start
  <2>1. StreamTypes' /\ (PongUnderWay' <=> PongUnderWay)
    BY <1>0, <1>1, StreamUnchanged DEF Start, serverVars
  <2>2. ExitFlags' /\ PongMeansExit'
    BY <1>0, <1>1, <2>1 DEF Start, ExitFlags, PongMeansExit
  <2> QED
    BY <2>1, <2>2 DEF PongInv
<1>2. CASE Stop
  <2>1. StreamTypes' /\ (PongUnderWay' <=> PongUnderWay)
    BY <1>0, <1>2, StreamUnchanged DEF Stop, loopVars, serverVars
  <2>2. ExitFlags' /\ PongMeansExit'
    BY <1>0, <1>2, <2>1 DEF Stop, loopVars, ExitFlags, PongMeansExit
  <2> QED
    BY <2>1, <2>2 DEF PongInv
<1>3. CASE Join
  <2>1. StreamTypes' /\ (PongUnderWay' <=> PongUnderWay)
    BY <1>0, <1>3, StreamUnchanged DEF Join, loopVars, serverVars
  <2>2. ExitFlags' /\ PongMeansExit'
    BY <1>0, <1>3, <2>1 DEF Join, loopVars, ExitFlags, PongMeansExit
  <2> QED
    BY <2>1, <2>2 DEF PongInv
<1>4. CASE ExitTests
  <2>1. StreamTypes' /\ (PongUnderWay' <=> PongUnderWay)
    BY <1>0, <1>4, StreamUnchanged DEF ExitTests, serverVars
  <2>2. ExitFlags' /\ PongMeansExit'
    BY <1>0, <1>4, <2>1 DEF ExitTests, MayPing, ExitFlags, PongMeansExit
  <2> QED
    BY <2>1, <2>2 DEF PongInv
<1>5. CASE SendPing
  <2>1. /\ toServer' \in Seq(Nat) /\ UNCHANGED <<loopVars, serverVars>>
        /\ user = "ping" /\ user' = "clear"
    BY <1>0, <1>5, RangeAppend DEF SendPing, StreamTypes, Pong
  <2>2. StreamTypes'
    BY <1>0, <2>1 DEF StreamTypes, loopVars, serverVars
  <2>3. ExitFlags' /\ PongMeansExit'
    BY <1>0, <2>1 DEF ExitFlags, PongMeansExit, loopVars
  <2> QED
    BY <2>2, <2>3 DEF PongInv
<1>6. CASE Clear
  <2>1. StreamTypes' /\ (PongUnderWay' <=> PongUnderWay)
    BY <1>0, <1>6, StreamUnchanged DEF Clear, serverVars
  <2>2. ExitFlags' /\ PongMeansExit'
    BY <1>0, <1>6, <2>1 DEF Clear, ExitFlags, PongMeansExit
  <2> QED
    BY <2>1, <2>2 DEF PongInv
<1> QED
  BY <1>1, <1>2, <1>3, <1>4, <1>5, <1>6

\* The loop keeps it: it takes events and pongs off the stream, puts answers
\* into it, and a handler that stops the loop puts a ping there.
LEMMA LoopKeepsPongs ==
  ASSUME PongInv,
         \/ TargetTests \/ TargetCalls \/ EnterExec \/ Receive \/ ReceiveFails
         \/ HandlerStops \/ HandlerReturns \/ HandlerRaises
  PROVE  PongInv'
<1>0. StreamTypes /\ ExitFlags /\ PongMeansExit
  BY DEF PongInv
<1>1. CASE TargetTests \/ TargetCalls \/ EnterExec \/ ReceiveFails
  <2>1. StreamTypes' /\ (PongUnderWay' <=> PongUnderWay)
    BY <1>0, <1>1, StreamUnchanged
       DEF TargetTests, TargetCalls, EnterExec, ReceiveFails, serverVars
  <2>2. ExitFlags' /\ PongMeansExit'
    BY <1>0, <1>1, <2>1
       DEF TargetTests, TargetCalls, EnterExec, ReceiveFails, LeaveExec, ExitFlags, PongMeansExit
  <2> QED
    BY <2>1, <2>2 DEF PongInv
<1>2. CASE Receive
  <2>1. /\ toClient' \in Seq(Nat) /\ Head(toClient) \in Nat
        /\ Range(toClient') \subseteq Range(toClient)
    BY <1>0, <1>2, RangeTail DEF Receive, StreamTypes
  <2>2. StreamTypes' /\ (PongUnderWay' => PongUnderWay)
    BY <1>0, <1>2, <2>1 DEF Receive, StreamTypes, PongUnderWay
  <2>3. ExitFlags' /\ PongMeansExit'
    BY <1>0, <1>2, <2>2 DEF Receive, LeaveExec, ExitFlags, PongMeansExit
  <2> QED
    BY <2>2, <2>3 DEF PongInv
<1>3. CASE HandlerStops
  <2>1. toServer' \in Seq(Nat)
    BY <1>0, <1>3, RangeAppend DEF HandlerStops, StreamTypes, Pong
  <2>2. /\ StreamTypes'
        /\ PongUnderWay' => PongUnderWay \/ MayPing
    BY <1>0, <1>3, <2>1 DEF HandlerStops, StreamTypes, PongUnderWay, serverVars
  <2>3. ExitFlags' /\ PongMeansExit'
    BY <1>0, <1>3, <2>2 DEF HandlerStops, MayPing, ExitFlags, PongMeansExit
  <2> QED
    BY <2>2, <2>3 DEF PongInv
<1>4. CASE HandlerReturns \/ HandlerRaises
  <2>1. /\ toServer' = toServer \o <<current>> /\ current' = None
        /\ UNCHANGED <<eventLoop, user, serverVars>>
    BY <1>4 DEF HandlerReturns, HandlerRaises, Answer, Answers
  <2>2. /\ toServer \in Seq(Nat) /\ current \in Nat \ {Pong} /\ None \in Nat \ {Pong}
    BY <1>0, LoopAssumption DEF StreamTypes, None, Pong
  <2>3. /\ toServer' \in Seq(Nat)
        /\ Pong \in Range(toServer') <=> Pong \in Range(toServer)
    <3>1. toServer' = Append(toServer, current)
      BY <2>1, <2>2, AppendIsConcat
    <3> QED
      BY <2>2, <3>1, RangeAppend
  <2>4. StreamTypes' /\ (PongUnderWay' <=> PongUnderWay)
    BY <1>0, <2>1, <2>2, <2>3 DEF StreamTypes, PongUnderWay, serverVars
  <2>5. ExitFlags' /\ PongMeansExit'
    BY <1>0, <1>4, <2>1, <2>4
       DEF HandlerReturns, HandlerRaises, LeaveExec, ExitFlags, PongMeansExit
  <2> QED
    BY <2>4, <2>5 DEF PongInv
<1> QED
  BY <1>1, <1>2, <1>3, <1>4

\* Every step of the session keeps the invariant.
LEMMA PongNext == PongInv /\ [SessionNext]_sessionVars => PongInv'
<1> SUFFICES ASSUME PongInv, [SessionNext]_sessionVars PROVE PongInv'
  OBVIOUS
<1>0. StreamTypes /\ ExitFlags /\ PongMeansExit
  BY DEF PongInv
<1>1. CASE UNCHANGED vars
  <2>1. StreamTypes' /\ (PongUnderWay' <=> PongUnderWay)
    BY <1>0, <1>1, StreamUnchanged DEF vars, loopVars, serverVars
  <2> QED
    BY <1>0, <1>1, <2>1 DEF vars, loopVars, PongInv, ExitFlags, PongMeansExit
<1>2. CASE Start \/ Stop \/ Join
  BY <1>2, UserKeepsPongs
<1>3. CASE StopStep
  BY <1>3, UserKeepsPongs DEF StopStep
<1>4. CASE LoopStep
  BY <1>4, LoopKeepsPongs DEF LoopStep
<1>5. CASE JoinFails
  <2>1. StreamTypes' /\ (PongUnderWay' <=> PongUnderWay)
    BY <1>0, <1>5, StreamUnchanged DEF JoinFails, loopVars, serverVars
  <2> QED
    BY <1>0, <1>5, <2>1 DEF JoinFails, loopVars, PongInv, ExitFlags, PongMeansExit
<1>6. CASE StopExpires
  <2>1. /\ UNCHANGED <<eventLoop, serverVars>> /\ current' = None /\ user' = "started"
        /\ LeaveExec
    BY <1>6 DEF StopExpires
  <2>2. toServer' \in Seq(Nat) /\ None \in Nat \ {Pong}
    BY <1>0, <1>6, RangeAppend, LoopAssumption DEF StopExpires, StreamTypes, None, Pong
  <2>3. StreamTypes'
    BY <1>0, <2>1, <2>2 DEF StreamTypes, serverVars
  <2> QED
    BY <1>0, <2>1, <2>3 DEF LeaveExec, PongInv, ExitFlags, PongMeansExit
<1>7. CASE ServerStep
  <2>1. StreamTypes' /\ UNCHANGED <<loopVars, user>> /\ (PongUnderWay' => PongUnderWay)
    BY <1>0, <1>7, ServerKeepsPongs DEF ServerStep
  <2> QED
    BY <1>0, <2>1 DEF loopVars, PongInv, ExitFlags, PongMeansExit
<1>8. CASE Store \/ Enter \/ Close \/ CloseAgain \/ Joined \/ CloseStream \/ CloseChannel \/ Terminate
  <2>1. UNCHANGED vars \/ Start \/ Stop \/ Join
    BY <1>8 DEF Store, Instance, Acquire, Found, Launch, Opens, OpenFails, Enter, Close, CloseAgain,
                Joined, CloseStream, CloseChannel, Terminate
  <2> QED
    BY <1>1, <1>2, <2>1
<1>9. CASE UNCHANGED sessionVars
  BY <1>1, <1>9 DEF sessionVars
<1> QED
  BY <1>3, <1>4, <1>5, <1>6, <1>7, <1>8, <1>9 DEF SessionNext, CloseStep

\* A pong is on its way only to a loop that was asked to exit, or to none:
\* a loop that nobody stops never returns on a pong.
THEOREM PongIsAsked == SessionSpec => []PongMeansExit
<1>1. PongInv => PongMeansExit
  BY DEF PongInv
<1> QED
  BY <1>1, PongInit, PongNext, PTL DEF SessionSpec
-----------------------------------------------------------------------------
(* EventsInOrder.  Every step moves a message from one place to the next,  *)
(* which leaves the sequence of the messages in all places as it is, puts  *)
(* a pong into it or takes one out, or adds the latest event at its end.   *)

OrderInv ==
  /\ answers \in Seq(Nat) /\ raised <= MaxEvents
  /\ EventsInOrder
  /\ ~broken => (current # None <=> loop \in {"handling", "raising"})

\* Streams and what they are put together from, as the proofs below see them.
Stream == Seq(Nat)
Cat(s, t) == s \o t
Unit(m) == <<m>>

\* Concatenation of streams is associative and gives streams.
LEMMA Streams ==
  /\ <<>> \in Stream /\ \A m \in Nat : Unit(m) \in Stream
  /\ \A s, t \in Stream : Cat(s, t) \in Stream
  /\ \A s, t, u \in Stream : Cat(Cat(s, t), u) = Cat(s, Cat(t, u))
  /\ \A s \in Stream : Cat(s, <<>>) = s /\ Cat(<<>>, s) = s
<1> USE DEF Stream, Cat, Unit
<1>1. \A s, t \in Seq(Nat) : s \o t \in Seq(Nat)
  BY ConcatProperties
<1>2. ASSUME NEW s \in Seq(Nat), NEW t \in Seq(Nat), NEW u \in Seq(Nat)
      PROVE  (s \o t) \o u = s \o (t \o u)
  BY ConcatAssociative, SMTT(30)
<1>3. ASSUME NEW s \in Seq(Nat) PROVE s \o <<>> = s /\ <<>> \o s = s
  BY ConcatEmptySeq
<1>4. <<>> \in Seq(Nat)
  BY EmptySeq
<1>5. \A m \in Nat : <<m>> \in Seq(Nat)
  OBVIOUS
<1> QED
  BY <1>1, <1>2, <1>3, <1>4, <1>5

\* A stream is its first message and the rest.
LEMMA HeadThenTail ==
  ASSUME NEW s \in Stream, s # <<>>
  PROVE  /\ Head(s) \in Nat /\ Tail(s) \in Stream
         /\ s = Cat(Unit(Head(s)), Tail(s))
<1> USE DEF Stream, Cat, Unit
<1>1. /\ Head(s) \in Nat /\ Tail(s) \in Seq(Nat) /\ Len(Tail(s)) = Len(s) - 1
      /\ \A i \in 1..Len(Tail(s)) : Tail(s)[i] = s[i + 1]
      /\ Len(s) \in Nat /\ Head(s) = s[1]
  BY HeadTailProperties, LenProperties
<1>2. <<Head(s)>> \in Seq(Nat) /\ Len(<<Head(s)>>) = 1 /\ <<Head(s)>>[1] = Head(s)
  BY <1>1
<1>3. /\ <<Head(s)>> \o Tail(s) \in Seq(Nat) /\ Len(<<Head(s)>> \o Tail(s)) = Len(s)
      /\ \A i \in 1..Len(s) :
           (<<Head(s)>> \o Tail(s))[i] = IF i <= 1 THEN Head(s) ELSE Tail(s)[i - 1]
  BY <1>1, <1>2, ConcatProperties
<1>4. \A i \in 1..Len(s) : s[i] = (<<Head(s)>> \o Tail(s))[i]
  <2> SUFFICES ASSUME NEW i \in 1..Len(s) PROVE s[i] = (<<Head(s)>> \o Tail(s))[i]
    OBVIOUS
  <2>1. CASE i = 1
    BY <1>1, <1>3, <2>1
  <2>2. CASE i # 1
    <3>1. i - 1 \in 1..Len(Tail(s)) /\ ~(i <= 1) /\ (i - 1) + 1 = i
      BY <1>1, <2>2
    <3> QED
      BY <1>1, <1>3, <3>1
  <2> QED
    BY <2>1, <2>2
<1> QED
  BY <1>1, <1>3, <1>4, SeqEqual

\* A pong in it does not matter to the order of the events.
LEMMA PongsDoNotMatter ==
  ASSUME NEW s \in Stream, NEW t \in Stream, NEW n
  PROVE  InOrder(Cat(s, Cat(Unit(Pong), t)), n) <=> InOrder(Cat(s, t), n)
<1> USE DEF Stream, Cat, Unit
<1> DEFINE u == s \o t
           v == s \o (<<Pong>> \o t)
           L == Len(s)
<1>1. /\ Pong \in Nat /\ <<Pong>> \in Seq(Nat) /\ Len(<<Pong>>) = 1 /\ <<Pong>>[1] = Pong
      /\ L \in Nat /\ Len(t) \in Nat
  BY LenProperties DEF Pong
<1>2. /\ <<Pong>> \o t \in Seq(Nat) /\ Len(<<Pong>> \o t) = Len(t) + 1
      /\ \A i \in 1..Len(t) + 1 : (<<Pong>> \o t)[i] = IF i <= 1 THEN Pong ELSE t[i - 1]
  BY <1>1, ConcatProperties
<1>3. /\ u \in Seq(Nat) /\ Len(u) = L + Len(t) /\ DOMAIN u = 1..L + Len(t)
      /\ \A i \in 1..L + Len(t) : u[i] = IF i <= L THEN s[i] ELSE t[i - L]
  BY ConcatProperties, LenProperties
<1>4. /\ v \in Seq(Nat) /\ DOMAIN v = 1..L + (Len(t) + 1)
      /\ \A i \in 1..L + (Len(t) + 1) : v[i] = IF i <= L THEN s[i] ELSE (<<Pong>> \o t)[i - L]
  BY <1>2, ConcatProperties, LenProperties
<1> DEFINE f(i) == IF i <= L THEN i ELSE i + 1
           g(i) == IF i <= L THEN i ELSE i - 1
<1> HIDE DEF u, v, L
<1>f. \A i : (i <= L => f(i) = i /\ g(i) = i) /\ (~(i <= L) => f(i) = i + 1 /\ g(i) = i - 1)
  OBVIOUS
<1> HIDE DEF f, g
<1>5. \A i \in DOMAIN u : f(i) \in DOMAIN v /\ v[f(i)] = u[i]
  <2> SUFFICES ASSUME NEW i \in DOMAIN u PROVE f(i) \in DOMAIN v /\ v[f(i)] = u[i]
    OBVIOUS
  <2>0. i \in 1..L + Len(t)
    BY <1>3
  <2>1. CASE i <= L
    <3>1. f(i) = i /\ i \in 1..L + (Len(t) + 1)
      BY <1>f, <1>1, <2>0, <2>1
    <3>2. u[i] = s[i] /\ v[i] = s[i]
      BY <1>3, <1>4, <2>0, <2>1, <3>1
    <3> QED
      BY <1>4, <3>1, <3>2
  <2>2. CASE ~(i <= L)
    <3>1. /\ i + 1 \in 1..L + (Len(t) + 1) /\ ~(i + 1 <= L)
          /\ (i + 1) - L \in 1..Len(t) + 1 /\ ~((i + 1) - L <= 1) /\ ((i + 1) - L) - 1 = i - L
      BY <1>1, <2>0, <2>2
    <3>2. v[i + 1] = t[i - L]
      BY <1>2, <1>4, <3>1
    <3> QED
      BY <1>f, <1>3, <1>4, <2>0, <2>2, <3>1, <3>2
  <2> QED
    BY <2>1, <2>2
<1>6. \A k \in DOMAIN v : \/ k = L + 1 /\ v[k] = Pong
                          \/ k # L + 1 /\ g(k) \in DOMAIN u /\ k = f(g(k))
  <2> SUFFICES ASSUME NEW k \in DOMAIN v
               PROVE  \/ k = L + 1 /\ v[k] = Pong
                      \/ k # L + 1 /\ g(k) \in DOMAIN u /\ k = f(g(k))
    OBVIOUS
  <2>0. k \in 1..L + (Len(t) + 1)
    BY <1>4
  <2>1. CASE k = L + 1
    BY <1>1, <1>2, <1>4, <2>0, <2>1
  <2>2. CASE k # L + 1
    <3>1. CASE k <= L
      BY <1>f, <1>1, <1>3, <2>0, <2>2, <3>1
    <3>2. CASE ~(k <= L)
      <4>1. g(k) = k - 1 /\ k - 1 \in 1..L + Len(t) /\ ~(k - 1 <= L)
        BY <1>f, <1>1, <2>0, <2>2, <3>2
      <4>2. f(k - 1) = k
        BY <1>f, <1>1, <2>0, <4>1
      <4> QED
        BY <1>3, <2>2, <4>1, <4>2
    <3> QED
      BY <3>1, <3>2
  <2> QED
    BY <2>1, <2>2
<1>7. \A i, j \in DOMAIN u : i < j => f(i) < f(j)
  <2> SUFFICES ASSUME NEW i \in 1..L + Len(t), NEW j \in 1..L + Len(t), i < j PROVE f(i) < f(j)
    BY <1>3
  <2>1. f(i) \in {i, i + 1} /\ f(j) \in {j, j + 1} /\ (f(i) = i + 1 => f(j) = j + 1)
    BY <1>f, <1>1
  <2> QED
    BY <1>1, <2>1
<1>8. \A k, l \in DOMAIN v : k # L + 1 /\ l # L + 1 /\ k < l => g(k) < g(l)
  <2> SUFFICES ASSUME NEW k \in 1..L + (Len(t) + 1), NEW l \in 1..L + (Len(t) + 1),
                      k # L + 1, l # L + 1, k < l
               PROVE  g(k) < g(l)
    BY <1>4
  <2>1. CASE l <= L
    BY <1>f, <1>1, <2>1, SMTT(30)
  <2>2. CASE k <= L /\ ~(l <= L)
    BY <1>f, <1>1, <2>2, SMTT(30)
  <2>3. CASE ~(k <= L)
    BY <1>f, <1>1, <2>3, SMTT(30)
  <2> QED
    BY <1>1, <2>1, <2>2, <2>3
<1>9. Range(u) \ {Pong} = Range(v) \ {Pong}
  BY <1>5, <1>6 DEF Range
<1>10. (\A i, j \in DOMAIN v : i < j /\ v[i] # Pong /\ v[j] # Pong => v[i] < v[j])
       => (\A i, j \in DOMAIN u : i < j /\ u[i] # Pong /\ u[j] # Pong => u[i] < u[j])
  BY <1>5, <1>7
<1>11. (\A i, j \in DOMAIN u : i < j /\ u[i] # Pong /\ u[j] # Pong => u[i] < u[j])
       => (\A i, j \in DOMAIN v : i < j /\ v[i] # Pong /\ v[j] # Pong => v[i] < v[j])
  BY <1>5, <1>6, <1>8
<1> QED
  BY <1>9, <1>10, <1>11 DEF InOrder, u, v

\* The latest event goes to the end.
LEMMA LatestLast ==
  ASSUME NEW s \in Stream, NEW n \in Nat, InOrder(s, n)
  PROVE  InOrder(Cat(s, Unit(n + 1)), n + 1)
<1> USE DEF Stream, Cat, Unit
<1>1. /\ <<n + 1>> \in Seq(Nat) /\ Len(<<n + 1>>) = 1 /\ <<n + 1>>[1] = n + 1
      /\ Len(s) \in Nat /\ DOMAIN s = 1..Len(s) /\ n + 1 # Pong
  BY LenProperties DEF Pong
<1> DEFINE v == s \o <<n + 1>>
<1>2. /\ v \in Seq(Nat) /\ Len(v) = Len(s) + 1
      /\ \A i \in 1..Len(s) + 1 : v[i] = IF i <= Len(s) THEN s[i] ELSE <<n + 1>>[i - Len(s)]
  BY <1>1, ConcatProperties
<1>3. DOMAIN v = 1..Len(s) + 1
  BY <1>2, LenProperties
<1>4. (\A i \in 1..Len(s) : v[i] = s[i]) /\ v[Len(s) + 1] = n + 1
  BY <1>1, <1>2
<1> HIDE DEF v
<1>5. \A i \in 1..Len(s) : s[i] # Pong => s[i] \in 1..n
  BY <1>1 DEF InOrder, Range
<1>6. Range(v) \ {Pong} = 1..n + 1
  <2>1. \A i : i \in 1..Len(s) + 1 <=> i \in 1..Len(s) \/ i = Len(s) + 1
    BY <1>1
  <2>2. Range(v) = Range(s) \cup {n + 1}
    BY <1>1, <1>3, <1>4, <2>1 DEF Range
  <2>3. 1..n + 1 = 1..n \cup {n + 1}
    OBVIOUS
  <2> QED
    BY <1>1, <2>2, <2>3 DEF InOrder
<1>7. \A i, j \in DOMAIN v : i < j /\ v[i] # Pong /\ v[j] # Pong => v[i] < v[j]
  <2> SUFFICES ASSUME NEW i \in 1..Len(s) + 1, NEW j \in 1..Len(s) + 1, i < j,
                      v[i] # Pong, v[j] # Pong
               PROVE  v[i] < v[j]
    BY <1>3
  <2>1. i \in 1..Len(s) /\ v[i] = s[i]
    BY <1>1, <1>4
  <2>2. CASE j \in 1..Len(s)
    BY <1>1, <1>4, <2>1, <2>2 DEF InOrder
  <2>3. CASE j = Len(s) + 1
    BY <1>4, <1>5, <2>1, <2>3
  <2> QED
    BY <1>1, <2>2, <2>3
<1> QED
  BY <1>6, <1>7 DEF InOrder, v

\* No event is the one that stands for none.
LEMMA EventsOnly ==
  ASSUME NEW s \in Stream, NEW t \in Stream, NEW m \in Nat, NEW n \in Nat,
         n <= MaxEvents, InOrder(Cat(s, Cat(Unit(m), t)), n)
  PROVE  m # None
<1> USE DEF Stream, Cat, Unit
<1> DEFINE u == <<m>> \o t
<1>1. u \in Seq(Nat) /\ Len(u) = Len(t) + 1 /\ u[1] = m /\ Len(t) \in Nat /\ Len(s) \in Nat
  BY ConcatProperties, LenProperties
<1> HIDE DEF u
<1>2. /\ s \o u \in Seq(Nat) /\ Len(s \o u) = Len(s) + Len(u)
      /\ \A i \in 1..Len(s) + Len(u) : (s \o u)[i] = IF i <= Len(s) THEN s[i] ELSE u[i - Len(s)]
  BY <1>1, ConcatProperties
<1>3. Len(s) + 1 \in DOMAIN (s \o u) /\ (s \o u)[Len(s) + 1] = m
  BY <1>1, <1>2, LenProperties
<1>4. m \in 1..n \cup {Pong}
  BY <1>3 DEF InOrder, Range, u
<1> QED
  BY <1>4, LoopAssumption DEF None, Pong

\* What follows four places follows their concatenation.
LEMMA FourPlaces ==
  ASSUME NEW a \in Stream, NEW b \in Stream, NEW c \in Stream, NEW d \in Stream
  PROVE  /\ Cat(a, Cat(b, Cat(c, d))) \in Stream
         /\ \A x \in Stream : Cat(a, Cat(b, Cat(c, Cat(d, x)))) = Cat(Cat(a, Cat(b, Cat(c, d))), x)
<1>1. Cat(c, d) \in Stream /\ Cat(b, Cat(c, d)) \in Stream
  BY Streams
<1>2. ASSUME NEW x \in Stream
      PROVE  Cat(a, Cat(b, Cat(c, Cat(d, x)))) = Cat(Cat(a, Cat(b, Cat(c, d))), x)
  <2>1. Cat(c, Cat(d, x)) = Cat(Cat(c, d), x)
    BY Streams
  <2>2. Cat(b, Cat(Cat(c, d), x)) = Cat(Cat(b, Cat(c, d)), x)
    BY <1>1, Streams
  <2>3. Cat(a, Cat(Cat(b, Cat(c, d)), x)) = Cat(Cat(a, Cat(b, Cat(c, d))), x)
    BY <1>1, Streams
  <2> QED
    BY <2>1, <2>2, <2>3
<1> QED
  BY <1>1, <1>2, Streams

\* What is in one place is a stream of one message or of none.
LEMMA OneMessage ==
  /\ \A m \in Nat : One(m) \in Stream
  /\ One(None) = <<>> /\ \A m : m # None => One(m) = Unit(m)
  BY Streams DEF One, Unit

\* A message added to a stream.
LEMMA AppendedStream ==
  ASSUME NEW s \in Stream, NEW m \in Nat PROVE Append(s, m) = Cat(s, Unit(m))
  BY AppendedStream DEF Stream, Cat, Unit

\* The places, as one stream before and after a step.
LEMMA PlacesAre ==
  /\ Places = Cat(answers, Cat(toServer, Cat(One(current),
                Cat(toClient, Cat(One(outstanding), pending)))))
  /\ Places' = Cat(answers', Cat(toServer', Cat(One(current'),
                 Cat(toClient', Cat(One(outstanding'), pending')))))
  BY DEF Places, Cat, One

\* The types of what is in the places.
LEMMA StreamFacts ==
  ASSUME StreamTypes, OrderInv
  PROVE  /\ answers \in Stream /\ toServer \in Stream /\ toClient \in Stream
         /\ pending \in Stream /\ outstanding \in Nat /\ pongs \in Nat
         /\ One(current) \in Stream /\ One(outstanding) \in Stream
         /\ current \in Nat /\ current # Pong
         /\ raised \in Nat /\ raised <= MaxEvents
         /\ Pong \in Nat /\ None \in Nat /\ Pong # None /\ Unit(Pong) \in Stream
<1>1. pending \in Seq(Nat)
  BY SeqMonotonic DEF StreamTypes
<1>2. /\ outstanding \in Nat /\ pongs \in Nat /\ current \in Nat /\ current # Pong
      /\ raised \in Nat /\ raised <= MaxEvents
      /\ Pong \in Nat /\ None \in Nat /\ Pong # None
  BY LoopAssumption DEF StreamTypes, OrderInv, None, Pong
<1>3. answers \in Stream /\ toServer \in Stream /\ toClient \in Stream /\ pending \in Stream
  BY <1>1 DEF StreamTypes, OrderInv, Stream
<1> QED
  BY <1>2, <1>3, OneMessage, Streams

\* NextWrite moves the first waiting event to the write, or writes a pong.
LEMMA NextWriteMoves ==
  ASSUME NEW under \in Nat, NEW isWriting, NEW items \in Stream, ~broken, ~broken',
         items # <<>> => Head(items) # None, NextWrite(under, isWriting, items)
  PROVE  \/ Cat(One(outstanding'), pending') = Cat(One(under), items)
         \/ under = None /\ Cat(One(outstanding'), pending') = Cat(Unit(Pong), items)
<1>1. CASE outstanding' = under /\ pending' = items
  BY <1>1
<1>2. CASE StartWrite(Pong, under) /\ pending' = items
  <2>1. under = None /\ outstanding' = Pong
    BY <1>2, Zenon DEF StartWrite
  <2>2. Pong # None
    BY LoopAssumption DEF Pong, None
  <2> QED
    BY <1>2, <2>1, <2>2, OneMessage
<1>4. items # <<>> => Head(items) # None
  OBVIOUS
<1>3. CASE items # <<>> /\ StartWrite(Head(items), under) /\ pending' = Tail(items)
  <2>1. /\ One(under) = <<>> /\ One(outstanding') = Unit(Head(items))
    BY <1>3, <1>4, OneMessage DEF StartWrite
  <2> QED
    BY <1>3, <2>1, HeadThenTail, Streams
<1> QED
  BY <1>1, <1>2, <1>3 DEF NextWrite

\* The server's end keeps the order.
LEMMA ServerKeepsOrder ==
  ASSUME StreamTypes, OrderInv, Server
  PROVE  OrderInv'
<1> DEFINE a == answers
           b == toServer
           c == One(current)
           d == toClient
           e == One(outstanding)
           f == pending
<1>0. /\ b \in Stream /\ d \in Stream /\ f \in Stream /\ outstanding \in Nat /\ pongs \in Nat
      /\ raised \in Nat /\ raised <= MaxEvents /\ a \in Stream /\ c \in Stream /\ e \in Stream
      /\ Pong \in Nat /\ None \in Nat /\ Pong # None /\ Unit(Pong) \in Stream
  BY StreamFacts
<1>1. ~broken /\ UNCHANGED <<loop, current>>
  BY DEF Server, Send, OnWriteDone, OnReadDone, loopVars
<1>2. InOrder(Cat(a, Cat(b, Cat(c, Cat(d, Cat(e, f))))), raised)
  BY <1>1, PlacesAre DEF OrderInv, EventsInOrder, Stream
<1>3. CASE Send
  <2> DEFINE n == raised + 1
             g == Cat(f, Unit(n))
             s == Cat(a, Cat(b, Cat(c, d)))
  <2>0. s \in Stream /\ \A x \in Stream : Cat(a, Cat(b, Cat(c, Cat(d, x)))) = Cat(s, x)
    BY <1>0, FourPlaces
  <2> HIDE DEF s
  <2>n. n \in Nat /\ n <= MaxEvents /\ raised' = n
    BY <1>0, <1>3, LoopAssumption DEF Send
  <2> HIDE DEF n
  <2>1. /\ g \in Stream /\ Unit(n) \in Stream /\ Append(f, n) = g
        /\ Cat(s, e) \in Stream /\ Cat(e, f) \in Stream /\ Cat(e, g) \in Stream
    BY <1>0, <2>0, <2>n, Streams, AppendedStream
  <2> HIDE DEF g
  <2>2. UNCHANGED <<answers, toServer, toClient>> /\ NextWrite(outstanding, writing, g)
    BY <1>3, <2>1, <2>n DEF Send
  <2>3. InOrder(Cat(s, Cat(e, g)), n)
    <3>1. Cat(a, Cat(b, Cat(c, Cat(d, Cat(e, f))))) = Cat(s, Cat(e, f))
      BY <2>0, <2>1
    <3>2. Cat(s, Cat(e, f)) \in Stream /\ Cat(Cat(s, Cat(e, f)), Unit(n)) = Cat(s, Cat(e, g))
      BY <1>0, <2>0, <2>1, Streams DEF g
    <3>3. InOrder(Cat(Cat(s, Cat(e, f)), Unit(n)), n)
      BY <1>0, <1>2, <3>1, <3>2, LatestLast DEF n
    <3> QED
      BY <3>2, <3>3
  <2>4. ASSUME ~broken' PROVE InOrder(Places', n)
    <3>1. g # <<>> => Head(g) # None
      <4> SUFFICES ASSUME g # <<>> PROVE Head(g) # None
        OBVIOUS
      <4>1. g = Cat(Unit(Head(g)), Tail(g)) /\ Head(g) \in Nat /\ Tail(g) \in Stream
        BY <2>1, HeadThenTail
      <4>2. Cat(s, Cat(e, g)) = Cat(Cat(s, e), g)
        BY <1>0, <2>0, <2>1, Streams
      <4> QED
        BY <1>0, <2>0, <2>1, <2>n, <2>3, <4>1, <4>2, EventsOnly
    <3>2. \/ Cat(One(outstanding'), pending') = Cat(e, g)
          \/ outstanding = None /\ Cat(One(outstanding'), pending') = Cat(Unit(Pong), g)
      BY <1>0, <1>1, <2>1, <2>2, <2>4, <3>1, NextWriteMoves
    <3>3. Places' = Cat(a, Cat(b, Cat(c, Cat(d, Cat(One(outstanding'), pending')))))
      BY <1>1, <2>2, PlacesAre
    <3>4. CASE Cat(One(outstanding'), pending') = Cat(e, g)
      <4>1. Places' = Cat(s, Cat(e, g))
        BY <2>0, <2>1, <3>3, <3>4
      <4> QED
        BY <2>3, <4>1
    <3>5. CASE outstanding = None /\ Cat(One(outstanding'), pending') = Cat(Unit(Pong), g)
      <4>1. Cat(Unit(Pong), g) \in Stream /\ Cat(e, g) = g
        BY <1>0, <2>1, <3>5, Streams, OneMessage
      <4>2. Places' = Cat(s, Cat(Unit(Pong), g))
        BY <2>0, <3>3, <3>5, <4>1
      <4> QED
        BY <2>0, <2>1, <2>3, <4>1, <4>2, PongsDoNotMatter
    <3> QED
      BY <3>2, <3>4, <3>5
  <2> QED
    BY <1>0, <1>1, <2>n, <2>2, <2>4 DEF OrderInv, EventsInOrder, Stream
<1>4. CASE OnWriteDone
  <2> DEFINE m == outstanding
             s == Cat(a, Cat(b, Cat(c, Cat(d, Unit(m)))))
  <2>1. /\ UNCHANGED <<answers, toServer, raised>> /\ m # None /\ e = Unit(m)
        /\ toClient' = Append(d, m) /\ NextWrite(None, WritingAfter, f)
    BY <1>4, OneMessage DEF OnWriteDone
  <2>2. /\ Unit(m) \in Stream /\ Cat(d, Unit(m)) \in Stream
        /\ toClient' = Cat(d, Unit(m))
    BY <1>0, <2>1, Streams, AppendedStream
  <2>4. \A y \in Stream :
          /\ Cat(a, Cat(b, Cat(c, y))) \in Stream
          /\ \A x \in Stream : Cat(a, Cat(b, Cat(c, Cat(y, x)))) = Cat(Cat(a, Cat(b, Cat(c, y))), x)
    BY <1>0, FourPlaces, SMTT(30)
  <2>5. /\ s \in Stream
        /\ \A x \in Stream : Cat(a, Cat(b, Cat(c, Cat(Cat(d, Unit(m)), x)))) = Cat(s, x)
    BY <2>2, <2>4
  <2> HIDE DEF s
  <2>3. InOrder(Cat(s, f), raised)
    <3>1. Cat(d, Cat(Unit(m), f)) = Cat(Cat(d, Unit(m)), f)
      BY <1>0, <2>2, Streams
    <3>2. Cat(a, Cat(b, Cat(c, Cat(Cat(d, Unit(m)), f)))) = Cat(s, f)
      BY <1>0, <2>5
    <3> QED
      BY <1>2, <2>1, <3>1, <3>2
  <2>6. ASSUME ~broken' PROVE InOrder(Places', raised)
    <3>1. f # <<>> => Head(f) # None
      <4> SUFFICES ASSUME f # <<>> PROVE Head(f) # None
        OBVIOUS
      <4>1. f = Cat(Unit(Head(f)), Tail(f)) /\ Head(f) \in Nat /\ Tail(f) \in Stream
        BY <1>0, HeadThenTail
      <4> QED
        BY <1>0, <2>5, <2>3, <4>1, EventsOnly
    <3>2. \/ Cat(One(outstanding'), pending') = Cat(One(None), f)
          \/ Cat(One(outstanding'), pending') = Cat(Unit(Pong), f)
      BY <1>0, <1>1, <2>1, <2>6, <3>1, NextWriteMoves
    <3>3. Places' = Cat(a, Cat(b, Cat(c, Cat(Cat(d, Unit(m)), Cat(One(outstanding'), pending')))))
      BY <1>1, <2>1, <2>2, PlacesAre
    <3>4. CASE Cat(One(outstanding'), pending') = Cat(One(None), f)
      <4>1. Cat(One(None), f) = f
        BY <1>0, Streams, OneMessage
      <4>2. Places' = Cat(s, f)
        BY <1>0, <2>5, <3>3, <3>4, <4>1
      <4> QED
        BY <2>3, <4>2
    <3>5. CASE Cat(One(outstanding'), pending') = Cat(Unit(Pong), f)
      <4>1. Cat(Unit(Pong), f) \in Stream
        BY <1>0, Streams
      <4>2. Places' = Cat(s, Cat(Unit(Pong), f))
        BY <2>5, <3>3, <3>5, <4>1
      <4> QED
        BY <1>0, <2>5, <2>3, <4>2, PongsDoNotMatter
    <3> QED
      BY <3>2, <3>4, <3>5
  <2> QED
    BY <1>0, <1>1, <2>1, <2>6 DEF OrderInv, EventsInOrder, Stream
<1>5. CASE OnReadDone
  <2> DEFINE h == Head(b)
             r == Tail(b)
             x == Cat(c, Cat(d, Cat(e, f)))
  <2>1. /\ UNCHANGED <<toClient, raised, pending, outstanding, broken>> /\ b # <<>> /\ toServer' = r
        /\ \/ h = Pong /\ UNCHANGED answers
           \/ h # Pong /\ answers' = Append(a, h)
    BY <1>5 DEF OnReadDone
  <2>2. /\ b = Cat(Unit(h), r) /\ h \in Nat /\ r \in Stream /\ Unit(h) \in Stream /\ x \in Stream
        /\ Cat(r, x) \in Stream /\ Cat(e, f) \in Stream
    BY <1>0, <2>1, HeadThenTail, Streams
  <2>3. Places = Cat(a, Cat(Unit(h), Cat(r, x)))
    BY <1>0, <2>2, Streams, PlacesAre
  <2>4. Places' = Cat(answers', Cat(r, x))
    BY <1>1, <2>1, PlacesAre
  <2>5. CASE h = Pong /\ UNCHANGED answers
    BY <1>0, <1>1, <1>2, <2>1, <2>2, <2>3, <2>4, <2>5, PongsDoNotMatter DEF OrderInv, EventsInOrder, Stream
  <2>6. CASE h # Pong /\ answers' = Append(a, h)
    <3>1. answers' = Cat(a, Unit(h)) /\ Cat(a, Unit(h)) \in Stream
      BY <1>0, <2>2, <2>6, AppendedStream, Streams
    <3>2. Places' = Places
      BY <1>0, <2>2, <2>3, <2>4, <3>1, Streams
    <3> QED
      BY <1>0, <1>1, <2>1, <3>1, <3>2 DEF OrderInv, EventsInOrder, Stream
  <2> QED
    BY <2>1, <2>5, <2>6
<1> QED
  BY <1>3, <1>4, <1>5 DEF Server

\* A step that moves no message.
LEMMA PlacesUnchanged ==
  ASSUME OrderInv, UNCHANGED <<answers, toServer, current, toClient, outstanding, pending,
                               raised, broken>>,
         loop' \in {"handling", "raising"} <=> loop \in {"handling", "raising"}
  PROVE  OrderInv'
<1>1. Places' = Places
  BY PlacesAre
<1> QED
  BY <1>1 DEF OrderInv, EventsInOrder

\* A ping on the way to the server.
LEMMA PingKeepsOrder ==
  ASSUME StreamTypes, OrderInv, toServer' = Append(toServer, Pong),
         UNCHANGED <<answers, current, toClient, outstanding, pending, raised, broken>>,
         loop' \in {"handling", "raising"} <=> loop \in {"handling", "raising"}
  PROVE  OrderInv'
<1> DEFINE s == Cat(answers, toServer)
           x == Cat(One(current), Cat(toClient, Cat(One(outstanding), pending)))
<1>0. /\ answers \in Stream /\ toServer \in Stream /\ toClient \in Stream /\ pending \in Stream
      /\ One(current) \in Stream /\ One(outstanding) \in Stream /\ Pong \in Nat
      /\ Unit(Pong) \in Stream
  BY StreamFacts
<1>1. /\ s \in Stream /\ x \in Stream /\ Cat(Unit(Pong), x) \in Stream
      /\ toServer' = Cat(toServer, Unit(Pong))
  BY <1>0, Streams, AppendedStream
<1>2. Places = Cat(s, x)
  BY <1>0, <1>1, Streams, PlacesAre
<1>3. Places' = Cat(s, Cat(Unit(Pong), x))
  <2>1. Places' = Cat(answers, Cat(Cat(toServer, Unit(Pong)), x))
    BY <1>1, PlacesAre
  <2>2. Cat(Cat(toServer, Unit(Pong)), x) = Cat(toServer, Cat(Unit(Pong), x))
    BY <1>0, <1>1, Streams
  <2>3. Cat(answers, Cat(toServer, Cat(Unit(Pong), x))) = Cat(s, Cat(Unit(Pong), x))
    BY <1>0, <1>1, Streams
  <2> QED
    BY <2>1, <2>2, <2>3
<1> HIDE DEF s, x
<1>4. InOrder(Places, raised) => InOrder(Places', raised)
  BY <1>1, <1>2, <1>3, PongsDoNotMatter
<1> QED
  BY <1>4 DEF OrderInv, EventsInOrder

\* The answer to the event that is handled.
LEMMA AnswerKeepsOrder ==
  ASSUME StreamTypes, OrderInv, current # None, current' = None,
         toServer' = Cat(toServer, Unit(current)),
         UNCHANGED <<answers, toClient, outstanding, pending, raised, broken>>,
         loop' \notin {"handling", "raising"}
  PROVE  OrderInv'
<1> DEFINE x == Cat(toClient, Cat(One(outstanding), pending))
<1>0. /\ answers \in Stream /\ toServer \in Stream /\ toClient \in Stream /\ pending \in Stream
      /\ One(outstanding) \in Stream /\ current \in Nat /\ Unit(current) \in Stream
      /\ One(current) = Unit(current) /\ One(current') = <<>>
  BY StreamFacts, OneMessage, Streams
<1>1. x \in Stream /\ Cat(<<>>, x) = x
  BY <1>0, Streams
<1>2. Places' = Cat(answers, Cat(Cat(toServer, Unit(current)), x))
  BY <1>0, <1>1, PlacesAre
<1>3. Cat(Cat(toServer, Unit(current)), x) = Cat(toServer, Cat(Unit(current), x))
  BY <1>0, <1>1, Streams
<1>4. Places' = Places
  BY <1>0, <1>2, <1>3, PlacesAre
<1> QED
  BY <1>4 DEF OrderInv, EventsInOrder

\* Receiving an event or a pong.
LEMMA ReceiveKeepsOrder ==
  ASSUME StreamTypes, OrderInv, Receive
  PROVE  OrderInv'
<1> DEFINE h == Head(toClient)
           r == Tail(toClient)
           s == Cat(answers, toServer)
           x == Cat(One(outstanding), pending)
<1>0. /\ answers \in Stream /\ toServer \in Stream /\ toClient \in Stream /\ pending \in Stream
      /\ One(outstanding) \in Stream /\ raised \in Nat /\ raised <= MaxEvents
  BY StreamFacts
<1>1. /\ h \in Nat /\ r \in Stream /\ toClient = Cat(Unit(h), r) /\ toClient' = r
      /\ Unit(h) \in Stream /\ s \in Stream /\ x \in Stream /\ Cat(r, x) \in Stream
      /\ UNCHANGED <<answers, toServer, outstanding, pending, raised, broken>>
      /\ loop = "receiving"
  BY <1>0, HeadThenTail, Streams DEF Receive
<1>2. CASE broken
  BY <1>1, <1>2 DEF OrderInv, EventsInOrder
<1>3. CASE ~broken
  <2>1. current = None /\ One(current) = <<>>
    BY <1>1, <1>3, OneMessage DEF OrderInv
  <2>2. Places = Cat(s, Cat(Unit(h), Cat(r, x)))
    <3>1. Cat(<<>>, Cat(toClient, x)) = Cat(Unit(h), Cat(r, x))
      BY <1>0, <1>1, Streams
    <3>2. Cat(answers, Cat(toServer, Cat(Unit(h), Cat(r, x)))) = Cat(s, Cat(Unit(h), Cat(r, x)))
      BY <1>0, <1>1, Streams
    <3> QED
      BY <2>1, <3>1, <3>2, PlacesAre
  <2>3. InOrder(Cat(s, Cat(Unit(h), Cat(r, x))), raised)
    BY <1>3, <2>2 DEF OrderInv, EventsInOrder
  <2> HIDE DEF s, x
  <2>4. h # None
    BY <1>0, <1>1, <2>3, EventsOnly
  <2>5. CASE h = Pong
    <3>1. UNCHANGED current /\ loop' = "ended"
      BY <2>5 DEF Receive, LeaveExec
    <3>2. Places' = Cat(s, Cat(r, x))
      <4>1. Cat(answers, Cat(toServer, Cat(r, x))) = Cat(s, Cat(r, x))
        BY <1>0, <1>1, Streams DEF s
      <4>2. Cat(<<>>, Cat(r, x)) = Cat(r, x)
        BY <1>1, Streams
      <4> QED
        BY <1>1, <2>1, <3>1, <4>1, <4>2, PlacesAre DEF x
    <3>3. InOrder(Places', raised)
      BY <1>1, <2>3, <2>5, <3>2, PongsDoNotMatter
    <3> QED
      BY <1>1, <2>1, <3>1, <3>3 DEF OrderInv, EventsInOrder
  <2>6. CASE h # Pong
    <3>1. current' = h /\ loop' = "handling"
      BY <2>6 DEF Receive
    <3>2. One(current') = Unit(h)
      BY <2>4, <3>1, OneMessage
    <3>3. Places' = Cat(s, Cat(Unit(h), Cat(r, x)))
      <4>1. Cat(answers, Cat(toServer, Cat(Unit(h), Cat(r, x)))) = Cat(s, Cat(Unit(h), Cat(r, x)))
        BY <1>0, <1>1, Streams DEF s
      <4> QED
        BY <1>1, <3>2, <4>1, PlacesAre DEF x
    <3> QED
      BY <1>1, <2>3, <2>4, <3>1, <3>3 DEF OrderInv, EventsInOrder
  <2> QED
    BY <2>5, <2>6
<1> QED
  BY <1>2, <1>3

\* Every step of the session keeps the order.
LEMMA OrderNext == StreamTypes /\ OrderInv /\ [SessionNext]_sessionVars => OrderInv'
<1> SUFFICES ASSUME StreamTypes, OrderInv, [SessionNext]_sessionVars PROVE OrderInv'
  OBVIOUS
<1>1. CASE UNCHANGED vars \/ Start \/ Stop \/ Join
  BY <1>1, PlacesUnchanged DEF vars, Start, Stop, Join, loopVars, serverVars
<1>2. CASE StopStep
  <2>1. CASE ExitTests \/ Clear
    BY <2>1, PlacesUnchanged DEF ExitTests, Clear, serverVars
  <2>2. CASE SendPing
    BY <2>2, PingKeepsOrder DEF SendPing, loopVars, serverVars
  <2> QED
    BY <1>2, <2>1, <2>2 DEF StopStep
<1>3. CASE LoopStep
  <2>1. CASE TargetTests \/ TargetCalls \/ EnterExec
    BY <2>1, PlacesUnchanged DEF TargetTests, TargetCalls, EnterExec, serverVars
  <2>2. CASE ReceiveFails
    BY <2>2 DEF ReceiveFails, serverVars, OrderInv, EventsInOrder
  <2>3. CASE Receive
    BY <2>3, ReceiveKeepsOrder
  <2>4. CASE HandlerStops
    <3>1. loop' = "raising" /\ loop = "handling" /\ UNCHANGED <<current, serverVars>>
      BY <2>4 DEF HandlerStops
    <3>2. toServer' = Append(toServer, Pong) \/ toServer' = toServer
      BY <2>4 DEF HandlerStops
    <3> QED
      BY <3>1, <3>2, PingKeepsOrder, PlacesUnchanged DEF serverVars
  <2>5. CASE HandlerReturns \/ HandlerRaises
    <3>1. /\ loop \in {"handling", "raising"} /\ loop' \notin {"handling", "raising"}
          /\ toServer' = Cat(toServer, Unit(current)) /\ current' = None /\ UNCHANGED serverVars
      BY <2>5 DEF HandlerReturns, HandlerRaises, Answer, Answers, LeaveExec, Cat, Unit
    <3>2. CASE broken
      BY <3>1, <3>2 DEF serverVars, OrderInv, EventsInOrder
    <3>3. CASE ~broken
      BY <3>1, <3>3, AnswerKeepsOrder DEF serverVars, OrderInv
    <3> QED
      BY <3>2, <3>3
  <2> QED
    BY <1>3, <2>1, <2>2, <2>3, <2>4, <2>5 DEF LoopStep
<1>4. CASE JoinFails
  BY <1>4, PlacesUnchanged DEF JoinFails, loopVars, serverVars
<1>5. CASE StopExpires
  <2>1. /\ current' = None /\ loop' = "ended" /\ UNCHANGED serverVars
        /\ toServer' = IF current = None THEN toServer ELSE Append(toServer, current)
    BY <1>5 DEF StopExpires, LeaveExec
  <2>2. CASE broken
    BY <2>1, <2>2 DEF serverVars, OrderInv, EventsInOrder
  <2>3. CASE current = None /\ ~broken
    BY <2>1, <2>3, PlacesUnchanged DEF serverVars, OrderInv
  <2>4. CASE current # None /\ ~broken
    <3>1. toServer' = Cat(toServer, Unit(current))
      BY <2>1, <2>4, StreamFacts, AppendedStream
    <3> QED
      BY <2>1, <2>4, <3>1, AnswerKeepsOrder DEF serverVars
  <2> QED
    BY <2>2, <2>3, <2>4
<1>6. CASE ServerStep
  BY <1>6, ServerKeepsOrder DEF ServerStep
<1>7. CASE Store \/ Enter \/ Close \/ CloseAgain \/ Joined \/ CloseStream \/ CloseChannel \/ Terminate
  <2>1. UNCHANGED vars \/ Start \/ Stop \/ Join
    BY <1>7 DEF Store, Instance, Acquire, Found, Launch, Opens, OpenFails, Enter, Close, CloseAgain,
                Joined, CloseStream, CloseChannel, Terminate
  <2> QED
    BY <1>1, <2>1
<1>8. CASE UNCHANGED sessionVars
  BY <1>1, <1>8 DEF sessionVars
<1> QED
  BY <1>2, <1>3, <1>4, <1>5, <1>6, <1>7, <1>8 DEF SessionNext, CloseStep

\* Every event is in one place on its way to the client or back, and in the
\* order of raising, whoever stops the loop and whatever its handlers raise.
THEOREM EventsStayInOrder == SessionSpec => []EventsInOrder
<1>1. SessionInit => OrderInv
  <2> SUFFICES ASSUME SessionInit PROVE OrderInv
    OBVIOUS
  <2>1. /\ answers = <<>> /\ toServer = <<>> /\ current = None /\ toClient = <<>>
        /\ outstanding = None /\ pending = <<>> /\ raised = 0 /\ loop = "none"
    BY DEF SessionInit, Init
  <2>2. Places = <<>>
    BY <2>1, PlacesAre, OneMessage, Streams
  <2>3. InOrder(<<>>, 0)
    BY DEF InOrder, Range
  <2> QED
    BY <2>1, <2>2, <2>3, LoopAssumption DEF OrderInv, EventsInOrder
<1>2. OrderInv => EventsInOrder
  BY DEF OrderInv
<1>3. PongInv => StreamTypes
  BY DEF PongInv
<1> QED
  BY <1>1, <1>2, <1>3, PongInit, PongNext, OrderNext, PTL DEF SessionSpec
================================================================================
