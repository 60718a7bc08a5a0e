-------------------------- MODULE ClientMembers_proofs --------------------------
(***************************************************************************)
(* Proofs about an object's members as the Python client uses them, for    *)
(* any constants that satisfy the assumptions of the modules.              *)
(*                                                                         *)
(* EventHandlers: the types of its state, that the server's count of       *)
(* connections follows the client's list of handlers, and that an event is *)
(* answered after its handlers have run, or one of them has raised.        *)
(*                                                                         *)
(* GeneratedClient: that a generated module can be imported, but for known *)
(* exceptions, that what it declares is found at the server, that requests *)
(* reach the member that was meant with arguments it takes, and what is    *)
(* read of what was assigned.  They follow from two invariants: GenInv, of *)
(* the generator, and AccessInv, of the accesses.                          *)
(***************************************************************************)
EXTENDS EventHandlers, GeneratedClient, SequenceTheorems, WellFoundedInduction, TLAPS

-----------------------------------------------------------------------------
(* Type correctness. *)

\* A list that has a handler has a first place with it.
LEMMA FirstPlace ==
  ASSUME NEW list \in Seq(Handlers), NEW h \in Range(list)
  PROVE  \E k \in DOMAIN list : list[k] = h /\ \A j \in 1..(k-1) : list[j] # h
<1> DEFINE T == {k \in Nat : k \in DOMAIN list /\ list[k] = h}
<1>1. DOMAIN list = 1..Len(list) /\ Len(list) \in Nat
  BY LenProperties
<1>2. T \subseteq Nat /\ T # {}
  BY <1>1 DEF Range
<1>3. \E k \in T : \A j \in T : ~(<<j, k>> \in OpToRel(<, Nat))
  BY <1>2, WFMin, NatLessThanWellFounded
<1>4. \E k \in T : \A j \in T : ~(j < k)
  BY <1>2, <1>3 DEF OpToRel
<1>5. PICK k \in T : \A j \in T : ~(j < k)
  BY <1>4
<1>6. \A j \in 1..(k-1) : j \in Nat /\ j \in DOMAIN list /\ j < k
  BY <1>1, <1>5
<1> QED
  BY <1>5, <1>6

\* Taking it out leaves a list of handlers.
LEMMA RemovalTypes ==
  ASSUME NEW list \in Seq(Handlers), NEW h \in Range(list)
  PROVE  RemoveFirstOf(list, h) \in Seq(Handlers)
<1> DEFINE k == CHOOSE k \in DOMAIN list : list[k] = h /\ \A j \in 1..(k-1) : list[j] # h
<1>1. k \in DOMAIN list
  BY FirstPlace
<1>2. DOMAIN list = 1..Len(list) /\ Len(list) \in Nat
  BY LenProperties
<1>3. k \in 1..Len(list)
  BY <1>1, <1>2
<1> HIDE DEF k
<1>4. /\ \A i \in 1..(k-1) : list[i] \in Handlers
      /\ \A i \in (k+1)..Len(list) : list[i] \in Handlers
  BY <1>2, <1>3, ElementOfSeq
<1>5. SubSeq(list, 1, k-1) \in Seq(Handlers)
  BY <1>3, <1>4, SubSeqProperties
<1>6. SubSeq(list, k+1, Len(list)) \in Seq(Handlers)
  BY <1>2, <1>3, <1>4, SubSeqProperties
<1>7. RemoveAt(list, k) \in Seq(Handlers)
  BY <1>5, <1>6, ConcatProperties DEF RemoveAt
<1> QED
  BY <1>7 DEF RemoveFirstOf, k

\* The types hold initially.
LEMMA TypeInit == Init => TypeOK
<1> SUFFICES ASSUME Init PROVE TypeOK
  OBVIOUS
<1>1. <<>> \in Seq(Handlers)
  BY EmptySeq
<1>2. aio \in BOOLEAN
  BY DEF Init
<1>3. 0 \in 0..MaxEvents /\ 0 \in 0..MaxFailures
  BY HandlersAssumption
<1>4. /\ handlers \in Seq(Handlers) /\ todo \in Seq(Handlers)
      /\ lock \in Clients \cup {None} /\ context \in [Clients -> 0..MaxEvents]
      /\ call \in [Clients -> {"none", "sent", "ok", "failed"}]
  BY <1>1, <1>3 DEF Init
<1>5. pending \in [Clients -> {NoOp} \cup [kind : {"connect", "disconnect"}, handler : Handlers]]
  BY DEF Init
<1> QED
  BY <1>2, <1>3, <1>4, <1>5 DEF Init, TypeOK

\* A thread takes up a call of its types.
LEMMA BeginTypes ==
  ASSUME TypeOK, NEW t \in Clients, NEW kind \in {"connect", "disconnect"},
         NEW h \in Handlers, Begin(t, kind, h)
  PROVE  /\ context' \in [Clients -> 0..MaxEvents] /\ lock' \in Clients \cup {None}
         /\ call' \in [Clients -> {"none", "sent", "ok", "failed"}]
         /\ pending' \in [Clients -> {NoOp} \cup
                            [kind : {"connect", "disconnect"}, handler : Handlers]]
<1>1. CurrentContext(t) \in 0..MaxEvents
  BY HandlersAssumption DEF TypeOK, CurrentContext
<1>2. [kind |-> kind, handler |-> h] \in [kind : {"connect", "disconnect"}, handler : Handlers]
  OBVIOUS
<1>3. context' \in [Clients -> 0..MaxEvents]
  BY <1>1 DEF TypeOK, Begin
<1>4. pending' \in [Clients -> {NoOp} \cup
                     [kind : {"connect", "disconnect"}, handler : Handlers]]
  BY <1>2 DEF TypeOK, Begin
<1> QED
  BY <1>3, <1>4 DEF TypeOK, Begin

\* Every step keeps the types.
LEMMA TypeNext == TypeOK /\ [Next]_vars => TypeOK'
<1> SUFFICES ASSUME TypeOK, [Next]_vars PROVE TypeOK'
  OBVIOUS
<1> USE DEF clientVars, loopVars
<1>1. ASSUME NEW t \in Clients, NEW h \in Handlers, Connect(t, h) PROVE TypeOK'
  <2>1. CASE Begin(t, "connect", h) /\ UNCHANGED handlers
    BY <1>1, <2>1, BeginTypes DEF Connect, TypeOK
  <2>2. CASE handlers' = Append(handlers, h) /\ UNCHANGED <<lock, pending, call, context>>
    <3>1. handlers' \in Seq(Handlers)
      BY <2>2, AppendProperties DEF TypeOK
    <3> QED
      BY <1>1, <2>2, <3>1 DEF Connect, TypeOK
  <2> QED
    BY <1>1, <2>1, <2>2 DEF Connect
<1>2. ASSUME NEW t \in Clients, NEW h \in Handlers, Disconnect(t, h) PROVE TypeOK'
  <2>1. handlers' \in Seq(Handlers) /\ due' \subseteq Handlers /\ todo' \in Seq(Handlers)
    BY <1>2, RemovalTypes DEF Disconnect, TypeOK, LeftToRun
  <2>2. CASE Begin(t, "disconnect", h)
    BY <1>2, <2>1, <2>2, BeginTypes DEF Disconnect, TypeOK
  <2>3. CASE UNCHANGED <<lock, pending, call, context>>
    BY <1>2, <2>1, <2>3 DEF Disconnect, TypeOK
  <2> QED
    BY <1>2, <2>2, <2>3 DEF Disconnect
<1>3. ASSUME NEW t \in Clients, CallReturns(t) PROVE TypeOK'
  <2>1. handlers' \in Seq(Handlers)
    <3>1. Connected(t) => pending[t].handler \in Handlers
      BY DEF TypeOK, Connected, NoOp
    <3> QED
      BY <1>3, <3>1, AppendProperties DEF CallReturns, TypeOK
  <2>2. context' \in [Clients -> 0..MaxEvents]
    BY <1>3, HandlersAssumption DEF CallReturns, TypeOK
  <2> QED
    BY <1>3, <2>1, <2>2 DEF CallReturns, Release, TypeOK
<1>4. ASSUME NEW t \in Clients, Execute(t) PROVE TypeOK'
  <2>0. None \notin Int /\ MaxFailures \in Nat
    BY HandlersAssumption
  <2>1. count' \in Nat \cup {None}
    BY <1>4, <2>0 DEF Execute, TypeOK, ConnectPeer, DisconnectPeer
  <2>2. failures' \in 0..MaxFailures
    BY <1>4, <2>0 DEF Execute, TypeOK
  <2>3. call' \in [Clients -> {"none", "sent", "ok", "failed"}]
    BY <1>4 DEF Execute, TypeOK
  <2>4. UNCHANGED <<aio, handlers, lock, pending, context, loopVars, main, due, events>>
    BY <1>4 DEF Execute
  <2> QED
    BY <2>1, <2>2, <2>3, <2>4 DEF TypeOK
<1>5. ASSUME NEW t \in Clients, CallFails(t) PROVE TypeOK'
  <2>1. failures' \in 0..MaxFailures
    BY <1>5, HandlersAssumption DEF CallFails, TypeOK
  <2> QED
    BY <1>5, <2>1 DEF CallFails, TypeOK
<1>6. CASE Fire
  <2>1. events' \in 0..MaxEvents
    BY <1>6, HandlersAssumption DEF Fire, TypeOK
  <2>2. due' \subseteq Handlers
    BY <1>6, RangeOfSeq DEF Fire, TypeOK
  <2> QED
    BY <1>6, <2>1, <2>2 DEF Fire, TypeOK
<1>7. CASE LoopStep
  <2>1. CASE ReceiveEvent \/ CopyHandlers \/ HandlerEnds \/ AnswerEvent
    BY <2>1 DEF ReceiveEvent, CopyHandlers, HandlerEnds, HandlerReturns, HandlerRaises,
       AnswerEvent, TypeOK
  <2>2. CASE RunHandler
    <3>1. Head(todo) \in Handlers /\ Tail(todo) \in Seq(Handlers)
      BY <2>2, HeadTailProperties DEF RunHandler, TypeOK
    <3> QED
      BY <2>2, <3>1 DEF RunHandler, TypeOK
  <2> QED
    BY <1>7, <2>1, <2>2 DEF LoopStep
<1>8. CASE UNCHANGED vars
  BY <1>8 DEF vars, TypeOK
<1> QED
  BY <1>1, <1>2, <1>3, <1>4, <1>5, <1>6, <1>7, <1>8 DEF Next

\* Every reachable state of EventHandlers has the types of TypeOK.
THEOREM TypeCorrect == Spec => []TypeOK
  BY TypeInit, TypeNext, PTL DEF Spec

-----------------------------------------------------------------------------
(* ServerKnowsHandlers and CountFollowsList.  The two sides agree because  *)
(* the client changes its list and calls the server under one lock: while  *)
(* a thread's call is under way the list is empty and no other thread has  *)
(* one.  The server owes the client one connection while the list has a    *)
(* handler, after it executed the connect that will put one there, and     *)
(* until it executes the disconnect that follows the last; every call that *)
(* failed may have left one more.                                          *)

OnlyOwnerCalls ==
  \A t \in Clients :
    /\ call[t] # "none" <=> pending[t] # NoOp
    /\ pending[t] # NoOp => lock = t /\ handlers = <<>>

Counted(t) ==
  \/ pending[t].kind = "connect" /\ call[t] = "ok"
  \/ pending[t].kind = "disconnect" /\ call[t] = "sent"

Owed == handlers # <<>> \/ \E t \in Clients : Counted(t)

CountInv ==
  /\ Owed => count # None /\ 1 <= count /\ count <= 1 + failures
  /\ ~Owed => count = None \/ (0 <= count /\ count <= failures)

HandlerInv == TypeOK /\ OnlyOwnerCalls /\ CountInv

\* It holds initially.
LEMMA HandlerInit == Init => HandlerInv
<1> SUFFICES ASSUME Init PROVE HandlerInv
  OBVIOUS
<1>1. OnlyOwnerCalls
  BY DEF Init, OnlyOwnerCalls
<1>2. ~Owed
  BY DEF Init, Owed, Counted
<1>3. CountInv
  BY <1>2 DEF Init, CountInv
<1> QED
  BY <1>1, <1>3, TypeInit DEF HandlerInv

\* connect and disconnect take the lock only to call with an empty list.
LEMMA BeginKeeps ==
  ASSUME HandlerInv, NEW t \in Clients, NEW kind \in {"connect", "disconnect"},
         NEW h \in Handlers, Begin(t, kind, h), lock = None, handlers' = <<>>
  PROVE  /\ OnlyOwnerCalls'
         /\ \A u \in Clients : ~Counted(u)
         /\ (\E u \in Clients : Counted(u))' <=> kind = "disconnect"
<1>0. TypeOK /\ OnlyOwnerCalls
  BY DEF HandlerInv
<1>1. \A u \in Clients : pending[u] = NoOp /\ call[u] = "none"
  BY <1>0, HandlersAssumption DEF OnlyOwnerCalls, Clients
<1>2. \A u \in Clients :
        /\ pending'[u] = IF u = t THEN [kind |-> kind, handler |-> h] ELSE pending[u]
        /\ call'[u] = IF u = t THEN "sent" ELSE call[u]
  BY <1>0 DEF Begin, TypeOK
<1>3. lock' = t
  BY DEF Begin
<1>4. [kind |-> kind, handler |-> h] # NoOp
  BY DEF NoOp
<1>5. OnlyOwnerCalls'
  BY <1>1, <1>2, <1>3, <1>4 DEF OnlyOwnerCalls
<1>6. \A u \in Clients : ~Counted(u)
  BY <1>1 DEF Counted
<1>7. (\E u \in Clients : Counted(u))' <=> kind = "disconnect"
  BY <1>1, <1>2 DEF Counted, NoOp
<1> QED
  BY <1>5, <1>6, <1>7

\* While a call is under way, it alone decides what the server owes.
LEMMA OwedByOwner ==
  ASSUME HandlerInv, NEW t \in Clients, call[t] # "none"
  PROVE  /\ lock = t /\ handlers = <<>>
         /\ pending[t].kind \in {"connect", "disconnect"}
         /\ \A u \in Clients : u # t => call[u] = "none" /\ pending[u] = NoOp
         /\ Owed <=> Counted(t)
<1>0. TypeOK /\ OnlyOwnerCalls
  BY DEF HandlerInv
<1>1. /\ lock = t /\ handlers = <<>> /\ pending[t] # NoOp
      /\ \A u \in Clients : u # t => call[u] = "none" /\ pending[u] = NoOp
  BY <1>0 DEF OnlyOwnerCalls, TypeOK
<1>2. pending[t].kind \in {"connect", "disconnect"}
  BY <1>0, <1>1 DEF TypeOK
<1>3. Owed <=> Counted(t)
  BY <1>1 DEF Owed, Counted
<1> QED
  BY <1>1, <1>2, <1>3

\* Every step keeps the invariant.
LEMMA HandlerNext == HandlerInv /\ [Next]_vars => HandlerInv'
<1> SUFFICES ASSUME HandlerInv, [Next]_vars PROVE OnlyOwnerCalls' /\ CountInv'
  BY TypeNext DEF HandlerInv
<1>0. TypeOK /\ OnlyOwnerCalls /\ CountInv
  BY DEF HandlerInv
<1>a. None \notin Int /\ None \notin Clients
  BY HandlersAssumption DEF Clients
<1>b. count \in Nat \cup {None} /\ failures \in Nat
  BY <1>0, HandlersAssumption DEF TypeOK
<1>c. lock = None => \A u \in Clients : call[u] = "none" /\ pending[u] = NoOp
  BY <1>0, <1>a DEF OnlyOwnerCalls
<1>1. ASSUME NEW t \in Clients, NEW h \in Handlers, Connect(t, h)
      PROVE  OnlyOwnerCalls' /\ CountInv'
  <2>0. lock = None /\ UNCHANGED <<count, failures>>
    BY <1>1 DEF Connect, MayCall
  <2>1. CASE NeedsCall(handlers) /\ Begin(t, "connect", h) /\ UNCHANGED handlers
    <3>1. handlers = <<>> /\ handlers' = <<>>
      BY <2>1 DEF NeedsCall
    <3>2. OnlyOwnerCalls' /\ ~Owed /\ ~Owed'
      BY <2>0, <2>1, <3>1, BeginKeeps DEF Owed
    <3> QED
      BY <1>0, <2>0, <3>2 DEF CountInv
  <2>2. CASE /\ ~NeedsCall(handlers) /\ handlers' = Append(handlers, h)
             /\ UNCHANGED <<lock, pending, call, context>>
    <3>1. handlers # <<>> /\ handlers' # <<>>
      BY <1>0, <2>2, AppendProperties DEF NeedsCall, TypeOK
    <3>2. OnlyOwnerCalls'
      BY <1>0, <1>c, <2>0, <2>2 DEF OnlyOwnerCalls
    <3>3. Owed /\ Owed'
      BY <3>1 DEF Owed
    <3> QED
      BY <1>0, <2>0, <3>2, <3>3 DEF CountInv
  <2> QED
    BY <1>1, <2>1, <2>2 DEF Connect
<1>2. ASSUME NEW t \in Clients, NEW h \in Handlers, Disconnect(t, h)
      PROVE  OnlyOwnerCalls' /\ CountInv'
  <2>0. lock = None /\ UNCHANGED <<count, failures>>
    BY <1>2 DEF Disconnect, MayCall
  <2>1. handlers # <<>>
    <3>1. h \in Range(handlers)
      BY <1>2 DEF Disconnect
    <3>2. Range(handlers) = {handlers[i] : i \in 1..Len(handlers)}
      BY <1>0, RangeEquality DEF TypeOK
    <3> QED
      BY <3>1, <3>2
  <2>2. Owed
    BY <2>1 DEF Owed
  <2>3. CASE NeedsCall(handlers') /\ Begin(t, "disconnect", h)
    <3>1. handlers' = <<>>
      BY <2>3 DEF NeedsCall
    <3>2. OnlyOwnerCalls' /\ Owed'
      BY <2>0, <2>3, <3>1, BeginKeeps DEF Owed
    <3> QED
      BY <1>0, <2>0, <2>2, <3>2 DEF CountInv
  <2>4. CASE ~NeedsCall(handlers') /\ UNCHANGED <<lock, pending, call, context>>
    <3>1. OnlyOwnerCalls'
      BY <1>0, <1>c, <2>0, <2>4 DEF OnlyOwnerCalls
    <3>2. Owed'
      BY <2>4 DEF Owed, NeedsCall
    <3> QED
      BY <1>0, <2>0, <2>2, <3>1, <3>2 DEF CountInv
  <2> QED
    BY <1>2, <2>3, <2>4 DEF Disconnect
<1>3. ASSUME NEW t \in Clients, CallReturns(t)
      PROVE  OnlyOwnerCalls' /\ CountInv'
  <2>0. UNCHANGED <<count, failures>> /\ call[t] \in {"ok", "failed"}
    BY <1>3 DEF CallReturns
  <2>1. /\ handlers = <<>> /\ pending[t].kind \in {"connect", "disconnect"}
        /\ \A u \in Clients : u # t => call[u] = "none" /\ pending[u] = NoOp
        /\ Owed <=> Counted(t)
    BY <2>0, OwedByOwner
  <2>2. \A u \in Clients : call'[u] = "none" /\ pending'[u] = NoOp
    BY <1>0, <1>3, <2>1 DEF CallReturns, TypeOK
  <2>3. OnlyOwnerCalls'
    BY <2>2 DEF OnlyOwnerCalls
  <2>4. Owed' <=> handlers' # <<>>
    BY <2>2 DEF Owed, Counted
  <2>5. handlers' # <<>> <=> Connected(t)
    <3>1. CASE Connected(t)
      <4>1. pending[t].handler \in Handlers
        BY <1>0, <2>1, <3>1 DEF Connected, TypeOK, NoOp
      <4> QED
        BY <1>0, <1>3, <3>1, <4>1, AppendProperties DEF CallReturns, TypeOK
    <3>2. CASE ~Connected(t)
      BY <1>3, <2>1, <3>2 DEF CallReturns
    <3> QED
      BY <3>1, <3>2
  <2>6. Counted(t) <=> Connected(t)
    BY <2>0, <2>1 DEF Counted, Connected
  <2> QED
    BY <1>0, <2>0, <2>1, <2>3, <2>4, <2>5, <2>6 DEF CountInv
<1>4. ASSUME NEW t \in Clients, Execute(t)
      PROVE  OnlyOwnerCalls' /\ CountInv'
  <2>0. call[t] = "sent" /\ UNCHANGED <<handlers, lock, pending>>
    BY <1>4 DEF Execute
  <2>1. /\ handlers = <<>> /\ pending[t].kind \in {"connect", "disconnect"}
        /\ \A u \in Clients : u # t => call[u] = "none" /\ pending[u] = NoOp
        /\ Owed <=> Counted(t)
    BY <2>0, OwedByOwner
  <2>2. PICK result \in {"ok", "failed"} : call' = [call EXCEPT ![t] = result]
    BY <1>4 DEF Execute
  <2>3. \A u \in Clients : call'[u] = IF u = t THEN result ELSE call[u]
    BY <1>0, <2>2 DEF TypeOK
  <2>4. OnlyOwnerCalls'
    BY <1>0, <2>0, <2>3 DEF OnlyOwnerCalls
  <2>5. Owed' <=> pending[t].kind = "connect" /\ result = "ok"
    BY <2>0, <2>1, <2>3 DEF Owed, Counted
  <2>6. Owed <=> pending[t].kind = "disconnect"
    BY <2>0, <2>1 DEF Counted
  <2>7. \/ /\ pending[t].kind = "connect" /\ count' = ConnectPeer(count)
           /\ failures' = IF result = "ok" THEN failures ELSE failures + 1
        \/ /\ pending[t].kind = "disconnect" /\ count # None /\ count' = DisconnectPeer(count)
           /\ failures' = IF result = "ok" THEN failures ELSE failures + 1
        \/ pending[t].kind = "disconnect" /\ count = None
    <3>1. call'[t] = result
      BY <2>3
    <3>2. \A r \in {"ok", "failed"} : call' = [call EXCEPT ![t] = r] => r = result
      BY <1>0, <3>1 DEF TypeOK
    <3> QED
      BY <1>4, <3>2 DEF Execute
  <2>8. CountInv'
    <3>1. CASE pending[t].kind = "connect"
      <4>1. count = None \/ (0 <= count /\ count <= failures)
        BY <1>0, <2>6, <3>1 DEF CountInv
      <4>2. /\ count' # None /\ 1 <= count' /\ count' <= 1 + failures
            /\ failures' = IF result = "ok" THEN failures ELSE failures + 1
        BY <1>a, <1>b, <2>7, <3>1, <4>1 DEF ConnectPeer
      <4>3. CASE result = "ok"
        BY <2>5, <3>1, <4>2, <4>3 DEF CountInv
      <4>4. CASE result = "failed"
        <5>1. 0 <= count' /\ count' <= failures'
          BY <1>a, <1>b, <2>7, <3>1, <4>1, <4>2, <4>4 DEF ConnectPeer
        <5> QED
          BY <2>5, <4>4, <5>1 DEF CountInv
      <4> QED
        BY <4>3, <4>4
    <3>2. CASE pending[t].kind = "disconnect"
      <4>1. count # None /\ 1 <= count /\ count <= 1 + failures
        BY <1>0, <2>6, <3>2 DEF CountInv
      <4>2. /\ count' = DisconnectPeer(count)
            /\ failures' = failures \/ failures' = failures + 1
        BY <2>7, <3>2, <4>1
      <4>3. count' = count - 1
        BY <1>b, <4>1, <4>2 DEF DisconnectPeer
      <4>4. 0 <= count' /\ count' <= failures'
        BY <1>b, <4>1, <4>2, <4>3
      <4> QED
        BY <2>5, <3>2, <4>4 DEF CountInv
    <3> QED
      BY <2>1, <3>1, <3>2
  <2> QED
    BY <2>4, <2>8
<1>5. ASSUME NEW t \in Clients, CallFails(t)
      PROVE  OnlyOwnerCalls' /\ CountInv'
  <2>0. /\ call[t] = "sent" /\ UNCHANGED <<handlers, lock, pending, count>>
        /\ failures' = failures + 1
    BY <1>5 DEF CallFails
  <2>1. /\ handlers = <<>> /\ pending[t].kind \in {"connect", "disconnect"}
        /\ \A u \in Clients : u # t => call[u] = "none" /\ pending[u] = NoOp
    BY <2>0, OwedByOwner
  <2>2. \A u \in Clients : call'[u] = IF u = t THEN "failed" ELSE call[u]
    BY <1>0, <1>5 DEF CallFails, TypeOK
  <2>3. OnlyOwnerCalls'
    BY <1>0, <2>0, <2>2 DEF OnlyOwnerCalls
  <2>4. ~Owed'
    BY <2>0, <2>1, <2>2 DEF Owed, Counted, NoOp
  <2>5. count = None \/ (0 <= count /\ count <= failures + 1)
    BY <1>0, <1>b DEF CountInv
  <2> QED
    BY <2>0, <2>3, <2>4, <2>5 DEF CountInv
<1>6. ASSUME UNCHANGED <<handlers, lock, call, pending, count, failures>>
      PROVE  OnlyOwnerCalls' /\ CountInv'
  <2>1. OnlyOwnerCalls'
    BY <1>0, <1>6 DEF OnlyOwnerCalls
  <2>2. Owed' <=> Owed
    BY <1>6 DEF Owed, Counted
  <2> QED
    BY <1>0, <1>6, <2>1, <2>2 DEF CountInv
<1>7. CASE Fire \/ LoopStep \/ UNCHANGED vars
  BY <1>6, <1>7
     DEF Fire, LoopStep, ReceiveEvent, CopyHandlers, RunHandler, HandlerEnds,
         HandlerReturns, HandlerRaises, AnswerEvent, vars, clientVars
<1> QED
  BY <1>1, <1>2, <1>3, <1>4, <1>5, <1>7 DEF Next

\* The invariant holds of every state.
LEMMA HandlerAlways == Spec => []HandlerInv
  BY HandlerInit, HandlerNext, PTL DEF Spec

\* A client with a handler in its list is a target of the event at the server,
\* also after calls that failed on either way.
THEOREM HandlersAreKnown == Spec => []ServerKnowsHandlers
<1>1. HandlerInv => ServerKnowsHandlers
  BY DEF HandlerInv, CountInv, Owed, ServerKnowsHandlers, IsTarget
<1> QED
  BY <1>1, HandlerAlways, PTL

\* When no call is under way the server counts one connection for a client
\* with handlers, none for one without, and at most one more per failed call.
THEOREM CountIsRight == Spec => []CountFollowsList
<1>1. HandlerInv => CountFollowsList
  <2> SUFFICES ASSUME HandlerInv, lock = None, count # None PROVE CountFollowsList
    BY DEF CountFollowsList
  <2>0. None \notin Clients
    BY HandlersAssumption DEF Clients
  <2>1. \A u \in Clients : ~Counted(u)
    BY <2>0 DEF HandlerInv, OnlyOwnerCalls, Counted, NoOp
  <2>2. Owed <=> handlers # <<>>
    BY <2>1 DEF Owed
  <2>3. CASE handlers = <<>>
    <3>1. failures \in Nat
      BY HandlersAssumption DEF HandlerInv, TypeOK
    <3>2. 0 <= count /\ count <= failures
      BY <2>2, <2>3 DEF HandlerInv, CountInv
    <3> QED
      BY <2>3, <3>1, <3>2 DEF CountFollowsList
  <2>4. CASE handlers # <<>>
    BY <2>2, <2>4 DEF HandlerInv, CountInv, CountFollowsList
  <2> QED
    BY <2>3, <2>4
<1> QED
  BY <1>1, HandlerAlways, PTL
-----------------------------------------------------------------------------
(* The handlers of an event.  Until the list is copied, the handlers that  *)
(* are due are in the list; from then on, they have run or are in the copy *)
(* that is left, and so it stays when a handler raises.  The main thread   *)
(* waits exactly as long as the loop is at the event, until the loop has   *)
(* ended.                                                                  *)

DueInv ==
  /\ loop # "ended" => (main = "waiting" <=> loop # "idle")
  /\ loop \in {"sent", "event"} => due \subseteq Range(handlers)
  /\ loop \in {"next", "handler"} => due \subseteq ran \cup Range(todo)

\* Adding a handler to a list keeps those in it.
LEMMA AppendKeepsRange ==
  ASSUME NEW S, NEW list \in Seq(S), NEW h \in S
  PROVE  Range(list) \subseteq Range(Append(list, h))
  BY AppendProperties, LenProperties DEF Range

\* Taking the head off a list loses no other handler.
LEMMA HeadAndTail ==
  ASSUME NEW S, NEW list \in Seq(S), list # <<>>
  PROVE  Range(list) \subseteq {Head(list)} \cup Range(Tail(list))
<1> SUFFICES ASSUME NEW k \in DOMAIN list, list[k] # Head(list)
             PROVE  list[k] \in Range(Tail(list))
  BY DEF Range
<1>1. /\ DOMAIN list = 1..Len(list) /\ Len(list) \in Nat \ {0}
      /\ Tail(list) \in Seq(S) /\ Len(Tail(list)) = Len(list) - 1
      /\ \A i \in 1..Len(Tail(list)) : Tail(list)[i] = list[i+1]
  BY HeadTailProperties, LenProperties, EmptySeq
<1>2. Head(list) = list[1]
  BY HeadTailProperties
<1>3. k - 1 \in 1..Len(Tail(list)) /\ DOMAIN Tail(list) = 1..Len(Tail(list))
  BY <1>1, <1>2, LenProperties
<1>4. Tail(list)[k-1] = list[k]
  BY <1>1, <1>3
<1> QED
  BY <1>3, <1>4 DEF Range

\* Every step keeps DueInv.
LEMMA DueNext == TypeOK /\ DueInv /\ [Next]_vars => DueInv'
<1> SUFFICES ASSUME TypeOK, DueInv, [Next]_vars PROVE DueInv'
  OBVIOUS
<1> USE DEF clientVars, loopVars
<1>0. /\ handlers \in Seq(Handlers) /\ todo \in Seq(Handlers)
      /\ loop \in {"idle", "sent", "event", "next", "handler", "ended"}
      /\ main \in {"free", "waiting"}
  BY DEF TypeOK
<1>1. ASSUME NEW t \in Clients, NEW h \in Handlers, Connect(t, h) PROVE DueInv'
  <2>1. UNCHANGED <<main, due, loop, ran, todo>> /\ handlers' \in {handlers, Append(handlers, h)}
    BY <1>1 DEF Connect
  <2> QED
    BY <1>0, <2>1, AppendKeepsRange DEF DueInv
<1>2. ASSUME NEW t \in Clients, NEW h \in Handlers, Disconnect(t, h) PROVE DueInv'
  <2>1. UNCHANGED <<main, loop, ran, todo>> /\ due' = due \cap Range(handlers')
    BY <1>2 DEF Disconnect, LeftToRun
  <2> QED
    BY <2>1 DEF DueInv
<1>3. ASSUME NEW t \in Clients, CallReturns(t) PROVE DueInv'
  <2>1. /\ UNCHANGED <<main, due, loop, ran, todo>>
        /\ \/ handlers' = handlers
           \/ handlers' = Append(handlers, pending[t].handler) /\ pending[t].kind = "connect"
    BY <1>3 DEF CallReturns, Connected
  <2>2. pending[t].kind = "connect" => pending[t].handler \in Handlers
    BY DEF TypeOK, NoOp
  <2> QED
    BY <1>0, <2>1, <2>2, AppendKeepsRange DEF DueInv
<1>4. ASSUME NEW t \in Clients, Execute(t) \/ CallFails(t) PROVE DueInv'
  <2>1. UNCHANGED <<main, due, loop, ran, todo, handlers>>
    BY <1>4 DEF Execute, CallFails
  <2> QED
    BY <2>1 DEF DueInv
<1>5. CASE Fire
  BY <1>0, <1>5 DEF Fire, DueInv
<1>6. CASE ReceiveEvent \/ CopyHandlers \/ HandlerEnds \/ AnswerEvent \/ UNCHANGED vars
  BY <1>6 DEF ReceiveEvent, CopyHandlers, HandlerEnds, HandlerReturns, HandlerRaises,
     AnswerEvent, DueInv, vars
<1>7. CASE RunHandler
  <2>1. Range(todo) \subseteq {Head(todo)} \cup Range(Tail(todo))
    BY <1>0, <1>7, HeadAndTail DEF RunHandler
  <2> QED
    BY <1>7, <2>1 DEF RunHandler, DueInv
<1> QED
  BY <1>1, <1>2, <1>3, <1>4, <1>5, <1>6, <1>7 DEF Next, LoopStep

\* Every handler connected when the event fires, and not disconnected since,
\* has run when the event is answered; but those behind a handler that raised.
THEOREM HandlersRun == Spec => DueHandlersRun
<1> DEFINE Run == due \subseteq IF loop' = "ended" THEN ran \cup Range(todo) ELSE ran
<1>1. Init => DueInv
  BY DEF Init, DueInv
<1>2. TypeOK /\ DueInv /\ [Next]_vars => [main = "waiting" /\ main' = "free" => Run]_vars
  <2> SUFFICES ASSUME TypeOK, DueInv, [Next]_vars, main = "waiting", main' = "free"
               PROVE  Run
    OBVIOUS
  <2>1. AnswerEvent \/ HandlerRaises
    BY DEF Next, Connect, Disconnect, CallReturns, Execute, CallFails, Fire, LoopStep,
       ReceiveEvent, CopyHandlers, RunHandler, HandlerEnds, HandlerReturns, vars, clientVars,
       loopVars
  <2>2. CASE AnswerEvent
    <3>1. Range(todo) = {}
      BY <2>2 DEF AnswerEvent, Range
    <3> QED
      BY <2>2, <3>1 DEF AnswerEvent, DueInv
  <2>3. CASE HandlerRaises
    BY <2>3 DEF HandlerRaises, DueInv
  <2> QED
    BY <2>1, <2>2, <2>3
<1> QED
  BY <1>1, <1>2, TypeInit, TypeNext, DueNext, PTL DEF Spec, DueHandlersRun

-----------------------------------------------------------------------------
(* From a type library to the access of a member.  The definitions that    *)
(* the generator writes for an item, each for one of its entries.          *)

DefinitionsOf(item) ==
  {NamedMethod(e, SpecialName(e)) : e \in {e \in Entries(item) : IsSpecial(e)}}
    \cup (IF item.sink
          THEN {Event(e) : e \in {e \in Entries(item) : IsSpecial(e) => e \in Range(item.puts)}}
          ELSE {Method(e) : e \in {e \in Range(item.funcs) : Written(e)}}
                 \cup {Getter(e) : e \in {e \in Range(item.gets) : ~IsSpecial(e)}}
                 \cup {Setter(e) : e \in Range(item.puts)})

Definitions == UNION {DefinitionsOf(item) : item \in Range(lib.items)}

Parts(item) == Range(item.interfaces) \cup Range(item.sources)

ClassDefs ==
  {[name |-> item.name, bases |-> Bases(item), body |-> b] :
     item \in Range(lib.items), b \in Seq(Definitions)}

\* The types of the generator's state.
GenTypes ==
  /\ lib \in Libraries /\ isAsync \in BOOLEAN /\ isBase \in BOOLEAN
  /\ at \in {"imports", "spec", "select", "class", "done", "failed", "used"}
  /\ part \in {"funcs", "props", "gets", "puts"} /\ entry \in Nat \ {0}
  /\ items \in Seq(Range(lib.items))
  /\ body \in Seq(Definitions)
  /\ classes \in Seq(ClassDefs)

\* What is there before the first class is written.
Beginning ==
  /\ at \in {"imports", "spec"} => items = <<>> /\ entry = 1
  /\ at \in {"imports", "spec", "select"} => body = <<>> /\ classes = <<>> /\ propNames = {}
  /\ at = "imports" => used = {}
  /\ imports = IF at = "imports" THEN {} ELSE ImportedAlways
  /\ at = "class" => items # <<>>

\* What was selected so far is among the items, and the parts of an item come
\* before it.
PartsFirst ==
  IsItem(lib.clsid) =>
    /\ at = "select" =>
         /\ entry <= Len(SelectedNames) + 1
         /\ \A j \in 1..(entry - 1) : \E i \in DOMAIN items : items[i].name = SelectedNames[j]
    /\ \A i \in DOMAIN items : \A n \in Parts(items[i]) :
         \/ \E j \in 1..(i - 1) : items[j].name = n
         \/ \E k \in DOMAIN classes : classes[k].name = n
    /\ \A k \in DOMAIN classes : \A n \in Range(classes[k].bases) :
         n = "AxServeObject" \/ \E j \in 1..(k - 1) : classes[j].name = n

Flagged == {"Iterator", "AsyncIterator", "Time"}

\* The names with a flag that the definitions of a body need were noticed.
Noticed(b) == \A j \in DOMAIN b : b[j].names \cap Flagged \subseteq used

\* A setter comes after a definition of its name, unless a getter was renamed.
SetterFollows(b) ==
  \A j \in DOMAIN b : b[j].kind = "setter" =>
    \/ \E i \in 1..(j - 1) : b[i].name = b[j].name
    \/ \E item \in Range(lib.items) : \E e \in Range(item.gets) :
         b[j].name = PublicName(e.name) /\ IsSpecial(e)

Bodies ==
  /\ Noticed(body) /\ SetterFollows(body)
  /\ \A k \in DOMAIN classes : Noticed(classes[k].body) /\ SetterFollows(classes[k].body)

\* A name in prop_names has a definition, or a getter that was renamed.
GettersWritten ==
  at = "class" /\ ~Item.sink =>
    \A n \in propNames :
      \/ \E i \in DOMAIN body : body[i].name = PublicName(n)
      \/ \E e \in Range(Item.gets) : e.name = n /\ IsSpecial(e)

GenInv == GenTypes /\ Beginning /\ PartsFirst /\ Bodies /\ GettersWritten

\* The descriptors that an access by one of the names may end up at.
FromDescription == UNION {MemberNamed(description, n) : n \in Names}
FromClasses == {DescriptorOf(d) : d \in {d \in Definitions : d.name \in Names}}
Descriptors == FromDescription \cup FromClasses

\* Values, Variants and QVariants whose nodes are of a set.
Trees(nodes) == UNION {[P -> nodes] : P \in {P \in SUBSET Places : <<>> \in P}}

KnownValues == Trees(PythonNodes)

Assignments == [number : Nat, task : Tasks, awaited : BOOLEAN]
Jobs == [by : [number : Nat, task : Tasks, awaited : {FALSE}],
         x : {x \in Descriptors : x.kind = "property"}, value : KnownValues]

\* A class declares what the generator wrote, by its names.
Declares ==
  \A n \in DOMAIN declared : \E d \in Definitions : d.name = n /\ declared[n] = DescriptorOf(d)

\* The member of a kind and a name, and its index.
Hits(kind, index, n) ==
  /\ index = IndexNamed(description, kind, n)
  /\ index \in DOMAIN description[kind] /\ ClientName(kind, description[kind][index]) = n

KindFor(what) ==
  CASE what \in {"get", "set"} -> "property" [] what = "call" -> "method"
    [] what = "connect" -> "event"

\* A number of arguments is what the method takes, or what the property allows.
CountFits(r) ==
  \/ r.count = description.method[r.index].arguments
  \/ r.signature # NoSignature /\ r.signature.more
  \/ \E i \in DOMAIN description.method :
       description.method[i].name = r.name /\ description.method[i].arguments = r.count

\* A Variant is what a value was converted to.
Carries(variant, v) ==
  v \in KnownValues /\ ~Fails(ValueToVariant(v)) /\ variant = ValueToVariant(v).whole

\* What a property holds is the control's own, or was assigned and converted.
Held(s) ==
  /\ s.qvariant \in Trees(QVariantNodes)
  /\ \/ s.by = NoAssignment
     \/ /\ s.by \in Assignments /\ (asyncio \/ s.by.awaited)
        /\ \E variant : Carries(variant, s.value) /\ s.qvariant = ProtoVariantToQVariant(variant)

\* A request is for the member of its kind and name.
RequestFits(r) ==
  /\ r.what \in {"get", "set", "call", "connect"} /\ r.kind = KindFor(r.what)
  /\ r.name \in Names /\ Hits(r.kind, r.index, r.name)
  /\ r.what = "get" => r.task \in Tasks
  /\ r.what = "set" =>
       /\ r.by \in Assignments /\ (asyncio \/ r.by.awaited)
       /\ Carries(r.variant, r.value)
  /\ r.what = "call" => CountFits(r)

RequestTypes == \A r \in wire : RequestFits(r)

AccessTypes ==
  /\ asyncio \in BOOLEAN /\ description = lib.description /\ Declares
  /\ issued \in Nat
  /\ scheduled \in Seq(Jobs) /\ (scheduled # <<>> => asyncio)
  /\ DOMAIN stored = DOMAIN description.property
  /\ \A i \in DOMAIN stored : Held(stored[i])
  /\ latest \in [Tasks -> [Names -> Assignments \cup {NoAssignment}]]
  /\ at # "used" => wire = {} /\ scheduled = <<>> /\ reads = {} /\ refused = {} /\ misfits = {}

\* The last assignment of a task to a name and what the property of the name
\* holds are the same, if both are the task's (or nobody's) and were awaited.
Newest(t, by, own) ==
  /\ by.task \in {t, Nobody} /\ by.awaited /\ own.awaited => own = by
  /\ ~asyncio => by.awaited /\ own.awaited

LatestStored ==
  \A t \in Tasks, n \in Names : \A i \in DOMAIN stored :
    Hits("property", i, n) => Newest(t, stored[i].by, latest[t][n])

ReadsInv ==
  \A r \in reads :
    /\ Held(r.of) /\ ~Fails(QVariantToProtoVariant(r.of.qvariant))
    /\ r.value = ValueFromVariant(QVariantToProtoVariant(r.of.qvariant).whole)
    /\ r.own \in Assignments \cup {NoAssignment} /\ Newest(r.task, r.of.by, r.own)

\* The name of what is not found at the server was changed by the generator.
NotFound == {"no such member", "other kind"}

Renamed(n) ==
  \/ n \in SpecialNames
  \/ \E item \in Range(lib.items) : \E e \in Entries(item) :
       PublicName(e.name) = n /\ e.name # n

RefusedInv ==
  \A f \in refused :
    /\ f.reason \in ConversionErrors => Fails(ValueToVariant(f.value))
    /\ f.reason \in NotFound => Renamed(f.name)

AccessInv ==
  /\ AccessTypes /\ RequestTypes /\ LatestStored /\ ReadsInv /\ RefusedInv
  /\ OnlyOwnValuesThrow /\ ArgumentsFit

-----------------------------------------------------------------------------
(* Conversions of values: of one node, and of all nodes. *)

\* Errors are errors; nodes and wholes are none.
LEMMA ErrorFacts ==
  /\ \A reason : Fails(Error(reason)) /\ Error(reason).error = reason
  /\ Fails(OutOfRange) /\ Fails(UnexpectedType) /\ Fails(CannotConvert)
  /\ OutOfRange.error \in ConversionErrors /\ UnexpectedType.error \in ConversionErrors
  /\ \A type, datum : ~Fails(Node(type, datum))
  /\ \A tree : ~Fails([whole |-> tree])
<1>1. \A reason : Fails(Error(reason)) /\ Error(reason).error = reason
  BY DEF Fails, Error
<1>2. /\ Fails(OutOfRange) /\ Fails(UnexpectedType) /\ Fails(CannotConvert)
      /\ OutOfRange.error \in ConversionErrors /\ UnexpectedType.error \in ConversionErrors
  BY <1>1, Zenon DEF OutOfRange, UnexpectedType, CannotConvert, ConversionErrors
<1>3. /\ \A type, datum : ~Fails(Node(type, datum))
      /\ \A tree : ~Fails([whole |-> tree])
  BY DEF Fails, Node
<1> QED
  BY <1>1, <1>2, <1>3

\* What is converted of a node of a Python value comes back as it was, or as
\* None; what is not is an object, or an int beyond int32.
LEMMA PythonNode ==
  ASSUME NEW x \in PythonNodes
  PROVE  \/ /\ ToVariant(x) \in {OutOfRange, UnexpectedType}
            /\ x.type = "object" \/ (x.type = "int" /\ x.datum \notin Int32)
         \/ /\ ToVariant(x) \in VariantNodes
            /\ FromVariant(ToVariant(x)) = IF IsEmpty(x) THEN Nothing ELSE x
<1> USE DEF PythonNodes, VariantNodes, Ranged, MemberFor, TypeFor, Node, Nothing, NotSet
<1>1. CASE x.type = "none" \/ IsEmpty(x)
  <2>1. ToVariant(x) = NotSet
    BY <1>1 DEF ToVariant
  <2>2. NotSet \in VariantNodes /\ FromVariant(NotSet) = Nothing
    BY DEF FromVariant
  <2>3. x.type = "none" => x = Nothing
    OBVIOUS
  <2> QED
    BY <1>1, <2>1, <2>2, <2>3
<1>2. CASE x.type = "object"
  <2>1. ~IsEmpty(x) /\ x.type \notin DOMAIN MemberFor /\ x.type # "none"
    BY <1>2 DEF IsEmpty
  <2>2. ToVariant(x) = UnexpectedType
    BY <2>1, Zenon DEF ToVariant
  <2>3. ToVariant(x) \in {OutOfRange, UnexpectedType}
    BY <2>2
  <2> QED
    BY <1>2, <2>3, Zenon
<1>3. CASE x.type \in DOMAIN MemberFor /\ ~IsEmpty(x)
  <2>1. CASE x.type = "int" /\ x.datum \notin Int32
    BY <1>3, <2>1 DEF ToVariant
  <2>2. CASE ~(x.type = "int" /\ x.datum \notin Int32)
    <3> DEFINE w == Node(MemberFor[x.type], x.datum)
    <3>1. ToVariant(x) = w
      BY <1>3, <2>2 DEF ToVariant
    <3>2. w \in VariantNodes
      BY <1>3, <2>2
    <3>3. FromVariant(w) = x
      BY <1>3 DEF FromVariant
    <3> QED
      BY <1>3, <3>1, <3>2, <3>3
  <2> QED
    BY <2>1, <2>2
<1> QED
  BY <1>1, <1>2, <1>3

\* The server gives back every Variant that it took, as it was.
LEMMA ServerNode ==
  ASSUME NEW w \in VariantNodes
  PROVE  ToQVariant(w) \in QVariantNodes /\ ToProtoVariant(ToQVariant(w)) = w
<1> USE DEF VariantNodes, QVariantNodes, Ranged, TypeFor, MetaTypeFor, ProtoMemberFor, Node
<1> DEFINE q == Node(MetaTypeFor[w.type], w.datum)
<1>1. ToQVariant(w) = q
  BY DEF ToQVariant
<1>2. q \in QVariantNodes
  <2>1. /\ q.type = MetaTypeFor[w.type] /\ q.datum = w.datum /\ w.datum \in Int
        /\ q.type \in DOMAIN ProtoMemberFor
    OBVIOUS
  <2>2. /\ q.type \notin {"none", "unset", "int_value", "uint_value"}
        /\ q.type = "Invalid" => w.type = "unset"
        /\ q.type = "Int" => w.type = "int_value"
        /\ q.type = "UInt" => w.type = "uint_value"
    BY <2>1
  <2>3. Ranged(w)
    OBVIOUS
  <2>4. Ranged(q)
    BY <2>1, <2>2, <2>3
  <2> QED
    BY <2>1, <2>4
<1>3. q.type \in DOMAIN ProtoMemberFor /\ ProtoMemberFor[q.type] = w.type /\ q.datum = w.datum
  OBVIOUS
<1> HIDE DEF q
<1>4. ToProtoVariant(q) = Node(w.type, w.datum)
  BY <1>3 DEF ToProtoVariant
<1> QED
  BY <1>1, <1>2, <1>4

\* What it converts of a QVariant becomes a Python value, which only an int
\* beyond int32 keeps from being sent again.
LEMMA ReadNode ==
  ASSUME NEW q \in QVariantNodes, ~Fails(ToProtoVariant(q))
  PROVE  LET x == FromVariant(ToProtoVariant(q))
         IN  x \in PythonNodes /\ (Fails(ToVariant(x)) => x.type = "int" /\ x.datum > MaxInt)
<1> DEFINE w == ToProtoVariant(q)
           x == FromVariant(w)
<1>1. q.type \in DOMAIN ProtoMemberFor /\ w = Node(ProtoMemberFor[q.type], q.datum)
  BY ErrorFacts DEF ToProtoVariant
<1>2. w \in VariantNodes
  BY <1>1 DEF QVariantNodes, VariantNodes, Ranged, ProtoMemberFor, TypeFor, Node
<1> HIDE DEF w
<1>3. /\ x \in PythonNodes /\ x.type # "object"
      /\ x.type = "int" => x.datum \in Int32 \cup UInt32
  BY <1>2 DEF VariantNodes, PythonNodes, Ranged, FromVariant, TypeFor, MemberFor, Node
<1>4. Fails(ToVariant(x)) => x.type = "int" /\ x.datum \notin Int32
  <2>1. \A y \in VariantNodes : ~Fails(y)
    BY DEF VariantNodes, Fails
  <2> HIDE DEF x
  <2> QED
    BY <1>3, <2>1, PythonNode
<1>5. \A n \in UInt32 : n \notin Int32 => n > MaxInt
  BY MaxIntAssumption DEF Int32, UInt32
<1> HIDE DEF x
<1>6. x \in PythonNodes /\ (Fails(ToVariant(x)) => x.type = "int" /\ x.datum > MaxInt)
  BY <1>3, <1>4, <1>5
<1> QED
  BY <1>6 DEF x, w

\* They are the trees of such nodes.
LEMMA TreeFacts ==
  ASSUME NEW nodes, NEW v
  PROVE  /\ IsTree(v, nodes) <=> v \in Trees(nodes)
         /\ v \in Trees(nodes) => \A p \in DOMAIN v : v[p] \in nodes
<1>1. ASSUME IsTree(v, nodes)
      PROVE  v \in Trees(nodes)
  <2>1. DOMAIN v \in {P \in SUBSET Places : <<>> \in P} /\ v \in [DOMAIN v -> nodes]
    BY <1>1 DEF IsTree
  <2> QED
    BY <2>1 DEF Trees
<1>2. ASSUME v \in Trees(nodes)
      PROVE  IsTree(v, nodes) /\ \A p \in DOMAIN v : v[p] \in nodes
  <2>1. PICK P \in SUBSET Places : <<>> \in P /\ v \in [P -> nodes]
    BY <1>2 DEF Trees
  <2>2. DOMAIN v = P
    BY <2>1
  <2> QED
    BY <2>1, <2>2 DEF IsTree
<1> QED
  BY <1>1, <1>2

\* Every node is converted, or the error of one is raised.
LEMMA ConvertedFacts ==
  ASSUME NEW tree
  PROVE  \/ /\ \A p \in DOMAIN tree : ~Fails(tree[p])
            /\ ~Fails(Converted(tree)) /\ Converted(tree).whole = tree
         \/ \E p \in DOMAIN tree : Fails(tree[p]) /\ Converted(tree) = tree[p]
<1> DEFINE failed == {p \in DOMAIN tree : Fails(tree[p])}
<1>1. CASE failed = {}
  <2>1. Converted(tree) = [whole |-> tree]
    BY <1>1 DEF Converted
  <2> QED
    BY <1>1, <2>1, ErrorFacts
<1>2. CASE failed # {}
  <2>1. (CHOOSE p \in failed : TRUE) \in failed
    BY <1>2
  <2>2. Converted(tree) = tree[CHOOSE p \in failed : TRUE]
    BY <1>2 DEF Converted
  <2> QED
    BY <2>1, <2>2
<1> QED
  BY <1>1, <1>2

\* What a Python value is converted to, and what comes back of that.
LEMMA ValueConverts ==
  ASSUME NEW v \in Trees(PythonNodes)
  PROVE  IF Fails(ValueToVariant(v))
         THEN /\ ValueToVariant(v).error \in ConversionErrors
              /\ \E p \in DOMAIN v : Fails(ToVariant(v[p]))
         ELSE /\ ValueToVariant(v).whole \in Trees(VariantNodes)
              /\ ValueFromVariant(ValueToVariant(v).whole) = AsRead(v)
<1> DEFINE tree == [p \in DOMAIN v |-> ToVariant(v[p])]
<1>1. IsTree(v, PythonNodes) /\ \A p \in DOMAIN v : v[p] \in PythonNodes
  BY TreeFacts
<1>2. ValueToVariant(v) = Converted(tree) /\ DOMAIN tree = DOMAIN v
      /\ \A p \in DOMAIN v : tree[p] = ToVariant(v[p])
  BY DEF ValueToVariant
<1>3. ASSUME NEW p \in DOMAIN v
      PROVE  \/ Fails(tree[p]) /\ tree[p].error \in ConversionErrors
             \/ /\ tree[p] \in VariantNodes
                /\ FromVariant(tree[p]) = IF IsEmpty(v[p]) THEN Nothing ELSE v[p]
  BY <1>1, <1>2, PythonNode, ErrorFacts
<1>4. ASSUME \A p \in DOMAIN tree : ~Fails(tree[p])
      PROVE  tree \in Trees(VariantNodes) /\ ValueFromVariant(tree) = AsRead(v)
  <2>1. IsTree(tree, VariantNodes)
    BY <1>1, <1>2, <1>3, <1>4 DEF IsTree
  <2>2. ValueFromVariant(tree) = [p \in DOMAIN v |-> FromVariant(tree[p])]
    BY <1>2 DEF ValueFromVariant
  <2> QED
    BY <1>2, <1>3, <1>4, <2>1, <2>2, TreeFacts DEF AsRead
<1> HIDE DEF tree
<1>5. CASE (\A p \in DOMAIN tree : ~Fails(tree[p])) /\ ~Fails(Converted(tree)) /\ Converted(tree).whole = tree
  BY <1>2, <1>4, <1>5
<1>6. CASE \E p \in DOMAIN tree : Fails(tree[p]) /\ Converted(tree) = tree[p]
  <2>1. PICK p \in DOMAIN v : Fails(tree[p]) /\ Converted(tree) = tree[p]
    BY <1>2, <1>6
  <2>2. \A n \in VariantNodes : ~Fails(n)
    BY DEF VariantNodes, Fails
  <2>3. tree[p].error \in ConversionErrors
    BY <1>3, <2>1, <2>2
  <2> QED
    BY <1>2, <2>1, <2>3
<1> QED
  BY <1>5, <1>6, ConvertedFacts

\* The server gives back what was assigned, as it was.
LEMMA ServerConverts ==
  ASSUME NEW w \in Trees(VariantNodes)
  PROVE  /\ ProtoVariantToQVariant(w) \in Trees(QVariantNodes)
         /\ ~Fails(QVariantToProtoVariant(ProtoVariantToQVariant(w)))
         /\ QVariantToProtoVariant(ProtoVariantToQVariant(w)).whole = w
<1> DEFINE q == ProtoVariantToQVariant(w)
           tree == [p \in DOMAIN q |-> ToProtoVariant(q[p])]
<1>1. IsTree(w, VariantNodes) /\ \A p \in DOMAIN w : w[p] \in VariantNodes
  BY TreeFacts
<1>2. DOMAIN q = DOMAIN w /\ \A p \in DOMAIN w : q[p] = ToQVariant(w[p])
  BY DEF ProtoVariantToQVariant
<1>3. \A p \in DOMAIN w : q[p] \in QVariantNodes /\ ToProtoVariant(q[p]) = w[p]
  BY <1>1, <1>2, ServerNode
<1>4. IsTree(q, QVariantNodes)
  BY <1>1, <1>2, <1>3 DEF IsTree, ProtoVariantToQVariant
<1>5. tree = w
  BY <1>1, <1>2, <1>3 DEF IsTree
<1>6. \A n \in VariantNodes : ~Fails(n)
  BY DEF VariantNodes, Fails
<1>7. QVariantToProtoVariant(q) = Converted(w)
  BY <1>5 DEF QVariantToProtoVariant
<1> QED
  BY <1>1, <1>4, <1>6, <1>7, TreeFacts, ConvertedFacts

\* What is read is a Python value, and only an int beyond int32 keeps it from
\* being sent again.
LEMMA ReadConverts ==
  ASSUME NEW q \in Trees(QVariantNodes), ~Fails(QVariantToProtoVariant(q))
  PROVE  LET v == ValueFromVariant(QVariantToProtoVariant(q).whole)
         IN  /\ v \in Trees(PythonNodes)
             /\ Fails(ValueToVariant(v)) =>
                  \E p \in DOMAIN v : v[p].type = "int" /\ v[p].datum > MaxInt
<1> DEFINE tree == [p \in DOMAIN q |-> ToProtoVariant(q[p])]
           v == [p \in DOMAIN q |-> FromVariant(tree[p])]
<1>1. IsTree(q, QVariantNodes) /\ \A p \in DOMAIN q : q[p] \in QVariantNodes
  BY TreeFacts
<1>2. (\A p \in DOMAIN tree : ~Fails(tree[p])) /\ QVariantToProtoVariant(q).whole = tree
  BY ConvertedFacts DEF QVariantToProtoVariant
<1>3. ValueFromVariant(tree) = v
  BY DEF ValueFromVariant
<1>4. \A p \in DOMAIN q : v[p] = FromVariant(ToProtoVariant(q[p])) /\ ~Fails(ToProtoVariant(q[p]))
  BY <1>2
<1>5. \A p \in DOMAIN q : /\ v[p] \in PythonNodes
                          /\ Fails(ToVariant(v[p])) => v[p].type = "int" /\ v[p].datum > MaxInt
  BY <1>1, <1>4, ReadNode
<1>6. v \in Trees(PythonNodes) /\ DOMAIN v = DOMAIN q
  BY <1>1, <1>5, TreeFacts DEF IsTree
<1> HIDE DEF v, tree
<1>7. Fails(ValueToVariant(v)) => \E p \in DOMAIN v : v[p].type = "int" /\ v[p].datum > MaxInt
  BY <1>5, <1>6, ValueConverts
<1> QED
  BY <1>2, <1>3, <1>6, <1>7

-----------------------------------------------------------------------------
(* Facts about sets, sequences and entries. *)

\* A set of natural numbers that is not empty has a least one.
LEMMA LeastIn ==
  ASSUME NEW S \in SUBSET Nat, S # {}
  PROVE  Min(S) \in S /\ \A j \in S : Min(S) <= j
<1>1. \E k \in S : \A j \in S : ~(<<j, k>> \in OpToRel(<, Nat))
  BY WFMin, NatLessThanWellFounded
<1>2. \E k \in S : \A j \in S : ~(j < k)
  BY <1>1 DEF OpToRel
<1>3. \E k \in S : \A j \in S : k <= j
  BY <1>2
<1> QED
  BY <1>3 DEF Min

\* A bounded one has a greatest.
LEMMA GreatestIn ==
  ASSUME NEW m \in Nat, NEW S \in SUBSET (1..m), S # {}
  PROVE  Max(S) \in S /\ \A j \in S : j <= Max(S)
<1> DEFINE T == {m - k : k \in S}
<1>0. \A k \in S : m - k \in Nat
  OBVIOUS
<1>1. T \in SUBSET Nat /\ T # {}
  BY <1>0, Zenon
<1> HIDE DEF T
<1>2. Min(T) \in T /\ \A j \in T : Min(T) <= j
  BY <1>1, LeastIn
<1>3. PICK k \in S : Min(T) = m - k
  BY <1>2 DEF T
<1>4. \A j \in S : m - k <= m - j
  BY <1>2, <1>3 DEF T
<1>5. \A j \in S : j <= k
  BY <1>4
<1>6. \E x \in S : \A y \in S : x >= y
  BY <1>5
<1> QED
  BY <1>6 DEF Max

\* The entries of an item, by its maps.
LEMMA ItemTypes ==
  ASSUME lib \in Libraries, NEW item \in Range(lib.items)
  PROVE  /\ lib.items \in Seq(Range(lib.items))
         /\ item.funcs \in Seq(Range(item.funcs)) /\ item.props \in Seq(Range(item.props))
         /\ item.gets \in Seq(Range(item.gets)) /\ item.puts \in Seq(Range(item.puts))
         /\ item.interfaces \in Seq(Range(item.interfaces))
         /\ item.sources \in Seq(Range(item.sources))
<1>1. \A map \in {"funcs", "props", "gets", "puts", "interfaces", "sources"} :
        item[map] \in Seq(Range(item[map]))
  BY LibraryAssumption
<1> QED
  BY <1>1, LibraryAssumption

\* A name that is special is one of five.
LEMMA SpecialIsNamed ==
  ASSUME NEW e
  PROVE  /\ IsSpecial(e) <=> SpecialName(e) # ""
         /\ IsSpecial(e) => SpecialName(e) \in SpecialNames
  BY DEF IsSpecial, SpecialName, SpecialNames

\* The same of a special entry.
LEMMA SpecialNamed ==
  ASSUME NEW e, IsSpecial(e)
  PROVE  SpecialName(e) \in SpecialNames
  BY SpecialIsNamed, Zenon

\* A sequence and one element more.
LEMMA OneMore ==
  ASSUME NEW S, NEW s \in Seq(S), NEW x \in S
  PROVE  /\ s \o <<x>> \in Seq(S) /\ Append(s, x) = s \o <<x>>
         /\ Len(s \o <<x>>) = Len(s) + 1 /\ DOMAIN (s \o <<x>>) = 1..(Len(s) + 1)
         /\ DOMAIN s = 1..Len(s) /\ Len(s) \in Nat
         /\ \A i \in 1..Len(s) : (s \o <<x>>)[i] = s[i]
         /\ (s \o <<x>>)[Len(s) + 1] = x
<1>1. Append(s, x) = s \o <<x>>
  BY AppendIsConcat
<1>2. /\ Append(s, x) \in Seq(S) /\ Len(Append(s, x)) = Len(s) + 1
      /\ \A i \in 1..Len(s) : Append(s, x)[i] = s[i]
      /\ Append(s, x)[Len(s) + 1] = x
  BY AppendProperties
<1>3. DOMAIN s = 1..Len(s) /\ Len(s) \in Nat
  BY LenProperties
<1>4. DOMAIN Append(s, x) = 1..(Len(s) + 1)
  BY <1>2, LenProperties
<1> QED
  BY <1>1, <1>2, <1>3, <1>4

\* What Writes does for one definition, and for none.
LEMMA WritesOne ==
  ASSUME NEW D, body \in Seq(D), NEW d \in D, Writes(<<d>>)
  PROVE  /\ body' \in Seq(D) /\ DOMAIN body' = 1..(Len(body) + 1)
         /\ DOMAIN body = 1..Len(body) /\ Len(body) \in Nat
         /\ \A i \in 1..Len(body) : body'[i] = body[i]
         /\ body'[Len(body) + 1] = d
         /\ used \subseteq used' /\ d.names \cap Flagged \subseteq used'
<1>1. Range(<<d>>) = {d}
  BY DEF Range
<1>2. d.names \subseteq UNION {x.names : x \in Range(<<d>>)}
  BY <1>1
<1>3. used' = used \cup (Flagged \cap UNION {x.names : x \in Range(<<d>>)}) /\ body' = body \o <<d>>
  BY DEF Writes, Flagged
<1> QED
  BY <1>2, <1>3, OneMore

\* Writing nothing leaves the class and the flags as they are.
LEMMA WritesNone ==
  ASSUME NEW D, body \in Seq(D), Writes(<<>>)
  PROVE  body' = body /\ used' = used
<1>1. Range(<<>>) = {}
  BY DEF Range
<1>2. UNION {x.names : x \in Range(<<>>)} = {}
  BY <1>1
<1>3. body \o <<>> = body
  BY ConcatEmptySeq
<1> QED
  BY <1>2, <1>3 DEF Writes

-----------------------------------------------------------------------------
(* The generator. *)

\* The entry being written is one of its item.
LEMMA EntryOfItem ==
  ASSUME GenTypes, items # <<>>, entry <= Len(Item[part])
  PROVE  /\ Item \in Range(lib.items) /\ Entry \in Range(Item[part])
         /\ Entry \in Entries(Item) /\ DefinitionsOf(Item) \subseteq Definitions
<1>1. Item \in Range(lib.items)
  BY HeadTailProperties DEF GenTypes, Item
<1>2. Item[part] \in Seq(Range(Item[part]))
  BY <1>1, ItemTypes DEF GenTypes
<1>3. entry \in DOMAIN Item[part]
  BY <1>2, LenProperties DEF GenTypes
<1>4. Entry \in Range(Item[part])
  BY <1>3 DEF Entry, Range
<1> QED
  BY <1>1, <1>4 DEF GenTypes, Entries, Definitions

\* One step of the loops over the maps: it fails, or writes nothing or one
\* definition, of the item; what it adds to prop_names has a definition or a
\* special name, and a setter is of a name in prop_names.
EntryStep == FuncEntry \/ PropEntry \/ GetEntry \/ PutEntry

EntryEnds ==
  \/ at' = "failed" /\ UNCHANGED <<body, used, propNames, entry>>
  \/ /\ at' = at /\ entry' = entry + 1
     /\ \/ /\ Writes(<<>>) /\ propNames' \subseteq propNames \cup {Entry.name}
           /\ propNames' = propNames \/ Entry.name \in propNames \/ Item.sink
        \/ \E d \in DefinitionsOf(Item) :
             /\ Writes(<<d>>)
             /\ d.kind = "setter" => \E n \in propNames : d.name = PublicName(n) /\ ~Item.sink
             /\ propNames' \subseteq propNames \cup {Entry.name}
             /\ \/ propNames' = propNames \/ Item.sink \/ d.name = PublicName(Entry.name)
                \/ Entry \in Range(Item.gets) /\ IsSpecial(Entry)

\* One step of the loops over the maps ends as EntryEnds says.
LEMMA EntrySteps ==
  ASSUME GenTypes, Beginning, EntryStep
  PROVE  /\ at = "class" /\ items # <<>> /\ Item \in Range(lib.items)
         /\ UNCHANGED <<choiceVars, spec, imports, items, part, classes>>
         /\ EntryEnds
<1>0. at = "class" /\ items # <<>> /\ entry <= Len(Item[part])
      /\ UNCHANGED <<choiceVars, spec, imports, items, part, classes>>
  BY DEF EntryStep, FuncEntry, PropEntry, GetEntry, PutEntry, AtEntry, Beginning
<1>1. Item \in Range(lib.items) /\ Entry \in Range(Item[part]) /\ Entry \in Entries(Item)
  BY <1>0, EntryOfItem
<1>2. SpecialName(Entry) # "" => NamedMethod(Entry, SpecialName(Entry)) \in DefinitionsOf(Item)
  BY <1>1, SpecialIsNamed DEF DefinitionsOf
<1>3. Item.sink /\ (IsSpecial(Entry) => Entry \in Range(Item.puts)) => Event(Entry) \in DefinitionsOf(Item)
  BY <1>1 DEF DefinitionsOf
<1>4. /\ NamedMethod(Entry, SpecialName(Entry)).kind = "method" /\ Event(Entry).kind = "event"
      /\ Method(Entry).kind = "method" /\ Getter(Entry).kind = "property"
      /\ Setter(Entry).kind = "setter" /\ Setter(Entry).name = PublicName(Entry.name)
      /\ Getter(Entry).name = PublicName(Entry.name)
  BY DEF NamedMethod, Event, Method, Getter, Setter, FunctionDef
<1>5. ASSUME FuncEntry PROVE EntryEnds
  <2>1. part = "funcs" /\ Entry \in Range(Item.funcs)
    BY <1>1, <1>5 DEF FuncEntry, AtEntry
  <2>2. CASE ~Entry.isFunction /\ Raises
    BY <2>2 DEF EntryEnds, Raises
  <2>3. CASE Entry.isFunction /\ Goes /\ UNCHANGED propNames
    <3>1. CASE Entry.skipped /\ Writes(<<>>)
      BY <1>5, <2>3, <3>1 DEF EntryEnds, Goes
    <3>2. CASE SpecialName(Entry) # "" /\ Writes(<<NamedMethod(Entry, SpecialName(Entry))>>)
      BY <1>2, <1>4, <2>3, <3>2 DEF EntryEnds, Goes
    <3>3. CASE SpecialName(Entry) = "" /\ Item.sink /\ Writes(<<Event(Entry)>>)
      BY <1>3, <1>4, <2>3, <3>3, SpecialIsNamed DEF EntryEnds, Goes
    <3>4. CASE /\ ~Entry.skipped /\ SpecialName(Entry) = "" /\ ~Item.sink
               /\ Writes(<<Method(Entry)>>)
      <4>1. Method(Entry) \in DefinitionsOf(Item)
        BY <2>1, <2>3, <3>4, SpecialIsNamed DEF DefinitionsOf, Written
      <4> QED
        BY <1>4, <2>3, <3>4, <4>1 DEF EntryEnds, Goes
    <3> QED
      BY <1>5, <2>3, <3>1, <3>2, <3>3, <3>4 DEF FuncEntry
  <2> QED
    BY <1>5, <2>2, <2>3 DEF FuncEntry, Raises
<1>6. ASSUME PropEntry PROVE EntryEnds
  <2>1. CASE SpecialName(Entry) # "" /\ Writes(<<NamedMethod(Entry, SpecialName(Entry))>>)
             /\ Goes /\ UNCHANGED propNames
    BY <1>2, <1>4, <2>1 DEF EntryEnds, Goes
  <2>2. CASE SpecialName(Entry) = "" /\ Item.sink /\ Writes(<<Event(Entry)>>)
             /\ Goes /\ propNames' = propNames \cup {Entry.name}
    BY <1>3, <1>4, <2>2, SpecialIsNamed DEF EntryEnds, Goes
  <2>3. CASE Raises
    BY <2>3 DEF EntryEnds, Raises
  <2> QED
    BY <1>6, <2>1, <2>2, <2>3 DEF PropEntry
<1>7. ASSUME GetEntry PROVE EntryEnds
  <2> DEFINE bare == SpecialName(Entry) = "" /\ ~Item.sink /\ Entry.name \notin propNames
  <2>1. part = "gets" /\ Entry \in Range(Item.gets)
    BY <1>1, <1>7 DEF GetEntry, AtEntry
  <2>2. CASE bare /\ ~MayBeGetter(Entry) /\ Raises
    BY <2>2 DEF EntryEnds, Raises
  <2>3. CASE /\ Writes(IF SpecialName(Entry) # "" THEN <<NamedMethod(Entry, SpecialName(Entry))>>
                      ELSE IF Item.sink THEN <<Event(Entry)>>
                      ELSE IF bare THEN <<Getter(Entry)>> ELSE <<>>)
             /\ Goes /\ propNames' = propNames \cup {Entry.name}
    <3>1. CASE SpecialName(Entry) # "" /\ Writes(<<NamedMethod(Entry, SpecialName(Entry))>>)
      BY <1>2, <1>4, <2>1, <2>3, <3>1, SpecialIsNamed DEF EntryEnds, Goes
    <3>2. CASE SpecialName(Entry) = "" /\ Item.sink /\ Writes(<<Event(Entry)>>)
      BY <1>3, <1>4, <2>3, <3>2, SpecialIsNamed DEF EntryEnds, Goes
    <3>3. CASE bare /\ Writes(<<Getter(Entry)>>)
      <4>1. Getter(Entry) \in DefinitionsOf(Item)
        BY <2>1, <3>3, SpecialIsNamed DEF DefinitionsOf
      <4> QED
        BY <1>4, <2>3, <3>3, <4>1 DEF EntryEnds, Goes
    <3>4. CASE SpecialName(Entry) = "" /\ ~Item.sink /\ ~bare /\ Writes(<<>>)
      BY <2>3, <3>4 DEF EntryEnds, Goes
    <3> QED
      BY <2>3, <3>1, <3>2, <3>3, <3>4
  <2> QED
    BY <1>7, <2>2, <2>3 DEF GetEntry
<1>8. ASSUME PutEntry PROVE EntryEnds
  <2>1. part = "puts" /\ Entry \in Range(Item.puts) /\ propNames' = propNames
    BY <1>1, <1>8 DEF PutEntry, AtEntry, Raises
  <2>2. CASE Item.sink /\ Writes(<<Event(Entry)>>) /\ Goes
    BY <1>3, <1>4, <2>1, <2>2 DEF EntryEnds, Goes
  <2>3. CASE ~Item.sink /\ HasGetter(Entry) /\ Writes(<<Setter(Entry)>>) /\ Goes
    <3>1. Setter(Entry) \in DefinitionsOf(Item)
      BY <2>1, <2>3 DEF DefinitionsOf
    <3> QED
      BY <1>4, <2>1, <2>3, <3>1 DEF EntryEnds, Goes, HasGetter
  <2>4. CASE Raises
    BY <2>4 DEF EntryEnds, Raises
  <2> QED
    BY <1>8, <2>2, <2>3, <2>4 DEF PutEntry
<1>9. EntryEnds
  BY <1>5, <1>6, <1>7, <1>8 DEF EntryStep
<1> QED
  BY <1>0, <1>1, <1>9

\* A sequence over a set is one over a larger set.
LEMMA Wider ==
  ASSUME NEW S, NEW T, S \subseteq T, NEW s \in Seq(S)
  PROVE  s \in Seq(T)
<1>1. DOMAIN s = 1..Len(s) /\ Len(s) \in Nat /\ \A i \in 1..Len(s) : s[i] \in S
  BY ElementOfSeq, LenProperties
<1>2. s = [i \in 1..Len(s) |-> s[i]]
  BY LenProperties
<1> QED
  BY <1>1, <1>2, SeqDef

\* The elements of two sequences in a row.
LEMMA InARow ==
  ASSUME NEW S, NEW s \in Seq(S), NEW t \in Seq(S)
  PROVE  /\ s \o t \in Seq(S) /\ Len(s \o t) = Len(s) + Len(t)
         /\ DOMAIN (s \o t) = 1..(Len(s) + Len(t)) /\ Len(s) \in Nat /\ Len(t) \in Nat
         /\ Range(s \o t) = Range(s) \cup Range(t)
<1>1. /\ s \o t \in Seq(S) /\ Len(s \o t) = Len(s) + Len(t)
      /\ \A i \in 1..(Len(s) + Len(t)) : (s \o t)[i] = IF i <= Len(s) THEN s[i] ELSE t[i - Len(s)]
  BY ConcatProperties
<1>2. DOMAIN s = 1..Len(s) /\ DOMAIN t = 1..Len(t) /\ Len(s) \in Nat /\ Len(t) \in Nat
  BY LenProperties
<1>3. DOMAIN (s \o t) = 1..(Len(s) + Len(t))
  BY <1>1, LenProperties
<1>4. ASSUME NEW x \in Range(s \o t) PROVE x \in Range(s) \cup Range(t)
  <2>1. PICK i \in 1..(Len(s) + Len(t)) : x = (s \o t)[i]
    BY <1>3, <1>4 DEF Range
  <2>2. CASE i <= Len(s)
    BY <1>1, <1>2, <2>1, <2>2 DEF Range
  <2>3. CASE ~(i <= Len(s))
    <3>1. i - Len(s) \in 1..Len(t)
      BY <1>2, <2>3
    <3>2. x = t[i - Len(s)]
      BY <1>1, <2>1, <2>3
    <3> QED
      BY <1>2, <3>1, <3>2 DEF Range
  <2> QED
    BY <2>2, <2>3
<1>5. ASSUME NEW x \in Range(s) PROVE x \in Range(s \o t)
  <2>1. PICK i \in 1..Len(s) : x = s[i]
    BY <1>2, <1>5 DEF Range
  <2>2. i \in 1..(Len(s) + Len(t)) /\ (s \o t)[i] = x
    BY <1>1, <1>2, <2>1
  <2> QED
    BY <1>3, <2>2 DEF Range
<1>6. ASSUME NEW x \in Range(t) PROVE x \in Range(s \o t)
  <2>1. PICK i \in 1..Len(t) : x = t[i]
    BY <1>2, <1>6 DEF Range
  <2>2. /\ Len(s) + i \in 1..(Len(s) + Len(t)) /\ ~(Len(s) + i <= Len(s))
        /\ (Len(s) + i) - Len(s) = i
    BY <1>2
  <2>3. (s \o t)[Len(s) + i] = x
    BY <1>1, <2>1, <2>2
  <2> QED
    BY <1>3, <2>2, <2>3 DEF Range
<1> QED
  BY <1>1, <1>2, <1>3, <1>4, <1>5, <1>6

\* What is selected: the parts of the item, and its name.
LEMMA SelectedParts ==
  ASSUME lib \in Libraries, NEW item \in Range(lib.items)
  PROVE  /\ Len(Selected(item)) \in Nat \ {0}
         /\ DOMAIN Selected(item) = 1..Len(Selected(item))
         /\ Selected(item)[Len(Selected(item))] = item.name
         /\ \A j \in 1..(Len(Selected(item)) - 1) : Selected(item)[j] \in Parts(item)
         /\ \A n \in Parts(item) : \E j \in 1..(Len(Selected(item)) - 1) : Selected(item)[j] = n
<1> DEFINE parts == item.interfaces \o item.sources
           S == Parts(item) \cup {item.name}
<1>1. item.interfaces \in Seq(S) /\ item.sources \in Seq(S)
  BY ItemTypes, Wider DEF Parts
<1>2. parts \in Seq(S) /\ Range(parts) = Parts(item)
  BY <1>1, InARow DEF Parts
<1> HIDE DEF parts, S
<1>3. item.name \in S
  BY DEF S
<1>4. Selected(item) = parts \o <<item.name>>
  BY DEF Selected, parts
<1>5. /\ Len(Selected(item)) = Len(parts) + 1 /\ Len(parts) \in Nat /\ DOMAIN parts = 1..Len(parts)
      /\ DOMAIN Selected(item) = 1..(Len(parts) + 1)
      /\ \A i \in 1..Len(parts) : Selected(item)[i] = parts[i]
      /\ Selected(item)[Len(parts) + 1] = item.name
  BY <1>2, <1>3, <1>4, OneMore
<1>6. /\ \A j \in 1..Len(parts) : Selected(item)[j] \in Parts(item)
      /\ \A n \in Parts(item) : \E j \in 1..Len(parts) : Selected(item)[j] = n
  BY <1>2, <1>5 DEF Range
<1>7. Len(Selected(item)) - 1 = Len(parts) /\ Len(Selected(item)) \in Nat \ {0}
  BY <1>5
<1> QED
  BY <1>5, <1>6, <1>7

\* The bases of a class are the parts of its item, and AxServeObject.
LEMMA BasesAreParts ==
  ASSUME lib \in Libraries, NEW item \in Range(lib.items)
  PROVE  /\ \A n \in Range(Bases(item)) : n \in Parts(item) \/ n = "AxServeObject"
         /\ DOMAIN Bases(item) \in SUBSET Nat
<1> DEFINE parts == item.interfaces \o item.sources
           object == IF item.coclass /\ ~isBase THEN <<"AxServeObject">> ELSE <<>>
           S == Parts(item) \cup {"AxServeObject"}
<1>1. item.interfaces \in Seq(S) /\ item.sources \in Seq(S)
  BY ItemTypes, Wider DEF Parts
<1>2. parts \in Seq(S)
  BY <1>1, InARow
<1>3. object \in Seq(S)
  <2>1. <<"AxServeObject">> \in Seq({"AxServeObject"}) /\ <<>> \in Seq(S)
    OBVIOUS
  <2>2. <<"AxServeObject">> \in Seq(S)
    BY <2>1, Wider
  <2> QED
    BY <2>1, <2>2
<1>4. Bases(item) = parts \o object
  BY DEF Bases
<1> HIDE DEF parts, object
<1>5. Bases(item) \in Seq(S)
  BY <1>2, <1>3, <1>4, InARow
<1>6. Range(Bases(item)) \subseteq S /\ DOMAIN Bases(item) \in SUBSET Nat
  BY <1>5, ElementOfSeq, LenProperties DEF Range
<1> QED
  BY <1>6

\* The definitions, bases and the selection depend on the library and the
\* generator's arguments only.
LEMMA SameLibrary ==
  ASSUME UNCHANGED choiceVars
  PROVE  /\ lib' = lib /\ isAsync' = isAsync /\ isBase' = isBase
         /\ Definitions' = Definitions
         /\ ClassDefs' = ClassDefs
         /\ IsItem(lib.clsid)' = IsItem(lib.clsid) /\ SelectedNames' = SelectedNames
<1>1. lib' = lib /\ isAsync' = isAsync /\ isBase' = isBase
  BY DEF choiceVars
<1>2. \A item : DefinitionsOf(item)' = DefinitionsOf(item)
  BY <1>1 DEF DefinitionsOf, NamedMethod, SpecialName, Event, Method, Getter, Setter, FunctionDef, DecoratorNames
<1>3. Definitions' = Definitions
  BY <1>1, <1>2 DEF Definitions
<1>4. ClassDefs' = ClassDefs
  <2>1. \A item : Bases(item)' = Bases(item)
    BY <1>1 DEF Bases
  <2> QED
    BY <1>1, <1>3, <2>1 DEF ClassDefs
<1> QED
  BY <1>1, <1>3, <1>4 DEF IsItem, SelectedNames, ItemNamed

\* What keeps the types.
LEMMA SameTypes ==
  ASSUME GenTypes, UNCHANGED choiceVars,
         at' \in {"imports", "spec", "select", "class", "done", "failed", "used"},
         part' \in {"funcs", "props", "gets", "puts"}, entry' \in Nat \ {0},
         items' \in Seq(Range(lib.items)), body' \in Seq(Definitions), classes' \in Seq(ClassDefs)
  PROVE  GenTypes'
<1>1. lib' = lib /\ isAsync' = isAsync /\ isBase' = isBase /\ Definitions' = Definitions
      /\ ClassDefs' = ClassDefs
  BY SameLibrary
<1> QED
  BY <1>1 DEF GenTypes

-----------------------------------------------------------------------------
(* The invariant of the generator. *)

\* It holds at first.
LEMMA GenBegins ==
  ASSUME ProgramInit
  PROVE  GenInv
<1> USE DEF ProgramInit, GenInit
<1>1. GenTypes
  BY DEF GenTypes
<1>2. Beginning
  BY DEF Beginning
<1>3. PartsFirst
  BY DEF PartsFirst
<1>4. Bodies /\ GettersWritten
  BY DEF Bodies, GettersWritten, Noticed, SetterFollows
<1> QED
  BY <1>1, <1>2, <1>3, <1>4 DEF GenInv

\* A step that leaves the bodies and the flags alone leaves this alone.
LEMMA SameBodies ==
  ASSUME UNCHANGED <<choiceVars, used, body, classes>>, Bodies
  PROVE  Bodies'
<1>1. UNCHANGED <<lib, used, body, classes>>
  BY DEF choiceVars
<1> QED
  BY <1>1 DEF Bodies, Noticed, SetterFollows

\* The steps before the first item is selected.
LEMMA BeginSteps ==
  ASSUME GenInv, MakeImports \/ FindSpec
  PROVE  GenInv'
<1> USE DEF GenInv
<1>1. UNCHANGED <<choiceVars, used, items, part, entry, body, propNames, classes>>
  BY DEF MakeImports, FindSpec
<1>2. at' # "class" /\ at' # "imports" /\ at' \in {"spec", "select", "done", "failed"}
  BY DEF MakeImports, FindSpec
<1>3. at \in {"imports", "spec"}
  BY DEF MakeImports, FindSpec
<1>4. imports' = ImportedAlways
  <2>1. CASE MakeImports
    BY <2>1 DEF MakeImports, Beginning
  <2>2. CASE FindSpec
    BY <2>2 DEF FindSpec, Beginning
  <2> QED
    BY <2>1, <2>2
<1>5. /\ items = <<>> /\ entry = 1 /\ body = <<>> /\ classes = <<>> /\ propNames = {}
  BY <1>3 DEF Beginning
<1>6. GenTypes'
  BY <1>1, <1>2, SameLibrary DEF GenTypes
<1>7. Beginning'
  BY <1>1, <1>2, <1>4, <1>5 DEF Beginning
<1>8. PartsFirst'
  <2> SUFFICES ASSUME IsItem(lib.clsid) PROVE PartsFirst'
    BY <1>1, SameLibrary DEF PartsFirst
  <2>1. Len(SelectedNames) \in Nat
    <3>1. ItemNamed(lib.clsid) \in Range(lib.items)
      BY DEF IsItem, ItemNamed
    <3> QED
      BY <3>1, SelectedParts DEF SelectedNames, GenTypes
  <2>2. entry' <= Len(SelectedNames') + 1
    BY <1>1, <1>5, <2>1, SameLibrary
  <2>3. /\ DOMAIN items' = {} /\ DOMAIN classes' = {} /\ 1..(entry' - 1) = {}
    BY <1>1, <1>5
  <2> QED
    BY <2>2, <2>3 DEF PartsFirst
<1>9. Bodies' /\ GettersWritten'
  BY <1>1, <1>2, SameBodies DEF GettersWritten
<1> QED
  BY <1>6, <1>7, <1>8, <1>9

\* The item of a name.
LEMMA ItemOfName ==
  ASSUME NEW n, IsItem(n)
  PROVE  ItemNamed(n) \in Range(lib.items) /\ ItemNamed(n).name = n
  BY DEF IsItem, ItemNamed

\* An item that is selected has its parts before it.
LEMMA SelectSteps ==
  ASSUME GenInv, SelectAll \/ SelectItem \/ EndOfSelection
  PROVE  GenInv'
<1> USE DEF GenInv
<1>1. UNCHANGED <<choiceVars, imports, used, part, body, propNames, classes>>
  BY DEF SelectAll, SelectItem, EndOfSelection
<1>2. at = "select" /\ body = <<>> /\ classes = <<>> /\ propNames = {} /\ imports = ImportedAlways
  BY DEF SelectAll, SelectItem, EndOfSelection, Beginning
<1>3. Bodies' /\ GettersWritten'
  BY <1>1, <1>2, SameBodies DEF GettersWritten
<1>4. lib \in Libraries /\ items \in Seq(Range(lib.items)) /\ entry \in Nat \ {0}
  BY DEF GenTypes
<1>5. CASE SelectAll
  <2>1. lib.items \in Seq(Range(lib.items))
    BY <1>4, LibraryAssumption
  <2>2. items' = lib.items /\ at' \in {"done", "class"} /\ (at' = "class" => items' # <<>>) /\ entry' = entry
    BY <1>5 DEF SelectAll
  <2>3. GenTypes'
    BY <1>1, <2>1, <2>2, SameLibrary DEF GenTypes
  <2>4. Beginning'
    BY <1>1, <1>2, <2>2 DEF Beginning
  <2>5. PartsFirst'
    BY <1>1, <1>5, SameLibrary DEF PartsFirst, SelectAll
  <2> QED
    BY <1>3, <2>3, <2>4, <2>5
<1>6. ASSUME SelectItem \/ EndOfSelection
      PROVE  /\ IsItem(lib.clsid) /\ Len(SelectedNames) \in Nat \ {0}
             /\ entry <= Len(SelectedNames) + 1
             /\ \A j \in 1..(entry - 1) : \E i \in DOMAIN items : items[i].name = SelectedNames[j]
             /\ \A i \in DOMAIN items : \A n \in Parts(items[i]) :
                  \E j \in 1..(i - 1) : items[j].name = n
  <2>1. IsItem(lib.clsid)
    BY <1>6 DEF SelectItem, EndOfSelection
  <2>2. Len(SelectedNames) \in Nat \ {0}
    BY <1>4, <2>1, ItemOfName, SelectedParts DEF SelectedNames
  <2>3. DOMAIN classes = {}
    BY <1>2
  <2> QED
    BY <1>2, <2>1, <2>2, <2>3 DEF PartsFirst
<1>7. CASE EndOfSelection
  <2>1. /\ entry > Len(SelectedNames) /\ at' = "class" /\ items' = items /\ entry' = 1
    BY <1>7 DEF EndOfSelection
  <2>2. items # <<>>
    <3>1. 1 \in 1..(entry - 1)
      BY <1>4, <1>6, <1>7, <2>1
    <3> QED
      BY <1>6, <1>7, <3>1
  <2>3. GenTypes'
    <3>1. /\ UNCHANGED <<choiceVars, part, items, body, classes>>
          /\ at' = "class" /\ entry' \in Nat \ {0}
      BY <1>1, <2>1
    <3> QED
      BY <3>1, SameTypes DEF GenTypes
  <2>4. Beginning'
    BY <1>1, <1>2, <2>1, <2>2 DEF Beginning
  <2>5. PartsFirst'
    <3>1. DOMAIN classes' = {}
      BY <1>1, <1>2
    <3>2. \A i \in DOMAIN items' : \A n \in Parts(items'[i]) : \E j \in 1..(i - 1) : items'[j].name = n
      BY <1>6, <1>7, <2>1
    <3> QED
      BY <2>1, <3>1, <3>2 DEF PartsFirst, Parts
  <2> QED
    BY <1>3, <2>3, <2>4, <2>5
<1>8. CASE SelectItem
  <2> DEFINE n == SelectedNames[entry]
  <2>1. CASE ~IsItem(n)
    <3>1. at' = "failed" /\ items' = items /\ entry' = entry
      BY <1>8, <2>1 DEF SelectItem
    <3>2. GenTypes'
      BY <1>1, <3>1, SameLibrary DEF GenTypes
    <3>3. Beginning'
      BY <1>1, <1>2, <3>1 DEF Beginning
    <3>4. PartsFirst'
      <4>1. DOMAIN classes' = {}
        BY <1>1, <1>2
      <4>2. \A i \in DOMAIN items' : \A m \in Parts(items'[i]) : \E j \in 1..(i - 1) : items'[j].name = m
        BY <1>6, <1>8, <3>1
      <4> QED
        BY <3>1, <4>1, <4>2 DEF PartsFirst, Parts
    <3> QED
      BY <1>3, <3>2, <3>3, <3>4
  <2>2. CASE IsItem(n)
    <3>1. /\ at' = at /\ entry' = entry + 1 /\ entry <= Len(SelectedNames)
          /\ items' = IF \E i \in DOMAIN items : items[i].name = n THEN items
                      ELSE Append(items, ItemNamed(n))
      BY <1>8, <2>2 DEF SelectItem, Goes
    <3>2. ItemNamed(n) \in Range(lib.items) /\ ItemNamed(n).name = n
      BY <2>2, ItemOfName
    <3> DEFINE whole == ItemNamed(lib.clsid)
    <3>3. /\ whole \in Range(lib.items) /\ whole.name = lib.clsid /\ SelectedNames = Selected(whole)
      BY <1>6, <1>8, ItemOfName DEF SelectedNames
    <3>4. \A m \in Parts(ItemNamed(n)) : \E i \in DOMAIN items : items[i].name = m
      <4> SUFFICES ASSUME NEW m \in Parts(ItemNamed(n))
                   PROVE  \E i \in DOMAIN items : items[i].name = m
        OBVIOUS
      <4>1. ItemNamed(n).coclass
        BY <1>4, <3>2, LibraryAssumption DEF Parts
      <4>2. n \notin Parts(whole)
        <5>1. \A p \in Parts(whole) : \A other \in Range(lib.items) : other.name = p => ~other.coclass
          BY <1>4, <3>3, LibraryAssumption DEF Parts
        <5> QED
          BY <3>2, <4>1, <5>1
      <4>3. /\ \A j \in 1..(Len(SelectedNames) - 1) : SelectedNames[j] \in Parts(whole)
            /\ SelectedNames[Len(SelectedNames)] = whole.name
            /\ \A p \in Parts(whole) : \E j \in 1..(Len(SelectedNames) - 1) : SelectedNames[j] = p
        BY <1>4, <3>3, SelectedParts
      <4>4. entry = Len(SelectedNames)
        BY <1>4, <1>6, <1>8, <3>1, <4>2, <4>3
      <4>5. ItemNamed(n) = whole
        BY <3>3, <4>3, <4>4
      <4>6. PICK j \in 1..(Len(SelectedNames) - 1) : SelectedNames[j] = m
        BY <4>3, <4>5
      <4> QED
        BY <1>6, <1>8, <4>4, <4>6
    <3> HIDE DEF n, whole
    <3>5. /\ items' \in Seq(Range(lib.items)) /\ DOMAIN items \subseteq DOMAIN items'
          /\ \A i \in DOMAIN items : items'[i] = items[i]
          /\ \E i \in DOMAIN items' : items'[i].name = n
          /\ \A i \in DOMAIN items' \ DOMAIN items :
               items'[i] = ItemNamed(n) /\ DOMAIN items = 1..(i - 1)
      <4>1. CASE \E i \in DOMAIN items : items[i].name = n
        BY <1>4, <3>1, <4>1
      <4>2. CASE ~\E i \in DOMAIN items : items[i].name = n
        <5>1. items' = items \o <<ItemNamed(n)>>
          BY <1>4, <3>1, <3>2, <4>2, OneMore
        <5>2. /\ items' \in Seq(Range(lib.items)) /\ DOMAIN items' = 1..(Len(items) + 1)
              /\ DOMAIN items = 1..Len(items) /\ Len(items) \in Nat
              /\ \A i \in 1..Len(items) : items'[i] = items[i]
              /\ items'[Len(items) + 1] = ItemNamed(n)
          BY <1>4, <3>2, <5>1, OneMore
        <5>3. \A i \in DOMAIN items' \ DOMAIN items : i = Len(items) + 1
          BY <5>2
        <5>4. \A i \in DOMAIN items' \ DOMAIN items : i - 1 = Len(items)
          BY <5>2, <5>3
        <5>5. Len(items) + 1 \in DOMAIN items'
          BY <5>2
        <5> QED
          BY <3>2, <5>2, <5>3, <5>4, <5>5
      <4> QED
        BY <4>1, <4>2
    <3>6. GenTypes'
      <4>1. /\ UNCHANGED <<choiceVars, at, part, body, classes>>
            /\ entry' \in Nat \ {0} /\ items' \in Seq(Range(lib.items))
        BY <1>1, <1>4, <3>1, <3>5
      <4> QED
        BY <4>1, SameTypes DEF GenTypes
    <3>7. Beginning'
      BY <1>1, <1>2, <3>1 DEF Beginning
    <3>8. \A i \in DOMAIN items' : \A m \in Parts(items'[i]) : \E j \in 1..(i - 1) : items'[j].name = m
      <4> SUFFICES ASSUME NEW i \in DOMAIN items', NEW m \in Parts(items'[i])
                   PROVE  \E j \in 1..(i - 1) : items'[j].name = m
        OBVIOUS
      <4>1. CASE i \in DOMAIN items
        <5>1. PICK j \in 1..(i - 1) : items[j].name = m
          BY <1>6, <1>8, <3>5, <4>1
        <5>2. j \in DOMAIN items
          <6>1. DOMAIN items = 1..Len(items) /\ Len(items) \in Nat
            BY <1>4, LenProperties
          <6> QED
            BY <4>1, <5>1, <6>1
        <5> QED
          BY <3>5, <5>1, <5>2
      <4>2. CASE i \notin DOMAIN items
        BY <3>4, <3>5, <4>2
      <4> QED
        BY <4>1, <4>2
    <3>9. /\ entry' <= Len(SelectedNames) + 1
          /\ \A j \in 1..(entry' - 1) : \E i \in DOMAIN items' : items'[i].name = SelectedNames[j]
      <4>1. entry' <= Len(SelectedNames) + 1
        BY <1>4, <1>6, <1>8, <3>1
      <4>2. ASSUME NEW j \in 1..(entry' - 1)
            PROVE  \E i \in DOMAIN items' : items'[i].name = SelectedNames[j]
        <5>1. j \in 1..(entry - 1) \/ j = entry
          BY <1>4, <3>1
        <5>2. CASE j = entry
          BY <3>5, <5>2 DEF n
        <5>3. CASE j \in 1..(entry - 1)
          <6>1. PICK i \in DOMAIN items : items[i].name = SelectedNames[j]
            BY <1>6, <1>8, <5>3
          <6> QED
            BY <3>5, <6>1
        <5> QED
          BY <5>1, <5>2, <5>3
      <4> QED
        BY <4>1, <4>2
    <3>10. PartsFirst'
      <4>1. DOMAIN classes' = {}
        BY <1>1, <1>2
      <4>2. SelectedNames' = SelectedNames
        BY <1>1, SameLibrary
      <4> QED
        BY <3>8, <3>9, <4>1, <4>2 DEF PartsFirst, Parts
    <3> QED
      BY <1>3, <3>6, <3>7, <3>10
  <2> QED
    BY <2>1, <2>2
<1> QED
  BY <1>5, <1>7, <1>8

\* What an entry does to the invariant.
LEMMA EntryKeeps ==
  ASSUME GenInv, EntryStep
  PROVE  GenInv'
<1> USE DEF GenInv
<1>1. /\ at = "class" /\ items # <<>> /\ Item \in Range(lib.items)
      /\ UNCHANGED <<choiceVars, spec, imports, items, part, classes>>
      /\ EntryEnds
  BY EntrySteps
<1>2. lib' = lib /\ isBase' = isBase /\ Definitions' = Definitions /\ Item' = Item
  BY <1>1, SameLibrary DEF Item
<1>3. body \in Seq(Definitions) /\ DefinitionsOf(Item) \subseteq Definitions /\ entry \in Nat \ {0}
  BY <1>1 DEF GenTypes, Definitions
<1>4. body' \in Seq(Definitions) /\ entry' \in Nat \ {0} /\ at' \in {"class", "failed"}
  <2>1. CASE at' = "failed" /\ UNCHANGED <<body, used, propNames, entry>>
    BY <1>3, <2>1
  <2>2. CASE entry' = entry + 1 /\ at' = at /\ Writes(<<>>)
    BY <1>1, <1>3, <2>2, WritesNone
  <2>3. CASE entry' = entry + 1 /\ at' = at /\ \E d \in DefinitionsOf(Item) : Writes(<<d>>)
    BY <1>1, <1>3, <2>3, WritesOne
  <2> QED
    BY <1>1, <2>1, <2>2, <2>3 DEF EntryEnds
<1>5. GenTypes'
  BY <1>1, <1>4, SameTypes DEF GenTypes
<1>6. Beginning'
  BY <1>1, <1>4 DEF Beginning
<1>7. PartsFirst'
  <2>1. at' # "select" /\ at # "select" /\ IsItem(lib.clsid)' = IsItem(lib.clsid)
    BY <1>1, <1>4, SameLibrary
  <2> QED
    BY <1>1, <2>1 DEF PartsFirst, Parts
<1>8. CASE UNCHANGED <<body, used>> /\ (propNames' = propNames \/ Entry.name \in propNames \/ Item.sink)
           /\ propNames' \subseteq propNames \cup {Entry.name}
  <2>1. Bodies'
    BY <1>1, <1>8, SameBodies
  <2>2. Item.sink \/ propNames' \subseteq propNames
    BY <1>8
  <2>3. GettersWritten'
    BY <1>1, <1>2, <1>8, <2>2 DEF GettersWritten
  <2> QED
    BY <1>5, <1>6, <1>7, <2>1, <2>3
<1>9. ASSUME NEW d \in DefinitionsOf(Item), Writes(<<d>>),
             d.kind = "setter" => \E n \in propNames : d.name = PublicName(n) /\ ~Item.sink,
             propNames' \subseteq propNames \cup {Entry.name},
             \/ propNames' = propNames \/ Item.sink \/ d.name = PublicName(Entry.name)
             \/ Entry \in Range(Item.gets) /\ IsSpecial(Entry)
      PROVE  Bodies' /\ GettersWritten'
  <2>1. /\ DOMAIN body' = 1..(Len(body) + 1)
        /\ DOMAIN body = 1..Len(body) /\ Len(body) \in Nat
        /\ \A i \in 1..Len(body) : body'[i] = body[i]
        /\ body'[Len(body) + 1] = d
        /\ used \subseteq used' /\ d.names \cap Flagged \subseteq used'
    BY <1>3, <1>9, WritesOne
  <2>2. Noticed(body)'
    <3> SUFFICES ASSUME NEW j \in DOMAIN body' PROVE body'[j].names \cap Flagged \subseteq used'
      BY DEF Noticed
    <3>1. CASE j \in DOMAIN body
      BY <2>1, <3>1 DEF Noticed, Bodies
    <3>2. CASE j = Len(body) + 1
      BY <2>1, <3>2
    <3> QED
      BY <2>1, <3>1, <3>2
  <2>3. SetterFollows(body)'
    <3> SUFFICES ASSUME NEW j \in DOMAIN body', body'[j].kind = "setter"
                 PROVE  \/ \E i \in 1..(j - 1) : body'[i].name = body'[j].name
                        \/ \E item \in Range(lib.items) : \E e \in Range(item.gets) :
                             body'[j].name = PublicName(e.name) /\ IsSpecial(e)
      BY <1>2 DEF SetterFollows
    <3>1. CASE j \in DOMAIN body
      <4>1. \A i \in 1..(j - 1) : i \in 1..Len(body)
        BY <2>1, <3>1
      <4>2. body'[j] = body[j]
        BY <2>1, <3>1
      <4>3. \/ \E i \in 1..(j - 1) : body[i].name = body[j].name
            \/ \E item \in Range(lib.items) : \E e \in Range(item.gets) :
                 body[j].name = PublicName(e.name) /\ IsSpecial(e)
        BY <3>1, <4>2 DEF Bodies, SetterFollows
      <4> QED
        BY <2>1, <4>1, <4>2, <4>3
    <3>2. CASE j = Len(body) + 1
      <4>1. PICK n \in propNames : d.name = PublicName(n) /\ ~Item.sink
        BY <1>9, <2>1, <3>2
      <4>2. \/ \E i \in DOMAIN body : body[i].name = PublicName(n)
            \/ \E e \in Range(Item.gets) : e.name = n /\ IsSpecial(e)
        BY <1>1, <4>1 DEF GettersWritten
      <4>3. 1..(j - 1) = DOMAIN body /\ body'[j] = d
        BY <2>1, <3>2
      <4> QED
        BY <1>1, <2>1, <4>1, <4>2, <4>3
    <3> QED
      BY <2>1, <3>1, <3>2
  <2>4. Bodies'
    <3>1. \A k \in DOMAIN classes : Noticed(classes[k].body)' /\ SetterFollows(classes[k].body)'
      BY <1>1, <1>2, <2>1 DEF Bodies, Noticed, SetterFollows
    <3> QED
      BY <1>1, <2>2, <2>3, <3>1 DEF Bodies, Noticed, SetterFollows
  <2>5. GettersWritten'
    <3> SUFFICES ASSUME ~Item.sink, NEW n \in propNames'
                 PROVE  \/ \E i \in DOMAIN body' : body'[i].name = PublicName(n)
                        \/ \E e \in Range(Item.gets) : e.name = n /\ IsSpecial(e)
      BY <1>2 DEF GettersWritten
    <3>1. CASE n \in propNames
      <4>1. \A i \in DOMAIN body : i \in DOMAIN body' /\ body'[i] = body[i]
        BY <2>1
      <4> QED
        BY <1>1, <3>1, <4>1 DEF GettersWritten
    <3>2. CASE n \notin propNames
      <4>1. n = Entry.name
        BY <1>9, <3>2
      <4>2. Len(body) + 1 \in DOMAIN body'
        BY <2>1
      <4> QED
        BY <1>9, <2>1, <3>2, <4>1, <4>2
    <3> QED
      BY <3>1, <3>2
  <2> QED
    BY <2>4, <2>5
<1>10. CASE at' = "failed" /\ UNCHANGED <<body, used, propNames, entry>>
  BY <1>8, <1>10
<1>11. CASE /\ Writes(<<>>) /\ propNames' \subseteq propNames \cup {Entry.name}
            /\ propNames' = propNames \/ Entry.name \in propNames \/ Item.sink
  BY <1>3, <1>8, <1>11, WritesNone
<1> QED
  BY <1>1, <1>5, <1>6, <1>7, <1>9, <1>10, <1>11 DEF EntryEnds

\* The end of a map changes nothing of it.
LEMMA MapEnds ==
  ASSUME GenInv, EndOfMap
  PROVE  GenInv'
<1> USE DEF GenInv
<1>1. /\ UNCHANGED <<choiceVars, at, spec, imports, used, items, body, propNames, classes>>
      /\ at = "class" /\ entry' = 1 /\ part' = NextPart(part) /\ part # "puts"
  BY DEF EndOfMap
<1>2. part' \in {"funcs", "props", "gets", "puts"}
  BY <1>1 DEF GenTypes, NextPart
<1>3. GenTypes'
  BY <1>1, <1>2, SameTypes DEF GenTypes
<1>4. Beginning'
  BY <1>1 DEF Beginning
<1>5. PartsFirst'
  <2>1. at' # "select" /\ at # "select" /\ IsItem(lib.clsid)' = IsItem(lib.clsid)
    BY <1>1, SameLibrary
  <2> QED
    BY <1>1, <2>1 DEF PartsFirst, Parts
<1>6. Bodies' /\ GettersWritten'
  BY <1>1, SameBodies DEF GettersWritten, Item
<1> QED
  BY <1>3, <1>4, <1>5, <1>6

\* A class that is finished joins the others, after those it consists of.
LEMMA ClassEnds ==
  ASSUME GenInv, EndOfClass
  PROVE  GenInv'
<1> USE DEF GenInv
<1> DEFINE class == [name |-> Item.name, bases |-> Bases(Item), body |-> body]
<1>1. /\ at = "class" /\ items # <<>> /\ classes' = Append(classes, class) /\ items' = Tail(items)
      /\ at' = IF Tail(items) = <<>> THEN "done" ELSE "class"
      /\ part' = "funcs" /\ entry' = 1 /\ body' = <<>> /\ propNames' = {}
      /\ UNCHANGED <<choiceVars, spec, imports, used>>
  BY DEF EndOfClass, Beginning
<1>2. /\ lib \in Libraries /\ items \in Seq(Range(lib.items)) /\ classes \in Seq(ClassDefs)
      /\ body \in Seq(Definitions)
  BY DEF GenTypes
<1>3. /\ Item = items[1] /\ Item \in Range(lib.items) /\ items' \in Seq(Range(lib.items))
      /\ DOMAIN items = 1..Len(items) /\ DOMAIN items' = 1..(Len(items) - 1) /\ Len(items) \in Nat \ {0}
      /\ \A i \in 1..(Len(items) - 1) : items'[i] = items[i + 1]
  <2>1. /\ Head(items) \in Range(lib.items) /\ Tail(items) \in Seq(Range(lib.items))
        /\ Len(Tail(items)) = Len(items) - 1 /\ \A i \in 1..Len(Tail(items)) : Tail(items)[i] = items[i + 1]
    BY <1>1, <1>2, HeadTailProperties
  <2>2. Head(items) = items[1] /\ Len(items) \in Nat \ {0}
    BY <1>1, <1>2, EmptySeq, LenProperties
  <2> QED
    BY <1>1, <1>2, <2>1, <2>2, LenProperties DEF Item
<1>4. class \in ClassDefs
  BY <1>2, <1>3 DEF ClassDefs
<1>5. /\ class.name = Item.name /\ class.bases = Bases(Item) /\ class.body = body
  OBVIOUS
<1> HIDE DEF class
<1>6. /\ classes' \in Seq(ClassDefs) /\ DOMAIN classes' = 1..(Len(classes) + 1)
      /\ DOMAIN classes = 1..Len(classes) /\ Len(classes) \in Nat
      /\ \A k \in 1..Len(classes) : classes'[k] = classes[k]
      /\ classes'[Len(classes) + 1] = class
  <2>1. classes' = classes \o <<class>>
    BY <1>1, <1>2, <1>4, OneMore
  <2> QED
    BY <1>2, <1>4, <2>1, OneMore
<1>7. GenTypes'
  <2>1. at' \in {"done", "class"} /\ part' = "funcs" /\ entry' = 1 /\ body' = <<>>
    BY <1>1
  <2> QED
    BY <1>1, <1>3, <1>6, <2>1, SameTypes
<1>8. Beginning'
  BY <1>1 DEF Beginning
<1>9. Bodies' /\ GettersWritten'
  <2>1. lib' = lib /\ used' = used
    BY <1>1, SameLibrary
  <2>2. ASSUME NEW k \in DOMAIN classes'
        PROVE  Noticed(classes'[k].body) /\ SetterFollows(classes'[k].body)
    <3>1. CASE k \in 1..Len(classes)
      BY <1>6, <3>1 DEF Bodies
    <3>2. CASE k = Len(classes) + 1
      BY <1>5, <1>6, <3>2 DEF Bodies
    <3> QED
      BY <1>6, <3>1, <3>2
  <2>3. DOMAIN body' = {}
    BY <1>1
  <2>4. Bodies'
    BY <2>1, <2>2, <2>3 DEF Bodies, Noticed, SetterFollows
  <2> QED
    BY <1>1, <2>4 DEF GettersWritten
<1>10. PartsFirst'
  <2>1. at' # "select" /\ IsItem(lib.clsid)' = IsItem(lib.clsid)
    BY <1>1, SameLibrary
  <2> SUFFICES ASSUME IsItem(lib.clsid)
               PROVE  /\ \A i \in DOMAIN items' : \A n \in Parts(items'[i]) :
                           \/ \E j \in 1..(i - 1) : items'[j].name = n
                           \/ \E k \in DOMAIN classes' : classes'[k].name = n
                      /\ \A k \in DOMAIN classes' : \A n \in Range(classes'[k].bases) :
                           n = "AxServeObject" \/ \E j \in 1..(k - 1) : classes'[j].name = n
    BY <2>1 DEF PartsFirst, Parts
  <2>2. /\ \A i \in DOMAIN items : \A n \in Parts(items[i]) :
             \/ \E j \in 1..(i - 1) : items[j].name = n
             \/ \E k \in DOMAIN classes : classes[k].name = n
        /\ \A k \in DOMAIN classes : \A n \in Range(classes[k].bases) :
             n = "AxServeObject" \/ \E j \in 1..(k - 1) : classes[j].name = n
    BY DEF PartsFirst
  <2>3. \A k \in DOMAIN classes : k \in DOMAIN classes' /\ classes'[k].name = classes[k].name
    BY <1>6
  <2>4. ASSUME NEW i \in DOMAIN items', NEW n \in Parts(items'[i])
        PROVE  \/ \E j \in 1..(i - 1) : items'[j].name = n
               \/ \E k \in DOMAIN classes' : classes'[k].name = n
    <3>1. i + 1 \in DOMAIN items /\ items'[i] = items[i + 1]
      BY <1>3
    <3>2. CASE \E k \in DOMAIN classes : classes[k].name = n
      BY <2>3, <3>2
    <3>3. ASSUME NEW j \in 1..((i + 1) - 1), items[j].name = n
          PROVE  \/ \E h \in 1..(i - 1) : items'[h].name = n
                 \/ \E k \in DOMAIN classes' : classes'[k].name = n
      <4>1. CASE j = 1
        <5>1. Len(classes) + 1 \in DOMAIN classes' /\ classes'[Len(classes) + 1].name = n
          BY <1>3, <1>5, <1>6, <3>3, <4>1
        <5> QED
          BY <5>1
      <4>2. CASE j # 1
        <5>1. j - 1 \in 1..(i - 1) /\ j - 1 \in 1..(Len(items) - 1) /\ (j - 1) + 1 = j
          BY <1>3, <3>3, <4>2
        <5>2. items'[j - 1].name = n
          BY <1>3, <3>3, <5>1
        <5> QED
          BY <5>1, <5>2
      <4> QED
        BY <4>1, <4>2
    <3> QED
      BY <2>2, <3>1, <3>2, <3>3
  <2>5. ASSUME NEW k \in DOMAIN classes', NEW n \in Range(classes'[k].bases), n # "AxServeObject"
        PROVE  \E j \in 1..(k - 1) : classes'[j].name = n
    <3>1. CASE k \in 1..Len(classes)
      <4>1. PICK j \in 1..(k - 1) : classes[j].name = n
        BY <1>6, <2>2, <2>5, <3>1
      <4>2. j \in DOMAIN classes
        BY <1>6, <3>1
      <4> QED
        BY <2>3, <4>1, <4>2
    <3>2. CASE k = Len(classes) + 1
      <4>1. n \in Parts(items[1])
        BY <1>2, <1>3, <1>5, <1>6, <2>5, <3>2, BasesAreParts
      <4>2. \E j \in DOMAIN classes : classes[j].name = n
        <5>1. 1 \in DOMAIN items /\ 1..(1 - 1) = {}
          BY <1>3
        <5> QED
          BY <2>2, <4>1, <5>1
      <4>3. 1..(k - 1) = DOMAIN classes
        BY <1>6, <3>2
      <4> QED
        BY <2>3, <4>2, <4>3
    <3> QED
      BY <1>6, <3>1, <3>2
  <2> QED
    BY <2>4, <2>5
<1> QED
  BY <1>7, <1>8, <1>9, <1>10

\* Every step keeps the invariant of the generator.
LEMMA GenSteps ==
  ASSUME GenInv, [ProgramNext]_gcVars
  PROVE  GenInv'
<1>1. CASE Generate
  <2>1. CASE EntryStep
    BY <2>1, EntryKeeps
  <2>2. CASE MakeImports \/ FindSpec
    BY <2>2, BeginSteps
  <2>3. CASE SelectAll \/ SelectItem \/ EndOfSelection
    BY <2>3, SelectSteps
  <2>4. CASE EndOfMap \/ EndOfClass
    BY <2>4, MapEnds, ClassEnds
  <2> QED
    BY <1>1, <2>1, <2>2, <2>3, <2>4 DEF Generate, GenNext, EntryStep
<1>2. CASE UNCHANGED genVars
  <2>1. UNCHANGED <<choiceVars, at, imports, used, items, part, entry, body, propNames, classes>>
    BY <1>2 DEF genVars, choiceVars
  <2>2. GenTypes'
    BY <2>1, SameTypes DEF GenInv, GenTypes
  <2>3. Beginning'
    BY <2>1 DEF GenInv, Beginning
  <2>4. PartsFirst'
    <3>1. IsItem(lib.clsid)' = IsItem(lib.clsid) /\ SelectedNames' = SelectedNames
      BY <2>1, SameLibrary
    <3>2. at' = at /\ entry' = entry /\ items' = items /\ classes' = classes
      BY <2>1
    <3> QED
      BY <3>1, <3>2 DEF GenInv, PartsFirst, Parts
  <2>5. Bodies' /\ GettersWritten'
    BY <2>1, SameBodies DEF GenInv, GettersWritten, Item
  <2> QED
    BY <2>2, <2>3, <2>4, <2>5 DEF GenInv
<1>3. CASE UseClass \/ UsePlainObject
  <2>1. /\ UNCHANGED <<choiceVars, imports, used, items, part, entry, body, propNames, classes>>
        /\ at \in {"done", "failed"} /\ at' = "used"
    BY <1>3 DEF UseClass, UsePlainObject, Importable
  <2>2. GenTypes'
    BY <2>1, SameTypes DEF GenInv, GenTypes
  <2>3. Beginning'
    BY <2>1 DEF GenInv, Beginning
  <2>4. PartsFirst'
    <3>1. at' # "select" /\ at # "select" /\ IsItem(lib.clsid)' = IsItem(lib.clsid)
      BY <2>1, SameLibrary
    <3> QED
      BY <2>1, <3>1 DEF GenInv, PartsFirst, Parts
  <2>5. Bodies' /\ GettersWritten'
    BY <2>1, SameBodies DEF GenInv, GettersWritten
  <2> QED
    BY <2>2, <2>3, <2>4, <2>5 DEF GenInv
<1> QED
  BY <1>1, <1>2, <1>3 DEF ProgramNext, Access, gcVars

\* What names a definition may need.
LEMMA DefinitionNames ==
  ASSUME NEW d \in Definitions, NEW n \in d.names
  PROVE  \/ n \in Flagged \/ n = "decorator"
         \/ isBase /\ d.kind = "setter" /\ n = d.name
         \/ \E item \in Range(lib.items) : \E e \in Entries(item) : n = e.result
<1> DEFINE Known(x) == x.names \subseteq
                         Flagged \cup {"decorator"}
                           \cup {m \in {x.name} : isBase /\ x.kind = "setter"}
                           \cup {e.result : e \in UNION {Entries(item) : item \in Range(lib.items)}}
<1>1. PICK item \in Range(lib.items) : d \in DefinitionsOf(item)
  BY DEF Definitions
<1>2. \A e, name : IterNames(name) \subseteq Flagged /\ DefaultNames(e) \subseteq Flagged
                   /\ ResultNames(e) \subseteq {e.result}
  BY DEF IterNames, DefaultNames, ResultNames, Flagged
<1>3. ASSUME NEW e \in Entries(item), NEW name, NEW kind, NEW signature, NEW names \in SUBSET Flagged
      PROVE  Known(FunctionDef(name, kind, e, signature, names))
  <2>1. DecoratorNames(name, kind) \subseteq
          {"decorator"} \cup {m \in {name} : isBase /\ kind = "setter"}
    BY DEF DecoratorNames
  <2> DEFINE f == FunctionDef(name, kind, e, signature, names)
  <2>2. /\ f.name = name /\ f.kind = kind
        /\ f.names = names \cup DecoratorNames(name, kind) \cup IterNames(name) \cup ResultNames(e)
    BY DEF FunctionDef
  <2>3. e.result \in {x.result : x \in UNION {Entries(i) : i \in Range(lib.items)}}
    OBVIOUS
  <2> HIDE DEF f
  <2>4. Known(f)
    BY <1>2, <2>1, <2>2, <2>3
  <2> QED
    BY <2>4 DEF f
<1>4. ASSUME NEW e \in Entries(item), NEW name
      PROVE  Known(NamedMethod(e, name))
  BY <1>2 DEF NamedMethod
<1>5. Range(item.funcs) \cup Range(item.gets) \cup Range(item.puts) \subseteq Entries(item)
  BY DEF Entries
<1>6. \A e : DefaultNames(e) \in SUBSET Flagged /\ {} \in SUBSET Flagged
  BY <1>2
<1>7. \A e \in Entries(item) :
        Known(Event(e)) /\ Known(Method(e)) /\ Known(Getter(e)) /\ Known(Setter(e))
  BY <1>3, <1>6 DEF Event, Method, Getter, Setter
<1>8. Known(d)
  <2> HIDE DEF Known
  <2> QED
    BY <1>1, <1>4, <1>5, <1>7 DEF DefinitionsOf
<1> QED
  BY <1>8

\* The generated module can be imported, but for the names that ImportsSuffice
\* lists: imports are written before it is known what is used.
LEMMA ImportsFollow ==
  ASSUME GenInv
  PROVE  ImportsSuffice
<1> SUFFICES ASSUME at = "done", NEW k \in DOMAIN classes, NEW n \in UnboundIn(k)
             PROVE  \/ n \in Flagged \cap used
                    \/ \E item \in Range(lib.items) : \E e \in Entries(item) : n = e.result
                    \/ /\ n \in Range(classes[k].bases)
                       /\ lib.clsid \notin {item.name : item \in Range(lib.items)}
                    \/ isBase /\ \E item \in Range(lib.items) : \E e \in Range(item.gets) :
                         n = PublicName(e.name) /\ SpecialName(e) # ""
  BY DEF ImportsSuffice, Flagged
<1>1. imports = ImportedAlways
  BY DEF GenInv, Beginning
<1> DEFINE before == imports \cup {classes[i].name : i \in 1..(k-1)}
           own(j) == {classes[k].body[i].name : i \in 1..(j-1)}
<1>2. CASE n \in Range(classes[k].bases) \ before
  <2>1. CASE IsItem(lib.clsid)
    <3>1. n = "AxServeObject" \/ \E j \in 1..(k - 1) : classes[j].name = n
      BY <1>2, <2>1 DEF GenInv, PartsFirst
    <3> QED
      BY <1>1, <1>2, <3>1 DEF ImportedAlways
  <2>2. CASE ~IsItem(lib.clsid)
    BY <1>2, <2>2 DEF IsItem
  <2> QED
    BY <2>1, <2>2
<1>3. ASSUME NEW j \in DOMAIN classes[k].body, n \in classes[k].body[j].names \ (before \cup own(j))
      PROVE  \/ n \in Flagged \cap used
             \/ \E item \in Range(lib.items) : \E e \in Entries(item) : n = e.result
             \/ isBase /\ \E item \in Range(lib.items) : \E e \in Range(item.gets) :
                  n = PublicName(e.name) /\ SpecialName(e) # ""
  <2>1. classes[k].body[j] \in Definitions
    <3>1. classes[k] \in ClassDefs
      BY ElementOfSeq, LenProperties DEF GenInv, GenTypes
    <3>2. classes[k].body \in Seq(Definitions)
      BY <3>1 DEF ClassDefs
    <3> QED
      BY <3>2, ElementOfSeq, LenProperties
  <2>2. \/ n \in Flagged \/ n = "decorator"
        \/ isBase /\ classes[k].body[j].kind = "setter" /\ n = classes[k].body[j].name
        \/ \E item \in Range(lib.items) : \E e \in Entries(item) : n = e.result
    BY <1>3, <2>1, DefinitionNames
  <2>3. n # "decorator"
    BY <1>1, <1>3 DEF ImportedAlways
  <2>4. CASE n \in Flagged
    BY <1>3, <2>4 DEF GenInv, Bodies, Noticed
  <2>5. CASE isBase /\ classes[k].body[j].kind = "setter" /\ n = classes[k].body[j].name
    <3>1. ~\E i \in 1..(j - 1) : classes[k].body[i].name = n
      BY <1>3
    <3>2. SetterFollows(classes[k].body)
      BY DEF GenInv, Bodies
    <3>3. \E item \in Range(lib.items) : \E e \in Range(item.gets) :
            n = PublicName(e.name) /\ IsSpecial(e)
      BY <2>5, <3>1, <3>2 DEF SetterFollows
    <3> QED
      BY <2>5, <3>3, SpecialIsNamed
  <2> QED
    BY <2>2, <2>3, <2>4, <2>5
<1>4. UnboundIn(k) = (Range(classes[k].bases) \ before)
        \cup UNION {classes[k].body[j].names \ (before \cup own(j)) : j \in DOMAIN classes[k].body}
  BY DEF UnboundIn
<1> HIDE DEF before, own
<1>5. \/ n \in Range(classes[k].bases) \ before
      \/ \E j \in DOMAIN classes[k].body : n \in classes[k].body[j].names \ (before \cup own(j))
  BY <1>4
<1> QED
  BY <1>2, <1>3, <1>5

-----------------------------------------------------------------------------
(* Members and descriptors. *)

Described == lib \in Libraries /\ description = lib.description

\* The infos of a kind with a name that the client gives them.
Describes(kind, n) ==
  \E i \in DOMAIN description[kind] : ClientName(kind, description[kind][i]) = n

\* An index is 0, or that of an info of the name.
LEMMA IndexFacts ==
  ASSUME Described, NEW kind \in Kinds, NEW n
  PROVE  IF Describes(kind, n)
         THEN /\ IndexNamed(description, kind, n) \in Nat \ {0}
              /\ Hits(kind, IndexNamed(description, kind, n), n)
         ELSE IndexNamed(description, kind, n) = 0
<1> DEFINE found == {i \in DOMAIN description[kind] : ClientName(kind, description[kind][i]) = n}
<1>1. description[kind] \in Seq(Range(description[kind]))
  BY AgreementAssumption DEF Described
<1>2. DOMAIN description[kind] = 1..Len(description[kind]) /\ Len(description[kind]) \in Nat
  BY <1>1, LenProperties
<1>3. found \in SUBSET (1..Len(description[kind]))
  BY <1>2
<1>4. IndexNamed(description, kind, n) = IF found = {} THEN 0 ELSE Max(found)
  BY DEF IndexNamed
<1>5. found = {} <=> ~Describes(kind, n)
  BY DEF Describes
<1>6. CASE found # {}
  <2>1. Max(found) \in found
    <3> HIDE DEF found
    <3> QED
      BY <1>2, <1>3, <1>6, GreatestIn
  <2> QED
    BY <1>2, <1>4, <1>5, <1>6, <2>1 DEF Hits
<1> QED
  BY <1>4, <1>5, <1>6

\* The descriptors of a member.
LEMMA MemberFacts ==
  ASSUME Described, NEW n, NEW x \in MemberNamed(description, n)
  PROVE  /\ x.kind \in Kinds /\ x.name = n /\ x.index # 0 /\ ~Fails(x)
         /\ Hits(x.kind, x.index, n)
         /\ x.kind # "property" => x.signature = Exactly(description[x.kind][x.index].arguments)
<1> DEFINE at_(kind) == IndexNamed(description, kind, n)
<1>1. \/ at_("property") # 0 /\ x = PropertyOf(description.property[at_("property")], at_("property"))
      \/ at_("method") # 0 /\ x = MethodOf(description.method[at_("method")], at_("method"))
      \/ at_("event") # 0 /\ x = EventOf(description.event[at_("event")], at_("event"))
  BY DEF MemberNamed
<1>2. \A kind \in Kinds : at_(kind) # 0 => Hits(kind, at_(kind), n)
  BY IndexFacts
<1>3. \A kind \in Kinds : Hits(kind, at_(kind), n) => ClientName(kind, description[kind][at_(kind)]) = n
  BY DEF Hits
<1> HIDE DEF at_
<1>4. CASE at_("property") # 0 /\ x = PropertyOf(description.property[at_("property")], at_("property"))
  BY <1>2, <1>3, <1>4 DEF PropertyOf, Kinds, Fails
<1>5. CASE at_("method") # 0 /\ x = MethodOf(description.method[at_("method")], at_("method"))
  BY <1>2, <1>3, <1>5 DEF MethodOf, Kinds, Fails
<1>6. CASE at_("event") # 0 /\ x = EventOf(description.event[at_("event")], at_("event"))
  BY <1>2, <1>3, <1>6 DEF EventOf, Kinds, Fails
<1> QED
  BY <1>1, <1>4, <1>5, <1>6

\* A member has a descriptor of each kind that is described.
LEMMA MemberOfKind ==
  ASSUME Described, NEW n, NEW kind \in Kinds, Describes(kind, n)
  PROVE  OfKind(MemberNamed(description, n), kind) # {} /\ HasMember(description, n)
<1>1. IndexNamed(description, kind, n) # 0
  BY IndexFacts
<1>2. \E x \in MemberNamed(description, n) : x.kind = kind
  <2> DEFINE at_(k) == IndexNamed(description, k, n)
             property == PropertyOf(description.property[at_("property")], at_("property"))
             method == MethodOf(description.method[at_("method")], at_("method"))
             event == EventOf(description.event[at_("event")], at_("event"))
  <2>1. property.kind = "property" /\ method.kind = "method" /\ event.kind = "event"
    BY DEF PropertyOf, MethodOf, EventOf
  <2>2. MemberNamed(description, n) =
          (IF at_("property") = 0 THEN {} ELSE {property})
            \cup (IF at_("method") = 0 THEN {} ELSE {method})
            \cup (IF at_("event") = 0 THEN {} ELSE {event})
    BY DEF MemberNamed
  <2>3. at_(kind) # 0
    BY <1>1
  <2> HIDE DEF at_, property, method, event
  <2> QED
    BY <2>1, <2>2, <2>3 DEF Kinds
<1> QED
  BY <1>2 DEF OfKind, HasMember

\* What the generator writes for an entry of an item.
WrittenFor(d, item, e) ==
  \/ d.kind = "method" /\ d.name \in SpecialNames
  \/ /\ item.sink /\ d.kind = "event" /\ d.name = EventMethodName(e.name)
     /\ IsSpecial(e) => e \in Range(item.puts)
  \/ /\ ~item.sink /\ e \in Range(item.funcs) /\ Written(e)
     /\ d.kind = "method" /\ d.name = PublicName(e.name) /\ d.signature = Parameters(e)
  \/ /\ ~item.sink /\ ((e \in Range(item.gets) /\ ~IsSpecial(e)) \/ e \in Range(item.puts))
     /\ d.kind \in {"property", "setter"} /\ d.name = PublicName(e.name)

\* Every definition is written for an entry.
LEMMA DefinitionFacts ==
  ASSUME NEW d \in Definitions
  PROVE  \E item \in Range(lib.items) : \E e \in Entries(item) : WrittenFor(d, item, e)
<1> USE DEF WrittenFor
<1>1. PICK item \in Range(lib.items) : d \in DefinitionsOf(item)
  BY DEF Definitions
<1>2. Range(item.funcs) \cup Range(item.gets) \cup Range(item.puts) \subseteq Entries(item)
  BY DEF Entries
<1>3. CASE \E e \in Entries(item) : IsSpecial(e) /\ d = NamedMethod(e, SpecialName(e))
  BY <1>3, SpecialNamed DEF NamedMethod
<1>4. CASE item.sink /\ \E e \in Entries(item) : (IsSpecial(e) => e \in Range(item.puts)) /\ d = Event(e)
  BY <1>4 DEF Event, FunctionDef
<1>5. CASE ~item.sink /\ \E e \in Range(item.funcs) : Written(e) /\ d = Method(e)
  BY <1>2, <1>5 DEF Method, FunctionDef
<1>6. CASE ~item.sink /\ \E e \in Range(item.gets) : ~IsSpecial(e) /\ d = Getter(e)
  BY <1>2, <1>6 DEF Getter, FunctionDef
<1>7. CASE ~item.sink /\ \E e \in Range(item.puts) : d = Setter(e)
  BY <1>2, <1>7 DEF Setter, FunctionDef
<1> QED
  BY <1>1, <1>3, <1>4, <1>5, <1>6, <1>7 DEF DefinitionsOf

\* A descriptor from a class.
LEMMA ClassFacts ==
  ASSUME NEW d \in Definitions
  PROVE  /\ DescriptorOf(d).kind \in Kinds /\ DescriptorOf(d).name = d.name
         /\ DescriptorOf(d).index = 0 /\ ~Fails(DescriptorOf(d))
         /\ d.kind \in Kinds \cup {"setter"}
         /\ DescriptorOf(d).kind = IF d.kind = "setter" THEN "property" ELSE d.kind
         /\ d.kind = "method" => DescriptorOf(d).signature = d.signature
<1>1. d.kind \in Kinds \cup {"setter"}
  BY DefinitionFacts DEF WrittenFor, Kinds
<1> QED
  BY <1>1 DEF DescriptorOf, Declared, Kinds, Fails

\* A descriptor that an access ends up at, and its index.
LEMMA DescriptorFacts ==
  ASSUME Described, NEW x \in Descriptors
  PROVE  /\ x.kind \in Kinds /\ x.name \in Names /\ ~Fails(x)
         /\ IF x.index = 0 THEN x \in FromClasses
            ELSE /\ Hits(x.kind, x.index, x.name)
                 /\ x.kind = "method" =>
                      x.signature = Exactly(description.method[x.index].arguments)
<1>1. CASE x \in FromDescription
  <2>1. PICK n \in Names : x \in MemberNamed(description, n)
    BY <1>1 DEF FromDescription
  <2> QED
    BY <2>1, MemberFacts
<1>2. CASE x \in FromClasses
  BY <1>2, ClassFacts DEF FromClasses
<1> QED
  BY <1>1, <1>2 DEF Descriptors

\* The index of a descriptor is that of the member of its name and kind; there
\* is none only for a declared one, that is not described.
LEMMA IndexOfFacts ==
  ASSUME Described, NEW x \in Descriptors
  PROVE  IF Fails(IndexOf(description, x))
         THEN /\ IndexOf(description, x).error \in NotFound
              /\ x \in FromClasses /\ ~Describes(x.kind, x.name)
         ELSE /\ Hits(x.kind, IndexOf(description, x).index, x.name)
              /\ x.index # 0 => IndexOf(description, x).index = x.index
<1> DEFINE member == MemberNamed(description, x.name)
           i == IndexOf(description, x)
<1>0. \A reason : Fails(Error(reason)) /\ Error(reason).error = reason
  BY DEF Fails, Error
<1>1. CASE x.index # 0
  BY <1>1, DescriptorFacts DEF IndexOf
<1>2. CASE x.index = 0 /\ ResolvedKind(member, x.kind) # {} /\ HasMember(description, x.name)
  <2>1. PICK y \in member : y = The(ResolvedKind(member, x.kind)) /\ y.kind = x.kind
    BY <1>2 DEF The, ResolvedKind, OfKind
  <2>2. Hits(x.kind, y.index, x.name)
    BY <2>1, MemberFacts
  <2>3. i = [x EXCEPT !.index = y.index]
    BY <1>2, <2>1 DEF IndexOf
  <2>4. PICK d \in Definitions : x = DescriptorOf(d)
    BY <1>2, DescriptorFacts DEF FromClasses
  <2>5. i.index = y.index /\ ~Fails(i)
    BY <2>3, <2>4 DEF DescriptorOf, Declared, Fails
  <2> QED
    BY <1>2, <2>2, <2>5
<1>3. CASE x.index = 0 /\ (ResolvedKind(member, x.kind) = {} \/ ~HasMember(description, x.name))
  <2>1. i = Error("no such member") \/ i = Error("other kind")
    BY <1>3 DEF IndexOf
  <2>2. ~Describes(x.kind, x.name)
    BY <1>3, DescriptorFacts, MemberOfKind DEF ResolvedKind
  <2> QED
    BY <1>0, <1>3, <2>1, <2>2, DescriptorFacts DEF NotFound
<1> QED
  BY <1>1, <1>2, <1>3

\* Where an access by a name ends up, if anywhere.
LEMMA ReachableFacts ==
  ASSUME Described, Declares, NEW n \in Names, NEW x \in Reachable(n)
  PROVE  x \in Descriptors /\ x.name = n
<1>1. CASE n \in DOMAIN declared /\ x = declared[n]
  BY <1>1, ClassFacts DEF Declares, Descriptors, FromClasses
<1>2. CASE x \in MemberNamed(description, n)
  BY <1>2, MemberFacts DEF Descriptors, FromDescription
<1> QED
  BY <1>1, <1>2 DEF Reachable, GetAttribute, GetItem, MemberGet, OfKind

\* Where an assignment ends up.
LEMMA SetFacts ==
  ASSUME Described, Declares, NEW n \in Names, ~Fails(SetAttribute(declared, description, n))
  PROVE  /\ SetAttribute(declared, description, n) \in Descriptors
         /\ SetAttribute(declared, description, n).name = n
         /\ SetAttribute(declared, description, n).kind = "property"
<1> DEFINE x == SetAttribute(declared, description, n)
           properties == OfKind(MemberNamed(description, n), "property")
<1>0. \A reason : Fails(Error(reason))
  BY DEF Fails, Error
<1>1. CASE HasMember(description, n)
  <2>1. x = IF properties = {} THEN Error("not implemented") ELSE The(properties)
    BY <1>1 DEF SetAttribute, MemberSet, Only
  <2>2. properties # {} => The(properties) \in properties
    BY DEF The
  <2>3. x \in MemberNamed(description, n) /\ x.kind = "property"
    BY <1>0, <2>1, <2>2 DEF OfKind
  <2> QED
    BY <2>3, MemberFacts DEF Descriptors, FromDescription
<1>2. CASE ~HasMember(description, n)
  <2>1. n \in DOMAIN declared /\ x = declared[n] /\ x.kind = "property"
    BY <1>0, <1>2 DEF SetAttribute
  <2> QED
    BY <2>1, ClassFacts DEF Declares, Descriptors, FromClasses
<1> QED
  BY <1>1, <1>2

\* Where a call ends up, of obj.n or of obj[n].
LEMMA CallFacts ==
  ASSUME Described, Declares, NEW n \in Names, NEW member \in SUBSET Reachable(n),
         ~Fails(MemberCall(member))
  PROVE  MemberCall(member) \in Descriptors /\ MemberCall(member).name = n
<1>1. \A reason : Fails(Error(reason))
  BY DEF Fails, Error
<1>2. \A set : set # {} => The(set) \in set
  BY DEF The
<1>3. MemberCall(member) \in member
  BY <1>1, <1>2 DEF MemberCall, OfKind
<1> QED
  BY <1>3, ReachableFacts

\* An attempt sends its request if nothing fails, or raises what does.
LEMMA AttemptFacts ==
  ASSUME NEW t, NEW x, NEW v, NEW checks, NEW request, DOMAIN checks \in SUBSET Nat,
         Attempt(t, x, v, checks, request)
  PROVE  \/ /\ \A i \in DOMAIN checks : ~Fails(checks[i])
            /\ wire' = wire \cup {request} /\ refused' = refused
         \/ /\ \E i \in DOMAIN checks : Fails(checks[i]) /\ Refuse(x, checks[i], v)
            /\ wire' = wire
<1> DEFINE failed == {i \in DOMAIN checks : Fails(checks[i])}
<1>1. ~Fails(Nothing)
  BY DEF Fails, Nothing, Node
<1>2. FirstError(checks) = IF failed = {} THEN Nothing ELSE checks[Min(failed)]
  BY DEF FirstError
<1>3. CASE failed = {}
  BY <1>1, <1>2, <1>3 DEF Attempt
<1>4. CASE failed # {}
  <2>1. failed \in SUBSET Nat
    OBVIOUS
  <2>2. Min(failed) \in failed
    <3> HIDE DEF failed
    <3> QED
      BY <1>4, <2>1, LeastIn
  <2>3. Fails(FirstError(checks)) /\ FirstError(checks) = checks[Min(failed)]
    BY <1>2, <1>4, <2>2
  <2>4. Refuse(x, checks[Min(failed)], v) /\ wire' = wire
    BY <2>3 DEF Attempt
  <2> QED
    BY <2>2, <2>4
<1> QED
  BY <1>3, <1>4

\* A declared descriptor without a member was renamed by the generator.
LEMMA Undescribed ==
  ASSUME Described, NEW x \in FromClasses, ~Describes(x.kind, x.name)
  PROVE  Renamed(x.name)
<1>1. PICK d \in Definitions : x = DescriptorOf(d)
  BY DEF FromClasses
<1>2. PICK item \in Range(lib.items) : \E e \in Entries(item) : WrittenFor(d, item, e)
  BY DefinitionFacts
<1>5. PICK e \in Entries(item) : WrittenFor(d, item, e)
  BY <1>2
<1>3. x.name = d.name /\ x.kind = IF d.kind = "setter" THEN "property" ELSE d.kind
  BY <1>1, ClassFacts
<1>4. IF item.sink
      THEN Describes("event", EventMethodName(e.name)) \/ (IsSpecial(e) /\ e \notin Range(item.puts))
      ELSE /\ e \in Range(item.funcs) /\ Written(e) => Describes("method", e.name)
           /\ e \in Range(item.gets) /\ ~IsSpecial(e) => Describes("property", e.name)
           /\ e \in Range(item.puts) => Describes("property", e.name)
  BY AgreementAssumption DEF Described, Describes
<1> QED
  BY <1>3, <1>4, <1>5 DEF WrittenFor, Renamed

\* Why an access raises before a request is sent.
Reason(x, v, error) ==
  \/ error.error \in {"not readable", "not writable", "does not bind"}
  \/ error = IndexOf(description, x) /\ Fails(error)
  \/ v \in KnownValues /\ error = ValueToVariant(v) /\ Fails(error)

\* Reasons tell apart.
LEMMA DisjointReasons ==
  /\ ConversionErrors \cap NotFound = {}
  /\ {"not readable", "not writable", "does not bind"} \cap (ConversionErrors \cup NotFound) = {}
<1>1. ConversionErrors = {"out of range", "unexpected type"}
  BY DEF ConversionErrors, OutOfRange, UnexpectedType, Error
<1> QED
  BY <1>1 DEF NotFound

\* An access that raises for one of these is not one that should not.
LEMMA RefusalKeeps ==
  ASSUME Described, lib' = lib, RefusedInv, NEW x \in Descriptors, NEW v, NEW error,
         Reason(x, v, error), Refuse(x, error, v)
  PROVE  RefusedInv'
<1> DEFINE f == [name |-> x.name, kind |-> x.kind, value |-> v,
                 declared |-> ~x.info.described, reason |-> error.error]
<1>1. refused' = refused \cup {f} /\ f.reason = error.error /\ f.value = v /\ f.name = x.name
  BY DEF Refuse
<1> HIDE DEF f
<1>2. ConversionErrors \cap NotFound = {}
  BY DisjointReasons
<1>3. CASE error.error \in {"not readable", "not writable", "does not bind"}
  <2>1. error.error \notin ConversionErrors /\ error.error \notin NotFound
    BY <1>3, DisjointReasons
  <2> QED
    BY <1>1, <2>1 DEF RefusedInv, Renamed
<1>4. CASE error = IndexOf(description, x) /\ Fails(error)
  <2>1. error.error \in NotFound /\ Renamed(x.name)
    BY <1>4, IndexOfFacts, Undescribed
  <2> QED
    BY <1>1, <1>2, <2>1 DEF RefusedInv, Renamed
<1>5. CASE v \in KnownValues /\ error = ValueToVariant(v) /\ Fails(error)
  <2>1. error.error \in ConversionErrors
    BY <1>5, ValueConverts DEF KnownValues
  <2> QED
    BY <1>1, <1>2, <1>5, <2>1 DEF RefusedInv, Renamed
<1> QED
  BY <1>3, <1>4, <1>5 DEF Reason

\* What a class has under a name is what was written for it, there or in one
\* of its bases.
LEMMA AttributeFacts ==
  ASSUME GenTypes, NEW k \in DOMAIN classes, NEW n \in DOMAIN Attributes(k)
  PROVE  \E d \in Definitions : d.name = n /\ Attributes(k)[n] = DescriptorOf(d)
<1>1. ASSUME NEW h \in DOMAIN classes
      PROVE  /\ classes[h].body \in Seq(Definitions) /\ DOMAIN classes[h].bases \in SUBSET Nat
             /\ DOMAIN classes[h].body = 1..Len(classes[h].body) /\ Len(classes[h].body) \in Nat
  <2>1. classes[h] \in ClassDefs
    BY ElementOfSeq, LenProperties DEF GenTypes
  <2>2. PICK item \in Range(lib.items), b \in Seq(Definitions) :
          classes[h] = [name |-> item.name, bases |-> Bases(item), body |-> b]
    BY <2>1 DEF ClassDefs
  <2>3. classes[h].bases = Bases(item) /\ classes[h].body = b
    BY <2>2
  <2> QED
    BY <2>3, BasesAreParts, LenProperties DEF GenTypes
<1>2. Attributes(k)[n] = AttributeIn(Holder(k, n), n) /\ (n \in NamesIn(k) \/ BasesWith(k, n) # {})
  BY DEF Attributes
<1>3. Holder(k, n) \in DOMAIN classes /\ n \in NamesIn(Holder(k, n))
  <2>1. CASE n \in NamesIn(k)
    BY <2>1 DEF Holder
  <2>2. CASE n \notin NamesIn(k)
    <3>1. BasesWith(k, n) \in SUBSET Nat /\ BasesWith(k, n) # {}
      BY <1>1, <1>2, <2>2 DEF BasesWith
    <3>2. Min(BasesWith(k, n)) \in BasesWith(k, n)
      BY <3>1, LeastIn
    <3> DEFINE base == classes[k].bases[Min(BasesWith(k, n))]
    <3>3. IsClass(base) /\ n \in NamesIn(ClassNamed(base))
      BY <3>2 DEF BasesWith
    <3>4. ClassNamed(base) \in DOMAIN classes
      BY <3>3 DEF IsClass, ClassNamed
    <3> QED
      BY <2>2, <3>3, <3>4 DEF Holder
  <2> QED
    BY <2>1, <2>2
<1> DEFINE h == Holder(k, n)
           found == {j \in DOMAIN classes[h].body : classes[h].body[j].name = n}
<1>4. found \in SUBSET (1..Len(classes[h].body)) /\ found # {}
  BY <1>1, <1>3 DEF NamesIn, Range
<1>5. Max(found) \in found
  <2>1. Len(classes[h].body) \in Nat
    BY <1>1, <1>3
  <2> HIDE DEF found, h
  <2> QED
    BY <1>4, <2>1, GreatestIn
<1>6. classes[h].body[Max(found)] \in Definitions /\ classes[h].body[Max(found)].name = n
  <2>1. classes[h].body \in Seq(Definitions) /\ Max(found) \in 1..Len(classes[h].body)
    BY <1>1, <1>3, <1>4, <1>5
  <2> QED
    BY <1>5, <2>1, ElementOfSeq
<1>7. AttributeIn(h, n) = DescriptorOf(classes[h].body[Max(found)])
  BY DEF AttributeIn
<1> QED
  BY <1>2, <1>6, <1>7

\* No step changes the library, the arguments, the client or the description.
LEMMA Kept ==
  ASSUME [ProgramNext]_gcVars
  PROVE  UNCHANGED choiceVars /\ UNCHANGED <<asyncio, description>>
<1>1. CASE Generate
  <2>1. UNCHANGED choiceVars
    BY <1>1 DEF Generate, GenNext, MakeImports, FindSpec, SelectAll, SelectItem, EndOfSelection,
         FuncEntry, PropEntry, GetEntry, PutEntry, EndOfMap, EndOfClass
  <2> QED
    BY <1>1, <2>1 DEF Generate, accessVars
<1>2. CASE UseClass \/ UsePlainObject
  BY <1>2 DEF UseClass, UsePlainObject, accessVars
<1>3. CASE Access
  <2>1. UNCHANGED choiceVars
    BY <1>3 DEF Access, genVars, choiceVars
  <2>2. AccessNext
    BY <1>3 DEF Access
  <2>3. CASE \E t \in Tasks, n \in Names : GetProperty(t, n) \/ ConnectEvent(t, n)
    BY <2>1, <2>3 DEF GetProperty, ConnectEvent
  <2>4. CASE \E t \in Tasks, n \in Names, v \in Given : SetProperty(t, n, v) \/ CreateSetTask(t, n, v)
    BY <2>1, <2>4 DEF SetProperty, CreateSetTask
  <2>5. CASE \E t \in Tasks, n \in Names, k \in Counts : InvokeMethod(t, n, k)
    BY <2>1, <2>5 DEF InvokeMethod
  <2>6. CASE RunSetTask \/ \E r \in wire : Serve(r)
    BY <2>1, <2>6 DEF RunSetTask, Serve
  <2> QED
    BY <2>2, <2>3, <2>4, <2>5, <2>6 DEF AccessNext
<1>4. CASE UNCHANGED gcVars
  BY <1>4 DEF gcVars, genVars, choiceVars, accessVars
<1> QED
  BY <1>1, <1>2, <1>3, <1>4 DEF ProgramNext

\* So none changes what the descriptors are, and which index is which.
LEMMA SameDescription ==
  ASSUME UNCHANGED choiceVars, UNCHANGED description
  PROVE  /\ lib' = lib /\ Definitions' = Definitions /\ Descriptors' = Descriptors /\ Jobs' = Jobs
         /\ \A kind, index, n : Hits(kind, index, n)' = Hits(kind, index, n)
<1>1. lib' = lib /\ Definitions' = Definitions
  BY SameLibrary
<1>2. \A n : MemberNamed(description, n)' = MemberNamed(description, n)
  OBVIOUS
<1>3. Descriptors' = Descriptors
  BY <1>1, <1>2 DEF Descriptors, FromDescription, FromClasses
<1> QED
  BY <1>1, <1>3 DEF Jobs, Hits

-----------------------------------------------------------------------------
(* The invariant of the accesses. *)

\* It holds at first.
LEMMA AccessBegins ==
  ASSUME ProgramInit
  PROVE  AccessInv
<1>1. /\ lib \in Libraries /\ isAsync \in BOOLEAN /\ at = "imports"
      /\ asyncio = isAsync /\ description = lib.description /\ declared = NothingDeclared
      /\ stored = [i \in DOMAIN description.property |-> Own(description.property[i].holds)]
      /\ thrown = {}
      /\ scheduled = <<>> /\ wire = {} /\ issued = 0 /\ reads = {} /\ refused = {} /\ misfits = {}
      /\ latest = [t \in Tasks |-> [n \in Names |-> NoAssignment]]
  BY DEF ProgramInit, GenInit, AccessInit
<1>2. DOMAIN declared = {}
  BY <1>1 DEF NothingDeclared
<1>3. /\ DOMAIN stored = DOMAIN description.property
      /\ \A i \in DOMAIN stored : stored[i] = Own(description.property[i].holds)
  BY <1>1
<1>4. AccessTypes
  <2>1. Declares
    BY <1>2 DEF Declares
  <2>2. ASSUME NEW i \in DOMAIN stored
        PROVE  Held(stored[i])
    <3>1. description.property[i].holds \in Trees(QVariantNodes)
      BY <1>1, <1>3, HoldsAssumption, TreeFacts
    <3>2. \A qvariant : Own(qvariant).qvariant = qvariant /\ Own(qvariant).by = NoAssignment
      BY DEF Own
    <3>3. stored[i].qvariant = description.property[i].holds /\ stored[i].by = NoAssignment
      BY <1>3, <3>2
    <3> QED
      BY <3>1, <3>3 DEF Held
  <2> QED
    BY <1>1, <1>3, <2>1, <2>2 DEF AccessTypes
<1>5. LatestStored
  <2>1. (\A qvariant : Own(qvariant).by = NoAssignment) /\ NoAssignment.awaited
    BY DEF Own, NoAssignment
  <2> QED
    BY <1>1, <1>3, <2>1 DEF LatestStored, Newest
<1> QED
  BY <1>1, <1>4, <1>5 DEF AccessInv, RequestTypes, ReadsInv, RefusedInv, OnlyOwnValuesThrow, ArgumentsFit

\* What an access that sends at most a request leaves alone.
Sending ==
  /\ at = "used" /\ at' = "used" /\ lib \in Libraries
  /\ UNCHANGED choiceVars
  /\ UNCHANGED <<asyncio, description, declared, stored, thrown, latest, reads, misfits>>
  /\ scheduled' \in Seq(Jobs) /\ (scheduled' # <<>> => asyncio)
  /\ issued' \in Nat

\* It keeps the invariant, if the request is a good one and so is a refusal.
LEMMA SendingKeeps ==
  ASSUME AccessInv, Sending, RefusedInv', \A r \in wire' : RequestFits(r)
  PROVE  AccessInv'
<1>1. /\ lib' = lib /\ Definitions' = Definitions /\ Jobs' = Jobs
      /\ \A kind, index, n : Hits(kind, index, n)' = Hits(kind, index, n)
  BY SameDescription DEF Sending
<1>2. /\ asyncio' = asyncio /\ description' = description /\ declared' = declared
      /\ stored' = stored /\ thrown' = thrown /\ latest' = latest /\ reads' = reads
      /\ misfits' = misfits /\ at' = "used"
  BY DEF Sending
<1>3. AccessTypes'
  <2>1. Declares'
    BY <1>1, <1>2 DEF AccessInv, AccessTypes, Declares
  <2>2. scheduled' \in Seq(Jobs') /\ (scheduled' # <<>> => asyncio') /\ issued' \in Nat
    BY <1>1, <1>2 DEF Sending
  <2> QED
    BY <1>1, <1>2, <2>1, <2>2 DEF AccessInv, AccessTypes, Held
<1>4. RequestTypes'
  <2>1. \A r : RequestFits(r)' = RequestFits(r)
    BY <1>1, <1>2 DEF RequestFits, CountFits
  <2> QED
    BY <2>1 DEF RequestTypes
<1>5. LatestStored'
  BY <1>1, <1>2 DEF AccessInv, LatestStored, Newest
<1>6. ReadsInv'
  BY <1>2 DEF AccessInv, ReadsInv, Held, Newest
<1>7. OnlyOwnValuesThrow' /\ ArgumentsFit'
  BY <1>2 DEF AccessInv, OnlyOwnValuesThrow, ArgumentsFit
<1> QED
  BY <1>3, <1>4, <1>5, <1>6, <1>7 DEF AccessInv

\* An attempt does, if its errors are those, and the request is a good one.
LEMMA AttemptKeeps ==
  ASSUME AccessInv, Sending, NEW t, NEW x \in Descriptors, NEW v, NEW checks, NEW request,
         DOMAIN checks \in SUBSET Nat, Attempt(t, x, v, checks, request),
         \A i \in DOMAIN checks : Fails(checks[i]) => Reason(x, v, checks[i]),
         (\A i \in DOMAIN checks : ~Fails(checks[i])) => RequestFits(request)
  PROVE  AccessInv'
<1>1. Described /\ lib' = lib
  BY SameDescription DEF Sending, AccessInv, AccessTypes, Described
<1>2. CASE (\A i \in DOMAIN checks : ~Fails(checks[i])) /\ wire' = wire \cup {request} /\ refused' = refused
  <2>1. RefusedInv'
    BY <1>1, <1>2 DEF AccessInv, RefusedInv, Renamed
  <2>2. \A r \in wire' : RequestFits(r)
    BY <1>2 DEF AccessInv, RequestTypes
  <2> QED
    BY <2>1, <2>2, SendingKeeps
<1>3. CASE (\E i \in DOMAIN checks : Fails(checks[i]) /\ Refuse(x, checks[i], v)) /\ wire' = wire
  <2>1. PICK i \in DOMAIN checks : Fails(checks[i]) /\ Refuse(x, checks[i], v)
    BY <1>3
  <2>2. RefusedInv'
    BY <1>1, <2>1, RefusalKeeps DEF AccessInv
  <2>3. \A r \in wire' : RequestFits(r)
    BY <1>3 DEF AccessInv, RequestTypes
  <2> QED
    BY <2>2, <2>3, SendingKeeps
<1> QED
  BY <1>2, <1>3, AttemptFacts

\* The fields of a request.
LEMMA RequestFields ==
  ASSUME NEW t, NEW what, NEW x, NEW index
  PROVE  /\ Request(t, what, x, index).what = what /\ Request(t, what, x, index).kind = x.kind
         /\ Request(t, what, x, index).index = index /\ Request(t, what, x, index).name = x.name
         /\ Request(t, what, x, index).task = t
         /\ Request(t, what, x, index).signature = x.signature
  BY DEF Request

\* The checks of a descriptor.
LEMMA CheckFacts ==
  ASSUME NEW x, NEW v, NEW holds
  PROVE  /\ Fails(Check(holds, "not readable")) => Reason(x, v, Check(holds, "not readable"))
         /\ Fails(Check(holds, "not writable")) => Reason(x, v, Check(holds, "not writable"))
<1>1. \A reason : Error(reason).error = reason
  BY DEF Error
<1>2. ~Fails(Nothing)
  BY DEF Fails, Nothing, Node
<1>3. \A reason : Fails(Check(holds, reason)) => Check(holds, reason).error = reason
  BY <1>1, <1>2 DEF Check
<1> QED
  BY <1>3 DEF Reason

\* A read.
LEMMA GetKeeps ==
  ASSUME AccessInv, Sending, NEW t \in Tasks, NEW n \in Names, GetProperty(t, n)
  PROVE  AccessInv'
<1>1. Described /\ Declares
  BY DEF Sending, AccessInv, AccessTypes, Described
<1>2. PICK x \in ThroughMemberType(Reachable(n), "property") :
        Attempt(t, x, Single(Nothing),
                <<Check(Readable(x), "not readable"), PropertyIndex(description, x)>>,
                Request(t, "get", x, PropertyIndex(description, x).index))
  BY DEF GetProperty
<1>3. x \in Descriptors /\ x.kind = "property"
  BY <1>1, <1>2, ReachableFacts DEF ThroughMemberType, OfKind
<1> DEFINE readable == Check(Readable(x), "not readable")
           index == IndexOf(description, x)
           checks == <<readable, index>>
           request == Request(t, "get", x, index.index)
<1>4. Attempt(t, x, Single(Nothing), checks, request)
  BY <1>2 DEF PropertyIndex
<1>5. Fails(readable) => Reason(x, Single(Nothing), readable)
  BY CheckFacts
<1>6. Fails(index) => Reason(x, Single(Nothing), index)
  BY DEF Reason
<1>7. ~Fails(index) => RequestFits(request)
  <2> SUFFICES ASSUME ~Fails(index) PROVE RequestFits(request)
    OBVIOUS
  <2>1. Hits(x.kind, index.index, x.name) /\ x.name \in Names
    BY <1>1, <1>3, IndexOfFacts, DescriptorFacts
  <2>2. /\ request.what = "get" /\ request.kind = x.kind /\ request.index = index.index
        /\ request.name = x.name /\ request.task = t
    BY RequestFields
  <2> HIDE DEF request, index
  <2> QED
    BY <1>3, <2>1, <2>2 DEF RequestFits, KindFor
<1> HIDE DEF readable, index, request
<1>8. DOMAIN checks = 1..2 /\ checks[1] = readable /\ checks[2] = index
  OBVIOUS
<1> HIDE DEF checks
<1>9. /\ DOMAIN checks \in SUBSET Nat
      /\ \A i \in DOMAIN checks : Fails(checks[i]) => Reason(x, Single(Nothing), checks[i])
      /\ (\A i \in DOMAIN checks : ~Fails(checks[i])) => RequestFits(request)
  BY <1>5, <1>6, <1>7, <1>8
<1> QED
  BY <1>3, <1>4, <1>9, AttemptKeeps

\* The look-up of an event.
LEMMA ConnectKeeps ==
  ASSUME AccessInv, Sending, NEW t \in Tasks, NEW n \in Names, ConnectEvent(t, n)
  PROVE  AccessInv'
<1>1. Described /\ Declares
  BY DEF Sending, AccessInv, AccessTypes, Described
<1>2. PICK x \in ThroughMemberType(Reachable(n), "event") :
        Attempt(t, x, Single(Nothing), <<EventIndex(description, x)>>,
                Request(t, "connect", x, EventIndex(description, x).index))
  BY DEF ConnectEvent
<1>3. x \in Descriptors /\ x.kind = "event"
  BY <1>1, <1>2, ReachableFacts DEF ThroughMemberType, OfKind
<1> DEFINE index == IndexOf(description, x)
           checks == <<index>>
           request == Request(t, "connect", x, index.index)
<1>4. Attempt(t, x, Single(Nothing), checks, request)
  BY <1>2 DEF EventIndex
<1>5. Fails(index) => Reason(x, Single(Nothing), index)
  BY DEF Reason
<1>6. ~Fails(index) => RequestFits(request)
  <2> SUFFICES ASSUME ~Fails(index) PROVE RequestFits(request)
    OBVIOUS
  <2>1. Hits(x.kind, index.index, x.name) /\ x.name \in Names
    BY <1>1, <1>3, IndexOfFacts, DescriptorFacts
  <2>2. /\ request.what = "connect" /\ request.kind = x.kind /\ request.index = index.index
        /\ request.name = x.name
    BY RequestFields
  <2> HIDE DEF request, index
  <2> QED
    BY <1>3, <2>1, <2>2 DEF RequestFits, KindFor
<1> HIDE DEF index, request
<1>7. DOMAIN checks = 1..1 /\ checks[1] = index
  OBVIOUS
<1> HIDE DEF checks
<1>8. /\ DOMAIN checks \in SUBSET Nat
      /\ \A i \in DOMAIN checks : Fails(checks[i]) => Reason(x, Single(Nothing), checks[i])
      /\ (\A i \in DOMAIN checks : ~Fails(checks[i])) => RequestFits(request)
  BY <1>5, <1>6, <1>7
<1> QED
  BY <1>3, <1>4, <1>8, AttemptKeeps

\* Arguments that do not bind.
LEMMA BindReason ==
  ASSUME NEW x, NEW v, NEW k, Fails(BindArgs(x, k))
  PROVE  Reason(x, v, BindArgs(x, k))
<1>1. ~Fails([count |-> k]) /\ \A m : ~Fails([count |-> m])
  BY DEF Fails
<1>2. BindArgs(x, k) = Error("does not bind")
  BY <1>1 DEF BindArgs
<1>3. \A reason : Error(reason).error = reason
  BY DEF Error
<1>4. BindArgs(x, k).error = "does not bind"
  BY <1>2, <1>3
<1> QED
  BY <1>4 DEF Reason

\* How many are sent of those that do.
LEMMA BindCount ==
  ASSUME NEW x, NEW k, ~Fails(BindArgs(x, k)), x.signature # NoSignature, ~x.signature.more
  PROVE  BindArgs(x, k).count = x.signature.named
<1>1. \A reason : Fails(Error(reason))
  BY DEF Fails, Error
<1>2. BindArgs(x, k) = [count |-> IF k > x.signature.named THEN k ELSE x.signature.named]
      /\ ~(k > x.signature.named)
  BY <1>1 DEF BindArgs
<1> QED
  BY <1>2

\* How many arguments the methods of a name take.
Overloads(n) ==
  {description.method[i].arguments :
     i \in {i \in DOMAIN description.method : description.method[i].name = n}}

\* No method has a special name, and one that is written is one of its name.
LEMMA OverloadFacts ==
  ASSUME Described
  PROVE  /\ \A n \in SpecialNames : Overloads(n) = {}
         /\ \A item \in Range(lib.items) : \A e \in Range(item.funcs) :
              ~item.sink /\ Written(e) =>
                \/ e.varargs \/ Overloads(PublicName(e.name)) = {}
                \/ Len(NamedArgs(e)) \in Overloads(PublicName(e.name))
<1> DEFINE In(l, n) == {l.description.method[i].arguments :
                          i \in {i \in DOMAIN l.description.method : l.description.method[i].name = n}}
<1>1. \A l \in Libraries :
        /\ \A n \in SpecialNames : In(l, n) = {}
        /\ \A item \in Range(l.items) : \A e \in Range(item.funcs) :
             ~item.sink /\ Written(e) =>
               \/ e.varargs \/ In(l, PublicName(e.name)) = {}
               \/ Len(NamedArgs(e)) \in In(l, PublicName(e.name))
  BY AgreementAssumption, Zenon
<1>2. \A n : Overloads(n) = In(lib, n)
  BY DEF Overloads, Described
<1> HIDE DEF In
<1> QED
  BY <1>1, <1>2 DEF Described

\* That is what the method takes, or what ArgumentsFit allows.
LEMMA BindFits ==
  ASSUME Described, NEW x \in Descriptors, x.kind = "method", NEW k, ~Fails(BindArgs(x, k)),
         NEW r, r.count = BindArgs(x, k).count, r.signature = x.signature, r.name = x.name,
         Hits("method", r.index, r.name), x.index # 0 => r.index = x.index
  PROVE  CountFits(r)
<1>1. CASE x.index # 0
  <2>1. x.signature = Exactly(description.method[r.index].arguments)
    BY <1>1, DescriptorFacts
  <2>2. /\ x.signature # NoSignature /\ ~x.signature.more
        /\ x.signature.named = description.method[r.index].arguments
    BY <2>1 DEF Exactly, NoSignature
  <2> QED
    BY <2>2, BindCount DEF CountFits
<1>2. CASE x.index = 0
  <2>1. PICK d \in Definitions : x = DescriptorOf(d)
    BY <1>2, DescriptorFacts DEF FromClasses
  <2>2. PICK item \in Range(lib.items) : \E e \in Entries(item) : WrittenFor(d, item, e)
    BY DefinitionFacts
  <2>3. PICK e \in Entries(item) : WrittenFor(d, item, e)
    BY <2>2
  <2>4. d.kind = "method" /\ d.name = x.name /\ x.signature = d.signature
    BY <2>1, ClassFacts
  <2>5. r.index \in DOMAIN description.method /\ description.method[r.index].name = x.name
    BY DEF Hits, ClientName
  <2>6. Overloads(x.name) # {}
    BY <2>5 DEF Overloads
  <2>7. x.name \notin SpecialNames
    BY <2>6, OverloadFacts
  <2>8. /\ ~item.sink /\ e \in Range(item.funcs) /\ Written(e)
        /\ x.name = PublicName(e.name) /\ x.signature = Parameters(e)
    BY <2>3, <2>4, <2>7 DEF WrittenFor
  <2>9. \/ e.varargs \/ Overloads(PublicName(e.name)) = {}
        \/ Len(NamedArgs(e)) \in Overloads(PublicName(e.name))
    BY <2>8, OverloadFacts
  <2>10. /\ x.signature # NoSignature /\ x.signature.more = e.varargs
         /\ x.signature.named = Len(NamedArgs(e))
    BY <2>8 DEF Parameters, NoSignature
  <2>11. CASE e.varargs
    BY <2>10, <2>11 DEF CountFits
  <2>12. CASE ~e.varargs
    <3>1. r.count \in Overloads(x.name)
      BY <2>6, <2>8, <2>9, <2>10, <2>12, BindCount
    <3> QED
      BY <3>1 DEF CountFits, Overloads
  <2> QED
    BY <2>11, <2>12
<1> QED
  BY <1>1, <1>2

\* A call.
LEMMA InvokeKeeps ==
  ASSUME AccessInv, Sending, NEW t \in Tasks, NEW n \in Names, NEW k, InvokeMethod(t, n, k)
  PROVE  AccessInv'
<1>1. Described /\ Declares
  BY DEF Sending, AccessInv, AccessTypes, Described
<1>0. PICK member \in {GetAttribute(declared, plain, description, n), GetItem(declared, description, n)} :
        LET x == MemberCall(member)
            index == MethodIndex(description, x)
            bound == BindArgs(x, k)
        IN  /\ ~Fails(x) /\ x.kind = "method"
            /\ Attempt(t, x, Single(Nothing), <<index, bound>>,
                       [Request(t, "call", x, index.index) EXCEPT !.count = bound.count])
  BY DEF InvokeMethod
<1> DEFINE x == MemberCall(member)
           index == IndexOf(description, x)
           bound == BindArgs(x, k)
           checks == <<index, bound>>
           request == [Request(t, "call", x, index.index) EXCEPT !.count = bound.count]
<1>2. /\ ~Fails(x) /\ x.kind = "method"
      /\ Attempt(t, x, Single(Nothing), checks, request)
  BY <1>0 DEF MethodIndex
<1>3. x \in Descriptors
  <2>1. member \in SUBSET Reachable(n)
    BY <1>0 DEF Reachable
  <2> QED
    BY <1>1, <1>2, <2>1, CallFacts
<1> HIDE DEF x
<1>4. Fails(index) => Reason(x, Single(Nothing), index)
  BY DEF Reason
<1>5. Fails(bound) => Reason(x, Single(Nothing), bound)
  BY BindReason
<1>6. ~Fails(index) /\ ~Fails(bound) => RequestFits(request)
  <2> SUFFICES ASSUME ~Fails(index), ~Fails(bound) PROVE RequestFits(request)
    OBVIOUS
  <2>1. /\ Hits(x.kind, index.index, x.name) /\ x.name \in Names
        /\ x.index # 0 => index.index = x.index
    BY <1>1, <1>3, IndexOfFacts, DescriptorFacts
  <2>2. /\ request.what = "call" /\ request.kind = x.kind /\ request.index = index.index
        /\ request.name = x.name /\ request.signature = x.signature /\ request.count = bound.count
    BY DEF Request
  <2> HIDE DEF request, index
  <2>3. CountFits(request)
    BY <1>1, <1>2, <1>3, <2>1, <2>2, BindFits
  <2> HIDE DEF bound
  <2> QED
    BY <1>2, <2>1, <2>2, <2>3 DEF RequestFits, KindFor
<1> HIDE DEF index, bound, request
<1>7. DOMAIN checks = 1..2 /\ checks[1] = index /\ checks[2] = bound
  OBVIOUS
<1> HIDE DEF checks
<1>8. /\ DOMAIN checks \in SUBSET Nat
      /\ \A i \in DOMAIN checks : Fails(checks[i]) => Reason(x, Single(Nothing), checks[i])
      /\ (\A i \in DOMAIN checks : ~Fails(checks[i])) => RequestFits(request)
  BY <1>4, <1>5, <1>6, <1>7
<1> QED
  BY <1>2, <1>3, <1>8, AttemptKeeps

\* What may be assigned is known.
LEMMA GivenKnown ==
  ASSUME AccessInv, NEW v \in Given
  PROVE  v \in KnownValues
<1>1. CASE v \in Values
  BY <1>1, ValuesAssumption, TreeFacts DEF KnownValues
<1>2. CASE \E r \in reads : v = r.value
  <2>1. PICK r \in reads : v = r.value
    BY <1>2
  <2>2. /\ r.of.qvariant \in Trees(QVariantNodes) /\ ~Fails(QVariantToProtoVariant(r.of.qvariant))
        /\ v = ValueFromVariant(QVariantToProtoVariant(r.of.qvariant).whole)
    BY <2>1 DEF AccessInv, ReadsInv, Held
  <2> QED
    BY <2>2, ReadConverts DEF KnownValues
<1> QED
  BY <1>1, <1>2 DEF Given

\* An assignment that is sent.
LEMMA AssignmentKeeps ==
  ASSUME AccessInv, Sending, NEW t, NEW x \in Descriptors, x.kind = "property",
         NEW v \in KnownValues, NEW by \in Assignments, asyncio \/ by.awaited,
         SendAssignment(t, by, x, v)
  PROVE  AccessInv'
<1>1. Described
  BY DEF Sending, AccessInv, AccessTypes, Described
<1> DEFINE writable == Check(Writable(x), "not writable")
           index == IndexOf(description, x)
           variant == ValueToVariant(v)
           checks == <<writable, index, variant>>
           request == [Request(t, "set", x, index.index) EXCEPT
                         !.by = by, !.value = v, !.variant = variant.whole]
<1>2. Attempt(t, x, v, checks, request)
  BY DEF SendAssignment, PropertyIndex
<1>3. Fails(writable) => Reason(x, v, writable)
  BY CheckFacts
<1>4. /\ Fails(index) => Reason(x, v, index)
      /\ Fails(variant) => Reason(x, v, variant)
  BY DEF Reason
<1>5. ~Fails(index) /\ ~Fails(variant) => RequestFits(request)
  <2> SUFFICES ASSUME ~Fails(index), ~Fails(variant) PROVE RequestFits(request)
    OBVIOUS
  <2>1. Hits(x.kind, index.index, x.name) /\ x.name \in Names
    BY <1>1, IndexOfFacts, DescriptorFacts
  <2>2. /\ request.what = "set" /\ request.kind = x.kind /\ request.index = index.index
        /\ request.name = x.name /\ request.by = by /\ request.value = v
        /\ request.variant = variant.whole
    BY DEF Request
  <2> HIDE DEF request, index
  <2> QED
    BY <2>1, <2>2 DEF RequestFits, KindFor, Carries
<1> HIDE DEF writable, index, variant, request
<1>6. DOMAIN checks = 1..3 /\ checks[1] = writable /\ checks[2] = index /\ checks[3] = variant
  OBVIOUS
<1> HIDE DEF checks
<1>7. /\ DOMAIN checks \in SUBSET Nat
      /\ \A i \in DOMAIN checks : Fails(checks[i]) => Reason(x, v, checks[i])
      /\ (\A i \in DOMAIN checks : ~Fails(checks[i])) => RequestFits(request)
  BY <1>3, <1>4, <1>5, <1>6
<1> QED
  BY <1>2, <1>7, AttemptKeeps

\* A thread's assignment, or one that is awaited.
LEMMA SetKeeps ==
  ASSUME AccessInv, Sending, NEW t \in Tasks, NEW n \in Names, NEW v \in Given, SetProperty(t, n, v)
  PROVE  AccessInv'
<1>1. Described /\ Declares /\ lib' = lib
  BY SameDescription DEF Sending, AccessInv, AccessTypes, Described
<1> DEFINE x == SetAttribute(declared, description, n)
           by == [number |-> issued', task |-> t, awaited |-> TRUE]
<1>2. \/ ~Fails(x) /\ SendAssignment(t, by, x, v)
      \/ UNCHANGED <<wire, refused>>
  BY DEF SetProperty
<1>3. CASE ~Fails(x) /\ SendAssignment(t, by, x, v)
  <2>1. x \in Descriptors /\ x.kind = "property"
    BY <1>1, <1>3, SetFacts
  <2>2. by \in Assignments /\ by.awaited
    BY DEF Sending, Assignments
  <2>3. v \in KnownValues
    BY GivenKnown
  <2> HIDE DEF x, by
  <2> QED
    BY <1>3, <2>1, <2>2, <2>3, AssignmentKeeps
<1>4. CASE UNCHANGED <<wire, refused>>
  <2>1. RefusedInv' /\ \A r \in wire' : RequestFits(r)
    BY <1>1, <1>4 DEF AccessInv, RefusedInv, Renamed, RequestTypes
  <2> QED
    BY <2>1, SendingKeeps
<1> QED
  BY <1>2, <1>3, <1>4

\* A task made by an assignment statement, when it runs.
LEMMA RunKeeps ==
  ASSUME AccessInv, Sending, RunSetTask
  PROVE  AccessInv'
<1> DEFINE job == Head(scheduled)
<1>1. scheduled # <<>> /\ SendAssignment(Nobody, job.by, job.x, job.value)
  BY DEF RunSetTask
<1>2. job \in Jobs /\ asyncio
  BY <1>1, HeadTailProperties DEF AccessInv, AccessTypes
<1>3. /\ job.x \in Descriptors /\ job.x.kind = "property" /\ job.value \in KnownValues
      /\ job.by \in Assignments
  BY <1>2 DEF Jobs, Assignments
<1> HIDE DEF job
<1> QED
  BY <1>1, <1>2, <1>3, AssignmentKeeps

\* Making it: the assignment is the task's last one, and is not awaited.
LEMMA CreateKeeps ==
  ASSUME AccessInv, at = "used", at' = "used", lib \in Libraries, UNCHANGED choiceVars,
         NEW t \in Tasks, NEW n \in Names, NEW v \in Given, CreateSetTask(t, n, v)
  PROVE  AccessInv'
<1> DEFINE x == SetAttribute(declared, description, n)
           by == [number |-> issued', task |-> t, awaited |-> FALSE]
           job == [by |-> by, x |-> x, value |-> v]
<1>1. /\ asyncio /\ ~Fails(x) /\ scheduled' = Append(scheduled, job)
      /\ latest' = [latest EXCEPT ![t][n] = by] /\ issued' = issued + 1
      /\ UNCHANGED <<asyncio, description, declared, stored, thrown, wire, misfits, reads, refused>>
  BY DEF CreateSetTask, SetsInTask, serverVars
<1>2. Described /\ Declares
  BY DEF AccessInv, AccessTypes, Described
<1>3. /\ lib' = lib /\ Definitions' = Definitions /\ Jobs' = Jobs
      /\ \A kind, index, m : Hits(kind, index, m)' = Hits(kind, index, m)
  BY <1>1, SameDescription
<1>4. x \in Descriptors /\ x.kind = "property" /\ v \in KnownValues
  BY <1>1, <1>2, SetFacts, GivenKnown
<1>5. issued' \in Nat
  BY <1>1 DEF AccessInv, AccessTypes
<1>6. by \in Assignments /\ ~by.awaited /\ job \in Jobs
  BY <1>4, <1>5 DEF Assignments, Jobs
<1>7. latest \in [Tasks -> [Names -> Assignments \cup {NoAssignment}]]
  BY DEF AccessInv, AccessTypes
<1> HIDE DEF by, job, x
<1>8. /\ latest' \in [Tasks -> [Names -> Assignments \cup {NoAssignment}]]
      /\ \A u \in Tasks, m \in Names :
           latest'[u][m] = IF u = t /\ m = n THEN by ELSE latest[u][m]
  BY <1>1, <1>6, <1>7
<1>9. AccessTypes'
  <2>1. Declares'
    BY <1>1, <1>3 DEF AccessInv, AccessTypes, Declares
  <2>2. scheduled' \in Seq(Jobs')
    BY <1>1, <1>3, <1>6, AppendProperties DEF AccessInv, AccessTypes
  <2> QED
    BY <1>1, <1>3, <1>5, <1>8, <2>1, <2>2 DEF AccessInv, AccessTypes, Held
<1>10. RequestTypes'
  BY <1>1, <1>3 DEF AccessInv, RequestTypes, RequestFits, CountFits
<1>11. LatestStored'
  <2> SUFFICES ASSUME NEW u \in Tasks, NEW m \in Names, NEW i \in DOMAIN stored, Hits("property", i, m)
               PROVE  Newest(u, stored[i].by, latest'[u][m])
    BY <1>1, <1>3 DEF LatestStored, Newest
  <2>1. Newest(u, stored[i].by, latest[u][m])
    BY DEF AccessInv, LatestStored
  <2> QED
    BY <1>1, <1>6, <1>8, <2>1 DEF Newest
<1>12. ReadsInv' /\ RefusedInv' /\ OnlyOwnValuesThrow' /\ ArgumentsFit'
  BY <1>1, <1>3 DEF AccessInv, ReadsInv, Held, Newest, RefusedInv, Renamed, OnlyOwnValuesThrow,
                    ArgumentsFit
<1> QED
  BY <1>9, <1>10, <1>11, <1>12 DEF AccessInv

\* What a value was converted to is what the server gives back of it.
LEMMA CarriesConverts ==
  ASSUME NEW v, NEW variant, Carries(variant, v)
  PROVE  /\ ProtoVariantToQVariant(variant) \in Trees(QVariantNodes)
         /\ ~Fails(QVariantToProtoVariant(ProtoVariantToQVariant(variant)))
         /\ ValueFromVariant(QVariantToProtoVariant(ProtoVariantToQVariant(variant)).whole) = AsRead(v)
<1>1. variant \in Trees(VariantNodes) /\ ValueFromVariant(variant) = AsRead(v)
  BY ValueConverts DEF Carries, KnownValues
<1> QED
  BY <1>1, ServerConverts

\* So what a property holds of an assignment is converted back.
LEMMA HeldConverts ==
  ASSUME NEW s, Held(s), s.by # NoAssignment
  PROVE  /\ ~Fails(QVariantToProtoVariant(s.qvariant))
         /\ ValueFromVariant(QVariantToProtoVariant(s.qvariant).whole) = AsRead(s.value)
<1>1. PICK variant : Carries(variant, s.value) /\ s.qvariant = ProtoVariantToQVariant(variant)
  BY DEF Held
<1> QED
  BY <1>1, CarriesConverts

\* The server takes a request.
LEMMA ServeKeeps ==
  ASSUME AccessInv, at = "used", at' = "used", lib \in Libraries, UNCHANGED choiceVars,
         NEW r \in wire, Serve(r)
  PROVE  AccessInv'
<1>1. /\ \/ ReadProperty(r) \/ WriteProperty(r) \/ CallMethod(r) \/ ConnectMember(r)
         \/ Unavailable
      /\ wire' = wire \ {r}
      /\ UNCHANGED <<asyncio, description, declared, scheduled, issued, refused>>
  BY DEF Serve
<1>2. /\ lib' = lib /\ Definitions' = Definitions /\ Jobs' = Jobs
      /\ \A kind, index, m : Hits(kind, index, m)' = Hits(kind, index, m)
  BY <1>1, SameDescription
<1>3. RequestFits(r)
  BY DEF AccessInv, RequestTypes
<1>4. RequestTypes'
  <2>1. \A q : RequestFits(q)' = RequestFits(q)
    BY <1>1, <1>2 DEF RequestFits, CountFits
  <2> QED
    BY <1>1, <2>1 DEF AccessInv, RequestTypes
<1>5. RefusedInv'
  BY <1>1, <1>2 DEF AccessInv, RefusedInv, Renamed
<1>6. ASSUME DOMAIN stored' = DOMAIN description.property, \A i \in DOMAIN stored' : Held(stored'[i]),
             latest' \in [Tasks -> [Names -> Assignments \cup {NoAssignment}]]
      PROVE  AccessTypes'
  <2>1. Declares'
    BY <1>1, <1>2 DEF AccessInv, AccessTypes, Declares
  <2> QED
    BY <1>1, <1>2, <1>6, <2>1 DEF AccessInv, AccessTypes, Held
<1>7. CASE UNCHANGED <<stored, latest>>
  <2>1. AccessTypes'
    BY <1>6, <1>7 DEF AccessInv, AccessTypes
  <2>2. LatestStored'
    BY <1>1, <1>2, <1>7 DEF AccessInv, LatestStored, Newest
  <2>3. CASE UNCHANGED <<thrown, reads, misfits>>
    <3>1. ReadsInv' /\ OnlyOwnValuesThrow' /\ ArgumentsFit'
      BY <1>1, <2>3 DEF AccessInv, ReadsInv, Held, Newest, OnlyOwnValuesThrow, ArgumentsFit
    <3> QED
      BY <1>4, <1>5, <2>1, <2>2, <3>1 DEF AccessInv
  <2>4. CASE ReadProperty(r)
    <3>1. ArgumentsFit'
      BY <1>1, <2>4 DEF ReadProperty, AccessInv, ArgumentsFit
    <3> DEFINE s == stored[r.index]
               variant == QVariantToProtoVariant(s.qvariant)
               read == [name |-> r.name, task |-> r.task, value |-> ValueFromVariant(variant.whole),
                        of |-> s, own |-> latest[r.task][r.name]]
    <3>2. \/ reads' = reads /\ thrown' = thrown
          \/ reads' = reads /\ thrown' = thrown \cup {s} /\ Fails(variant)
          \/ reads' = reads \cup {read} /\ thrown' = thrown /\ ~Fails(variant)
      BY <2>4 DEF ReadProperty
    <3>3. /\ r.task \in Tasks /\ r.name \in Names /\ Hits("property", r.index, r.name)
      BY <1>3, <2>4 DEF ReadProperty, RequestFits, KindFor
    <3>4. r.index \in DOMAIN stored
      BY <3>3 DEF AccessInv, AccessTypes, Hits
    <3>5. Held(s) /\ Newest(r.task, s.by, latest[r.task][r.name])
      BY <3>3, <3>4 DEF AccessInv, AccessTypes, LatestStored
    <3>6. latest[r.task][r.name] \in Assignments \cup {NoAssignment}
      BY <3>3 DEF AccessInv, AccessTypes
    <3>7. ~Fails(variant) =>
            /\ Held(read.of) /\ ~Fails(QVariantToProtoVariant(read.of.qvariant))
            /\ read.value = ValueFromVariant(QVariantToProtoVariant(read.of.qvariant).whole)
            /\ read.own \in Assignments \cup {NoAssignment} /\ Newest(read.task, read.of.by, read.own)
      BY <3>5, <3>6
    <3>8. Fails(variant) => s.by = NoAssignment
      BY <3>5, HeldConverts
    <3> HIDE DEF read, variant, s
    <3>9. ReadsInv'
      BY <1>1, <3>2, <3>7 DEF AccessInv, ReadsInv, Held, Newest
    <3>10. OnlyOwnValuesThrow'
      BY <3>2, <3>8 DEF AccessInv, OnlyOwnValuesThrow
    <3> QED
      BY <1>4, <1>5, <2>1, <2>2, <3>1, <3>9, <3>10 DEF AccessInv
  <2>5. CASE CallMethod(r)
    <3>1. ReadsInv'
      BY <1>1, <2>5 DEF CallMethod, AccessInv, ReadsInv, Held, Newest
    <3> DEFINE m == [name |-> r.name, sent |-> r.count, signature |-> r.signature,
                     taken |-> InfoOf(r).arguments]
    <3>2. misfits' = misfits \/ (r.count # InfoOf(r).arguments /\ misfits' = misfits \cup {m})
      BY <2>5 DEF CallMethod
    <3>3. r.kind = "method" /\ CountFits(r)
      BY <1>3, <2>5 DEF CallMethod, RequestFits, KindFor
    <3>4. InfoOf(r).arguments = description.method[r.index].arguments
      BY <3>3 DEF InfoOf
    <3>5. r.count # InfoOf(r).arguments =>
            \/ m.signature # NoSignature /\ m.signature.more
            \/ \E i \in DOMAIN description.method :
                 description.method[i].name = m.name /\ description.method[i].arguments = m.sent
      BY <3>3, <3>4 DEF CountFits
    <3> HIDE DEF m
    <3>6. ArgumentsFit'
      BY <1>1, <3>2, <3>5 DEF AccessInv, ArgumentsFit
    <3>7. thrown' \subseteq thrown \cup {Own(InfoOf(r).returns)}
      BY <2>5 DEF CallMethod, Returns
    <3>8. OnlyOwnValuesThrow'
      BY <3>7 DEF AccessInv, OnlyOwnValuesThrow, Own
    <3> QED
      BY <1>4, <1>5, <2>1, <2>2, <3>1, <3>6, <3>8 DEF AccessInv
  <2>6. ReadProperty(r) \/ CallMethod(r) \/ UNCHANGED <<thrown, reads, misfits>>
    BY <1>1 DEF WriteProperty, ConnectMember, Unavailable
  <2> QED
    BY <2>3, <2>4, <2>5, <2>6
<1>8. CASE /\ WriteProperty(r)
           /\ stored' = [stored EXCEPT ![r.index] =
                          [qvariant |-> ProtoVariantToQVariant(r.variant), value |-> r.value,
                           by |-> r.by]]
           /\ latest' = IF r.by.awaited
                        THEN [latest EXCEPT ![r.by.task][r.name] = r.by] ELSE latest
  <2>1. /\ r.by \in Assignments /\ (asyncio \/ r.by.awaited) /\ r.by.task \in Tasks
        /\ Carries(r.variant, r.value)
        /\ r.name \in Names /\ Hits("property", r.index, r.name)
    BY <1>3, <1>8 DEF WriteProperty, RequestFits, KindFor, Assignments
  <2> DEFINE s == [qvariant |-> ProtoVariantToQVariant(r.variant), value |-> r.value, by |-> r.by]
  <2>2. Held(s) /\ s.by = r.by
    <3>1. s.qvariant = ProtoVariantToQVariant(r.variant) /\ s.value = r.value /\ s.by = r.by
      OBVIOUS
    <3>2. s.qvariant \in Trees(QVariantNodes)
      BY <2>1, <3>1, CarriesConverts
    <3> HIDE DEF s
    <3> QED
      BY <2>1, <3>1, <3>2 DEF Held
  <2>3. stored' = [stored EXCEPT ![r.index] = s]
    BY <1>8
  <2> HIDE DEF s
  <2>4. /\ DOMAIN stored' = DOMAIN stored
        /\ stored'[r.index] = s /\ \A i \in DOMAIN stored \ {r.index} : stored'[i] = stored[i]
    <3>1. r.index \in DOMAIN stored
      BY <2>1 DEF AccessInv, AccessTypes, Hits
    <3> QED
      BY <2>3, <3>1
  <2>5. latest \in [Tasks -> [Names -> Assignments \cup {NoAssignment}]]
    BY DEF AccessInv, AccessTypes
  <2>6. /\ latest' \in [Tasks -> [Names -> Assignments \cup {NoAssignment}]]
        /\ \A u \in Tasks, n \in Names :
             latest'[u][n] = IF r.by.awaited /\ u = r.by.task /\ n = r.name THEN r.by ELSE latest[u][n]
    BY <1>8, <2>1, <2>5
  <2>7. AccessTypes'
    BY <1>6, <2>2, <2>4, <2>6 DEF AccessInv, AccessTypes
  <2>8. LatestStored'
    <3> SUFFICES ASSUME NEW u \in Tasks, NEW n \in Names, NEW i \in DOMAIN stored, Hits("property", i, n)
                 PROVE  Newest(u, stored'[i].by, latest'[u][n])
      BY <1>1, <1>2, <2>4 DEF LatestStored, Newest
    <3>1. Newest(u, stored[i].by, latest[u][n])
      BY DEF AccessInv, LatestStored
    <3>2. CASE i = r.index
      <4>1. n = r.name
        BY <2>1, <3>2 DEF Hits
      <4>2. stored'[i].by = r.by
        BY <2>2, <2>4, <3>2
      <4>3. u # r.by.task => r.by.task \notin {u, Nobody}
        BY <2>1, AccessAssumption
      <4>4. ~asyncio => r.by.awaited /\ latest'[u][n].awaited
        BY <1>1, <2>1, <2>6, <3>1, <4>1 DEF Newest
      <4> QED
        BY <1>1, <2>6, <4>1, <4>2, <4>3, <4>4 DEF Newest
    <3>3. CASE i # r.index
      <4>1. n # r.name
        BY <2>1, <3>3 DEF Hits
      <4> QED
        BY <1>1, <2>4, <2>6, <3>1, <3>3, <4>1 DEF Newest
    <3> QED
      BY <3>2, <3>3
  <2>9. ReadsInv' /\ OnlyOwnValuesThrow' /\ ArgumentsFit'
    BY <1>1, <1>8 DEF WriteProperty, AccessInv, ReadsInv, Held, Newest, OnlyOwnValuesThrow, ArgumentsFit
  <2> QED
    BY <1>4, <1>5, <2>7, <2>8, <2>9 DEF AccessInv
<1>9. ReadProperty(r) \/ WriteProperty(r) \/ CallMethod(r) \/ ConnectMember(r) \/ Unavailable
  BY <1>1
<1> QED
  BY <1>7, <1>8, <1>9 DEF ReadProperty, WriteProperty, CallMethod, ConnectMember, Unavailable

\* A step that leaves the accesses alone.
LEMMA QuietKeeps ==
  ASSUME AccessInv, UNCHANGED accessVars, UNCHANGED choiceVars, at' # "used" => at # "used"
  PROVE  AccessInv'
<1>1. /\ UNCHANGED <<asyncio, description, declared, stored, thrown, wire, misfits, plain, waiting>>
      /\ UNCHANGED <<scheduled, issued, latest, reads, refused>>
  BY DEF accessVars, serverVars, userVars
<1>2. /\ lib' = lib /\ Definitions' = Definitions /\ Jobs' = Jobs
      /\ \A kind, index, n : Hits(kind, index, n)' = Hits(kind, index, n)
  BY <1>1, SameDescription
<1>3. AccessTypes'
  <2>1. Declares'
    BY <1>1, <1>2 DEF AccessInv, AccessTypes, Declares
  <2> QED
    BY <1>1, <1>2, <2>1 DEF AccessInv, AccessTypes, Held
<1>4. RequestTypes' /\ LatestStored'
  BY <1>1, <1>2 DEF AccessInv, RequestTypes, RequestFits, CountFits, LatestStored, Newest
<1>5. ReadsInv' /\ RefusedInv' /\ OnlyOwnValuesThrow' /\ ArgumentsFit'
  BY <1>1, <1>2 DEF AccessInv, ReadsInv, Held, Newest, RefusedInv, Renamed, OnlyOwnValuesThrow,
                    ArgumentsFit
<1> QED
  BY <1>3, <1>4, <1>5 DEF AccessInv

\* The import of a class declares its attributes.
LEMMA UseClassKeeps ==
  ASSUME GenInv, AccessInv, UseClass
  PROVE  AccessInv'
<1>1. /\ at = "done" /\ at' = "used" /\ UNCHANGED choiceVars
      /\ declared' = Attributes(ClassNamed(lib.clsid)) /\ ClassNamed(lib.clsid) \in DOMAIN classes
      /\ UNCHANGED <<asyncio, description, stored, thrown, wire, misfits, plain, waiting>>
      /\ UNCHANGED <<scheduled, issued, latest, reads, refused>>
  BY DEF UseClass, Importable, ClassNamed, serverVars, userVars
<1>2. /\ lib' = lib /\ Definitions' = Definitions /\ Jobs' = Jobs
      /\ \A kind, index, n : Hits(kind, index, n)' = Hits(kind, index, n)
  BY <1>1, SameDescription
<1>3. AccessTypes'
  <2>1. Declares'
    <3>1. \A n \in DOMAIN declared' : \E d \in Definitions : d.name = n /\ declared'[n] = DescriptorOf(d)
      BY <1>1, AttributeFacts DEF GenInv
    <3> QED
      BY <1>2, <3>1 DEF Declares
  <2> QED
    BY <1>1, <1>2, <2>1 DEF AccessInv, AccessTypes, Held
<1>4. RequestTypes' /\ LatestStored'
  BY <1>1, <1>2 DEF AccessInv, RequestTypes, RequestFits, CountFits, LatestStored, Newest
<1>5. ReadsInv' /\ RefusedInv' /\ OnlyOwnValuesThrow' /\ ArgumentsFit'
  BY <1>1, <1>2 DEF AccessInv, ReadsInv, Held, Newest, RefusedInv, Renamed, OnlyOwnValuesThrow,
                    ArgumentsFit
<1> QED
  BY <1>3, <1>4, <1>5 DEF AccessInv

\* Every step keeps the invariant of the accesses.
LEMMA AccessSteps ==
  ASSUME GenInv, AccessInv, [ProgramNext]_gcVars
  PROVE  AccessInv'
<1>0. UNCHANGED choiceVars /\ UNCHANGED <<asyncio, description>>
  BY Kept
<1>1. CASE Generate
  <2>1. at # "used"
    BY <1>1 DEF Generate, GenNext, MakeImports, FindSpec, SelectAll, SelectItem, EndOfSelection,
         FuncEntry, PropEntry, GetEntry, PutEntry, AtEntry, EndOfMap, EndOfClass
  <2> QED
    BY <1>0, <1>1, <2>1, QuietKeeps DEF Generate
<1>2. CASE UseClass
  BY <1>2, UseClassKeeps
<1>3. CASE UsePlainObject
  BY <1>0, <1>3, QuietKeeps DEF UsePlainObject
<1>4. CASE UNCHANGED gcVars
  BY <1>0, <1>4, QuietKeeps DEF gcVars, genVars
<1>5. CASE Access
  <2>1. at = "used" /\ at' = "used" /\ lib \in Libraries /\ AccessNext
    BY <1>5 DEF Access, genVars, GenInv, GenTypes
  <2>2. issued \in Nat /\ scheduled \in Seq(Jobs) /\ (scheduled # <<>> => asyncio)
    BY DEF AccessInv, AccessTypes
  <2>3. ASSUME UNCHANGED <<declared, stored, thrown, latest, reads, misfits, scheduled>>, issued' = issued + 1
        PROVE  Sending
    BY <1>0, <2>1, <2>2, <2>3 DEF Sending
  <2>4. ASSUME NEW t \in Tasks, NEW n \in Names, GetProperty(t, n)
        PROVE  AccessInv'
    <3>1. Sending
      BY <2>3, <2>4 DEF GetProperty
    <3> QED
      BY <2>4, <3>1, GetKeeps
  <2>5. ASSUME NEW t \in Tasks, NEW n \in Names, ConnectEvent(t, n)
        PROVE  AccessInv'
    <3>1. Sending
      BY <2>3, <2>5 DEF ConnectEvent
    <3> QED
      BY <2>5, <3>1, ConnectKeeps
  <2>6. ASSUME NEW t \in Tasks, NEW n \in Names, NEW v \in Given, SetProperty(t, n, v)
        PROVE  AccessInv'
    <3>1. Sending
      BY <2>3, <2>6 DEF SetProperty
    <3> QED
      BY <2>6, <3>1, SetKeeps
  <2>7. ASSUME NEW t \in Tasks, NEW n \in Names, NEW k \in Counts, InvokeMethod(t, n, k)
        PROVE  AccessInv'
    <3>1. Sending
      BY <2>3, <2>7 DEF InvokeMethod
    <3> QED
      BY <2>7, <3>1, InvokeKeeps
  <2>8. ASSUME NEW t \in Tasks, NEW n \in Names, NEW v \in Given, CreateSetTask(t, n, v)
        PROVE  AccessInv'
    BY <1>0, <2>1, <2>8, CreateKeeps
  <2>9. CASE RunSetTask
    <3>1. scheduled' = Tail(scheduled) /\ scheduled # <<>> /\ issued' = issued
          /\ UNCHANGED <<declared, stored, thrown, latest, reads, misfits>>
      BY <2>9 DEF RunSetTask
    <3>2. scheduled' \in Seq(Jobs) /\ asyncio
      BY <2>2, <3>1, HeadTailProperties
    <3>3. Sending
      BY <1>0, <2>1, <2>2, <3>1, <3>2 DEF Sending
    <3> QED
      BY <2>9, <3>3, RunKeeps
  <2>10. ASSUME NEW r \in wire, Serve(r)
         PROVE  AccessInv'
    BY <1>0, <2>1, <2>10, ServeKeeps
  <2> QED
    BY <2>1, <2>4, <2>5, <2>6, <2>7, <2>8, <2>9, <2>10 DEF AccessNext
<1> QED
  BY <1>1, <1>2, <1>3, <1>4, <1>5 DEF ProgramNext

\* Both invariants hold.
LEMMA ProgramInvariant == ProgramSpec => [](GenInv /\ AccessInv)
<1>1. ProgramInit => GenInv /\ AccessInv
  BY GenBegins, AccessBegins
<1>2. GenInv /\ AccessInv /\ [ProgramNext]_gcVars => (GenInv /\ AccessInv)'
  BY GenSteps, AccessSteps
<1> QED
  BY <1>1, <1>2, PTL DEF ProgramSpec

-----------------------------------------------------------------------------
(* What follows. *)

\* A generated module can be imported, but for the names that ImportsSuffice
\* lists: the imports are written before it is known what the classes use.
THEOREM ModulesImport == ProgramSpec => []ImportsSuffice
  BY ProgramInvariant, ImportsFollow, PTL

\* The descriptors a generated class declares are found in what the server
\* describes, unless the generator renamed the member.
THEOREM DeclaredAreFound == ProgramSpec => []DeclaredMembersResolve
<1>1. AccessInv => DeclaredMembersResolve
  BY DEF AccessInv, RefusedInv, NotFound, Renamed, DeclaredMembersResolve
<1> QED
  BY <1>1, ProgramInvariant, PTL

\* A request names, by kind and index, the member that was meant.
THEOREM RequestsHit == ProgramSpec => []RequestsHitTheirMember
<1>1. AccessInv => RequestsHitTheirMember
  BY DEF AccessInv, RequestTypes, RequestFits, Hits, KindFor, RequestsHitTheirMember, InfoOf
<1> QED
  BY <1>1, ProgramInvariant, PTL

\* Nobody reads an older value than his own last one, unless an assignment was
\* not awaited.
THEOREM OwnWritesAreRead == ProgramSpec => []ReadYourWrites
<1>1. AccessInv => ReadYourWrites
  <2> SUFFICES ASSUME AccessInv, NEW r \in reads, r.of.by.task \in {r.task, Nobody},
                      r.of.by.number < r.own.number
               PROVE  asyncio /\ ~(r.of.by.awaited /\ r.own.awaited)
    BY DEF ReadYourWrites
  <2>1. Newest(r.task, r.of.by, r.own) /\ r.own.number \in Nat
    BY DEF AccessInv, ReadsInv, Assignments, NoAssignment
  <2>2. ~(r.own.number < r.own.number)
    BY <2>1
  <2> QED
    BY <2>1, <2>2 DEF Newest
<1> QED
  BY <1>1, ProgramInvariant, PTL

\* What is read of an assigned value is that value, as AsRead tells, whatever
\* is in it; what the server could not convert, the end of its process, was
\* never assigned; and what is read can be assigned, but for ints beyond int32.
THEOREM ValuesAreReadBack == ProgramSpec => []ReadBack
<1>1. ASSUME AccessInv, NEW r \in reads
      PROVE  /\ Held(r.of) /\ ~Fails(QVariantToProtoVariant(r.of.qvariant))
             /\ r.value = ValueFromVariant(QVariantToProtoVariant(r.of.qvariant).whole)
  BY <1>1 DEF AccessInv, ReadsInv
<1>2. ASSUME AccessInv, NEW r \in reads, r.of.by # NoAssignment
      PROVE  r.value = AsRead(r.of.value)
  BY <1>1, <1>2, HeldConverts
<1>3. ASSUME AccessInv, NEW f \in refused, NEW r \in reads, f.value = r.value,
             f.reason \in ConversionErrors
      PROVE  \E p \in DOMAIN f.value : f.value[p].type = "int" /\ f.value[p].datum > MaxInt
  <2>1. Fails(ValueToVariant(r.value))
    BY <1>3 DEF AccessInv, RefusedInv
  <2>2. r.of.qvariant \in Trees(QVariantNodes)
    BY <1>1, <1>3 DEF Held
  <2> QED
    BY <1>1, <1>3, <2>1, <2>2, ReadConverts
<1>4. AccessInv => OnlyOwnValuesThrow
  BY DEF AccessInv
<1>5. AccessInv => ReadBack
  BY <1>2, <1>3, <1>4 DEF ReadBack
<1> QED
  BY <1>5, ProgramInvariant, PTL

\* A method takes the arguments that are sent, but for overloaded methods and
\* arguments that a stub gathers.
THEOREM ArgumentsAreTaken == ProgramSpec => []ArgumentsFit
<1>1. AccessInv => ArgumentsFit
  BY DEF AccessInv
<1> QED
  BY <1>1, ProgramInvariant, PTL
================================================================================
