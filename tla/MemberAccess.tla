------------------------------ MODULE MemberAccess ------------------------------
(***************************************************************************)
(* Python code at work on one object: it reads and assigns attributes,     *)
(* calls methods and connects events, by name.  An access finds its        *)
(* descriptor, the index of the member at the server, checks and converts  *)
(* what it is given, sends one request and waits for the answer.           *)
(*                                                                         *)
(* Threads of the synchronous client and tasks of the asynchronous one     *)
(* wait for every answer, but for one case: an assignment statement of the *)
(* asynchronous client only makes a task that will send the request, and   *)
(* goes on.  The server takes requests in any order; the contexts of       *)
(* events and their handlers are the subject of other modules.             *)
(***************************************************************************)
EXTENDS Members

CONSTANTS Tasks,    \* the threads or tasks that use the object
          Nobody,     \* nobody waits for the answer
          Names,    \* attribute names they use
          Values,   \* Python values they assign
          Counts,   \* numbers of arguments they give
          MaxOps    \* bound: accesses

ASSUME AccessAssumption == Nobody \notin Tasks /\ MaxOps \in Nat

ASSUME ValuesAssumption == \A v \in Values : IsTree(v, PythonNodes)

VARIABLES
  asyncio,          \* is the client asynchronous?  (constant)
  description,  \* what the server describes
  declared,     \* descriptors of the object's class, by name
  plain,        \* names of plain attributes of the object
  stored,       \* server: what each property holds, and which assignment it is of
  thrown,       \* server: what it could not convert, which was its end
  waiting,      \* tasks that wait for an answer
  scheduled,    \* tasks made by assignment statements that have not run yet
  wire,         \* requests that the server has not taken
  issued,       \* accesses so far; numbers them
  latest,       \* per task and name: its last assignment
  reads,        \* answers to reads
  refused,      \* accesses that raised before a request was sent
  misfits       \* calls whose arguments were not those the method takes

serverVars == <<stored, thrown, wire, misfits>>
userVars == <<plain, waiting, scheduled, issued, latest, reads, refused>>
accessVars == <<asyncio, description, declared, serverVars, userVars>>

NoAssignment == [number |-> 0, task |-> Nobody, awaited |-> TRUE]

\* What a control holds, or returns, of itself.
Own(qvariant) == [qvariant |-> qvariant, value |-> Single(Nothing), by |-> NoAssignment]

AccessInit ==
  /\ stored = [i \in DOMAIN description.property |-> Own(description.property[i].holds)]
  /\ thrown = {}
  /\ plain = {} /\ waiting = {} /\ scheduled = <<>> /\ wire = {} /\ issued = 0
  /\ latest = [t \in Tasks |-> [n \in Names |-> NoAssignment]]
  /\ reads = {} /\ refused = {} /\ misfits = {}

-----------------------------------------------------------------------------
(* The client. *)

MayAccess(t) == t \notin waiting /\ issued < MaxOps

\* Everything the object shows under a name: obj.n, and obj[n].
Reachable(n) ==
  GetAttribute(declared, plain, description, n) \cup GetItem(declared, description, n)

Request(t, what, x, index) ==
  [task |-> t, what |-> what, kind |-> x.kind, index |-> index, name |-> x.name,
   by |-> [number |-> issued', task |-> t, awaited |-> TRUE], count |-> 0,
   signature |-> x.signature, value |-> Single(Nothing), variant |-> Single(NotSet)]

FirstError(checks) ==
  LET failed == {i \in DOMAIN checks : Fails(checks[i])}
  IN  IF failed = {} THEN Nothing ELSE checks[Min(failed)]

Check(holds, reason) == IF holds THEN Nothing ELSE Error(reason)

Refuse(x, error, v) ==
  refused' = refused \cup {[name |-> x.name, kind |-> x.kind, value |-> v,
                            declared |-> ~x.info.described, reason |-> error.error]}

\* Sends the request, or raises the first error.
Attempt(t, x, v, checks, request) ==
  IF Fails(FirstError(checks))
  THEN Refuse(x, FirstError(checks), v) /\ UNCHANGED <<wire, waiting>>
  ELSE /\ wire' = wire \cup {request}
       /\ waiting' = waiting \cup ({t} \ {Nobody})
       /\ UNCHANGED refused

GetProperty(t, n) ==
  /\ MayAccess(t) /\ issued' = issued + 1
  /\ \E x \in ThroughMemberType(Reachable(n), "property") :
       LET index == PropertyIndex(description, x)
       IN  Attempt(t, x, Single(Nothing), <<Check(Readable(x), "not readable"), index>>,
                   Request(t, "get", x, index.index))
  /\ UNCHANGED <<asyncio, description, declared, stored, thrown, misfits, plain, scheduled, latest, reads>>

\* _set, run by a thread or by a task nobody waits for.
SendAssignment(t, by, x, v) ==
  LET index == PropertyIndex(description, x)
      variant == ValueToVariant(v)
  IN  Attempt(t, x, v, <<Check(Writable(x), "not writable"), index, variant>>,
              [Request(t, "set", x, index.index) EXCEPT
                 !.by = by, !.value = v, !.variant = variant.whole])

\* Values to assign: any, or one that was read.
Given == Values \cup {r.value : r \in reads}

\* A thread's assignment, or await obj.__setattr__(n, v).
SetProperty(t, n, v) ==
  /\ MayAccess(t) /\ issued' = issued + 1
  /\ LET x == SetAttribute(declared, description, n)
     IN  \/ /\ ~Fails(x)
            /\ SendAssignment(t, [number |-> issued', task |-> t, awaited |-> TRUE], x, v)
            /\ UNCHANGED plain
         \/ /\ Fails(x) /\ x.error = "plain attribute"
            /\ plain' = plain \cup {n} /\ UNCHANGED <<wire, waiting, refused>>
  /\ UNCHANGED <<asyncio, description, declared, stored, thrown, misfits, scheduled, latest, reads>>

\* obj.n = v in the asynchronous client: create_task, and on.
SetsInTaskAlways == TRUE
SetsInTask == asyncio

CreateSetTask(t, n, v) ==
  /\ SetsInTask
  /\ MayAccess(t) /\ issued' = issued + 1
  /\ LET x == SetAttribute(declared, description, n)
         by == [number |-> issued', task |-> t, awaited |-> FALSE]
     IN  /\ ~Fails(x)
         /\ scheduled' = Append(scheduled, [by |-> by, x |-> x, value |-> v])
         /\ latest' = [latest EXCEPT ![t][n] = by]
  /\ UNCHANGED <<asyncio, description, declared, serverVars, plain, waiting, reads, refused>>

RunSetTask ==
  /\ scheduled # <<>>
  /\ UNCHANGED issued
  /\ SendAssignment(Nobody, Head(scheduled).by, Head(scheduled).x, Head(scheduled).value)
  /\ scheduled' = Tail(scheduled)
  /\ UNCHANGED <<asyncio, description, declared, stored, thrown, misfits, plain, latest, reads>>

\* obj.n(...) or obj[n](...).
InvokeMethod(t, n, k) ==
  /\ MayAccess(t) /\ issued' = issued + 1
  /\ \E member \in {GetAttribute(declared, plain, description, n),
                     GetItem(declared, description, n)} :
       LET x == MemberCall(member)
           index == MethodIndex(description, x)
           bound == BindArgs(x, k)
       IN  /\ ~Fails(x) /\ x.kind = "method"
           /\ Attempt(t, x, Single(Nothing), <<index, bound>>,
                      [Request(t, "call", x, index.index) EXCEPT !.count = bound.count])
  /\ UNCHANGED <<asyncio, description, declared, stored, thrown, misfits, plain, scheduled, latest, reads>>

\* The look-up of connect and disconnect; what follows is EventHandlers.
ConnectEvent(t, n) ==
  /\ MayAccess(t) /\ issued' = issued + 1
  /\ \E x \in ThroughMemberType(Reachable(n), "event") :
       LET index == EventIndex(description, x)
       IN  Attempt(t, x, Single(Nothing), <<index>>, Request(t, "connect", x, index.index))
  /\ UNCHANGED <<asyncio, description, declared, stored, thrown, misfits, plain, scheduled, latest, reads>>

-----------------------------------------------------------------------------
(* The server, and the answer. *)

InfoOf(r) == description[r.kind][r.index]

\* Control::getProperty: a property that cannot be read gives no valid value,
\* nor does one that holds nothing.
GivesValue(r) == InfoOf(r).readable /\ stored[r.index].qvariant[<<>>].type # "Invalid"

\* Without a valid value the call raises; without a conversion the exception
\* passes execute and the event loop of the server, and ends the process.
ReadProperty(r) ==
  LET held == stored[r.index]
      variant == QVariantToProtoVariant(held.qvariant)
  IN  /\ r.what = "get"
      /\ \/ ~GivesValue(r) /\ UNCHANGED <<reads, thrown>>
         \/ /\ GivesValue(r) /\ Fails(variant)
            /\ thrown' = thrown \cup {held}
            /\ UNCHANGED reads
         \/ /\ GivesValue(r) /\ ~Fails(variant)
            /\ reads' = reads \cup
                 {[name |-> r.name, task |-> r.task, value |-> ValueFromVariant(variant.whole),
                   of |-> held, own |-> latest[r.task][r.name]]}
            /\ UNCHANGED thrown
      /\ UNCHANGED <<stored, latest, misfits>>

\* The control keeps what it is given.
WriteProperty(r) ==
  /\ r.what = "set"
  /\ IF InfoOf(r).writable
     THEN /\ stored' = [stored EXCEPT ![r.index] =
                         [qvariant |-> ProtoVariantToQVariant(r.variant), value |-> r.value,
                          by |-> r.by]]
          /\ latest' = IF r.by.awaited
                       THEN [latest EXCEPT ![r.by.task][r.name] = r.by] ELSE latest
     ELSE UNCHANGED <<stored, latest>>
  /\ UNCHANGED <<thrown, reads, misfits>>

\* GenericInvokeMethod raises for too few arguments and ignores the rest of
\* too many; what the method returns is converted as what is read.
Returns(r) ==
  IF r.count >= InfoOf(r).arguments THEN {Own(InfoOf(r).returns)} ELSE {}

CallMethod(r) ==
  /\ r.what = "call"
  /\ misfits' = IF r.count = InfoOf(r).arguments THEN misfits
                ELSE misfits \cup {[name |-> r.name, sent |-> r.count, signature |-> r.signature,
                                    taken |-> InfoOf(r).arguments]}
  /\ thrown' = thrown \cup {s \in Returns(r) : Fails(QVariantToProtoVariant(s.qvariant))}
  /\ UNCHANGED <<stored, latest, reads>>

ConnectMember(r) == r.what = "connect" /\ UNCHANGED <<stored, thrown, latest, reads, misfits>>

\* The call of a server that is gone raises.
Unavailable == thrown # {} /\ UNCHANGED <<stored, thrown, latest, reads, misfits>>

Serve(r) ==
  /\ \/ thrown = {} /\ (ReadProperty(r) \/ WriteProperty(r) \/ CallMethod(r) \/ ConnectMember(r))
     \/ Unavailable
  /\ wire' = wire \ {r}
  /\ waiting' = waiting \ {r.task}
  /\ UNCHANGED <<asyncio, description, declared, plain, scheduled, issued, refused>>

-----------------------------------------------------------------------------

AccessNext ==
  \/ \E t \in Tasks, n \in Names :
       \/ GetProperty(t, n) \/ ConnectEvent(t, n)
       \/ \E v \in Given : SetProperty(t, n, v) \/ CreateSetTask(t, n, v)
       \/ \E k \in Counts : InvokeMethod(t, n, k)
  \/ RunSetTask
  \/ \E r \in wire : Serve(r)

-----------------------------------------------------------------------------
(* Properties. *)

\* A request reaches the member of the name that was used, and of the kind the
\* access is for, however the descriptor was made and found.
RequestsHitTheirMember ==
  \A r \in wire :
    /\ r.index \in DOMAIN description[r.kind]
    /\ ClientName(r.kind, InfoOf(r)) = r.name
    /\ r.kind = CASE r.what \in {"get", "set"} -> "property"
                 [] r.what = "call" -> "method" [] r.what = "connect" -> "event"

\* Who assigns and then reads gets no older value of his own, nor the first
\* one, unless he assigned by a statement of the asynchronous client.
ReadYourWrites ==
  \A r \in reads :
    r.of.by.task \in {r.task, Nobody} /\ r.of.by.number < r.own.number
      => asyncio /\ ~(r.of.by.awaited /\ r.own.awaited)

\* What the server fails to convert, which ends it, was never assigned: it is a
\* value of another type that the control had or returned itself.
OnlyOwnValuesThrow == \A s \in thrown : s.by = NoAssignment

\* Through all four conversions, what is read of an assigned property is what
\* was assigned, but None for empty lists and dicts in it (a property that
\* holds None or an empty list cannot be read at all); no such read ends the
\* server instead; and whatever is read can be assigned, but for a uint beyond
\* int32, alone or in a list.
ReadBack ==
  /\ \A r \in reads : r.of.by # NoAssignment => r.value = AsRead(r.of.value)
  /\ OnlyOwnValuesThrow
  /\ \A f \in refused : \A r \in reads :
       f.value = r.value /\ f.reason \in ConversionErrors
         => \E p \in DOMAIN f.value : f.value[p].type = "int" /\ f.value[p].datum > MaxInt

\* A method takes the arguments the client sends, unless the description
\* holds another one of the same name that would have, hidden by the one
\* called; or the stub gathers in *args what the method takes as one argument.
ArgumentsFit ==
  \A m \in misfits :
    \/ m.signature # NoSignature /\ m.signature.more
    \/ \E i \in DOMAIN description.method :
         description.method[i].name = m.name /\ description.method[i].arguments = m.sent
================================================================================
