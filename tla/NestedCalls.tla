------------------------------ MODULE NestedCalls ------------------------------
(***************************************************************************)
(* What the server promises about calls and events, without queues,        *)
(* signals, condition variables or threads: one stack of activities.  A    *)
(* call runs at the bottom of the stack, or on top of the event in whose   *)
(* context its sender made it; an event is raised on top of the running    *)
(* call and leaves the stack when every peer it was sent to has handled    *)
(* it.  Calls with the same context run in the order they arrived, each    *)
(* once.                                                                   *)
(***************************************************************************)
EXTENDS Sequences

CONSTANTS Events, Calls, Peers, Default

VARIABLES stack,    \* running activities, top first
          waiting,  \* per context: calls that arrived and have not run
          unsent,   \* calls that have not arrived
          todo,     \* per event: peers that still have to handle it
          raised,   \* events raised so far
          answered  \* calls that have run

nvars == <<stack, waiting, unsent, todo, raised, answered>>

Contexts == Events \cup {Default}

Init ==
  /\ stack = <<>>
  /\ waiting = [x \in Contexts |-> <<>>]
  /\ unsent = Calls
  /\ todo = [e \in Events |-> {}]
  /\ raised = {} /\ answered = {}

Current == IF stack = <<>> THEN Default ELSE Head(stack)

Arrive(c, x) ==
  /\ c \in unsent /\ x \in raised \cup {Default}
  /\ unsent' = unsent \ {c}
  /\ waiting' = [waiting EXCEPT ![x] = Append(@, c)]
  /\ UNCHANGED <<stack, todo, raised, answered>>

Refuse(c) ==
  /\ c \in unsent
  /\ unsent' = unsent \ {c}
  /\ UNCHANGED <<stack, waiting, todo, raised, answered>>

Run(x) ==
  /\ x = Current /\ waiting[x] # <<>>
  /\ stack' = <<Head(waiting[x])>> \o stack
  /\ waiting' = [waiting EXCEPT ![x] = Tail(@)]
  /\ UNCHANGED <<unsent, todo, raised, answered>>

Answer ==
  /\ Current \in Calls
  /\ answered' = answered \cup {Current}
  /\ stack' = Tail(stack)
  /\ UNCHANGED <<waiting, unsent, todo, raised>>

Raise(e, P) ==
  /\ e \notin raised /\ Current \in Calls \cup {Default}
  /\ raised' = raised \cup {e}
  /\ stack' = <<e>> \o stack
  /\ todo' = [todo EXCEPT ![e] = P]
  /\ UNCHANGED <<waiting, unsent, answered>>

Handle(e, p) ==
  /\ p \in todo[e]
  /\ todo' = [todo EXCEPT ![e] = @ \ {p}]
  /\ UNCHANGED <<stack, waiting, unsent, raised, answered>>

Return(e) ==
  /\ e = Current /\ todo[e] = {}
  /\ stack' = Tail(stack)
  /\ UNCHANGED <<waiting, unsent, todo, raised, answered>>

Next ==
  \/ \E c \in Calls : Refuse(c) \/ \E x \in Contexts : Arrive(c, x)
  \/ \E x \in Contexts : Run(x)
  \/ Answer
  \/ \E e \in Events : \/ Return(e)
                       \/ \E P \in SUBSET Peers : Raise(e, P)
                       \/ \E p \in Peers : Handle(e, p)

Spec == Init /\ [][Next]_nvars
================================================================================
