----------------------------- MODULE EventDelivery -----------------------------
(***************************************************************************)
(* What an event stream promises to the control that raises events.        *)
(* Events are accepted one after the other and leave for the client in     *)
(* that order, each once.  An event is settled (the control may go on)     *)
(* only when the client has run its handlers, or when the stream is over;  *)
(* what is over stays over.  When the stream is over the queue may also be *)
(* dropped, but only once everything in it is settled.                     *)
(***************************************************************************)
EXTENDS Sequences, Functions

CONSTANT Items

VARIABLES queue,      \* accepted, not yet handed to the transport
          delivered,  \* handed to the transport, or dropped
          handled,    \* the client has run the handlers
          settled,    \* the control no longer waits for it
          over        \* the stream has ended

evars == <<queue, delivered, handled, settled, over>>

Init == queue = <<>> /\ delivered = {} /\ handled = {} /\ settled = {} /\ over = FALSE

Accept(i) ==
  /\ i \notin Range(queue) \cup delivered
  /\ queue' = Append(queue, i)
  /\ UNCHANGED <<delivered, handled, settled, over>>

Deliver ==
  /\ queue # <<>>
  /\ queue' = Tail(queue)
  /\ delivered' = delivered \cup {Head(queue)}
  /\ UNCHANGED <<handled, settled, over>>

Handle(i) ==
  /\ i \in delivered \ handled
  /\ handled' = handled \cup {i}
  /\ UNCHANGED <<queue, delivered, settled, over>>

Settle(i) ==
  /\ \/ i \in handled
     \/ over /\ i \in Range(queue) \cup delivered
  /\ settled' = settled \cup {i}
  /\ UNCHANGED <<queue, delivered, handled, over>>

End == over' = TRUE /\ UNCHANGED <<queue, delivered, handled, settled>>

Drop ==
  /\ over /\ \E n \in 0..Len(queue) :
       /\ \A k \in 1..n : queue[k] \in settled
       /\ queue' = SubSeq(queue, n + 1, Len(queue))
       /\ delivered' = delivered \cup {queue[k] : k \in 1..n}
  /\ UNCHANGED <<handled, settled, over>>

Next ==
  \/ \E i \in Items : Accept(i) \/ Handle(i) \/ Settle(i)
  \/ Deliver \/ End \/ Drop

Spec == Init /\ [][Next]_evars
================================================================================
