----------------------------- MODULE ClosableFifo -----------------------------
(***************************************************************************)
(* What a closable queue promises, without mutexes, conditions and          *)
(* time-outs: items leave in the order they entered; a put that begins     *)
(* after the queue was closed enters nothing, while one that began before  *)
(* (it is in early) may still do so; the end is reported only when the     *)
(* queue is closed and empty, and after that only early puts can enter     *)
(* anything.                                                               *)
(***************************************************************************)
EXTENDS Naturals, Sequences

CONSTANTS Threads, Items

VARIABLES buffer, closed,
          early,    \* threads whose put began while the queue was open and has not returned
          ended     \* a get was told that the queue has ended

vars == <<buffer, closed, early, ended>>

Init == buffer = <<>> /\ closed = FALSE /\ early = {} /\ ended = FALSE

Begin(t) ==
  /\ ~closed
  /\ early' = early \union {t}
  /\ UNCHANGED <<buffer, closed, ended>>

Leave(t) ==
  /\ early' = early \ {t}
  /\ UNCHANGED <<buffer, closed, ended>>

Enter(t, i) ==
  /\ ~closed \/ t \in early
  /\ buffer' = Append(buffer, i)
  /\ early' = early \ {t}
  /\ UNCHANGED <<closed, ended>>

Take ==
  /\ buffer # <<>>
  /\ buffer' = Tail(buffer)
  /\ UNCHANGED <<closed, early, ended>>

Close ==
  /\ closed' = TRUE
  /\ UNCHANGED <<buffer, early, ended>>

End ==
  /\ closed /\ buffer = <<>>
  /\ ended' = TRUE
  /\ UNCHANGED <<buffer, closed, early>>

Next ==
  \/ \E t \in Threads : Begin(t) \/ Leave(t) \/ \E i \in Items : Enter(t, i)
  \/ Take
  \/ Close
  \/ End

Spec == Init /\ [][Next]_vars
================================================================================
