---------------------------- MODULE MCObjectLifecycle ----------------------------
(* ObjectLifecycle for TLC: two objects of one class. *)
EXTENDS ObjectLifecycle

CONSTANT Ax

MCClassOf == [o \in Objects |-> Ax]
================================================================================
