------------------------------ MODULE MCEventSlot ------------------------------
(* EventSlot for TLC. *)
EXTENDS EventSlot, TLC
================================================================================
