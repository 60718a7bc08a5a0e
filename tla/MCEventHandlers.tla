---------------------------- MODULE MCEventHandlers ----------------------------
(* EventHandlers for TLC. *)
EXTENDS EventHandlers
================================================================================
