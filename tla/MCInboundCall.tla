----------------------------- MODULE MCInboundCall -----------------------------
(* InboundCall for TLC. *)
EXTENDS InboundCall, TLC
================================================================================
