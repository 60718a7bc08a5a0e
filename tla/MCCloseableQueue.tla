--------------------------- MODULE MCCloseableQueue ---------------------------
(* CloseableQueue for TLC. *)
EXTENDS CloseableQueue
================================================================================
