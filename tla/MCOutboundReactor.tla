--------------------------- MODULE MCOutboundReactor ---------------------------
(* OutboundReactor for TLC: a few events, at most a ping or two. *)
EXTENDS OutboundReactor, TLC

Symmetry == Permutations(Items)
================================================================================
