----------------------------- MODULE MCAsyncQueue -----------------------------
(* AsyncCloseableQueue for TLC. *)
EXTENDS AsyncCloseableQueue, TLC

(* tasks with the same methods, and items, are interchangeable *)
Symmetry ==
  Permutations(Putters) \union Permutations(Getters) \union Permutations(Items)
================================================================================
