--------------------------- MODULE MCMainContext ---------------------------
(* MainContext with threads, loops and sources that are alike. *)
EXTENDS MainContext, TLC

Symmetry == Permutations(Thread) \cup Permutations(Loop) \cup Permutations(Source)
=============================================================================
