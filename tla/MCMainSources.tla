--------------------------- MODULE MCMainSources ---------------------------
(* MainSources with sources that are alike. *)
EXTENDS MainSources, TLC

Symmetry == Permutations(Source)
=============================================================================
