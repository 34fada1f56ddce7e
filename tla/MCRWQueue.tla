----------------------------- MODULE MCRWQueue -----------------------------
(* RWQueue on three or four nodes and two values. *)
EXTENDS RWQueue, TLC

NodeSymmetry == Permutations(Node)
ValueSymmetry == Permutations(Value)
Symmetry == NodeSymmetry \cup ValueSymmetry
=============================================================================
