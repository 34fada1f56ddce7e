------------------------------ MODULE MCObject ------------------------------
(* Object for TLC: the thread that makes the object and two others, which are *)
(* interchangeable.                                                            *)
EXTENDS Object, TLC
CONSTANTS t1, t2, t3, p1, p2
MCSymmetry == Permutations({t2, t3}) \cup Permutations({p1, p2})
=============================================================================
