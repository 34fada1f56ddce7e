----------------------------- MODULE MCDataList -----------------------------
(* DataList for TLC: two threads that both freeze and thaw the queue, keep     *)
(* weak pointers and sink the object; they are interchangeable.                *)
EXTENDS DataList, TLC
CONSTANTS t1, t2, l1, l2, b1, b2, x1, x2
MCSymmetry ==
  Permutations({t1, t2}) \cup Permutations({l1, l2}) \cup Permutations({b1, b2})
    \cup Permutations({x1, x2})
=============================================================================
