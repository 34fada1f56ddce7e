------------------------------- MODULE MCQuark --------------------------------
(* Quarks of four strings in blocks of two: the array is replaced twice.   *)
EXTENDS Quark, TLC

CONSTANTS t1, t2, t3, s1, s2, s3, s4

\* Threads and strings are interchangeable, and so are they for what the
\* abstract specification says of every step.
MCSymmetry == Permutations(Thread) \cup Permutations(String)
=============================================================================
