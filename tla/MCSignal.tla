------------------------------ MODULE MCSignal ------------------------------
(* Signal for TLC: two threads share a signal that does not recurse, or one   *)
(* of the fast path, with a handler before and one after; one thread uses a   *)
(* signal with three handlers, or a detailed one that its handlers emit.      *)
EXTENDS Signal, TLC
CONSTANTS t1, t2, h1, h2, h3

Kind(no_recurse, detailed, class, stops, threads, handlers, bound) ==
  [no_recurse |-> no_recurse, detailed |-> detailed, class |-> class, stops |-> stops,
   threads |-> threads, handlers |-> handlers, emissions |-> bound]

MCKinds ==
  {Kind(TRUE, FALSE, "first", TRUE, {t1, t2}, {h1}, 3),
   Kind(TRUE, FALSE, "none", FALSE, {t1, t2}, {h1, h3}, 2),
   Kind(FALSE, FALSE, "none", FALSE, {t1, t2}, {h1, h3}, 2),
   Kind(TRUE, FALSE, "last", FALSE, {t1}, {h1, h2, h3}, 2),
   Kind(FALSE, TRUE, "cleanup", TRUE, {t1}, {h2, h3}, 2)}
=============================================================================
