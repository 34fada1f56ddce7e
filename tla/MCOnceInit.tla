----------------------------- MODULE MCOnceInit -----------------------------
(* OnceInit with three locations, as the type system has them: c needs b and *)
(* itself, b needs a.                                                        *)
EXTENDS OnceInit, TLC

CONSTANTS a, b, c

MCNeeds == (a :> {}) @@ (b :> {a}) @@ (c :> {b, c})
=============================================================================
