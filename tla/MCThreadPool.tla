---------------------------- MODULE MCThreadPool ----------------------------
(* ThreadPool with two pools of different limits; _max_unused_threads is 2. *)
EXTENDS ThreadPool, TLC

CONSTANTS p1, p2

\* p1 is without a limit, as x_thread_pool_new makes it; p2 is given two.
MCMaxThreads == [p \in Pool |-> IF p = p1 THEN -1 ELSE 2]

Symmetry == Permutations(Thread) \cup Permutations(Task)
=============================================================================
