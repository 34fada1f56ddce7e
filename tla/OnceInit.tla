------------------------------ MODULE OnceInit ------------------------------
(***************************************************************************)
(* x_once_init_enter and x_once_init_leave (xos/src/xthread.c), as their   *)
(* callers use them: "if (!x_atomic_ptr_get (&v) && x_once_init_enter      *)
(* (&v)) { v = ...; x_once_init_leave (&v); }", where the initialisation   *)
(* of one location may need another one.                                   *)
(*                                                                         *)
(* _once_slist, _once_private's lists and the mutex are one step where the *)
(* code holds the mutex; the value is read before without it, and written  *)
(* without it.                                                             *)
(***************************************************************************)
EXTENDS Integers, Sequences

CONSTANTS
  Thread,
  Location,
  None,
  Needs             \* the locations that the initialisation of each may ask for

ASSUME OnceAssumption ==
  /\ None \notin Location
  /\ Needs \in [Location -> SUBSET Location]

VARIABLES
  value,            \* the locations that hold a value
  once,             \* _once_slist
  tls,              \* each thread's _once_private, the newest last
  pc,               \* where each thread is
  at,               \* the location it asks for
  woken,            \* the threads that a broadcast has woken
  inits             \* how often the initialisation of each has been started

once_vars == <<value, once, tls, pc, at, woken, inits>>

OnceTypeOK ==
  /\ value \subseteq Location /\ once \subseteq Location
  /\ tls \in [Thread -> Seq(Location)]
  /\ pc \in [Thread -> {"run", "enter", "wait", "leave"}]
  /\ at \in [Thread -> Location \cup {None}]
  /\ woken \subseteq Thread
  /\ inits \in [Location -> Nat]

OnceStart ==
  /\ value = {} /\ once = {}
  /\ tls = [t \in Thread |-> << >>]
  /\ pc = [t \in Thread |-> "run"]
  /\ at = [t \in Thread |-> None]
  /\ woken = {}
  /\ inits = [l \in Location |-> 0]

\* The locations thread t is initialising.
Mine(t) == {tls[t][i] : i \in 1 .. Len(tls[t])}

Newest(t) == tls[t][Len(tls[t])]

-----------------------------------------------------------------------------

\* A caller reads the location without the lock, and finds it empty.
Ask(t, l) ==
  /\ pc[t] = "run"
  /\ tls[t] # << >> => l \in Needs[Newest(t)]
  /\ l \notin value
  /\ pc' = [pc EXCEPT ![t] = "enter"]
  /\ at' = [at EXCEPT ![t] = l]
  /\ UNCHANGED <<value, once, tls, woken, inits>>

\* x_once_init_enter returns FALSE, to a caller that goes on with the value.
GoOn(t) ==
  /\ pc' = [pc EXCEPT ![t] = "run"]
  /\ at' = [at EXCEPT ![t] = None]

\* The thread is initialising the location itself: it finds it in its list.
EnterAgain(t) ==
  /\ pc[t] = "enter" /\ at[t] \in Mine(t)
  /\ GoOn(t)
  /\ UNCHANGED <<value, once, tls, woken, inits>>

\* Another thread has been faster.
EnterDone(t) ==
  /\ pc[t] = "enter" /\ at[t] \notin Mine(t)
  /\ at[t] \in value
  /\ GoOn(t)
  /\ UNCHANGED <<value, once, tls, woken, inits>>

\* Mutant of EnterFirst: _once_slist is not searched.
EnterFirstUnseen(t) ==
  /\ pc[t] = "enter" /\ at[t] \notin Mine(t) /\ at[t] \notin value
  /\ once' = once \cup {at[t]}
  /\ tls' = [tls EXCEPT ![t] = Append(@, at[t])]
  /\ inits' = [inits EXCEPT ![at[t]] = @ + 1]
  /\ GoOn(t)
  /\ UNCHANGED <<value, woken>>

\* need_init: the thread is to initialise the location.
EnterFirst(t) ==
  /\ pc[t] = "enter" /\ at[t] \notin Mine(t)
  /\ at[t] \notin value /\ at[t] \notin once
  /\ once' = once \cup {at[t]}
  /\ tls' = [tls EXCEPT ![t] = Append(@, at[t])]
  /\ inits' = [inits EXCEPT ![at[t]] = @ + 1]
  /\ GoOn(t)
  /\ UNCHANGED <<value, woken>>

\* Another thread is at it: x_cond_wait.
EnterWait(t) ==
  /\ pc[t] = "enter" /\ at[t] \notin Mine(t)
  /\ at[t] \notin value /\ at[t] \in once
  /\ pc' = [pc EXCEPT ![t] = "wait"]
  /\ woken' = woken \ {t}
  /\ UNCHANGED <<value, once, tls, at, inits>>

\* Mutant of WaitEnds: an if in the place of the while around x_cond_wait.
WaitEndsOnce(t) ==
  /\ pc[t] = "wait"
  /\ GoOn(t)
  /\ woken' = woken \ {t}
  /\ UNCHANGED <<value, once, tls, inits>>

\* The wait ends, woken or not; the loop looks at _once_slist, not at the value.
WaitEnds(t) ==
  /\ pc[t] = "wait"
  /\ \/ at[t] \notin once /\ GoOn(t)
     \/ at[t] \in once /\ UNCHANGED <<pc, at>>
  /\ woken' = woken \ {t}
  /\ UNCHANGED <<value, once, tls, inits>>

\* The initialisation assigns the location.
Assign(t) ==
  /\ pc[t] = "run" /\ tls[t] # << >>
  /\ value' = value \cup {Newest(t)}
  /\ pc' = [pc EXCEPT ![t] = "leave"]
  /\ UNCHANGED <<once, tls, at, woken, inits>>

\* Mutant of Leave: x_cond_signal in the place of x_cond_broadcast.
LeaveSignals(t) ==
  /\ pc[t] = "leave"
  /\ once' = once \ {Newest(t)}
  /\ tls' = [tls EXCEPT ![t] = SubSeq(@, 1, Len(@) - 1)]
  /\ LET waiting == {u \in Thread : pc[u] = "wait"}
     IN IF waiting = {} THEN UNCHANGED woken
        ELSE \E u \in waiting : woken' = woken \cup {u}
  /\ pc' = [pc EXCEPT ![t] = "run"]
  /\ UNCHANGED <<value, at, inits>>

\* x_once_init_leave.
Leave(t) ==
  /\ pc[t] = "leave"
  /\ once' = once \ {Newest(t)}
  /\ tls' = [tls EXCEPT ![t] = SubSeq(@, 1, Len(@) - 1)]
  /\ woken' = woken \cup {u \in Thread : pc[u] = "wait"}
  /\ pc' = [pc EXCEPT ![t] = "run"]
  /\ UNCHANGED <<value, at, inits>>

-----------------------------------------------------------------------------

Enter(t) == EnterAgain(t) \/ EnterDone(t) \/ EnterFirst(t) \/ EnterWait(t)

Step(t) == Enter(t) \/ WaitEnds(t) \/ Assign(t) \/ Leave(t)

OnceNext == \E t \in Thread : Step(t) \/ \E l \in Location : Ask(t, l)

OnceSpec == OnceStart /\ [][OnceNext]_once_vars

\* Threads go on; a wait ends when it has been woken; an initialisation ends.
OnceFairSpec ==
  OnceSpec /\ \A t \in Thread :
            /\ WF_once_vars(Enter(t)) /\ WF_once_vars(Leave(t))
            /\ SF_once_vars(Assign(t))
            /\ WF_once_vars(t \in woken /\ WaitEnds(t))

-----------------------------------------------------------------------------
(* Properties *)

\* A location is initialised once, whatever threads ask for it at the same
\* time, and one thread does it: the others neither start again before it has
\* left nor after.
InitOnce ==
  /\ \A l \in Location : inits[l] <= 1
  /\ \A t, u \in Thread : t # u => Mine(t) \cap Mine(u) = {}

\* Whoever is sent on by x_once_init_enter with FALSE finds a value, except in
\* the initialisation of the location itself.
FalseMeansValue ==
  [][\A t \in Thread :
       pc[t] \in {"enter", "wait"} /\ pc'[t] = "run" =>
         at[t] \in value \/ at[t] \in Mine(t)']_once_vars

\* A thread that asks for a location is answered, as long as no cycle of
\* locations need each other: the broadcast wakes every thread that waits.
EnterReturns == \A t \in Thread : pc[t] \in {"enter", "wait"} ~> pc[t] = "run"

-----------------------------------------------------------------------------
(* The inductive invariant *)

\* _once_slist holds the locations of the threads' own lists, each in one list
\* once.
ListInv ==
  /\ \A t \in Thread : \A i, j \in 1 .. Len(tls[t]) :
       tls[t][i] = tls[t][j] => i = j
  /\ \A t \in Thread : Mine(t) \subseteq once
  /\ \A l \in once : \E t \in Thread : l \in Mine(t)
  /\ \A t, u \in Thread : t # u => Mine(t) \cap Mine(u) = {}

\* An initialisation has been started once for a location that has a value or
\* is in _once_slist, and never for another one.
CountInv ==
  \A l \in Location : inits[l] = IF l \in value \cup once THEN 1 ELSE 0

\* What a thread may rely on where it is.
PlaceInv ==
  \A t \in Thread :
    /\ pc[t] \in {"enter", "wait"} => at[t] \in Location
    /\ pc[t] = "wait" => at[t] \in value \cup once
    /\ pc[t] = "leave" => tls[t] # << >> /\ Newest(t) \in value

OnceIInv == OnceTypeOK /\ ListInv /\ CountInv /\ PlaceInv
=============================================================================
