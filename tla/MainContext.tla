---------------------------- MODULE MainContext ----------------------------
(***************************************************************************)
(* Ownership of an xMainContext and the loops that run on it               *)
(* (xos/src/xmain.c): x_main_loop_run, x_main_loop_quit, x_source_attach,  *)
(* and under them main_context_acquire_U, main_context_wait_L,             *)
(* main_context_release_U and main_context_iterate_L.                      *)
(*                                                                         *)
(* What is done under the context's mutex without waiting is one action.   *)
(* The sources are a set here, each with a timeout of its own, as          *)
(* x_timeout_add makes them; MainSources has their lists, references and   *)
(* the order of a round.  No function of xmain.h gives a source a file     *)
(* descriptor or a child, so poll_records stays empty: main_context_poll_U *)
(* waits for its timeout only, without end when no source is attached.     *)
(***************************************************************************)
EXTENDS Integers, Sequences, FiniteSets

CONSTANTS
  Thread,
  Loop,             \* the loops, all of one context
  Source,
  None,
  MaxDepth          \* bound: calls of x_main_loop_run nested in one thread

ASSUME MainAssumption ==
  /\ IsFiniteSet(Thread) /\ None \notin Thread \cup Source
  /\ MaxDepth \in Nat \ {0}

VARIABLES
  owner, owner_count,
  waiters,          \* context->waiters, by the thread whose stack holds each
  signalled,        \* the threads woken from x_cond_wait
  is_running,       \* of each loop
  attached,         \* the sources in the context
  runs,             \* the loops each thread has called x_main_loop_run for
  pc,               \* where the innermost of them, or the thread, is
  forever,          \* the poll of the thread has no timeout
  dispatches        \* the sources the thread still has to dispatch

vars == <<owner, owner_count, waiters, signalled, is_running, attached, runs,
          pc, forever, dispatches>>

TypeOK ==
  /\ owner \in Thread \cup {None} /\ owner_count \in Nat
  /\ waiters \in Seq(Thread) /\ signalled \subseteq Thread
  /\ is_running \in [Loop -> BOOLEAN]
  /\ attached \subseteq Source
  /\ runs \in [Thread -> Seq(Loop)]
  /\ pc \in [Thread -> {"user", "lost", "wait", "enter", "iterate", "prepare",
                        "poll", "check", "dispatch", "end", "release"}]
  /\ forever \in [Thread -> BOOLEAN]
  /\ dispatches \in [Thread -> SUBSET Source]

Init ==
  /\ owner = None /\ owner_count = 0 /\ waiters = << >> /\ signalled = {}
  /\ is_running \in [Loop -> BOOLEAN]     \* the argument of x_main_loop_new
  /\ attached = {}
  /\ runs = [t \in Thread |-> << >>]
  /\ pc = [t \in Thread |-> "user"]
  /\ forever = [t \in Thread |-> FALSE]
  /\ dispatches = [t \in Thread |-> {}]

-----------------------------------------------------------------------------
(* The context's lock protects each of these *)

Last(s) == s[Len(s)]
CurrentLoop(t) == Last(runs[t])

Free(t) == owner \in {None, t}

Waiting == {t \in Thread : pc[t] = "wait"}

\* The owner is t from now on, once more if it was already.
Own(t) == owner' = t /\ owner_count' = owner_count + 1

\* main_context_wait_L up to the wait: the thread's node is put in the list.
StartWaiting(t, list) ==
  /\ waiters' = <<t>> \o list
  /\ signalled' = signalled \ {t}
  /\ pc' = [pc EXCEPT ![t] = "wait"]
  /\ UNCHANGED <<owner, owner_count>>

-----------------------------------------------------------------------------
(* x_main_loop_run *)

\* The first main_context_acquire_U.  A callback may run a loop again.
Run(t, l) ==
  /\ pc[t] = "user" /\ Len(runs[t]) < MaxDepth
  /\ runs' = [runs EXCEPT ![t] = Append(@, l)]
  /\ \/ Free(t) /\ Own(t) /\ pc' = [pc EXCEPT ![t] = "enter"]
     \/ ~Free(t) /\ pc' = [pc EXCEPT ![t] = "lost"]
        /\ UNCHANGED <<owner, owner_count>>
  /\ UNCHANGED <<waiters, signalled, is_running, attached, forever, dispatches>>

\* "Another thread owns this context".
RunLost(t) ==
  /\ pc[t] = "lost"
  /\ is_running' = [is_running EXCEPT ![CurrentLoop(t)] = TRUE]
  /\ \/ /\ Free(t) /\ Own(t)
        /\ pc' = [pc EXCEPT ![t] = "iterate"]
        /\ UNCHANGED <<waiters, signalled>>
     \/ ~Free(t) /\ StartWaiting(t, waiters)
  /\ UNCHANGED <<attached, runs, forever, dispatches>>

\* Mutant: the node is not removed.
OthersAll(list, t) == list

Others(list, t) ==
  IF \E i \in DOMAIN list : list[i] = t
    THEN LET at == CHOOSE i \in DOMAIN list : list[i] = t
         IN  SubSeq(list, 1, at - 1) \o SubSeq(list, at + 1, Len(list))
    ELSE list

\* x_cond_wait returns, signalled or not: the node leaves the list, if it is
\* still there, and the loop of x_main_loop_run decides.
RunWakes(t) ==
  /\ pc[t] = "wait"
  /\ LET list == Others(waiters, t)
         stop == ~is_running[CurrentLoop(t)]
     IN  \/ /\ Free(t) /\ Own(t)
            /\ pc' = [pc EXCEPT ![t] = IF stop THEN "release" ELSE "iterate"]
            /\ waiters' = list /\ signalled' = signalled \ {t}
            /\ UNCHANGED runs
         \/ /\ ~Free(t) /\ ~stop
            /\ StartWaiting(t, list)
            /\ UNCHANGED runs
         \/ /\ ~Free(t) /\ stop
            /\ pc' = [pc EXCEPT ![t] = "user"]
            /\ runs' = [runs EXCEPT ![t] = SubSeq(@, 1, Len(@) - 1)]
            /\ waiters' = list /\ signalled' = signalled \ {t}
            /\ UNCHANGED <<owner, owner_count>>
  /\ UNCHANGED <<is_running, attached, forever, dispatches>>

\* The loop is marked as running, whatever happened since the call.
RunEnter(t) ==
  /\ pc[t] = "enter"
  /\ is_running' = [is_running EXCEPT ![CurrentLoop(t)] = TRUE]
  /\ pc' = [pc EXCEPT ![t] = "iterate"]
  /\ UNCHANGED <<owner, owner_count, waiters, signalled, attached, runs,
                 forever, dispatches>>

\* Mutant: nobody is woken.
DropWaiter ==
  /\ waiters' = IF waiters = << >> THEN waiters ELSE Tail(waiters)
  /\ UNCHANGED signalled

\* The head of the waiters leaves the list, and one thread that waits for the
\* condition, which they share, is woken: any of them.
SignalWaiter ==
  IF waiters = << >>
    THEN UNCHANGED <<waiters, signalled>>
    ELSE /\ waiters' = Tail(waiters)
         /\ IF Waiting \subseteq signalled
              THEN UNCHANGED signalled
              ELSE \E u \in Waiting \ signalled : signalled' = signalled \cup {u}

Disown(t) ==
  /\ owner_count' = owner_count - 1
  /\ IF owner_count = 1 THEN owner' = None /\ SignalWaiter
                        ELSE UNCHANGED <<owner, waiters, signalled>>

\* main_context_release_U at the end of x_main_loop_run.
RunRelease(t) ==
  /\ pc[t] = "release"
  /\ Disown(t)
  /\ pc' = [pc EXCEPT ![t] = "user"]
  /\ runs' = [runs EXCEPT ![t] = SubSeq(@, 1, Len(@) - 1)]
  /\ UNCHANGED <<is_running, attached, forever, dispatches>>

-----------------------------------------------------------------------------
(* main_context_iterate_L *)

\* Its main_context_acquire_U.  x_main_loop_run has acquired the context for
\* this thread, so the branch that waits for it is never taken.
IterateAcquire(t) ==
  /\ pc[t] = "iterate" /\ Free(t)
  /\ Own(t)
  /\ pc' = [pc EXCEPT ![t] = "prepare"]
  /\ UNCHANGED <<waiters, signalled, is_running, attached, runs, forever,
                 dispatches>>

\* main_context_prepare_U and main_context_query_U.  A nested round drops what
\* the outer one had still to dispatch.
Prepare(t) ==
  /\ pc[t] = "prepare"
  /\ forever' = [forever EXCEPT ![t] = attached = {}]
  /\ dispatches' = [dispatches EXCEPT ![t] = {}]
  /\ pc' = [pc EXCEPT ![t] = "poll"]
  /\ UNCHANGED <<owner, owner_count, waiters, signalled, is_running, attached,
                 runs>>

\* The poll's timeout, or a signal's EINTR.  x_wakeup_signal does not end it:
\* the wakeup's descriptor is never among those polled.
PollReturns(t) ==
  /\ pc[t] = "poll"
  /\ pc' = [pc EXCEPT ![t] = "check"]
  /\ forever' = [forever EXCEPT ![t] = FALSE]
  /\ UNCHANGED <<owner, owner_count, waiters, signalled, is_running, attached,
                 runs, dispatches>>

\* main_context_check_U: the sources whose time has come.
Check(t) ==
  /\ pc[t] = "check"
  /\ \E ready \in SUBSET attached :
       dispatches' = [dispatches EXCEPT ![t] = ready]
  /\ pc' = [pc EXCEPT ![t] = "dispatch"]
  /\ UNCHANGED <<owner, owner_count, waiters, signalled, is_running, attached,
                 runs, forever>>

\* The next source's callback begins, or main_dispatch_L is done and
\* main_context_release_U follows.
Dispatch(t) ==
  /\ pc[t] = "dispatch"
  /\ \/ \E s \in dispatches[t] :
          /\ dispatches' = [dispatches EXCEPT ![t] = @ \ {s}]
          /\ attached' \in {attached, attached \ {s}}
          /\ pc' = [pc EXCEPT ![t] = "user"]
          /\ UNCHANGED <<owner, owner_count, waiters, signalled>>
     \/ /\ dispatches[t] = {}
        /\ Disown(t)
        /\ pc' = [pc EXCEPT ![t] = "end"]
        /\ UNCHANGED <<dispatches, attached>>
  /\ UNCHANGED <<is_running, runs, forever>>

\* The callback returns to main_dispatch_L.
CallbackReturns(t) ==
  /\ pc[t] = "user" /\ runs[t] # << >>
  /\ pc' = [pc EXCEPT ![t] = "dispatch"]
  /\ UNCHANGED <<owner, owner_count, waiters, signalled, is_running, attached,
                 runs, forever, dispatches>>

\* "while (loop->is_running)" of x_main_loop_run.
IterateEnd(t) ==
  /\ pc[t] = "end"
  /\ pc' = [pc EXCEPT ![t] = IF is_running[CurrentLoop(t)] THEN "iterate"
                                                           ELSE "release"]
  /\ UNCHANGED <<owner, owner_count, waiters, signalled, is_running, attached,
                 runs, forever, dispatches>>

-----------------------------------------------------------------------------
(* What any thread, or a callback, may call *)

\* Mutant: without x_cond_broadcast.
QuitSilently(t, l) ==
  /\ pc[t] = "user"
  /\ is_running' = [is_running EXCEPT ![l] = FALSE]
  /\ UNCHANGED <<owner, owner_count, waiters, signalled, attached, runs, pc,
                 forever, dispatches>>

Quit(t, l) ==
  /\ pc[t] = "user"
  /\ is_running' = [is_running EXCEPT ![l] = FALSE]
  /\ signalled' = signalled \cup Waiting
  /\ UNCHANGED <<owner, owner_count, waiters, attached, runs, pc, forever,
                 dispatches>>

Attach(t, s) ==
  /\ pc[t] = "user" /\ s \notin attached
  /\ attached' = attached \cup {s}
  /\ UNCHANGED <<owner, owner_count, waiters, signalled, is_running, runs, pc,
                 forever, dispatches>>

-----------------------------------------------------------------------------

RunStep(t) ==
  \/ RunLost(t) \/ RunWakes(t) \/ RunEnter(t) \/ RunRelease(t)
  \/ IterateAcquire(t) \/ Prepare(t) \/ PollReturns(t) \/ Check(t)
  \/ Dispatch(t) \/ CallbackReturns(t) \/ IterateEnd(t)

UserStep(t) ==
  \/ \E l \in Loop : Run(t, l) \/ Quit(t, l)
  \/ \E s \in Source : Attach(t, s)

Next == \E t \in Thread : RunStep(t) \/ UserStep(t)

Spec == Init /\ [][Next]_vars

\* A thread in a loop goes on: a wait ends when it is signalled, a poll with a
\* timeout ends, callbacks return.
FairSpec ==
  /\ Spec
  /\ \A t \in Thread :
       WF_vars(/\ pc[t] = "wait" => t \in signalled
               /\ ~forever[t]
               /\ RunStep(t))

-----------------------------------------------------------------------------
(* Properties *)

\* How often thread t has acquired the context: once in each x_main_loop_run
\* that is not waiting for it, once more from iterate's acquire to its release.
Acquired(t) ==
  LET n == Len(runs[t])
      outer == 2 * (n - 1)
  IN  IF n = 0 THEN 0
      ELSE CASE pc[t] \in {"lost", "wait"} -> outer
             [] pc[t] \in {"enter", "iterate", "end", "release"} -> outer + 1
             [] OTHER -> outer + 2

\* owner and owner_count agree with what the threads have acquired: the context
\* is free exactly when nobody holds it, and its owner's count is its own.
OwnerExact ==
  /\ \A t \in Thread : Acquired(t) = IF owner = t THEN owner_count ELSE 0
  /\ (owner = None) = (owner_count = 0)

\* main_context_iterate_L finds the context acquired by x_main_loop_run, so its
\* branch without ownership, which returns with the lock held, is not taken,
\* and no two threads prepare, poll, check or dispatch at the same time.
IterateOwns ==
  \A t \in Thread :
    pc[t] \in {"iterate", "prepare", "poll", "check", "dispatch", "end"} =>
      owner = t

\* The nodes in context->waiters are on the stacks of threads that are still in
\* main_context_wait_L, one each: release never follows a pointer into a frame
\* that is gone.
WaitersWait ==
  /\ \A i \in DOMAIN waiters : pc[waiters[i]] = "wait"
  /\ \A i, j \in DOMAIN waiters : i # j => waiters[i] # waiters[j]

\* Who owns the context, how often, and who waits for it agree, over nested
\* runs and lost wake-ups, and only the owner goes through a round.
ContextExact == TypeOK /\ OwnerExact /\ IterateOwns /\ WaitersWait

\* A thread that waits for the context is not left behind when it is free: it is
\* woken, although release pops the list's first node and signals a condition
\* that all waiters share.
FreeContextIsTaken ==
  \A t \in Thread : owner = None /\ pc[t] = "wait" ~> owner # None \/ pc[t] # "wait"

\* Thread t runs loop l as the nth of its nested runs, and nothing inside of it.
Innermost(t, l, n) == Len(runs[t]) = n /\ n > 0 /\ CurrentLoop(t) = l

\* x_main_loop_quit stops the innermost loop of a thread, nested or not, whether
\* it iterates or waits for the context and whatever other threads do: it comes
\* back from x_main_loop_run, unless it is made to run again, calls another run
\* in a callback, or the thread itself is in a poll without a timeout.
QuitStops ==
  \A t \in Thread : \A l \in Loop : \A n \in 1 .. MaxDepth :
    Innermost(t, l, n) /\ ~is_running[l] ~>
      ~Innermost(t, l, n) \/ is_running[l] \/ (pc[t] = "poll" /\ forever[t])

\* x_source_attach: "If another thread has acquired the context, wake it up
\* since it might be in poll() right now": the new source gets its turn.
AttachWakesPoll ==
  \A s \in Source : \A t \in Thread :
    s \in attached /\ pc[t] = "poll" ~> pc[t] # "poll"
=============================================================================
