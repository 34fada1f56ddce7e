------------------------------- MODULE Signal -------------------------------
(***************************************************************************)
(* One signal of one instance (xts/src/xsignal.c) and the closures of its  *)
(* handlers (xts/src/xclosure.c), under several threads: the list of       *)
(* handlers, the emissions that run through it while the handlers they     *)
(* call connect, disconnect, block and emit again, and the references that *)
(* keep handlers and closures alive meanwhile.                             *)
(*                                                                         *)
(* What a thread is in the middle of is a stack of frames: emissions, and  *)
(* handlers or closures that it is dropping.  The thread holds the lock    *)
(* signal except where a closure runs or is dropped.  What happens without *)
(* the lock touches nothing that it protects, and is therefore taken to    *)
(* happen while nobody holds it.                                           *)
(***************************************************************************)
EXTENDS Integers, Sequences, FiniteSets

CONSTANTS
  Thread,
  Handler,          \* the addresses of handlers, each with its closure
  After,            \* those that are connected with X_SIGNAL_CONNECT_AFTER
  Detailed,         \* those that are connected with a detail
  Kinds,            \* the signals: their flags, when the class's closure runs,
                    \* whether an accumulator may stop an emission, which
                    \* threads and handlers use them, and a bound on how often
                    \* they are emitted
  MaxId,            \* bound on _n_handlers
  MaxBlock,         \* bound on block_count
  None

ASSUME SignalAssumption ==
  /\ After \subseteq Handler /\ Detailed \subseteq Handler
  /\ None \notin Handler \cup Thread
  /\ \A k \in Kinds : /\ k.no_recurse \in BOOLEAN /\ k.detailed \in BOOLEAN /\ k.stops \in BOOLEAN
                      /\ k.threads \subseteq Thread /\ k.handlers \subseteq Handler
                      /\ k.class \in {"none", "first", "last", "cleanup"} /\ k.emissions \in Nat
  /\ IsFiniteSet(Thread)
  /\ MaxId \in Nat /\ MaxBlock \in Nat \ {0}

VARIABLES
  kind,             \* the signal's SignalNode
  lock,             \* X_LOCK (signal): who holds it
  hlist,            \* the HandlerList, with the next and prev of its handlers
  used,             \* the handlers that are allocated
  connected,        \* those whose handler_id is not 0
  id,               \* the handler_id they got
  n_handlers,       \* _n_handlers
  ref_count, block_count,
  matched,          \* references left behind by handler_foreach_matched_R
  closure_refs,     \* ref_count of the closure, 0 when it is freed
  is_invalid,
  stack,            \* what each thread is doing
  restart_emissions,  \* _restart_emissions: whose emissions, and of which detail
  emitted           \* number of emissions

handlerVars == <<used, connected, id, n_handlers, block_count, matched>>
closureVars == <<closure_refs, is_invalid>>
emissions   == <<restart_emissions, emitted>>
vars == <<kind, lock, hlist, handlerVars, ref_count, closureVars, stack, emissions>>

-----------------------------------------------------------------------------
(* Frames *)

Top(t) == stack[t][Len(stack[t])]

\* The thread's stacks when t's topmost frame becomes f.
WithTop(t, f) == [stack EXCEPT ![t][Len(stack[t])] = f]
Pushed(t, f) == [stack EXCEPT ![t] = Append(@, f)]
Popped(t) == [stack EXCEPT ![t] = SubSeq(@, 1, Len(@) - 1)]

At(t, what, pc) == stack[t] # << >> /\ Top(t).what = what /\ Top(t).pc = pc

Places == UNION {{t} \X (1 .. Len(stack[t])) : t \in Thread}
Frame(p) == stack[p[1]][p[2]]
Frames == {Frame(p) : p \in Places}

\* The place of a handler's call in an emission.
Rank(h) == IF h \in After THEN MaxId + 1 + id[h] ELSE id[h]

\* When an emission may be asked to start again: while its thread has read its
\* state and is about to write it, when it is over but for the removal from the
\* list of emissions, and at any other time.
Windows == {"stop", "pop", "open"}

\* An emission of detail d: due and called are the ranks of the handlers that
\* this round has to call and has called, asked when another round was asked for.
Emission(d) ==
  [what |-> "emit", pc |-> "collect", stage |-> "first", state |-> "run", detail |-> d,
   max |-> 0, list |-> None, h |-> None, due |-> {}, called |-> << >>, asked |-> {}]

\* handler_unref_R of h after the last reference, or x_closure_unref of its
\* closure alone; then the lock is taken again when locked.
Drop(h, handler, locked) ==
  [what |-> "drop", pc |-> "read", h |-> h, handler |-> handler, locked |-> locked]

\* Where user code runs, which may call any operation.
MayCall(t) ==
  /\ t \in kind.threads
  /\ stack[t] # << >> => Top(t).pc \in {"call", "notify"}

-----------------------------------------------------------------------------
(* The list of handlers *)

EmptyList ==
  [handlers |-> None, tail_before |-> None, tail_after |-> None,
   next |-> [h \in Handler |-> None], prev |-> [h \in Handler |-> None]]

\* f with the value v at h, unless h is no handler.
Put(f, h, v) == IF h = None THEN f ELSE [f EXCEPT ![h] = v]

\* handler_insert_L.
Insert(l, h) ==
  LET behind ==       \* the handler that h is put behind
        IF l.handlers = None THEN None
        ELSE IF h \in After THEN l.tail_after ELSE l.tail_before
      ahead ==        \* and before
        IF l.handlers = None \/ h \in After THEN None
        ELSE IF behind = None THEN l.handlers ELSE l.next[behind]
  IN [handlers |-> IF behind = None THEN h ELSE l.handlers,
      tail_before |-> IF h \in After THEN l.tail_before ELSE h,
      tail_after |-> IF ahead = None THEN h ELSE l.tail_after,
      next |-> Put([l.next EXCEPT ![h] = ahead], behind, h),
      prev |-> Put([l.prev EXCEPT ![h] = behind], ahead, h)]

\* Mutant of Unlink: tail_before is left where it is.
UnlinkTail(l, h) ==
  LET before == l.prev[h]
      behind == l.next[h]
  IN [handlers |-> IF before = None THEN behind ELSE l.handlers,
      tail_before |-> l.tail_before,
      tail_after |-> IF behind = None THEN before ELSE l.tail_after,
      next |-> [Put(l.next, before, behind) EXCEPT ![h] = None],
      prev |-> [Put(l.prev, behind, before) EXCEPT ![h] = None]]

\* The unlinking of handler_unref_R.
Unlink(l, h) ==
  LET before == l.prev[h]
      behind == l.next[h]
  IN [handlers |-> IF before = None THEN behind ELSE l.handlers,
      tail_before |-> IF h \notin After /\ (behind = None \/ behind \in After)
                      THEN before ELSE l.tail_before,
      tail_after |-> IF behind = None THEN before ELSE l.tail_after,
      next |-> [Put(l.next, before, behind) EXCEPT ![h] = None],
      prev |-> [Put(l.prev, behind, before) EXCEPT ![h] = None]]

\* The handlers of the list: those that next leads to from its head.
Led(S) ==
  /\ hlist.handlers \in S \cup {None}
  /\ \A h \in S : hlist.next[h] \in S \cup {None}

Listed == {h \in Handler : \A S \in SUBSET Handler : Led(S) => h \in S}

\* The handlers an emission of detail d may call now.
Open(d) == {h \in Listed : block_count[h] = 0 /\ (h \in Detailed => d)}

Ref(refs, h) == IF h = None THEN refs ELSE [refs EXCEPT ![h] = @ + 1]

\* handler_unref_R by t of h, when the counts have become refs and the stacks
\* st: the last reference unlinks h, and drops the lock to unref its closure.
Unref(t, h, refs, st, locked) ==
  \/ /\ refs[h] > 1
     /\ ref_count' = [refs EXCEPT ![h] = @ - 1]
     /\ stack' = st
     /\ lock' = IF locked THEN t ELSE None
     /\ UNCHANGED hlist
  \/ /\ refs[h] = 1
     /\ ref_count' = [refs EXCEPT ![h] = 0]
     /\ stack' = [st EXCEPT ![t] = Append(@, Drop(h, TRUE, locked))]
     /\ lock' = None
     /\ hlist' = Unlink(hlist, h)

-----------------------------------------------------------------------------
(* Operations of the program *)

Init ==
  /\ kind \in Kinds
  /\ lock = None /\ hlist = EmptyList
  /\ used = {} /\ connected = {} /\ id = [h \in Handler |-> 0] /\ n_handlers = 1
  /\ ref_count = [h \in Handler |-> 0] /\ block_count = [h \in Handler |-> 0]
  /\ matched = [h \in Handler |-> 0]
  /\ closure_refs = [h \in Handler |-> 0] /\ is_invalid = [h \in Handler |-> FALSE]
  /\ stack = [t \in Thread |-> << >>] /\ restart_emissions = << >> /\ emitted = 0

\* x_signal_connect_data.  The addresses that someone still holds are not given
\* out again.
Connect(t, h) ==
  /\ MayCall(t) /\ lock = None
  /\ h \in kind.handlers \ used /\ closure_refs[h] = 0 /\ \A f \in Frames : f.h # h
  /\ n_handlers <= MaxId /\ (h \in Detailed => kind.detailed)
  /\ used' = used \cup {h} /\ connected' = connected \cup {h}
  /\ id' = [id EXCEPT ![h] = n_handlers] /\ n_handlers' = n_handlers + 1
  /\ ref_count' = [ref_count EXCEPT ![h] = 1]
  /\ block_count' = [block_count EXCEPT ![h] = 0]
  /\ closure_refs' = [closure_refs EXCEPT ![h] = 1]
  /\ is_invalid' = [is_invalid EXCEPT ![h] = FALSE]
  /\ hlist' = Insert(hlist, h)
  /\ UNCHANGED <<kind, lock, matched, stack, emissions>>

\* The rounds under way no longer have to call h.
Excuse(h) ==
  [t \in Thread |-> [i \in 1 .. Len(stack[t]) |->
     IF stack[t][i].what = "emit" THEN [stack[t][i] EXCEPT !.due = @ \ {Rank(h)}]
     ELSE stack[t][i]]]

\* x_signal_disconnect.
Disconnect(t, h) ==
  /\ MayCall(t) /\ lock = None
  /\ h \in connected
  /\ connected' = connected \ {h}
  /\ block_count' = [block_count EXCEPT ![h] = 1]
  /\ Unref(t, h, ref_count, Excuse(h), FALSE)
  /\ UNCHANGED <<kind, used, id, n_handlers, matched, closureVars, emissions>>

\* x_signal_disconnect_matched of a function that connects all of S, taken as
\* one step: handler_foreach_matched_R references them all, but goes through
\* its first match only, the last of S in the list.
DisconnectMatched(t, S, h) ==
  /\ MayCall(t) /\ lock = None
  /\ h \in S /\ S \subseteq connected /\ \A g \in S : Rank(g) <= Rank(h)
  /\ S # {h}
  /\ connected' = connected \ {h}
  /\ block_count' = [block_count EXCEPT ![h] = 1]
  /\ matched' = [g \in Handler |-> IF g \in S \ {h} THEN matched[g] + 1 ELSE matched[g]]
  /\ Unref(t, h, [g \in Handler |-> IF g \in S \ {h} THEN ref_count[g] + 1 ELSE ref_count[g]],
           Excuse(h), FALSE)
  /\ UNCHANGED <<kind, used, id, n_handlers, closureVars, emissions>>

\* x_signal_block and x_signal_unblock.
Block(t, h) ==
  /\ MayCall(t) /\ lock = None
  /\ h \in connected /\ block_count[h] < MaxBlock
  /\ block_count' = [block_count EXCEPT ![h] = @ + 1]
  /\ stack' = Excuse(h)
  /\ UNCHANGED <<kind, lock, hlist, used, connected, id, n_handlers, ref_count, matched,
                 closureVars, emissions>>

Unblock(t, h) ==
  /\ MayCall(t) /\ lock = None
  /\ h \in connected /\ block_count[h] > 0
  /\ block_count' = [block_count EXCEPT ![h] = @ - 1]
  /\ UNCHANGED <<kind, lock, hlist, used, connected, id, n_handlers, ref_count, matched,
                 closureVars, stack, emissions>>

-----------------------------------------------------------------------------
(* x_signal_emit: the signal is locked, and emitted in one of three ways *)

MayEmit(t, d) ==
  MayCall(t) /\ lock = None /\ (d => kind.detailed) /\ emitted < kind.emissions

\* The va fast path: at most one closure is to be called, and not again.
\* Without any nothing is done.
FastPath(d) ==
  /\ kind.class # "cleanup"
  /\ \/ kind.class = "none" /\ Cardinality(Open(d)) <= 1
     \/ kind.class # "none" /\ Open(d) = {}
  /\ kind.no_recurse => kind.class = "none" /\ Open(d) = {}

\* One closure: that of a handler, which nothing references yet, or the class's.
EmitFast(t, d) ==
  /\ MayEmit(t, d)
  /\ FastPath(d) /\ (kind.class = "none" => Open(d) # {})
  /\ \E h \in IF kind.class = "none" THEN Open(d) ELSE {None} :
       stack' = Pushed(t, [what |-> "fast", pc |-> IF h = None THEN "call" ELSE "picked", h |-> h])
  /\ emitted' = emitted + 1
  /\ UNCHANGED <<kind, lock, hlist, handlerVars, ref_count, closureVars, restart_emissions>>

\* Otherwise the lock is released, and the arguments are collected.
Collect(t, d) ==
  /\ MayEmit(t, d)
  /\ ~ FastPath(d)
  /\ stack' = Pushed(t, Emission(d))
  /\ emitted' = emitted + 1
  /\ UNCHANGED <<kind, lock, hlist, handlerVars, ref_count, closureVars, restart_emissions>>

-----------------------------------------------------------------------------
(* signal_emit_unlocked_R *)

\* What no step of an emission touches.
Still == UNCHANGED <<kind, handlerVars, closureVars, emissions>>

In(t, pc) == lock = t /\ At(t, "emit", pc)

\* emission_find_L: the emission of detail d that was pushed last is at i.
Found(i, d) ==
  /\ restart_emissions[i].detail = d
  /\ \A j \in 1 .. i - 1 : restart_emissions[j].detail # d

\* The emission of detail d, from when it is pushed on, and when it was asked to
\* start again.
Running(f, d) == f.what = "emit" /\ f.detail = d /\ f.pc \notin {"collect", "enter"}

Asked(f) ==
  [f EXCEPT !.state = "restart",
            !.asked = @ \cup {IF f.pc \in {"stop", "pop"} THEN f.pc ELSE "open"}]

\* The frames when t has asked the emission at i, and is done with its own.
Ask(t, i) ==
  stack' = [u \in Thread |->
    [k \in 1 .. Len(stack[u]) - (IF u = t THEN 1 ELSE 0) |->
       IF u = restart_emissions[i].thread /\ Running(stack[u][k], Top(t).detail)
       THEN Asked(stack[u][k]) ELSE stack[u][k]]]

\* An emission of a signal without recursion asks the one that is found to
\* start again.
EmitAgain(t) ==
  /\ lock = None /\ At(t, "emit", "collect")
  /\ kind.no_recurse
  /\ \E i \in 1 .. Len(restart_emissions) : Found(i, Top(t).detail) /\ Ask(t, i)
  /\ UNCHANGED <<lock, hlist, ref_count>> /\ Still

\* emission_push_L.
Push(t) ==
  /\ lock' = t
  /\ stack' = WithTop(t, [Top(t) EXCEPT !.pc = "restart"])
  /\ restart_emissions' =
       IF kind.no_recurse THEN <<[thread |-> t, detail |-> Top(t).detail]>> \o restart_emissions
       ELSE restart_emissions
  /\ UNCHANGED <<kind, hlist, handlerVars, ref_count, closureVars, emitted>>

\* None is found.  With an accumulator the lock is released once more before the
\* emission is pushed.
Emit(t) ==
  /\ lock = None /\ At(t, "emit", "collect")
  /\ kind.no_recurse =>
       \A i \in 1 .. Len(restart_emissions) : restart_emissions[i].detail # Top(t).detail
  /\ \/ ~ kind.stops /\ Push(t)
     \/ /\ kind.stops
        /\ stack' = WithTop(t, [Top(t) EXCEPT !.pc = "enter"])
        /\ UNCHANGED <<lock, hlist, ref_count>> /\ Still

Enter(t) ==
  /\ lock = None /\ At(t, "emit", "enter")
  /\ Push(t)

\* The closure of the class, or of a handler, is called in stage s; the lock is
\* dropped.
Calls(f, s, state) == [f EXCEPT !.pc = "call", !.stage = s, !.state = state]

\* How the emission goes on when a stage is over.
Following ==
  [first |-> "before", before |-> "last", last |-> "after", after |-> "cleanup",
   cleanup |-> "finish"]

Ended(f) ==
  [f EXCEPT !.pc = IF f.state = "restart" THEN "restart"
                   ELSE IF f.state = "stop" /\ f.stage # "cleanup" THEN "cleanup"
                   ELSE Following[f.stage]]

\* EMIT_RESTART.
Restart(t) ==
  /\ In(t, "restart")
  /\ LET f == Top(t)
         begin == WithTop(t, [f EXCEPT !.pc = "begin", !.list = None])
     IN \/ f.list # None /\ Unref(t, f.list, ref_count, begin, TRUE)
        \/ f.list = None /\ stack' = begin /\ UNCHANGED <<lock, hlist, ref_count>>
  /\ Still

Begin(t) ==
  /\ In(t, "begin")
  /\ LET first == kind.class = "first"
         f == [Top(t) EXCEPT !.max = n_handlers, !.list = hlist.handlers, !.state = "run",
                             !.due = {Rank(h) : h \in Open(Top(t).detail)},
                             !.called = << >>, !.asked = {}, !.pc = "before"]
     IN /\ stack' = WithTop(t, IF first THEN Calls(f, "first", "run") ELSE f)
        /\ lock' = IF first THEN None ELSE t
  /\ ref_count' = Ref(ref_count, hlist.handlers)
  /\ UNCHANGED hlist /\ Still

\* The loops over the handlers, before and after the closure of the class.
Loop(t, s) ==
  /\ In(t, s)
  /\ LET f == [Top(t) EXCEPT !.stage = s]
     IN stack' = WithTop(t, IF f.list = None THEN Ended(f)
                            ELSE [f EXCEPT !.pc = "look", !.h = f.list, !.state = "run"])
  /\ ref_count' = Ref(ref_count, Top(t).list)
  /\ UNCHANGED <<lock, hlist>> /\ Still

\* The first loop ends at a handler that comes after, and leaves it in
\* handler_list for the second.
Break(t) ==
  /\ In(t, "look")
  /\ LET f == Top(t)
     IN /\ f.stage = "before" /\ f.h \in After
        /\ Unref(t, f.list, ref_count,
                 WithTop(t, [f EXCEPT !.list = f.h, !.h = None, !.pc = "ended"]), TRUE)
  /\ Still

\* Mutant of Wanted: off by one, the youngest handler is left out.
WantedMax(f) ==
  /\ f.stage = "after" <=> f.h \in After
  /\ block_count[f.h] = 0 /\ (f.h \in Detailed => f.detail)
  /\ f.h \in connected => id[f.h] + 1 < f.max

Wanted(f) ==
  /\ f.stage = "after" <=> f.h \in After
  /\ block_count[f.h] = 0 /\ (f.h \in Detailed => f.detail)
  /\ f.h \in connected => id[f.h] < f.max

CallHandler(t) ==
  /\ In(t, "look")
  /\ LET f == Top(t)
     IN /\ Wanted(f)
        /\ stack' = WithTop(t, Calls([f EXCEPT !.called = Append(@, Rank(f.h))],
                                     f.stage, f.state))
  /\ lock' = None
  /\ UNCHANGED <<hlist, ref_count>> /\ Still

\* Mutant of Step: the next handler is not referenced.
StepUnreferenced(t, f, h) ==
  LET pc == IF h = None THEN "ended" ELSE "look"
      on == IF f.stage = "before" THEN [f EXCEPT !.list = f.h, !.h = h, !.pc = pc]
            ELSE [f EXCEPT !.h = h, !.pc = pc]
  IN Unref(t, IF f.stage = "before" THEN f.list ELSE f.h, ref_count,
           WithTop(t, on), TRUE)

\* On to the handler h: it is referenced before the one behind is let go.
Step(t, f, h) ==
  LET pc == IF h = None THEN "ended" ELSE "look"
      on == IF f.stage = "before" THEN [f EXCEPT !.list = f.h, !.h = h, !.pc = pc]
            ELSE [f EXCEPT !.h = h, !.pc = pc]
  IN Unref(t, IF f.stage = "before" THEN f.list ELSE f.h, Ref(ref_count, h),
           WithTop(t, on), TRUE)

Skip(t) ==
  /\ In(t, "look")
  /\ LET f == Top(t)
     IN /\ ~ Wanted(f) /\ ~ (f.stage = "before" /\ f.h \in After)
        /\ Step(t, f, hlist.next[f.h])
  /\ Still

\* Mutant of Stop: also an emission that was told to start again.
StopAlways(t) ==
  /\ lock = None /\ At(t, "emit", "call")
  /\ kind.stops /\ Top(t).stage # "cleanup"
  /\ stack' = WithTop(t, [Top(t) EXCEPT !.pc = "stop"])
  /\ UNCHANGED <<lock, hlist, ref_count>> /\ Still

\* A closure has returned, and its accumulator stops the emission: it looks at
\* the state and then sets it, without the lock.
Stop(t) ==
  /\ lock = None /\ At(t, "emit", "call")
  /\ kind.stops /\ Top(t).stage # "cleanup" /\ Top(t).state = "run"
  /\ stack' = WithTop(t, [Top(t) EXCEPT !.pc = "stop"])
  /\ UNCHANGED <<lock, hlist, ref_count>> /\ Still

Stopped(t) ==
  /\ lock = None /\ At(t, "emit", "stop")
  /\ stack' = WithTop(t, [Top(t) EXCEPT !.pc = "returned", !.state = "stop"])
  /\ UNCHANGED <<lock, hlist, ref_count>> /\ Still

\* A closure has returned: the lock is taken, and the emission goes on.
Return(t) ==
  /\ lock = None /\ (At(t, "emit", "call") \/ At(t, "emit", "returned"))
  /\ LET f == Top(t)
     IN \/ /\ f.stage \in {"before", "after"}
           /\ Step(t, f, IF f.state = "run" THEN hlist.next[f.h] ELSE None)
        \/ /\ f.stage \notin {"before", "after"}
           /\ stack' = WithTop(t, Ended(f)) /\ lock' = t
           /\ UNCHANGED <<hlist, ref_count>>
  /\ Still

\* Behind a loop, whose last handler may have been dropped without the lock.
End(t) ==
  /\ In(t, "ended")
  /\ stack' = WithTop(t, Ended(Top(t)))
  /\ UNCHANGED <<lock, hlist, ref_count>> /\ Still

\* The closure of the class, when it runs last or to clean up.
CallClass(t, s) ==
  /\ In(t, s)
  /\ LET f == Top(t)
     IN \/ /\ kind.class = s
           /\ stack' = WithTop(t, Calls(f, s, IF s = "last" THEN "run" ELSE "stop"))
           /\ lock' = None
        \/ /\ kind.class # s
           /\ stack' = WithTop(t, [f EXCEPT !.pc = IF s = "last" THEN "after" ELSE "finish"])
           /\ UNCHANGED lock
  /\ UNCHANGED <<hlist, ref_count>> /\ Still

\* The last reference of the emission, and its end.
Finish(t) ==
  /\ In(t, "finish")
  /\ LET f == Top(t)
         pop == WithTop(t, [f EXCEPT !.pc = "pop", !.list = None])
     IN \/ f.list # None /\ Unref(t, f.list, ref_count, pop, TRUE)
        \/ f.list = None /\ stack' = pop /\ UNCHANGED <<lock, hlist, ref_count>>
  /\ Still

\* emission_pop_L.
Pop(t) ==
  /\ In(t, "pop")
  /\ stack' = Popped(t) /\ lock' = None
  /\ restart_emissions' =
       SelectSeq(restart_emissions,
                 LAMBDA e : e # [thread |-> t, detail |-> Top(t).detail])
  /\ UNCHANGED <<kind, hlist, handlerVars, ref_count, closureVars, emitted>>

-----------------------------------------------------------------------------
(* The fast path, and closures that are dropped *)

Quiet == UNCHANGED <<kind, hlist, connected, n_handlers, ref_count, matched, emissions>>

\* Mutant of InvokeFast: the closure is called without a reference.
InvokeFastUnreferenced(t) ==
  /\ lock = None /\ At(t, "fast", "picked")
  /\ LET h == Top(t).h
     IN \/ /\ closure_refs[h] > 0 /\ ~ is_invalid[h]
           /\ stack' = WithTop(t, [Top(t) EXCEPT !.pc = "call"])
        \/ /\ closure_refs[h] = 0 \/ is_invalid[h]
           /\ stack' = Popped(t)
  /\ UNCHANGED <<lock, used, id, block_count, closureVars>> /\ Quiet

\* _x_closure_invoke_va of the closure that was picked: x_closure_ref refuses
\* one that is freed, and one that is invalid is not called.
InvokeFast(t) ==
  /\ lock = None /\ At(t, "fast", "picked")
  /\ LET h == Top(t).h
     IN \/ /\ closure_refs[h] > 0 /\ ~ is_invalid[h]
           /\ stack' = WithTop(t, [Top(t) EXCEPT !.pc = "call"])
           /\ closure_refs' = Ref(closure_refs, h)
        \/ /\ closure_refs[h] > 0 /\ is_invalid[h]
           /\ stack' = WithTop(t, Drop(h, FALSE, FALSE))
           /\ closure_refs' = Ref(closure_refs, h)
        \/ /\ closure_refs[h] = 0
           /\ stack' = Popped(t)
           /\ UNCHANGED closure_refs
  /\ UNCHANGED <<lock, used, id, block_count, is_invalid>> /\ Quiet

\* The closure has returned, and is unreferenced; the emission leaves its list.
ReturnFast(t) ==
  /\ lock = None /\ At(t, "fast", "call")
  /\ stack' = IF Top(t).h = None THEN Popped(t) ELSE WithTop(t, Drop(Top(t).h, FALSE, FALSE))
  /\ UNCHANGED <<lock, used, id, block_count, closureVars>> /\ Quiet

\* x_closure_unref reads the count, and invalidates the closure if it is 1.
UnrefReads(t) ==
  /\ lock = None /\ At(t, "drop", "read")
  /\ LET f == Top(t)
     IN /\ is_invalid' = [is_invalid EXCEPT ![f.h] = @ \/ closure_refs[f.h] = 1]
        /\ stack' = WithTop(t, [f EXCEPT !.pc = "dec"])
  /\ UNCHANGED <<lock, used, id, block_count, closure_refs>> /\ Quiet

\* It counts down, and at 0 runs destroy_data, and frees the closure.
UnrefCounts(t) ==
  /\ lock = None /\ At(t, "drop", "dec")
  /\ LET f == Top(t)
     IN /\ closure_refs' = [closure_refs EXCEPT ![f.h] = @ - 1]
        /\ stack' = WithTop(t, [f EXCEPT !.pc = IF closure_refs[f.h] = 1 THEN "notify"
                                                ELSE "dropped"])
  /\ UNCHANGED <<lock, used, id, block_count, is_invalid>> /\ Quiet

Notified(t) ==
  /\ lock = None /\ At(t, "drop", "notify")
  /\ stack' = WithTop(t, [Top(t) EXCEPT !.pc = "dropped"])
  /\ is_invalid' = [is_invalid EXCEPT ![Top(t).h] = FALSE]
  /\ UNCHANGED <<lock, used, id, block_count, closure_refs>> /\ Quiet

\* The handler is freed with the lock held again, which its caller may keep.
Dropped(t) ==
  /\ lock = None /\ At(t, "drop", "dropped")
  /\ LET f == Top(t)
     IN /\ used' = IF f.handler THEN used \ {f.h} ELSE used
        /\ id' = IF f.handler THEN [id EXCEPT ![f.h] = 0] ELSE id
        /\ block_count' = IF f.handler THEN [block_count EXCEPT ![f.h] = 0] ELSE block_count
        /\ lock' = IF f.locked THEN t ELSE None
  /\ stack' = Popped(t)
  /\ UNCHANGED closureVars /\ Quiet

-----------------------------------------------------------------------------
(* The specification *)

Proceed(t) ==
  \/ EmitAgain(t) \/ Emit(t) \/ Enter(t)
  \/ Restart(t) \/ Begin(t) \/ Loop(t, "before") \/ Loop(t, "after") \/ Break(t)
  \/ CallHandler(t) \/ Skip(t) \/ Stopped(t) \/ Return(t) \/ End(t)
  \/ CallClass(t, "last") \/ CallClass(t, "cleanup") \/ Finish(t) \/ Pop(t)
  \/ InvokeFast(t) \/ ReturnFast(t)
  \/ UnrefReads(t) \/ UnrefCounts(t) \/ Notified(t) \/ Dropped(t)

Operate(t) ==
  \/ \E h \in Handler : Connect(t, h) \/ Disconnect(t, h) \/ Block(t, h) \/ Unblock(t, h)
  \/ \E S \in SUBSET connected : \E h \in S : DisconnectMatched(t, S, h)
  \/ \E d \in BOOLEAN : EmitFast(t, d) \/ Collect(t, d)
  \/ Stop(t)

Next == \E t \in Thread : Operate(t) \/ Proceed(t)

Spec == Init /\ [][Next]_vars

-----------------------------------------------------------------------------
(* Properties *)

Types ==
  /\ kind \in Kinds /\ lock \in Thread \cup {None}
  /\ connected \subseteq used /\ used \subseteq Handler
  /\ id \in [Handler -> 0 .. MaxId] /\ n_handlers \in 1 .. MaxId + 1
  /\ block_count \in [Handler -> 0 .. MaxBlock]
  /\ is_invalid \in [Handler -> BOOLEAN]
  /\ emitted \in 0 .. kind.emissions

\* The references to h that the emissions hold: those with h in handler_list,
\* and those that stand on h.
Listing(h)  == {p \in Places : Frame(p).what = "emit" /\ Frame(p).list = h}
Standing(h) == {p \in Places : Frame(p).what = "emit" /\ Frame(p).h = h}

Held(h) == Cardinality(Listing(h)) + Cardinality(Standing(h))

\* A handler's count is that of its references: of its connection, of the
\* emissions that stand on it, and of the matches that were left behind.  It is
\* allocated while there is one.
RefsExact ==
  /\ Types
  /\ \A h \in Handler :
       /\ ref_count[h] = (IF h \in connected THEN 1 ELSE 0) + matched[h] + Held(h)
       /\ ref_count[h] > 0 => h \in used

\* The handlers that are referenced, and who of some of them comes first and
\* last; None if there are none.
Alive == {h \in Handler : ref_count[h] > 0}

IsFirst(S, h) == IF S = {} THEN h = None ELSE h \in S /\ \A g \in S \ {h} : Rank(h) < Rank(g)
IsLast(S, h)  == IF S = {} THEN h = None ELSE h \in S /\ \A g \in S \ {h} : Rank(g) < Rank(h)

\* The list holds the referenced handlers, those that come after last and each
\* part by their ids, linked both ways, and the tails are where the next
\* handlers belong, whoever leaves the list in whatever order.
InOrder ==
  /\ IsFirst(Alive, hlist.handlers)
  /\ IsLast(Alive \ After, hlist.tail_before) /\ IsLast(Alive, hlist.tail_after)
  /\ \A h \in Alive :
       /\ IsFirst({g \in Alive : Rank(g) > Rank(h)}, hlist.next[h])
       /\ IsLast({g \in Alive : Rank(g) < Rank(h)}, hlist.prev[h])

ListExact == Listed = Alive /\ InOrder

\* A round that is neither stopped nor restarted has called every handler that
\* was connected and not blocked from its beginning to its end, each once,
\* those that come after last, each part in the order of connection.
RoundIsComplete ==
  \A f \in Frames : f.what = "emit" =>
    /\ \A i \in 2 .. Len(f.called) : f.called[i - 1] < f.called[i]
    /\ f.pc \in {"cleanup", "finish"} /\ f.state = "run" =>
         f.due \subseteq {f.called[i] : i \in 1 .. Len(f.called)}

\* No thread is in the code of a handler whose closure is invalid or freed: its
\* data is destroyed after the last call has returned.
CalledAlive ==
  \A f \in Frames :
    f.what \in {"emit", "fast"} /\ f.h # None /\ f.pc \in {"call", "stop"} =>
      closure_refs[f.h] > 0 /\ ~ is_invalid[f.h]

\* An emission of a signal that does not recurse is not over when it was asked
\* to start again, by a closure it calls or by another thread at any time, also
\* while a handler that it leaves is dropped without the lock: a whole new round
\* follows.  There are two moments at which a request may be forgotten, and no
\* third: between the look at its state and the write that stops it, without the
\* lock, and when its last handler is dropped after the last look.
AskedIsGiven == [][\A t \in Thread : Pop(t) => Top(t).asked \subseteq {"stop", "pop"}]_vars

\* What is said of an emission without recursion, that it "might have to restart":
\* none is over when it was asked to, at whatever moment.
AskedIsAlwaysGiven == [][\A t \in Thread : Pop(t) => Top(t).asked = {}]_vars

\* What x_closure_ref asserts: the closure it is given is not freed.
ClosureIsAlive ==
  \A f \in Frames : f.what = "fast" /\ f.pc = "picked" => closure_refs[f.h] > 0

\* A closure is invalidated before its last reference is gone.
InvalidatedFirst ==
  \A f \in Frames : f.what = "drop" /\ f.pc = "notify" => is_invalid[f.h]
=============================================================================
