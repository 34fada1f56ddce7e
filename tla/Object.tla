------------------------------- MODULE Object -------------------------------
(***************************************************************************)
(* An object (xts/src/xobject.c): the references that threads count, the   *)
(* floating one, the queue that holds back the notifications of changed    *)
(* properties, the emissions of "notify", and the end of the object.       *)
(*                                                                         *)
(* The object is the one x_object_newv has just made, of a class with      *)
(* properties that can all be read.  unseen are the properties that have   *)
(* changed since a handler that stays connected to "notify" last looked at *)
(* them.  A handler that sets properties of the object is a thread of its  *)
(* own here; what it may do besides is to give up the reference of its     *)
(* caller.  The class chains up from its finalize.                         *)
(*                                                                         *)
(* Nobody points weakly to the object or keeps data with it, so that the   *)
(* queue is the one entry of qdata and every access to the entry is made   *)
(* under the mutex notify_queue, except at the end of the object.          *)
(* DataList has what happens when there are other entries.                 *)
(***************************************************************************)
EXTENDS Integers, FiniteSets

CONSTANTS
  Thread,
  Creator,          \* the thread in x_object_newv
  Prop,             \* the properties of the class
  MaxHeld,          \* bound: references that the threads hold
  MaxFreeze,        \* bound: calls that set properties from within dispose
  None

ASSUME ObjectAssumption ==
  /\ Creator \in Thread /\ IsFiniteSet(Thread)
  /\ None \notin Prop \cup Thread \cup [freeze_count : Nat, pspecs : SUBSET Prop]
  /\ MaxHeld \in Nat \ {0} /\ MaxFreeze \in Nat

VARIABLES
  ref_count,
  floating,         \* OBJECT_FLOATING_FLAG
  freed,            \* x_instance_delete has run
  held,             \* the references that each thread holds outside of the calls
  queue,            \* the NotifyQueue in qdata, or None
  disposer,         \* the thread whose unref was the last, or None
  unseen,
  pc,               \* where each thread is
  call,             \* the call it is in, or "no"; "new" and "made" for x_object_newv
  prop,             \* the property in its hands, pspec
  nqueue,           \* its NotifyQueue: "no", "this", or "gone" when it was freed
  pspecs,           \* what it has taken out of the queue
  emitting,         \* the property whose emission of "notify" it runs, or None
  state             \* the emission's round: "run", "seen" once the handler was
                    \* called, or "restart" when another is asked for

counts == <<ref_count, floating, held>>
end    == <<freed, disposer>>
local  == <<pc, call, prop, nqueue, pspecs>>
rounds == <<emitting, state>>
vars   == <<counts, end, queue, unseen, local, rounds>>

\* object_init has frozen the queue when the constructor returns; a class that
\* is made to float has nobody who holds the object.
Init ==
  /\ floating \in BOOLEAN
  /\ ref_count = 1 /\ freed = FALSE /\ disposer = None
  /\ held = [t \in Thread |-> IF t = Creator /\ ~floating THEN 1 ELSE 0]
  /\ queue = [freeze_count |-> 1, pspecs |-> {}]
  /\ unseen = {}
  /\ pc = [t \in Thread |-> IF t = Creator THEN "freeze" ELSE "idle"]
  /\ call = [t \in Thread |-> IF t = Creator THEN "new" ELSE "no"]
  /\ prop = [t \in Thread |-> None]
  /\ nqueue = [t \in Thread |-> "no"]
  /\ pspecs = [t \in Thread |-> {}]
  /\ emitting = [t \in Thread |-> None] /\ state = [t \in Thread |-> "run"]

Goto(t, label) == pc' = [pc EXCEPT ![t] = label]

\* Where a thread is when no call of this object is under way.
Home(t) == IF disposer = t THEN "dispose" ELSE "idle"

AtHome(t) == call[t] = "no" /\ pc[t] = Home(t)

\* What a thread may use: what it holds, the floating object it has made, and
\* the object it disposes of.
MayUse(t) ==
  /\ AtHome(t)
  /\ held[t] > 0 \/ (floating /\ t = Creator) \/ disposer = t

\* The references that threads hold, those of one thread numbered.
References == UNION {{t} \X (1 .. held[t]) : t \in Thread}

Held == Cardinality(References)

-----------------------------------------------------------------------------
(* References *)

\* x_object_ref, which does nothing for an object that is at its end.
Ref == ref_count' = IF ref_count > 0 THEN ref_count + 1 ELSE ref_count

\* x_object_unref by t: the last one disposes of the object.  From here on t
\* goes on at label if it was not.
Unref(t, label) ==
  IF ref_count <= 0 THEN Goto(t, label) /\ UNCHANGED <<ref_count, disposer>>
  ELSE /\ ref_count' = ref_count - 1
       /\ IF ref_count = 1 THEN Goto(t, "dispose") /\ disposer' = t
          ELSE Goto(t, label) /\ UNCHANGED disposer

\* A thread that may use the object references it, for itself or for another.
Share(t, u) ==
  /\ MayUse(t) /\ disposer = None /\ Held < MaxHeld
  /\ Ref /\ held' = [held EXCEPT ![u] = @ + 1]
  /\ UNCHANGED <<floating, end, queue, unseen, local, rounds>>

Release(t) ==
  /\ AtHome(t) /\ held[t] > 0
  /\ held' = [held EXCEPT ![t] = @ - 1]
  /\ Unref(t, "idle")
  /\ UNCHANGED <<floating, freed, queue, unseen, call, prop, nqueue, pspecs, rounds>>

\* x_object_sink: the reference first, then the flag, and whoever cleared it
\* drops the floating reference.
Sink(t) ==
  /\ MayUse(t) /\ disposer = None /\ Held < MaxHeld
  /\ Ref /\ held' = [held EXCEPT ![t] = @ + 1]
  /\ Goto(t, "sink") /\ call' = [call EXCEPT ![t] = "sink"]
  /\ UNCHANGED <<floating, end, queue, unseen, prop, nqueue, pspecs, rounds>>

\* Mutant of Sunk: whether the object was floating is not looked at.
SunkAnyway(t) ==
  /\ pc[t] = "sink"
  /\ floating' = FALSE /\ Goto(t, "drop")
  /\ UNCHANGED <<ref_count, held, call, end, queue, unseen, prop, nqueue, pspecs, rounds>>

Sunk(t) ==
  /\ pc[t] = "sink"
  /\ floating' = FALSE
  /\ IF floating THEN Goto(t, "drop") /\ UNCHANGED call
     ELSE Goto(t, "idle") /\ call' = [call EXCEPT ![t] = "no"]
  /\ UNCHANGED <<ref_count, held, end, queue, unseen, prop, nqueue, pspecs, rounds>>

DropFloating(t) ==
  /\ pc[t] = "drop"
  /\ Unref(t, "idle") /\ call' = [call EXCEPT ![t] = "no"]
  /\ UNCHANGED <<floating, held, freed, queue, unseen, prop, nqueue, pspecs, rounds>>

-----------------------------------------------------------------------------
(* The queue of notifications *)

\* Mutant of SetCall: the call takes no reference of its own.
SetCallUnreferenced(t) ==
  /\ MayUse(t)
  /\ disposer = t /\ queue # None => queue.freeze_count < MaxFreeze
  /\ Goto(t, "freeze") /\ call' = [call EXCEPT ![t] = "set"]
  /\ UNCHANGED <<counts, end, queue, unseen, prop, nqueue, pspecs, rounds>>

\* x_object_set and its like, or x_object_notify after p was changed.
SetCall(t) ==
  /\ MayUse(t)
  /\ disposer = t /\ queue # None => queue.freeze_count < MaxFreeze
  /\ Ref /\ Goto(t, "freeze") /\ call' = [call EXCEPT ![t] = "set"]
  /\ UNCHANGED <<floating, held, end, queue, unseen, prop, nqueue, pspecs, rounds>>

NotifyCall(t, p) ==
  /\ MayUse(t)
  /\ disposer = t /\ queue # None => queue.freeze_count < MaxFreeze
  /\ unseen' = unseen \cup {p} /\ prop' = [prop EXCEPT ![t] = p]
  /\ Ref /\ Goto(t, "freeze") /\ call' = [call EXCEPT ![t] = "notify"]
  /\ UNCHANGED <<floating, held, end, queue, nqueue, pspecs, rounds>>

\* notify_queue_freeze of a thread that asks for a queue in any case.
Freeze(t) ==
  /\ pc[t] = "freeze" /\ call[t] \in {"set", "new"}
  /\ queue' = IF queue = None THEN [freeze_count |-> 1, pspecs |-> {}]
              ELSE [queue EXCEPT !.freeze_count = @ + 1]
  /\ nqueue' = [nqueue EXCEPT ![t] = "this"]
  /\ Goto(t, IF call[t] = "new" THEN "thaw" ELSE "values")
  /\ UNCHANGED <<counts, end, unseen, call, prop, pspecs, rounds>>

\* object_notify_internal: a queue that is there is frozen, or the handlers
\* are called at once.
FreezeThere(t) ==
  /\ pc[t] = "freeze" /\ call[t] = "notify"
  /\ IF queue = None
     THEN /\ pspecs' = [pspecs EXCEPT ![t] = {prop[t]}] /\ prop' = [prop EXCEPT ![t] = None]
          /\ Goto(t, "emit") /\ UNCHANGED <<queue, nqueue>>
     ELSE /\ queue' = [queue EXCEPT !.freeze_count = @ + 1]
          /\ nqueue' = [nqueue EXCEPT ![t] = "this"]
          /\ Goto(t, "add") /\ UNCHANGED <<prop, pspecs>>
  /\ UNCHANGED <<counts, end, unseen, call, rounds>>

\* object_set_param_value, one property after the other.
SetProperty(t, p) ==
  /\ pc[t] = "values"
  /\ unseen' = unseen \cup {p} /\ prop' = [prop EXCEPT ![t] = p]
  /\ Goto(t, "add")
  /\ UNCHANGED <<counts, end, queue, call, nqueue, pspecs, rounds>>

Add(t) ==
  /\ pc[t] = "add"
  /\ queue' = IF queue = None THEN None ELSE [queue EXCEPT !.pspecs = @ \cup {prop[t]}]
  /\ prop' = [prop EXCEPT ![t] = None]
  /\ Goto(t, IF call[t] = "notify" THEN "thaw" ELSE "values")
  /\ UNCHANGED <<counts, end, unseen, call, nqueue, pspecs, rounds>>

Values(t) ==
  /\ pc[t] = "values" /\ Goto(t, "thaw")
  /\ UNCHANGED <<counts, end, queue, unseen, call, prop, nqueue, pspecs, rounds>>

\* What x_object_newv has after its first thaw, and others after their thaw.
Kept(t) == IF call[t] = "new" THEN "this" ELSE "no"

\* The queue leaves qdata and is freed: whoever goes on with it has a dead one.
Unqueue(t) ==
  /\ queue' = None
  /\ nqueue' = [u \in Thread |->
       IF (IF u = t THEN Kept(t) ELSE nqueue[u]) = "no" THEN "no" ELSE "gone"]

\* notify_queue_thaw, which leaves the queue frozen when the object is at its
\* end.  x_object_newv thaws for object_init first, and sets properties then.
Thaw(t) ==
  /\ pc[t] = "thaw" /\ queue # None
  /\ IF ref_count > 0 /\ queue.freeze_count = 1
     THEN Unqueue(t) /\ pspecs' = [pspecs EXCEPT ![t] = queue.pspecs]
     ELSE /\ queue' = IF ref_count > 0 THEN [queue EXCEPT !.freeze_count = @ - 1] ELSE queue
          /\ nqueue' = [nqueue EXCEPT ![t] = Kept(t)]
          /\ UNCHANGED pspecs
  /\ Goto(t, IF call[t] = "new" THEN "values" ELSE "emit")
  /\ call' = [call EXCEPT ![t] = IF @ = "new" THEN "made" ELSE @]
  /\ UNCHANGED <<counts, end, unseen, prop, rounds>>

-----------------------------------------------------------------------------
(* Emissions of "notify" *)

\* Mutant of EmitAgain: the emission of p that is under way is left as it is.
EmitNothing(t, p) ==
  /\ pc[t] = "emit" /\ emitting[t] = None /\ p \in pspecs[t]
  /\ \E u \in Thread : emitting[u] = p
  /\ pspecs' = [pspecs EXCEPT ![t] = @ \ {p}]
  /\ UNCHANGED <<counts, end, queue, unseen, pc, call, prop, nqueue, rounds>>

\* dispatch_properties_changed emits "notify" for p.  The signal does not
\* recurse: the emission of p that is under way is asked to start again.
EmitAgain(t, p) ==
  /\ pc[t] = "emit" /\ emitting[t] = None /\ p \in pspecs[t]
  /\ \E u \in Thread : emitting[u] = p
  /\ pspecs' = [pspecs EXCEPT ![t] = @ \ {p}]
  /\ state' = [u \in Thread |-> IF emitting[u] = p THEN "restart" ELSE state[u]]
  /\ UNCHANGED <<counts, end, queue, unseen, pc, call, prop, nqueue, emitting>>

\* The first emission of p references the object until it is over.
Emit(t, p) ==
  /\ pc[t] = "emit" /\ emitting[t] = None /\ p \in pspecs[t]
  /\ \A u \in Thread : emitting[u] # p
  /\ pspecs' = [pspecs EXCEPT ![t] = @ \ {p}]
  /\ Ref /\ emitting' = [emitting EXCEPT ![t] = p]
  /\ UNCHANGED <<floating, held, end, queue, unseen, pc, call, prop, nqueue, state>>

\* The handler looks at the property, and may give up the reference that the
\* caller holds.
Handle(t) ==
  /\ emitting[t] # None /\ state[t] # "seen"
  /\ unseen' = unseen \ {emitting[t]}
  /\ state' = [state EXCEPT ![t] = IF @ = "run" THEN "seen" ELSE @]
  /\ \/ UNCHANGED <<pc, ref_count, held, disposer>>
     \/ /\ call[t] # "made" /\ held[t] > 0
        /\ held' = [held EXCEPT ![t] = @ - 1]
        /\ Unref(t, "emit")
  /\ UNCHANGED <<floating, freed, queue, call, prop, nqueue, pspecs, emitting>>

\* A round is over, and another was asked for.
Restart(t) ==
  /\ emitting[t] # None /\ state[t] = "restart"
  /\ state' = [state EXCEPT ![t] = "run"]
  /\ UNCHANGED <<counts, end, queue, unseen, local, emitting>>

Emitted(t) ==
  /\ emitting[t] # None /\ state[t] = "seen"
  /\ emitting' = [emitting EXCEPT ![t] = None] /\ state' = [state EXCEPT ![t] = "run"]
  /\ Unref(t, "emit")
  /\ UNCHANGED <<floating, held, freed, queue, unseen, call, prop, nqueue, pspecs>>

\* The call gives back its own reference; x_object_newv has none.
Return(t) ==
  /\ pc[t] = "emit" /\ pspecs[t] = {} /\ emitting[t] = None
  /\ call' = [call EXCEPT ![t] = "no"]
  /\ IF call[t] = "made" THEN Goto(t, Home(t)) /\ UNCHANGED <<ref_count, disposer>>
     ELSE Unref(t, Home(t))
  /\ UNCHANGED <<floating, held, freed, queue, unseen, prop, nqueue, pspecs, rounds>>

-----------------------------------------------------------------------------
(* The end *)

\* dispose is over: finalize takes all of qdata.
Finalize(t) ==
  /\ disposer = t /\ pc[t] = "dispose"
  /\ Unqueue(t) /\ Goto(t, "delete")
  /\ UNCHANGED <<counts, end, unseen, call, prop, pspecs, rounds>>

Delete(t) ==
  /\ pc[t] = "delete"
  /\ freed' = TRUE
  /\ Goto(t, IF call[t] = "no" THEN "idle" ELSE "emit")
  /\ disposer' = None
  /\ UNCHANGED <<counts, queue, unseen, call, prop, nqueue, pspecs, rounds>>

-----------------------------------------------------------------------------
Next ==
  \E t \in Thread :
    \/ \E u \in Thread : Share(t, u)
    \/ Release(t) \/ Sink(t) \/ Sunk(t) \/ DropFloating(t)
    \/ SetCall(t) \/ \E p \in Prop : NotifyCall(t, p)
    \/ Freeze(t) \/ FreezeThere(t) \/ \E p \in Prop : SetProperty(t, p)
    \/ Add(t) \/ Values(t) \/ Thaw(t)
    \/ \E p \in Prop : EmitAgain(t, p) \/ Emit(t, p)
    \/ Handle(t) \/ Restart(t) \/ Emitted(t) \/ Return(t)
    \/ Finalize(t) \/ Delete(t)

Spec == Init /\ [][Next]_vars

-----------------------------------------------------------------------------
(* Properties *)

TypeOK ==
  /\ ref_count \in Nat /\ floating \in BOOLEAN /\ freed \in BOOLEAN
  /\ held \in [Thread -> Nat] /\ disposer \in Thread \cup {None}
  /\ queue = None \/ queue \in [freeze_count : Nat \ {0}, pspecs : SUBSET Prop]
  /\ unseen \subseteq Prop
  /\ pc \in [Thread -> {"idle", "sink", "drop", "freeze", "values", "add", "thaw", "emit",
                       "dispose", "delete"}]
  /\ call \in [Thread -> {"no", "new", "made", "sink", "set", "notify"}]
  /\ prop \in [Thread -> Prop \cup {None}] /\ pspecs \in [Thread -> SUBSET Prop]
  /\ nqueue \in [Thread -> {"no", "this", "gone"}]
  /\ emitting \in [Thread -> Prop \cup {None}]
  /\ state \in [Thread -> {"run", "seen", "restart"}]

\* The calls that have a reference of their own, the emissions that have one,
\* and the floating reference on its way to be dropped.
Calling  == {t \in Thread : call[t] \in {"set", "notify"}}
Emitting == {t \in Thread : emitting[t] # None}
Dropping == {t \in Thread : pc[t] = "drop"}

\* The calls that have frozen the queue, once or, in x_object_newv, twice.
Freezing == {t \in Thread : nqueue[t] = "this"}
Making   == {t \in Thread : call[t] = "new"}

Claims  == Held + Cardinality(Calling) + Cardinality(Emitting) + Cardinality(Dropping)
           + (IF floating THEN 1 ELSE 0)
Freezes == Cardinality(Freezing) + Cardinality(Making)

\* The object is disposed of, or was deleted.
AtEnd == disposer # None \/ freed

\* Until its end the object counts what the threads hold, what their calls and
\* emissions took, and the floating reference, which two threads that sink it
\* at once drop once; its queue counts the calls that have frozen it.  At its
\* end the count is 0, and stays so whatever dispose calls.
CountsExact ==
  /\ TypeOK
  /\ IF AtEnd THEN ref_count = 0
     ELSE /\ ref_count = Claims
          /\ (IF queue = None THEN 0 ELSE queue.freeze_count) = Freezes

\* No thread is in a call of an object that was deleted, or holds it, although
\* a handler may drop the reference of its caller; and no thread has a queue
\* that another has freed.
NothingGone ==
  /\ \A t \in Thread : nqueue[t] # "gone"
  /\ freed => \A t \in Thread : call[t] = "no" /\ held[t] = 0

\* A change that the handler has not seen is on its way to it: in the hands of
\* the thread that made it, in the queue, in what a thread took from it, or in
\* an emission that has yet to call the handler or was asked to start again.
NotLost ==
  ~AtEnd =>
    \A p \in unseen :
      \/ queue # None /\ p \in queue.pspecs
      \/ \E t \in Thread :
           \/ p = prop[t] \/ p \in pspecs[t]
           \/ p = emitting[t] /\ state[t] # "seen"
=============================================================================
