---------------------------- MODULE MainSources ----------------------------
(***************************************************************************)
(* The sources of an xMainContext (xos/src/xmain.c): the lists by          *)
(* priority, their reference counts, and a round of the thread that owns   *)
(* the context: prepare, poll, check, dispatch.  The callback of a source  *)
(* may run a nested round; meanwhile, and whenever the owner calls a       *)
(* source's function with the lock released, another thread attaches,      *)
(* moves and releases sources.  Who the owner is belongs to MainContext.   *)
(*                                                                         *)
(* A source has no descriptors and no children, as in MainContext, and its *)
(* X_SOURCE_BLOCKED is never set: nothing sets X_SOURCE_CAN_RECURSE, which *)
(* main_dispatch_L asks for before it blocks a source.                     *)
(***************************************************************************)
EXTENDS Integers, Sequences, FiniteSets

CONSTANTS
  Source,
  Priority,         \* of the sources, the smaller the more urgent
  None,
  MaxDepth,         \* bound: rounds inside callbacks
  Reprioritise      \* priorities change while the owner walks the lists, too

ASSUME SourcesAssumption ==
  /\ IsFiniteSet(Source) /\ Priority \subseteq Nat /\ IsFiniteSet(Priority)
  /\ None \notin Source \cup Priority
  /\ MaxDepth \in Nat \ {0} /\ Reprioritise \in BOOLEAN

VARIABLES
  src,              \* the fields of each xSource
  lists,            \* context->source_lists: for each priority its SourceList
  dispatches,       \* context->dispatches
  held,             \* the sources whose creator still has its reference
  pc,               \* where the owner is
  iter,             \* its xSourceIter, with n_ready and max_priority
  next,             \* its index in dispatches
  calls             \* the dispatches it is in, outermost first

vars == <<src, lists, dispatches, held, pc, iter, next, calls>>

NoIter == [source |-> None, list |-> None, lost |-> FALSE, n_ready |-> 0,
           max |-> 0]

TypeOK ==
  /\ src \in [Source -> [state : {"new", "live", "freed"}, refs : Nat,
                         priority : Priority, active : BOOLEAN,
                         ready : BOOLEAN]]
  /\ lists \in [Priority -> Seq(Source)]
  /\ dispatches \in Seq(Source \cup {None})
  /\ held \subseteq Source
  /\ pc \in {"user", "drop", "prepare", "prepare()", "poll", "check", "check()",
             "checked", "dispatch", "destroy()"}
  /\ iter \in [source : Source \cup {None}, list : Priority \cup {None},
               lost : BOOLEAN, n_ready : Nat, max : Nat]
  /\ next \in Nat
  /\ calls \in Seq([source : Source, next : Nat])

Init ==
  /\ src \in [Source -> [state : {"new"}, refs : {0}, priority : Priority,
                         active : {TRUE}, ready : {FALSE}]]
  /\ lists = [p \in Priority |-> << >>]
  /\ dispatches = << >> /\ held = {}
  /\ pc = "user" /\ iter = NoIter /\ next = 1 /\ calls = << >>

-----------------------------------------------------------------------------
(* Sources and their lists *)

\* The owner holds the context's lock.
Locked == pc \in {"drop", "prepare", "check", "dispatch"}

IndexIn(list, s) == CHOOSE i \in DOMAIN list : list[i] = s

Without(list, s) ==
  SubSeq(list, 1, IndexIn(list, s) - 1) \o SubSeq(list, IndexIn(list, s) + 1, Len(list))

\* source_remove_from_context: a list that becomes empty is freed, also under
\* an iterator that stands on it.
Unlinked(s) == [lists EXCEPT ![src[s].priority] = Without(@, s)]
LosesList(s) == iter.list = src[s].priority /\ Unlinked(s)[src[s].priority] = << >>

\* Mutant: the freed source is not taken out of its list.
UnrefLinked(s, n) ==
  /\ src' = [src EXCEPT ![s].refs = @ - n,
                        ![s].state = IF src[s].refs > n THEN @ ELSE "freed"]
  /\ UNCHANGED lists

\* SOURCE_UNREF, n times at once; the last reference takes the source out of
\* its list and frees it.
Unref(s, n) ==
  IF src[s].refs > n
    THEN /\ src' = [src EXCEPT ![s].refs = @ - n]
         /\ UNCHANGED lists
    ELSE /\ src' = [src EXCEPT ![s].refs = @ - n, ![s].state = "freed"]
         /\ lists' = Unlinked(s)

-----------------------------------------------------------------------------
(* What another thread, or a callback, does; each takes the lock *)

\* x_source_new, x_source_set_priority and x_source_attach of a source nobody
\* else knows before.
Attach(s) ==
  /\ ~Locked /\ src[s].state = "new"
  /\ src' = [src EXCEPT ![s].state = "live", ![s].refs = 2]
  /\ held' = held \cup {s}
  /\ lists' = [lists EXCEPT ![src[s].priority] = Append(@, s)]
  /\ UNCHANGED <<dispatches, pc, iter, next, calls>>

SetPriority(s, p) ==
  /\ ~Locked /\ s \in held
  /\ Reprioritise \/ pc \notin {"prepare()", "check()"}
  /\ src' = [src EXCEPT ![s].priority = p]
  /\ lists' = [Unlinked(s) EXCEPT ![p] = Append(@, s)]
  /\ iter' = [iter EXCEPT !.lost = @ \/ LosesList(s)]
  /\ UNCHANGED <<dispatches, held, pc, next, calls>>

\* x_source_unref of the creator's reference.
Release(s) ==
  /\ ~Locked /\ s \in held
  /\ held' = held \ {s}
  /\ Unref(s, 1)
  /\ UNCHANGED <<dispatches, pc, iter, next, calls>>

-----------------------------------------------------------------------------
(* source_iter_next_L *)

\* source->priv->next.
Successor(s) ==
  LET list == lists[src[s].priority]
      i == IndexIn(list, s)
  IN  IF i < Len(list) THEN list[i + 1] ELSE None

\* The first SourceList after priority p.
NextList(p) ==
  LET after == {q \in Priority : lists[q] # << >> /\ (p = None \/ q > p)}
  IN  IF after = {} THEN None ELSE CHOOSE q \in after : \A r \in after : q <= r

\* The iterator moves on, its reference with it.  What follows from a list
\* that is gone is not modelled.
Advanced ==
  LET same == iter.source # None /\ Successor(iter.source) # None
      list == IF same THEN iter.list ELSE NextList(iter.list)
      s == IF same THEN Successor(iter.source)
           ELSE IF list = None THEN None ELSE Head(lists[list])
  IN  [iter EXCEPT !.source = s, !.list = list]

CanAdvance ==
  ~iter.lost \/ (iter.source # None /\ Successor(iter.source) # None)

\* References when the iterator leaves one source for another.
MovedRefs(from, to) ==
  [s \in Source |-> [src[s] EXCEPT !.refs =
     @ - (IF s = from THEN 1 ELSE 0) + (IF s = to THEN 1 ELSE 0)]]

\* Mutant: ">=" for ">".
EndsEarly(it) ==
  \/ it.source = None
  \/ /\ it.source # None /\ src[it.source].active
     /\ it.n_ready > 0 /\ src[it.source].priority >= it.max

\* The walk is over: no source is left, or it is below those found ready.
Ends(it) ==
  \/ it.source = None
  \/ /\ it.source # None /\ src[it.source].active
     /\ it.n_ready > 0 /\ src[it.source].priority > it.max

Counted(it) == [it EXCEPT !.n_ready = @ + 1, !.max = src[it.source].priority]

-----------------------------------------------------------------------------
(* main_context_prepare_U *)

\* A nested round drops the dispatches that are left.
PrepareBegin ==
  /\ pc = "user" /\ Len(calls) < MaxDepth
  /\ pc' = "drop" /\ next' = 1
  /\ UNCHANGED <<src, lists, dispatches, held, iter, calls>>

PrepareDrop ==
  /\ pc = "drop"
  /\ \/ /\ next <= Len(dispatches) /\ next' = next + 1
        /\ dispatches' = [dispatches EXCEPT ![next] = None]
        /\ \/ dispatches[next] # None /\ Unref(dispatches[next], 1)
           \/ dispatches[next] = None /\ UNCHANGED <<src, lists>>
        /\ UNCHANGED <<pc, iter>>
     \/ /\ next > Len(dispatches)
        /\ dispatches' = << >>
        /\ iter' = NoIter /\ pc' = "prepare"
        /\ UNCHANGED <<src, lists, next>>
  /\ UNCHANGED <<held, calls>>

PrepareNext ==
  /\ pc = "prepare" /\ CanAdvance
  /\ LET it == Advanced
         s == it.source
         stop == Ends(it)
         to == IF stop THEN None ELSE s
     IN  /\ src' = MovedRefs(iter.source, to)
         /\ \/ /\ stop
               /\ pc' = "poll" /\ iter' = [it EXCEPT !.source = None]
            \/ /\ ~stop /\ src[s].active /\ ~src[s].ready
               /\ pc' = "prepare()" /\ iter' = it
            \/ /\ ~stop /\ ~(src[s].active /\ ~src[s].ready)
               /\ UNCHANGED pc
               /\ iter' = IF src[s].active THEN Counted(it) ELSE it
  /\ UNCHANGED <<lists, dispatches, held, next, calls>>

PrepareReturns(ready) ==
  /\ pc = "prepare()" /\ pc' = "prepare"
  /\ src' = [src EXCEPT ![iter.source].ready = ready]
  /\ iter' = IF ready THEN Counted(iter) ELSE iter
  /\ UNCHANGED <<lists, dispatches, held, next, calls>>

-----------------------------------------------------------------------------
(* main_context_check_U *)

\* After the poll.
CheckBegin ==
  /\ pc = "poll" /\ pc' = "check"
  /\ iter' = [NoIter EXCEPT !.max = iter.max]
  /\ UNCHANGED <<src, lists, dispatches, held, next, calls>>

\* A ready source is appended, with a reference of its own.
Chosen(s) == dispatches' = Append(dispatches, s)

CheckNext ==
  /\ pc = "check" /\ CanAdvance
  /\ LET it == Advanced
         s == it.source
         stop == Ends(it)
         chosen == ~stop /\ src[s].active /\ src[s].ready
         to == IF stop THEN None ELSE s
         moved == MovedRefs(iter.source, to)
     IN  \/ /\ stop
            /\ src' = moved
            /\ pc' = "checked" /\ iter' = NoIter
            /\ UNCHANGED dispatches
         \/ /\ chosen
            /\ src' = [moved EXCEPT ![s].refs = @ + 1]
            /\ Chosen(s)
            /\ iter' = Counted(it)
            /\ UNCHANGED pc
         \/ /\ ~stop /\ ~chosen
            /\ src' = moved
            /\ iter' = it
            /\ pc' = IF src[s].active THEN "check()" ELSE pc
            /\ UNCHANGED dispatches
  /\ UNCHANGED <<lists, held, next, calls>>

CheckReturns(ready) ==
  /\ pc = "check()" /\ pc' = "check"
  /\ IF ready
       THEN /\ src' = [src EXCEPT ![iter.source].ready = TRUE,
                                  ![iter.source].refs = @ + 1]
            /\ Chosen(iter.source)
            /\ iter' = Counted(iter)
       ELSE UNCHANGED <<src, dispatches, iter>>
  /\ UNCHANGED <<lists, held, next, calls>>

-----------------------------------------------------------------------------
(* main_dispatch_L *)

DispatchBegin ==
  /\ pc = "checked" /\ pc' = "dispatch"
  /\ next' = 1
  /\ UNCHANGED <<src, lists, dispatches, held, iter, calls>>

DispatchNext ==
  /\ pc = "dispatch" /\ next <= Len(dispatches)
  /\ LET s == dispatches[next]
     IN  /\ dispatches' = [dispatches EXCEPT ![next] = None]
         /\ IF src[s].active
              THEN /\ src' = [src EXCEPT ![s].ready = FALSE]
                   /\ pc' = "user"
                   /\ calls' = Append(calls, [source |-> s, next |-> next])
                   /\ UNCHANGED <<lists, next>>
              ELSE /\ Unref(s, 1)
                   /\ next' = next + 1
                   /\ UNCHANGED <<pc, calls>>
  /\ UNCHANGED <<held, iter>>

\* Mutant: "context->dispatches->len = 0" is missing.
DispatchEndKeeps ==
  /\ pc = "dispatch" /\ next > Len(dispatches)
  /\ pc' = "user"
  /\ UNCHANGED <<src, lists, dispatches, held, iter, next, calls>>

DispatchEnd ==
  /\ pc = "dispatch" /\ next > Len(dispatches)
  /\ dispatches' = << >>
  /\ pc' = "user"
  /\ UNCHANGED <<src, lists, held, iter, next, calls>>

\* The dispatch being left.
Call == calls[Len(calls)]
LeaveCall ==
  /\ calls' = SubSeq(calls, 1, Len(calls) - 1)
  /\ next' = Call.next + 1
  /\ pc' = "dispatch"

\* The callback returns.  A source that is not wanted again is destroyed; its
\* callback is released first, without the lock.
CallReturns(again) ==
  /\ pc = "user" /\ calls # << >>
  /\ IF again \/ ~src[Call.source].active
       THEN Unref(Call.source, 1) /\ LeaveCall
       ELSE /\ src' = [src EXCEPT ![Call.source].active = FALSE]
            /\ pc' = "destroy()"
            /\ UNCHANGED <<lists, calls, next>>
  /\ UNCHANGED <<dispatches, held, iter>>

\* The rest of source_destroy_internal, and SOURCE_UNREF.
DestroyEnd ==
  /\ pc = "destroy()"
  /\ Unref(Call.source, 2) /\ LeaveCall
  /\ UNCHANGED <<dispatches, held, iter>>

-----------------------------------------------------------------------------

OwnerStep ==
  \/ PrepareDrop \/ PrepareNext \/ CheckBegin \/ CheckNext
  \/ \E ready \in BOOLEAN : PrepareReturns(ready) \/ CheckReturns(ready)
  \/ DispatchBegin \/ DispatchNext \/ DispatchEnd
  \/ \E again \in BOOLEAN : CallReturns(again)
  \/ DestroyEnd

OtherStep ==
  \E s \in Source :
    Attach(s) \/ Release(s) \/ \E p \in Priority : SetPriority(s, p)

Next == PrepareBegin \/ OwnerStep \/ OtherStep

Spec == Init /\ [][Next]_vars

\* The loop runs round after round, and every function it calls returns.
FairSpec == Spec /\ WF_vars(OwnerStep) /\ WF_vars(PrepareBegin /\ calls = << >>)

-----------------------------------------------------------------------------
(* Properties *)

Count(b) == IF b THEN 1 ELSE 0

Pending(s) == Cardinality({i \in DOMAIN dispatches : dispatches[i] = s})

\* A source's ref_count is the number of those who refer to it: its creator,
\* the context while it is not destroyed, the iterator, each entry of
\* dispatches and each dispatch that is under way.
RefsExact ==
  \A s \in Source : src[s].state = "live" =>
    src[s].refs = Count(s \in held) + Count(iter.source = s) + Pending(s)
      + Cardinality({i \in DOMAIN calls : calls[i].source = s})
      + Count(src[s].active \/ (pc = "destroy()" /\ Call.source = s))

\* No freed source is in a list, in dispatches, under the iterator or in a
\* dispatch that goes on after its callback, whatever nested rounds and the
\* other thread have released meanwhile.
NoFreedSource ==
  \A s \in Source : src[s].state = "freed" =>
    /\ \A p \in Priority : s \notin {lists[p][i] : i \in DOMAIN lists[p]}
    /\ Pending(s) = 0 /\ iter.source # s
    /\ \A i \in DOMAIN calls : calls[i].source # s

\* A source lives as long as anyone refers to it, over nested rounds.
SourcesExact == TypeOK /\ RefsExact /\ NoFreedSource

\* A source that is not freed is in the list of its priority, once, and in no
\* other, so the round visits it: priorities change while it is in use.
ListedOnce ==
  \A s \in Source : \A p \in Priority :
    Cardinality({i \in DOMAIN lists[p] : lists[p][i] = s}) =
      Count(src[s].state = "live" /\ src[s].priority = p)

\* What main_dispatch_L asserts of the entry it takes ("x_assert (source)"),
\* and the entry is ready: nested rounds empty the array under the outer one.
DispatchesReady ==
  pc = "dispatch" => \A i \in next .. Len(dispatches) :
    dispatches[i] # None /\ (src[dispatches[i]].active => src[dispatches[i]].ready)

\* The lists and the array that a round goes through hold what they should,
\* although nested rounds and the other thread change them under it.
ListsExact == ListedOnce /\ DispatchesReady

\* A source that is ready is dispatched, even if a nested round has dropped it
\* from dispatches, unless sources of another priority keep it waiting.
ReadyIsDispatched ==
  \A s \in Source :
    src[s].ready /\ src[s].active /\ (\A r \in Source : src[r].priority = src[s].priority)
      ~> \/ ~src[s].ready \/ ~src[s].active
         \/ \E r \in Source : src[r].priority # src[s].priority

\* main_context_check_U: "never dispatch sources with less priority than the
\* first one we choose to dispatch".  It holds as long as no priority changes
\* while check() runs without the lock (Reprioritise is FALSE).
NeverLessPriority ==
  [][\A s \in Source :
       /\ pc \in {"check", "check()"} /\ dispatches # << >>
       /\ dispatches' = Append(dispatches, s)
       => src[s].priority <= iter.max]_vars

\* source_iter_next_L: "we have to keep it reffed until after we advance
\* iter->current_list", so that the SourceList under the iterator is not
\* removed.
IteratorKeepsList == ~iter.lost

-----------------------------------------------------------------------------
(* The inductive invariant *)

InCalls(s) == Cardinality({i \in DOMAIN calls : calls[i].source = s})

\* The context has a reference of its own.
Owned(s) ==
  src[s].state = "live" /\ (src[s].active \/ (pc = "destroy()" /\ Call.source = s))

\* The counts, of sources that are new or freed as well.
CountInv ==
  \A s \in Source :
    /\ src[s].refs = Count(s \in held) + Count(iter.source = s) + Pending(s)
         + InCalls(s) + Count(Owned(s))
    /\ src[s].state = "live" <=> src[s].refs > 0
    /\ src[s].state = "new" => src[s].active

\* A list has the live sources of its priority, each in one place.
ListInv ==
  \A p \in Priority :
    /\ \A i, j \in 1 .. Len(lists[p]) : lists[p][i] = lists[p][j] => i = j
    /\ \A s \in Source : (\E i \in 1 .. Len(lists[p]) : lists[p][i] = s) <=>
         src[s].state = "live" /\ src[s].priority = p

\* What the owner has in its hands where it is: the iterator's reference is not
\* the last one, not even of a source that was destroyed.
PlaceInv ==
  /\ iter.source # None =>
       /\ pc \in {"prepare", "prepare()", "check", "check()"}
       /\ src[iter.source].refs > 1
  /\ pc \in {"prepare()", "check()"} => iter.source # None /\ src[iter.source].active
  /\ pc = "destroy()" => calls # << >> /\ ~src[Call.source].active
  /\ pc = "user" /\ calls = << >> => dispatches = << >>
  /\ pc \in {"prepare", "prepare()", "poll"} => dispatches = << >>
  /\ next >= 1

\* The first entry of dispatches that has not been taken.
From ==
  CASE pc \in {"drop", "dispatch"} -> next
    [] pc \in {"user", "destroy()"} /\ calls # << >> -> Call.next + 1
    [] OTHER -> 1

\* The entries that were taken are empty, and the others are not.
EntryInv ==
  \A i \in 1 .. Len(dispatches) :
    /\ i < From => dispatches[i] = None
    /\ i >= From /\ pc # "drop" => dispatches[i] # None

IInv == TypeOK /\ CountInv /\ ListInv /\ PlaceInv /\ EntryInv

\* A walk comes to r before it comes to s.
Before(r, s) ==
  \/ src[r].priority < src[s].priority
  \/ /\ src[r].priority = src[s].priority
     /\ LET list == lists[src[s].priority]
        IN  \E i, j \in 1 .. Len(list) : i < j /\ list[i] = r /\ list[j] = s

\* The walk of main_context_check_U has passed s.
Passed(s) ==
  iter.source # None /\ ((s = iter.source /\ pc = "check") \/ Before(s, iter.source))

\* As long as no priority changes while check() runs: what the walk has chosen
\* lies behind it, and is not less urgent than what it comes to.
WalkInv ==
  pc \in {"check", "check()"} =>
    /\ \A i \in 1 .. Len(dispatches) : Passed(dispatches[i])
    /\ iter.source # None => iter.list = src[iter.source].priority
    /\ dispatches # << >> => iter.n_ready > 0
    /\ pc = "check()" /\ iter.n_ready > 0 => src[iter.source].priority <= iter.max

\* What was chosen stays ready until it is taken, for it is chosen once.
QueueInv ==
  pc # "drop" => \A i \in 1 .. Len(dispatches) : i >= From =>
    /\ src[dispatches[i]].active => src[dispatches[i]].ready
    /\ \A j \in 1 .. Len(dispatches) : dispatches[j] = dispatches[i] => j = i

ChosenInv == WalkInv /\ QueueInv
=============================================================================
