------------------------------ MODULE DataList ------------------------------
(***************************************************************************)
(* The list of keyed data of an object (xos/src/xdata.c) as the object     *)
(* uses it (xts/src/xobject.c): the queue of its notifications, which is   *)
(* looked for and changed under the mutex notify_queue, its weak           *)
(* references, under weak_refs_mutex, and the floating flag in the low     *)
(* bits of the pointer to the list, without a mutex.                       *)
(*                                                                         *)
(* x_ptr_bit_lock and x_ptr_bit_unlock, with which xdata.c would keep two  *)
(* threads apart, are empty (xos/src/xbit.c), so that every access to what *)
(* the threads share is a step of its own; a loop over the entries is one  *)
(* step.  met counts the operations on the list that were begun while      *)
(* another was under way.  What the program does once it has used freed    *)
(* memory, or written beyond a block, is not defined: every thread is then *)
(* "lost", and the model ends.                                             *)
(***************************************************************************)
EXTENDS Integers, Sequences, SequencesExt, FiniteSets

CONSTANTS
  Thread,
  Loc,              \* locations of weak pointers to the object
  Block,            \* addresses of xDataList
  Data,             \* addresses of NotifyQueue and WeakRefStack
  MaxWeak,          \* bound: entries in a list of weak references
  MaxMet,           \* bound: operations begun while another is under way
  None

ASSUME DataListAssumption ==
  /\ None \notin Thread \cup Block \cup Data
  /\ MaxWeak \in Nat /\ MaxMet \in Nat

VARIABLES
  qdata,            \* the pointer to the list, and the floating flag
  blocks,           \* the xDataList at each address, or None
  used,             \* the Data that is allocated
  freeze_count,     \* of the queues in it
  weak_refs,        \* of the stacks in it
  points,           \* the locations that hold the address of the object
  lock,             \* who holds notify_queue and weak_refs_mutex
  nqueue,           \* the queue that each thread has frozen
  sunk,             \* how often a sink has found the flag set
  ended,            \* finalize has run
  pc, call,         \* where each thread is, in which call
  op,               \* the operation on the list: "get", "remove" or "set"
  loc,              \* the location it adds or removes
  d,                \* the block it works on
  data,             \* what it has found, or sets
  old,              \* what it has read of qdata, _oldv
  met

list  == <<qdata, blocks>>
heap  == <<used, freeze_count, weak_refs, points>>
ghost == <<sunk, ended, met>>
hand  == <<loc, d, data, old>>
vars  == <<list, heap, lock, nqueue, ghost, pc, call, op, hand>>

Mutex == {"queue", "weak"}

Init ==
  /\ qdata = [ptr |-> None, floating |-> TRUE]
  /\ blocks = [b \in Block |-> None] /\ used = {}
  /\ freeze_count = [x \in Data |-> 0] /\ weak_refs = [x \in Data |-> <<>>] /\ points = {}
  /\ lock = [m \in Mutex |-> None] /\ nqueue = [t \in Thread |-> None]
  /\ sunk = 0 /\ ended = FALSE /\ met = 0
  /\ pc = [t \in Thread |-> "idle"] /\ call = [t \in Thread |-> "no"]
  /\ op = [t \in Thread |-> "no"] /\ loc = [t \in Thread |-> None]
  /\ d = [t \in Thread |-> None] /\ data = [t \in Thread |-> None]
  /\ old = [t \in Thread |-> None]

Goto(t, label) == pc' = [pc EXCEPT ![t] = label]

\* The key that t's call is about, which is also the mutex it takes.
Key(t) == IF call[t] \in {"freeze", "thaw"} THEN "queue" ELSE "weak"

\* A thread in data_list_set_internal or x_data_list_id_dup_data.
InList == {t \in Thread : pc[t] \notin {"idle", "done"} /\ call[t] # "sink"}

\* Who goes into the list marks that another is there.
Meet == IF InList = {} THEN UNCHANGED met ELSE met < MaxMet /\ met' = met + 1

\* xs is given back, with what is in it.
Freed(xs) ==
  /\ used' = used \ xs
  /\ freeze_count' = [x \in Data |-> IF x \in xs THEN 0 ELSE freeze_count[x]]
  /\ weak_refs' = [x \in Data |-> IF x \in xs THEN <<>> ELSE weak_refs[x]]

-----------------------------------------------------------------------------
(* Calls of the object *)

\* t takes the mutex m and begins with operation what on the list.
Enter(t, m, c, what) ==
  /\ lock[m] = None /\ lock' = [lock EXCEPT ![m] = t]
  /\ call' = [call EXCEPT ![t] = c] /\ op' = [op EXCEPT ![t] = what]
  /\ Goto(t, "look") /\ Meet

\* The mutex is given back.
Leave(t) ==
  /\ lock' = [lock EXCEPT ![Key(t)] = None]
  /\ call' = [call EXCEPT ![t] = "no"] /\ op' = [op EXCEPT ![t] = "no"]
  /\ Goto(t, "idle")
  /\ loc' = [loc EXCEPT ![t] = None] /\ d' = [d EXCEPT ![t] = None]
  /\ data' = [data EXCEPT ![t] = None] /\ old' = [old EXCEPT ![t] = None]

\* The call goes on with another operation, which sets x.
Then(t, x) ==
  /\ op' = [op EXCEPT ![t] = "set"] /\ Goto(t, "look") /\ Meet
  /\ data' = [data EXCEPT ![t] = x]
  /\ UNCHANGED <<lock, call, loc, d, old>>

\* notify_queue_freeze, of a thread that has not frozen the queue.
Freeze(t) ==
  /\ pc[t] = "idle" /\ nqueue[t] = None /\ ~ended
  /\ Enter(t, "queue", "freeze", "get")
  /\ UNCHANGED <<list, heap, nqueue, sunk, ended, hand>>

\* A queue that is not there is made, and put into the list.
MakeQueue(t) ==
  /\ pc[t] = "done" /\ call[t] = "freeze" /\ data[t] = None
  /\ \E x \in Data \ used : used' = used \cup {x} /\ Then(t, x)
  /\ UNCHANGED <<list, freeze_count, weak_refs, points, nqueue, sunk, ended>>

Frozen(t) ==
  /\ pc[t] = "done" /\ call[t] = "freeze" /\ data[t] \in used
  /\ freeze_count' = [freeze_count EXCEPT ![data[t]] = @ + 1]
  /\ nqueue' = [nqueue EXCEPT ![t] = data[t]]
  /\ Leave(t)
  /\ UNCHANGED <<list, used, weak_refs, points, ghost>>

\* notify_queue_thaw: the last one removes the queue from the list.
Thaw(t) ==
  /\ pc[t] = "idle" /\ nqueue[t] \in used /\ lock["queue"] = None
  /\ nqueue' = [nqueue EXCEPT ![t] = None]
  /\ freeze_count' = [freeze_count EXCEPT ![nqueue[t]] = IF @ = 0 THEN 0 ELSE @ - 1]
  /\ IF freeze_count[nqueue[t]] = 1 THEN Enter(t, "queue", "thaw", "remove")
     ELSE UNCHANGED <<lock, call, op, pc, met>>
  /\ UNCHANGED <<list, used, weak_refs, points, sunk, ended, hand>>

\* What was removed is freed.
Thawed(t) ==
  /\ pc[t] = "done" /\ call[t] = "thaw" /\ data[t] \in used \cup {None}
  /\ Freed({data[t]})
  /\ Leave(t)
  /\ UNCHANGED <<list, points, nqueue, ghost>>

\* x_object_weak_ref takes the stack out of the list, adds l and puts it back.
WeakRef(t, l) ==
  /\ pc[t] = "idle" /\ ~ended /\ \A x \in used : Len(weak_refs[x]) < MaxWeak
  /\ points' = points \cup {l} /\ loc' = [loc EXCEPT ![t] = l]
  /\ Enter(t, "weak", "ref", "remove")
  /\ UNCHANGED <<list, used, freeze_count, weak_refs, nqueue, sunk, ended, d, data, old>>

AddRef(t) ==
  /\ pc[t] = "done" /\ call[t] = "ref" /\ op[t] = "remove"
  /\ \/ /\ data[t] \in used
        /\ weak_refs' = [weak_refs EXCEPT ![data[t]] = Append(@, loc[t])]
        /\ Then(t, data[t]) /\ UNCHANGED used
     \/ /\ data[t] = None
        /\ \E x \in Data \ used : /\ used' = used \cup {x}
                                  /\ weak_refs' = [weak_refs EXCEPT ![x] = <<loc[t]>>]
                                  /\ Then(t, x)
  /\ UNCHANGED <<list, freeze_count, points, nqueue, sunk, ended>>

Added(t) ==
  /\ pc[t] = "done" /\ call[t] = "ref" /\ op[t] = "set"
  /\ Leave(t)
  /\ UNCHANGED <<list, heap, nqueue, ghost>>

\* x_object_weak_unref, and the location is cleared by who owns it.
WeakUnref(t, l) ==
  /\ pc[t] = "idle" /\ ~ended /\ l \in points
  /\ loc' = [loc EXCEPT ![t] = l]
  /\ Enter(t, "weak", "unref", "get")
  /\ UNCHANGED <<list, heap, nqueue, sunk, ended, d, data, old>>

\* Mutant of Unlisted: the gap is not closed.
UnlistedTail(refs, i) ==
  SubSeq(refs, 1, Len(refs) - 1)

\* The gap at i is closed with the last entry.
Unlisted(refs, i) ==
  [j \in 1 .. Len(refs) - 1 |-> IF j = i THEN refs[Len(refs)] ELSE refs[j]]

Removed(t) ==
  /\ pc[t] = "done" /\ call[t] = "unref"
  /\ \/ /\ data[t] \in used
        /\ LET refs == weak_refs[data[t]]
               at   == {i \in 1 .. Len(refs) : refs[i] = loc[t]}
           IN  weak_refs' = [weak_refs EXCEPT ![data[t]] =
                 IF at = {} THEN refs
                 ELSE Unlisted(refs, CHOOSE i \in at : \A j \in at : i <= j)]
     \/ data[t] = None /\ UNCHANGED weak_refs
  /\ points' = points \ {loc[t]}
  /\ Leave(t)
  /\ UNCHANGED <<list, used, freeze_count, nqueue, ghost>>

\* x_object_sink: object_floating clears the flag with a compare-and-swap.
Sink(t) ==
  /\ pc[t] = "idle" /\ ~ended
  /\ call' = [call EXCEPT ![t] = "sink"] /\ Goto(t, "load")
  /\ UNCHANGED <<list, heap, lock, nqueue, ghost, op, hand>>

-----------------------------------------------------------------------------
(* The list *)

\* The block that t works on is there.
Sound(t) == d[t] # None => blocks[d[t]] # None

\* The entry of key k in block b, 0 when there is none.
Entry(b, k) ==
  LET at == {i \in 1 .. b.len : b.data[i].key = k}
  IN  IF at = {} THEN 0 ELSE CHOOSE i \in at : \A j \in at : i <= j

Found(t) == IF d[t] = None THEN 0 ELSE Entry(blocks[d[t]], Key(t))

NoEntry == [key |-> None, data |-> None]

\* DATA_LIST_GET_PTR
Look(t) ==
  /\ pc[t] = "look" /\ Goto(t, "scan")
  /\ d' = [d EXCEPT ![t] = qdata.ptr]
  /\ UNCHANGED <<list, heap, lock, nqueue, ghost, call, op, loc, data, old>>

\* x_data_list_id_dup_data without a dup_func.
Get(t) ==
  /\ pc[t] = "scan" /\ op[t] = "get" /\ Sound(t)
  /\ data' = [data EXCEPT ![t] =
       IF Found(t) = 0 THEN None ELSE blocks[d[t]].data[Found(t)].data]
  /\ Goto(t, "done")
  /\ UNCHANGED <<list, heap, lock, nqueue, ghost, call, op, loc, d, old>>

Absent(t) ==
  /\ pc[t] = "scan" /\ op[t] = "remove" /\ Sound(t) /\ Found(t) = 0
  /\ data' = [data EXCEPT ![t] = None] /\ Goto(t, "done")
  /\ UNCHANGED <<list, heap, lock, nqueue, ghost, call, op, loc, d, old>>

\* Mutant of RemoveEntry: the entry that is removed is overwritten by itself.
RemoveLast(t) ==
  /\ pc[t] = "scan" /\ op[t] = "remove" /\ Sound(t) /\ Found(t) # 0
  /\ data' = [data EXCEPT ![t] = blocks[d[t]].data[Found(t)].data]
  /\ Goto(t, "shorten")
  /\ UNCHANGED <<list, heap, lock, nqueue, ghost, call, op, loc, d, old>>

\* The last entry takes the place of the one that is removed ...
RemoveEntry(t) ==
  /\ pc[t] = "scan" /\ op[t] = "remove" /\ Sound(t) /\ Found(t) # 0
  /\ LET b == blocks[d[t]]
         i == Found(t)
     IN  /\ data' = [data EXCEPT ![t] = b.data[i].data]
         /\ blocks' = [blocks EXCEPT ![d[t]].data[i] = b.data[b.len]]
  /\ Goto(t, "shorten")
  /\ UNCHANGED <<qdata, heap, lock, nqueue, ghost, call, op, loc, d, old>>

\* ... and a list that has no other is taken away and freed.
Shorten(t) ==
  /\ pc[t] = "shorten" /\ Sound(t) /\ blocks[d[t]].len > 0
  /\ blocks' = [blocks EXCEPT ![d[t]].len = @ - 1]
  /\ Goto(t, IF blocks[d[t]].len = 1 THEN "load" ELSE "done")
  /\ UNCHANGED <<qdata, heap, lock, nqueue, ghost, call, op, hand>>

Free(t) ==
  /\ pc[t] = "free" /\ Sound(t)
  /\ blocks' = [blocks EXCEPT ![d[t]] = None]
  /\ Goto(t, "done")
  /\ UNCHANGED <<qdata, heap, lock, nqueue, ghost, call, op, hand>>

\* What a list gives up when it is set anew or cleared: notify_queue_free, or
\* weak_refs_notify.
Destroyed(xs) ==
  /\ Freed(xs)
  /\ points' = points \ UNION {ToSet(weak_refs[x]) : x \in xs}

\* An entry that is there is replaced.
Replace(t) ==
  /\ pc[t] = "scan" /\ op[t] = "set" /\ Sound(t) /\ Found(t) # 0
  /\ LET i == Found(t)
     IN  /\ blocks[d[t]].data[i].data \in used
         /\ Destroyed({blocks[d[t]].data[i].data})
         /\ blocks' = [blocks EXCEPT ![d[t]].data[i].data = data[t]]
  /\ Goto(t, "done")
  /\ UNCHANGED <<qdata, lock, nqueue, ghost, call, op, hand>>

\* There is room, or a block is made, or made larger where it is or elsewhere.
Room(t) ==
  /\ pc[t] = "scan" /\ op[t] = "set" /\ Sound(t) /\ Found(t) = 0
  /\ d[t] # None /\ blocks[d[t]].len # blocks[d[t]].alloc
  /\ Goto(t, "append")
  /\ UNCHANGED <<list, heap, lock, nqueue, ghost, call, op, hand>>

Make(t) ==
  /\ pc[t] = "scan" /\ op[t] = "set" /\ d[t] = None
  /\ \E b \in Block :
       /\ blocks[b] = None
       /\ blocks' = [blocks EXCEPT ![b] = [len |-> 0, alloc |-> 1, data |-> <<NoEntry>>]]
       /\ d' = [d EXCEPT ![t] = b]
  /\ Goto(t, "load")
  /\ UNCHANGED <<qdata, heap, lock, nqueue, ghost, call, op, loc, data, old>>

Enlarge(t) ==
  /\ pc[t] = "scan" /\ op[t] = "set" /\ Sound(t) /\ Found(t) = 0
  /\ d[t] # None /\ blocks[d[t]].len = blocks[d[t]].alloc
  /\ LET b == blocks[d[t]]
         larger == [len |-> b.len, alloc |-> 2 * b.alloc,
                    data |-> b.data \o [i \in 1 .. b.alloc |-> NoEntry]]
     IN  \E c \in Block :
           /\ c = d[t] \/ blocks[c] = None
           /\ blocks' = [blocks EXCEPT ![d[t]] = None, ![c] = larger]
           /\ d' = [d EXCEPT ![t] = c]
           /\ Goto(t, IF c = d[t] THEN "append" ELSE "load")
  /\ UNCHANGED <<qdata, heap, lock, nqueue, ghost, call, op, loc, data, old>>

Store(t) ==
  /\ pc[t] = "append" /\ Sound(t) /\ blocks[d[t]].len < blocks[d[t]].alloc
  /\ blocks' = [blocks EXCEPT ![d[t]].data[blocks[d[t]].len + 1] =
                  [key |-> Key(t), data |-> data[t]]]
  /\ Goto(t, "count")
  /\ UNCHANGED <<qdata, heap, lock, nqueue, ghost, call, op, hand>>

Lengthen(t) ==
  /\ pc[t] = "count" /\ Sound(t) /\ blocks[d[t]].len < blocks[d[t]].alloc
  /\ blocks' = [blocks EXCEPT ![d[t]].len = @ + 1]
  /\ Goto(t, "done")
  /\ UNCHANGED <<qdata, heap, lock, nqueue, ghost, call, op, hand>>

\* DATA_LIST_SET_PTR and object_floating: what is read ...
Load(t) ==
  /\ pc[t] = "load" /\ Goto(t, "cas")
  /\ old' = [old EXCEPT ![t] = qdata]
  /\ UNCHANGED <<list, heap, lock, nqueue, ghost, call, op, loc, d, data>>

Retry(t) ==
  /\ pc[t] = "cas" /\ qdata # old[t] /\ Goto(t, "load")
  /\ UNCHANGED <<list, heap, lock, nqueue, ghost, call, op, hand>>

\* Mutant of SetPtr: the pointer is stored without a comparison.
SetPtrAnyway(t) ==
  /\ pc[t] = "cas" /\ call[t] # "sink"
  /\ qdata' = [old[t] EXCEPT !.ptr = IF op[t] = "set" THEN d[t] ELSE None]
  /\ Goto(t, IF op[t] = "set" THEN "append" ELSE "free")
  /\ old' = [old EXCEPT ![t] = None]
  /\ UNCHANGED <<blocks, heap, lock, nqueue, ghost, call, op, loc, d, data>>

\* ... is kept but for what changes, the pointer or the flag.
SetPtr(t) ==
  /\ pc[t] = "cas" /\ call[t] # "sink" /\ qdata = old[t]
  /\ qdata' = [old[t] EXCEPT !.ptr = IF op[t] = "set" THEN d[t] ELSE None]
  /\ Goto(t, IF op[t] = "set" THEN "append" ELSE "free")
  /\ old' = [old EXCEPT ![t] = None]
  /\ UNCHANGED <<blocks, heap, lock, nqueue, ghost, call, op, loc, d, data>>

Sunk(t) ==
  /\ pc[t] = "cas" /\ call[t] = "sink" /\ qdata = old[t]
  /\ qdata' = [old[t] EXCEPT !.floating = FALSE]
  /\ sunk' = IF old[t].floating THEN sunk + 1 ELSE sunk
  /\ Goto(t, "idle") /\ call' = [call EXCEPT ![t] = "no"]
  /\ old' = [old EXCEPT ![t] = None]
  /\ UNCHANGED <<blocks, heap, lock, nqueue, ended, met, op, loc, d, data>>

Alone == ~ended /\ \A t \in Thread : pc[t] = "idle" /\ nqueue[t] = None

Kept(b) == {b.data[i].data : i \in 1 .. b.len}

\* What the list holds can be given up.
Whole == qdata.ptr # None => /\ blocks[qdata.ptr] # None
                             /\ Kept(blocks[qdata.ptr]) \subseteq used

\* x_data_list_clear, when nobody else has to do with the object.
Clear ==
  /\ Alone /\ Whole /\ ended' = TRUE
  /\ qdata' = [qdata EXCEPT !.ptr = None]
  /\ IF qdata.ptr = None THEN UNCHANGED <<blocks, heap>>
     ELSE /\ Destroyed(Kept(blocks[qdata.ptr]))
          /\ blocks' = [blocks EXCEPT ![qdata.ptr] = None]
  /\ UNCHANGED <<lock, nqueue, sunk, met, pc, call, op, hand>>

\* t is about to use or free memory that was freed, or to count or write beyond
\* what a block has.
Astray(t) ==
  \/ pc[t] \in {"scan", "shorten", "free", "append", "count"} /\ ~Sound(t)
  \/ /\ pc[t] = "scan" /\ op[t] = "set" /\ Sound(t) /\ Found(t) # 0
     /\ blocks[d[t]].data[Found(t)].data \notin used
  \/ pc[t] = "shorten" /\ Sound(t) /\ blocks[d[t]].len = 0
  \/ pc[t] \in {"append", "count"} /\ Sound(t) /\ blocks[d[t]].len >= blocks[d[t]].alloc
  \/ pc[t] = "done" /\ data[t] \notin used \cup {None}
  \/ pc[t] = "idle" /\ nqueue[t] \notin used \cup {None}

Stray ==
  /\ (Alone /\ ~Whole) \/ \E t \in Thread : Astray(t)
  /\ pc' = [t \in Thread |-> "lost"]
  /\ UNCHANGED <<list, heap, lock, nqueue, ghost, call, op, hand>>

-----------------------------------------------------------------------------
Step(t) ==
  \/ Freeze(t) \/ MakeQueue(t) \/ Frozen(t) \/ Thaw(t) \/ Thawed(t)
  \/ \E l \in Loc : WeakRef(t, l) \/ WeakUnref(t, l)
  \/ AddRef(t) \/ Added(t) \/ Removed(t) \/ Sink(t)
  \/ Look(t) \/ Get(t) \/ Absent(t) \/ RemoveEntry(t) \/ Shorten(t) \/ Free(t)
  \/ Replace(t) \/ Room(t) \/ Make(t) \/ Enlarge(t) \/ Store(t) \/ Lengthen(t)
  \/ Load(t) \/ Retry(t) \/ SetPtr(t) \/ Sunk(t)

Next == Clear \/ Stray \/ \E t \in Thread : Step(t)

Spec == Init /\ [][Next]_vars

-----------------------------------------------------------------------------
(* Properties *)

Element == [key : Mutex, data : Data] \cup {NoEntry}

TypeOK ==
  /\ qdata \in [ptr : Block \cup {None}, floating : BOOLEAN] /\ sunk \in Nat
  /\ \A b \in Block : blocks[b] # None =>
       /\ blocks[b].alloc \in Nat \ {0} /\ blocks[b].len \in 0 .. blocks[b].alloc
       /\ blocks[b].data \in [1 .. blocks[b].alloc -> Element]
  /\ used \subseteq Data /\ points \subseteq Loc
  /\ \A x \in Data : freeze_count[x] \in Nat /\ weak_refs[x] \in Seq(Loc)
  /\ lock \in [Mutex -> Thread \cup {None}] /\ nqueue \in [Thread -> Data \cup {None}]
  /\ d \in [Thread -> Block \cup {None}] /\ data \in [Thread -> Data \cup {None}]
  /\ loc \in [Thread -> Loc \cup {None}]

\* What the list has of key k, while nobody works on it.
Listed(k) ==
  IF qdata.ptr = None \/ blocks[qdata.ptr] = None THEN {}
  ELSE {e.data : e \in {blocks[qdata.ptr].data[i] : i \in 1 .. blocks[qdata.ptr].len}
                         \cap [key : {k}, data : Data]}

Undefined == \E t \in Thread : pc[t] = "lost"

Quiet(k) == InList = {} /\ lock[k] = None

\* The flag of a floating object is found by one sink, whatever other threads
\* do to the list whose pointer it is in: no store of the pointer brings back a
\* flag that was cleared.
FlagExact ==
  /\ TypeOK
  /\ sunk = IF qdata.floating THEN 0 ELSE 1

\* The queue that threads have frozen is the one in the list, and counts them.
QueueThere ==
  LET frozen == {t \in Thread : nqueue[t] # None}
  IN  Quiet("queue") =>
        /\ Listed("queue") = {nqueue[t] : t \in frozen}
        /\ \A t \in frozen : freeze_count[nqueue[t]] = Cardinality(frozen)

\* As long as no two threads have been in the list at once nothing freed is used,
\* and the queue that threads have frozen is the one in the list.
QueueKept ==
  met = 0 => ~Undefined /\ QueueThere

\* As long as no two threads have been in the list at once every location that
\* points to the object is in the weak references of its list, so that none does
\* when it is cleared.
PointersKnown ==
  met = 0 =>
    /\ Quiet("weak") => points \subseteq UNION {ToSet(weak_refs[x]) : x \in Listed("weak")}
    /\ ended => points = {}

\* The pointer accesses are carried out atomically (xdata.c): the list has what
\* was put into it.  It fails: a weak reference and a freeze at once lose the
\* queue, or use a list that the other has freed.
ListIsKept ==
  ~Undefined /\ QueueThere
=============================================================================
