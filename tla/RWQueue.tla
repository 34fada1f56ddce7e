------------------------------ MODULE RWQueue ------------------------------
(***************************************************************************)
(* xRWQueue (xos/src/xasyncqueue.c): a ring of nodes shared by one writer  *)
(* and one reader without a lock.  Every access to a field that the other  *)
(* thread writes (read_ptr, write_ptr, node.ready) is a step of its own; a *)
(* step reads or writes at most one such field.                            *)
(*                                                                         *)
(* The ring is read in the order of next:                                  *)
(*    read_ptr ..: held by the reader    read_head ..: published           *)
(*    write_ptr ..: held by the writer   write_head, then spare nodes.     *)
(* `window` lists the nodes from read_ptr to write_head, of which the      *)
(* reader holds the first nr and the next nq are published.  window, nr,   *)
(* nq, lost and freed are history variables: no action tests them except   *)
(* for the callers' contract (unlock and cancel name an element held).     *)
(***************************************************************************)
EXTENDS Integers, Sequences, FiniteSets

CONSTANTS
  Node,         \* addresses the slice allocator can return
  Value,        \* what an element may hold
  CountMod      \* read_count and write_count are counted modulo this

ASSUME NodeAssumption == IsFiniteSet(Node)
ASSUME ValueAssumption == Value # {}
ASSUME CountAssumption == CountMod \in Nat /\ CountMod > 1

VARIABLES
  next,         \* node.next
  ready,        \* the nodes whose ready flag is set
  data,         \* the element in front of each node
  alloc,        \* the nodes now allocated
  read_ptr, read_head, write_ptr, write_head,
  read_count, write_count,
  ref_count,
  wpc, rpc,     \* where the writer and the reader are
  phase,        \* "live", then the two loops of x_rwqueue_unref
  cursor,       \* rw_node of x_rwqueue_shrink and of x_rwqueue_unref
  window, nr, nq,
  lost,         \* allocated nodes that are no longer linked in the ring
  freed         \* nodes whose element was given to free_func, in order

ptrs == <<read_ptr, read_head, write_ptr, write_head>>
counts == <<read_count, write_count>>
control == <<wpc, rpc, phase, cursor, ref_count>>
history == <<window, nr, nq, lost, freed>>
heap == <<next, ready, data, alloc>>
vars == <<heap, ptrs, counts, control, history>>

TypeOK ==
  /\ next \in [Node -> Node]
  /\ ready \in SUBSET Node
  /\ data \in [Node -> Value]
  /\ alloc \in SUBSET Node
  /\ read_ptr \in Node /\ read_head \in Node
  /\ write_ptr \in Node /\ write_head \in Node
  /\ read_count \in 0 .. CountMod - 1
  /\ write_count \in 0 .. CountMod - 1
  /\ ref_count \in 0 .. 2
  /\ wpc \in {"idle", "ahead", "full", "room", "publish", "count",
              "shrink", "relink", "gone"}
  /\ rpc \in {"idle", "seen", "release", "count", "gone"}
  /\ phase \in {"live", "drain", "delete", "done"}
  /\ cursor \in Node
  /\ window \in Seq(Node)
  /\ nr \in Nat /\ nq \in Nat
  /\ lost \in SUBSET Node
  /\ freed \in Seq(Node)

\* Places of window that the writer holds: [write_ptr, write_head).
Writing == (nr + nq + 1) .. (Len(window) - 1)

(***************************************************************************)
(* x_rwqueue_new_full: reserved_size is cut to at most 2, so the ring      *)
(* starts with one node or two.  Each thread holds a reference.            *)
(***************************************************************************)
InitRing(a, b, v) ==
  /\ alloc = {a, b}
  /\ next = [[n \in Node |-> n] EXCEPT ![a] = b, ![b] = a]
  /\ data = [n \in Node |-> v]
  /\ ready = {}
  /\ read_ptr = a /\ read_head = a /\ write_ptr = a /\ write_head = a
  /\ read_count = 0 /\ write_count = 0
  /\ ref_count = 2
  /\ wpc = "idle" /\ rpc = "idle" /\ phase = "live"
  /\ cursor = a
  /\ window = <<a>> /\ nr = 0 /\ nq = 0
  /\ lost = {} /\ freed = << >>

Init == \E a, b \in Node, v \in Value : InitRing(a, b, v)

-----------------------------------------------------------------------------
(* The writer *)

\* Mutant: the writer never checks for the reader ahead of it.
WriteLockTestNever ==
  /\ wpc = "idle"
  /\ wpc' = "room"
  /\ UNCHANGED <<heap, ptrs, counts, rpc, phase, cursor, ref_count, history>>

\* x_rwqueue_write_lock: "queue->write_head->next == queue->read_ptr".
WriteLockTest ==
  /\ wpc = "idle"
  /\ wpc' = IF next[write_head] = read_ptr THEN "full" ELSE "ahead"
  /\ UNCHANGED <<heap, ptrs, counts, rpc, phase, cursor, ref_count, history>>

\* "|| queue->write_head->next->ready".
WriteLockReady ==
  /\ wpc = "ahead"
  /\ wpc' = IF next[write_head] \in ready THEN "full" ELSE "room"
  /\ UNCHANGED <<heap, ptrs, counts, rpc, phase, cursor, ref_count, history>>

\* try_lock: return NULL rather than grow.
WriteLockFail ==
  /\ wpc = "full"
  /\ wpc' = "idle"
  /\ UNCHANGED <<heap, ptrs, counts, rpc, phase, cursor, ref_count, history>>

\* A new node is linked in after write_head.
WriteLockGrow(n) ==
  /\ wpc = "full"
  /\ n \notin alloc
  /\ alloc' = alloc \cup {n}
  /\ ready' = ready \ {n}
  /\ next' = [next EXCEPT ![n] = next[write_head], ![write_head] = n]
  /\ wpc' = "room"
  /\ UNCHANGED <<data, ptrs, counts, rpc, phase, cursor, ref_count, history>>

WriteLockClaim ==
  /\ wpc = "room"
  /\ write_head' = next[write_head]
  /\ window' = Append(window, next[write_head])
  /\ wpc' = "idle"
  /\ UNCHANGED <<heap, read_ptr, read_head, write_ptr, counts, rpc, phase,
                 cursor, ref_count, nr, nq, lost, freed>>

\* The caller stores a value in an element it holds.
Fill(k, v) ==
  /\ wpc = "idle"
  /\ k \in Writing
  /\ data' = [data EXCEPT ![window[k]] = v]
  /\ UNCHANGED <<next, ready, alloc, ptrs, counts, control, history>>

\* x_rwqueue_write_unlock, its three stores.
WriteUnlockReady ==
  /\ wpc = "idle"
  /\ nr + nq + 1 < Len(window)
  /\ ready' = ready \cup {write_ptr}
  /\ wpc' = "publish"
  /\ UNCHANGED <<next, data, alloc, ptrs, counts, rpc, phase, cursor,
                 ref_count, history>>

WriteUnlockPublish ==
  /\ wpc = "publish"
  /\ write_ptr' = next[write_ptr]
  /\ nq' = nq + 1
  /\ wpc' = "count"
  /\ UNCHANGED <<heap, read_ptr, read_head, write_head, counts, rpc, phase,
                 cursor, ref_count, window, nr, lost, freed>>

WriteUnlockCount ==
  /\ wpc = "count"
  /\ write_count' = (write_count + 1) % CountMod
  /\ wpc' = "idle"
  /\ UNCHANGED <<heap, ptrs, read_count, rpc, phase, cursor, ref_count,
                 history>>

WriteCancel(k) ==
  /\ wpc = "idle"
  /\ k \in Writing
  /\ write_head' = window[k]
  /\ window' = SubSeq(window, 1, k)
  /\ UNCHANGED <<heap, read_ptr, read_head, write_ptr, counts, control,
                 nr, nq, lost, freed>>

\* x_rwqueue_shrink, called by the writer.  read_ptr is read again at every
\* turn of the loop, and once more after it.
ShrinkBegin ==
  /\ wpc = "idle"
  /\ cursor' = next[write_head]
  /\ wpc' = "shrink"
  /\ UNCHANGED <<heap, ptrs, counts, rpc, phase, ref_count, history>>

\* Mutants: the loop stops at read_head, past the nodes the reader still
\* holds; the loop forgets to move on.
ShrinkFreePastReader ==
  /\ wpc = "shrink"
  /\ cursor # read_head
  /\ alloc' = alloc \ {cursor}
  /\ cursor' = next[cursor]
  /\ UNCHANGED <<next, ready, data, ptrs, counts, wpc, rpc, phase, ref_count,
                 history>>

ShrinkFree ==
  /\ wpc = "shrink"
  /\ cursor # read_ptr
  /\ alloc' = alloc \ {cursor}
  /\ cursor' = next[cursor]
  /\ UNCHANGED <<next, ready, data, ptrs, counts, wpc, rpc, phase, ref_count,
                 history>>

ShrinkStop ==
  /\ wpc = "shrink"
  /\ cursor = read_ptr
  /\ wpc' = "relink"
  /\ UNCHANGED <<heap, ptrs, counts, rpc, phase, cursor, ref_count, history>>

ShrinkRelink ==
  /\ wpc = "relink"
  /\ next' = [next EXCEPT ![write_head] = read_ptr]
  /\ wpc' = "idle"
  /\ UNCHANGED <<ready, data, alloc, ptrs, counts, rpc, phase, cursor,
                 ref_count, history>>

-----------------------------------------------------------------------------
(* The reader *)

\* Mutant: the reader stops one node short of the writer.
ReadLockTestShort ==
  /\ rpc = "idle"
  /\ read_head # write_ptr /\ next[read_head] # write_ptr
  /\ rpc' = "seen"
  /\ UNCHANGED <<heap, ptrs, counts, wpc, phase, cursor, ref_count, history>>

\* x_rwqueue_read_lock: the first test; NULL when it fails, a stutter.
ReadLockTest ==
  /\ rpc = "idle"
  /\ read_head # write_ptr
  /\ rpc' = "seen"
  /\ UNCHANGED <<heap, ptrs, counts, wpc, phase, cursor, ref_count, history>>

\* The second test, and the element when it holds.
ReadLockTake ==
  /\ rpc = "seen"
  /\ rpc' = "idle"
  /\ IF read_head \in ready
       THEN /\ read_head' = next[read_head]
            /\ nr' = nr + 1
            /\ nq' = nq - 1
       ELSE UNCHANGED <<read_head, nr, nq>>
  /\ UNCHANGED <<heap, read_ptr, write_ptr, write_head, counts, wpc, phase,
                 cursor, ref_count, window, lost, freed>>

\* x_rwqueue_read_unlock, its three stores.
ReadUnlockReady ==
  /\ rpc = "idle"
  /\ nr > 0
  /\ ready' = ready \ {read_ptr}
  /\ rpc' = "release"
  /\ UNCHANGED <<next, data, alloc, ptrs, counts, wpc, phase, cursor,
                 ref_count, history>>

\* Mutant: an unlock releases every element the reader holds.
ReadUnlockReleaseAll ==
  /\ rpc = "release"
  /\ read_ptr' = read_head
  /\ window' = Tail(window)
  /\ nr' = nr - 1
  /\ lost' = IF wpc = "relink" THEN lost \cup {read_ptr} ELSE lost
  /\ rpc' = "count"
  /\ UNCHANGED <<heap, read_head, write_ptr, write_head, counts, wpc, phase,
                 cursor, ref_count, nq, freed>>

\* Between the last test of x_rwqueue_shrink and its store the node left
\* behind drops out of the ring.
ReadUnlockRelease ==
  /\ rpc = "release"
  /\ read_ptr' = next[read_ptr]
  /\ window' = Tail(window)
  /\ nr' = nr - 1
  /\ lost' = IF wpc = "relink" THEN lost \cup {read_ptr} ELSE lost
  /\ rpc' = "count"
  /\ UNCHANGED <<heap, read_head, write_ptr, write_head, counts, wpc, phase,
                 cursor, ref_count, nq, freed>>

\* Mutant: the reader's unlock does not count.
ReadUnlockCountNot ==
  /\ rpc = "count"
  /\ rpc' = "idle"
  /\ UNCHANGED <<heap, ptrs, counts, wpc, phase, cursor, ref_count, history>>

ReadUnlockCount ==
  /\ rpc = "count"
  /\ read_count' = (read_count + 1) % CountMod
  /\ rpc' = "idle"
  /\ UNCHANGED <<heap, ptrs, write_count, wpc, phase, cursor, ref_count,
                 history>>

ReadCancel(k) ==
  /\ rpc = "idle"
  /\ k \in 1 .. nr
  /\ read_head' = window[k]
  /\ nr' = k - 1
  /\ nq' = nq + (nr - (k - 1))
  /\ UNCHANGED <<heap, read_ptr, write_ptr, write_head, counts, control,
                 window, lost, freed>>

-----------------------------------------------------------------------------
(* x_rwqueue_unref: the last reference empties and frees the ring *)

DropRef ==
  /\ ref_count' = ref_count - 1
  /\ IF ref_count = 1
       THEN phase' = "drain" /\ cursor' = read_head
       ELSE UNCHANGED <<phase, cursor>>
  /\ UNCHANGED <<heap, ptrs, counts, history>>

WriterUnref == wpc = "idle" /\ wpc' = "gone" /\ rpc' = rpc /\ DropRef

ReaderUnref == rpc = "idle" /\ rpc' = "gone" /\ wpc' = wpc /\ DropRef

DrainFree ==
  /\ phase = "drain"
  /\ cursor # write_ptr
  /\ freed' = Append(freed, cursor)
  /\ cursor' = next[cursor]
  /\ UNCHANGED <<heap, ptrs, counts, wpc, rpc, phase, ref_count, window, nr,
                 nq, lost>>

DrainStop ==
  /\ phase = "drain"
  /\ cursor = write_ptr
  /\ phase' = "delete"
  /\ UNCHANGED <<heap, ptrs, counts, wpc, rpc, cursor, ref_count, history>>

DeleteNode ==
  /\ phase = "delete"
  /\ alloc' = alloc \ {cursor}
  /\ cursor' = next[cursor]
  /\ phase' = IF next[cursor] = write_ptr THEN "done" ELSE "delete"
  /\ UNCHANGED <<next, ready, data, ptrs, counts, wpc, rpc, ref_count,
                 history>>

-----------------------------------------------------------------------------

WriterStep ==
  \/ WriteLockTest \/ WriteLockReady \/ WriteLockFail
  \/ \E n \in Node : WriteLockGrow(n)
  \/ WriteLockClaim
  \/ \E k \in Writing, v \in Value : Fill(k, v)
  \/ WriteUnlockReady \/ WriteUnlockPublish \/ WriteUnlockCount
  \/ \E k \in Writing : WriteCancel(k)
  \/ ShrinkBegin \/ ShrinkFree \/ ShrinkStop \/ ShrinkRelink
  \/ WriterUnref

ReaderStep ==
  \/ ReadLockTest \/ ReadLockTake
  \/ ReadUnlockReady \/ ReadUnlockRelease \/ ReadUnlockCount
  \/ \E k \in 1 .. nr : ReadCancel(k)
  \/ ReaderUnref

Teardown == DrainFree \/ DrainStop \/ DeleteNode

Next == WriterStep \/ ReaderStep \/ Teardown

Spec == Init /\ [][Next]_vars
-----------------------------------------------------------------------------
(* Properties *)

Live == phase = "live"

\* Every assertion of the code holds where it stands: a node is not ready
\* when it is published or withdrawn, it is ready when it is released or put
\* back, a spare node that is freed is not ready, and an element given to
\* free_func is.  (The x_assert of write_unlock, write_cancel, read_unlock,
\* read_cancel, shrink and unref.)
AssertsHold ==
  /\ wpc = "idle" => \A k \in Writing : window[k] \notin ready
  /\ rpc = "idle" => \A k \in 1 .. nr : window[k] \in ready
  /\ wpc = "shrink" /\ cursor # read_ptr => cursor \notin ready
  /\ phase = "drain" /\ cursor # write_ptr => cursor \in ready

\* No thread can reach freed memory: the four pointers, the elements either
\* thread holds and the node each loop is about to read or free are allocated,
\* although shrink frees nodes while the reader moves read_ptr towards them.
NoUseAfterFree ==
  /\ phase # "done" /\ Live =>
        /\ {read_ptr, read_head, write_ptr, write_head} \subseteq alloc
        /\ \A k \in 1 .. Len(window) : window[k] \in alloc
  /\ wpc \in {"idle", "ahead", "full", "room"} /\ Live => next[write_head] \in alloc
  /\ wpc = "shrink" => cursor \in alloc
  /\ phase \in {"drain", "delete"} => cursor \in alloc

\* x_rwqueue_len lags behind the elements published and not released by one
\* between the two stores of the writer's unlock, and is ahead of them by one
\* between those of the reader's: as an unsigned difference it may wrap, but is
\* never off by more.
LenWithinOne ==
  Live => (write_count - read_count) % CountMod =
            (nr + nq + (IF rpc = "count" THEN 1 ELSE 0)
                     - (IF wpc = "count" THEN 1 ELSE 0)) % CountMod

\* x_rwqueue_unref gives free_func each published element that the reader does
\* not hold, once and in order.
DrainExact ==
  phase \in {"delete", "done"} => freed = SubSeq(window, nr + 1, nr + nq)

\* "Free all nodes" (the comment of x_rwqueue_unref on its second loop): no node
\* outlives the queue.
FreesAllNodes == phase = "done" => alloc = {}

\* The elements from read_ptr to write_head, oldest first.
Contents == [k \in 1 .. (Len(window) - 1) |-> data[window[k]]]

Chan ==
  INSTANCE SpscChannel WITH
    chan <- Contents,
    taken <- nr,
    waiting <- nq

\* The queue is a first-in first-out channel: no element is lost, duplicated,
\* reordered or changed after it was published, however the steps of the two
\* threads interleave.
Fifo == Chan!ChanSpec

\* A thread inside an operation goes on with it; the reader polls.
Fairness ==
  /\ WF_vars(WriteLockReady \/ WriteLockClaim \/ WriteUnlockPublish
             \/ WriteUnlockCount)
  /\ WF_vars(ShrinkFree \/ ShrinkStop \/ ShrinkRelink)
  /\ WF_vars(ReadLockTest)
  /\ WF_vars(ReadLockTake \/ ReadUnlockRelease \/ ReadUnlockCount)
  /\ WF_vars(Teardown)

FairSpec == Spec /\ Fairness

\* What is published reaches a reader that keeps asking for it.
PublishedIsTaken == nq > 0 ~> nr > 0 \/ rpc = "gone"

-----------------------------------------------------------------------------
(***************************************************************************)
(* The inductive invariant.  Ring is what write_head can reach.  Walking   *)
(* the ring is never needed: next is injective on it, so the successor of  *)
(* write_head is either read_ptr or outside the window.                    *)
(***************************************************************************)
Ring == alloc \ lost

\* The window is a chain of distinct nodes and the pointers stand in it.
WindowInv ==
  /\ Len(window) >= nr + nq + 1
  /\ \A i, j \in 1 .. Len(window) : window[i] = window[j] => i = j
  /\ \A i \in 1 .. Len(window) - 1 : next[window[i]] = window[i + 1]
  /\ read_ptr = window[1]
  /\ read_head = window[nr + 1]
  /\ write_ptr = window[nr + nq + 1]
  /\ write_head = window[Len(window)]
  /\ rpc = "seen" => nq > 0
  /\ rpc = "release" => nr > 0
  /\ wpc = "publish" => nr + nq + 1 < Len(window)

\* The links of the ring, but for the one that shrink is about to rewrite.
LinkInv ==
  /\ \A i \in 1 .. Len(window) : window[i] \in Ring
  /\ \A n \in Ring \ {write_head} : next[n] \in Ring
  /\ \A m, n \in Ring \ {write_head} : next[m] = next[n] => m = n
  /\ wpc \notin {"shrink", "relink"} =>
        /\ next[write_head] \in Ring
        /\ \A n \in Ring \ {write_head} : next[n] # next[write_head]
  /\ wpc = "shrink" =>
        cursor \in Ring /\ \A n \in Ring \ {write_head} : next[n] # cursor
  /\ wpc = "relink" => \A n \in Ring \ {write_head} : next[n] # read_ptr
  /\ wpc \in {"ahead", "room"} => next[write_head] # read_ptr

\* A node of the ring is ready from the writer's first store to the reader's.
ReadyFrom == IF rpc = "release" THEN 2 ELSE 1
ReadyTo == nr + nq + (IF wpc = "publish" THEN 1 ELSE 0)

ReadyInv ==
  /\ \A i \in 1 .. Len(window) :
        window[i] \in ready <=> ReadyFrom <= i /\ i <= ReadyTo
  /\ \A n \in Ring : n \in ready => \E i \in 1 .. Len(window) : window[i] = n

RefInv ==
  /\ ref_count = (IF wpc = "gone" THEN 0 ELSE 1) + (IF rpc = "gone" THEN 0 ELSE 1)
  /\ phase = "live" <=> ref_count > 0
  /\ lost \subseteq alloc

\* What free_func was given so far, and where the loop stands.
DrainInv ==
  /\ phase = "live" => freed = << >>
  /\ Len(freed) <= nq
  /\ \A i \in 1 .. Len(freed) : freed[i] = window[nr + i]
  /\ phase = "drain" => cursor = window[nr + 1 + Len(freed)]
  /\ phase \in {"delete", "done"} => Len(freed) = nq

DeleteInv ==
  phase = "delete" =>
    /\ cursor \in Ring
    /\ \A m, n \in Ring : next[m] = next[n] => m = n
    /\ \A n \in Ring : next[n] # write_ptr => next[n] \in Ring \ {cursor}

IInv ==
  /\ TypeOK
  /\ WindowInv
  /\ phase \in {"live", "drain"} => LinkInv /\ ReadyInv
  /\ RefInv
  /\ DrainInv
  /\ DeleteInv
=============================================================================
