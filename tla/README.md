# A verification project for gfw

gfw is a C game framework in layers: **xos** (threads, queues, main loop, containers, memory), **xts**
(types, objects, closures, signals), **xfw** (resources, archives, scripts), **gfw** (scene graph and
rendering), **gml** (vector mathematics), **rdp** (a C++ reliable-datagram transport) and **json**.
This directory holds TLA+ modules translated from that source, the TLC configurations that check them
on small instances, and TLAPS proofs of what holds for every value of the constants.

Contents: 1 Inventory · 2 How the parts interact · 3 Modules and code · 4 Runs and bounds ·
5 Fairness · 6 Proofs · 7 Where code and its documentation disagree · 8 Limits · 9 Plan.

## 1. Inventory

For each part: the state it keeps, its operations, the behaviour that is hard to test, and what makes
it correct. Parts in **bold** are modelled; the last column names the module or the plan.

### xos

| Part | State | Operations | Hard behaviour | Correct when | Module |
|---|---|---|---|---|---|
| **RWQueue** (`xasyncqueue.c:1-230`) | ring of nodes, four pointers, a ready flag per node, two counters, a reference count | write_lock/unlock/cancel, read_lock/unlock/cancel, shrink, len, unref | one writer and one reader without a lock; shrink frees nodes under the reader | FIFO; no thread touches what the other holds; nothing is freed twice, used after it is freed, or leaked | `RWQueue`, `SpscChannel` |
| **Async queue and thread pool** (`xasyncqueue.c:230-386`, `xthreadpool.c`) | per pool: queue, num_threads, running, immediate, waiting; global queue of pools, count of unused threads | new, push, delete (immediate, wait); worker loop; idle threads | last worker and owner both may free; waits that time out; pools queued for threads that have gone | a task runs once and in its pool; a pool is freed once, after its last user; delete returns | `ThreadPool` |
| **Main loop** (`xmain.c`) | owner and its count, waiters, source lists per priority, dispatches, references of each source, wakeup | run, quit, attach, set_priority, destroy, unref, iterate: prepare, query, poll, check, dispatch | nested loops in callbacks; the lock is released around every callback; several threads run one context | one owner; no source lost or freed in use; ready sources are dispatched; quit stops | `MainContext`, `MainSources` |
| **Once init** (`xthread.c:63-117`) | list of locations under initialisation, each thread's own list, one condition for all | enter, leave | threads that race for a location; initialisations that need others; spurious wake-ups | initialised once; FALSE means that there is a value; who waits is woken | `OnceInit` |
| Threads, mutexes, conditions (`xthread.c`, `xthread-posix.h`, `xatomic.c`) | handles | lock, wait, timed wait, thread-local data | the deadline's nanoseconds can reach 10^9 (`xthread-posix.h:307`); mutexes are made lazily (`:46`) | as POSIX | taken as primitives |
| Hook lists (`xhook.c`) | ring of hooks with references and an in-call flag | prepend, destroy, invoke, find | a function called destroys its own or the next hook | the walk visits what was there | plan |
| Slices (`xslice.c`) | magazines per thread, depots, slabs | alloc, free | chunks change threads | a chunk is given once | plan |
| Garbage collector (`xgc.c`) | blocks, root stack, pending links, weak tables | alloc, link, unlink, collect | links cached and not yet applied | reachable blocks stay | plan |
| Containers (`xarray.c`, `xhash.c`, lists) | | | resize while iterated | | plan: hash |
| **Quarks** (`xquark.c`) | hash table under a lock; an array, replaced as it grows, and a count read without it | from_string, try_string, str, intern | the array, its entry and the count are published one after the other (`xquark.c:38`, `:103`) | a number has one string for ever, a string one number, whoever asks | `Quark`, `Intern` |
| **Data lists** (`xdata.c`, `xbit.c`) | list per object, flags in the low bits of its pointer; the bit lock is empty (`xbit.c:24-41`) | set, get, remove, clear | users with mutexes of their own meet in one list; a flag and the pointer share a word; foreach reads past what it tested (`xdata.c:341`) | the list has what was put into it; a flag that was cleared stays cleared; no entry is lost or used after it is freed | `DataList` |
| Options, messages, tests, strings, files, JSON in `xos` | none over time | | | | not planned |

### xts

| Part | State | Operations | Hard behaviour | Correct when | Module |
|---|---|---|---|---|---|
| Types and classes (`xclass.c`, `xtypemodule.c`) | tree of types, reference count and stage of each class, plug-in use counts | register, class_ref, class_unref, interfaces | initialisation of a class asks for others; last unref races a new ref | a class is initialised before its first use and finalised after its last | plan |
| **Objects** (`xobject.c`) | reference count, floating flag, weak references, notify queue, emissions of "notify" | newv, ref, unref, sink, set, notify, freeze, thaw, weak pointers, dispose | the last unref races a new reference; "notify" does not recurse (`xobject.c:720`): who emits it during another emission only asks for another round; a queue freed by one thread in the hands of another | finalised once and after its last use; no change is left unsaid; no location points to what is freed | `Object`; weak references in `DataList` |
| **Closures, signals** (`xclosure.c`, `xsignal.c`) | handler list with references, emissions, closure counts | connect, disconnect, block, unblock, emit (two ways), stop; closure ref, unref, invalidate | handlers that change the list they are called from; emissions that restart; threads in one list | each handler connected and not blocked from beginning to end is called once, in order; none is called after its data is destroyed | `Signal` |
| Values, parameters, boxed types | none over time | | | | not planned |

### xfw, gfw, gml, json

| Part | State | Operations | Hard behaviour | Correct when | Module |
|---|---|---|---|---|---|
| **Resources and groups** (`xresource.c`) | a state per resource and group, advanced by compare-and-swap; a group's resources | prepare, load, unload; repository parse, prepare, load, unload; the group property | threads on the same objects; resources that share others; a resource claimed by somebody else is skipped | methods run one at a time and in order; a loaded group is loaded | `Resource` |
| Mounting, archives (`xresource.c`, `xarchive.c`) | mounted archives, file tables | mount, unmount, open | the state is read before the lock (`xresource.c:291`); unmount takes the wrong name (`:352`); unload of what was never loaded (`:281`) | a file is found in the archive that has it | plan, last |
| Chunks, scripts, images | none over time | | | | not planned |
| **Scene graph** (`gnode.c`, `gscenenode.c`, `gscene.c`) | dirty marks, children, dirty_children, parent_notified, boxes; a queue of nodes | attach, detach, move, dirty (now, later), undirty, xform, update; movables; a frame | a mark that stays set over a detach (`gnode.c:102`, `:366`); a change that stops at a mark | after a frame every transform in the scene is up to date | `SceneGraph` |
| Buffers, textures, shaders, materials, meshes; rendering; animation | graphics handles, floating point | | | as resources they are instances of `Resource` | not planned |
| Vector mathematics, JSON | none | | | | not planned |

### rdp

| Part | State | Operations | Hard behaviour | Correct when | Module |
|---|---|---|---|---|---|
| **Sender and receiver** (`rdp_sender.cpp`, `rdp_receiver.cpp`, `rdp_rangelist.hpp`) | resend queue with marks and times, numbers; holes, acknowledgement and miss queues and ranges | sendPacket, writePackets, onAcks; onReceived, update, writeAcks | datagrams lost, repeated, overtaken; acknowledgements lost; a datagram with too little room | a packet is handed out at most once, sequenced ones in order; ranges say exactly what came; resending ends | `Rdp` |
| RWQueue copy (`rdp_rwqueue.hpp`) | as xos, without shrink | | the same as xos (`rdp_rwqueue.hpp:104`) | | see `RWQueue` |
| End points, transport, Disturber, threads (`rdp_endpoint.cpp`, `rdp_transport.cpp`, `rdp_thread.cpp`) | joined end points, the Disturber's queue | join, stop, send, disturb | a join that ends early (`rdp_endpoint.cpp:66`); a loop that ends with the mutex held (`rdp_transport.cpp:157`); lock and unlock exchanged on Windows (`rdp_thread.cpp:150`) | | plan |
| Bandwidth estimate, FEC, bit streams | numeric | | | | vendored or numeric |

`tools`, `src`, `utils`, `doc` and the plug-ins are bindings, editors, drafts and vendored code.

## 2. How the parts interact

* The **thread pool** takes tasks from the async queue, which is a list, a mutex and a condition; a
  worker holds the mutex from the moment it looks for a task to the moment it has one. The pool's
  fields are protected by *its queue's* mutex, so `ThreadPool` joins both: one action is one critical
  section. The global queue of pools is a second async queue with a mutex of its own.
* The **main loop** calls a source's prepare, check and dispatch with the context's lock released;
  these call back into the context (nested runs, quit, attach, destroy). `MainContext` asks who may
  iterate; `MainSources` asks what happens to the sources while one thread iterates. The split is
  justified by `IterateOwns`: two threads are never in a round at the same time, which is the
  assumption of `MainSources`.
* **Once init** is called with the thread's outer initialisations under way: types, classes and quarks
  initialise one another, so a thread holds a stack of locations.
* A **group** calls its resources, a resource those it uses, over the same state machine: `Resource`
  has one claim protocol for both and a stack of calls per thread.
* A group's list never loses its first entry (`x_ptr_array_remove_data` compares with `> 0`,
  `xarray.c:714`), nor do the arrays of the scene graph: `Resource` and `SceneGraph` keep what the code
  keeps and show what follows from it, and what does not.
* **Objects** are counted without a lock and notified through a queue in their data list. The lock of the
  data list is an empty function, so what keeps two threads apart in it is the mutex of its user:
  `notify_queue` for the queue, `weak_refs_mutex` for weak references, nothing between the two. `Object`
  therefore is about an object to which nobody points weakly and which carries no user data: the queue is
  then the one entry of the list, every access to it but the last is under `notify_queue`, and a section
  under that mutex is one step. `DataList` is about the list when there is a second entry, one step per
  access, and shows that it is not kept.
* **Objects** emit "notify" through **signals**, which call no handler when an emission for the same property
  is under way but ask that one for another round. `Object` has these emissions with one handler that stays
  connected; `Signal` has the rounds with all that handlers may do.
* **Signals** call closures with their lock released. A closure may come back with any operation of the
  signal, on this list and in this emission; another thread may do the same meanwhile. `Signal` keeps a
  stack of frames for each thread, and a step is what happens between two such calls.
* The **scene graph** belongs to one thread. What is hard is not the interleaving but the order of calls:
  marks are set on the way up and cleared on the way down, and each relies on the others.
* **Quarks** are asked for by every type, class and signal, from any thread, `x_quark_str` without a lock.
* In **rdp** three threads meet: posting (`_I`), reading the network (`_R`) and writing it (`_W`). They
  exchange data over the lock-free queues of `rdp_rwqueue.hpp`. `Rdp` takes these as sequences, which
  is what `RWQueue` is shown to implement for the C copy of the same ring.

## 3. Modules and code

| Module | What it is | Code | State |
|---|---|---|---|
| `SpscChannel` | abstract: a sequence with two marks | – | `chan`, `taken`, `waiting` |
| `RWQueue` | the ring, one step per shared access | `xasyncqueue.c:38-220` | `next`, `ready`, `data`: the nodes; `read_ptr` … `write_head`: the pointers; `wpc`, `rpc`: where each thread is; `window`, `nr`, `nq`: history |
| `ThreadPool` | pools, workers, owners | `xthreadpool.c`, `xasyncqueue.c:230-386` | `pool`: the fields of RealThreadPool; `queue`, `uq`: the queues; `pc`, `at`, `task`: threads; `client`: owners |
| `ThreadPoolProof` | its theorems | | |
| `MainContext` | ownership of a context, loops | `xmain.c` acquire, wait, release, iterate, run, quit, attach | `owner`, `owner_count`, `waiters`, `is_running`, `runs`: nested calls |
| `MainContextProof` | its theorem | | |
| `MainSources` | the sources of a context in a round | `xmain.c` lists, iterator, prepare, check, dispatch, destroy | `src`: the fields of xSource; `lists`, `dispatches`, `iter`, `calls` |
| `MainSourcesProof` | its theorems | | |
| `OnceInit` | enter and leave with their callers | `xthread.c:63-117` | `value`, `once`: the global list; `tls`: each thread's |
| `XosProof` | the theorems about `RWQueue` and `OnceInit`, which have nothing in common but that module | | |
| `Resource` | claims of resources and groups | `xresource.c` | `state`, `group`, `stack`: calls; `data`: what methods have made |
| `Rdp` | sender, network, receiver | `rdp_sender.cpp`, `rdp_receiver.cpp`, `rdp_rangelist.hpp` | named after the members, see the comments on `VARIABLES` |
| `Intern` | abstract: strings numbered in the order of their first use | – | `names`, `call`, `result` |
| `Quark` | the table, the arrays and the count, one step per write or unlocked read | `xquark.c` | `quark_ht`, `arrays` (all that were ever allocated, as none is freed), `quarks`, `quark_seq_id`; `strings`, `seq_id`: locals of x_quark_str |
| `QuarkRdpProof` | the theorems about `Quark` and `Rdp`, which have nothing in common but that module | | |
| `Object` | one object under several threads | `xobject.c` | `ref_count`, `floating`, `queue`: the NotifyQueue; `emitting`, `state`: each thread's emission of "notify"; `held`, `unseen`: history; `pc`, `call`, `prop`, `nqueue`, `pspecs`: where each thread is and its locals |
| `ObjectProof` | its theorems | | |
| `DataList` | the list of keyed data under freezes, weak references and sinks, one step per access | `xdata.c`, `xobject.c` | `qdata`: pointer and floating flag; `blocks`: xDataList at their addresses; `used`, `freeze_count`, `weak_refs`: what the entries point to; `lock`: the two mutexes; `d`, `data`, `old`: locals; `points`, `met`, `sunk`: history |
| `Signal` | one signal of one instance and its handlers' closures | `xsignal.c`, `xclosure.c` | `hlist`, `id`, `ref_count`, `block_count`, `closure_refs`, `is_invalid`: the fields; `restart_emissions`: the list of that name; `stack`: emissions and drops under way; in a frame `due`, `called`, `asked`: history |
| `SignalProof` | its theorems | | |
| `SceneGraph` | nodes, marks, boxes and frames | `gnode.c`, `gscenenode.c`, `gscene.c` | `parent`, `children`, `waiting` (dirty_children), `first` (entry 0), the marks as sets of nodes, `queue`; `fresh`, `box`: what is right |
| `FrameworkProof` | the theorems about `Resource` and `SceneGraph` | | |
| `MC*` | instances for TLC | | constants that a `.cfg` cannot write |

Conventions. What the code does without releasing a lock or touching shared memory is one action. A
step of a thread is named after the function, with a suffix for its part (`WriteLockTest`,
`WriteLockGrow`). Operators that begin with "MUTANT" or "Mutant of" in their comment are plausible
slips in the code; no specification uses them. They show that the property next to them would notice.
What no code under `src/` decides is external: `Fill` (a caller of write_lock storing its element) and
the network of `Rdp`. A walk over the tree in `SceneGraph` is the set that it reaches, the least one that
has where it begins and that no step leaves (`Reached`; so is `Under` in `Resource`, what the methods of
resources call): the ancestors (`Line`), what is below (`Below`), the
climb up the parents that stops at the first mark (`Through`, of which `Callers` and `Bounds` are cases),
and the descent of an update from dirty child to dirty child (`Plain`) and from there to everything
(`Changed`). The prover can reason about a least set, while what a recursion computes would need an
induction. `Rdp` runs through its queues with recursive functions, and lists what is missing as one of the
ascending sequences of a set (`Listings`; there is one), of which a proof can use what they are.
`MainSources` takes the release of what a nested round left in `dispatches` as a loop of its own
(`PrepareDrop`), an entry a step, as the last unref of a source releases the lock around its `finalize`
(`xmain.c:574`).

## 4. Runs and bounds

| Run | Instance | Shows | Why it is enough |
|---|---|---|---|
| `rwqueue` | 3 nodes, 2 values, counters modulo 3 | `AssertsHold`, `NoUseAfterFree`, `LenWithinOne`; implements `SpscChannel` (`Fifo`); `PublishedIsTaken` | the ring grows, is reused, shrinks to one node and wraps its counters; the proofs cover any size |
| `pool` | 2 pools (unlimited; exclusive with 2 threads), 2 threads, 2 tasks, `_max_unused_threads` 2 | `CountsHold`, `FreedLast`, `TasksDone`, `DeletedIsFreed` | threads move between pools, time out, cannot be created, and race the owner for the free; the proofs cover any number, `DeletedIsFreed` excepted |
| `main` | 3 threads, 2 loops, 1 source, nesting 2 | `ContextExact`, `FreeContextIsTaken`, `QuitStops` | two waiters share a condition while the third owns the context twice |
| `sources` | 2 sources, 2 priorities, nesting 2 | `SourcesExact`, `ListsExact`, `ReadyIsDispatched` | sources of one and of two priorities; a nested round drops the outer one's dispatches; releases between any two steps |
| `once` | 3 threads, locations c → b → a and c → c | `InitOnce`, `FalseMeansValue`, `EnterReturns` | two threads wait for different locations that a third initialises inside one another |
| `quark` | 3 threads, 4 strings, blocks of 2 | `QuarksExact`; implements `Intern` (`Implements`) | entry 0 is taken, so four strings replace the array twice while two threads read; the proofs cover any number |
| `object` | 3 threads, 2 properties, 3 references, 2 freezes; symmetric | `CountsExact`, `NothingGone`, `NotLost` | two threads sink at once, or set the same property while a third takes it from the queue or emits it; the last reference goes while a call is under way; the proofs cover any number |
| `datalist` | 2 threads, 2 locations, 2 blocks, 2 of queues and stacks, 2 entries in a stack, 2 meetings; symmetric | `FlagExact`, `QueueKept`, `PointersKnown` | the list is empty, has one key or both, is enlarged where it is or elsewhere, and freed; a location is registered twice; one thread compares and swaps the flag while the other stores a pointer |
| `signal` | 5 kinds of signals: 2 threads with 1 handler, an accumulator, a class closure and 3 emissions; 2 threads with 2 handlers, or 1 thread with 2 or 3, and 2 emissions | `RefsExact`, `ListExact`, `RoundIsComplete`, `CalledAlive`, `AskedIsGiven` | an emission stands on a handler that leaves between its neighbours; another thread's emission asks this one to begin again, or enters a second emission while the lock is released for the accumulator, and a third asks the last; both halves of the list empty; the proofs cover any number |
| `scene` | a root, a node, and a third with a movable that moves between both | `ChildrenListed`, `FrameIsRight`, `HeardUnlessMoved` | the third is under either parent or none, marked before and after; longer lines only repeat the middle node |
| `resource` | 2 threads, a group of 2 passes with a shared texture and one loaded directly and moved | `ClaimedInOrder`, `GroupIsWhole` | each operation meets each state; a shared resource is claimed from two sides and from the outside |
| `rdp` | posts realtime, sequence, reliable; window 1; 2 datagrams, 1 range message, 1 fault | `OnceInOrder`, `RangesExact`, `ResendEnds`, `KeptUntilPassed` | packets overtake each other, leave holes that are filled or expire, arrive too far ahead, twice or never; the number of resends is not bounded |

The type invariant of a module is a conjunct of its first invariant, or the theorem `TypeCorrect`.
Bounds: `MaxDepth` (nested calls) in the main loop; `MaxHeld`, `MaxFreeze` in `Object`; `MaxWeak`,
`MaxMet` in `DataList`; `MaxId`, `MaxBlock` and the `emissions` of a kind in `Signal`; `MaxData`, `MaxUnread`, `MaxFaults` and the length of
`Posts` in `Rdp`. `MaxUnread` bounds every
queue between two threads of rdp, so a thread may be arbitrarily slow, but the other waits for it when
the queue has one entry. `Window` stands for 0x7fff, so that "too far ahead" happens with three packets.
`CountMod` stands for 2^32. `RWQueue` keeps its counters in their width, the other modules have no
counter that can wrap in a run of reasonable length.

Deadlock is checked in `main`, `sources`, `quark` and `resource`. In the other runs the system may
really stop: the queue is gone, all pools are deleted, every location has a value, all packets have
been handled, the object is deleted, the emissions are used up, or the program is undefined (`DataList`); a
scene may not change.

What some properties leave out, and why:

* `ListsExact` is checked with `Reprioritise = FALSE`, and `NeverLessPriority` (what the comment of
  `main_context_check_U` promises; proved, no property of a run) needs the same. When a priority changes while
  `check()` runs without the lock, the source is appended to another list and neither holds; the iterator's own
  problem there is `IteratorKeepsList`.
* `ReadyIsDispatched` only speaks of sources of one priority: a more urgent source that is always
  ready keeps the others waiting, by design.
* `DeletedIsFreed` excepts a *stranded* pool, one whose queue holds tasks while every thread that
  could take them has gone; that a pool can be stranded is what `DeleteReturns` says
  (section 7).
* `QuitStops` is about the innermost loop of any thread, nested or not, and excepts that thread's own poll
  without a timeout; that nothing ends such a poll is what `AttachWakesPoll` finds (section 7).
* `GroupIsWhole` speaks of resources that only this group calls: a resource in somebody else's claim
  is skipped by the group's operation, and the group's state is advanced all the same.
* `EnterReturns` needs a `Needs` without cycles between different locations. With one, two threads wait
  for each other; the thread's own list saves it only from itself.
* `FrameIsRight` excepts nodes that are *unheard*: marked, or with something marked below them, while the
  parent will not come to them. `HeardUnlessMoved` says how a node becomes so: it is attached while it still
  believes that it has told its (former) parent, or by `g_node_undirty`, which nothing in the repository
  calls. Together: without these two, a frame leaves nothing out.
* `RoundIsComplete` speaks of a round that ends by itself: a stop or a restart ends it earlier.
* `AskedIsGiven` is about signals that do not recurse, where a second emission asks the first to begin
  again. A request counts whenever it is made; the property names the two windows in which the code forgets
  one, the unlocked look and write of `xsignal.c:837-839` and the drop of the last handler after the last
  look (`xsignal.c:963`), and says that there is no third. `AskedIsAlwaysGiven` says that there is none at
  all, which is not so (section 7).
* `CalledAlive` speaks of the code of a handler; that the fast path references the closure before it runs
  is `ClosureIsAlive`, which fails (section 7).
* `QueueKept` and `PointersKnown` speak of lists in which no two operations have met (`met = 0`): each user's
  mutex and the order of its steps are then enough. `ListIsKept` is the first without that condition,
  and fails (section 7). `FlagExact` holds whoever meets: the pointer is compared and swapped.
* `KeptUntilPassed` lets a reliable packet leave the resend queue once the receiver has seen it or a later one.
  That it leaves only when it has arrived itself is `ReliableKept`, which fails (section 7).
* `PointersKnown` is about what the list holds, the same location twice included; who clears a location
  and who reads it from another thread is the program's affair and can race in the code.
* `NotLost` assumes a handler that stays connected and an emission without an accumulator, as "notify" has
  none (`xobject.c:723`): `accumulate` then returns TRUE (`xsignal.c:665`), and the write that may forget a
  request is never made.

## 5. Fairness

* `RWQueue`: weak fairness of the steps of an operation once it is begun and of a reader that polls. No
  fairness for beginning a write, a cancel, a shrink or an unref. `ShrinkFree`, `ShrinkStop` and
  `ShrinkRelink` are fair together: shrink is one loop of one thread.
* `ThreadPool`: weak fairness of the workers' steps and of the timeouts of their waits, since
  `x_cond_wait_timeout` returns at its deadline, and of the rest of a create or delete that an owner has
  begun; none for a wake-up without a cause, for the beginning of a call, or for the failure to create
  a thread.
* `MainContext`, `MainSources`: weak fairness of each thread's steps inside run and of a poll that has
  a timeout. A poll without one has no fairness: nothing ends it. Callbacks return. Nobody has to call
  run, quit, attach or release.
* `OnceInit` (`OnceFairSpec`): weak fairness of steps inside enter and leave, and strong fairness of `Assign`: between
  two requests for other locations an initialisation gets on with its own and does not ask for ever.
* `Resource`, `Quark`, `Object`, `DataList`, `Signal`, `SceneGraph`: none is needed and none is assumed. Their hard
  questions are about what is seen, counted or left out; no call waits for another but for a lock, and `quark` and
  `resource` check deadlock besides.
* `Rdp`: weak fairness of `WriteLate` (a write with room when some deadline has passed), `Update_W`,
  `WriteAcks` and of the arrival of some datagram of each direction. The write thread ticks for ever
  and deadlines are finite times. Loss, repetition and writes without room are bounded by `MaxFaults`:
  with an unbounded number no retransmission protocol ends.

## 6. Proofs

Thirty-six theorems in eight modules: thirty-four results, and two steps on the way to them (`Invariant` in
`ThreadPoolProof`, `OnceInductive` in `XosProof`). The lemmas they rest on are in the same modules, as a rule
one for each action. Three modules of proofs hold those of two models, whose names are chosen apart: `XosProof`,
`FrameworkProof` and `QuarkRdpProof`.

**`XosProof`** on `RWQueue`, for every finite set of nodes, non-empty set of values and counter modulus above 1:
`TypeCorrect`, `Inductive` (`Spec => []IInv`), `AssertionsHold`, `NodesStayAllocated`, `DrainIsExact`,
`LengthWithinOne`, `ImplementsFifo` (`Spec => Fifo`: initial states map to initial states of
`SpscChannel`, each action to one of its actions or a stutter).

The properties are not inductive by themselves. That `WriteLockTest` finds a free node says something
about the ring only if the node after `write_head` is either `read_ptr` or in nobody's hands. The
obvious statement, "following next from read_ptr comes back to it", needs reachability, which would
need induction along the ring. `IInv` avoids it: `WindowInv` makes the nodes from `read_ptr` to
`write_head` an explicit sequence without repetition that follows next; `LinkInv` says that next maps
the ring (the allocated nodes that were not dropped) into itself injectively, except for the one link
that shrink is rewriting. A node outside the window then cannot have its successor inside, other than
`read_ptr` itself, since every other place of the window already has a predecessor. `ReadyInv` states
which nodes carry the flag, between the two stores of each operation too; `RefInv` ties the reference
count to the threads that have left; `DrainInv` and `DeleteInv` say how far the two loops of unref are.

`LengthWithinOne` needs an invariant of its own besides, `LengthInv`: the equation of `LenWithinOne` in
every phase. Two counters that wrap independently keep it since counting on preserves congruence
(`Shift`), which rests on the uniqueness of division with remainder (`Remainder`, `Congruent`, `Apart`).

**`XosProof`** on `OnceInit`, for every set of threads and locations and *every* relation `Needs`, cyclic ones
included: `InitialisedOnce` and `FalseIsTrusted`. `OnceIInv` says that the threads' lists are disjoint and
free of repetition and that `_once_slist` is their union (`ListInv`), that `inits` is 1 exactly for the
locations that are in the list or have a value (`CountInv`), and what each place of the code may rely on
(`PlaceInv`).

**`QuarkRdpProof`** on `Quark`, for every set of threads and strings and every block size above 1: `Exact`
(`QuarksExact` is inductive as it stands) and `QuarkImplementsIntern`. The heart is `ReadersAgree`: the
array a reader has picked may have been replaced since, but every entry below the count was copied before
the new array was published, and no array is freed. The block arithmetic (when the array grows, and that
the entry for the next quark is then inside it) is proved from division with remainder. A reader's answer
is a `Tell` of `Intern`; a call that holds the lock answers in one step, since the lock makes its look-up
and its answer one with respect to everyone else who may change the table.

**`QuarkRdpProof`** on `Rdp`, for any packets of any kinds, any window and any number of datagrams under way,
of unread messages and of faults: `PacketsComeOnceInOrder` and `RangesAreExact`. `RdpInv` says that every
packet anywhere on its way has a number that the sender has used, and a place in its sequence below the next
one (`PacketsInv`); that the number of what waits to be handed out, or was, is `Here`: below the base of the
receiver or a filled place above it (`PlacesInv`), and that the first place is never filled, so that a base
that moves on passes over what is here or given up and over nothing else. A packet whose place is a hole is
therefore in neither queue, and enters only once (`OnceInv`); and what was handed out of a sequence is
below the index that the next one is compared with (`OrderInv`). The ranges are `Apart`: whole, ascending,
and with a number missing between any two. `InsertIs` shows of `Insert`, for all of its cases at once, that it
keeps them so and adds its number only: the ranges that the new one touches are consecutive, and a range
takes their place (`Splice`). What the recursive functions (the scan of the resend queue, the insertion of
a queue, the delivery) leave when they end is proved without an induction: were it false at some step, there
would be a least one (`LeastNumber`), and the step before it keeps it.

**`ThreadPoolProof`**, for any finite sets of pools and threads, any tasks and any limits: `CountsAreExact`,
`FreedByTheLast` and `EveryTaskRuns`. A worker without a pool still counts in `unused_threads`, and a pool
counts the calls to it that idle threads have not taken yet, so `Counts` states both, and for pools that
were freed too: whoever frees a pool does so because its count is 0, and `NoThreads` concludes that nobody
has it. `FreerOK` and `PoolOK` say how far the owner is: a worker that is to free a pool is the only one and
comes after the owner; `QueueOK`, `RunOK` and `TaskOK` that a task is in one place, and that a marker is only
in the queue of a pool that stops at once. That fewer threads than the limit stay idle is not inductive: a
thread that has passed the test and not yet gone to sleep counts as well (`Staying`). An owner that waits
goes on when its pool is idle (`Idle`), which the counts turn into "no thread runs a task and none is
queued" (`IdleIsDone`). A step moves one thread, so `Change` (a set of threads that differs in one of them)
gives all the counts of a step at once (`Moved`); the calls are positions in a queue, which move up when
its head is taken (`CallTaken`, a bijection).

**`ObjectProof`**, for any finite set of threads, any properties and any bounds: `CountsAreExact`,
`NothingIsGone`, `NothingIsLost`, of an object without weak references and user data. The three hold only
together: that a thaw which counts down to 0 may free the queue rests on the count of the queue (`Freezes`),
that dispose may begin when the count reaches 0 on the count of the object (`Claims`): a thread with a
reference, in a call that took one, or in an emission, would be counted (`EndOK`). `IInv` adds where each
call may be and what it has in its hands (`PlaceOK`, `HandsOK`), and that nobody but its maker knows an
object in `x_object_newv` (`MakingOK`), whose queue its maker has frozen twice. A change that an emission
hands over to another thread (`EmitAgainStep`) is not lost because that one's round is not over: its state
is no longer "seen", which `NotLost` counts as a place for a change, until the handler has looked again.

**`SignalProof`**, for any finite set of threads, any handlers, kinds of signals and bounds, and for the
five properties the run checks: `CountsAreExact`, `ListIsExact`, `RoundsAreComplete`, `TheCalledAreAlive`,
`TheAskedIsGiven`. `IInv` says of every emission on every stack, in the middle of it or on top, where it stands
(`PlaceOK`) and what that means for its round: whom it has called lies behind the handler it stands on
(`CalledOK`), whom it still has to call lies ahead (`DueOK`), and whoever is due is connected and open. The
counts are exact because a step changes the frame in one place, and at most puts a dropped handler on it:
the sets of frames that refer to a handler then differ in that place (`OneChanged`, `TwoChanged`). The list
has no induction: `InOrder` says of each handler that its `next` is the one of least rank above it among the
referenced, its `prev` the one of greatest rank below, and `Unlinked` and `Inserted` that the two functions
keep that; that next then leads from the head to all of them follows from the well-foundedness of ranks
(`AliveListed`). It is not true that a handler stays linked while an emission stands on it because it is
connected; it stays because the emission's own reference keeps its count above 0 (`HeldIsAlive`), and the
rank of a handler does not change before it is freed, so the emission's place survives whatever the handlers
do. The closure's count is that of its handler and of the fast paths and drops under way (`ClosureOK`); the
unlocked test in `x_closure_unref` invalidates a closure only if nobody else has it (`LastRelease`). A request
to begin again is counted at whatever moment it is made: `asked` says in which of the windows "stop", "pop" (the
two in which it can be forgotten) or "open" (any other moment) one was. The third is there only while the
emission's state still says "restart" and a look at it is yet to come (`EmitOK`), and a new round empties
`asked`.

**`MainContextProof`**, for any threads, loops and sources and any depth: `ContextIsExact`. `IInv` adds
`InRun` (who is not in user code is in `x_main_loop_run`) to `OwnerExact` and `WaitersWait`; that a round
is run by the owner alone (`IterateOwns`) then follows, as a thread in a round has acquired the context at
least once and `OwnerExact` allows that to one thread only. The lemmas about lists say that taking the
head, or the node of a thread, out of the waiters leaves the others, each once.

**`MainSourcesProof`**, for any finite set of sources, any finite set of priorities and any depth of nested
rounds: `SourcesAreExact` and `EachListedOnce`, whatever priorities change; `ListsAreExact` and
`ChoosesInOrder` as long as none changes while `check()` runs without the lock (`Reprioritise` is FALSE: with
it the two properties are not those of the code, see section 7). `IInv` makes a source's count a sum over
whoever refers to it, of the frames of nested rounds as well, and states it for sources that are new or
freed too (`CountInv`): a source lives as long as its count is not 0, so what a count contains is alive. The
iterator's reference is not the last one, even of a source that was destroyed under it (`PlaceInv`), hence
a step of the walk frees nothing that it still needs. `ListInv` says that the lists are the live sources,
each once, and `EntryInv` which entries of `dispatches` are taken: a nested round drops the rest of the
outer one's, which the outer dispatch then finds empty. That a walk chooses a source once and in order
needs to know where it is: `WalkInv` says that what it has chosen lies behind it in the order of the lists
(`Before`), although sources come and go between two steps, and `QueueInv` that what was chosen stays ready
until it is taken. A count changes by one entry, one frame or one flag at a time; the lemma `Change` gives
the cardinality of the set that a step leaves.

**`FrameworkProof`** on `Resource`, for any threads, any finite set of resources and whatever their methods call:
`ClaimsAreInOrder` and `GroupsAreWhole`. `IInv` says what each frame of each thread's stack knows
(`FramesOK`: its arguments; if it has claimed its object, the transient state and what the methods have made
so far), that no two frames claim one object (`Unique`), that a transient state is somebody's claim (`Owned`),
and that the state of what nobody has claimed says what it is made into (`StateSays`). The step that matters
is the compare-and-swap (`CasInv`): it succeeds only in a steady state, which by `Owned` and `Unique` nobody
has claimed. That a group visits its resources in the order of a sort needs a fact about finite sets whose
proof is an induction; it is a conjunct of `ResourceAssumption` (every set of resources can be listed in
the order of `Order`), true of every finite set, and TLC evaluates it.

`GroupIsWhole` is about a group that rests, and nothing about it follows from the states of that moment: its
invariant has to follow an operation down through the methods and back. `WholeInv` does so for the group's
*own* resources (`OwnOf`), those that its operation goes through and that no thread, no move and no other group calls. Who
stands on such a resource has come from the group (`StackOK`, whose `AboveOK` says of each call on a stack
which call below it made it), and the group's claim lets one call at a time do so; so what it has read is still there when it
compares (`CasOK`), and a call for an own resource never finds it in another's hands. `RoundOK` says that what a
round has called and heard from is as far as the round wants it; `ShutOK` that a resource has not been made
into something before what it calls has been, except that the group's `unload` may come to what is called
(`UndoneOf`) and leave what calls it as it was; `SteadyOK` what that means for a group at rest.
Most steps change the state of one object (`Replaced`, `Raised`, `Dropped`), so each conjunct is kept by a
lemma about such a change. Two more conjuncts are about lists: a resource that
nobody can have called is unloaded (`TouchedOK`), and what a group's last operation went through is still what
the group has, but for the resources that are moved (`KeptOK`).

The proof found what the property rests on: a class calls in `load` what it has called in `prepare`, and in
`unload` what it has called in `load`, or fewer. A class that calls one resource when it prepares and another
when it unloads leaves the first as it is in a group that is "unloaded". It is a conjunct of
`ResourceAssumption`: `gpass.c:105`, `gtechnique.c:24` and `gtexunit.c:26` call the same in their three methods,
`gmaterial.c:70` the same in the two it has, `gmesh.c:73` its skeleton in `prepare` only, and the other classes
call no resources.

**`FrameworkProof`** on `SceneGraph`, for any nodes, finite in number or not, and whatever each may be
attached to: `ChildrenAreListed`, `FramesAreRight` and `HeardUnlessMovedAlways`. What decides is `Told`: a
transform that is not right is marked, or some ancestor of the node is marked to update all that is below
it. It is kept by a change because all below the node that changes is below it afterwards too, wherever it
has gone (`BelowKept`), and the ancestors of the others are not touched (`LineKept`); by a transform that is
computed because it is computed together with the marked parents it rests on (`Rests`, `FreshTold`: what is
still wrong then has a marked ancestor that it shares with what it rests on); and by an update because an
update that comes to a node with `child_dirty` leaves out nothing below it (`ChangedAll`), which rests on
`ChildrenListed`. That a frame leaves nothing out (`FrameReaches`) follows without an induction along the
line of ancestors: the ancestors of a node that still have a mark and that the update has missed would be
closed under going up, so all of the scene could be reached from the root without them, and the node is one
of them. The root has no parent, as `g_scene_root_node` makes it and nobody attaches it (`GraphAssumption`).
`MarkHears` says whom a change leaves unheard: it is the node that has a new parent and takes what it told
the old one for told.

Assumptions: those named in the modules (`NodeAssumption`, `ValueAssumption`, `CountAssumption`,
`PoolAssumption`, `OnceAssumption`, `QuarkAssumption`, `ResourceAssumption`, `MainAssumption`,
`SourcesAssumption`, `ObjectAssumption`, `DataListAssumption`, `RdpAssumption`, `SignalAssumption`,
`GraphAssumption`), which TLC evaluates in every run. What stays with TLC is liveness, as fairness and ENABLED are
out of the prover's reach, and so far `KeptUntilPassed` of `Rdp` and the three properties of `DataList`. Every
other property of a run has its theorem; `DrainExact` of `RWQueue` and `NeverLessPriority` of `MainSources` have
one and no run.

## 7. Where code and its documentation disagree

These properties are stated in the modules, at the code they are about, and are *not* properties of the code.
No run has them; each is refuted within seconds when the configuration of its module is changed as said:

1. `FreesAllNodes` (`RWQueue`; `Spec`, one value, `CountMod = 2`): `x_rwqueue_shrink`
   (`xasyncqueue.c:219`) reads `read_ptr` a second time after its loop; a node the reader releases in
   between drops out of the ring. The comment of `x_rwqueue_unref` says that it frees all nodes.
2. `DeleteReturns` (`ThreadPool`; one pool, not exclusive): `x_thread_pool_delete(pool, FALSE, TRUE)`
   (`xthreadpool.c:402`) can wait for ever; `tests/test-gc.cpp:79` calls it and counts the results.
3. `AttachWakesPoll` (`MainContext`; two threads, one loop, `MaxDepth = 1`): `x_source_attach`
   (`xmain.c:1519`) signals a wakeup that no poll waits for, under a comment that says that it wakes the
   owner up.
4. `IteratorKeepsList` (`MainSources`; `Spec`, `MaxDepth = 1`, `Reprioritise = TRUE`, no deadlock check):
   `source_iter_next_L` (`xmain.c:798`) holds a reference so that the list under it is not removed;
   `x_source_set_priority` removes it whatever the references are.
5. `BoxIsEntire` (`SceneGraph`, as a PROPERTY): `g_scene_node_attach` marks the box of the node alone, and
   `notify_bounding_diry` stops at a marked node (`gscenenode.c:273`): the boxes above lack the new movable.
   A change of place never marks the boxes of the children either.
6. `ClosureIsAlive` (`Signal`): on the fast path the closure is picked under the lock and referenced after
   it is released (`xsignal.c:1398`); a disconnect in between frees it, which `x_closure_ref` asserts
   against and then refuses. `CalledAlive`, which holds, says that the emission goes no further.
   `InvalidatedFirst` (`Signal`) fails too: two threads that drop the last two references both read a
   count of 2 (`xclosure.c:415`), and the closure is freed without having been invalidated.
7. `AskedIsAlwaysGiven` (`Signal`, as a PROPERTY): a second emission of a signal that does not recurse calls no
   handler and asks the first to begin again (`xsignal.c:719-722`); the first may be about to write "stop" over
   the request (`:837-839`), or past its last look at it. The comment at `xsignal.c:1366-1368` relies on it.
8. `ListIsKept` (`DataList`; `MaxMet = 1`): the lock of a data list is an empty function
   (`xbit.c:24-41`), while `xdata.c:13` says that accesses to the list "have to be carried out atomically"; the
   queue of an object and its weak references are under two mutexes, and a freeze that meets a weak reference
   writes beyond the list or loses an entry.
9. `ReliableKept` (`Rdp`, as a PROPERTY): `markResend_W` (`rdp_sender.cpp:68`) marks missed packets as it marks
   received ones, and a reliable packet with the mark is erased; `rdp_sender.hpp:16` says that it is sent again.

Met while reading, without a run: `x_idle_add_full` attaches its source to a NULL context
(`xmain.c:1681`); the test of X_SOURCE_CAN_RECURSE in main_dispatch_L is inverted and the flag never
set; the idle wait of a worker is 15000 * 1000 ms; `RangeList::insert` of a range that ends in the gap
before a later one joins that one too (`rdp_rangelist.hpp:39-53`), which the callers never do, as they
insert single numbers; the clamp of `betweenResendTime_` has its bounds exchanged
(`rdp_sender.cpp:169`); a reliable copy that comes after its hole has expired (600 ms, the first resend
comes after 1 s) is acknowledged and dropped; a pointer difference is used as a count
(`xresource.c:112`); `x_resource_unload` calls the
method of a class that has none (`xresource.c:281`; `gmaterial.c:110`, `gmesh.c:153`, `gskeleton.c:127`);
`x_ptr_array_remove_data` never
removes entry 0 (`xarray.c:714`); `x_data_list_foreach` calls its function with entry `i` where it has
tested entry `j` (`xdata.c:341`); `gtarget.c:199` adds a weak pointer where it should remove one; ten
classes of gfw do not chain up in `finalize` (`gmesh.c:122`), and the one of `gscenenode.c` references a
hash table where it should release it; `g_node_detach` uses the node after it has dropped the parent's
reference (`gnode.c:366`); `x_signal_clean` does nothing; `block_count` is a signed field of 16 bits (`xsignal.c:81`) under a
limit of 1 << 16. `xhook.c:88`, `xgc.c:624`, `xatomicarray.c:58` and `rdp_transport.cpp:99` are
worth a look when their parts are modelled.

## 8. Limits

* Memory is sequentially consistent. `RWQueue` splits every operation at each access to a shared field
  and in the order of the program, but does not reorder stores.
* `ThreadPool`: the branch of `thread_pool_wait_for_new_pool` for the marker that makes idle threads
  read new limits is unreachable (nobody pushes it, the limits have no setter), and the sorted insert
  is not used by any pool.
* `MainContext`, `MainSources`: file descriptors and child sources are left out, as no function of
  `xmain.h` creates them; the arithmetic of timeouts is a choice; a waiter's mutex is always the
  context's, so the branch of `main_context_release_U` that locks another one (`xmain.c:280`) is
  unreachable; callback objects and their counts are left out.
* `OnceInit`: a leave without a value (`x_once_init_leave` of a null location) is a misuse it asserts
  against and is left out.
* `Quark`: where the strings are copied to is left out; a quark of NULL is 0 and never asked for.
* `Object`: one object of a class whose properties can be read and which chains up; values, user data and
  the search for properties are left out. A handler of "notify" that sets properties is a thread of its
  own. `freeze_count` has 16 bits in the code and is bounded by the calls here. Reading a weak pointer from
  another thread than the one that ends the object is a race the code leaves to its callers. The handler of
  "notify" stays connected throughout. `x_object_unsink` (`xobject.c:1206-1216`) is called where an instance is
  initialised only, and is the floating flag of `Init`.
* `DataList`: the list of one object, with the keys of the queue and of the weak references. Data sets by
  location (`dataset_ht`), `foreach` and user data are left out; a loop over the entries is one step, as is what
  is done under one mutex to a queue or a stack of references. What memory holds after it was freed, or beyond a
  block, is not modelled: its use ends the model (`Stray`), and the properties say when that cannot happen.
* `Signal`: one signal of one instance; matched blocking, emission hooks (nothing in the repository sets
  one), overriding and chaining up, guards, values and marshalling are left out. What a closure does
  without the lock touches nothing the lock protects, and is taken to happen while nobody holds it.
* `SceneGraph`: transforms and boxes are right or wrong, not numbers; a node holds at most one movable; the
  matrices of `g_node_mat4` and `g_node_offseted`, which have marks of their own, visibility and rendering
  are left out, and nodes live for ever. A node is not attached below itself, nor
  below a node that a former detach left in an array under it, where the code would walk in a circle. What is
  said of boxes serves `BoxIsEntire`.
* `Resource`: classes have all three methods (materials, meshes and skeletons have no `unload`; see section
  7); mounting, opening of files and the lifetime of objects
  are left out: a resource that is disposed of while a group's copy of its list is under way is not
  covered.
* `Rdp`: one ordering channel; kOrderable and split packets are left out (their slots are null at
  `rdp_receiver.cpp:354`, and `Packet::merge` returns 0); a datagram holds one packet; priorities and
  statistics are left out; time is a choice, so a deadline may pass at once or late, and holes expire
  oldest first.

## 9. Plan

Done: the lock-free queue, once init, pools, the main loop, resources, rdp's two ends; then the scene
graph, signals with closures, objects, quarks with their promise. What is left, in order:

1. `ClassLife` with `TypeModule`: class reference counts over `OnceInit`'s guarantees, plug-ins that are
   unloaded with their last class.
2. `DataList`: data sets by location, `foreach`, user data, and theorems; `HookList`: hooks that destroy themselves or the
   next one while the list is walked.
3. Callback objects in `MainSources` (`xmain.c:1583`); the lifetime of resources in `Resource`; mounting and
   file tables.
4. The garbage collector; the slice allocator's magazines and depots; the hash table as a pure algorithm.
5. rdp: joining an end point, the Disturber, kOrderable, and the whole of `RangeList` as operators checked
   against sets.
6. Theorems: the counterpart of `RangesAreExact` for all of `RangeList`.

Not planned, since there is little a model could say: text and file wrappers, options and messages, values
and parameters, JSON, vector mathematics, animation, the graphics interface and what is vendored.
