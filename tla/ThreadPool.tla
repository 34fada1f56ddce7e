----------------------------- MODULE ThreadPool -----------------------------
(***************************************************************************)
(* xThreadPool (xos/src/xthreadpool.c) over xASQueue (the second half of   *)
(* xos/src/xasyncqueue.c): pools of workers, each with a task queue, and   *)
(* one global queue in which workers without a pool wait for one.          *)
(*                                                                         *)
(* The state of a pool is read and written under its queue's mutex, so a   *)
(* critical section is one action: from taking the lock, or waking up with *)
(* it, to releasing it, or waiting on a condition.  x_asqueue_push does    *)
(* not signal the queue's condition: a thread that waits for an element is *)
(* woken by its timeout, or by a wakeup without a cause, which POSIX       *)
(* allows and x_asqueue_pop_timeout_unlocked expects.                      *)
(*                                                                         *)
(* The marker that would make idle threads read new limits is never pushed *)
(* by anybody, and the limits have no setter: that branch of               *)
(* thread_pool_wait_for_new_pool cannot be reached and is left out.        *)
(***************************************************************************)
EXTENDS Integers, Sequences, FiniteSets

CONSTANTS
  Pool,
  Thread,           \* threads the system can create at a time
  Task,
  Marker,           \* what thread_pool_wakeup_and_stop_all_L pushes
  None,
  Exclusive,        \* the pools created with exclusive set
  MaxThreads,       \* max_threads of each pool, -1 for no limit
  MaxUnused         \* _max_unused_threads

ASSUME PoolAssumption ==
  /\ IsFiniteSet(Pool) /\ IsFiniteSet(Thread)
  /\ Exclusive \subseteq Pool
  /\ MaxThreads \in [Pool -> Int]
  /\ \A p \in Pool : MaxThreads[p] >= -1 /\ (p \in Exclusive => MaxThreads[p] # -1)
  /\ Marker \notin Task \cup {None} /\ None \notin Pool \cup Task
  /\ MaxUnused \in Nat \ {0}

VARIABLES
  pool,             \* the fields of each RealThreadPool, and whether it is freed
  queue,            \* pool.queue, first the element popped next
  uq,               \* _unused_thread_queue
  uq_waiting,       \* its waiting_threads
  unused_threads,   \* _unused_threads
  pc,               \* where each thread is
  at,               \* the pool it works for
  task,             \* the task it runs
  client,           \* where the owner of each pool is
  pushed,           \* the tasks given to x_thread_pool_push, and to which pool
  ran               \* the tasks whose function has been called

vars == <<pool, queue, uq, uq_waiting, unused_threads, pc, at, task, client,
          pushed, ran>>

TypeOK ==
  /\ pool \in [Pool -> [running : BOOLEAN, immediate : BOOLEAN,
                        waiting : BOOLEAN, num_threads : Nat,
                        waiting_threads : Nat, freed : BOOLEAN]]
  /\ queue \in [Pool -> Seq(Task \cup {Marker})]
  /\ uq \in Seq(Pool)
  /\ uq_waiting \in Nat
  /\ unused_threads \in Nat
  /\ pc \in [Thread -> {"none", "loop", "wait", "run", "free", "seek", "check",
                        "pop", "idle", "got", "stop"}]
  /\ at \in [Thread -> Pool \cup {None}]
  /\ task \in [Thread -> Task \cup {None}]
  /\ client \in [Pool -> {"none", "creating", "live", "waiting", "woken",
                          "free", "done"}]
  /\ pushed \in [Task -> Pool \cup {None}]
  /\ ran \in SUBSET Task

Init ==
  /\ pool = [p \in Pool |-> [running |-> TRUE, immediate |-> FALSE,
                             waiting |-> FALSE, num_threads |-> 0,
                             waiting_threads |-> 0, freed |-> FALSE]]
  /\ queue = [p \in Pool |-> << >>]
  /\ uq = << >> /\ uq_waiting = 0 /\ unused_threads = 0
  /\ pc = [t \in Thread |-> "none"]
  /\ at = [t \in Thread |-> None]
  /\ task = [t \in Thread |-> None]
  /\ client = [p \in Pool |-> "none"]
  /\ pushed = [d \in Task |-> None]
  /\ ran = {}

-----------------------------------------------------------------------------
(* Operators on one pool's fields *)

\* x_asqueue_length_unlocked: elements less the threads waiting for one.
LengthUnlocked(p) == Len(queue[p]) - pool[p].waiting_threads

Unlimited(p) == MaxThreads[p] = -1

\* The pool's lock is held throughout x_thread_pool_new_full's loop.
Unlocked(p) == client[p] # "creating"

-----------------------------------------------------------------------------
(* thread_pool_start_thread, called with the pool's lock held *)

EnoughThreads(p) == ~Unlimited(p) /\ pool[p].num_threads >= MaxThreads[p]

\* A thread waits in the global queue: the pool is pushed there for it.
StartFromUnused(p) ==
  /\ Len(uq) - uq_waiting < 0
  /\ uq' = Append(uq, p)
  /\ UNCHANGED <<pc, at>>

StartNew(p) ==
  /\ Len(uq) - uq_waiting >= 0
  /\ \E t \in Thread :
       /\ pc[t] = "none"
       /\ pc' = [pc EXCEPT ![t] = "loop"]
       /\ at' = [at EXCEPT ![t] = p]
  /\ UNCHANGED uq

StartThread(p) == StartFromUnused(p) \/ StartNew(p)

\* x_thread_try_new fails.
CannotStart(p) ==
  /\ Len(uq) - uq_waiting >= 0
  /\ \A t \in Thread : pc[t] # "none"

-----------------------------------------------------------------------------
(* The owner of a pool *)

Create(p) ==
  /\ client[p] = "none"
  /\ client' = [client EXCEPT ![p] = IF p \in Exclusive THEN "creating"
                                                        ELSE "live"]
  /\ UNCHANGED <<pool, queue, uq, uq_waiting, unused_threads, pc, at, task,
                 pushed, ran>>

\* One turn of the loop that starts an exclusive pool's threads.
CreateThread(p) ==
  /\ client[p] = "creating"
  /\ \/ /\ pool[p].num_threads < MaxThreads[p]
        /\ StartThread(p)
        /\ pool' = [pool EXCEPT ![p].num_threads = @ + 1]
        /\ UNCHANGED client
     \/ /\ pool[p].num_threads >= MaxThreads[p] \/ CannotStart(p)
        /\ client' = [client EXCEPT ![p] = "live"]
        /\ UNCHANGED <<pool, uq, pc, at>>
  /\ UNCHANGED <<queue, uq_waiting, unused_threads, task, pushed, ran>>

\* x_thread_pool_push: a thread is started unless one waits in the queue; the
\* task is queued even when that fails.
Push(p, d) ==
  /\ client[p] = "live"
  /\ pushed[d] = None
  /\ \/ /\ LengthUnlocked(p) >= 0 /\ ~EnoughThreads(p)
        /\ StartThread(p)
        /\ pool' = [pool EXCEPT ![p].num_threads = @ + 1]
     \/ /\ LengthUnlocked(p) < 0 \/ EnoughThreads(p) \/ CannotStart(p)
        /\ UNCHANGED <<pool, uq, pc, at>>
  /\ queue' = [queue EXCEPT ![p] = Append(@, d)]
  /\ pushed' = [pushed EXCEPT ![d] = p]
  /\ UNCHANGED <<uq_waiting, unused_threads, task, client, ran>>

Markers(n) == [i \in 1 .. n |-> Marker]

\* Every thread of pool p, whose fields are r, waits, and no task is left.
Idle(p, r) == Len(queue[p]) - r.waiting_threads = -r.num_threads

\* The owner is the one to free the pool.
OwnerFrees(p, r) == (r.immediate \/ Idle(p, r)) /\ r.num_threads = 0

\* x_thread_pool_delete from the test after its wait: r is the pool as it is
\* then.
DeleteFinish(p, r) ==
  IF OwnerFrees(p, r)
    THEN /\ client' = [client EXCEPT ![p] = "free"]
         /\ pool' = [pool EXCEPT ![p] = r]
         /\ UNCHANGED queue
    ELSE /\ client' = [client EXCEPT ![p] = "done"]
         /\ pool' = [pool EXCEPT ![p] =
              [r EXCEPT !.immediate = @ \/ Idle(p, r), !.waiting = FALSE]]
         /\ queue' = [queue EXCEPT ![p] = IF r.immediate \/ Idle(p, r)
                                            THEN @ \o Markers(r.num_threads)
                                            ELSE @]

\* Mutant: waits for the queue to be empty only.
MustWaitQueue(p, r) == queue[p] # << >>

\* The condition of the loop that waits for the pool's threads.
MustWait(p, r) ==
  /\ ~Idle(p, r)
  /\ ~(r.immediate /\ r.num_threads = 0)

Delete(p, immediate, wait) ==
  /\ client[p] = "live"
  /\ immediate \/ MaxThreads[p] # 0
  /\ LET r == [pool[p] EXCEPT !.running = FALSE, !.immediate = immediate,
                              !.waiting = wait]
     IN  IF wait /\ MustWait(p, r)
           THEN /\ client' = [client EXCEPT ![p] = "waiting"]
                /\ pool' = [pool EXCEPT ![p] = r]
                /\ UNCHANGED queue
           ELSE DeleteFinish(p, r)
  /\ UNCHANGED <<uq, uq_waiting, unused_threads, pc, at, task, pushed, ran>>

\* x_cond_wait returns, after a broadcast or without a cause.
DeleteWoken(p) ==
  /\ client[p] \in {"waiting", "woken"}
  /\ IF MustWait(p, pool[p])
       THEN /\ client' = [client EXCEPT ![p] = "waiting"]
            /\ UNCHANGED <<pool, queue>>
       ELSE DeleteFinish(p, pool[p])
  /\ UNCHANGED <<uq, uq_waiting, unused_threads, pc, at, task, pushed, ran>>

\* thread_pool_delete, after the lock is released.
ClientFree(p) ==
  /\ client[p] = "free"
  /\ client' = [client EXCEPT ![p] = "done"]
  /\ pool' = [pool EXCEPT ![p].freed = TRUE]
  /\ UNCHANGED <<queue, uq, uq_waiting, unused_threads, pc, at, task, pushed,
                 ran>>

-----------------------------------------------------------------------------
(* A worker in its pool: thread_pool_wait_for_new_task, thread_pool_thread *)

\* Mutant: the test of waiting is missing.
OrphanOwned(r) == ~r.running

\* A pool that is deleted and whose owner does not wait for it.
Orphan(r) == ~r.running /\ ~r.waiting

\* Mutant: "<" for "<=".
TellsOwnerStrict(p, r) ==
  /\ ~r.running /\ r.waiting
  /\ r.immediate \/ Len(queue[p]) - r.waiting_threads < 0

\* The owner waits, and the pool has no tasks left or shall stop at once.
TellsOwner(p, r) ==
  /\ ~r.running /\ r.waiting
  /\ r.immediate \/ Len(queue[p]) - r.waiting_threads <= 0

\* A worker leaves pool p, whose fields are r once it is counted out.  The last
\* one frees a pool that nobody waits for; an earlier one stops the others when
\* they all wait.
LeavePool(t, p, r) ==
  LET last == Orphan(r) /\ r.num_threads = 0
      stop == Orphan(r) /\ r.num_threads # 0 /\ Idle(p, r)
  IN  /\ pc' = [pc EXCEPT ![t] = IF last THEN "free" ELSE "seek"]
      /\ at' = [at EXCEPT ![t] = IF last THEN p ELSE None]
      /\ pool' = [pool EXCEPT ![p] = [r EXCEPT !.immediate = @ \/ stop]]
      /\ queue' = [queue EXCEPT ![p] = IF stop THEN @ \o Markers(r.num_threads)
                                               ELSE @]
      /\ client' = [client EXCEPT ![p] = IF TellsOwner(p, r) /\ @ = "waiting"
                                            THEN "woken" ELSE @]
      /\ UNCHANGED task

Leave(t, p, r) == LeavePool(t, p, [r EXCEPT !.num_threads = @ - 1])

\* A task is run unless the pool shall stop at once.
RunsTasks(r) == r.running \/ ~r.immediate

\* A worker takes the next element of pool p, whose fields are r.  A marker, or
\* a task of a pool that shall stop at once, is dropped.
TakeTask(t, p, r) ==
  /\ queue' = [queue EXCEPT ![p] = Tail(@)]
  /\ pool' = [pool EXCEPT ![p] = r]
  /\ IF RunsTasks(r)
       THEN /\ pc' = [pc EXCEPT ![t] = "run"]
            /\ task' = [task EXCEPT ![t] = Head(queue[p])]
       ELSE /\ pc' = [pc EXCEPT ![t] = "loop"]
            /\ UNCHANGED task
  /\ UNCHANGED <<at, client>>

\* The pool is active and this thread is not one too many.
KeepsThread(p) ==
  /\ pool[p].running \/ (~pool[p].immediate /\ LengthUnlocked(p) > 0)
  /\ Unlimited(p) \/ pool[p].num_threads <= MaxThreads[p]

WaitForNewTask(t) ==
  LET p == at[t]
  IN  /\ pc[t] = "loop" /\ Unlocked(p)
      /\ CASE ~KeepsThread(p) -> Leave(t, p, pool[p])
           [] KeepsThread(p) /\ queue[p] # << >> -> TakeTask(t, p, pool[p])
           [] OTHER ->
                /\ pool' = [pool EXCEPT ![p].waiting_threads = @ + 1]
                /\ pc' = [pc EXCEPT ![t] = "wait"]
                /\ UNCHANGED <<queue, at, task, client>>
      /\ UNCHANGED <<uq, uq_waiting, unused_threads, pushed, ran>>

\* The condition wait of x_asqueue_pop_timeout_unlocked returns without its
\* timeout and finds an element.
WaitWakes(t) ==
  LET p == at[t]
  IN  /\ pc[t] = "wait" /\ Unlocked(p)
      /\ queue[p] # << >>
      /\ TakeTask(t, p, [pool[p] EXCEPT !.waiting_threads = @ - 1])
      /\ UNCHANGED <<uq, uq_waiting, unused_threads, pushed, ran>>

\* It times out: NULL is returned without another look at the queue.  An
\* exclusive pool's thread waits without a timeout.
WaitTimesOut(t) ==
  LET p == at[t]
  IN  /\ pc[t] = "wait" /\ Unlocked(p)
      /\ p \notin Exclusive
      /\ Leave(t, p, [pool[p] EXCEPT !.waiting_threads = @ - 1])
      /\ UNCHANGED <<uq, uq_waiting, unused_threads, pushed, ran>>

\* pool->func has returned.
RunTask(t) ==
  /\ pc[t] = "run"
  /\ ran' = ran \cup {task[t]}
  /\ task' = [task EXCEPT ![t] = None]
  /\ pc' = [pc EXCEPT ![t] = "loop"]
  /\ UNCHANGED <<pool, queue, uq, uq_waiting, unused_threads, at, client,
                 pushed>>

WorkerFree(t) ==
  /\ pc[t] = "free"
  /\ pool' = [pool EXCEPT ![at[t]].freed = TRUE]
  /\ pc' = [pc EXCEPT ![t] = "seek"]
  /\ at' = [at EXCEPT ![t] = None]
  /\ UNCHANGED <<queue, uq, uq_waiting, unused_threads, task, client, pushed,
                 ran>>

-----------------------------------------------------------------------------
(* A worker without a pool: thread_pool_wait_for_new_pool *)

SeekEnter(t) ==
  /\ pc[t] = "seek"
  /\ unused_threads' = unused_threads + 1
  /\ pc' = [pc EXCEPT ![t] = "check"]
  /\ UNCHANGED <<pool, queue, uq, uq_waiting, at, task, client, pushed, ran>>

SeekCheck(t) ==
  /\ pc[t] = "check"
  /\ pc' = [pc EXCEPT ![t] = IF unused_threads >= MaxUnused THEN "stop"
                                                            ELSE "pop"]
  /\ UNCHANGED <<pool, queue, uq, uq_waiting, unused_threads, at, task, client,
                 pushed, ran>>

\* Mutant: the element stays in the queue.
PoolPeeked(t) ==
  /\ uq # << >>
  /\ at' = [at EXCEPT ![t] = Head(uq)]
  /\ pc' = [pc EXCEPT ![t] = "got"]
  /\ UNCHANGED uq

\* x_asqueue_pop_timeout of the global queue, and its wait.
PoolTaken(t) ==
  /\ uq # << >>
  /\ uq' = Tail(uq)
  /\ at' = [at EXCEPT ![t] = Head(uq)]
  /\ pc' = [pc EXCEPT ![t] = "got"]

SeekPop(t) ==
  /\ pc[t] = "pop"
  /\ \/ PoolTaken(t) /\ UNCHANGED uq_waiting
     \/ /\ uq = << >>
        /\ uq_waiting' = uq_waiting + 1
        /\ pc' = [pc EXCEPT ![t] = "idle"]
        /\ UNCHANGED <<uq, at>>
  /\ UNCHANGED <<pool, queue, unused_threads, task, client, pushed, ran>>

IdleWakes(t) ==
  /\ pc[t] = "idle"
  /\ PoolTaken(t)
  /\ uq_waiting' = uq_waiting - 1
  /\ UNCHANGED <<pool, queue, unused_threads, task, client, pushed, ran>>

IdleTimesOut(t) ==
  /\ pc[t] = "idle"
  /\ uq_waiting' = uq_waiting - 1
  /\ pc' = [pc EXCEPT ![t] = "stop"]
  /\ UNCHANGED <<pool, queue, uq, unused_threads, at, task, client, pushed,
                 ran>>

\* "x_atomic_int_add (&_unused_threads, -1)", then the new pool or the end.
SeekLeave(t) ==
  /\ pc[t] \in {"got", "stop"}
  /\ unused_threads' = unused_threads - 1
  /\ pc' = [pc EXCEPT ![t] = IF pc[t] = "got" THEN "loop" ELSE "none"]
  /\ UNCHANGED <<pool, queue, uq, uq_waiting, at, task, client, pushed, ran>>

-----------------------------------------------------------------------------

ClientStep(p) ==
  \/ Create(p) \/ CreateThread(p)
  \/ \E d \in Task : Push(p, d)
  \/ \E immediate, wait \in BOOLEAN : Delete(p, immediate, wait)
  \/ DeleteWoken(p) \/ ClientFree(p)

WorkerStep(t) ==
  \/ WaitForNewTask(t) \/ WaitWakes(t) \/ WaitTimesOut(t)
  \/ RunTask(t) \/ WorkerFree(t)
  \/ SeekEnter(t) \/ SeekCheck(t) \/ SeekPop(t)
  \/ IdleWakes(t) \/ IdleTimesOut(t) \/ SeekLeave(t)

Next == (\E p \in Pool : ClientStep(p)) \/ (\E t \in Thread : WorkerStep(t))

Spec == Init /\ [][Next]_vars

\* Tasks end, threads go on, timeouts expire and a broadcast wakes the owner;
\* a wait need not end otherwise.
FairSpec ==
  /\ Spec
  /\ \A t \in Thread :
       WF_vars(\/ WaitForNewTask(t) \/ WaitTimesOut(t) \/ RunTask(t)
               \/ WorkerFree(t) \/ SeekEnter(t) \/ SeekCheck(t) \/ SeekPop(t)
               \/ IdleTimesOut(t) \/ SeekLeave(t))
  /\ \A p \in Pool :
       WF_vars(CreateThread(p) \/ ClientFree(p)
               \/ (client[p] = "woken" /\ DeleteWoken(p)))

-----------------------------------------------------------------------------
(* Properties *)

Attached(p) ==
  {t \in Thread : at[t] = p /\ pc[t] \in {"loop", "wait", "run", "got"}}

\* Calls of the pool for a thread that the global queue still holds.
Calls(p) == {i \in 1 .. Len(uq) : uq[i] = p}

\* Threads in the condition wait of the pool's queue, and of the global one.
Waiting(p) == {t \in Thread : pc[t] = "wait" /\ at[t] = p}
Idling == {t \in Thread : pc[t] = "idle"}

\* num_threads, which start_thread counts up long before the thread enters the
\* pool and the thread counts down when it leaves, is the number of threads
\* that work for the pool or are called to: it decides who frees the pool.
ThreadsCounted ==
  \A p \in Pool : ~pool[p].freed =>
    pool[p].num_threads = Cardinality(Attached(p)) + Cardinality(Calls(p))

\* waiting_threads of the pool's queue and of the global queue is the number of
\* threads in their condition wait, which x_asqueue_length_unlocked subtracts
\* to decide whether a thread is started, and whether the pool is done.
WaitersCounted ==
  /\ \A p \in Pool : pool[p].waiting_threads = Cardinality(Waiting(p))
  /\ uq_waiting = Cardinality(Idling)

\* Threads that pass the test of _unused_threads at the same time do not make
\* more than _max_unused_threads - 1 of them wait in the global queue.
IdleBounded == Cardinality(Idling) < MaxUnused

\* The counts by which threads decide are exact, and idle threads are few.
CountsHold == TypeOK /\ ThreadsCounted /\ WaitersCounted /\ IdleBounded

\* The threads that are to free the pool.
Freers(p) == {t \in Thread : pc[t] = "free" /\ at[t] = p}

\* No thread works for, waits in or is called to a pool that thread_pool_delete
\* has freed, nor is its owner in x_thread_pool_delete: whoever frees it is the
\* last to know it.
NoFreedPoolInUse ==
  \A p \in Pool : pool[p].freed =>
    /\ Attached(p) = {} /\ Calls(p) = {}
    /\ Freers(p) = {} /\ client[p] = "done"

\* What thread_pool_delete and x_asqueue_unref test before they free a pool and
\* its queue holds whenever they run, and only one thread runs them: otherwise
\* they return early and the pool leaks, or is freed twice.
FreePreconditions ==
  \A p \in Pool :
    Freers(p) # {} \/ client[p] = "free" =>
      /\ ~pool[p].running
      /\ pool[p].num_threads = 0 /\ pool[p].waiting_threads = 0
      /\ Cardinality(Freers(p)) + (IF client[p] = "free" THEN 1 ELSE 0) = 1

\* A pool is freed once, by the last who knows it, over every order in which
\* its owner and its threads leave.
FreedLast == NoFreedPoolInUse /\ FreePreconditions

\* A worker never calls the pool's function with the marker (void*)1 that
\* thread_pool_wakeup_and_stop_all_L pushes among the tasks, and never calls it
\* twice for one task.
OnlyTasksRun ==
  /\ \A t \in Thread : task[t] # Marker /\ task[t] \notin ran
  /\ \A t, u \in Thread : t # u /\ task[t] # None => task[t] # task[u]

\* Where a task is in the queue of a pool, and who runs it.
Queued(d, p) == {i \in 1 .. Len(queue[p]) : queue[p][i] = d}
Runners(d) == {t \in Thread : task[t] = d}

\* A task pushed to a pool is in its queue once, is being run, or has been run;
\* only a pool stopped at once drops tasks.
TasksKept ==
  \A d \in Task : \A p \in Pool :
    pushed[d] = p /\ d \notin ran /\ ~pool[p].immediate =>
      Cardinality(Queued(d, p)) + Cardinality(Runners(d)) = 1

\* Every task is run once, and nothing else is.
TasksOnce == OnlyTasksRun /\ TasksKept

\* x_thread_pool_delete(pool, FALSE, TRUE) that had to wait returns only when
\* every task pushed to the pool has been run to its end, as its callers
\* expect (xos/tests/test-gc.cpp counts the tasks' effects right after it).
WaitedTasksRan ==
  [][\A p \in Pool :
       /\ client[p] \in {"waiting", "woken"} /\ ~pool[p].immediate
       /\ client'[p] \in {"free", "done"}
       => {d \in Task : pushed[d] = p} \subseteq ran]_vars

\* Every task is run once, and before an owner that waits for it goes on.
TasksDone == []TasksOnce /\ WaitedTasksRan

\* A pool that no thread will come to any more: it waits in the global queue,
\* or holds tasks and no thread, or its exclusive threads wait without end.
Stranded(p) ==
  \/ Calls(p) # {}
  \/ Attached(p) = {} /\ queue[p] # << >>
  \/ p \in Exclusive /\ \E t \in Attached(p) : pc[t] = "wait"

\* Once it is deleted a pool is freed, by its owner or its last thread, and an
\* owner that waits returns, unless the pool is stranded: no broadcast and no
\* stop of the remaining threads is missed on the way.
DeletedIsFreed ==
  \A p \in Pool :
    ~pool[p].running ~> (pool[p].freed /\ client[p] = "done") \/ Stranded(p)

\* xos/tests/test-gc.cpp pushes tasks and calls x_thread_pool_delete(pool,
\* FALSE, TRUE), then counts what they did: the call returns.
DeleteReturns == \A p \in Pool : client[p] = "waiting" ~> client[p] = "done"
=============================================================================
