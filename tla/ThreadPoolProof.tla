--------------------------- MODULE ThreadPoolProof ---------------------------
(***************************************************************************)
(* Proofs that the counts by which the threads of a pool decide are exact, *)
(* that whoever frees a pool is the last to know it, and that every task   *)
(* runs once and before an owner that waits for it goes on, for any pools, *)
(* threads, tasks and limits.                                              *)
(***************************************************************************)
EXTENDS ThreadPool, SequenceTheorems, FiniteSetTheorems, TLAPS

Working == {"loop", "wait", "run", "got"}

\* The threads that unused_threads counts, and those of them that have passed
\* the test of the limit.
Unused  == {t \in Thread : pc[t] \in {"check", "pop", "idle", "got", "stop"}}
Staying == {t \in Thread : pc[t] \in {"pop", "idle"}}

\* The counts, also of a pool that was freed.
Counts ==
  /\ \A p \in Pool :
       /\ pool[p].num_threads = Cardinality(Attached(p)) + Cardinality(Calls(p))
       /\ pool[p].waiting_threads = Cardinality(Waiting(p))
  /\ uq_waiting = Cardinality(Idling)
  /\ unused_threads = Cardinality(Unused)
  /\ Cardinality(Staying) < MaxUnused

\* Where a thread is says whether it has a pool and a task.
ThreadOK(t) ==
  /\ at[t] # None <=> pc[t] \in Working \cup {"free"}
  /\ task[t] # None <=> pc[t] = "run"

\* How far the owner is says what the pool is.
PoolOK(p) ==
  /\ pool[p].running <=> client[p] \in {"none", "creating", "live"}
  /\ pool[p].running => ~pool[p].immediate
  /\ client[p] \in {"waiting", "woken"} => pool[p].waiting
  /\ client[p] = "free" => pool[p].num_threads = 0
  /\ pool[p].freed => client[p] = "done" /\ pool[p].num_threads = 0

\* A thread that is to free a pool is the only one, and after its owner.
FreerOK(t) ==
  pc[t] = "free" =>
    /\ client[at[t]] = "done" /\ pool[at[t]].num_threads = 0 /\ ~pool[at[t]].freed
    /\ \A u \in Thread : pc[u] = "free" /\ at[u] = at[t] => u = t

\* Markers are in the queue of a pool that shall stop at once.  A task is in
\* the queue of the pool it was pushed to, and in one place only.
QueueOK(p) ==
  \A i \in 1 .. Len(queue[p]) :
    /\ queue[p][i] = Marker => ~pool[p].running /\ pool[p].immediate
    /\ queue[p][i] \in Task =>
         /\ pushed[queue[p][i]] = p /\ queue[p][i] \notin ran
         /\ \A t \in Thread : task[t] # queue[p][i]
         /\ \A j \in 1 .. Len(queue[p]) : queue[p][j] = queue[p][i] => j = i

\* A task that is run was pushed to the pool of the thread that runs it.
RunOK(t) ==
  task[t] # None =>
    /\ pushed[task[t]] = at[t] /\ task[t] \notin ran
    /\ \A u \in Thread : task[u] = task[t] => u = t

\* A task is somewhere, unless it was dropped.
TaskOK(d) ==
  /\ d \in ran => pushed[d] # None
  /\ \A p \in Pool :
       pushed[d] = p /\ d \notin ran /\ ~pool[p].immediate =>
         \/ \E i \in 1 .. Len(queue[p]) : queue[p][i] = d
         \/ \E t \in Thread : task[t] = d

IInv ==
  /\ TypeOK /\ Counts
  /\ \A t \in Thread : ThreadOK(t) /\ FreerOK(t) /\ RunOK(t)
  /\ \A p \in Pool : PoolOK(p) /\ QueueOK(p)
  /\ \A d \in Task : TaskOK(d)

-----------------------------------------------------------------------------
(* Counting threads and calls *)

One(b) == IF b THEN 1 ELSE 0

LEMMA ThreadSets ==
  \A S \in SUBSET Thread : IsFiniteSet(S) /\ Cardinality(S) \in Nat
BY PoolAssumption, FS_Subset, FS_CardinalityType

LEMMA Counted ==
  ASSUME NEW S \in SUBSET Thread, NEW t \in S
  PROVE  Cardinality(S) > 0
<1>1. IsFiniteSet(S) /\ Cardinality(S) \in Nat
  BY ThreadSets
<1>2. Cardinality(S) # 0
  BY <1>1, FS_EmptySet
<1>3. QED
  BY <1>1, <1>2

\* A set of threads that differs in t at most.
LEMMA Change ==
  ASSUME NEW S \in SUBSET Thread, NEW R \in SUBSET Thread, NEW t \in Thread,
         \A u \in Thread \ {t} : u \in R <=> u \in S
  PROVE  Cardinality(R) = Cardinality(S) + One(t \in R) - One(t \in S)
<1>1. IsFiniteSet(S) /\ Cardinality(S) \in Nat
  BY ThreadSets
<1>2. CASE t \in R /\ t \notin S
  <2>1. R = S \cup {t}
    BY <1>2
  <2>2. Cardinality(R) = Cardinality(S) + 1
    BY <1>1, <1>2, <2>1, FS_AddElement
  <2>3. QED
    BY <1>1, <1>2, <2>2 DEF One
<1>3. CASE t \notin R /\ t \in S
  <2>1. R = S \ {t}
    BY <1>3
  <2>2. Cardinality(R) = Cardinality(S) - 1
    BY <1>1, <1>3, <2>1, FS_RemoveElement
  <2>3. QED
    BY <1>1, <1>3, <2>2 DEF One
<1>4. CASE t \in R <=> t \in S
  <2>1. R = S
    BY <1>4
  <2>2. QED
    BY <1>1, <1>4, <2>1 DEF One
<1>5. QED
  BY <1>2, <1>3, <1>4

LEMMA CallSets ==
  ASSUME uq \in Seq(Pool), NEW p \in Pool
  PROVE  IsFiniteSet(Calls(p)) /\ Cardinality(Calls(p)) \in Nat
<1>1. Len(uq) \in Nat
  OBVIOUS
<1>2. IsFiniteSet(1 .. Len(uq)) /\ Calls(p) \in SUBSET (1 .. Len(uq))
  BY <1>1, FS_Interval DEF Calls
<1>3. QED
  BY <1>2, FS_Subset, FS_CardinalityType

\* The terms of Counts are numbers.
LEMMA Numbers ==
  ASSUME TypeOK
  PROVE  /\ \A p \in Pool :
              /\ Cardinality(Attached(p)) \in Nat /\ Cardinality(Waiting(p)) \in Nat
              /\ Cardinality(Calls(p)) \in Nat
         /\ Cardinality(Idling) \in Nat /\ Cardinality(Unused) \in Nat
         /\ Cardinality(Staying) \in Nat
<1>1. \A p \in Pool : Cardinality(Calls(p)) \in Nat
  BY CallSets DEF TypeOK
<1>2. /\ \A p \in Pool : Attached(p) \in SUBSET Thread /\ Waiting(p) \in SUBSET Thread
      /\ Idling \in SUBSET Thread /\ Unused \in SUBSET Thread /\ Staying \in SUBSET Thread
  BY DEF Attached, Waiting, Idling, Unused, Staying
<1>3. QED
  BY <1>1, <1>2, ThreadSets

\* What the move of one thread does to the counts.
LEMMA Moved ==
  ASSUME NEW t \in Thread, \A u \in Thread \ {t} : pc'[u] = pc[u] /\ at'[u] = at[u]
  PROVE  /\ \A p \in Pool :
              /\ Cardinality(Attached(p)') =
                   Cardinality(Attached(p)) + One(pc'[t] \in Working /\ at'[t] = p)
                                            - One(pc[t] \in Working /\ at[t] = p)
              /\ Cardinality(Waiting(p)') =
                   Cardinality(Waiting(p)) + One(pc'[t] = "wait" /\ at'[t] = p)
                                           - One(pc[t] = "wait" /\ at[t] = p)
         /\ Cardinality(Idling') = Cardinality(Idling) + One(pc'[t] = "idle")
                                                       - One(pc[t] = "idle")
         /\ Cardinality(Unused') =
              Cardinality(Unused)
                + One(pc'[t] \in {"check", "pop", "idle", "got", "stop"})
                - One(pc[t] \in {"check", "pop", "idle", "got", "stop"})
         /\ Cardinality(Staying') = Cardinality(Staying) + One(pc'[t] \in {"pop", "idle"})
                                                         - One(pc[t] \in {"pop", "idle"})
<1>1. ASSUME NEW p \in Pool
      PROVE  /\ Cardinality(Attached(p)') =
                   Cardinality(Attached(p)) + One(pc'[t] \in Working /\ at'[t] = p)
                                            - One(pc[t] \in Working /\ at[t] = p)
             /\ Cardinality(Waiting(p)') =
                   Cardinality(Waiting(p)) + One(pc'[t] = "wait" /\ at'[t] = p)
                                           - One(pc[t] = "wait" /\ at[t] = p)
  <2>1. /\ Attached(p) \in SUBSET Thread /\ Attached(p)' \in SUBSET Thread
        /\ \A u \in Thread \ {t} : u \in Attached(p)' <=> u \in Attached(p)
        /\ t \in Attached(p)' <=> pc'[t] \in Working /\ at'[t] = p
        /\ t \in Attached(p) <=> pc[t] \in Working /\ at[t] = p
    BY DEF Attached, Working
  <2>2. /\ Waiting(p) \in SUBSET Thread /\ Waiting(p)' \in SUBSET Thread
        /\ \A u \in Thread \ {t} : u \in Waiting(p)' <=> u \in Waiting(p)
        /\ t \in Waiting(p)' <=> pc'[t] = "wait" /\ at'[t] = p
        /\ t \in Waiting(p) <=> pc[t] = "wait" /\ at[t] = p
    BY DEF Waiting
  <2>3. Cardinality(Attached(p)') =
          Cardinality(Attached(p)) + One(t \in Attached(p)') - One(t \in Attached(p))
    BY <2>1, Change
  <2>4. Cardinality(Waiting(p)') =
          Cardinality(Waiting(p)) + One(t \in Waiting(p)') - One(t \in Waiting(p))
    BY <2>2, Change
  <2>5. QED
    BY <2>1, <2>2, <2>3, <2>4 DEF One
<1>2. Cardinality(Idling') = Cardinality(Idling) + One(pc'[t] = "idle") - One(pc[t] = "idle")
  <2>1. /\ Idling \in SUBSET Thread /\ Idling' \in SUBSET Thread
        /\ \A u \in Thread \ {t} : u \in Idling' <=> u \in Idling
        /\ (t \in Idling' <=> pc'[t] = "idle") /\ (t \in Idling <=> pc[t] = "idle")
    BY DEF Idling
  <2>2. Cardinality(Idling') = Cardinality(Idling) + One(t \in Idling') - One(t \in Idling)
    BY <2>1, Change
  <2>3. QED
    BY <2>1, <2>2 DEF One
<1>3. Cardinality(Unused') =
        Cardinality(Unused)
          + One(pc'[t] \in {"check", "pop", "idle", "got", "stop"})
          - One(pc[t] \in {"check", "pop", "idle", "got", "stop"})
  <2>1. /\ Unused \in SUBSET Thread /\ Unused' \in SUBSET Thread
        /\ \A u \in Thread \ {t} : u \in Unused' <=> u \in Unused
        /\ t \in Unused' <=> pc'[t] \in {"check", "pop", "idle", "got", "stop"}
        /\ t \in Unused <=> pc[t] \in {"check", "pop", "idle", "got", "stop"}
    BY DEF Unused
  <2>2. Cardinality(Unused') = Cardinality(Unused) + One(t \in Unused') - One(t \in Unused)
    BY <2>1, Change
  <2>3. QED
    BY <2>1, <2>2 DEF One
<1>4. Cardinality(Staying') = Cardinality(Staying) + One(pc'[t] \in {"pop", "idle"})
                                                   - One(pc[t] \in {"pop", "idle"})
  <2>1. /\ Staying \in SUBSET Thread /\ Staying' \in SUBSET Thread
        /\ \A u \in Thread \ {t} : u \in Staying' <=> u \in Staying
        /\ t \in Staying' <=> pc'[t] \in {"pop", "idle"}
        /\ t \in Staying <=> pc[t] \in {"pop", "idle"}
    BY DEF Staying
  <2>2. Cardinality(Staying') = Cardinality(Staying) + One(t \in Staying') - One(t \in Staying)
    BY <2>1, Change
  <2>3. QED
    BY <2>1, <2>2 DEF One
<1>5. QED
  BY <1>1, <1>2, <1>3, <1>4

\* A pool that is called to by an idle thread's queue.
LEMMA CallAdded ==
  ASSUME uq \in Seq(Pool), NEW p \in Pool, uq' = Append(uq, p), NEW q \in Pool
  PROVE  Cardinality(Calls(q)') = Cardinality(Calls(q)) + One(q = p)
<1>1. /\ Len(uq) \in Nat /\ Len(uq') = Len(uq) + 1 /\ uq'[Len(uq) + 1] = p
      /\ \A i \in 1 .. Len(uq) : uq'[i] = uq[i]
  OBVIOUS
<1>2. CASE q = p
  <2>1. Calls(q)' = Calls(q) \cup {Len(uq) + 1} /\ Len(uq) + 1 \notin Calls(q)
    BY <1>1, <1>2 DEF Calls
  <2>2. Cardinality(Calls(q)') = Cardinality(Calls(q)) + 1
    BY <2>1, CallSets, FS_AddElement
  <2>3. QED
    BY <1>2, <2>2 DEF One
<1>3. CASE q # p
  <2>1. Calls(q)' = Calls(q)
    BY <1>1, <1>3 DEF Calls
  <2>2. QED
    BY <1>3, <2>1, CallSets DEF One
<1>4. QED
  BY <1>2, <1>3

\* The head of the queue is taken: the other calls move up by one.
LEMMA CallTaken ==
  ASSUME uq \in Seq(Pool), uq # << >>, uq' = Tail(uq), NEW q \in Pool
  PROVE  Cardinality(Calls(q)') = Cardinality(Calls(q)) - One(q = Head(uq))
<1>1. /\ Len(uq) \in Nat /\ Len(uq) >= 1 /\ Len(uq') = Len(uq) - 1 /\ Head(uq) = uq[1]
      /\ \A i \in 1 .. Len(uq) - 1 : uq'[i] = uq[i + 1]
  OBVIOUS
<1> DEFINE R == Calls(q) \ {1}
           f == [i \in R |-> i - 1]
<1>2. IsFiniteSet(R) /\ Cardinality(R) = Cardinality(Calls(q)) - One(q = Head(uq))
  <2>1. 1 \in Calls(q) <=> q = Head(uq)
    BY <1>1 DEF Calls
  <2>2. IsFiniteSet(Calls(q)) /\ Cardinality(Calls(q)) \in Nat
    BY CallSets
  <2>3. /\ IsFiniteSet(Calls(q) \ {1})
        /\ Cardinality(Calls(q) \ {1}) =
             IF 1 \in Calls(q) THEN Cardinality(Calls(q)) - 1 ELSE Cardinality(Calls(q))
    BY <2>2, FS_RemoveElement
  <2>4. QED
    BY <2>1, <2>2, <2>3 DEF One
<1>3. f \in [R -> Calls(q)']
  BY <1>1 DEF Calls
<1>4. \A i, j \in R : f[i] = f[j] => i = j
  BY DEF Calls
<1>5. \A j \in Calls(q)' : \E i \in R : f[i] = j
  <2>1. SUFFICES ASSUME NEW j \in Calls(q)'
                 PROVE  j + 1 \in R /\ f[j + 1] = j
    OBVIOUS
  <2>2. j \in 1 .. Len(uq) - 1 /\ uq[j + 1] = q
    BY <1>1 DEF Calls
  <2>3. j + 1 \in R
    BY <1>1, <2>2 DEF Calls
  <2>4. QED
    BY <2>2, <2>3
<1>6. ExistsBijection(R, Calls(q)')
  <2>1. f \in Bijection(R, Calls(q)')
    BY <1>3, <1>4, <1>5 DEF Bijection, Injection, IsInjective, Surjection
  <2>2. QED
    BY <2>1 DEF ExistsBijection
<1>7. Cardinality(Calls(q)') = Cardinality(R)
  BY <1>2, <1>6, FS_Bijection
<1>8. QED
  BY <1>2, <1>7

-----------------------------------------------------------------------------
(* A worker without a pool *)

Label == {"none", "loop", "wait", "run", "free", "seek", "check", "pop", "idle", "got", "stop"}

\* What the proof of each action uses of the invariant.
LEMMA Facts ==
  IInv => /\ TypeOK /\ Counts
          /\ \A t \in Thread : ThreadOK(t) /\ FreerOK(t) /\ RunOK(t)
          /\ \A p \in Pool : PoolOK(p) /\ QueueOK(p)
          /\ \A d \in Task : TaskOK(d)
BY DEF IInv

\* A move of t that leaves pools and tasks alone.
LEMMA MoveOnly ==
  ASSUME IInv, NEW t \in Thread, NEW l \in Label, NEW q \in Pool \cup {None},
         pc[t] \notin {"run", "free"}, l \notin {"run", "free"}, q # None <=> l \in Working,
         pc' = [pc EXCEPT ![t] = l], at' = [at EXCEPT ![t] = q],
         UNCHANGED <<pool, queue, task, client, pushed, ran>>,
         uq' \in Seq(Pool), uq_waiting' \in Nat, unused_threads' \in Nat, Counts'
  PROVE  IInv'
<1>1. /\ TypeOK
      /\ \A u \in Thread : ThreadOK(u) /\ FreerOK(u) /\ RunOK(u)
      /\ \A p \in Pool : PoolOK(p) /\ QueueOK(p)
      /\ \A d \in Task : TaskOK(d)
  BY Facts
<1>2. pc'[t] = l /\ at'[t] = q /\ \A u \in Thread \ {t} : pc'[u] = pc[u] /\ at'[u] = at[u]
  BY <1>1 DEF TypeOK
<1>3. TypeOK'
  BY <1>1 DEF TypeOK, Label
<1>4. \A u \in Thread : ThreadOK(u)'
  BY <1>1, <1>2 DEF ThreadOK, Working
<1>5. \A u \in Thread : FreerOK(u)'
  BY <1>1, <1>2 DEF FreerOK
<1>6. \A u \in Thread : RunOK(u)'
  BY <1>1, <1>2 DEF RunOK, ThreadOK
<1>7. \A p \in Pool : PoolOK(p)' /\ QueueOK(p)'
  BY <1>1 DEF PoolOK, QueueOK
<1>8. \A d \in Task : TaskOK(d)'
  BY <1>1 DEF TaskOK
<1>9. QED
  BY <1>3, <1>4, <1>5, <1>6, <1>7, <1>8 DEF IInv

\* The calls of pools while the global queue is left alone.
LEMMA SameCalls ==
  ASSUME uq' = uq
  PROVE  \A p \in Pool : Cardinality(Calls(p)') = Cardinality(Calls(p))
BY DEF Calls

\* What the move of t to label l and pool q does.
LEMMA Move ==
  ASSUME IInv, NEW t \in Thread, NEW l \in Label, NEW q \in Pool \cup {None},
         pc' = [pc EXCEPT ![t] = l], at' = [at EXCEPT ![t] = q]
  PROVE  /\ pc' \in [Thread -> Label] /\ at' \in [Thread -> Pool \cup {None}]
         /\ pc'[t] = l /\ at'[t] = q
         /\ \A u \in Thread \ {t} : pc'[u] = pc[u] /\ at'[u] = at[u]
BY Facts DEF TypeOK, Label

LEMMA Stayed ==
  ASSUME IInv, NEW t \in Thread, at' = at
  PROVE  at' = [at EXCEPT ![t] = at[t]] /\ at[t] \in Pool \cup {None}
BY Facts DEF TypeOK

LEMMA SeekEnterStep ==
  ASSUME IInv, NEW t \in Thread, SeekEnter(t)
  PROVE  IInv'
<1>1. TypeOK /\ Counts /\ ThreadOK(t)
  BY Facts
<1>2. /\ pc[t] = "seek" /\ pc' = [pc EXCEPT ![t] = "check"] /\ at' = at
      /\ unused_threads' = unused_threads + 1
      /\ UNCHANGED <<pool, queue, uq, uq_waiting, task, client, pushed, ran>>
  BY DEF SeekEnter
<1>3. at[t] = None
  BY <1>1, <1>2 DEF ThreadOK, Working
<1>4. at' = [at EXCEPT ![t] = None]
  BY <1>2, <1>3, Stayed
<1>5. /\ pc'[t] = "check" /\ at'[t] = None
      /\ \A u \in Thread \ {t} : pc'[u] = pc[u] /\ at'[u] = at[u]
  BY <1>2, <1>4, Move DEF Label
<1>6. Counts'
  BY <1>1, <1>2, <1>3, <1>5, Moved, SameCalls, Numbers DEF Counts, Working, One
<1>7. uq' \in Seq(Pool) /\ uq_waiting' \in Nat /\ unused_threads' \in Nat
  BY <1>1, <1>2 DEF TypeOK
<1>8. QED
  BY <1>2, <1>4, <1>6, <1>7, MoveOnly DEF Label, Working

LEMMA SeekCheckStep ==
  ASSUME IInv, NEW t \in Thread, SeekCheck(t)
  PROVE  IInv'
<1>1. TypeOK /\ Counts /\ ThreadOK(t)
  BY Facts
<1>2. /\ pc[t] = "check" /\ at' = at
      /\ UNCHANGED <<pool, queue, uq, uq_waiting, unused_threads, task, client, pushed, ran>>
  BY DEF SeekCheck
<1>3. PICK l \in {"stop", "pop"} :
        /\ pc' = [pc EXCEPT ![t] = l]
        /\ l = "pop" <=> unused_threads < MaxUnused
  <2>1. unused_threads \in Nat /\ MaxUnused \in Nat
    BY <1>1, PoolAssumption DEF TypeOK
  <2>2. CASE unused_threads >= MaxUnused
    BY <2>1, <2>2 DEF SeekCheck
  <2>3. CASE ~(unused_threads >= MaxUnused)
    BY <2>1, <2>3 DEF SeekCheck
  <2>4. QED
    BY <2>2, <2>3
<1>4. at[t] = None
  BY <1>1, <1>2 DEF ThreadOK, Working
<1>5. at' = [at EXCEPT ![t] = None]
  BY <1>2, <1>4, Stayed
<1>6. /\ pc'[t] = l /\ at'[t] = None
      /\ \A u \in Thread \ {t} : pc'[u] = pc[u] /\ at'[u] = at[u]
  BY <1>3, <1>5, Move DEF Label
\* Whoever passes the test is counted, and so are those that passed it before.
<1>7. Cardinality(Staying') < MaxUnused
  <2>1. CASE l = "stop"
    BY <1>1, <1>2, <1>6, <2>1, Moved, Numbers DEF Counts, One
  <2>2. CASE l = "pop"
    <3>1. Unused' = Unused /\ Staying' \subseteq Unused /\ Unused \in SUBSET Thread
      BY <1>2, <1>6, <2>2 DEF Unused, Staying
    <3>2. Cardinality(Staying') <= Cardinality(Unused) /\ Cardinality(Staying') \in Nat
      <4>1. IsFiniteSet(Unused)
        BY <3>1, ThreadSets
      <4>2. QED
        BY <3>1, <4>1, FS_Subset, ThreadSets
    <3>3. QED
      BY <1>1, <1>3, <2>2, <3>2, Numbers, PoolAssumption DEF Counts
  <2>3. QED
    BY <2>1, <2>2
<1>8. Counts'
  BY <1>1, <1>2, <1>4, <1>6, <1>7, Moved, SameCalls, Numbers DEF Counts, Working, One
<1>9. QED
  BY <1>1, <1>2, <1>3, <1>5, <1>8, MoveOnly DEF Label, Working, TypeOK

\* t takes the pool that is called first.
LEMMA Taken ==
  ASSUME IInv, NEW t \in Thread, PoolTaken(t), pc[t] \in {"pop", "idle"},
         uq_waiting' = uq_waiting - One(pc[t] = "idle"),
         UNCHANGED <<pool, queue, unused_threads, task, client, pushed, ran>>
  PROVE  IInv'
<1>1. TypeOK /\ Counts /\ ThreadOK(t)
  BY Facts
<1>2. uq \in Seq(Pool) /\ uq # << >> /\ uq' = Tail(uq) /\ uq' \in Seq(Pool) /\ Head(uq) \in Pool
  BY <1>1 DEF PoolTaken, TypeOK
<1>3. pc' = [pc EXCEPT ![t] = "got"] /\ at' = [at EXCEPT ![t] = Head(uq)]
  BY DEF PoolTaken
<1>4. at[t] = None /\ Head(uq) # None
  BY <1>1, <1>2, PoolAssumption DEF ThreadOK, Working
<1>5. /\ pc'[t] = "got" /\ at'[t] = Head(uq)
      /\ \A u \in Thread \ {t} : pc'[u] = pc[u] /\ at'[u] = at[u]
  BY <1>2, <1>3, Move DEF Label
<1>6. \A q \in Pool : Cardinality(Calls(q)') = Cardinality(Calls(q)) - One(q = Head(uq))
  BY <1>2, CallTaken
<1>7. uq_waiting' \in Nat
  <2>1. pc[t] = "idle" => t \in Idling /\ Idling \in SUBSET Thread
    BY DEF Idling
  <2>2. pc[t] = "idle" => uq_waiting > 0
    BY <1>1, <2>1, Counted DEF Counts
  <2>3. QED
    BY <1>1, <2>2 DEF TypeOK, One
<1>8. Counts'
  <2>1. ASSUME NEW p \in Pool
        PROVE  /\ pool'[p].num_threads = Cardinality(Attached(p)') + Cardinality(Calls(p)')
               /\ pool'[p].waiting_threads = Cardinality(Waiting(p)')
    <3>1. /\ Cardinality(Attached(p)') = Cardinality(Attached(p)) + One(p = Head(uq))
          /\ Cardinality(Waiting(p)') = Cardinality(Waiting(p))
      BY <1>1, <1>4, <1>5, Moved, Numbers DEF Working, One
    <3>2. Cardinality(Calls(p)') = Cardinality(Calls(p)) - One(p = Head(uq))
      BY <1>6
    <3>3. QED
      BY <1>1, <3>1, <3>2, Numbers DEF Counts, One
  <2>2. /\ uq_waiting' = Cardinality(Idling') /\ unused_threads' = Cardinality(Unused')
        /\ Cardinality(Staying') < MaxUnused
    BY <1>1, <1>5, Moved, Numbers, PoolAssumption DEF Counts, One
  <2>3. QED
    BY <2>1, <2>2 DEF Counts
<1>9. QED
  BY <1>1, <1>2, <1>3, <1>4, <1>7, <1>8, MoveOnly DEF Label, Working, TypeOK

LEMMA SeekPopStep ==
  ASSUME IInv, NEW t \in Thread, SeekPop(t)
  PROVE  IInv'
<1>1. TypeOK /\ Counts /\ ThreadOK(t)
  BY Facts
<1>2. pc[t] = "pop" /\ UNCHANGED <<pool, queue, unused_threads, task, client, pushed, ran>>
  BY DEF SeekPop
<1>3. CASE PoolTaken(t) /\ UNCHANGED uq_waiting
  <2>1. uq_waiting' = uq_waiting - One(pc[t] = "idle")
    BY <1>1, <1>2, <1>3 DEF One, TypeOK
  <2>2. QED
    BY <1>2, <1>3, <2>1, Taken
<1>4. CASE /\ uq_waiting' = uq_waiting + 1 /\ pc' = [pc EXCEPT ![t] = "idle"]
           /\ UNCHANGED <<uq, at>>
  <2>1. at[t] = None
    BY <1>1, <1>2 DEF ThreadOK, Working
  <2>2. at' = [at EXCEPT ![t] = None]
    BY <1>4, <2>1, Stayed
  <2>3. /\ pc'[t] = "idle" /\ at'[t] = None
        /\ \A u \in Thread \ {t} : pc'[u] = pc[u] /\ at'[u] = at[u]
    BY <1>4, <2>2, Move DEF Label
  <2>4. Counts'
    <3>1. \A p \in Pool : /\ Cardinality(Attached(p)') = Cardinality(Attached(p))
                          /\ Cardinality(Waiting(p)') = Cardinality(Waiting(p))
      BY <1>1, <1>2, <2>1, <2>3, Moved, Numbers DEF Working, One
    <3>2. /\ Cardinality(Idling') = Cardinality(Idling) + 1
          /\ Cardinality(Unused') = Cardinality(Unused)
          /\ Cardinality(Staying') = Cardinality(Staying)
      BY <1>1, <1>2, <2>3, Moved, Numbers DEF One
    <3>3. QED
      BY <1>1, <1>2, <1>4, <3>1, <3>2, SameCalls DEF Counts
  <2>5. uq' \in Seq(Pool) /\ uq_waiting' \in Nat /\ unused_threads' \in Nat
    BY <1>1, <1>2, <1>4 DEF TypeOK
  <2>6. QED
    BY <1>2, <1>4, <2>2, <2>4, <2>5, MoveOnly DEF Label, Working
<1>5. QED
  BY <1>3, <1>4 DEF SeekPop

LEMMA IdleWakesStep ==
  ASSUME IInv, NEW t \in Thread, IdleWakes(t)
  PROVE  IInv'
<1>1. uq_waiting' = uq_waiting - One(pc[t] = "idle")
  BY DEF IdleWakes, One
<1>2. QED
  BY <1>1, Taken DEF IdleWakes

LEMMA IdleTimesOutStep ==
  ASSUME IInv, NEW t \in Thread, IdleTimesOut(t)
  PROVE  IInv'
<1>1. TypeOK /\ Counts /\ ThreadOK(t)
  BY Facts
<1>2. /\ pc[t] = "idle" /\ pc' = [pc EXCEPT ![t] = "stop"] /\ at' = at
      /\ uq_waiting' = uq_waiting - 1
      /\ UNCHANGED <<pool, queue, uq, unused_threads, task, client, pushed, ran>>
  BY DEF IdleTimesOut
<1>3. at[t] = None
  BY <1>1, <1>2 DEF ThreadOK, Working
<1>4. at' = [at EXCEPT ![t] = None]
  BY <1>2, <1>3, Stayed
<1>5. /\ pc'[t] = "stop" /\ at'[t] = None
      /\ \A u \in Thread \ {t} : pc'[u] = pc[u] /\ at'[u] = at[u]
  BY <1>2, <1>4, Move DEF Label
<1>6. uq_waiting' \in Nat
  <2>1. t \in Idling /\ Idling \in SUBSET Thread
    BY <1>2 DEF Idling
  <2>2. Cardinality(Idling) > 0
    BY <2>1, Counted
  <2>3. QED
    BY <1>1, <1>2, <2>2 DEF Counts, TypeOK
<1>7. Counts'
  BY <1>1, <1>2, <1>3, <1>5, Moved, SameCalls, Numbers, PoolAssumption
     DEF Counts, Working, One
<1>8. QED
  BY <1>1, <1>2, <1>4, <1>6, <1>7, MoveOnly DEF Label, Working, TypeOK

LEMMA SeekLeaveStep ==
  ASSUME IInv, NEW t \in Thread, SeekLeave(t)
  PROVE  IInv'
<1>1. TypeOK /\ Counts /\ ThreadOK(t)
  BY Facts
<1>2. /\ pc[t] \in {"got", "stop"} /\ at' = at /\ unused_threads' = unused_threads - 1
      /\ UNCHANGED <<pool, queue, uq, uq_waiting, task, client, pushed, ran>>
  BY DEF SeekLeave
<1>3. PICK l \in {"loop", "none"} :
        pc' = [pc EXCEPT ![t] = l] /\ (l = "loop" <=> pc[t] = "got")
  BY <1>2 DEF SeekLeave
<1>4. at[t] # None <=> l \in Working
  BY <1>1, <1>2, <1>3 DEF ThreadOK, Working
<1>5. at' = [at EXCEPT ![t] = at[t]] /\ at[t] \in Pool \cup {None}
  BY <1>2, Stayed
<1>6. /\ pc'[t] = l /\ at'[t] = at[t]
      /\ \A u \in Thread \ {t} : pc'[u] = pc[u] /\ at'[u] = at[u]
  BY <1>3, <1>5, Move DEF Label
<1>7. unused_threads' \in Nat
  <2>1. t \in Unused /\ Unused \in SUBSET Thread
    BY <1>2 DEF Unused
  <2>2. Cardinality(Unused) > 0
    BY <2>1, Counted
  <2>3. QED
    BY <1>1, <1>2, <2>2 DEF Counts, TypeOK
<1>8. Counts'
  BY <1>1, <1>2, <1>3, <1>6, Moved, SameCalls, Numbers, PoolAssumption
     DEF Counts, Working, One
<1>9. QED
  BY <1>1, <1>2, <1>3, <1>4, <1>5, <1>7, <1>8, MoveOnly DEF Label, Working, TypeOK

-----------------------------------------------------------------------------
(* The owner of a pool *)

Fields == [running : BOOLEAN, immediate : BOOLEAN, waiting : BOOLEAN, num_threads : Nat,
           waiting_threads : Nat, freed : BOOLEAN]

\* A pool gets new fields.
LEMMA Updated ==
  ASSUME IInv, NEW p \in Pool, NEW r \in Fields, pool' = [pool EXCEPT ![p] = r]
  PROVE  /\ pool' \in [Pool -> Fields] /\ pool'[p] = r
         /\ \A q \in Pool \ {p} : pool'[q] = pool[q]
BY Facts DEF TypeOK, Fields

\* One more thread is counted for a pool.
LEMMA CountedUp ==
  ASSUME IInv, NEW p \in Pool, pool' = [pool EXCEPT ![p].num_threads = @ + 1]
  PROVE  /\ pool' \in [Pool -> Fields]
         /\ pool'[p].num_threads = pool[p].num_threads + 1
         /\ pool'[p].waiting_threads = pool[p].waiting_threads
         /\ pool'[p].running = pool[p].running /\ pool'[p].immediate = pool[p].immediate
         /\ pool'[p].waiting = pool[p].waiting /\ pool'[p].freed = pool[p].freed
         /\ \A q \in Pool \ {p} : pool'[q] = pool[q]
<1>1. pool \in [Pool -> Fields]
  BY Facts DEF TypeOK, Fields
<1>2. pool' = [pool EXCEPT ![p] = [pool[p] EXCEPT !.num_threads = pool[p].num_threads + 1]]
  OBVIOUS
<1>3. pool[p] \in Fields
  BY <1>1
<1> DEFINE r == [pool[p] EXCEPT !.num_threads = pool[p].num_threads + 1]
<1>4. /\ r \in Fields /\ r.num_threads = pool[p].num_threads + 1
      /\ r.waiting_threads = pool[p].waiting_threads
      /\ r.running = pool[p].running /\ r.immediate = pool[p].immediate
      /\ r.waiting = pool[p].waiting /\ r.freed = pool[p].freed
  BY <1>3 DEF Fields
<1>5. pool' = [pool EXCEPT ![p] = r]
  BY <1>2
<1> HIDE DEF r
<1>6. /\ pool' \in [Pool -> Fields] /\ pool'[p] = r
      /\ \A q \in Pool \ {p} : pool'[q] = pool[q]
  BY <1>4, <1>5, Updated
<1>7. QED
  BY <1>4, <1>6

\* thread_pool_start_thread: one more thread works for the pool or is called.
LEMMA Started ==
  ASSUME IInv, NEW p \in Pool, StartThread(p)
  PROVE  /\ uq' \in Seq(Pool) /\ pc' \in [Thread -> Label] /\ at' \in [Thread -> Pool \cup {None}]
         /\ \A q \in Pool :
              /\ Cardinality(Attached(q)') + Cardinality(Calls(q)') =
                   Cardinality(Attached(q)) + Cardinality(Calls(q)) + One(q = p)
              /\ Cardinality(Waiting(q)') = Cardinality(Waiting(q))
         /\ Cardinality(Idling') = Cardinality(Idling)
         /\ Cardinality(Unused') = Cardinality(Unused)
         /\ Cardinality(Staying') = Cardinality(Staying)
         /\ \A t \in Thread : \/ pc'[t] = pc[t] /\ at'[t] = at[t]
                              \/ pc[t] = "none" /\ pc'[t] = "loop" /\ at'[t] = p
<1>1. TypeOK /\ \A t \in Thread : ThreadOK(t)
  BY Facts
<1>2. CASE StartFromUnused(p)
  <2>1. uq \in Seq(Pool) /\ uq' = Append(uq, p) /\ uq' \in Seq(Pool) /\ UNCHANGED <<pc, at>>
    BY <1>1, <1>2 DEF StartFromUnused, TypeOK
  <2>2. \A q \in Pool : Cardinality(Calls(q)') = Cardinality(Calls(q)) + One(q = p)
    BY <2>1, CallAdded
  <2>3. /\ \A q \in Pool : Attached(q)' = Attached(q) /\ Waiting(q)' = Waiting(q)
        /\ Idling' = Idling /\ Unused' = Unused /\ Staying' = Staying
    BY <2>1 DEF Attached, Waiting, Idling, Unused, Staying
  <2>4. \A q \in Pool :
          Cardinality(Attached(q)') + Cardinality(Calls(q)') =
            Cardinality(Attached(q)) + Cardinality(Calls(q)) + One(q = p)
    BY <1>1, <2>2, <2>3, Numbers DEF One
  <2>5. QED
    BY <1>1, <2>1, <2>3, <2>4 DEF TypeOK, Label
<1>3. CASE StartNew(p)
  <2>1. PICK t \in Thread : /\ pc[t] = "none" /\ pc' = [pc EXCEPT ![t] = "loop"]
                            /\ at' = [at EXCEPT ![t] = p] /\ uq' = uq
    BY <1>3 DEF StartNew
  <2>2. /\ pc' \in [Thread -> Label] /\ at' \in [Thread -> Pool \cup {None}]
        /\ pc'[t] = "loop" /\ at'[t] = p
        /\ \A u \in Thread \ {t} : pc'[u] = pc[u] /\ at'[u] = at[u]
    BY <2>1, Move DEF Label
  <2>3. at[t] = None
    BY <1>1, <2>1 DEF ThreadOK, Working
  <2>4. \A q \in Pool :
          /\ Cardinality(Attached(q)') = Cardinality(Attached(q)) + One(p = q)
          /\ Cardinality(Waiting(q)') = Cardinality(Waiting(q))
    BY <1>1, <2>1, <2>2, <2>3, Moved, Numbers DEF Working, One
  <2>5. /\ Cardinality(Idling') = Cardinality(Idling)
        /\ Cardinality(Unused') = Cardinality(Unused)
        /\ Cardinality(Staying') = Cardinality(Staying)
    BY <1>1, <2>1, <2>2, Moved, Numbers DEF One
  <2>6. \A q \in Pool :
          Cardinality(Attached(q)') + Cardinality(Calls(q)') =
            Cardinality(Attached(q)) + Cardinality(Calls(q)) + One(q = p)
    BY <1>1, <2>1, <2>4, SameCalls, Numbers DEF One
  <2>7. QED
    BY <1>1, <2>1, <2>2, <2>4, <2>5, <2>6 DEF TypeOK
<1>4. QED
  BY <1>2, <1>3 DEF StartThread

\* The counts hold while threads and calls are left alone.
LEMMA SameCounts ==
  ASSUME IInv, UNCHANGED <<uq, uq_waiting, unused_threads, pc, at>>,
         \A p \in Pool : /\ pool'[p].num_threads = pool[p].num_threads
                         /\ pool'[p].waiting_threads = pool[p].waiting_threads
  PROVE  Counts'
<1>1. Counts
  BY Facts
<1>2. /\ \A p \in Pool : Attached(p)' = Attached(p) /\ Calls(p)' = Calls(p)
                         /\ Waiting(p)' = Waiting(p)
      /\ Idling' = Idling /\ Unused' = Unused /\ Staying' = Staying
  BY DEF Attached, Calls, Waiting, Idling, Unused, Staying
<1>3. QED
  BY <1>1, <1>2 DEF Counts

\* Its owner has a thread started for a pool, or finds that none is needed.
LEMMA Called ==
  ASSUME IInv, NEW p \in Pool, client[p] \in {"creating", "live"},
         NEW c \in {"creating", "live"}, client' = [client EXCEPT ![p] = c],
         \/ StartThread(p) /\ pool' = [pool EXCEPT ![p].num_threads = @ + 1]
         \/ UNCHANGED <<pool, uq, pc, at>>,
         UNCHANGED <<uq_waiting, unused_threads, task, ran>>,
         queue' \in [Pool -> Seq(Task \cup {Marker})], pushed' \in [Task -> Pool \cup {None}]
  PROVE  /\ TypeOK' /\ Counts'
         /\ \A t \in Thread : ThreadOK(t)' /\ FreerOK(t)'
         /\ \A q \in Pool : /\ PoolOK(q)' /\ pool'[q].running = pool[q].running
                            /\ pool'[q].immediate = pool[q].immediate
         /\ \A t \in Thread : task[t] # None => at'[t] = at[t]
<1>1. /\ TypeOK /\ Counts
      /\ \A t \in Thread : ThreadOK(t) /\ FreerOK(t) /\ RunOK(t)
      /\ \A q \in Pool : PoolOK(q) /\ QueueOK(q)
  BY Facts
<1>2. client'[p] = c /\ \A q \in Pool \ {p} : client'[q] = client[q]
  BY <1>1 DEF TypeOK
<1>3. CASE StartThread(p) /\ pool' = [pool EXCEPT ![p].num_threads = @ + 1]
  <2>1. /\ pool' \in [Pool -> Fields]
        /\ pool'[p].num_threads = pool[p].num_threads + 1
        /\ pool'[p].waiting_threads = pool[p].waiting_threads
        /\ pool'[p].running = pool[p].running /\ pool'[p].immediate = pool[p].immediate
        /\ pool'[p].waiting = pool[p].waiting /\ pool'[p].freed = pool[p].freed
        /\ \A q \in Pool \ {p} : pool'[q] = pool[q]
    BY <1>3, CountedUp
  <2>2. /\ uq' \in Seq(Pool) /\ pc' \in [Thread -> Label] /\ at' \in [Thread -> Pool \cup {None}]
        /\ \A q \in Pool :
              /\ Cardinality(Attached(q)') + Cardinality(Calls(q)') =
                   Cardinality(Attached(q)) + Cardinality(Calls(q)) + One(q = p)
              /\ Cardinality(Waiting(q)') = Cardinality(Waiting(q))
        /\ Cardinality(Idling') = Cardinality(Idling)
        /\ Cardinality(Unused') = Cardinality(Unused)
        /\ Cardinality(Staying') = Cardinality(Staying)
        /\ \A t \in Thread : \/ pc'[t] = pc[t] /\ at'[t] = at[t]
                             \/ pc[t] = "none" /\ pc'[t] = "loop" /\ at'[t] = p
    BY <1>3, Started
  <2>3. TypeOK'
    BY <1>1, <2>1, <2>2 DEF TypeOK, Fields, Label
  <2>4. Counts'
    <3>1. ASSUME NEW q \in Pool
          PROVE  /\ pool'[q].num_threads = Cardinality(Attached(q)') + Cardinality(Calls(q)')
                 /\ pool'[q].waiting_threads = Cardinality(Waiting(q)')
      <4>1. pool'[q].num_threads = pool[q].num_threads + One(q = p)
        BY <1>1, <2>1 DEF One, TypeOK
      <4>2. QED
        BY <1>1, <2>1, <2>2, <4>1 DEF Counts
    <3>2. QED
      BY <1>1, <2>2, <3>1 DEF Counts
  <2>5. \A t \in Thread : ThreadOK(t)' /\ (task[t] # None => at'[t] = at[t])
    BY <1>1, <2>2, PoolAssumption DEF ThreadOK, Working
  <2>6. \A t \in Thread : FreerOK(t)'
    <3>1. \A t \in Thread : pc'[t] = "free" => pc[t] = "free" /\ at'[t] = at[t] /\ at[t] \in Pool
      BY <1>1, <2>2 DEF ThreadOK, TypeOK
    <3>2. \A t \in Thread : pc[t] = "free" => at[t] # p
      BY <1>1 DEF FreerOK
    <3>3. QED
      BY <1>1, <1>2, <2>1, <3>1, <3>2 DEF FreerOK
  <2>7. \A q \in Pool : /\ PoolOK(q)' /\ pool'[q].running = pool[q].running
                        /\ pool'[q].immediate = pool[q].immediate
    BY <1>1, <1>2, <2>1 DEF PoolOK
  <2>8. QED
    BY <2>3, <2>4, <2>5, <2>6, <2>7
<1>4. CASE UNCHANGED <<pool, uq, pc, at>>
  <2>1. TypeOK'
    BY <1>1, <1>4 DEF TypeOK
  <2>2. Counts'
    BY <1>4, SameCounts
  <2>3. \A t \in Thread : ThreadOK(t)' /\ FreerOK(t)'
    <3>1. \A t \in Thread : ThreadOK(t)'
      BY <1>1, <1>4 DEF ThreadOK
    <3>2. \A t \in Thread : pc[t] = "free" => at[t] # p /\ at[t] \in Pool
      BY <1>1 DEF FreerOK, ThreadOK, TypeOK
    <3>3. QED
      BY <1>1, <1>2, <1>4, <3>1, <3>2 DEF FreerOK
  <2>4. \A q \in Pool : PoolOK(q)'
    BY <1>1, <1>2, <1>4 DEF PoolOK
  <2>5. QED
    BY <1>4, <2>1, <2>2, <2>3, <2>4
<1>5. QED
  BY <1>3, <1>4

\* Nothing is known of where tasks are but through these.
LEMMA SameTasks ==
  ASSUME IInv, UNCHANGED <<queue, task, pushed, ran>>,
         \A q \in Pool : /\ pool[q].running = pool'[q].running
                         /\ pool[q].immediate = pool'[q].immediate,
         \A t \in Thread : task[t] # None => at'[t] = at[t]
  PROVE  /\ \A q \in Pool : QueueOK(q)'
         /\ \A t \in Thread : RunOK(t)'
         /\ \A d \in Task : TaskOK(d)'
BY Facts DEF QueueOK, RunOK, TaskOK

LEMMA CreateStep ==
  ASSUME IInv, NEW p \in Pool, Create(p)
  PROVE  IInv'
<1>1. /\ TypeOK /\ Counts
      /\ \A t \in Thread : ThreadOK(t) /\ FreerOK(t) /\ RunOK(t)
      /\ \A q \in Pool : PoolOK(q) /\ QueueOK(q)
      /\ \A d \in Task : TaskOK(d)
  BY Facts
<1>2. PICK c \in {"creating", "live"} : client' = [client EXCEPT ![p] = c]
  BY DEF Create
<1>3. client[p] = "none" /\ UNCHANGED <<pool, queue, uq, uq_waiting, unused_threads, pc, at,
                                        task, pushed, ran>>
  BY DEF Create
<1>4. client'[p] = c /\ \A q \in Pool \ {p} : client'[q] = client[q]
  BY <1>1, <1>2 DEF TypeOK
<1>5. TypeOK'
  BY <1>1, <1>2, <1>3 DEF TypeOK
<1>6. Counts'
  BY <1>1, <1>3 DEF Counts, Attached, Calls, Waiting, Idling, Unused, Staying
<1>7. \A t \in Thread : ThreadOK(t)' /\ FreerOK(t)'
  <2>1. \A t \in Thread : ThreadOK(t)'
    BY <1>1, <1>3 DEF ThreadOK
  <2>2. \A t \in Thread : pc[t] = "free" => at[t] # p /\ at[t] \in Pool
    BY <1>1, <1>3 DEF FreerOK, ThreadOK, TypeOK
  <2>3. QED
    BY <1>1, <1>3, <1>4, <2>1, <2>2 DEF FreerOK
<1>8. \A q \in Pool : PoolOK(q)'
  BY <1>1, <1>3, <1>4 DEF PoolOK
<1>9. /\ \A q \in Pool : QueueOK(q)'
      /\ \A t \in Thread : RunOK(t)'
      /\ \A d \in Task : TaskOK(d)'
  BY <1>3, SameTasks
<1>10. QED
  BY <1>5, <1>6, <1>7, <1>8, <1>9 DEF IInv

LEMMA CreateThreadStep ==
  ASSUME IInv, NEW p \in Pool, CreateThread(p)
  PROVE  IInv'
<1>1. TypeOK
  BY Facts
<1>2. client[p] = "creating"
      /\ UNCHANGED <<queue, uq_waiting, unused_threads, task, pushed, ran>>
  BY DEF CreateThread
<1>3. PICK c \in {"creating", "live"} : client' = [client EXCEPT ![p] = c]
  <2>1. CASE client' = client
    BY <1>1, <1>2, <2>1 DEF TypeOK
  <2>2. CASE client' = [client EXCEPT ![p] = "live"]
    BY <2>2
  <2>3. QED
    BY <2>1, <2>2 DEF CreateThread
<1>4. \/ StartThread(p) /\ pool' = [pool EXCEPT ![p].num_threads = @ + 1]
      \/ UNCHANGED <<pool, uq, pc, at>>
  BY DEF CreateThread
<1>5. queue' \in [Pool -> Seq(Task \cup {Marker})] /\ pushed' \in [Task -> Pool \cup {None}]
  BY <1>1, <1>2 DEF TypeOK
<1>6. /\ TypeOK' /\ Counts'
      /\ \A t \in Thread : ThreadOK(t)' /\ FreerOK(t)'
      /\ \A q \in Pool : /\ PoolOK(q)' /\ pool'[q].running = pool[q].running
                         /\ pool'[q].immediate = pool[q].immediate
      /\ \A t \in Thread : task[t] # None => at'[t] = at[t]
  BY <1>2, <1>3, <1>4, <1>5, Called
<1>7. /\ \A q \in Pool : QueueOK(q)'
      /\ \A t \in Thread : RunOK(t)'
      /\ \A d \in Task : TaskOK(d)'
  BY <1>2, <1>6, SameTasks
<1>8. QED
  BY <1>6, <1>7 DEF IInv

LEMMA PushStep ==
  ASSUME IInv, NEW p \in Pool, NEW d \in Task, Push(p, d)
  PROVE  IInv'
<1>1. /\ TypeOK
      /\ \A t \in Thread : ThreadOK(t) /\ RunOK(t)
      /\ \A q \in Pool : PoolOK(q) /\ QueueOK(q)
      /\ \A e \in Task : TaskOK(e)
  BY Facts
<1>2. /\ client[p] = "live" /\ pushed[d] = None /\ client' = client
      /\ queue' = [queue EXCEPT ![p] = Append(@, d)] /\ pushed' = [pushed EXCEPT ![d] = p]
      /\ UNCHANGED <<uq_waiting, unused_threads, task, ran>>
  BY DEF Push
<1>3. \/ StartThread(p) /\ pool' = [pool EXCEPT ![p].num_threads = @ + 1]
      \/ UNCHANGED <<pool, uq, pc, at>>
  BY DEF Push
<1>4. client' = [client EXCEPT ![p] = "live"]
  BY <1>1, <1>2 DEF TypeOK
<1>5. queue[p] \in Seq(Task \cup {Marker})
  BY <1>1 DEF TypeOK
<1> DEFINE n == Len(queue[p])
<1>6. /\ Append(queue[p], d) \in Seq(Task \cup {Marker}) /\ n \in Nat
      /\ Len(Append(queue[p], d)) = n + 1 /\ Append(queue[p], d)[n + 1] = d
      /\ \A i \in 1 .. n : Append(queue[p], d)[i] = queue[p][i]
  BY <1>5
<1>7. /\ queue' \in [Pool -> Seq(Task \cup {Marker})] /\ queue'[p] = Append(queue[p], d)
      /\ \A q \in Pool \ {p} : queue'[q] = queue[q]
  BY <1>1, <1>2, <1>6 DEF TypeOK
<1> HIDE DEF n
<1>8. /\ pushed' \in [Task -> Pool \cup {None}] /\ pushed'[d] = p
      /\ \A e \in Task \ {d} : pushed'[e] = pushed[e]
  BY <1>1, <1>2 DEF TypeOK
<1>9. /\ TypeOK' /\ Counts'
      /\ \A t \in Thread : ThreadOK(t)' /\ FreerOK(t)'
      /\ \A q \in Pool : /\ PoolOK(q)' /\ pool'[q].running = pool[q].running
                         /\ pool'[q].immediate = pool[q].immediate
      /\ \A t \in Thread : task[t] # None => at'[t] = at[t]
  BY <1>2, <1>3, <1>4, <1>7, <1>8, Called
\* A task that was not pushed yet is nowhere.
<1>10. /\ d \notin ran /\ p # None
       /\ \A t \in Thread : task[t] # d
       /\ \A q \in Pool : \A i \in 1 .. Len(queue[q]) : queue[q][i] # d
  <2>1. d \notin ran /\ p # None
    BY <1>1, <1>2, PoolAssumption DEF TaskOK
  <2>2. ASSUME NEW t \in Thread, task[t] = d
        PROVE  FALSE
    <3>1. task[t] # None /\ at[t] # None
      BY <1>1, <2>2, PoolAssumption DEF ThreadOK, Working
    <3>2. QED
      BY <1>1, <1>2, <2>2, <3>1 DEF RunOK
  <2>3. \A q \in Pool : \A i \in 1 .. Len(queue[q]) : queue[q][i] # d
    BY <1>1, <1>2, PoolAssumption DEF QueueOK
  <2>4. QED
    BY <2>1, <2>2, <2>3
<1>11. ASSUME NEW q \in Pool \ {p}
       PROVE  QueueOK(q)'
  <2>1. queue'[q] = queue[q] /\ task' = task /\ ran' = ran /\ pool'[q].running = pool[q].running
        /\ pool'[q].immediate = pool[q].immediate
    BY <1>2, <1>7, <1>9
  <2>2. \A i \in 1 .. Len(queue[q]) :
          queue[q][i] \in Task => pushed'[queue[q][i]] = pushed[queue[q][i]]
    BY <1>8, <1>10
  <2>3. QueueOK(q)
    BY <1>1
  <2>4. QED
    BY <2>1, <2>2, <2>3 DEF QueueOK
<1>12. QueueOK(p)'
  <2>1. SUFFICES ASSUME NEW i \in 1 .. Len(queue'[p])
                 PROVE  /\ queue'[p][i] = Marker => ~pool'[p].running /\ pool'[p].immediate
                        /\ queue'[p][i] \in Task =>
                             /\ pushed'[queue'[p][i]] = p /\ queue'[p][i] \notin ran'
                             /\ \A t \in Thread : task'[t] # queue'[p][i]
                             /\ \A j \in 1 .. Len(queue'[p]) :
                                  queue'[p][j] = queue'[p][i] => j = i
    BY DEF QueueOK
  <2>2. i \in 1 .. n \/ i = n + 1
    BY <1>6, <1>7
  <2>3. \A j \in 1 .. Len(queue'[p]) : j \in 1 .. n \/ j = n + 1
    BY <1>6, <1>7
  <2>4. CASE i \in 1 .. n
    <3>1. queue'[p][i] = queue[p][i] /\ queue[p][i] # d
      BY <1>6, <1>7, <1>10, <2>4 DEF n
    <3>2. queue[p][i] = Marker => ~pool[p].running /\ pool[p].immediate
      BY <1>1, <2>4 DEF QueueOK, n
    <3>3. queue[p][i] \in Task =>
            /\ pushed[queue[p][i]] = p /\ queue[p][i] \notin ran
            /\ \A t \in Thread : task[t] # queue[p][i]
            /\ \A j \in 1 .. n : queue[p][j] = queue[p][i] => j = i
      BY <1>1, <2>4 DEF QueueOK, n
    <3>4. QED
      BY <1>2, <1>6, <1>7, <1>8, <1>9, <2>3, <3>1, <3>2, <3>3
  <2>5. CASE i = n + 1
    <3>1. queue'[p][i] = d
      BY <1>6, <1>7, <2>5
    <3>2. \A j \in 1 .. n : queue'[p][j] # d
      BY <1>6, <1>7, <1>10 DEF n
    <3>3. d # Marker
      BY PoolAssumption
    <3>4. QED
      BY <1>2, <1>8, <1>10, <2>3, <2>5, <3>1, <3>2, <3>3
  <2>6. QED
    BY <2>2, <2>4, <2>5
<1>13. \A t \in Thread : RunOK(t)'
  <2>1. \A t \in Thread : task[t] \in Task \cup {None}
    BY <1>1 DEF TypeOK
  <2>2. QED
    BY <1>1, <1>2, <1>8, <1>9, <1>10, <2>1 DEF RunOK
<1>14. ASSUME NEW e \in Task
       PROVE  TaskOK(e)'
  <2>1. CASE e = d
    <3>1. n + 1 \in 1 .. Len(queue'[p]) /\ queue'[p][n + 1] = d
      BY <1>6, <1>7
    <3>2. QED
      BY <1>8, <1>10, <2>1, <3>1 DEF TaskOK
  <2>2. CASE e # d
    <3>1. pushed'[e] = pushed[e]
      BY <1>8, <2>2
    <3>2. \A q \in Pool : \A i \in 1 .. Len(queue[q]) :
            i \in 1 .. Len(queue'[q]) /\ queue'[q][i] = queue[q][i]
      BY <1>6, <1>7 DEF n
    <3>3. QED
      BY <1>1, <1>2, <1>9, <3>1, <3>2 DEF TaskOK
  <2>3. QED
    BY <2>1, <2>2
<1>15. QED
  BY <1>9, <1>11, <1>12, <1>13, <1>14 DEF IInv

\* thread_pool_wakeup_and_stop_all_L, or nothing: what was in the queue stays,
\* and nothing but markers comes after it.
LEMMA Stopped ==
  ASSUME IInv, NEW p \in Pool, NEW m \in Nat, UNCHANGED <<task, pushed, ran>>,
         \/ queue' = queue
         \/ /\ ~pool'[p].running /\ pool'[p].immediate
            /\ queue' = [queue EXCEPT ![p] = @ \o Markers(m)],
         \A q \in Pool : /\ ~pool[q].running => ~pool'[q].running
                         /\ pool[q].immediate => pool'[q].immediate,
         \A t \in Thread : task[t] # None => at'[t] = at[t]
  PROVE  /\ queue' \in [Pool -> Seq(Task \cup {Marker})]
         /\ \A q \in Pool : QueueOK(q)'
         /\ \A t \in Thread : RunOK(t)'
         /\ \A d \in Task : TaskOK(d)'
<1>1. /\ TypeOK
      /\ \A t \in Thread : RunOK(t)
      /\ \A q \in Pool : QueueOK(q)
      /\ \A d \in Task : TaskOK(d)
  BY Facts
<1>2. queue[p] \in Seq(Task \cup {Marker})
  BY <1>1 DEF TypeOK
<1> DEFINE n == Len(queue[p])
<1>3. /\ queue' \in [Pool -> Seq(Task \cup {Marker})] /\ Len(queue'[p]) >= n
      /\ Len(queue'[p]) \in Nat /\ n \in Nat
      /\ \A i \in 1 .. n : queue'[p][i] = queue[p][i]
      /\ \A i \in 1 .. Len(queue'[p]) :
           \/ i \in 1 .. n
           \/ queue'[p][i] = Marker /\ ~pool'[p].running /\ pool'[p].immediate
      /\ \A q \in Pool \ {p} : queue'[q] = queue[q]
  <2>1. CASE queue' = queue
    BY <1>1, <1>2, <2>1 DEF TypeOK
  <2>2. CASE /\ ~pool'[p].running /\ pool'[p].immediate
             /\ queue' = [queue EXCEPT ![p] = @ \o Markers(m)]
    <3>1. /\ Markers(m) \in Seq(Task \cup {Marker}) /\ Len(Markers(m)) = m
          /\ \A i \in 1 .. m : Markers(m)[i] = Marker
      BY DEF Markers
    <3> DEFINE M == Markers(m)
               o == queue[p] \o M
    <3> HIDE DEF M
    <3>2. /\ M \in Seq(Task \cup {Marker}) /\ Len(M) = m
          /\ \A i \in 1 .. m : M[i] = Marker
      BY <3>1 DEF M
    <3>3. /\ o \in Seq(Task \cup {Marker}) /\ n \in Nat /\ Len(o) = n + m
      BY <1>2, <3>2
    <3>4. \A i \in 1 .. n : o[i] = queue[p][i]
      BY <1>2, <3>2
    <3>5. \A i \in 1 .. n + m : i \in 1 .. n \/ o[i] = Marker
      <4>1. SUFFICES ASSUME NEW i \in 1 .. n + m, i \notin 1 .. n
                     PROVE  o[i] = Marker
        OBVIOUS
      <4>2. i - n \in 1 .. m
        BY <3>3, <4>1
      <4>3. o[i] = M[i - n]
        BY <1>2, <3>2, <3>3, <4>1
      <4>4. QED
        BY <3>2, <4>2, <4>3
    <3>6. queue' = [queue EXCEPT ![p] = o]
      BY <2>2 DEF M
    <3> HIDE DEF o, n
    <3>7. /\ queue' \in [Pool -> Seq(Task \cup {Marker})] /\ queue'[p] = o
          /\ \A q \in Pool \ {p} : queue'[q] = queue[q]
      BY <1>1, <3>3, <3>6 DEF TypeOK
    <3>8. QED
      BY <2>2, <3>3, <3>4, <3>5, <3>7
  <2>3. QED
    BY <2>1, <2>2
<1>4. ASSUME NEW q \in Pool \ {p}
      PROVE  QueueOK(q)'
  BY <1>1, <1>3 DEF QueueOK
<1> HIDE DEF n
<1>5. QueueOK(p)'
  <2>1. SUFFICES ASSUME NEW i \in 1 .. Len(queue'[p])
                 PROVE  /\ queue'[p][i] = Marker => ~pool'[p].running /\ pool'[p].immediate
                        /\ queue'[p][i] \in Task =>
                             /\ pushed'[queue'[p][i]] = p /\ queue'[p][i] \notin ran'
                             /\ \A t \in Thread : task'[t] # queue'[p][i]
                             /\ \A j \in 1 .. Len(queue'[p]) :
                                  queue'[p][j] = queue'[p][i] => j = i
    BY DEF QueueOK
  <2>2. Marker \notin Task
    BY PoolAssumption
  <2>3. CASE i \in 1 .. n
    <3>1. queue'[p][i] = queue[p][i]
      BY <1>3, <2>3
    <3>2. /\ queue[p][i] = Marker => ~pool[p].running /\ pool[p].immediate
          /\ queue[p][i] \in Task =>
               /\ pushed[queue[p][i]] = p /\ queue[p][i] \notin ran
               /\ \A t \in Thread : task[t] # queue[p][i]
               /\ \A j \in 1 .. n : queue[p][j] = queue[p][i] => j = i
      BY <1>1, <2>3 DEF QueueOK, n
    <3>3. ASSUME queue[p][i] \in Task, NEW j \in 1 .. Len(queue'[p]), queue'[p][j] = queue'[p][i]
          PROVE  j = i
      <4>1. j \in 1 .. n
        BY <1>3, <2>2, <3>1, <3>3
      <4>2. QED
        BY <1>3, <3>1, <3>2, <3>3, <4>1
    <3>4. QED
      BY <3>1, <3>2, <3>3
  <2>4. CASE i \notin 1 .. n
    BY <1>3, <2>2, <2>4
  <2>5. QED
    BY <2>3, <2>4
<1>6. \A t \in Thread : RunOK(t)'
  BY <1>1 DEF RunOK
<1>7. ASSUME NEW d \in Task
      PROVE  TaskOK(d)'
  <2>1. \A q \in Pool : \A i \in 1 .. Len(queue[q]) :
          i \in 1 .. Len(queue'[q]) /\ queue'[q][i] = queue[q][i]
    BY <1>3 DEF n
  <2>2. \A q \in Pool : ~pool'[q].immediate => ~pool[q].immediate
    OBVIOUS
  <2>3. QED
    BY <1>1, <2>1, <2>2 DEF TaskOK
<1>8. QED
  BY <1>3, <1>4, <1>5, <1>6, <1>7

LEMMA ClientFreeStep ==
  ASSUME IInv, NEW p \in Pool, ClientFree(p)
  PROVE  IInv'
<1>1. /\ TypeOK /\ Counts
      /\ \A t \in Thread : ThreadOK(t) /\ FreerOK(t)
      /\ \A q \in Pool : PoolOK(q)
  BY Facts
<1>2. /\ client[p] = "free" /\ client' = [client EXCEPT ![p] = "done"]
      /\ pool' = [pool EXCEPT ![p].freed = TRUE]
      /\ UNCHANGED <<queue, uq, uq_waiting, unused_threads, pc, at, task, pushed, ran>>
  BY DEF ClientFree
<1>3. pool \in [Pool -> Fields]
  BY <1>1 DEF TypeOK, Fields
<1>4. /\ pool' \in [Pool -> Fields] /\ pool'[p].freed
      /\ \A q \in Pool : /\ pool'[q].running = pool[q].running
                         /\ pool'[q].immediate = pool[q].immediate
                         /\ pool'[q].waiting = pool[q].waiting
                         /\ pool'[q].num_threads = pool[q].num_threads
                         /\ pool'[q].waiting_threads = pool[q].waiting_threads
                         /\ q # p => pool'[q].freed = pool[q].freed
  BY <1>2, <1>3 DEF Fields
<1>5. client'[p] = "done" /\ \A q \in Pool \ {p} : client'[q] = client[q]
  BY <1>1, <1>2 DEF TypeOK
<1>6. TypeOK'
  BY <1>1, <1>2, <1>4 DEF TypeOK, Fields
<1>7. Counts'
  BY <1>2, <1>4, SameCounts
<1>8. \A t \in Thread : ThreadOK(t)' /\ FreerOK(t)'
  <2>1. \A t \in Thread : ThreadOK(t)'
    BY <1>1, <1>2 DEF ThreadOK
  <2>2. \A t \in Thread : pc[t] = "free" => at[t] # p /\ at[t] \in Pool
    BY <1>1, <1>2 DEF FreerOK, ThreadOK, TypeOK
  <2>3. QED
    BY <1>1, <1>2, <1>4, <1>5, <2>1, <2>2 DEF FreerOK
<1>9. \A q \in Pool : PoolOK(q)'
  BY <1>1, <1>2, <1>4, <1>5 DEF PoolOK
<1>10. /\ \A q \in Pool : QueueOK(q)'
       /\ \A t \in Thread : RunOK(t)'
       /\ \A d \in Task : TaskOK(d)'
  BY <1>2, <1>4, SameTasks
<1>11. QED
  BY <1>6, <1>7, <1>8, <1>9, <1>10 DEF IInv

\* x_thread_pool_delete: r are the fields of the pool when its wait is over.
LEMMA Finished ==
  ASSUME IInv, NEW p \in Pool, client[p] \in {"live", "waiting", "woken"}, NEW r \in Fields,
         r.num_threads = pool[p].num_threads, r.waiting_threads = pool[p].waiting_threads,
         ~r.running, r.freed = pool[p].freed, pool[p].immediate => r.immediate,
         DeleteFinish(p, r),
         UNCHANGED <<uq, uq_waiting, unused_threads, pc, at, task, pushed, ran>>
  PROVE  IInv'
<1>1. /\ TypeOK /\ Counts
      /\ \A t \in Thread : ThreadOK(t) /\ FreerOK(t)
      /\ \A q \in Pool : PoolOK(q)
  BY Facts
<1>2. PICK c \in {"free", "done"}, s \in Fields, m \in Nat :
        /\ client' = [client EXCEPT ![p] = c] /\ pool' = [pool EXCEPT ![p] = s]
        /\ s.num_threads = pool[p].num_threads /\ s.waiting_threads = pool[p].waiting_threads
        /\ ~s.running /\ s.freed = pool[p].freed /\ (pool[p].immediate => s.immediate)
        /\ c = "free" => s.num_threads = 0
        /\ \/ queue' = queue
           \/ s.immediate /\ queue' = [queue EXCEPT ![p] = @ \o Markers(m)]
  <2>1. CASE OwnerFrees(p, r)
    BY <2>1 DEF DeleteFinish, OwnerFrees
  <2>2. CASE ~OwnerFrees(p, r)
    <3> DEFINE s == [r EXCEPT !.immediate = r.immediate \/ Idle(p, r), !.waiting = FALSE]
    <3>1. Idle(p, r) \in BOOLEAN
      BY DEF Idle
    <3>2. /\ s \in Fields /\ s.num_threads = r.num_threads
          /\ s.waiting_threads = r.waiting_threads
          /\ s.running = r.running /\ s.freed = r.freed
          /\ s.immediate = (r.immediate \/ Idle(p, r))
      BY <3>1 DEF Fields
    <3>3. /\ client' = [client EXCEPT ![p] = "done"] /\ pool' = [pool EXCEPT ![p] = s]
          /\ queue' = [queue EXCEPT ![p] = IF r.immediate \/ Idle(p, r)
                                             THEN @ \o Markers(r.num_threads) ELSE @]
      BY <2>2 DEF DeleteFinish
    <3>4. \/ queue' = queue
          \/ s.immediate /\ queue' = [queue EXCEPT ![p] = @ \o Markers(r.num_threads)]
      BY <1>1, <3>2, <3>3 DEF TypeOK
    <3>5. r.num_threads \in Nat
      BY DEF Fields
    <3> HIDE DEF s
    <3>6. QED
      BY <3>2, <3>3, <3>4, <3>5
  <2>3. QED
    BY <2>1, <2>2
<1>3. /\ pool' \in [Pool -> Fields] /\ pool'[p] = s
      /\ \A q \in Pool \ {p} : pool'[q] = pool[q]
  BY <1>2, Updated
<1>4. client'[p] = c /\ \A q \in Pool \ {p} : client'[q] = client[q]
  BY <1>1, <1>2 DEF TypeOK
<1>5. \A q \in Pool : /\ ~pool[q].running => ~pool'[q].running
                      /\ pool[q].immediate => pool'[q].immediate
  BY <1>1, <1>2, <1>3 DEF PoolOK
<1>6. /\ queue' \in [Pool -> Seq(Task \cup {Marker})]
      /\ \A q \in Pool : QueueOK(q)'
      /\ \A t \in Thread : RunOK(t)'
      /\ \A d \in Task : TaskOK(d)'
  BY <1>2, <1>3, <1>5, Stopped
<1>7. TypeOK'
  BY <1>1, <1>2, <1>3, <1>6 DEF TypeOK, Fields
<1>8. Counts'
  BY <1>2, <1>3, SameCounts
<1>9. \A t \in Thread : ThreadOK(t)' /\ FreerOK(t)'
  <2>1. \A t \in Thread : ThreadOK(t)'
    BY <1>1 DEF ThreadOK
  <2>2. \A t \in Thread : pc[t] = "free" => at[t] # p /\ at[t] \in Pool
    BY <1>1 DEF FreerOK, ThreadOK, TypeOK
  <2>3. QED
    BY <1>1, <1>3, <1>4, <2>1, <2>2 DEF FreerOK
<1>10. \A q \in Pool : PoolOK(q)'
  <2>1. ~pool[p].freed
    BY <1>1 DEF PoolOK
  <2>2. QED
    BY <1>1, <1>2, <1>3, <1>4, <2>1 DEF PoolOK
<1>11. QED
  BY <1>6, <1>7, <1>8, <1>9, <1>10 DEF IInv

LEMMA DeleteStep ==
  ASSUME IInv, NEW p \in Pool, NEW immediate \in BOOLEAN, NEW wait \in BOOLEAN,
         Delete(p, immediate, wait)
  PROVE  IInv'
<1>1. /\ TypeOK
      /\ \A t \in Thread : ThreadOK(t) /\ FreerOK(t)
      /\ \A q \in Pool : PoolOK(q)
  BY Facts
<1> DEFINE r == [pool[p] EXCEPT !.running = FALSE, !.immediate = immediate, !.waiting = wait]
<1>2. /\ client[p] = "live"
      /\ IF wait /\ MustWait(p, r)
           THEN /\ client' = [client EXCEPT ![p] = "waiting"]
                /\ pool' = [pool EXCEPT ![p] = r]
                /\ UNCHANGED queue
           ELSE DeleteFinish(p, r)
      /\ UNCHANGED <<uq, uq_waiting, unused_threads, pc, at, task, pushed, ran>>
  BY DEF Delete
<1>3. /\ r \in Fields /\ r.num_threads = pool[p].num_threads
      /\ r.waiting_threads = pool[p].waiting_threads /\ ~r.running
      /\ r.immediate = immediate /\ r.waiting = wait /\ r.freed = pool[p].freed
  <2>1. pool[p] \in Fields
    BY <1>1 DEF TypeOK, Fields
  <2>2. QED
    BY <2>1 DEF Fields
<1>4. pool[p].running /\ ~pool[p].immediate /\ ~pool[p].freed
  BY <1>1, <1>2 DEF PoolOK
<1> HIDE DEF r
<1>5. CASE wait /\ MustWait(p, r)
  <2>1. /\ client' = [client EXCEPT ![p] = "waiting"] /\ pool' = [pool EXCEPT ![p] = r]
        /\ UNCHANGED <<queue, uq, uq_waiting, unused_threads, pc, at, task, pushed, ran>>
    BY <1>2, <1>5
  <2>2. /\ pool' \in [Pool -> Fields] /\ pool'[p] = r
        /\ \A q \in Pool \ {p} : pool'[q] = pool[q]
    BY <1>3, <2>1, Updated
  <2>3. client'[p] = "waiting" /\ \A q \in Pool \ {p} : client'[q] = client[q]
    BY <1>1, <2>1 DEF TypeOK
  <2>4. /\ \A q \in Pool : QueueOK(q)'
        /\ \A t \in Thread : RunOK(t)'
        /\ \A d \in Task : TaskOK(d)'
    <3>1. \A q \in Pool : /\ ~pool[q].running => ~pool'[q].running
                          /\ pool[q].immediate => pool'[q].immediate
      BY <1>3, <1>4, <2>2
    <3>2. 0 \in Nat
      OBVIOUS
    <3>3. QED
      BY <2>1, <3>1, <3>2, Stopped
  <2>5. TypeOK'
    BY <1>1, <2>1, <2>2 DEF TypeOK, Fields
  <2>6. Counts'
    BY <1>3, <2>1, <2>2, SameCounts
  <2>7. \A t \in Thread : ThreadOK(t)' /\ FreerOK(t)'
    <3>1. \A t \in Thread : ThreadOK(t)'
      BY <1>1, <2>1 DEF ThreadOK
    <3>2. \A t \in Thread : pc[t] = "free" => at[t] # p /\ at[t] \in Pool
      BY <1>1, <1>2 DEF FreerOK, ThreadOK, TypeOK
    <3>3. QED
      BY <1>1, <2>1, <2>2, <2>3, <3>1, <3>2 DEF FreerOK
  <2>8. \A q \in Pool : PoolOK(q)'
    <3>1. PoolOK(p)'
      BY <1>3, <1>4, <1>5, <2>2, <2>3 DEF PoolOK
    <3>2. QED
      BY <1>1, <2>2, <2>3, <3>1 DEF PoolOK
  <2>9. QED
    BY <2>4, <2>5, <2>6, <2>7, <2>8 DEF IInv
<1>6. CASE ~(wait /\ MustWait(p, r))
  <2>1. DeleteFinish(p, r)
    BY <1>2, <1>6
  <2>2. QED
    BY <1>2, <1>3, <1>4, <2>1, Finished
<1>7. QED
  BY <1>5, <1>6

LEMMA DeleteWokenStep ==
  ASSUME IInv, NEW p \in Pool, DeleteWoken(p)
  PROVE  IInv'
<1>1. /\ TypeOK
      /\ \A t \in Thread : ThreadOK(t) /\ FreerOK(t)
      /\ \A q \in Pool : PoolOK(q)
  BY Facts
<1>2. /\ client[p] \in {"waiting", "woken"}
      /\ UNCHANGED <<uq, uq_waiting, unused_threads, pc, at, task, pushed, ran>>
  BY DEF DeleteWoken
<1>3. pool[p] \in Fields /\ ~pool[p].running
  BY <1>1, <1>2 DEF TypeOK, Fields, PoolOK
<1>4. CASE MustWait(p, pool[p])
  <2>1. client' = [client EXCEPT ![p] = "waiting"] /\ UNCHANGED <<pool, queue>>
    BY <1>4 DEF DeleteWoken
  <2>2. client'[p] = "waiting" /\ \A q \in Pool \ {p} : client'[q] = client[q]
    BY <1>1, <2>1 DEF TypeOK
  <2>3. TypeOK'
    BY <1>1, <1>2, <2>1 DEF TypeOK
  <2>4. Counts'
    BY <1>2, <2>1, SameCounts
  <2>5. /\ \A q \in Pool : QueueOK(q)'
        /\ \A t \in Thread : RunOK(t)'
        /\ \A d \in Task : TaskOK(d)'
    BY <1>2, <2>1, SameTasks
  <2>6. \A t \in Thread : ThreadOK(t)' /\ FreerOK(t)'
    <3>1. \A t \in Thread : ThreadOK(t)'
      BY <1>1, <1>2 DEF ThreadOK
    <3>2. \A t \in Thread : pc[t] = "free" => at[t] # p /\ at[t] \in Pool
      BY <1>1, <1>2 DEF FreerOK, ThreadOK, TypeOK
    <3>3. QED
      BY <1>1, <1>2, <2>1, <2>2, <3>1, <3>2 DEF FreerOK
  <2>7. \A q \in Pool : PoolOK(q)'
    BY <1>1, <1>2, <2>1, <2>2 DEF PoolOK
  <2>8. QED
    BY <2>3, <2>4, <2>5, <2>6, <2>7 DEF IInv
<1>5. CASE ~MustWait(p, pool[p])
  <2>1. DeleteFinish(p, pool[p])
    BY <1>5 DEF DeleteWoken
  <2>2. QED
    BY <1>2, <1>3, <2>1, Finished
<1>6. QED
  BY <1>4, <1>5

-----------------------------------------------------------------------------
(* A worker in its pool *)

\* A pool that a thread works for is counted, not freed, and nobody frees it.
LEMMA AtWork ==
  ASSUME IInv, NEW t \in Thread, pc[t] \in {"loop", "wait", "run"}
  PROVE  /\ at[t] \in Pool /\ pool[at[t]] \in Fields /\ pool[at[t]].num_threads >= 1
         /\ pc[t] = "wait" => pool[at[t]].waiting_threads >= 1
         /\ client[at[t]] # "free" /\ ~pool[at[t]].freed
         /\ \A u \in Thread : pc[u] = "free" => at[u] # at[t]
         /\ task[t] # None <=> pc[t] = "run"
<1>1. /\ TypeOK /\ Counts /\ ThreadOK(t)
      /\ \A u \in Thread : FreerOK(u)
      /\ \A q \in Pool : PoolOK(q)
  BY Facts
<1>2. at[t] \in Pool /\ (task[t] # None <=> pc[t] = "run")
  BY <1>1 DEF ThreadOK, TypeOK, Working
<1>3. pool[at[t]] \in Fields
  BY <1>1, <1>2 DEF TypeOK, Fields
<1>4. pool[at[t]].num_threads >= 1
  <2>1. t \in Attached(at[t]) /\ Attached(at[t]) \in SUBSET Thread
    BY DEF Attached
  <2>2. Cardinality(Attached(at[t])) > 0
    BY <2>1, Counted
  <2>3. QED
    BY <1>1, <1>2, <2>2, Numbers DEF Counts
<1>5. pc[t] = "wait" => pool[at[t]].waiting_threads >= 1
  <2>1. pc[t] = "wait" => t \in Waiting(at[t]) /\ Waiting(at[t]) \in SUBSET Thread
    BY DEF Waiting
  <2>2. pc[t] = "wait" => Cardinality(Waiting(at[t])) > 0
    BY <2>1, Counted
  <2>3. QED
    BY <1>1, <1>2, <2>2, Numbers DEF Counts
<1>6. QED
  BY <1>1, <1>2, <1>3, <1>4, <1>5 DEF PoolOK, FreerOK

\* The fields of the pools follow a move of t to label l and pool q.
Follows(t, l, q) ==
  \A p \in Pool :
    /\ pool'[p].num_threads =
         pool[p].num_threads + One(l \in Working /\ q = p)
                             - One(pc[t] \in Working /\ at[t] = p)
    /\ pool'[p].waiting_threads =
         pool[p].waiting_threads + One(l = "wait" /\ q = p)
                                 - One(pc[t] = "wait" /\ at[t] = p)

LEMMA Worked ==
  ASSUME IInv, NEW t \in Thread, NEW l \in {"loop", "wait", "run", "free", "seek"},
         NEW q \in Pool \cup {None}, pc[t] \in {"loop", "wait", "run", "free"},
         pc' = [pc EXCEPT ![t] = l], at' = [at EXCEPT ![t] = q],
         uq' = uq, uq_waiting' = uq_waiting, unused_threads' = unused_threads, Follows(t, l, q)
  PROVE  Counts'
<1>1. TypeOK /\ Counts
  BY Facts
<1>2. /\ pc'[t] = l /\ at'[t] = q
      /\ \A u \in Thread \ {t} : pc'[u] = pc[u] /\ at'[u] = at[u]
  BY Move DEF Label
<1>3. ASSUME NEW p \in Pool
      PROVE  /\ pool'[p].num_threads = Cardinality(Attached(p)') + Cardinality(Calls(p)')
             /\ pool'[p].waiting_threads = Cardinality(Waiting(p)')
  <2>1. /\ Cardinality(Attached(p)') =
             Cardinality(Attached(p)) + One(l \in Working /\ q = p)
                                      - One(pc[t] \in Working /\ at[t] = p)
        /\ Cardinality(Waiting(p)') =
             Cardinality(Waiting(p)) + One(l = "wait" /\ q = p)
                                     - One(pc[t] = "wait" /\ at[t] = p)
    BY <1>2, Moved
  <2>2. Cardinality(Calls(p)') = Cardinality(Calls(p))
    BY SameCalls
  <2>3. /\ One(l \in Working /\ q = p) \in Int /\ One(pc[t] \in Working /\ at[t] = p) \in Int
        /\ One(l = "wait" /\ q = p) \in Int /\ One(pc[t] = "wait" /\ at[t] = p) \in Int
    BY DEF One
  <2>4. /\ pool[p].num_threads = Cardinality(Attached(p)) + Cardinality(Calls(p))
        /\ pool[p].waiting_threads = Cardinality(Waiting(p))
    BY <1>1 DEF Counts
  <2>5. /\ Cardinality(Attached(p)) \in Nat /\ Cardinality(Calls(p)) \in Nat
        /\ Cardinality(Waiting(p)) \in Nat
    BY <1>1, Numbers
  <2>6. QED
    BY <2>1, <2>2, <2>3, <2>4, <2>5 DEF Follows
<1>4. /\ Cardinality(Idling') = Cardinality(Idling)
      /\ Cardinality(Unused') = Cardinality(Unused)
      /\ Cardinality(Staying') = Cardinality(Staying)
  BY <1>1, <1>2, Moved, Numbers DEF One
<1>5. QED
  BY <1>1, <1>3, <1>4 DEF Counts

LEMMA RunTaskStep ==
  ASSUME IInv, NEW t \in Thread, RunTask(t)
  PROVE  IInv'
<1>1. /\ TypeOK
      /\ \A u \in Thread : ThreadOK(u) /\ FreerOK(u) /\ RunOK(u)
      /\ \A p \in Pool : PoolOK(p) /\ QueueOK(p)
      /\ \A d \in Task : TaskOK(d)
  BY Facts
<1>2. /\ pc[t] = "run" /\ ran' = ran \cup {task[t]} /\ task' = [task EXCEPT ![t] = None]
      /\ pc' = [pc EXCEPT ![t] = "loop"] /\ at' = at
      /\ UNCHANGED <<pool, queue, uq, uq_waiting, unused_threads, client, pushed>>
  BY DEF RunTask
<1>3. at[t] \in Pool /\ task[t] # None
  BY <1>2, AtWork
<1>4. at' = [at EXCEPT ![t] = at[t]] /\ at[t] \in Pool \cup {None}
  BY <1>2, Stayed
<1>5. /\ pc' \in [Thread -> Label] /\ pc'[t] = "loop"
      /\ \A u \in Thread \ {t} : pc'[u] = pc[u]
  BY <1>2, <1>4, Move DEF Label
<1>6. /\ task[t] \in Task /\ task' \in [Thread -> Task \cup {None}] /\ task'[t] = None
      /\ \A u \in Thread \ {t} : task'[u] = task[u] /\ task[u] # task[t]
  BY <1>1, <1>2, <1>3 DEF TypeOK, RunOK
<1>7. TypeOK'
  BY <1>1, <1>2, <1>5, <1>6 DEF TypeOK, Label
<1>8. Counts'
  <2>1. \A p \in Pool : pool[p].num_threads \in Nat /\ pool[p].waiting_threads \in Nat
    BY <1>1 DEF TypeOK
  <2>2. Follows(t, "loop", at[t])
    BY <1>2, <2>1 DEF One, Working, Follows
  <2>3. /\ "loop" \in {"loop", "wait", "run", "free", "seek"} /\ at[t] \in Pool \cup {None}
        /\ pc[t] \in {"loop", "wait", "run", "free"}
        /\ pc' = [pc EXCEPT ![t] = "loop"] /\ at' = [at EXCEPT ![t] = at[t]]
        /\ UNCHANGED <<uq, uq_waiting, unused_threads>>
    BY <1>2, <1>4
  <2>4. QED
    BY <2>2, <2>3, Worked
<1>9. \A u \in Thread : ThreadOK(u)' /\ FreerOK(u)'
  <2>1. \A u \in Thread : ThreadOK(u)'
    BY <1>1, <1>2, <1>5, <1>6 DEF ThreadOK, Working
  <2>2. QED
    BY <1>1, <1>2, <1>5, <2>1 DEF FreerOK
<1>10. \A u \in Thread : RunOK(u)'
  BY <1>1, <1>2, <1>6 DEF RunOK
<1>11. \A p \in Pool : PoolOK(p)' /\ QueueOK(p)'
  <2>1. \A p \in Pool : PoolOK(p)'
    BY <1>1, <1>2 DEF PoolOK
  <2>2. ASSUME NEW p \in Pool
        PROVE  QueueOK(p)'
    <3>1. \A i \in 1 .. Len(queue[p]) :
            queue[p][i] \in Task =>
              /\ queue[p][i] \notin ran'
              /\ \A u \in Thread : task'[u] # queue[p][i]
      BY <1>1, <1>2, <1>6, PoolAssumption DEF QueueOK
    <3>2. QED
      BY <1>1, <1>2, <3>1 DEF QueueOK
  <2>3. QED
    BY <2>1, <2>2
<1>12. ASSUME NEW d \in Task
       PROVE  TaskOK(d)'
  <2>1. d \in ran' => pushed'[d] # None
    BY <1>1, <1>2, <1>3, PoolAssumption DEF TaskOK, RunOK
  <2>2. d \notin ran' => d \notin ran /\ d # task[t]
    BY <1>2
  <2>3. \A u \in Thread : task[u] = d => u = t \/ task'[u] = d
    BY <1>6
  <2>4. QED
    BY <1>1, <1>2, <2>1, <2>2, <2>3 DEF TaskOK
<1>13. QED
  BY <1>7, <1>8, <1>9, <1>10, <1>11, <1>12 DEF IInv

LEMMA WorkerFreeStep ==
  ASSUME IInv, NEW t \in Thread, WorkerFree(t)
  PROVE  IInv'
<1>1. /\ TypeOK
      /\ \A u \in Thread : ThreadOK(u) /\ FreerOK(u)
      /\ \A p \in Pool : PoolOK(p)
  BY Facts
<1>2. /\ pc[t] = "free" /\ pool' = [pool EXCEPT ![at[t]].freed = TRUE]
      /\ pc' = [pc EXCEPT ![t] = "seek"] /\ at' = [at EXCEPT ![t] = None]
      /\ UNCHANGED <<queue, uq, uq_waiting, unused_threads, task, client, pushed, ran>>
  BY DEF WorkerFree
<1>3. at[t] \in Pool /\ task[t] = None
  BY <1>1, <1>2 DEF ThreadOK, TypeOK
<1>4. pool \in [Pool -> Fields]
  BY <1>1 DEF TypeOK, Fields
<1>5. /\ pool' \in [Pool -> Fields] /\ pool'[at[t]].freed
      /\ \A q \in Pool : /\ pool'[q].running = pool[q].running
                         /\ pool'[q].immediate = pool[q].immediate
                         /\ pool'[q].waiting = pool[q].waiting
                         /\ pool'[q].num_threads = pool[q].num_threads
                         /\ pool'[q].waiting_threads = pool[q].waiting_threads
                         /\ q # at[t] => pool'[q].freed = pool[q].freed
  BY <1>2, <1>3, <1>4 DEF Fields
<1>6. /\ pc' \in [Thread -> Label] /\ at' \in [Thread -> Pool \cup {None}]
      /\ pc'[t] = "seek" /\ at'[t] = None
      /\ \A u \in Thread \ {t} : pc'[u] = pc[u] /\ at'[u] = at[u]
  BY <1>2, Move DEF Label
<1>7. TypeOK'
  BY <1>1, <1>2, <1>5, <1>6 DEF TypeOK, Fields, Label
<1>8. Counts'
  <2>1. \A p \in Pool : pool[p].num_threads \in Nat /\ pool[p].waiting_threads \in Nat
    BY <1>1 DEF TypeOK
  <2>2. Follows(t, "seek", None)
    BY <1>2, <1>5, <2>1 DEF One, Working, Follows
  <2>3. /\ None \in Pool \cup {None}
        /\ pc[t] \in {"loop", "wait", "run", "free"}
        /\ "seek" \in {"loop", "wait", "run", "free", "seek"}
        /\ pc' = [pc EXCEPT ![t] = "seek"] /\ at' = [at EXCEPT ![t] = None]
        /\ UNCHANGED <<uq, uq_waiting, unused_threads>>
    BY <1>2 DEF Label
  <2>4. QED
    BY <2>2, <2>3, Worked
<1>9. \A u \in Thread : ThreadOK(u)' /\ FreerOK(u)'
  <2>1. \A u \in Thread : ThreadOK(u)'
    BY <1>1, <1>2, <1>3, <1>6 DEF ThreadOK, Working
  <2>2. \A u \in Thread \ {t} : pc[u] = "free" => at[u] # at[t] /\ at[u] \in Pool
    BY <1>1, <1>2 DEF FreerOK, ThreadOK, TypeOK
  <2>3. QED
    BY <1>1, <1>2, <1>5, <1>6, <2>1, <2>2 DEF FreerOK
<1>10. \A q \in Pool : PoolOK(q)'
  <2>1. client[at[t]] = "done" /\ pool[at[t]].num_threads = 0
    BY <1>1, <1>2 DEF FreerOK
  <2>2. QED
    BY <1>1, <1>2, <1>5, <2>1 DEF PoolOK
<1>11. /\ \A q \in Pool : QueueOK(q)'
       /\ \A u \in Thread : RunOK(u)'
       /\ \A d \in Task : TaskOK(d)'
  BY <1>2, <1>3, <1>5, <1>6, SameTasks
<1>12. QED
  BY <1>7, <1>8, <1>9, <1>10, <1>11 DEF IInv

\* A worker leaves: r are the fields of its pool once it is counted out.
LEMMA Left ==
  ASSUME IInv, NEW t \in Thread, NEW p \in Pool, p = at[t], pc[t] \in {"loop", "wait"},
         NEW r \in Fields, r.num_threads = pool[p].num_threads - 1,
         r.waiting_threads = pool[p].waiting_threads - One(pc[t] = "wait"),
         r.running = pool[p].running, r.immediate = pool[p].immediate,
         r.waiting = pool[p].waiting, r.freed = pool[p].freed,
         LeavePool(t, p, r), UNCHANGED <<uq, uq_waiting, unused_threads, pushed, ran>>
  PROVE  IInv'
<1>1. /\ TypeOK
      /\ \A u \in Thread : ThreadOK(u) /\ FreerOK(u)
      /\ \A q \in Pool : PoolOK(q)
  BY Facts
<1>2. /\ client[p] # "free" /\ ~pool[p].freed /\ task[t] = None
      /\ \A u \in Thread : pc[u] = "free" => at[u] # p
  BY AtWork
<1> DEFINE last == Orphan(r) /\ r.num_threads = 0
           stop == Orphan(r) /\ r.num_threads # 0 /\ Idle(p, r)
           s == [r EXCEPT !.immediate = r.immediate \/ stop]
           l == IF last THEN "free" ELSE "seek"
           q == IF last THEN p ELSE None
           c == IF TellsOwner(p, r) /\ client[p] = "waiting" THEN "woken" ELSE client[p]
<1>3. /\ pc' = [pc EXCEPT ![t] = l] /\ at' = [at EXCEPT ![t] = q]
      /\ pool' = [pool EXCEPT ![p] = s] /\ client' = [client EXCEPT ![p] = c]
      /\ queue' = [queue EXCEPT ![p] = IF stop THEN @ \o Markers(r.num_threads) ELSE @]
      /\ task' = task
  BY DEF LeavePool
<1>4. /\ s \in Fields /\ s.num_threads = pool[p].num_threads - 1
      /\ s.waiting_threads = pool[p].waiting_threads - One(pc[t] = "wait")
      /\ s.running = pool[p].running /\ s.immediate = (pool[p].immediate \/ stop)
      /\ s.waiting = pool[p].waiting /\ s.freed = pool[p].freed
  <2>1. stop \in BOOLEAN
    BY DEF Orphan, Idle
  <2> HIDE DEF stop
  <2>2. QED
    BY <2>1 DEF Fields
<1>5. /\ l \in {"free", "seek"} /\ (l = "free" <=> last) /\ q \in Pool \cup {None}
      /\ (l = "free" => q = p) /\ (l # "free" => q = None)
  OBVIOUS
<1>6. /\ client[p] = "waiting" => c \in {"waiting", "woken"}
      /\ client[p] # "waiting" => c = client[p]
  OBVIOUS
<1>7. /\ stop => ~pool[p].running
      /\ last => ~pool[p].running /\ ~pool[p].waiting /\ s.num_threads = 0
  BY <1>4 DEF Orphan
<1>8. \/ queue' = queue
      \/ stop /\ queue' = [queue EXCEPT ![p] = @ \o Markers(r.num_threads)]
  BY <1>1, <1>3 DEF TypeOK
<1>9. r.num_threads \in Nat /\ p # None
  BY PoolAssumption DEF Fields
<1> HIDE DEF last, stop, s, l, q, c
<1>10. /\ pool' \in [Pool -> Fields] /\ pool'[p] = s
       /\ \A o \in Pool \ {p} : pool'[o] = pool[o]
  BY <1>3, <1>4, Updated
<1>11. /\ pc' \in [Thread -> Label] /\ at' \in [Thread -> Pool \cup {None}]
       /\ pc'[t] = l /\ at'[t] = q
       /\ \A u \in Thread \ {t} : pc'[u] = pc[u] /\ at'[u] = at[u]
  <2>1. l \in Label
    BY <1>5 DEF Label
  <2>2. QED
    BY <1>3, <1>5, <2>1, Move
<1>12. client'[p] = c /\ \A o \in Pool \ {p} : client'[o] = client[o]
  BY <1>1, <1>3 DEF TypeOK
<1>13. /\ queue' \in [Pool -> Seq(Task \cup {Marker})]
       /\ \A o \in Pool : QueueOK(o)'
       /\ \A u \in Thread : RunOK(u)'
       /\ \A d \in Task : TaskOK(d)'
  <2>1. \A o \in Pool : /\ ~pool[o].running => ~pool'[o].running
                        /\ pool[o].immediate => pool'[o].immediate
    BY <1>4, <1>10
  <2>2. \/ queue' = queue
        \/ /\ ~pool'[p].running /\ pool'[p].immediate
           /\ queue' = [queue EXCEPT ![p] = @ \o Markers(r.num_threads)]
    BY <1>4, <1>7, <1>8, <1>10
  <2>3. \A u \in Thread : task[u] # None => at'[u] = at[u]
    BY <1>2, <1>11
  <2>4. UNCHANGED <<task, pushed, ran>>
    BY <1>3
  <2>5. QED
    BY <1>9, <2>1, <2>2, <2>3, <2>4, Stopped
<1>14. TypeOK'
  <2>1. client' \in [Pool -> {"none", "creating", "live", "waiting", "woken", "free", "done"}]
    BY <1>1, <1>3, <1>6 DEF TypeOK
  <2>2. QED
    BY <1>1, <1>3, <1>10, <1>11, <1>13, <2>1 DEF TypeOK, Fields, Label
<1>15. Counts'
  <2>1. \A o \in Pool : pool[o].num_threads \in Nat /\ pool[o].waiting_threads \in Nat
    BY <1>1 DEF TypeOK
  <2>2. Follows(t, l, q)
    BY <1>4, <1>5, <1>10, <2>1 DEF One, Working, Follows
  <2>3. /\ q \in Pool \cup {None} /\ pc[t] \in {"loop", "wait", "run", "free"}
        /\ l \in {"loop", "wait", "run", "free", "seek"}
        /\ pc' = [pc EXCEPT ![t] = l] /\ at' = [at EXCEPT ![t] = q]
        /\ UNCHANGED <<uq, uq_waiting, unused_threads>>
    BY <1>3, <1>5 DEF Label
  <2>4. QED
    BY <2>2, <2>3, Worked
<1>16. \A u \in Thread : ThreadOK(u)'
  BY <1>1, <1>2, <1>3, <1>5, <1>9, <1>11 DEF ThreadOK, Working
\* The last of them finds an owner that is done.
<1>17. last => client[p] = "done"
  BY <1>1, <1>2, <1>7 DEF PoolOK, TypeOK
<1>18. ASSUME NEW u \in Thread
       PROVE  FreerOK(u)'
  <2>1. \A v \in Thread \ {t} : pc'[v] = "free" => at'[v] \in Pool \ {p}
    BY <1>1, <1>2, <1>11 DEF ThreadOK, TypeOK
  <2>2. CASE u = t
    BY <1>2, <1>4, <1>5, <1>6, <1>7, <1>10, <1>11, <1>12, <1>17, <2>1, <2>2 DEF FreerOK
  <2>3. CASE u # t
    <3>1. pc'[u] = "free" => at'[u] \in Pool \ {p} /\ at'[u] = at[u] /\ pc[u] = "free"
      BY <1>11, <2>1, <2>3
    <3>2. \A v \in Thread : pc'[v] = "free" /\ at'[v] # p => pc[v] = "free" /\ at[v] = at'[v]
      BY <1>5, <1>11
    <3>3. QED
      BY <1>1, <1>10, <1>12, <3>1, <3>2 DEF FreerOK
  <2>4. QED
    BY <2>2, <2>3
<1>19. \A o \in Pool : PoolOK(o)'
  <2>1. /\ pool[p].running <=> client[p] \in {"none", "creating", "live"}
        /\ pool[p].running => ~pool[p].immediate
        /\ client[p] \in {"waiting", "woken"} => pool[p].waiting
    BY <1>1 DEF PoolOK
  <2>2. /\ client'[p] \in {"none", "creating", "live"} <=> client[p] \in {"none", "creating", "live"}
        /\ client'[p] \in {"waiting", "woken"} <=> client[p] \in {"waiting", "woken"}
        /\ client'[p] # "free"
    BY <1>2, <1>6, <1>12
  <2>3. s.running => ~s.immediate
    BY <1>4, <1>7, <2>1
  <2>4. PoolOK(p)'
    BY <1>2, <1>4, <1>10, <2>1, <2>2, <2>3 DEF PoolOK
  <2>5. \A o \in Pool \ {p} : PoolOK(o)'
    BY <1>1, <1>10, <1>12 DEF PoolOK
  <2>6. QED
    BY <2>4, <2>5
<1>20. QED
  BY <1>13, <1>14, <1>15, <1>16, <1>18, <1>19 DEF IInv

\* A worker takes the next element: r are the fields of its pool then.
LEMMA Took ==
  ASSUME IInv, NEW t \in Thread, NEW p \in Pool, p = at[t], pc[t] \in {"loop", "wait"},
         queue[p] # << >>, NEW r \in Fields, r.num_threads = pool[p].num_threads,
         r.waiting_threads = pool[p].waiting_threads - One(pc[t] = "wait"),
         r.running = pool[p].running, r.immediate = pool[p].immediate,
         r.waiting = pool[p].waiting, r.freed = pool[p].freed,
         TakeTask(t, p, r), UNCHANGED <<uq, uq_waiting, unused_threads, pushed, ran>>
  PROVE  IInv'
<1>1. /\ TypeOK
      /\ \A u \in Thread : ThreadOK(u) /\ FreerOK(u) /\ RunOK(u)
      /\ \A q \in Pool : PoolOK(q) /\ QueueOK(q)
      /\ \A d \in Task : TaskOK(d)
  BY Facts
<1>2. task[t] = None /\ p # None
  BY AtWork, PoolAssumption
<1> DEFINE n == Len(queue[p])
           h == Head(queue[p])
           b == RunsTasks(r)
<1>3. /\ queue[p] \in Seq(Task \cup {Marker}) /\ n \in Nat /\ n >= 1 /\ h = queue[p][1]
      /\ h \in Task \cup {Marker} /\ Tail(queue[p]) \in Seq(Task \cup {Marker})
      /\ Len(Tail(queue[p])) = n - 1
      /\ \A i \in 1 .. n - 1 : Tail(queue[p])[i] = queue[p][i + 1]
  BY <1>1 DEF TypeOK
<1>4. /\ queue' = [queue EXCEPT ![p] = Tail(queue[p])] /\ pool' = [pool EXCEPT ![p] = r]
      /\ UNCHANGED <<at, client>>
      /\ IF b THEN pc' = [pc EXCEPT ![t] = "run"] /\ task' = [task EXCEPT ![t] = h]
              ELSE pc' = [pc EXCEPT ![t] = "loop"] /\ task' = task
  BY DEF TakeTask
<1> HIDE DEF n, h
<1>5. /\ queue' \in [Pool -> Seq(Task \cup {Marker})]
      /\ Len(queue'[p]) = n - 1 /\ \A i \in 1 .. n - 1 : queue'[p][i] = queue[p][i + 1]
      /\ \A q \in Pool \ {p} : queue'[q] = queue[q]
  BY <1>1, <1>3, <1>4 DEF TypeOK
<1>6. /\ pool' \in [Pool -> Fields] /\ pool'[p] = r
      /\ \A q \in Pool \ {p} : pool'[q] = pool[q]
  BY <1>4, Updated
\* What is run is a task, and this thread is the only one to know it.
<1>7. /\ 1 \in 1 .. n
      /\ h = Marker => ~pool[p].running /\ pool[p].immediate
      /\ h \in Task => /\ pushed[h] = p /\ h \notin ran
                       /\ \A u \in Thread : task[u] # h
                       /\ \A j \in 1 .. n : queue[p][j] = h => j = 1
  BY <1>1, <1>3 DEF QueueOK, n
<1>8. /\ b => h \in Task
      /\ ~b => pool[p].immediate
  BY <1>3, <1>7 DEF RunsTasks
<1> HIDE DEF b
<1>9. PICK l \in {"run", "loop"}, x \in Task \cup {None} :
        /\ pc' = [pc EXCEPT ![t] = l] /\ task' = [task EXCEPT ![t] = x]
        /\ l = "run" <=> b
        /\ b => x = h
        /\ ~b => x = None
  <2>1. CASE b
    BY <1>4, <1>8, <2>1
  <2>2. CASE ~b
    <3>1. task' = [task EXCEPT ![t] = None]
      BY <1>1, <1>2, <1>4, <2>2 DEF TypeOK
    <3>2. QED
      BY <1>4, <2>2, <3>1
  <2>3. QED
    BY <2>1, <2>2
<1>10. at' = [at EXCEPT ![t] = at[t]] /\ at[t] \in Pool \cup {None}
  BY <1>4, Stayed
<1>11. /\ pc' \in [Thread -> Label] /\ pc'[t] = l
       /\ \A u \in Thread \ {t} : pc'[u] = pc[u]
  <2>1. l \in Label
    BY <1>9 DEF Label
  <2>2. QED
    BY <1>9, <1>10, <2>1, Move
<1>12. /\ task' \in [Thread -> Task \cup {None}] /\ task'[t] = x
       /\ \A u \in Thread \ {t} : task'[u] = task[u]
  BY <1>1, <1>9 DEF TypeOK
<1>13. TypeOK'
  BY <1>1, <1>4, <1>5, <1>6, <1>11, <1>12 DEF TypeOK, Fields, Label
<1>14. Counts'
  <2>1. \A q \in Pool : pool[q].num_threads \in Nat /\ pool[q].waiting_threads \in Nat
    BY <1>1 DEF TypeOK
  <2>2. Follows(t, l, at[t])
    BY <1>6, <1>9, <2>1 DEF One, Working, Follows
  <2>3. /\ at[t] \in Pool \cup {None} /\ pc[t] \in {"loop", "wait", "run", "free"}
        /\ l \in {"loop", "wait", "run", "free", "seek"}
        /\ pc' = [pc EXCEPT ![t] = l] /\ at' = [at EXCEPT ![t] = at[t]]
        /\ UNCHANGED <<uq, uq_waiting, unused_threads>>
    BY <1>9, <1>10 DEF Label
  <2>4. QED
    BY <2>2, <2>3, Worked
<1>15. \A u \in Thread : ThreadOK(u)' /\ FreerOK(u)'
  <2>1. ASSUME NEW u \in Thread
        PROVE  ThreadOK(u)'
    <3>1. CASE u = t
      <4>1. x # None <=> l = "run"
        BY <1>8, <1>9, PoolAssumption
      <4>2. QED
        BY <1>2, <1>4, <1>9, <1>11, <1>12, <3>1, <4>1 DEF ThreadOK, Working
    <3>2. CASE u # t
      BY <1>1, <1>4, <1>11, <1>12, <3>2 DEF ThreadOK
    <3>3. QED
      BY <3>1, <3>2
  <2>2. \A u \in Thread : pc'[u] = "free" => pc[u] = "free" /\ at[u] # p /\ at[u] \in Pool
    <3>1. \A u \in Thread : pc[u] = "free" => at[u] # p /\ at[u] \in Pool
      BY <1>1, AtWork DEF ThreadOK, TypeOK
    <3>2. QED
      BY <1>9, <1>11, <3>1
  <2>3. \A u \in Thread : FreerOK(u)'
    BY <1>1, <1>4, <1>6, <2>2 DEF FreerOK
  <2>4. QED
    BY <2>1, <2>3
<1>16. \A q \in Pool : PoolOK(q)'
  BY <1>1, <1>4, <1>6 DEF PoolOK
<1>17. \A u \in Thread : task'[u] = task[u] \/ (u = t /\ b /\ task'[u] = h /\ h \in Task)
  BY <1>2, <1>8, <1>9, <1>12
<1>18. \A u \in Thread : RunOK(u)'
  <2>1. RunOK(t)'
    BY <1>4, <1>7, <1>8, <1>9, <1>12 DEF RunOK
  <2>2. ASSUME NEW u \in Thread \ {t}
        PROVE  RunOK(u)'
    <3>1. task'[u] = task[u] /\ (task[u] # None => task[u] # task'[t])
      BY <1>7, <1>8, <1>9, <1>12
    <3>2. QED
      BY <1>1, <1>4, <1>12, <3>1 DEF RunOK
  <2>3. QED
    BY <2>1, <2>2
<1>19. \A q \in Pool : QueueOK(q)'
  <2>1. ASSUME NEW q \in Pool \ {p}
        PROVE  QueueOK(q)'
    <3>1. \A i \in 1 .. Len(queue[q]) :
            queue[q][i] \in Task => \A u \in Thread : task'[u] # queue[q][i]
      BY <1>1, <1>7, <1>17 DEF QueueOK
    <3>2. queue'[q] = queue[q] /\ pool'[q] = pool[q] /\ pushed' = pushed /\ ran' = ran
      BY <1>5, <1>6
    <3>3. QED
      BY <1>1, <3>1, <3>2 DEF QueueOK
  <2>2. QueueOK(p)'
    <3>1. SUFFICES ASSUME NEW i \in 1 .. Len(queue'[p])
                   PROVE  /\ queue'[p][i] = Marker => ~pool'[p].running /\ pool'[p].immediate
                          /\ queue'[p][i] \in Task =>
                               /\ pushed'[queue'[p][i]] = p /\ queue'[p][i] \notin ran'
                               /\ \A u \in Thread : task'[u] # queue'[p][i]
                               /\ \A j \in 1 .. Len(queue'[p]) :
                                    queue'[p][j] = queue'[p][i] => j = i
      BY DEF QueueOK
    <3>2. i \in 1 .. n - 1 /\ i + 1 \in 1 .. n /\ queue'[p][i] = queue[p][i + 1]
      BY <1>3, <1>5
    <3> DEFINE e == queue[p][i + 1]
    <3>3. /\ e = Marker => ~pool[p].running /\ pool[p].immediate
          /\ e \in Task => /\ pushed[e] = p /\ e \notin ran
                           /\ \A u \in Thread : task[u] # e
                           /\ \A j \in 1 .. n : queue[p][j] = e => j = i + 1
      BY <1>1, <3>2 DEF QueueOK, n
    <3> HIDE DEF e
    <3>4. e \in Task => \A u \in Thread : task'[u] # e
      <4>1. e \in Task => e # h
        <5>1. ASSUME e \in Task, e = h
              PROVE  FALSE
          <6>1. 1 = i + 1
            BY <1>3, <1>7, <3>3, <5>1
          <6>2. QED
            BY <3>2, <6>1
        <5>2. QED
          BY <5>1
      <4>2. QED
        BY <1>17, <3>3, <4>1
    <3>5. ASSUME e \in Task, NEW j \in 1 .. Len(queue'[p]), queue'[p][j] = e
          PROVE  j = i
      <4>1. j \in 1 .. n - 1 /\ j + 1 \in 1 .. n /\ queue[p][j + 1] = e
        BY <1>3, <1>5, <3>5
      <4>2. j + 1 = i + 1
        BY <3>3, <3>5, <4>1
      <4>3. QED
        BY <3>2, <4>1, <4>2
    <3>6. queue'[p][i] = e /\ pushed' = pushed /\ ran' = ran
      BY <3>2 DEF e
    <3>7. QED
      BY <1>6, <3>3, <3>4, <3>5, <3>6
  <2>3. QED
    BY <2>1, <2>2
<1>20. ASSUME NEW d \in Task
       PROVE  TaskOK(d)'
  <2>1. SUFFICES ASSUME NEW q \in Pool, pushed[d] = q, d \notin ran, ~pool'[q].immediate
                 PROVE  \/ \E i \in 1 .. Len(queue'[q]) : queue'[q][i] = d
                        \/ \E u \in Thread : task'[u] = d
    BY <1>1 DEF TaskOK
  <2>2. ~pool[q].immediate
    BY <1>6, <2>1
  <2>3. CASE \E u \in Thread : task[u] = d
    <3>1. PICK u \in Thread : task[u] = d
      BY <2>3
    <3>2. u # t
      BY <1>2, <3>1, PoolAssumption
    <3>3. QED
      BY <1>12, <3>1, <3>2
  <2>4. CASE \E i \in 1 .. Len(queue[q]) : queue[q][i] = d
    <3>1. PICK i \in 1 .. Len(queue[q]) : queue[q][i] = d
      BY <2>4
    <3>2. CASE q # p
      BY <1>5, <3>1, <3>2
    <3>3. CASE q = p /\ i = 1
      <4>1. d = h /\ b
        BY <1>3, <1>8, <2>2, <3>1, <3>3
      <4>2. QED
        BY <1>9, <1>12, <4>1
    <3>4. CASE q = p /\ i # 1
      <4>1. i - 1 \in 1 .. n - 1 /\ queue'[p][i - 1] = queue[p][(i - 1) + 1]
        BY <1>3, <1>5, <3>1, <3>4 DEF n
      <4>2. (i - 1) + 1 = i
        BY <3>1
      <4>3. QED
        BY <1>5, <3>1, <3>4, <4>1, <4>2
    <3>5. QED
      BY <3>2, <3>3, <3>4
  <2>5. QED
    BY <1>1, <2>1, <2>2, <2>3, <2>4 DEF TaskOK
<1>21. QED
  BY <1>13, <1>14, <1>15, <1>16, <1>18, <1>19, <1>20 DEF IInv

LEMMA WaitForNewTaskStep ==
  ASSUME IInv, NEW t \in Thread, WaitForNewTask(t)
  PROVE  IInv'
<1> DEFINE p == at[t]
<1>1. pc[t] = "loop" /\ UNCHANGED <<uq, uq_waiting, unused_threads, pushed, ran>>
  BY DEF WaitForNewTask
<1>2. /\ TypeOK
      /\ \A u \in Thread : ThreadOK(u) /\ FreerOK(u)
      /\ \A q \in Pool : PoolOK(q)
  BY Facts
<1>3. /\ p \in Pool /\ pool[p] \in Fields /\ pool[p].num_threads >= 1 /\ task[t] = None
      /\ \A u \in Thread : pc[u] = "free" => at[u] # p
  BY <1>1, AtWork
<1>4. CASE ~KeepsThread(p)
  <2> DEFINE r == [pool[p] EXCEPT !.num_threads = @ - 1]
  <2>1. LeavePool(t, p, r)
    BY <1>4 DEF WaitForNewTask, Leave
  <2>2. /\ r \in Fields /\ r.num_threads = pool[p].num_threads - 1
        /\ r.waiting_threads = pool[p].waiting_threads - One(pc[t] = "wait")
        /\ r.running = pool[p].running /\ r.immediate = pool[p].immediate
        /\ r.waiting = pool[p].waiting /\ r.freed = pool[p].freed
    BY <1>1, <1>3 DEF Fields, One
  <2> HIDE DEF r
  <2>3. QED
    BY <1>1, <1>3, <2>1, <2>2, Left
<1>5. CASE KeepsThread(p) /\ queue[p] # << >>
  <2>1. TakeTask(t, p, pool[p])
    BY <1>5 DEF WaitForNewTask
  <2>2. pool[p].waiting_threads = pool[p].waiting_threads - One(pc[t] = "wait")
    BY <1>1, <1>3 DEF Fields, One
  <2>3. QED
    BY <1>1, <1>3, <1>5, <2>1, <2>2, Took
<1>6. CASE KeepsThread(p) /\ queue[p] = << >>
  <2>1. /\ pool' = [pool EXCEPT ![p].waiting_threads = @ + 1] /\ pc' = [pc EXCEPT ![t] = "wait"]
        /\ UNCHANGED <<queue, at, task, client>>
    BY <1>6 DEF WaitForNewTask
  <2>2. pool \in [Pool -> Fields]
    BY <1>2 DEF TypeOK, Fields
  <2>3. /\ pool' \in [Pool -> Fields]
        /\ pool'[p].waiting_threads = pool[p].waiting_threads + 1
        /\ \A q \in Pool : /\ pool'[q].running = pool[q].running
                           /\ pool'[q].immediate = pool[q].immediate
                           /\ pool'[q].waiting = pool[q].waiting
                           /\ pool'[q].num_threads = pool[q].num_threads
                           /\ pool'[q].freed = pool[q].freed
                           /\ q # p => pool'[q].waiting_threads = pool[q].waiting_threads
    BY <1>3, <2>1, <2>2 DEF Fields
  <2>4. at' = [at EXCEPT ![t] = p] /\ p \in Pool \cup {None}
    BY <2>1, Stayed
  <2>5. /\ pc' \in [Thread -> Label] /\ pc'[t] = "wait"
        /\ \A u \in Thread \ {t} : pc'[u] = pc[u]
    BY <2>1, <2>4, Move DEF Label
  <2>6. TypeOK'
    BY <1>1, <1>2, <2>1, <2>3, <2>5 DEF TypeOK, Fields, Label
  <2>7. Counts'
    <3>1. \A q \in Pool : pool[q].num_threads \in Nat /\ pool[q].waiting_threads \in Nat
      BY <1>2 DEF TypeOK
    <3>2. Follows(t, "wait", p)
      BY <1>1, <2>3, <3>1 DEF One, Working, Follows
    <3>3. /\ pc[t] \in {"loop", "wait", "run", "free"}
          /\ "wait" \in {"loop", "wait", "run", "free", "seek"}
          /\ UNCHANGED <<uq, uq_waiting, unused_threads>>
      BY <1>1 DEF Label
    <3>4. QED
      BY <2>1, <2>4, <3>2, <3>3, Worked
  <2>8. \A u \in Thread : ThreadOK(u)' /\ FreerOK(u)'
    <3>1. \A u \in Thread : ThreadOK(u)'
      BY <1>1, <1>2, <2>1, <2>5 DEF ThreadOK, Working
    <3>2. QED
      BY <1>2, <1>3, <2>1, <2>3, <2>5, <3>1 DEF FreerOK
  <2>9. \A q \in Pool : PoolOK(q)'
    BY <1>2, <2>1, <2>3 DEF PoolOK
  <2>10. /\ \A q \in Pool : QueueOK(q)'
         /\ \A u \in Thread : RunOK(u)'
         /\ \A d \in Task : TaskOK(d)'
    BY <1>1, <2>1, <2>3, SameTasks
  <2>11. QED
    BY <2>6, <2>7, <2>8, <2>9, <2>10 DEF IInv
<1>7. QED
  BY <1>4, <1>5, <1>6

LEMMA WaitWakesStep ==
  ASSUME IInv, NEW t \in Thread, WaitWakes(t)
  PROVE  IInv'
<1> DEFINE p == at[t]
           r == [pool[p] EXCEPT !.waiting_threads = @ - 1]
<1>1. /\ pc[t] = "wait" /\ queue[p] # << >> /\ TakeTask(t, p, r)
      /\ UNCHANGED <<uq, uq_waiting, unused_threads, pushed, ran>>
  BY DEF WaitWakes
<1>2. p \in Pool /\ pool[p] \in Fields /\ pool[p].waiting_threads >= 1
  BY <1>1, AtWork
<1>3. /\ r \in Fields /\ r.num_threads = pool[p].num_threads
      /\ r.waiting_threads = pool[p].waiting_threads - One(pc[t] = "wait")
      /\ r.running = pool[p].running /\ r.immediate = pool[p].immediate
      /\ r.waiting = pool[p].waiting /\ r.freed = pool[p].freed
  BY <1>1, <1>2 DEF Fields, One
<1> HIDE DEF r
<1>4. QED
  BY <1>1, <1>2, <1>3, Took

LEMMA WaitTimesOutStep ==
  ASSUME IInv, NEW t \in Thread, WaitTimesOut(t)
  PROVE  IInv'
<1> DEFINE p == at[t]
           o == [pool[p] EXCEPT !.waiting_threads = @ - 1]
           r == [o EXCEPT !.num_threads = @ - 1]
<1>1. /\ pc[t] = "wait" /\ LeavePool(t, p, r)
      /\ UNCHANGED <<uq, uq_waiting, unused_threads, pushed, ran>>
  BY DEF WaitTimesOut, Leave
<1>2. /\ p \in Pool /\ pool[p] \in Fields
      /\ pool[p].num_threads >= 1 /\ pool[p].waiting_threads >= 1
  BY <1>1, AtWork
<1>3. /\ o \in Fields /\ o.num_threads = pool[p].num_threads
      /\ o.waiting_threads = pool[p].waiting_threads - One(pc[t] = "wait")
      /\ o.running = pool[p].running /\ o.immediate = pool[p].immediate
      /\ o.waiting = pool[p].waiting /\ o.freed = pool[p].freed
  BY <1>1, <1>2 DEF Fields, One
<1> HIDE DEF o
<1>4. /\ r \in Fields /\ r.num_threads = o.num_threads - 1
      /\ r.waiting_threads = o.waiting_threads
      /\ r.running = o.running /\ r.immediate = o.immediate
      /\ r.waiting = o.waiting /\ r.freed = o.freed
  BY <1>2, <1>3 DEF Fields
<1> HIDE DEF r
<1>5. QED
  BY <1>1, <1>2, <1>3, <1>4, Left

-----------------------------------------------------------------------------
(* The invariant, and what follows from it *)

LEMMA InitHolds == Init => IInv
<1> SUFFICES ASSUME Init
             PROVE  IInv
  OBVIOUS
<1> USE DEF Init
<1>1. TypeOK
  BY DEF TypeOK
<1>2. Counts
  <2>1. /\ \A p \in Pool : Attached(p) = {} /\ Calls(p) = {} /\ Waiting(p) = {}
        /\ Idling = {} /\ Unused = {} /\ Staying = {}
    BY PoolAssumption DEF Attached, Calls, Waiting, Idling, Unused, Staying
  <2>2. Cardinality({}) = 0
    BY FS_EmptySet
  <2>3. \A p \in Pool : pool[p].num_threads = 0 /\ pool[p].waiting_threads = 0
    OBVIOUS
  <2>4. uq_waiting = 0 /\ unused_threads = 0 /\ 0 < MaxUnused
    BY PoolAssumption
  <2> HIDE DEF Init
  <2>5. \A p \in Pool : /\ pool[p].num_threads = Cardinality(Attached(p)) + Cardinality(Calls(p))
                        /\ pool[p].waiting_threads = Cardinality(Waiting(p))
    BY <2>1, <2>2, <2>3
  <2>6. QED
    BY <2>1, <2>2, <2>4, <2>5 DEF Counts
<1>3. \A t \in Thread : ThreadOK(t) /\ FreerOK(t) /\ RunOK(t)
  BY DEF ThreadOK, FreerOK, RunOK, Working
<1>4. \A p \in Pool : PoolOK(p) /\ QueueOK(p)
  BY DEF PoolOK, QueueOK
<1>5. \A d \in Task : TaskOK(d)
  BY PoolAssumption DEF TaskOK
<1>6. QED
  BY <1>1, <1>2, <1>3, <1>4, <1>5 DEF IInv

LEMMA StepHolds == IInv /\ [Next]_vars => IInv'
<1> SUFFICES ASSUME IInv, [Next]_vars
             PROVE  IInv'
  OBVIOUS
<1>1. ASSUME NEW p \in Pool, ClientStep(p)
      PROVE  IInv'
  <2>1. CASE Create(p)
    BY <2>1, CreateStep
  <2>2. CASE CreateThread(p)
    BY <2>2, CreateThreadStep
  <2>3. CASE \E d \in Task : Push(p, d)
    BY <2>3, PushStep
  <2>4. CASE \E immediate, wait \in BOOLEAN : Delete(p, immediate, wait)
    BY <2>4, DeleteStep
  <2>5. CASE DeleteWoken(p)
    BY <2>5, DeleteWokenStep
  <2>6. CASE ClientFree(p)
    BY <2>6, ClientFreeStep
  <2>7. QED
    BY <1>1, <2>1, <2>2, <2>3, <2>4, <2>5, <2>6 DEF ClientStep
<1>2. ASSUME NEW t \in Thread, WorkerStep(t)
      PROVE  IInv'
  <2>1. CASE WaitForNewTask(t)
    BY <2>1, WaitForNewTaskStep
  <2>2. CASE WaitWakes(t)
    BY <2>2, WaitWakesStep
  <2>3. CASE WaitTimesOut(t)
    BY <2>3, WaitTimesOutStep
  <2>4. CASE RunTask(t)
    BY <2>4, RunTaskStep
  <2>5. CASE WorkerFree(t)
    BY <2>5, WorkerFreeStep
  <2>6. CASE SeekEnter(t)
    BY <2>6, SeekEnterStep
  <2>7. CASE SeekCheck(t)
    BY <2>7, SeekCheckStep
  <2>8. CASE SeekPop(t)
    BY <2>8, SeekPopStep
  <2>9. CASE IdleWakes(t)
    BY <2>9, IdleWakesStep
  <2>10. CASE IdleTimesOut(t)
    BY <2>10, IdleTimesOutStep
  <2>11. CASE SeekLeave(t)
    BY <2>11, SeekLeaveStep
  <2>12. QED
    BY <1>2, <2>1, <2>2, <2>3, <2>4, <2>5, <2>6, <2>7, <2>8, <2>9, <2>10, <2>11 DEF WorkerStep
<1>3. CASE UNCHANGED vars
  <2>1. UNCHANGED <<pool, queue, uq, uq_waiting, unused_threads, pc, at, task, client, pushed,
                    ran>>
    BY <1>3 DEF vars
  <2>2. /\ TypeOK
        /\ \A t \in Thread : ThreadOK(t) /\ FreerOK(t)
        /\ \A p \in Pool : PoolOK(p)
    BY Facts
  <2>3. TypeOK'
    BY <2>1, <2>2 DEF TypeOK
  <2>4. Counts'
    BY <2>1, SameCounts
  <2>5. \A t \in Thread : ThreadOK(t)' /\ FreerOK(t)'
    BY <2>1, <2>2 DEF ThreadOK, FreerOK
  <2>6. \A p \in Pool : PoolOK(p)'
    BY <2>1, <2>2 DEF PoolOK
  <2>7. /\ \A p \in Pool : QueueOK(p)'
        /\ \A t \in Thread : RunOK(t)'
        /\ \A d \in Task : TaskOK(d)'
    BY <2>1, SameTasks
  <2>8. QED
    BY <2>3, <2>4, <2>5, <2>6, <2>7 DEF IInv
<1>4. QED
  BY <1>1, <1>2, <1>3 DEF Next

\* The inductive invariant holds in every reachable state.
THEOREM Invariant == Spec => []IInv
BY InitHolds, StepHolds, PTL DEF Spec

LEMMA CountsFollow == IInv => CountsHold
<1> SUFFICES ASSUME IInv
             PROVE  CountsHold
  OBVIOUS
<1>1. TypeOK /\ Counts
  BY Facts
<1>2. Idling \in SUBSET Staying /\ Staying \in SUBSET Thread
  BY DEF Idling, Staying
<1>3. IdleBounded
  <2>1. IsFiniteSet(Staying)
    BY <1>2, ThreadSets
  <2>2. Cardinality(Idling) <= Cardinality(Staying)
    BY <1>2, <2>1, FS_Subset
  <2>3. QED
    BY <1>1, <2>2, Numbers, PoolAssumption DEF Counts, IdleBounded
<1>4. QED
  BY <1>1, <1>3 DEF CountsHold, ThreadsCounted, WaitersCounted, Counts

\* The fields num_threads and waiting_threads of every pool, and the count of
\* the global queue's waiters, are exact between any two critical sections of
\* xthreadpool.c, and fewer than _max_unused_threads threads wait idle.
THEOREM CountsAreExact == Spec => []CountsHold
BY Invariant, CountsFollow, PTL

\* A pool that counts no thread has none, and none is called to it.
LEMMA NoThreads ==
  ASSUME IInv, NEW p \in Pool, pool[p].num_threads = 0
  PROVE  /\ Attached(p) = {} /\ Calls(p) = {} /\ pool[p].waiting_threads = 0
<1>1. TypeOK /\ Counts
  BY Facts
<1>2. Cardinality(Attached(p)) = 0 /\ Cardinality(Calls(p)) = 0
  BY <1>1, Numbers DEF Counts
<1>3. Attached(p) = {}
  <2>1. Attached(p) \in SUBSET Thread
    BY DEF Attached
  <2>2. QED
    BY <1>2, <2>1, ThreadSets, FS_EmptySet
<1>4. Calls(p) = {}
  BY <1>1, <1>2, CallSets, FS_EmptySet DEF TypeOK
<1>5. Waiting(p) = {}
  BY <1>3 DEF Waiting, Attached
<1>6. QED
  BY <1>1, <1>3, <1>4, <1>5, FS_EmptySet DEF Counts

LEMMA FreedFollows == IInv => FreedLast
<1> SUFFICES ASSUME IInv
             PROVE  FreedLast
  OBVIOUS
<1>1. /\ TypeOK
      /\ \A t \in Thread : FreerOK(t)
      /\ \A p \in Pool : PoolOK(p)
  BY Facts
<1>2. NoFreedPoolInUse
  <2>1. SUFFICES ASSUME NEW p \in Pool, pool[p].freed
                 PROVE  /\ Attached(p) = {} /\ Calls(p) = {}
                        /\ Freers(p) = {} /\ client[p] = "done"
    BY DEF NoFreedPoolInUse
  <2>2. client[p] = "done" /\ pool[p].num_threads = 0
    BY <1>1, <2>1 DEF PoolOK
  <2>3. Freers(p) = {}
    BY <1>1, <2>1 DEF Freers, FreerOK
  <2>4. QED
    BY <2>2, <2>3, NoThreads
<1>3. FreePreconditions
  <2>1. SUFFICES ASSUME NEW p \in Pool, Freers(p) # {} \/ client[p] = "free"
                 PROVE  /\ ~pool[p].running
                        /\ pool[p].num_threads = 0 /\ pool[p].waiting_threads = 0
                        /\ Cardinality(Freers(p))
                             + (IF client[p] = "free" THEN 1 ELSE 0) = 1
    BY DEF FreePreconditions
  <2>2. CASE client[p] = "free"
    <3>1. Freers(p) = {}
      BY <1>1, <2>2 DEF Freers, FreerOK
    <3>2. Cardinality(Freers(p)) = 0
      BY <3>1, FS_EmptySet
    <3>3. ~pool[p].running /\ pool[p].num_threads = 0
      BY <1>1, <2>2 DEF PoolOK
    <3>4. QED
      BY <2>2, <3>2, <3>3, NoThreads
  <2>3. CASE Freers(p) # {}
    <3>1. PICK t \in Thread : pc[t] = "free" /\ at[t] = p
      BY <2>3 DEF Freers
    <3>2. client[p] = "done" /\ pool[p].num_threads = 0
      BY <1>1, <3>1 DEF FreerOK
    <3>3. Freers(p) = {t}
      BY <1>1, <3>1 DEF Freers, FreerOK
    <3>4. Cardinality(Freers(p)) = 1
      BY <3>3, FS_Singleton
    <3>5. ~pool[p].running
      BY <1>1, <3>2 DEF PoolOK
    <3>6. QED
      BY <3>2, <3>4, <3>5, NoThreads
  <2>4. QED
    BY <2>1, <2>2, <2>3
<1>4. QED
  BY <1>2, <1>3 DEF FreedLast

\* Whoever frees a pool, its owner or its last thread, is the last to know it
\* and the only one to free it, in whatever order they leave.
THEOREM FreedByTheLast == Spec => []FreedLast
BY Invariant, FreedFollows, PTL

LEMMA TasksFollow == IInv => TasksOnce
<1> SUFFICES ASSUME IInv
             PROVE  TasksOnce
  OBVIOUS
<1>1. /\ TypeOK
      /\ \A t \in Thread : RunOK(t)
      /\ \A p \in Pool : QueueOK(p)
      /\ \A d \in Task : TaskOK(d)
  BY Facts
<1>2. OnlyTasksRun
  <2>1. \A t \in Thread : task[t] # Marker
    BY <1>1, PoolAssumption DEF TypeOK
  <2>2. ran \in SUBSET Task /\ None \notin Task
    BY <1>1, PoolAssumption DEF TypeOK
  <2>3. \A t \in Thread : task[t] \notin ran
    BY <1>1, <2>2 DEF RunOK
  <2>4. \A t, u \in Thread : t # u /\ task[t] # None => task[t] # task[u]
    BY <1>1 DEF RunOK
  <2>5. QED
    BY <2>1, <2>3, <2>4 DEF OnlyTasksRun
<1>3. TasksKept
  <2>1. SUFFICES ASSUME NEW d \in Task, NEW p \in Pool,
                        pushed[d] = p, d \notin ran, ~pool[p].immediate
                 PROVE  Cardinality(Queued(d, p)) + Cardinality(Runners(d)) = 1
    BY DEF TasksKept
  <2>2. CASE \E i \in 1 .. Len(queue[p]) : queue[p][i] = d
    <3>1. PICK i \in 1 .. Len(queue[p]) : queue[p][i] = d
      BY <2>2
    <3>2. Queued(d, p) = {i} /\ Runners(d) = {}
      BY <1>1, <3>1 DEF Queued, Runners, QueueOK
    <3>3. Cardinality({i}) = 1 /\ Cardinality({}) = 0
      BY FS_Singleton, FS_EmptySet
    <3>4. QED
      BY <3>2, <3>3
  <2>3. CASE \E t \in Thread : task[t] = d
    <3>1. PICK t \in Thread : task[t] = d
      BY <2>3
    <3>2. task[t] # None
      BY <3>1, PoolAssumption
    <3>3. Runners(d) = {t}
      BY <1>1, <3>1, <3>2 DEF Runners, RunOK
    <3>4. Queued(d, p) = {}
      BY <1>1, <3>1 DEF Queued, QueueOK
    <3>5. Cardinality({t}) = 1 /\ Cardinality({}) = 0
      BY FS_Singleton, FS_EmptySet
    <3>6. QED
      BY <3>3, <3>4, <3>5
  <2>4. QED
    BY <1>1, <2>1, <2>2, <2>3 DEF TaskOK
<1>4. QED
  BY <1>2, <1>3 DEF TasksOnce

\* A pool that is not stopped at once and whose threads all wait is done.
LEMMA IdleIsDone ==
  ASSUME IInv, NEW p \in Pool, Idle(p, pool[p]), ~pool[p].immediate
  PROVE  {d \in Task : pushed[d] = p} \subseteq ran
<1>1. /\ TypeOK /\ Counts
      /\ \A t \in Thread : RunOK(t) /\ ThreadOK(t)
      /\ \A d \in Task : TaskOK(d)
  BY Facts
<1>2. /\ IsFiniteSet(Attached(p)) /\ Waiting(p) \subseteq Attached(p)
      /\ Attached(p) \in SUBSET Thread
  <2>1. Attached(p) \in SUBSET Thread /\ Waiting(p) \subseteq Attached(p)
    BY DEF Attached, Waiting
  <2>2. QED
    BY <2>1, ThreadSets
<1>3. /\ Cardinality(Attached(p)) \in Nat /\ Cardinality(Waiting(p)) \in Nat
      /\ Cardinality(Calls(p)) \in Nat /\ Len(queue[p]) \in Nat
  BY <1>1, Numbers DEF TypeOK
<1>4. /\ Len(queue[p]) - Cardinality(Waiting(p)) =
           -(Cardinality(Attached(p)) + Cardinality(Calls(p)))
  BY <1>1 DEF Idle, Counts
<1>5. Cardinality(Waiting(p)) <= Cardinality(Attached(p))
  BY <1>2, FS_Subset
<1>6. Len(queue[p]) = 0 /\ Cardinality(Waiting(p)) = Cardinality(Attached(p))
  BY <1>3, <1>4, <1>5
<1>7. Waiting(p) = Attached(p)
  BY <1>2, <1>6, FS_Subset
<1>8. ASSUME NEW d \in Task, pushed[d] = p, d \notin ran
      PROVE  FALSE
  <2>1. PICK t \in Thread : task[t] = d
    BY <1>1, <1>6, <1>8 DEF TaskOK
  <2>2. task[t] # None
    BY <2>1, PoolAssumption
  <2>3. pc[t] = "run" /\ at[t] = p
    BY <1>1, <1>8, <2>1, <2>2 DEF RunOK, ThreadOK
  <2>4. QED
    BY <1>7, <2>3 DEF Attached, Waiting
<1>9. QED
  BY <1>8

\* Nobody but the owner itself ends its wait.
LEMMA WaitEnds ==
  ASSUME IInv, [Next]_vars, NEW p \in Pool, client[p] \in {"waiting", "woken"},
         client'[p] \in {"free", "done"}
  PROVE  DeleteWoken(p)
<1>1. TypeOK
  BY Facts
<1>2. ASSUME NEW q \in Pool, ClientStep(q), ~DeleteWoken(p)
      PROVE  FALSE
  <2>1. CASE q = p
    BY <1>2, <2>1 DEF ClientStep, Create, CreateThread, Push, Delete, ClientFree
  <2>2. CASE q # p
    <3>1. client'[p] = client[p]
      BY <1>1, <1>2, <2>2
         DEF ClientStep, Create, CreateThread, Push, Delete, DeleteFinish, DeleteWoken, ClientFree,
             TypeOK
    <3>2. QED
      BY <3>1
  <2>3. QED
    BY <2>1, <2>2
<1>3. ASSUME NEW t \in Thread, WorkerStep(t)
      PROVE  FALSE
  <2>1. ASSUME NEW q, NEW r, LeavePool(t, q, r)
        PROVE  FALSE
    BY <1>1, <2>1 DEF LeavePool, TypeOK
  <2>2. ASSUME NEW q, NEW r, TakeTask(t, q, r)
        PROVE  FALSE
    BY <2>2 DEF TakeTask
  <2>3. CASE WaitForNewTask(t) \/ WaitWakes(t) \/ WaitTimesOut(t)
    BY <2>1, <2>2, <2>3 DEF WaitForNewTask, WaitWakes, WaitTimesOut, Leave
  <2>4. CASE ~(WaitForNewTask(t) \/ WaitWakes(t) \/ WaitTimesOut(t))
    BY <1>3, <2>4 DEF WorkerStep, RunTask, WorkerFree, SeekEnter, SeekCheck, SeekPop, IdleWakes,
                      IdleTimesOut, SeekLeave
  <2>5. QED
    BY <2>3, <2>4
<1>4. CASE UNCHANGED vars
  BY <1>4 DEF vars
<1>5. QED
  BY <1>2, <1>3, <1>4 DEF Next

LEMMA WaitedRan ==
  IInv /\ [Next]_vars =>
    [\A p \in Pool :
       /\ client[p] \in {"waiting", "woken"} /\ ~pool[p].immediate
       /\ client'[p] \in {"free", "done"}
       => {d \in Task : pushed[d] = p} \subseteq ran]_vars
<1> SUFFICES ASSUME IInv, [Next]_vars, NEW p \in Pool,
                    client[p] \in {"waiting", "woken"}, ~pool[p].immediate,
                    client'[p] \in {"free", "done"}
             PROVE  {d \in Task : pushed[d] = p} \subseteq ran
  OBVIOUS
<1>1. TypeOK /\ DeleteWoken(p)
  BY Facts, WaitEnds
<1>2. ~MustWait(p, pool[p])
  BY <1>1 DEF DeleteWoken, TypeOK
<1>3. Idle(p, pool[p])
  BY <1>2 DEF MustWait
<1>4. QED
  BY <1>3, IdleIsDone

\* x_thread_pool_push, the workers and x_thread_pool_delete: a task is run once,
\* a marker never; no task is lost but in a pool that is stopped at once; and an
\* owner that waits goes on when every task it pushed has been run to its end.
THEOREM EveryTaskRuns == Spec => TasksDone
<1>1. Spec => []TasksOnce
  BY Invariant, TasksFollow, PTL
<1>2. Spec => WaitedTasksRan
  BY Invariant, WaitedRan, PTL DEF Spec, WaitedTasksRan
<1>3. QED
  BY <1>1, <1>2, PTL DEF TasksDone

=============================================================================
