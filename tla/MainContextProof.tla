-------------------------- MODULE MainContextProof --------------------------
(***************************************************************************)
(* Proof that ContextExact is an invariant of MainContext, for any number  *)
(* of threads, loops and sources and any depth of nested runs.             *)
(***************************************************************************)
EXTENDS MainContext, SequenceTheorems, TLAPS

Place == {"user", "lost", "wait", "enter", "iterate", "prepare", "poll", "check",
          "dispatch", "end", "release"}

\* Whoever is not in user code is in x_main_loop_run.
InRun == \A t \in Thread : pc[t] # "user" => runs[t] # << >>

IInv == TypeOK /\ OwnerExact /\ WaitersWait /\ InRun

-----------------------------------------------------------------------------
(* Lists of waiters *)

\* Every node of the second list is one of the first, and no thread has two.
Within(list, all) ==
  /\ list \in Seq(Thread)
  /\ \A i \in 1 .. Len(list) : \E j \in 1 .. Len(all) : list[i] = all[j]
  /\ \A i, j \in 1 .. Len(list) : i # j => list[i] # list[j]

LEMMA TailWithin ==
  ASSUME waiters \in Seq(Thread), WaitersWait, waiters # << >>
  PROVE  Within(Tail(waiters), waiters)
<1>1. /\ Tail(waiters) \in Seq(Thread)
      /\ Len(Tail(waiters)) = Len(waiters) - 1
      /\ \A i \in 1 .. Len(Tail(waiters)) : Tail(waiters)[i] = waiters[i + 1]
  BY HeadTailProperties
<1>2. Len(waiters) \in Nat /\ DOMAIN waiters = 1 .. Len(waiters)
  OBVIOUS
<1>3. \A i \in 1 .. Len(Tail(waiters)) : i + 1 \in 1 .. Len(waiters)
  BY <1>1, <1>2
<1>4. QED
  BY <1>1, <1>2, <1>3 DEF Within, WaitersWait

\* The node of t, and no other, leaves the list.
LEMMA OthersWithin ==
  ASSUME waiters \in Seq(Thread), WaitersWait, NEW t \in Thread
  PROVE  /\ Within(Others(waiters, t), waiters)
         /\ \A i \in 1 .. Len(Others(waiters, t)) : Others(waiters, t)[i] # t
<1> DEFINE n == Len(waiters)
           rest == Others(waiters, t)
<1>1. n \in Nat /\ DOMAIN waiters = 1 .. n
  OBVIOUS
<1>2. CASE ~ \E i \in 1 .. n : waiters[i] = t
  <2>1. rest = waiters
    BY <1>1, <1>2 DEF Others
  <2>2. QED
    BY <1>1, <1>2, <2>1 DEF Within, WaitersWait
<1>3. CASE \E i \in 1 .. n : waiters[i] = t
  <2> DEFINE at == CHOOSE i \in DOMAIN waiters : waiters[i] = t
             front == SubSeq(waiters, 1, at - 1)
             back == SubSeq(waiters, at + 1, n)
  <2>1. at \in 1 .. n /\ waiters[at] = t
    BY <1>1, <1>3
  <2>2. rest = front \o back
    BY <1>1, <1>3 DEF Others
  <2> HIDE DEF at, rest
  <2>3. \A i \in 1 .. n : waiters[i] \in Thread
    BY ElementOfSeq
  <2>4. /\ front \in Seq(Thread) /\ Len(front) = at - 1
        /\ \A i \in 1 .. at - 1 : front[i] = waiters[i]
    BY <1>1, <2>1, <2>3, SubSeqProperties
  <2>5. /\ back \in Seq(Thread) /\ Len(back) = n - at
        /\ \A i \in 1 .. n - at : back[i] = waiters[at + i]
    <3>1. /\ back \in Seq(Thread)
          /\ Len(back) = IF at + 1 <= n THEN n - (at + 1) + 1 ELSE 0
          /\ \A i \in 1 .. n - (at + 1) + 1 : back[i] = waiters[(at + 1) + i - 1]
      <4>1. at + 1 \in Int /\ n \in Int
        BY <1>1, <2>1
      <4>2. \A i \in at + 1 .. n : waiters[i] \in Thread
        BY <1>1, <2>1, <2>3
      <4> HIDE DEF n
      <4>3. QED
        BY <4>1, <4>2, SubSeqProperties
    <3> HIDE DEF n, back
    <3>2. /\ n - (at + 1) + 1 = n - at
          /\ Len(back) = n - at
          /\ \A i \in 1 .. n - at : (at + 1) + i - 1 = at + i
      BY <1>1, <2>1, <3>1
    <3>3. QED
      BY <3>1, <3>2
  <2> HIDE DEF front, back
  <2>6. /\ rest \in Seq(Thread) /\ Len(rest) = n - 1
        /\ \A i \in 1 .. n - 1 :
             rest[i] = IF i < at THEN front[i] ELSE back[i - (at - 1)]
    <3>1. /\ rest \in Seq(Thread) /\ Len(rest) = Len(front) + Len(back)
          /\ \A i \in 1 .. Len(front) + Len(back) :
               rest[i] = IF i <= Len(front) THEN front[i]
                                            ELSE back[i - Len(front)]
      BY <2>2, <2>4, <2>5, ConcatProperties
    <3>2. Len(front) + Len(back) = n - 1
      BY <1>1, <2>1, <2>4, <2>5
    <3>3. \A i \in 1 .. n - 1 : (i <= at - 1) = (i < at)
      BY <1>1, <2>1
    <3>4. QED
      BY <2>4, <3>1, <3>2, <3>3
  <2> DEFINE from(i) == IF i < at THEN i ELSE i + 1
  <2>7. \A i \in 1 .. n - 1 : /\ from(i) \in 1 .. n /\ from(i) # at
                              /\ rest[i] = waiters[from(i)]
    BY <1>1, <2>1, <2>4, <2>5, <2>6
  <2>8. \A i, j \in 1 .. n - 1 : i # j => from(i) # from(j)
    BY <1>1, <2>1
  <2>9. \A i, j \in 1 .. n : i # j => waiters[i] # waiters[j]
    BY <1>1 DEF WaitersWait
  <2> HIDE DEF from
  <2>10. \A i \in 1 .. n - 1 : rest[i] # t
    BY <2>1, <2>7, <2>9
  <2>11. \A i, j \in 1 .. n - 1 : i # j => rest[i] # rest[j]
    BY <2>7, <2>8, <2>9
  <2>12. QED
    BY <2>6, <2>7, <2>10, <2>11 DEF Within, rest
<1>4. QED
  BY <1>2, <1>3

\* The list stays right if it only loses nodes and who is in it still waits.
LEMMA FewerWait ==
  ASSUME waiters \in Seq(Thread), WaitersWait, Within(waiters', waiters),
         \A i \in 1 .. Len(waiters') : pc[waiters'[i]] = "wait" =>
                                         pc'[waiters'[i]] = "wait"
  PROVE  waiters' \in Seq(Thread) /\ WaitersWait'
<1>1. waiters' \in Seq(Thread) /\ DOMAIN waiters' = 1 .. Len(waiters')
  BY DEF Within
<1>2. \A j \in 1 .. Len(waiters) : pc[waiters[j]] = "wait"
  BY DEF WaitersWait
<1>3. \A i \in 1 .. Len(waiters') : pc'[waiters'[i]] = "wait"
  <2> SUFFICES ASSUME NEW i \in 1 .. Len(waiters')
               PROVE  pc[waiters'[i]] = "wait"
    OBVIOUS
  <2>1. PICK j \in 1 .. Len(waiters) : waiters'[i] = waiters[j]
    BY DEF Within
  <2>2. QED
    BY <1>2, <2>1
<1>4. \A i, j \in 1 .. Len(waiters') : i # j => waiters'[i] # waiters'[j]
  BY DEF Within
<1>5. QED
  BY <1>1, <1>3, <1>4 DEF WaitersWait

LEMMA SameWithin ==
  ASSUME waiters \in Seq(Thread), WaitersWait
  PROVE  Within(waiters, waiters)
BY DEF Within, WaitersWait

\* A thread that was not in the list is put at its head and waits.
LEMMA OneMoreWaits ==
  ASSUME NEW list, NEW t \in Thread, waiters \in Seq(Thread), WaitersWait,
         Within(list, waiters), \A i \in 1 .. Len(list) : list[i] # t,
         pc \in [Thread -> Place], waiters' = <<t>> \o list,
         pc' = [pc EXCEPT ![t] = "wait"]
  PROVE  waiters' \in Seq(Thread) /\ WaitersWait'
<1>1. list \in Seq(Thread) /\ Len(list) \in Nat
  BY DEF Within
<1>2. /\ waiters' \in Seq(Thread)
      /\ Len(waiters') = Len(list) + 1
      /\ waiters'[1] = t
      /\ \A i \in 2 .. Len(list) + 1 : waiters'[i] = list[i - 1]
  <2>1. <<t>> \in Seq(Thread) /\ Len(<<t>>) = 1 /\ <<t>>[1] = t
    OBVIOUS
  <2>2. QED
    BY <1>1, <2>1, ConcatProperties
<1>3. \A i \in 2 .. Len(list) + 1 : i - 1 \in 1 .. Len(list)
  BY <1>1
<1>4. \A i \in 1 .. Len(list) : list[i] \in Thread /\ pc'[list[i]] = "wait"
  <2> SUFFICES ASSUME NEW i \in 1 .. Len(list)
               PROVE  list[i] \in Thread /\ pc'[list[i]] = "wait"
    OBVIOUS
  <2>1. PICK j \in 1 .. Len(waiters) : list[i] = waiters[j]
    BY DEF Within
  <2>2. pc[waiters[j]] = "wait" /\ waiters[j] \in Thread
    BY ElementOfSeq DEF WaitersWait
  <2>3. QED
    BY <2>1, <2>2
<1>5. pc'[t] = "wait"
  OBVIOUS
<1>6. \A i \in 1 .. Len(list) + 1 : i = 1 \/ i \in 2 .. Len(list) + 1
  BY <1>1
<1>7. DOMAIN waiters' = 1 .. Len(list) + 1
  BY <1>2
<1>8. \A i \in 1 .. Len(list) + 1 : pc'[waiters'[i]] = "wait"
  BY <1>2, <1>3, <1>4, <1>5, <1>6
<1>9. \A i, j \in 2 .. Len(list) + 1 : i # j => waiters'[i] # waiters'[j]
  <2> SUFFICES ASSUME NEW i \in 2 .. Len(list) + 1, NEW j \in 2 .. Len(list) + 1,
                      i # j
               PROVE  waiters'[i] # waiters'[j]
    OBVIOUS
  <2>1. i - 1 # j - 1
    OBVIOUS
  <2>2. QED
    BY <1>2, <1>3, <2>1 DEF Within
<1>10. \A i \in 2 .. Len(list) + 1 : waiters'[i] # waiters'[1]
  BY <1>2, <1>3
<1>11. QED
  BY <1>2, <1>6, <1>7, <1>8, <1>9, <1>10 DEF WaitersWait

-----------------------------------------------------------------------------
(* Counts *)

\* What the invariant says of a thread's count, without the other threads.
LEMMA OwnerCounts ==
  ASSUME IInv, NEW t \in Thread
  PROVE  /\ Len(runs[t]) \in Nat
         /\ (runs[t] = << >>) = (Len(runs[t]) = 0)
         /\ Acquired(t) \in Nat
         /\ Acquired(t) # 0 => owner = t /\ owner_count = Acquired(t)
         /\ owner = t => owner_count = Acquired(t) /\ owner_count # 0
         /\ owner_count \in Nat /\ t # None
<1>1. runs[t] \in Seq(Loop)
  BY DEF IInv, TypeOK
<1>2. Len(runs[t]) \in Nat /\ ((runs[t] = << >>) = (Len(runs[t]) = 0))
  BY <1>1, EmptySeq
<1>3. Acquired(t) \in Nat
  BY <1>2 DEF Acquired
<1>4. owner_count \in Nat /\ t # None
  BY MainAssumption DEF IInv, TypeOK
<1>5. QED
  BY <1>2, <1>3, <1>4 DEF IInv, OwnerExact

\* A step of t that leaves who owns the context alone, or takes it when it may.
LEMMA CountsKept ==
  ASSUME IInv, NEW t \in Thread,
         \A u \in Thread \ {t} : Acquired(u)' = Acquired(u),
         \/ Acquired(t)' = Acquired(t) /\ UNCHANGED <<owner, owner_count>>
         \/ Acquired(t)' = Acquired(t) + 1 /\ Free(t) /\ Own(t)
  PROVE  OwnerExact' /\ owner' \in Thread \cup {None} /\ owner_count' \in Nat
<1>1. \A u \in Thread : Acquired(u) = IF owner = u THEN owner_count ELSE 0
  BY DEF IInv, OwnerExact
<1>2. /\ (owner = None) = (owner_count = 0) /\ owner_count \in Nat
      /\ t # None /\ owner \in Thread \cup {None}
  BY OwnerCounts DEF IInv, OwnerExact, TypeOK
<1>3. CASE Acquired(t)' = Acquired(t) /\ UNCHANGED <<owner, owner_count>>
  BY <1>1, <1>2, <1>3 DEF OwnerExact
<1>4. CASE Acquired(t)' = Acquired(t) + 1 /\ Free(t) /\ Own(t)
  <2>1. owner' = t /\ owner_count' = owner_count + 1 /\ owner \in {None, t}
    BY <1>4 DEF Free, Own
  <2>2. Acquired(t) = owner_count
    BY <1>1, <1>2, <2>1
  <2>3. \A u \in Thread \ {t} : Acquired(u)' = 0
    BY <1>1, <1>2, <2>1
  <2>4. QED
    BY <1>2, <1>4, <2>1, <2>2, <2>3 DEF OwnerExact
<1>5. QED
  BY <1>3, <1>4

\* Disown, by a thread that has acquired the context.
LEMMA CountsDropped ==
  ASSUME IInv, NEW t \in Thread, Acquired(t) # 0, Disown(t),
         \A u \in Thread \ {t} : Acquired(u)' = Acquired(u),
         Acquired(t)' = Acquired(t) - 1
  PROVE  OwnerExact' /\ owner' \in Thread \cup {None} /\ owner_count' \in Nat
<1>1. \A u \in Thread : Acquired(u) = IF owner = u THEN owner_count ELSE 0
  BY DEF IInv, OwnerExact
<1>2. owner = t /\ owner_count = Acquired(t) /\ owner_count \in Nat /\ t # None
  BY OwnerCounts
<1>3. \A u \in Thread \ {t} : Acquired(u)' = 0
  BY <1>1, <1>2
<1>4. CASE owner_count = 1
  <2>1. owner' = None /\ owner_count' = 0
    BY <1>4 DEF Disown
  <2>2. \A u \in Thread : u # None
    BY MainAssumption
  <2>3. QED
    BY <1>2, <1>3, <1>4, <2>1, <2>2 DEF OwnerExact
<1>5. CASE owner_count # 1
  <2>1. owner' = t /\ owner_count' = owner_count - 1
    BY <1>2, <1>5 DEF Disown
  <2>2. QED
    BY <1>2, <1>3, <1>5, <2>1 DEF OwnerExact
<1>6. QED
  BY <1>4, <1>5

-----------------------------------------------------------------------------
(* Steps *)

\* Every thread's place is one of those that Acquired tells apart.
LEMMA AcquiredIs ==
  ASSUME NEW t \in Thread, NEW n \in Nat, n = Len(runs[t])
  PROVE  /\ n = 0 => Acquired(t) = 0
         /\ n # 0 /\ pc[t] \in {"lost", "wait"} => Acquired(t) = 2 * n - 2
         /\ n # 0 /\ pc[t] \in {"enter", "iterate", "end", "release"} =>
              Acquired(t) = 2 * n - 1
         /\ n # 0 /\ pc[t] \in {"user", "prepare", "poll", "check", "dispatch"} =>
              Acquired(t) = 2 * n
BY DEF Acquired

LEMMA AcquiredNext ==
  ASSUME NEW t \in Thread, NEW n \in Nat, n = Len(runs'[t])
  PROVE  /\ n = 0 => Acquired(t)' = 0
         /\ n # 0 /\ pc'[t] \in {"lost", "wait"} => Acquired(t)' = 2 * n - 2
         /\ n # 0 /\ pc'[t] \in {"enter", "iterate", "end", "release"} =>
              Acquired(t)' = 2 * n - 1
         /\ n # 0 /\ pc'[t] \in {"user", "prepare", "poll", "check", "dispatch"} =>
              Acquired(t)' = 2 * n
BY DEF Acquired

LEMMA InitInv == Init => IInv
<1> SUFFICES ASSUME Init PROVE IInv
  OBVIOUS
<1>1. TypeOK
  BY EmptySeq DEF Init, TypeOK
<1>2. \A t \in Thread : Acquired(t) = 0
  BY DEF Init, Acquired
<1>3. OwnerExact
  BY <1>2 DEF Init, OwnerExact
<1>4. WaitersWait
  BY DEF Init, WaitersWait
<1>5. InRun
  BY DEF Init, InRun
<1>6. QED
  BY <1>1, <1>3, <1>4, <1>5 DEF IInv

\* What a thread does while it neither takes nor leaves the context.
Quiet(t) ==
  \/ RunEnter(t) \/ Prepare(t) \/ PollReturns(t) \/ Check(t)
  \/ CallbackReturns(t) \/ IterateEnd(t)
  \/ Dispatch(t) /\ dispatches[t] # {}

LEMMA QuietStep ==
  ASSUME IInv, NEW t \in Thread, Quiet(t)
  PROVE  IInv'
<1> DEFINE n == Len(runs[t])
<1>1. TypeOK /\ InRun /\ n \in Nat /\ (runs[t] = << >>) = (n = 0)
  BY OwnerCounts DEF IInv
<1>2. /\ runs' = runs /\ owner' = owner /\ owner_count' = owner_count
      /\ waiters' = waiters /\ pc[t] # "wait" /\ runs[t] # << >>
      /\ \E p \in {"iterate", "poll", "check", "dispatch", "release", "user"} :
           pc' = [pc EXCEPT ![t] = p]
  BY <1>1 DEF Quiet, RunEnter, Prepare, PollReturns, Check, CallbackReturns,
              IterateEnd, Dispatch, InRun
<1>3. TypeOK'
  <2>1. pc' \in [Thread -> {"user", "lost", "wait", "enter", "iterate", "prepare",
                            "poll", "check", "dispatch", "end", "release"}]
    BY <1>1, <1>2 DEF TypeOK
  <2>2. is_running' \in [Loop -> BOOLEAN]
    BY <1>1 DEF TypeOK, Quiet, RunEnter, Prepare, PollReturns, Check,
                CallbackReturns, IterateEnd, Dispatch
  <2>3. /\ signalled' \subseteq Thread /\ attached' \subseteq Source
        /\ forever' \in [Thread -> BOOLEAN]
        /\ dispatches' \in [Thread -> SUBSET Source]
    BY <1>1 DEF TypeOK, Quiet, RunEnter, Prepare, PollReturns, Check,
                CallbackReturns, IterateEnd, Dispatch
  <2>4. QED
    BY <1>1, <1>2, <2>1, <2>2, <2>3 DEF TypeOK
<1>4. \A u \in Thread \ {t} : pc'[u] = pc[u] /\ Acquired(u)' = Acquired(u)
  BY <1>1, <1>2 DEF TypeOK, Acquired
<1>5. Acquired(t)' = Acquired(t)
  <2>1. \/ /\ pc[t] \in {"enter", "iterate", "end", "release"}
           /\ pc'[t] \in {"enter", "iterate", "end", "release"}
        \/ /\ pc[t] \in {"user", "prepare", "poll", "check", "dispatch"}
           /\ pc'[t] \in {"user", "prepare", "poll", "check", "dispatch"}
    BY <1>1 DEF TypeOK, Quiet, RunEnter, Prepare, PollReturns, Check,
                CallbackReturns, IterateEnd, Dispatch
  <2>2. n = Len(runs'[t]) /\ n # 0
    BY <1>1, <1>2
  <2> HIDE DEF n
  <2>3. n = Len(runs[t])
    BY DEF n
  <2>4. QED
    BY <1>1, <2>1, <2>2, <2>3, AcquiredIs, AcquiredNext
<1>6. OwnerExact'
  BY <1>2, <1>4, <1>5, CountsKept
<1>7. WaitersWait'
  <2>1. \A i \in DOMAIN waiters : waiters[i] \in Thread \ {t}
    <3>1. DOMAIN waiters = 1 .. Len(waiters)
      BY <1>1 DEF TypeOK
    <3>2. \A i \in DOMAIN waiters : waiters[i] \in Thread
      BY <1>1, <3>1, ElementOfSeq DEF TypeOK
    <3>3. QED
      BY <1>2, <3>2 DEF IInv, WaitersWait
  <2>2. QED
    BY <1>2, <1>4, <2>1 DEF IInv, WaitersWait
<1>8. InRun'
  BY <1>1, <1>2, <1>4 DEF InRun
<1>9. QED
  BY <1>3, <1>6, <1>7, <1>8 DEF IInv

\* The list is right if it only loses nodes and t, which moves, is not in it.
LEMMA ListAfter ==
  ASSUME IInv, NEW t \in Thread, NEW p, Within(waiters', waiters),
         \A i \in 1 .. Len(waiters') : waiters'[i] # t,
         pc' = [pc EXCEPT ![t] = p]
  PROVE  waiters' \in Seq(Thread) /\ WaitersWait'
<1>1. waiters \in Seq(Thread) /\ pc \in [Thread -> Place] /\ WaitersWait
  BY DEF IInv, TypeOK, Place
<1>2. waiters' \in Seq(Thread)
  BY DEF Within
<1>3. \A i \in 1 .. Len(waiters') : waiters'[i] \in Thread \ {t}
  BY <1>2, ElementOfSeq
<1>4. QED
  BY <1>1, <1>3, FewerWait

\* A thread that is not waiting is not in the list.
LEMMA NotListed ==
  ASSUME IInv, NEW t \in Thread, pc[t] # "wait"
  PROVE  /\ Within(waiters, waiters) /\ waiters \in Seq(Thread) /\ WaitersWait
         /\ \A i \in 1 .. Len(waiters) : waiters[i] # t
<1>1. waiters \in Seq(Thread) /\ WaitersWait /\ DOMAIN waiters = 1 .. Len(waiters)
  BY DEF IInv, TypeOK
<1>2. QED
  BY <1>1, SameWithin DEF WaitersWait

\* What x_cond_signal leaves of the list.
LEMMA SignalKeeps ==
  ASSUME IInv, NEW t \in Thread, pc[t] # "wait",
         SignalWaiter \/ UNCHANGED <<waiters, signalled>>
  PROVE  /\ Within(waiters', waiters) /\ signalled' \subseteq Thread
         /\ \A i \in 1 .. Len(waiters') : waiters'[i] # t
<1>1. signalled' \subseteq Thread
  BY DEF IInv, TypeOK, SignalWaiter, Waiting
<1>2. CASE waiters' = waiters
  BY <1>1, <1>2, NotListed
<1>3. CASE waiters # << >> /\ waiters' = Tail(waiters)
  <2>1. Within(waiters', waiters)
    BY <1>3, NotListed, TailWithin
  <2>2. \A i \in 1 .. Len(waiters') : waiters'[i] # t
    BY <2>1, NotListed DEF Within
  <2>3. QED
    BY <1>1, <2>1, <2>2
<1>4. QED
  BY <1>2, <1>3 DEF SignalWaiter

\* The counts of the threads that do not move.
LEMMA OthersStay ==
  ASSUME IInv, NEW t \in Thread, NEW p, NEW r,
         pc' = [pc EXCEPT ![t] = p], runs' = [runs EXCEPT ![t] = r]
  PROVE  /\ \A u \in Thread \ {t} : Acquired(u)' = Acquired(u)
         /\ pc'[t] = p /\ runs'[t] = r
         /\ (p = "user" \/ r # << >>) => InRun'
<1>1. pc \in [Thread -> Place] /\ runs \in [Thread -> Seq(Loop)] /\ InRun
  BY DEF IInv, TypeOK, Place
<1>2. \A u \in Thread \ {t} : pc'[u] = pc[u] /\ runs'[u] = runs[u]
  BY <1>1
<1>3. \A u \in Thread \ {t} : Acquired(u)' = Acquired(u)
  BY <1>2 DEF Acquired
<1>4. pc'[t] = p /\ runs'[t] = r
  BY <1>1
<1>5. QED
  BY <1>1, <1>2, <1>3, <1>4 DEF InRun

\* The innermost x_main_loop_run returns.
LEMMA Returned ==
  ASSUME IInv, NEW t \in Thread, runs[t] # << >>
  PROVE  /\ SubSeq(runs[t], 1, Len(runs[t]) - 1) \in Seq(Loop)
         /\ Len(SubSeq(runs[t], 1, Len(runs[t]) - 1)) = Len(runs[t]) - 1
         /\ Len(runs[t]) \in Nat /\ Len(runs[t]) >= 1
<1>1. runs[t] \in Seq(Loop) /\ Len(runs[t]) \in Nat /\ Len(runs[t]) >= 1
  BY EmptySeq DEF IInv, TypeOK
<1>2. \A i \in 1 .. Len(runs[t]) - 1 : runs[t][i] \in Loop
  BY <1>1, ElementOfSeq
<1>3. QED
  BY <1>1, <1>2, SubSeqProperties

LEMMA RunInv ==
  ASSUME IInv, NEW t \in Thread, NEW l \in Loop, Run(t, l)
  PROVE  IInv'
<1> DEFINE n == Len(runs[t])
           r == Append(runs[t], l)
           p == IF Free(t) THEN "enter" ELSE "lost"
<1>1. /\ pc[t] = "user" /\ runs' = [runs EXCEPT ![t] = r]
      /\ pc' = [pc EXCEPT ![t] = p]
      /\ IF Free(t) THEN Own(t) ELSE UNCHANGED <<owner, owner_count>>
      /\ UNCHANGED <<waiters, signalled, is_running, attached, forever, dispatches>>
  BY DEF Run
<1>2. TypeOK /\ n \in Nat
  BY OwnerCounts DEF IInv
<1>3. r \in Seq(Loop) /\ Len(r) = n + 1 /\ r # << >>
  BY <1>2, AppendProperties DEF TypeOK
<1> HIDE DEF r, p
<1>4. /\ \A u \in Thread \ {t} : Acquired(u)' = Acquired(u)
      /\ pc'[t] = p /\ runs'[t] = r /\ InRun'
  BY <1>1, <1>3, OthersStay
<1>5. n = 0 \/ Free(t)
  <2>1. n # 0 => Acquired(t) = 2 * n
    BY <1>1, <1>2, AcquiredIs
  <2>2. QED
    BY <1>2, <2>1, OwnerCounts DEF Free
<1>6. Acquired(t)' = IF Free(t) THEN Acquired(t) + 1 ELSE Acquired(t)
  <2>1. Acquired(t) = 2 * n
    BY <1>1, <1>2, AcquiredIs
  <2>2. n + 1 \in Nat /\ n + 1 # 0 /\ n + 1 = Len(runs'[t])
    BY <1>2, <1>3, <1>4
  <2>3. CASE Free(t)
    <3>1. Acquired(t)' = 2 * (n + 1) - 1
      BY <1>4, <2>2, <2>3, AcquiredNext DEF p
    <3>2. QED
      BY <1>2, <2>1, <2>3, <3>1
  <2>4. CASE ~Free(t)
    <3>1. Acquired(t)' = 2 * (n + 1) - 2
      BY <1>4, <2>2, <2>4, AcquiredNext DEF p
    <3>2. QED
      BY <1>2, <2>1, <2>4, <3>1
  <2>5. QED
    BY <2>3, <2>4
<1>7. OwnerExact' /\ owner' \in Thread \cup {None} /\ owner_count' \in Nat
  BY <1>1, <1>4, <1>6, CountsKept
<1>8. waiters' \in Seq(Thread) /\ WaitersWait'
  BY <1>1, NotListed, ListAfter
<1>9. TypeOK'
  BY <1>1, <1>2, <1>3, <1>7, <1>8 DEF TypeOK, p
<1>10. QED
  BY <1>4, <1>7, <1>8, <1>9 DEF IInv

\* x_cond_wait begins: RunLost and RunWakes.
LEMMA WaitStep ==
  ASSUME IInv, NEW t \in Thread, NEW list, pc[t] \in {"lost", "wait"},
         runs[t] # << >>, runs' = runs, StartWaiting(t, list), Within(list, waiters),
         \A i \in 1 .. Len(list) : list[i] # t
  PROVE  /\ OwnerExact' /\ WaitersWait' /\ InRun' /\ waiters' \in Seq(Thread)
         /\ pc' = [pc EXCEPT ![t] = "wait"] /\ signalled' \subseteq Thread
         /\ owner' = owner /\ owner_count' = owner_count
<1>1. TypeOK /\ WaitersWait /\ Len(runs[t]) \in Nat
  BY OwnerCounts DEF IInv
<1>2. /\ pc' = [pc EXCEPT ![t] = "wait"] /\ waiters' = <<t>> \o list
      /\ signalled' \subseteq Thread
      /\ owner' = owner /\ owner_count' = owner_count
  BY <1>1 DEF StartWaiting, TypeOK
<1>3. runs' = [runs EXCEPT ![t] = runs[t]]
  BY <1>1 DEF TypeOK
<1>4. /\ \A u \in Thread \ {t} : Acquired(u)' = Acquired(u)
      /\ pc'[t] = "wait" /\ InRun'
  BY <1>2, <1>3, OthersStay
<1>5. Acquired(t)' = Acquired(t)
  <2>1. Len(runs'[t]) = Len(runs[t]) /\ Len(runs[t]) # 0
    BY OwnerCounts
  <2>2. QED
    BY <1>1, <1>4, <2>1, AcquiredIs, AcquiredNext
<1>6. OwnerExact'
  BY <1>2, <1>4, <1>5, CountsKept
<1>7. waiters' \in Seq(Thread) /\ WaitersWait'
  <2>1. waiters \in Seq(Thread) /\ pc \in [Thread -> Place]
    BY <1>1 DEF TypeOK, Place
  <2>2. QED
    BY <1>1, <1>2, <2>1, OneMoreWaits
<1>8. QED
  BY <1>2, <1>4, <1>6, <1>7

\* x_main_loop_run owns the context after it was lost or waited for.
LEMMA TakeStep ==
  ASSUME IInv, NEW t \in Thread, NEW p \in {"iterate", "release"},
         pc[t] \in {"lost", "wait"}, runs[t] # << >>, runs' = runs,
         Free(t), Own(t), pc' = [pc EXCEPT ![t] = p]
  PROVE  OwnerExact' /\ InRun' /\ owner' \in Thread \cup {None} /\ owner_count' \in Nat
<1>1. TypeOK /\ Len(runs[t]) \in Nat /\ Len(runs[t]) # 0
  BY OwnerCounts DEF IInv
<1>2. runs' = [runs EXCEPT ![t] = runs[t]]
  BY <1>1 DEF TypeOK
<1>3. /\ \A u \in Thread \ {t} : Acquired(u)' = Acquired(u)
      /\ pc'[t] = p /\ runs'[t] = runs[t] /\ InRun'
  BY <1>2, OthersStay
<1>4. Acquired(t)' = Acquired(t) + 1
  <2>1. Acquired(t) = 2 * Len(runs[t]) - 2
    BY <1>1, AcquiredIs
  <2>2. Acquired(t)' = 2 * Len(runs[t]) - 1
    BY <1>1, <1>3, AcquiredNext
  <2>3. QED
    BY <1>1, <2>1, <2>2
<1>5. QED
  BY <1>3, <1>4, CountsKept

LEMMA RunLostInv ==
  ASSUME IInv, NEW t \in Thread, RunLost(t)
  PROVE  IInv'
<1>1. /\ pc[t] = "lost" /\ runs' = runs /\ TypeOK /\ runs[t] # << >>
      /\ is_running' \in [Loop -> BOOLEAN]
      /\ UNCHANGED <<attached, forever, dispatches>>
  BY DEF RunLost, IInv, TypeOK, InRun
<1>2. CASE Free(t) /\ Own(t) /\ pc' = [pc EXCEPT ![t] = "iterate"]
           /\ UNCHANGED <<waiters, signalled>>
  <2>1. OwnerExact' /\ InRun' /\ owner' \in Thread \cup {None} /\ owner_count' \in Nat
    BY <1>1, <1>2, TakeStep
  <2>2. waiters' \in Seq(Thread) /\ WaitersWait'
    BY <1>1, <1>2, NotListed, ListAfter
  <2>3. TypeOK'
    BY <1>1, <1>2, <2>1, <2>2 DEF TypeOK
  <2>4. QED
    BY <2>1, <2>2, <2>3 DEF IInv
<1>3. CASE StartWaiting(t, waiters)
  <2>1. /\ OwnerExact' /\ WaitersWait' /\ InRun' /\ waiters' \in Seq(Thread)
        /\ pc' = [pc EXCEPT ![t] = "wait"] /\ signalled' \subseteq Thread
        /\ owner' = owner /\ owner_count' = owner_count
    BY <1>1, <1>3, NotListed, WaitStep
  <2>2. TypeOK'
    BY <1>1, <2>1 DEF TypeOK
  <2>3. QED
    BY <2>1, <2>2 DEF IInv
<1>4. QED
  BY <1>2, <1>3 DEF RunLost

LEMMA RunWakesInv ==
  ASSUME IInv, NEW t \in Thread, RunWakes(t)
  PROVE  IInv'
<1> DEFINE list == Others(waiters, t)
           stop == ~is_running[CurrentLoop(t)]
           r == SubSeq(runs[t], 1, Len(runs[t]) - 1)
<1>1. /\ pc[t] = "wait" /\ TypeOK /\ runs[t] # << >>
      /\ UNCHANGED <<is_running, attached, forever, dispatches>>
  BY DEF RunWakes, IInv, TypeOK, InRun
<1>2. Within(list, waiters) /\ \A i \in 1 .. Len(list) : list[i] # t
  BY <1>1, OthersWithin DEF IInv, TypeOK
<1>3. \/ /\ Free(t) /\ Own(t)
         /\ pc' = [pc EXCEPT ![t] = IF stop THEN "release" ELSE "iterate"]
         /\ waiters' = list /\ signalled' = signalled \ {t}
         /\ runs' = runs
      \/ StartWaiting(t, list) /\ runs' = runs
      \/ /\ ~Free(t)
         /\ pc' = [pc EXCEPT ![t] = "user"] /\ runs' = [runs EXCEPT ![t] = r]
         /\ waiters' = list /\ signalled' = signalled \ {t}
         /\ UNCHANGED <<owner, owner_count>>
  BY DEF RunWakes
<1> HIDE DEF list, stop
<1>4. CASE /\ Free(t) /\ Own(t)
           /\ pc' = [pc EXCEPT ![t] = IF stop THEN "release" ELSE "iterate"]
           /\ waiters' = list /\ signalled' = signalled \ {t}
           /\ runs' = runs
  <2>1. PICK p \in {"iterate", "release"} : pc' = [pc EXCEPT ![t] = p]
    BY <1>4
  <2>2. OwnerExact' /\ InRun' /\ owner' \in Thread \cup {None} /\ owner_count' \in Nat
    BY <1>1, <1>4, <2>1, TakeStep
  <2>3. waiters' \in Seq(Thread) /\ WaitersWait'
    BY <1>2, <1>4, <2>1, ListAfter
  <2>4. TypeOK'
    BY <1>1, <1>4, <2>1, <2>2, <2>3 DEF TypeOK
  <2>5. QED
    BY <2>2, <2>3, <2>4 DEF IInv
<1>5. CASE StartWaiting(t, list) /\ runs' = runs
  <2>1. /\ OwnerExact' /\ WaitersWait' /\ InRun' /\ waiters' \in Seq(Thread)
        /\ pc' = [pc EXCEPT ![t] = "wait"] /\ signalled' \subseteq Thread
        /\ owner' = owner /\ owner_count' = owner_count
    BY <1>1, <1>2, <1>5, WaitStep
  <2>2. TypeOK'
    BY <1>1, <1>5, <2>1 DEF TypeOK
  <2>3. QED
    BY <2>1, <2>2 DEF IInv
<1>6. CASE /\ ~Free(t)
           /\ pc' = [pc EXCEPT ![t] = "user"] /\ runs' = [runs EXCEPT ![t] = r]
           /\ waiters' = list /\ signalled' = signalled \ {t}
           /\ UNCHANGED <<owner, owner_count>>
  <2>1. /\ r \in Seq(Loop) /\ Len(r) = Len(runs[t]) - 1
        /\ Len(runs[t]) \in Nat /\ Len(runs[t]) >= 1
    BY <1>1, Returned
  <2> HIDE DEF r
  <2>2. /\ \A u \in Thread \ {t} : Acquired(u)' = Acquired(u)
        /\ pc'[t] = "user" /\ runs'[t] = r /\ InRun'
    BY <1>6, OthersStay
  <2>3. Acquired(t)' = Acquired(t)
    <3>1. Acquired(t) = 0
      BY <1>6, OwnerCounts DEF Free
    <3>2. Acquired(t) = 2 * Len(runs[t]) - 2
      BY <1>1, <2>1, AcquiredIs
    <3>3. Len(r) = 0
      <4> DEFINE n == Len(runs[t])
      <4>1. n \in Nat /\ 2 * n - 2 = 0
        BY <2>1, <3>1, <3>2
      <4> HIDE DEF n
      <4>2. n = 1
        BY <4>1
      <4>3. QED
        BY <2>1, <4>2 DEF n
    <3>4. QED
      BY <2>2, <3>1, <3>3, AcquiredNext
  <2>4. OwnerExact' /\ owner' \in Thread \cup {None} /\ owner_count' \in Nat
    BY <1>6, <2>2, <2>3, CountsKept
  <2>5. waiters' \in Seq(Thread) /\ WaitersWait'
    BY <1>2, <1>6, ListAfter
  <2>6. TypeOK'
    BY <1>1, <1>6, <2>1, <2>4, <2>5 DEF TypeOK
  <2>7. QED
    BY <2>2, <2>4, <2>5, <2>6 DEF IInv
<1>7. QED
  BY <1>3, <1>4, <1>5, <1>6

LEMMA RunReleaseInv ==
  ASSUME IInv, NEW t \in Thread, RunRelease(t)
  PROVE  IInv'
<1> DEFINE r == SubSeq(runs[t], 1, Len(runs[t]) - 1)
<1>1. /\ pc[t] = "release" /\ TypeOK /\ runs[t] # << >> /\ Disown(t)
      /\ pc' = [pc EXCEPT ![t] = "user"] /\ runs' = [runs EXCEPT ![t] = r]
      /\ UNCHANGED <<is_running, attached, forever, dispatches>>
  BY DEF RunRelease, IInv, TypeOK, InRun
<1>2. /\ r \in Seq(Loop) /\ Len(r) = Len(runs[t]) - 1
      /\ Len(runs[t]) \in Nat /\ Len(runs[t]) >= 1
  BY <1>1, Returned
<1> HIDE DEF r
<1>3. /\ \A u \in Thread \ {t} : Acquired(u)' = Acquired(u)
      /\ pc'[t] = "user" /\ runs'[t] = r /\ InRun'
  BY <1>1, OthersStay
<1>4. Acquired(t) # 0 /\ Acquired(t)' = Acquired(t) - 1
  <2>1. Acquired(t) = 2 * Len(runs[t]) - 1
    BY <1>1, <1>2, AcquiredIs
  <2>2. Len(r) \in Nat
    BY <1>2
  <2>3. Acquired(t)' = 2 * Len(r)
    BY <1>3, <2>2, AcquiredNext
  <2>4. QED
    BY <1>2, <2>1, <2>3
<1>5. OwnerExact' /\ owner' \in Thread \cup {None} /\ owner_count' \in Nat
  BY <1>1, <1>3, <1>4, CountsDropped
<1>6. /\ Within(waiters', waiters) /\ signalled' \subseteq Thread
      /\ \A i \in 1 .. Len(waiters') : waiters'[i] # t
  BY <1>1, SignalKeeps DEF Disown
<1>7. waiters' \in Seq(Thread) /\ WaitersWait'
  BY <1>1, <1>6, ListAfter
<1>8. TypeOK'
  BY <1>1, <1>2, <1>5, <1>6, <1>7 DEF TypeOK
<1>9. QED
  BY <1>3, <1>5, <1>7, <1>8 DEF IInv

LEMMA IterateAcquireInv ==
  ASSUME IInv, NEW t \in Thread, IterateAcquire(t)
  PROVE  IInv'
<1> DEFINE n == Len(runs[t])
<1>1. /\ pc[t] = "iterate" /\ TypeOK /\ Free(t) /\ Own(t)
      /\ runs[t] # << >> /\ n \in Nat /\ n # 0
      /\ pc' = [pc EXCEPT ![t] = "prepare"] /\ runs' = [runs EXCEPT ![t] = runs[t]]
      /\ UNCHANGED <<waiters, signalled, is_running, attached, forever, dispatches>>
  BY OwnerCounts DEF IterateAcquire, IInv, TypeOK, InRun
<1>2. /\ \A u \in Thread \ {t} : Acquired(u)' = Acquired(u)
      /\ pc'[t] = "prepare" /\ runs'[t] = runs[t] /\ InRun'
  BY <1>1, OthersStay
<1>3. Acquired(t)' = Acquired(t) + 1
  <2>1. Acquired(t) = 2 * n - 1
    BY <1>1, AcquiredIs
  <2>2. Acquired(t)' = 2 * n
    BY <1>1, <1>2, AcquiredNext
  <2>3. QED
    BY <1>1, <2>1, <2>2
<1>4. OwnerExact' /\ owner' \in Thread \cup {None} /\ owner_count' \in Nat
  BY <1>1, <1>2, <1>3, CountsKept
<1>5. waiters' \in Seq(Thread) /\ WaitersWait'
  BY <1>1, NotListed, ListAfter
<1>6. TypeOK'
  BY <1>1, <1>4, <1>5 DEF TypeOK
<1>7. QED
  BY <1>2, <1>4, <1>5, <1>6 DEF IInv

\* The round ends: main_context_release_U of main_context_iterate_L.
LEMMA DispatchEndInv ==
  ASSUME IInv, NEW t \in Thread, Dispatch(t), dispatches[t] = {}
  PROVE  IInv'
<1> DEFINE n == Len(runs[t])
<1>1. /\ pc[t] = "dispatch" /\ TypeOK /\ Disown(t)
      /\ runs[t] # << >> /\ n \in Nat /\ n # 0
      /\ pc' = [pc EXCEPT ![t] = "end"] /\ runs' = [runs EXCEPT ![t] = runs[t]]
      /\ UNCHANGED <<is_running, attached, forever, dispatches>>
  BY OwnerCounts DEF Dispatch, IInv, TypeOK, InRun
<1>2. /\ \A u \in Thread \ {t} : Acquired(u)' = Acquired(u)
      /\ pc'[t] = "end" /\ runs'[t] = runs[t] /\ InRun'
  BY <1>1, OthersStay
<1>3. Acquired(t) # 0 /\ Acquired(t)' = Acquired(t) - 1
  <2>1. Acquired(t) = 2 * n
    BY <1>1, AcquiredIs
  <2>2. Acquired(t)' = 2 * n - 1
    BY <1>1, <1>2, AcquiredNext
  <2>3. QED
    BY <1>1, <2>1, <2>2
<1>4. OwnerExact' /\ owner' \in Thread \cup {None} /\ owner_count' \in Nat
  BY <1>1, <1>2, <1>3, CountsDropped
<1>5. /\ Within(waiters', waiters) /\ signalled' \subseteq Thread
      /\ \A i \in 1 .. Len(waiters') : waiters'[i] # t
  BY <1>1, SignalKeeps DEF Disown
<1>6. waiters' \in Seq(Thread) /\ WaitersWait'
  BY <1>1, <1>5, ListAfter
<1>7. TypeOK'
  BY <1>1, <1>4, <1>5, <1>6 DEF TypeOK
<1>8. QED
  BY <1>2, <1>4, <1>6, <1>7 DEF IInv

\* Nothing of what the invariant relates changes.
LEMMA StillInv ==
  ASSUME IInv, TypeOK', UNCHANGED <<owner, owner_count, waiters, runs, pc>>
  PROVE  IInv'
<1>1. \A t \in Thread : Acquired(t)' = Acquired(t)
  BY DEF Acquired
<1>2. OwnerExact' /\ WaitersWait' /\ InRun'
  BY <1>1 DEF IInv, OwnerExact, WaitersWait, InRun
<1>3. QED
  BY <1>2 DEF IInv

LEMMA NextInv == IInv /\ [Next]_vars => IInv'
<1> SUFFICES ASSUME IInv, [Next]_vars PROVE IInv'
  OBVIOUS
<1>1. TypeOK
  BY DEF IInv
<1>2. ASSUME NEW t \in Thread, RunStep(t) PROVE IInv'
  <2>1. ASSUME Quiet(t) PROVE IInv'
    BY <2>1, QuietStep
  <2>2. ASSUME Dispatch(t), dispatches[t] = {} PROVE IInv'
    BY <2>2, DispatchEndInv
  <2>3. QED
    BY <1>2, <2>1, <2>2, RunLostInv, RunWakesInv, RunReleaseInv, IterateAcquireInv
       DEF RunStep, Quiet
<1>3. ASSUME NEW t \in Thread, UserStep(t) PROVE IInv'
  <2>1. ASSUME NEW l \in Loop, Run(t, l) PROVE IInv'
    BY <2>1, RunInv
  <2>2. ASSUME NEW l \in Loop, Quit(t, l) PROVE IInv'
    <3>1. TypeOK'
      BY <1>1, <2>2 DEF TypeOK, Quit, Waiting
    <3>2. QED
      BY <2>2, <3>1, StillInv DEF Quit
  <2>3. ASSUME NEW s \in Source, Attach(t, s) PROVE IInv'
    <3>1. TypeOK'
      BY <1>1, <2>3 DEF TypeOK, Attach
    <3>2. QED
      BY <2>3, <3>1, StillInv DEF Attach
  <2>4. QED
    BY <1>3, <2>1, <2>2, <2>3 DEF UserStep
<1>4. CASE UNCHANGED vars
  BY <1>1, <1>4, StillInv DEF vars, TypeOK
<1>5. QED
  BY <1>2, <1>3, <1>4 DEF Next

\* Counts that agree leave a round to the owner alone.
LEMMA InvImplies == IInv => ContextExact
<1> SUFFICES ASSUME IInv PROVE ContextExact
  OBVIOUS
<1>1. IterateOwns
  <2> SUFFICES ASSUME NEW t \in Thread,
                      pc[t] \in {"iterate", "prepare", "poll", "check", "dispatch", "end"}
               PROVE  owner = t
    BY DEF IterateOwns
  <2>1. Len(runs[t]) \in Nat /\ Len(runs[t]) # 0
    BY OwnerCounts DEF IInv, InRun
  <2>2. Acquired(t) # 0
    BY <2>1, AcquiredIs
  <2>3. QED
    BY <2>2, OwnerCounts
<1>2. QED
  BY <1>1 DEF IInv, ContextExact

\* Who owns the context, how often, and who waits for it agree in every state,
\* over nested runs and lost wake-ups, and only the owner goes through a round.
THEOREM ContextIsExact == Spec => []ContextExact
<1>1. Spec => []IInv
  BY InitInv, NextInv, PTL DEF Spec
<1>2. QED
  BY <1>1, InvImplies, PTL
=============================================================================
