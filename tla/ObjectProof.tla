----------------------------- MODULE ObjectProof -----------------------------
(***************************************************************************)
(* Proofs that the count of an object is exact, that nobody uses a deleted *)
(* object or a freed queue, and that no change of a property is lost, for  *)
(* any threads and properties.                                             *)
(***************************************************************************)
EXTENDS Object, FiniteSetTheorems, TLAPS

\* A thread that has nothing to do with the object.
Away(t) ==
  /\ pc[t] = "idle" /\ call[t] = "no" /\ held[t] = 0
  /\ nqueue[t] = "no" /\ prop[t] = None /\ pspecs[t] = {} /\ emitting[t] = None

\* Where each call may be.
PlaceOK(t) ==
  /\ call[t] = "no" => pc[t] \in {"idle", "dispose", "delete"}
  /\ call[t] = "sink" => pc[t] \in {"sink", "drop"} /\ held[t] > 0
  /\ call[t] = "new" => pc[t] \in {"freeze", "thaw"}
  /\ call[t] = "made" => pc[t] \in {"values", "add", "thaw", "emit"}
  /\ call[t] = "set" => pc[t] \in {"freeze", "values", "add", "thaw", "emit"}
  /\ call[t] = "notify" => pc[t] \in {"freeze", "add", "thaw", "emit"}

\* What a thread has in its hands at each place.
HandsOK(t) ==
  /\ pc[t] \in {"values", "add", "thaw"} <=> nqueue[t] = "this"
  /\ prop[t] # None <=> pc[t] = "add" \/ (pc[t] = "freeze" /\ call[t] = "notify")
  /\ pspecs[t] # {} \/ emitting[t] # None => pc[t] = "emit"
  /\ emitting[t] = None => state[t] = "run"

\* Nobody but its maker has to do with an object that x_object_newv makes.
MakingOK(t) ==
  call[t] \in {"new", "made"} =>
    /\ t = Creator /\ (floating \/ held[t] > 0)
    /\ \A u \in Thread \ {t} : Away(u)

\* At the end only the thread that disposes of the object has to do with it.
EndOK ==
  /\ AtEnd => /\ ~floating
              /\ \A t \in Thread : held[t] = 0 /\ (disposer # t => Away(t))
  /\ freed => disposer = None
  /\ \A t \in Thread :
       /\ pc[t] \in {"dispose", "delete"} => disposer = t
       /\ disposer = t => pc[t] # "idle"
       /\ pc[t] = "delete" => queue = None

IInv ==
  /\ CountsExact /\ NothingGone /\ NotLost /\ EndOK
  /\ IsFiniteSet(References)
  /\ \A t \in Thread : PlaceOK(t) /\ HandsOK(t) /\ MakingOK(t)

-----------------------------------------------------------------------------
(* Counting *)

LEMMA ThreadSets ==
  \A S \in SUBSET Thread : IsFiniteSet(S) /\ Cardinality(S) \in Nat
BY ObjectAssumption, FS_Subset, FS_CardinalityType

LEMMA Joined ==
  ASSUME NEW S \in SUBSET Thread, NEW t \in Thread, t \notin S
  PROVE  Cardinality(S \cup {t}) = Cardinality(S) + 1
BY ThreadSets, FS_AddElement

LEMMA Left ==
  ASSUME NEW S \in SUBSET Thread, NEW t \in S
  PROVE  Cardinality(S \ {t}) = Cardinality(S) - 1 /\ Cardinality(S) > 0
<1>1. IsFiniteSet(S) /\ Cardinality(S) \in Nat
  BY ThreadSets
<1>2. Cardinality(S) # 0
  BY <1>1, FS_EmptySet
<1>3. Cardinality(S \ {t}) = Cardinality(S) - 1
  BY <1>1, FS_RemoveElement
<1>4. QED
  BY <1>1, <1>2, <1>3

\* The terms of Claims and Freezes are numbers.
LEMMA Numbers ==
  ASSUME IsFiniteSet(References)
  PROVE  /\ Held \in Nat /\ Cardinality(Calling) \in Nat
         /\ Cardinality(Emitting) \in Nat /\ Cardinality(Dropping) \in Nat
         /\ Cardinality(Freezing) \in Nat /\ Cardinality(Making) \in Nat
<1>1. Held \in Nat
  BY FS_CardinalityType DEF Held
<1>2. /\ Calling \in SUBSET Thread /\ Emitting \in SUBSET Thread /\ Dropping \in SUBSET Thread
      /\ Freezing \in SUBSET Thread /\ Making \in SUBSET Thread
  BY DEF Calling, Emitting, Dropping, Freezing, Making
<1>3. QED
  BY <1>1, <1>2, ThreadSets

LEMMA InReferences ==
  ASSUME NEW t \in Thread, NEW i
  PROVE  <<t, i>> \in References <=> i \in 1 .. held[t]
BY DEF References

\* A thread that gets a reference.
LEMMA Gained ==
  ASSUME IInv, NEW u \in Thread, held' = [held EXCEPT ![u] = @ + 1]
  PROVE  IsFiniteSet(References') /\ Held' = Held + 1
<1>1. held \in [Thread -> Nat] /\ IsFiniteSet(References)
  BY DEF IInv, CountsExact, TypeOK
<1>2. held' \in [Thread -> Nat] /\ held'[u] = held[u] + 1
      /\ \A v \in Thread \ {u} : held'[v] = held[v]
  BY <1>1
<1>3. References' = References \cup {<<u, held[u] + 1>>}
  BY <1>1, <1>2 DEF References
<1>4. <<u, held[u] + 1>> \notin References
  BY <1>1, InReferences
<1>5. QED
  BY <1>1, <1>3, <1>4, FS_AddElement DEF Held

\* A thread that gives one up.
LEMMA GaveUp ==
  ASSUME IInv, NEW t \in Thread, held[t] > 0, held' = [held EXCEPT ![t] = @ - 1]
  PROVE  IsFiniteSet(References') /\ Held' = Held - 1
<1>1. held \in [Thread -> Nat] /\ IsFiniteSet(References)
  BY DEF IInv, CountsExact, TypeOK
<1>2. held' \in [Thread -> Nat] /\ held'[t] = held[t] - 1
      /\ \A v \in Thread \ {t} : held'[v] = held[v]
  BY <1>1
<1>3. References' = References \ {<<t, held[t]>>}
  BY <1>1, <1>2 DEF References
<1>4. <<t, held[t]>> \in References
  BY <1>1, InReferences
<1>5. QED
  BY <1>1, <1>3, <1>4, FS_RemoveElement DEF Held

LEMMA Holds ==
  ASSUME IInv, NEW t \in Thread, held[t] > 0
  PROVE  Held > 0
<1>1. IsFiniteSet(References) /\ 1 \in 1 .. held[t]
  BY DEF IInv, CountsExact, TypeOK
<1>2. References # {}
  BY <1>1, InReferences
<1>3. Held # 0 /\ Held \in Nat
  BY <1>1, <1>2, FS_EmptySet, FS_CardinalityType DEF Held
<1>4. QED
  BY <1>3

\* Who holds the object while one reference is held.
LEMMA OneHeld ==
  ASSUME IInv, NEW t \in Thread, held[t] > 0, Held = 1
  PROVE  held[t] = 1 /\ \A u \in Thread \ {t} : held[u] = 0
<1>1. held \in [Thread -> Nat] /\ IsFiniteSet(References)
  BY DEF IInv, CountsExact, TypeOK
<1>2. PICK x : References = {x}
  BY <1>1, FS_Singleton DEF Held
<1>3. \A u \in Thread, i \in Nat : <<u, i>> \in References => u = t /\ i = 1
  BY <1>1, <1>2, InReferences
<1>4. ASSUME NEW u \in Thread, u # t
      PROVE  held[u] = 0
  <2>1. <<u, 1>> \notin References
    BY <1>3, <1>4
  <2>2. 1 \notin 1 .. held[u]
    BY <2>1, InReferences
  <2>3. QED
    BY <1>1, <2>2
<1>5. held[t] = 1
  <2>1. <<t, 2>> \notin References
    BY <1>3
  <2>2. 2 \notin 1 .. held[t]
    BY <2>1, InReferences
  <2>3. QED
    BY <1>1, <2>2
<1>6. QED
  BY <1>4, <1>5

LEMMA NoneHeld ==
  ASSUME IInv, Held = 0
  PROVE  \A u \in Thread : held[u] = 0
<1>1. held \in [Thread -> Nat] /\ IsFiniteSet(References)
  BY DEF IInv, CountsExact, TypeOK
<1>2. References = {}
  BY <1>1, FS_EmptySet DEF Held
<1>3. ASSUME NEW u \in Thread
      PROVE  held[u] = 0
  BY <1>1, <1>2, InReferences
<1>4. QED
  BY <1>3

LEMMA Alone ==
  ASSUME NEW S \in SUBSET Thread, NEW t \in S, Cardinality(S) = 1
  PROVE  S = {t}
BY ThreadSets, FS_Singleton

LEMMA Nobody ==
  ASSUME NEW S \in SUBSET Thread, Cardinality(S) = 0
  PROVE  S = {}
BY ThreadSets, FS_EmptySet

-----------------------------------------------------------------------------
(* Who may act *)

\* A thread that has to do with the object.
Acting(t) == pc[t] # "idle" \/ held[t] > 0 \/ MayUse(t)

LEMMA OneActs ==
  ASSUME IInv, NEW t \in Thread, Acting(t)
  PROVE  /\ ~freed /\ (AtEnd => disposer = t)
         /\ \A u \in Thread \ {t} :
              call[u] \notin {"new", "made"} /\ (AtEnd => Away(u))
<1>1. EndOK /\ TypeOK /\ t # None
  BY ObjectAssumption DEF IInv, CountsExact
<1>2. AtEnd => disposer = t
  <2>1. SUFFICES ASSUME AtEnd, disposer # t
                 PROVE  FALSE
    OBVIOUS
  <2>2. Away(t) /\ ~floating
    BY <1>1, <2>1 DEF EndOK
  <2>3. QED
    BY <2>1, <2>2 DEF Acting, Away, MayUse
<1>3. ~freed
  BY <1>1, <1>2 DEF EndOK, AtEnd
<1>4. ASSUME NEW u \in Thread \ {t}
      PROVE  call[u] \notin {"new", "made"} /\ (AtEnd => Away(u))
  <2>1. AtEnd => Away(u)
    BY <1>1, <1>2 DEF EndOK
  <2>2. ASSUME call[u] \in {"new", "made"}
        PROVE  FALSE
    <3>1. u = Creator /\ Away(t) /\ (floating \/ held[u] > 0)
      BY <2>2 DEF IInv, MakingOK
    <3>2. ~AtEnd
      BY <1>1, <3>1 DEF EndOK
    <3>3. disposer # t
      BY <1>1, <3>2 DEF AtEnd
    <3>4. QED
      BY <3>1, <3>3 DEF Acting, Away, MayUse
  <2>3. QED
    BY <2>1, <2>2
<1>5. QED
  BY <1>2, <1>3, <1>4

\* What t has to do with the object is all there is, when one reference is left.
LEMMA LastOne ==
  ASSUME IInv, ~AtEnd, ref_count = 1, NEW t \in Thread,
         held[t] > 0 \/ t \in Calling \/ t \in Dropping
  PROVE  /\ ~floating /\ \A u \in Thread \ {t} : Away(u)
         /\ held[t] > 0 => held[t] = 1 /\ t \notin Calling /\ t \notin Dropping
<1> DEFINE h == Held
           c == Cardinality(Calling)
           e == Cardinality(Emitting)
           d == Cardinality(Dropping)
<1>1. /\ TypeOK /\ EndOK /\ NothingGone /\ IsFiniteSet(References)
      /\ \A u \in Thread : PlaceOK(u) /\ HandsOK(u) /\ MakingOK(u)
  BY DEF IInv, CountsExact
<1>2. h + c + e + d + (IF floating THEN 1 ELSE 0) = 1
  BY DEF IInv, CountsExact, Claims
<1>3. h \in Nat /\ c \in Nat /\ e \in Nat /\ d \in Nat
  BY <1>1, Numbers
<1>4. Calling \in SUBSET Thread /\ Emitting \in SUBSET Thread /\ Dropping \in SUBSET Thread
  BY DEF Calling, Emitting, Dropping
<1>5. /\ \A u \in Thread : held[u] > 0 => h > 0
      /\ \A u \in Calling : c > 0
      /\ \A u \in Emitting : e > 0
      /\ \A u \in Dropping : d > 0
  BY <1>4, Holds, Left
<1> HIDE DEF h, c, e, d
<1>6. ~floating /\ h + c + e + d = 1
  BY <1>2, <1>3, <1>5
<1>7. CASE held[t] > 0
  <2>1. h = 1 /\ c = 0 /\ d = 0
    BY <1>3, <1>5, <1>6, <1>7
  <2>2. Calling = {} /\ Dropping = {}
    BY <1>4, <2>1, Nobody DEF c, d
  <2>3. held[t] = 1 /\ \A u \in Thread \ {t} : held[u] = 0
    BY <1>7, <2>1, OneHeld DEF h
  <2>4. ASSUME NEW u \in Thread \ {t}
        PROVE  Away(u)
    <3>1. held[u] = 0 /\ call[u] \notin {"set", "notify", "sink"}
      BY <1>1, <2>2, <2>3 DEF Calling, PlaceOK
    <3>2. call[u] = "no"
      BY <1>1, <1>7, <3>1, OneActs DEF Acting, TypeOK
    <3>3. pc[u] = "idle"
      BY <1>1, <3>2, ObjectAssumption DEF PlaceOK, EndOK, AtEnd
    <3>4. QED
      BY <1>1, <3>1, <3>2, <3>3 DEF Away, HandsOK, NothingGone, TypeOK
  <2>5. QED
    BY <1>6, <2>2, <2>3, <2>4
<1>8. CASE ~(held[t] > 0)
  <2>1. h = 0
    BY <1>3, <1>5, <1>6, <1>8
  <2>2. \A u \in Thread : held[u] = 0
    BY <2>1, NoneHeld DEF h
  <2>3. Dropping = {}
    BY <1>1, <2>2 DEF Dropping, PlaceOK, TypeOK
  <2>4. t \in Calling /\ c = 1
    BY <1>3, <1>5, <1>6, <1>8, <2>1, <2>3
  <2>5. Calling = {t}
    BY <1>4, <2>4, Alone DEF c
  <2>6. ASSUME NEW u \in Thread \ {t}
        PROVE  Away(u)
    <3>1. held[u] = 0 /\ call[u] \notin {"set", "notify", "sink"}
      BY <1>1, <2>2, <2>5 DEF Calling, PlaceOK
    <3>2. pc[t] # "idle"
      BY <1>1, <2>4 DEF Calling, PlaceOK
    <3>3. call[u] = "no"
      BY <1>1, <3>1, <3>2, OneActs DEF Acting, TypeOK
    <3>4. pc[u] = "idle"
      BY <1>1, <3>3, ObjectAssumption DEF PlaceOK, EndOK, AtEnd
    <3>5. QED
      BY <1>1, <3>1, <3>3, <3>4 DEF Away, HandsOK, NothingGone, TypeOK
  <2>7. QED
    BY <1>6, <1>8, <2>6
<1>9. QED
  BY <1>7, <1>8

-----------------------------------------------------------------------------
(* References *)

\* What the proof of each action uses of the invariant.
LEMMA Facts ==
  IInv => /\ TypeOK /\ EndOK /\ NothingGone /\ NotLost
          /\ IsFiniteSet(References)
          /\ \A u \in Thread : PlaceOK(u) /\ HandsOK(u) /\ MakingOK(u)
          /\ AtEnd => ref_count = 0
          /\ ~AtEnd => ref_count = Claims
                       /\ (IF queue = None THEN 0 ELSE queue.freeze_count) = Freezes
BY DEF IInv, CountsExact

\* An object that a thread may use is counted, unless it is at its end.
LEMMA Counted ==
  ASSUME IInv, ~AtEnd, NEW t \in Thread,
         held[t] > 0 \/ t \in Calling \/ t \in Dropping \/ floating
  PROVE  ref_count > 0
<1>1. ref_count = Claims /\ IsFiniteSet(References)
  BY Facts
<1>2. held[t] > 0 => Held > 0
  BY Holds
<1>3. t \in Calling => Cardinality(Calling) > 0
  BY Left DEF Calling
<1>4. t \in Dropping => Cardinality(Dropping) > 0
  BY Left DEF Dropping
<1>5. QED
  BY <1>1, <1>2, <1>3, <1>4, Numbers DEF Claims

LEMMA ShareStep ==
  ASSUME IInv, NEW t \in Thread, NEW u \in Thread, Share(t, u)
  PROVE  IInv'
<1> USE DEF counts, end, local, rounds
<1>1. /\ TypeOK /\ EndOK /\ NothingGone /\ NotLost
      /\ \A v \in Thread : PlaceOK(v) /\ HandsOK(v) /\ MakingOK(v)
  BY Facts
<1>2. /\ MayUse(t) /\ disposer = None /\ held' = [held EXCEPT ![u] = @ + 1]
      /\ UNCHANGED <<floating, freed, disposer, emitting, state, queue, unseen,
                     pc, call, prop, nqueue, pspecs>>
  BY DEF Share
<1>3. ~freed /\ \A v \in Thread \ {t} : call[v] \notin {"new", "made"}
  BY <1>2, OneActs DEF Acting
<1>4. ~AtEnd /\ ~AtEnd' /\ call[t] = "no"
  BY <1>2, <1>3 DEF AtEnd, MayUse, AtHome
<1>5. ref_count > 0
  BY <1>2, <1>4, Counted, ObjectAssumption DEF MayUse
<1>6. ref_count' = ref_count + 1
  BY <1>5 DEF Share, Ref
<1>7. IsFiniteSet(References') /\ Held' = Held + 1
  BY <1>2, Gained
<1>8. Calling' = Calling /\ Emitting' = Emitting /\ Dropping' = Dropping /\ Freezes' = Freezes
  BY <1>2 DEF Calling, Emitting, Dropping, Freezes, Freezing, Making
<1>9. Claims' = Claims + 1
  BY <1>1, <1>2, <1>7, <1>8, Numbers, Facts DEF Claims
<1>10. TypeOK'
  BY <1>1, <1>2, <1>6 DEF TypeOK
<1>11. CountsExact'
  BY <1>2, <1>4, <1>6, <1>8, <1>9, <1>10, Facts DEF CountsExact
<1>12. NothingGone' /\ NotLost'
  BY <1>1, <1>2, <1>3, <1>4 DEF NothingGone, NotLost
<1>13. EndOK'
  BY <1>1, <1>2, <1>4 DEF EndOK
<1>14. \A v \in Thread : PlaceOK(v)' /\ HandsOK(v)'
  BY <1>1, <1>2 DEF PlaceOK, HandsOK, TypeOK
<1>15. \A v \in Thread : MakingOK(v)'
  BY <1>2, <1>3, <1>4 DEF MakingOK
<1>16. QED
  BY <1>7, <1>11, <1>12, <1>13, <1>14, <1>15 DEF IInv

LEMMA ReleaseStep ==
  ASSUME IInv, NEW t \in Thread, Release(t)
  PROVE  IInv'
<1> USE DEF rounds
<1>1. /\ TypeOK /\ EndOK /\ NothingGone /\ NotLost
      /\ \A v \in Thread : PlaceOK(v) /\ HandsOK(v) /\ MakingOK(v)
  BY Facts
<1>2. /\ call[t] = "no" /\ held[t] > 0 /\ held' = [held EXCEPT ![t] = @ - 1]
      /\ Unref(t, "idle") /\ pc[t] = Home(t)
      /\ UNCHANGED <<floating, freed, emitting, state, queue, unseen,
                     call, prop, nqueue, pspecs>>
  BY DEF Release, AtHome
<1>3. ~freed /\ \A v \in Thread \ {t} : call[v] \notin {"new", "made"}
  BY <1>2, OneActs DEF Acting
<1>4. ~AtEnd /\ disposer = None /\ pc[t] = "idle"
  BY <1>1, <1>2, ObjectAssumption DEF EndOK, AtEnd, Home
<1>5. ref_count > 0 /\ ref_count \in Nat
  BY <1>1, <1>2, <1>4, Counted DEF TypeOK
<1>6. IsFiniteSet(References') /\ Held' = Held - 1
  BY <1>2, GaveUp
<1>7. ref_count' = ref_count - 1
  BY <1>2, <1>5 DEF Unref
<1>8. CASE ref_count = 1
  <2>1. pc' = [pc EXCEPT ![t] = "dispose"] /\ disposer' = t /\ AtEnd'
    BY <1>2, <1>4, <1>8, ObjectAssumption DEF Unref, Goto, AtEnd
  <2>2. ~floating /\ held'[t] = 0 /\ \A v \in Thread \ {t} : Away(v) /\ Away(v)'
    <3>1. ~floating /\ held[t] = 1 /\ \A v \in Thread \ {t} : Away(v)
      BY <1>2, <1>4, <1>8, LastOne
    <3>2. \A v \in Thread \ {t} : Away(v)'
      BY <1>1, <1>2, <2>1, <3>1 DEF Away, TypeOK
    <3>3. QED
      BY <1>1, <1>2, <3>1, <3>2 DEF TypeOK
  <2>3. TypeOK'
    BY <1>1, <1>2, <1>5, <1>7, <2>1 DEF TypeOK
  <2>4. CountsExact'
    BY <1>7, <1>8, <2>1, <2>3 DEF CountsExact
  <2>5. NothingGone' /\ NotLost'
    BY <1>1, <1>2, <1>3, <2>1 DEF NothingGone, NotLost
  <2>6. EndOK'
    BY <1>1, <1>2, <1>3, <2>1, <2>2 DEF EndOK, Away, TypeOK
  <2>7. \A v \in Thread : PlaceOK(v)' /\ HandsOK(v)'
    BY <1>1, <1>2, <1>4, <2>1, <2>2 DEF PlaceOK, HandsOK, TypeOK, Away
  <2>8. \A v \in Thread : MakingOK(v)'
    BY <1>2, <1>3 DEF MakingOK
  <2>9. QED
    BY <1>6, <2>4, <2>5, <2>6, <2>7, <2>8 DEF IInv
<1>9. CASE ref_count # 1
  <2>1. UNCHANGED <<pc, disposer>>
    BY <1>1, <1>2, <1>4, <1>5, <1>9 DEF Unref, Goto, TypeOK
  <2>2. ~AtEnd'
    BY <1>2, <1>4, <2>1 DEF AtEnd
  <2>3. TypeOK'
    BY <1>1, <1>2, <1>5, <1>7, <2>1 DEF TypeOK
  <2>4. Calling' = Calling /\ Emitting' = Emitting /\ Dropping' = Dropping /\ Freezes' = Freezes
    BY <1>2, <2>1 DEF Calling, Emitting, Dropping, Freezes, Freezing, Making
  <2>5. Claims' = Claims - 1
    BY <1>1, <1>2, <1>6, <2>4, Numbers, Facts DEF Claims
  <2>6. CountsExact'
    BY <1>2, <1>4, <1>7, <2>2, <2>3, <2>4, <2>5, Facts DEF CountsExact
  <2>7. NothingGone' /\ NotLost'
    BY <1>1, <1>2, <1>3, <1>4, <2>1, <2>2 DEF NothingGone, NotLost
  <2>8. EndOK'
    BY <1>1, <1>2, <2>1, <2>2 DEF EndOK
  <2>9. \A v \in Thread : PlaceOK(v)' /\ HandsOK(v)'
    BY <1>1, <1>2, <2>1 DEF PlaceOK, HandsOK, TypeOK
  <2>10. \A v \in Thread : MakingOK(v)'
    BY <1>2, <1>3 DEF MakingOK
  <2>11. QED
    BY <1>6, <2>6, <2>7, <2>8, <2>9, <2>10 DEF IInv
<1>10. QED
  BY <1>8, <1>9

LEMMA SinkStep ==
  ASSUME IInv, NEW t \in Thread, Sink(t)
  PROVE  IInv'
<1> USE DEF end, rounds
<1>1. /\ TypeOK /\ EndOK /\ NothingGone /\ NotLost
      /\ \A v \in Thread : PlaceOK(v) /\ HandsOK(v) /\ MakingOK(v)
  BY Facts
<1>2. /\ MayUse(t) /\ disposer = None /\ held' = [held EXCEPT ![t] = @ + 1]
      /\ pc' = [pc EXCEPT ![t] = "sink"] /\ call' = [call EXCEPT ![t] = "sink"]
      /\ UNCHANGED <<floating, freed, disposer, emitting, state, queue, unseen,
                     prop, nqueue, pspecs>>
  BY DEF Sink, Goto
<1>3. ~freed /\ \A v \in Thread \ {t} : call[v] \notin {"new", "made"}
  BY <1>2, OneActs DEF Acting
<1>4. ~AtEnd /\ ~AtEnd' /\ call[t] = "no" /\ pc[t] = "idle"
  BY <1>2, <1>3, ObjectAssumption DEF AtEnd, MayUse, AtHome, Home
<1>5. ref_count > 0
  BY <1>2, <1>4, Counted, ObjectAssumption DEF MayUse
<1>6. ref_count' = ref_count + 1
  BY <1>5 DEF Sink, Ref
<1>7. IsFiniteSet(References') /\ Held' = Held + 1
  BY <1>2, Gained
<1>8. /\ Calling' = Calling /\ Emitting' = Emitting /\ Dropping' = Dropping
      /\ Freezing' = Freezing /\ Making' = Making
  BY <1>1, <1>2, <1>4 DEF Calling, Emitting, Dropping, Freezing, Making, TypeOK
<1>9. Claims' = Claims + 1 /\ Freezes' = Freezes
  BY <1>1, <1>2, <1>7, <1>8, Numbers, Facts DEF Claims, Freezes
<1>10. TypeOK'
  BY <1>1, <1>2, <1>6 DEF TypeOK
<1>11. CountsExact'
  BY <1>2, <1>4, <1>6, <1>8, <1>9, <1>10, Facts DEF CountsExact
<1>12. NothingGone' /\ NotLost'
  BY <1>1, <1>2, <1>3, <1>4 DEF NothingGone, NotLost
<1>13. EndOK'
  BY <1>1, <1>2, <1>4, ObjectAssumption DEF EndOK, TypeOK
<1>14. \A v \in Thread : PlaceOK(v)' /\ HandsOK(v)'
  BY <1>1, <1>2, <1>4 DEF PlaceOK, HandsOK, TypeOK
<1>15. \A v \in Thread : MakingOK(v)'
  BY <1>1, <1>2, <1>3, <1>4 DEF MakingOK, TypeOK
<1>16. QED
  BY <1>7, <1>11, <1>12, <1>13, <1>14, <1>15 DEF IInv

LEMMA SunkStep ==
  ASSUME IInv, NEW t \in Thread, Sunk(t)
  PROVE  IInv'
<1> USE DEF end, rounds
<1>1. /\ TypeOK /\ EndOK /\ NothingGone /\ NotLost
      /\ \A v \in Thread : PlaceOK(v) /\ HandsOK(v) /\ MakingOK(v)
  BY Facts
<1>2. /\ pc[t] = "sink" /\ floating' = FALSE
      /\ UNCHANGED <<ref_count, held, freed, disposer, emitting, state, queue, unseen,
                     prop, nqueue, pspecs>>
  BY DEF Sunk
<1>3. ~freed /\ \A v \in Thread \ {t} : call[v] \notin {"new", "made"}
  BY <1>2, OneActs DEF Acting
<1>4. call[t] = "sink" /\ held[t] > 0
  BY <1>1, <1>2 DEF PlaceOK, TypeOK
<1>5. ~AtEnd /\ ~AtEnd' /\ disposer = None
  BY <1>1, <1>2, <1>4 DEF EndOK, AtEnd
<1>6. CASE floating
  <2>1. pc' = [pc EXCEPT ![t] = "drop"] /\ call' = call
    BY <1>6 DEF Sunk, Goto
  <2>2. TypeOK'
    BY <1>1, <1>2, <2>1 DEF TypeOK
  <2>3. Calling' = Calling /\ Emitting' = Emitting /\ Freezing' = Freezing /\ Making' = Making
        /\ Dropping' = Dropping \cup {t} /\ t \notin Dropping
    BY <1>1, <1>2, <2>1 DEF Calling, Emitting, Dropping, Freezing, Making, TypeOK
  <2>4. Cardinality(Dropping') = Cardinality(Dropping) + 1
    BY <2>3, Joined DEF Dropping
  <2>5. References' = References /\ Held' = Held
    BY <1>2 DEF References, Held
  <2>6. Claims' = Claims /\ Freezes' = Freezes
    BY <1>1, <1>2, <1>6, <2>3, <2>4, <2>5, Numbers, Facts DEF Claims, Freezes
  <2>7. CountsExact' /\ IsFiniteSet(References')
    BY <1>2, <1>5, <2>2, <2>5, <2>6, Facts DEF CountsExact
  <2>8. NothingGone' /\ NotLost'
    BY <1>1, <1>2, <1>5, <2>1 DEF NothingGone, NotLost
  <2>9. EndOK'
    BY <1>1, <1>2, <1>5, <2>1, ObjectAssumption DEF EndOK, TypeOK
  <2>10. \A v \in Thread : PlaceOK(v)' /\ HandsOK(v)'
    BY <1>1, <1>2, <1>4, <2>1 DEF PlaceOK, HandsOK, TypeOK
  <2>11. \A v \in Thread : MakingOK(v)'
    BY <1>3, <1>4, <2>1 DEF MakingOK
  <2>12. QED
    BY <2>7, <2>8, <2>9, <2>10, <2>11 DEF IInv
<1>7. CASE ~floating
  <2>1. pc' = [pc EXCEPT ![t] = "idle"] /\ call' = [call EXCEPT ![t] = "no"]
    BY <1>7 DEF Sunk, Goto
  <2>2. TypeOK'
    BY <1>1, <1>2, <2>1 DEF TypeOK
  <2>3. /\ Calling' = Calling /\ Emitting' = Emitting /\ Dropping' = Dropping
        /\ Freezing' = Freezing /\ Making' = Making
    BY <1>1, <1>2, <1>4, <2>1 DEF Calling, Emitting, Dropping, Freezing, Making, TypeOK
  <2>4. References' = References /\ Held' = Held
    BY <1>2 DEF References, Held
  <2>5. Claims' = Claims /\ Freezes' = Freezes
    BY <1>2, <1>7, <2>3, <2>4 DEF Claims, Freezes
  <2>6. CountsExact' /\ IsFiniteSet(References')
    BY <1>2, <1>5, <2>2, <2>4, <2>5, Facts DEF CountsExact
  <2>7. NothingGone' /\ NotLost'
    BY <1>1, <1>2, <1>5, <2>1 DEF NothingGone, NotLost
  <2>8. EndOK'
    BY <1>1, <1>2, <1>5, <2>1, ObjectAssumption DEF EndOK, TypeOK
  <2>9. \A v \in Thread : PlaceOK(v)' /\ HandsOK(v)'
    BY <1>1, <1>2, <1>4, <2>1 DEF PlaceOK, HandsOK, TypeOK
  <2>10. \A v \in Thread : MakingOK(v)'
    BY <1>1, <1>3, <2>1 DEF MakingOK, TypeOK
  <2>11. QED
    BY <2>6, <2>7, <2>8, <2>9, <2>10 DEF IInv
<1>8. QED
  BY <1>6, <1>7

\* The thread that cleared the flag holds the object: its drop is not the last.
LEMMA DropFloatingStep ==
  ASSUME IInv, NEW t \in Thread, DropFloating(t)
  PROVE  IInv'
<1> USE DEF rounds
<1>1. /\ TypeOK /\ EndOK /\ NothingGone /\ NotLost
      /\ \A v \in Thread : PlaceOK(v) /\ HandsOK(v) /\ MakingOK(v)
  BY Facts
<1>2. /\ pc[t] = "drop" /\ Unref(t, "idle") /\ call' = [call EXCEPT ![t] = "no"]
      /\ UNCHANGED <<floating, held, freed, emitting, state, queue, unseen,
                     prop, nqueue, pspecs>>
  BY DEF DropFloating
<1>3. ~freed /\ \A v \in Thread \ {t} : call[v] \notin {"new", "made"}
  BY <1>2, OneActs DEF Acting
<1>4. call[t] = "sink" /\ held[t] > 0 /\ t \in Dropping
  BY <1>1, <1>2 DEF PlaceOK, TypeOK, Dropping
<1>5. ~AtEnd /\ disposer = None
  BY <1>1, <1>2, <1>4 DEF EndOK, AtEnd
<1>6. ref_count > 0 /\ ref_count \in Nat /\ ref_count # 1
  BY <1>1, <1>4, <1>5, Counted, LastOne DEF TypeOK
<1>7. /\ ref_count' = ref_count - 1 /\ disposer' = disposer
      /\ pc' = [pc EXCEPT ![t] = "idle"]
  BY <1>2, <1>6 DEF Unref, Goto
<1>8. ~AtEnd'
  BY <1>2, <1>5, <1>7 DEF AtEnd
<1>9. TypeOK'
  BY <1>1, <1>2, <1>6, <1>7 DEF TypeOK
<1>10. Calling' = Calling /\ Emitting' = Emitting /\ Freezing' = Freezing /\ Making' = Making
       /\ Dropping' = Dropping \ {t}
  BY <1>1, <1>2, <1>4, <1>7 DEF Calling, Emitting, Dropping, Freezing, Making, TypeOK
<1>11. Cardinality(Dropping') = Cardinality(Dropping) - 1
  BY <1>4, <1>10, Left DEF Dropping
<1>12. References' = References /\ Held' = Held
  BY <1>2 DEF References, Held
<1>13. Claims' = Claims - 1 /\ Freezes' = Freezes
  BY <1>1, <1>2, <1>10, <1>11, <1>12, Numbers, Facts DEF Claims, Freezes
<1>14. CountsExact' /\ IsFiniteSet(References')
  BY <1>2, <1>5, <1>7, <1>8, <1>9, <1>12, <1>13, Facts DEF CountsExact
<1>15. NothingGone' /\ NotLost'
  BY <1>1, <1>2, <1>3, <1>5, <1>8 DEF NothingGone, NotLost
<1>16. EndOK'
  BY <1>1, <1>2, <1>5, <1>7, <1>8, ObjectAssumption DEF EndOK, TypeOK
<1>17. \A v \in Thread : PlaceOK(v)' /\ HandsOK(v)'
  BY <1>1, <1>2, <1>4, <1>7 DEF PlaceOK, HandsOK, TypeOK
<1>18. \A v \in Thread : MakingOK(v)'
  BY <1>1, <1>2, <1>3 DEF MakingOK, TypeOK
<1>19. QED
  BY <1>14, <1>15, <1>16, <1>17, <1>18 DEF IInv

-----------------------------------------------------------------------------
(* The queue of notifications *)

\* A call that begins, with or without a property in its hands.
LEMMA Began ==
  ASSUME IInv, NEW t \in Thread, MayUse(t), NEW c \in {"set", "notify"},
         Ref, call' = [call EXCEPT ![t] = c], pc' = [pc EXCEPT ![t] = "freeze"],
         UNCHANGED <<floating, held, freed, disposer, emitting, state, queue, nqueue, pspecs>>,
         NEW q \in Prop \cup {None}, prop' = [prop EXCEPT ![t] = q],
         c = "set" <=> q = None,
         unseen' = IF q = None THEN unseen ELSE unseen \cup {q}
  PROVE  IInv'
<1>1. /\ TypeOK /\ EndOK /\ NothingGone /\ NotLost
      /\ \A v \in Thread : PlaceOK(v) /\ HandsOK(v) /\ MakingOK(v)
  BY Facts
<1>2. /\ ~freed /\ (AtEnd => disposer = t) /\ AtEnd' = AtEnd
      /\ \A v \in Thread \ {t} : call[v] \notin {"new", "made"}
  BY OneActs DEF Acting, AtEnd
<1>3. call[t] = "no" /\ pc[t] \in {"idle", "dispose"} /\ nqueue[t] # "this"
      /\ prop[t] = None /\ pspecs[t] = {}
  BY <1>1 DEF MayUse, AtHome, Home, HandsOK, TypeOK
<1>4. TypeOK'
  BY <1>1 DEF TypeOK, Ref
<1>5. /\ Calling' = Calling \cup {t} /\ t \notin Calling
      /\ Emitting' = Emitting /\ Dropping' = Dropping
      /\ Freezing' = Freezing /\ Making' = Making
  BY <1>1, <1>3 DEF Calling, Emitting, Dropping, Freezing, Making, TypeOK
<1>6. Cardinality(Calling') = Cardinality(Calling) + 1
  BY <1>5, Joined DEF Calling
<1>7. References' = References /\ Held' = Held
  BY DEF References, Held
<1>8. Claims' = Claims + 1 /\ Freezes' = Freezes
  BY <1>1, <1>5, <1>6, <1>7, Numbers, Facts DEF Claims, Freezes
<1>9. ~AtEnd => ref_count > 0
  BY Counted, ObjectAssumption DEF MayUse, AtEnd
<1>10. CountsExact' /\ IsFiniteSet(References')
  BY <1>2, <1>4, <1>7, <1>8, <1>9, Facts DEF CountsExact, Ref
<1>11. NothingGone'
  BY <1>1, <1>2 DEF NothingGone
<1>12. NotLost'
  <2>1. prop'[t] = q /\ \A v \in Thread \ {t} : prop'[v] = prop[v]
    BY <1>1 DEF TypeOK
  <2>2. prop[t] \notin unseen
    BY <1>1, <1>3, ObjectAssumption DEF TypeOK
  <2>3. QED
    BY <1>1, <1>2, <2>1, <2>2 DEF NotLost
<1>13. EndOK'
  BY <1>1, <1>2 DEF EndOK, TypeOK, Away
<1>14. \A v \in Thread : PlaceOK(v)' /\ HandsOK(v)'
  BY <1>1, <1>3 DEF PlaceOK, HandsOK, TypeOK
<1>15. \A v \in Thread : MakingOK(v)'
  BY <1>1, <1>2 DEF MakingOK, TypeOK
<1>16. QED
  BY <1>10, <1>11, <1>12, <1>13, <1>14, <1>15 DEF IInv

LEMMA SetCallStep ==
  ASSUME IInv, NEW t \in Thread, SetCall(t)
  PROVE  IInv'
<1>1. MayUse(t) /\ prop[t] = None /\ prop \in [Thread -> Prop \cup {None}]
  BY Facts DEF SetCall, MayUse, AtHome, Home, HandsOK, TypeOK
<1>2. prop' = [prop EXCEPT ![t] = None]
  BY <1>1 DEF SetCall
<1>3. QED
  BY <1>1, <1>2, Began DEF SetCall, Goto, end, rounds

LEMMA NotifyCallStep ==
  ASSUME IInv, NEW t \in Thread, NEW p \in Prop, NotifyCall(t, p)
  PROVE  IInv'
<1>1. p # None
  BY ObjectAssumption
<1>2. QED
  BY <1>1, Began DEF NotifyCall, Goto, end, rounds

\* The queue and what is known of its count.
NQueue == [freeze_count : Nat \ {0}, pspecs : SUBSET Prop]

LEMMA OneMore ==
  ASSUME NEW q \in NQueue
  PROVE  LET r == [q EXCEPT !.freeze_count = @ + 1]
         IN  r \in NQueue /\ r.freeze_count = q.freeze_count + 1 /\ r.pspecs = q.pspecs
BY DEF NQueue

LEMMA QueueThere ==
  \A q \in [freeze_count : Nat, pspecs : SUBSET Prop] : q # None
BY ObjectAssumption

\* A step that counts nothing but what has frozen the queue.
LEMMA SameCounts ==
  ASSUME IInv, TypeOK', UNCHANGED <<counts, end>>, Calling' = Calling,
         Emitting' = Emitting, Dropping' = Dropping,
         ~AtEnd => (IF queue' = None THEN 0 ELSE queue'.freeze_count) = Freezes'
  PROVE  CountsExact' /\ IsFiniteSet(References') /\ AtEnd' = AtEnd
<1>1. References' = References /\ Held' = Held /\ AtEnd' = AtEnd
  BY DEF References, Held, counts, end, AtEnd
<1>2. Claims' = Claims
  BY <1>1 DEF Claims, counts
<1>3. QED
  BY <1>1, <1>2, Facts DEF CountsExact, counts

\* A call of t that freezes the queue.
LEMMA Froze ==
  ASSUME IInv, NEW t \in Thread, nqueue[t] # "this", nqueue' = [nqueue EXCEPT ![t] = "this"],
         call' = call, NEW q \in NQueue, queue' = q,
         q.freeze_count = (IF queue = None THEN 0 ELSE queue.freeze_count) + 1
  PROVE  ~AtEnd => (IF queue' = None THEN 0 ELSE queue'.freeze_count) = Freezes'
<1>1. TypeOK /\ IsFiniteSet(References)
  BY Facts
<1>2. Freezing' = Freezing \cup {t} /\ t \notin Freezing /\ Making' = Making
  BY <1>1 DEF Freezing, Making, TypeOK
<1>3. Freezes' = Freezes + 1
  BY <1>1, <1>2, Joined, Numbers DEF Freezes, Freezing
<1>4. queue' # None
  BY QueueThere DEF NQueue
<1>5. QED
  BY <1>3, <1>4, Facts

LEMMA FreezeStep ==
  ASSUME IInv, NEW t \in Thread, Freeze(t)
  PROVE  IInv'
<1> USE DEF counts, end, rounds
<1>1. /\ TypeOK /\ EndOK /\ NothingGone /\ NotLost
      /\ \A v \in Thread : PlaceOK(v) /\ HandsOK(v) /\ MakingOK(v)
  BY Facts
<1>2. /\ pc[t] = "freeze" /\ call[t] \in {"set", "new"}
      /\ nqueue' = [nqueue EXCEPT ![t] = "this"]
      /\ UNCHANGED <<ref_count, floating, held, freed, disposer, emitting, state, unseen,
                     call, prop, pspecs>>
  BY DEF Freeze
<1>3. /\ ~freed /\ (AtEnd => disposer = t)
      /\ \A v \in Thread \ {t} : call[v] \notin {"new", "made"}
  BY <1>2, OneActs DEF Acting
<1>4. nqueue[t] # "this" /\ prop[t] = None /\ pspecs[t] = {}
  BY <1>1, <1>2 DEF HandsOK
<1>5. PICK label \in {"thaw", "values"} :
        /\ label = "thaw" <=> call[t] = "new"
        /\ pc' = [pc EXCEPT ![t] = label]
  BY <1>2 DEF Freeze, Goto
<1> DEFINE q == IF queue = None THEN [freeze_count |-> 1, pspecs |-> {}]
                ELSE [queue EXCEPT !.freeze_count = @ + 1]
<1>6. /\ queue' = q /\ q \in NQueue
      /\ q.freeze_count = (IF queue = None THEN 0 ELSE queue.freeze_count) + 1
      /\ queue # None => q.pspecs = queue.pspecs
  <2>1. queue' = q
    BY DEF Freeze
  <2>2. CASE queue = None
    <3>1. q = [freeze_count |-> 1, pspecs |-> {}]
      BY <2>2
    <3>2. QED
      BY <2>1, <2>2, <3>1 DEF NQueue
  <2>3. CASE queue # None
    <3>1. q = [queue EXCEPT !.freeze_count = @ + 1]
      BY <2>3
    <3>2. queue \in NQueue
      BY <1>1, <2>3 DEF TypeOK, NQueue
    <3> HIDE DEF q
    <3>3. QED
      BY <2>1, <2>3, <3>1, <3>2, OneMore
  <2>4. QED
    BY <2>2, <2>3
<1> HIDE DEF q
<1>7. queue' # None
  BY <1>6, QueueThere DEF NQueue
<1>8. TypeOK'
  BY <1>1, <1>2, <1>5, <1>6 DEF TypeOK, NQueue
<1>9. Calling' = Calling /\ Emitting' = Emitting /\ Dropping' = Dropping
  BY <1>1, <1>2, <1>5 DEF Calling, Emitting, Dropping, TypeOK
<1>10. CountsExact' /\ IsFiniteSet(References') /\ AtEnd' = AtEnd
  BY <1>2, <1>4, <1>6, <1>8, <1>9, Froze, SameCounts
<1>11. NothingGone'
  BY <1>1, <1>2, <1>3 DEF NothingGone, TypeOK
<1>12. NotLost'
  BY <1>1, <1>2, <1>6, <1>7, <1>10 DEF NotLost
<1>13. EndOK'
  BY <1>1, <1>2, <1>3, <1>5, <1>10, ObjectAssumption DEF EndOK, AtEnd, TypeOK, Away
<1>14. \A v \in Thread : PlaceOK(v)' /\ HandsOK(v)'
  BY <1>1, <1>2, <1>4, <1>5 DEF PlaceOK, HandsOK, TypeOK
<1>15. \A v \in Thread : MakingOK(v)'
  BY <1>1, <1>2, <1>3, <1>5 DEF MakingOK, TypeOK, Away
<1>16. QED
  BY <1>10, <1>11, <1>12, <1>13, <1>14, <1>15 DEF IInv

LEMMA FreezeThereStep ==
  ASSUME IInv, NEW t \in Thread, FreezeThere(t)
  PROVE  IInv'
<1> USE DEF counts, end, rounds
<1>1. /\ TypeOK /\ EndOK /\ NothingGone /\ NotLost
      /\ \A v \in Thread : PlaceOK(v) /\ HandsOK(v) /\ MakingOK(v)
  BY Facts
<1>2. /\ pc[t] = "freeze" /\ call[t] = "notify"
      /\ UNCHANGED <<ref_count, floating, held, freed, disposer, emitting, state, unseen, call>>
  BY DEF FreezeThere
<1>3. /\ ~freed /\ (AtEnd => disposer = t)
      /\ \A v \in Thread \ {t} : call[v] \notin {"new", "made"}
  BY <1>2, OneActs DEF Acting
<1>4. nqueue[t] # "this" /\ pspecs[t] = {}
  BY <1>1, <1>2 DEF HandsOK
<1>5. prop[t] \in Prop /\ prop[t] # None
  BY <1>1, <1>2 DEF HandsOK, TypeOK
<1>6. CASE queue = None
  <2>1. /\ pspecs' = [pspecs EXCEPT ![t] = {prop[t]}] /\ prop' = [prop EXCEPT ![t] = None]
        /\ pc' = [pc EXCEPT ![t] = "emit"] /\ UNCHANGED <<queue, nqueue>>
    BY <1>6 DEF FreezeThere, Goto
  <2>2. TypeOK'
    BY <1>1, <1>2, <1>5, <2>1 DEF TypeOK
  <2>3. Calling' = Calling /\ Emitting' = Emitting /\ Dropping' = Dropping /\ Freezes' = Freezes
    BY <1>1, <1>2, <2>1 DEF Calling, Emitting, Dropping, Freezes, Freezing, Making, TypeOK
  <2>4. CountsExact' /\ IsFiniteSet(References') /\ AtEnd' = AtEnd
    BY <1>2, <2>1, <2>2, <2>3, SameCounts, Facts
  <2>5. NothingGone'
    BY <1>1, <1>2, <1>3, <2>1 DEF NothingGone
  <2>6. NotLost'
    BY <1>1, <1>2, <1>4, <2>1, <2>4 DEF NotLost, TypeOK
  <2>7. EndOK'
    BY <1>1, <1>2, <1>3, <2>1, <2>4 DEF EndOK, TypeOK, Away
  <2>8. \A v \in Thread : PlaceOK(v)' /\ HandsOK(v)'
    BY <1>1, <1>2, <1>4, <2>1 DEF PlaceOK, HandsOK, TypeOK
  <2>9. \A v \in Thread : MakingOK(v)'
    BY <1>2, <1>3 DEF MakingOK
  <2>10. QED
    BY <2>4, <2>5, <2>6, <2>7, <2>8, <2>9 DEF IInv
<1>7. CASE queue # None
  <2>1. /\ nqueue' = [nqueue EXCEPT ![t] = "this"]
        /\ pc' = [pc EXCEPT ![t] = "add"] /\ UNCHANGED <<prop, pspecs>>
    BY <1>7 DEF FreezeThere, Goto
  <2> DEFINE q == [queue EXCEPT !.freeze_count = @ + 1]
  <2>2. queue' = q
    BY <1>7 DEF FreezeThere
  <2>3. queue \in NQueue
    BY <1>1, <1>7 DEF TypeOK, NQueue
  <2>4. q \in NQueue /\ q.freeze_count = queue.freeze_count + 1 /\ q.pspecs = queue.pspecs
    BY <2>3, OneMore
  <2> HIDE DEF q
  <2>5. TypeOK'
    BY <1>1, <1>2, <2>1, <2>2, <2>4 DEF TypeOK, NQueue
  <2>6. Calling' = Calling /\ Emitting' = Emitting /\ Dropping' = Dropping
    BY <1>1, <1>2, <2>1 DEF Calling, Emitting, Dropping, TypeOK
  <2>7. CountsExact' /\ IsFiniteSet(References') /\ AtEnd' = AtEnd
    BY <1>2, <1>4, <1>7, <2>1, <2>2, <2>4, <2>5, <2>6, Froze, SameCounts
  <2>8. NothingGone'
    BY <1>1, <1>2, <1>3, <2>1 DEF NothingGone, TypeOK
  <2>9. queue' # None
    BY <2>2, <2>4, QueueThere DEF NQueue
  <2>10. NotLost'
    BY <1>1, <1>2, <2>1, <2>2, <2>4, <2>7, <2>9 DEF NotLost
  <2>11. EndOK'
    BY <1>1, <1>2, <1>3, <2>1, <2>7, ObjectAssumption DEF EndOK, AtEnd, TypeOK, Away
  <2>12. \A v \in Thread : PlaceOK(v)' /\ HandsOK(v)'
    BY <1>1, <1>2, <1>4, <1>5, <2>1 DEF PlaceOK, HandsOK, TypeOK
  <2>13. \A v \in Thread : MakingOK(v)'
    BY <1>2, <1>3 DEF MakingOK
  <2>14. QED
    BY <2>7, <2>8, <2>10, <2>11, <2>12, <2>13 DEF IInv
<1>8. QED
  BY <1>6, <1>7

LEMMA SetPropertyStep ==
  ASSUME IInv, NEW t \in Thread, NEW p \in Prop, SetProperty(t, p)
  PROVE  IInv'
<1> USE DEF counts, end, rounds
<1>1. /\ TypeOK /\ EndOK /\ NothingGone /\ NotLost
      /\ \A v \in Thread : PlaceOK(v) /\ HandsOK(v) /\ MakingOK(v)
  BY Facts
<1>2. /\ pc[t] = "values" /\ pc' = [pc EXCEPT ![t] = "add"]
      /\ unseen' = unseen \cup {p} /\ prop' = [prop EXCEPT ![t] = p]
      /\ UNCHANGED <<ref_count, floating, held, freed, disposer, emitting, state, queue,
                     call, nqueue, pspecs>>
  BY DEF SetProperty, Goto
<1>3. /\ ~freed /\ (AtEnd => disposer = t)
      /\ \A v \in Thread \ {t} : call[v] \notin {"new", "made"}
  BY <1>2, OneActs DEF Acting
<1>4. call[t] \in {"made", "set"} /\ prop[t] = None /\ prop[t] \notin unseen /\ p # None
  BY <1>1, <1>2, ObjectAssumption DEF PlaceOK, HandsOK, TypeOK
<1>5. TypeOK'
  BY <1>1, <1>2 DEF TypeOK
<1>6. Calling' = Calling /\ Emitting' = Emitting /\ Dropping' = Dropping /\ Freezes' = Freezes
  BY <1>1, <1>2 DEF Calling, Emitting, Dropping, Freezes, Freezing, Making, TypeOK
<1>7. CountsExact' /\ IsFiniteSet(References') /\ AtEnd' = AtEnd
  BY <1>2, <1>5, <1>6, SameCounts, Facts
<1>8. NothingGone'
  BY <1>1, <1>2, <1>3 DEF NothingGone
<1>9. NotLost'
  <2>1. prop'[t] = p /\ \A v \in Thread \ {t} : prop'[v] = prop[v]
    BY <1>1, <1>2 DEF TypeOK
  <2>2. QED
    BY <1>1, <1>2, <1>4, <1>7, <2>1 DEF NotLost
<1>10. EndOK'
  BY <1>1, <1>2, <1>3, <1>7 DEF EndOK, TypeOK, Away
<1>11. \A v \in Thread : PlaceOK(v)' /\ HandsOK(v)'
  BY <1>1, <1>2, <1>4 DEF PlaceOK, HandsOK, TypeOK
<1>12. \A v \in Thread : MakingOK(v)'
  BY <1>1, <1>2, <1>3 DEF MakingOK, TypeOK, Away
<1>13. QED
  BY <1>7, <1>8, <1>9, <1>10, <1>11, <1>12 DEF IInv

LEMMA AddStep ==
  ASSUME IInv, NEW t \in Thread, Add(t)
  PROVE  IInv'
<1> USE DEF counts, end, rounds
<1>1. /\ TypeOK /\ EndOK /\ NothingGone /\ NotLost
      /\ \A v \in Thread : PlaceOK(v) /\ HandsOK(v) /\ MakingOK(v)
  BY Facts
<1>2. /\ pc[t] = "add" /\ prop' = [prop EXCEPT ![t] = None]
      /\ UNCHANGED <<ref_count, floating, held, freed, disposer, emitting, state, unseen,
                     call, nqueue, pspecs>>
  BY DEF Add
<1>3. /\ ~freed /\ (AtEnd => disposer = t)
      /\ \A v \in Thread \ {t} : call[v] \notin {"new", "made"}
  BY <1>2, OneActs DEF Acting
<1>4. /\ call[t] \in {"made", "set", "notify"} /\ nqueue[t] = "this"
      /\ prop[t] \in Prop /\ pspecs[t] = {}
  BY <1>1, <1>2 DEF PlaceOK, HandsOK, TypeOK
<1>5. PICK label \in {"thaw", "values"} :
        /\ label = "thaw" <=> call[t] = "notify"
        /\ pc' = [pc EXCEPT ![t] = label]
  BY DEF Add, Goto
\* The queue that t has frozen is there.
<1>6. ~AtEnd => queue # None
  <2>1. t \in Freezing /\ Freezing \in SUBSET Thread
    BY <1>4 DEF Freezing
  <2>2. Cardinality(Freezing) > 0 /\ IsFiniteSet(References)
    BY <2>1, Left, Facts
  <2>3. Freezes > 0
    BY <2>2, Numbers DEF Freezes
  <2>4. QED
    BY <2>3, Facts
<1>7. /\ queue = None => queue' = None
      /\ queue # None => /\ queue' \in NQueue /\ queue'.freeze_count = queue.freeze_count
                         /\ queue'.pspecs = queue.pspecs \cup {prop[t]}
  <2>1. queue # None => queue \in NQueue
    BY <1>1 DEF TypeOK, NQueue
  <2>2. /\ queue = None => queue' = None
        /\ queue # None => queue' = [queue EXCEPT !.pspecs = @ \cup {prop[t]}]
    BY DEF Add
  <2>3. QED
    BY <1>4, <2>1, <2>2 DEF NQueue
<1>8. queue' = None <=> queue = None
  BY <1>7, QueueThere DEF NQueue
<1>9. TypeOK'
  BY <1>1, <1>2, <1>5, <1>7 DEF TypeOK, NQueue
<1>10. Calling' = Calling /\ Emitting' = Emitting /\ Dropping' = Dropping /\ Freezes' = Freezes
  BY <1>1, <1>2, <1>5 DEF Calling, Emitting, Dropping, Freezes, Freezing, Making, TypeOK
<1>11. CountsExact' /\ IsFiniteSet(References') /\ AtEnd' = AtEnd
  BY <1>2, <1>7, <1>8, <1>9, <1>10, SameCounts, Facts
<1>12. NothingGone'
  BY <1>1, <1>2, <1>3 DEF NothingGone
<1>13. NotLost'
  <2>1. prop'[t] = None /\ \A v \in Thread \ {t} : prop'[v] = prop[v]
    BY <1>1, <1>2 DEF TypeOK
  <2>2. QED
    BY <1>1, <1>2, <1>6, <1>7, <1>8, <1>11, <2>1 DEF NotLost
<1>14. EndOK'
  BY <1>1, <1>2, <1>3, <1>5, <1>8, <1>11 DEF EndOK, TypeOK, Away
<1>15. \A v \in Thread : PlaceOK(v)' /\ HandsOK(v)'
  BY <1>1, <1>2, <1>4, <1>5 DEF PlaceOK, HandsOK, TypeOK
<1>16. \A v \in Thread : MakingOK(v)'
  BY <1>1, <1>2, <1>3, <1>5 DEF MakingOK, TypeOK, Away
<1>17. QED
  BY <1>11, <1>12, <1>13, <1>14, <1>15, <1>16 DEF IInv

LEMMA ValuesStep ==
  ASSUME IInv, NEW t \in Thread, Values(t)
  PROVE  IInv'
<1> USE DEF counts, end, rounds
<1>1. /\ TypeOK /\ EndOK /\ NothingGone /\ NotLost
      /\ \A v \in Thread : PlaceOK(v) /\ HandsOK(v) /\ MakingOK(v)
  BY Facts
<1>2. /\ pc[t] = "values" /\ pc' = [pc EXCEPT ![t] = "thaw"]
      /\ UNCHANGED <<ref_count, floating, held, freed, disposer, emitting, state, queue,
                     unseen, call, prop, nqueue, pspecs>>
  BY DEF Values, Goto
<1>3. /\ ~freed /\ (AtEnd => disposer = t)
      /\ \A v \in Thread \ {t} : call[v] \notin {"new", "made"}
  BY <1>2, OneActs DEF Acting
<1>4. call[t] \in {"made", "set"}
  BY <1>1, <1>2 DEF PlaceOK, TypeOK
<1>5. TypeOK'
  BY <1>1, <1>2 DEF TypeOK
<1>6. Calling' = Calling /\ Emitting' = Emitting /\ Dropping' = Dropping /\ Freezes' = Freezes
  BY <1>1, <1>2 DEF Calling, Emitting, Dropping, Freezes, Freezing, Making, TypeOK
<1>7. CountsExact' /\ IsFiniteSet(References') /\ AtEnd' = AtEnd
  BY <1>2, <1>5, <1>6, SameCounts, Facts
<1>8. NothingGone' /\ NotLost'
  BY <1>1, <1>2, <1>3, <1>7 DEF NothingGone, NotLost
<1>9. EndOK'
  BY <1>1, <1>2, <1>3, <1>7 DEF EndOK, TypeOK, Away
<1>10. \A v \in Thread : PlaceOK(v)' /\ HandsOK(v)'
  BY <1>1, <1>2, <1>4 DEF PlaceOK, HandsOK, TypeOK
<1>11. \A v \in Thread : MakingOK(v)'
  BY <1>1, <1>2, <1>3 DEF MakingOK, TypeOK, Away
<1>12. QED
  BY <1>7, <1>8, <1>9, <1>10, <1>11 DEF IInv

LEMMA ThawStep ==
  ASSUME IInv, NEW t \in Thread, Thaw(t)
  PROVE  IInv'
<1> USE DEF counts, end, rounds
<1>1. /\ TypeOK /\ EndOK /\ NothingGone /\ NotLost
      /\ IsFiniteSet(References)
      /\ \A v \in Thread : PlaceOK(v) /\ HandsOK(v) /\ MakingOK(v)
  BY Facts
<1>2. /\ pc[t] = "thaw" /\ queue # None
      /\ call' = [call EXCEPT ![t] = IF @ = "new" THEN "made" ELSE @]
      /\ UNCHANGED <<ref_count, floating, held, freed, disposer, emitting, state, unseen, prop>>
  BY DEF Thaw
<1>3. /\ ~freed /\ (AtEnd => disposer = t)
      /\ \A v \in Thread \ {t} : call[v] \notin {"new", "made"} /\ (AtEnd => Away(v))
  BY <1>2, OneActs DEF Acting
<1>4. call[t] \in {"new", "made", "set", "notify"} /\ nqueue[t] = "this" /\ pspecs[t] = {}
      /\ prop[t] = None
  BY <1>1, <1>2 DEF PlaceOK, HandsOK, TypeOK
<1>5. PICK label \in {"values", "emit"} :
        /\ label = "values" <=> call[t] = "new"
        /\ pc' = [pc EXCEPT ![t] = label]
  BY DEF Thaw, Goto
<1>6. queue \in NQueue
  BY <1>1, <1>2 DEF TypeOK, NQueue
<1>7. /\ AtEnd => ref_count = 0 /\ call[t] # "new"
      /\ ~AtEnd => ref_count > 0 /\ queue.freeze_count = Freezes
  <2>1. AtEnd => ref_count = 0 /\ call[t] # "new"
    BY <1>1, Facts DEF EndOK, MakingOK
  <2>2. ~AtEnd => held[t] > 0 \/ t \in Calling \/ floating
    BY <1>1, <1>4 DEF Calling, MakingOK
  <2>3. ~AtEnd => ref_count > 0
    BY <2>2, Counted
  <2>4. ~AtEnd => queue.freeze_count = Freezes
    BY <1>2, Facts
  <2>5. QED
    BY <2>1, <2>3, <2>4
<1>8. /\ Calling' = Calling /\ Emitting' = Emitting /\ Dropping' = Dropping
      /\ Making' = Making \ {t} /\ (t \in Making <=> call[t] = "new")
      /\ t \in Freezing /\ Freezing \in SUBSET Thread /\ Making \in SUBSET Thread
  BY <1>1, <1>2, <1>4, <1>5 DEF Calling, Emitting, Dropping, Making, Freezing, TypeOK
<1>9. call' \in [Thread -> {"no", "new", "made", "sink", "set", "notify"}]
  BY <1>1, <1>2 DEF TypeOK
\* The last thaw: what was in the queue is in the hands of t.
<1>10. CASE ref_count > 0 /\ queue.freeze_count = 1
  <2>1. ~AtEnd /\ Freezes = 1
    BY <1>7, <1>10
  <2>2. Cardinality(Freezing) = 1 /\ Cardinality(Making) = 0
    <3>1. Cardinality(Freezing) > 0
      BY <1>8, Left
    <3>2. Cardinality(Freezing) \in Nat /\ Cardinality(Making) \in Nat
      BY <1>1, Numbers
    <3>3. QED
      BY <2>1, <3>1, <3>2 DEF Freezes
  <2>3. Freezing = {t} /\ Making = {}
    BY <1>8, <2>2, Alone, Nobody
  <2>4. Unqueue(t) /\ pspecs' = [pspecs EXCEPT ![t] = queue.pspecs] /\ Kept(t) = "no"
    BY <1>8, <1>10, <2>3 DEF Thaw, Kept
  <2>5. queue' = None /\ nqueue' = [u \in Thread |-> "no"]
    <3>1. \A u \in Thread : nqueue[u] = "no" \/ u = t
      BY <1>1, <2>3 DEF Freezing, NothingGone, TypeOK
    <3>2. QED
      BY <2>4, <3>1 DEF Unqueue
  <2>6. TypeOK'
    BY <1>1, <1>2, <1>5, <1>6, <1>9, <2>4, <2>5 DEF TypeOK, NQueue
  <2>7. Freezing' = {} /\ Making' = {}
    BY <1>8, <2>3, <2>5 DEF Freezing
  <2>8. Freezes' = 0
    BY <2>7, FS_EmptySet DEF Freezes
  <2>9. CountsExact' /\ IsFiniteSet(References') /\ AtEnd' = AtEnd
    BY <1>2, <1>8, <2>5, <2>6, <2>8, SameCounts
  <2>10. NothingGone'
    BY <1>1, <1>2, <1>3, <2>5 DEF NothingGone
  <2>11. NotLost'
    <3>1. pspecs'[t] = queue.pspecs /\ \A v \in Thread \ {t} : pspecs'[v] = pspecs[v]
      BY <1>1, <2>4 DEF TypeOK
    <3>2. QED
      BY <1>1, <1>2, <1>4, <2>9, <3>1 DEF NotLost
  <2>12. EndOK'
    BY <1>1, <1>2, <1>5, <2>1, <2>5, <2>9 DEF EndOK, TypeOK
  <2>13. \A v \in Thread : PlaceOK(v)' /\ HandsOK(v)'
    <3>1. call[t] # "new" /\ \A v \in Thread \ {t} : nqueue[v] # "this"
      BY <1>8, <2>3 DEF Freezing
    <3>2. QED
      BY <1>1, <1>2, <1>4, <1>5, <2>4, <2>5, <3>1 DEF PlaceOK, HandsOK, TypeOK
  <2>14. \A v \in Thread : MakingOK(v)'
    BY <1>1, <1>2, <1>3, <1>5, <2>4, <2>5 DEF MakingOK, TypeOK, Away
  <2>15. QED
    BY <2>9, <2>10, <2>11, <2>12, <2>13, <2>14 DEF IInv
<1>11. CASE ~(ref_count > 0 /\ queue.freeze_count = 1)
  <2>1. nqueue' = [nqueue EXCEPT ![t] = Kept(t)] /\ pspecs' = pspecs
    BY <1>11 DEF Thaw
  <2>2. /\ ref_count > 0 => queue' = [queue EXCEPT !.freeze_count = @ - 1]
        /\ ~(ref_count > 0) => queue' = queue
    BY <1>11 DEF Thaw
  <2>3. /\ queue' \in NQueue /\ queue'.pspecs = queue.pspecs
        /\ ref_count > 0 => queue'.freeze_count = queue.freeze_count - 1
    BY <1>6, <1>11, <2>2 DEF NQueue
  <2>4. queue' # None
    BY <2>3, QueueThere DEF NQueue
  <2>5. Kept(t) = IF call[t] = "new" THEN "this" ELSE "no"
    BY DEF Kept
  <2>6. TypeOK'
    BY <1>1, <1>2, <1>5, <1>9, <2>1, <2>3, <2>5 DEF TypeOK, NQueue
  <2>7. Freezes' = Freezes - 1
    <3>1. CASE call[t] = "new"
      <4>1. Freezing' = Freezing /\ t \in Making
        BY <1>1, <1>4, <1>8, <2>1, <2>5, <3>1 DEF Freezing, TypeOK
      <4>2. Cardinality(Making') = Cardinality(Making) - 1
        BY <1>8, <4>1, Left
      <4>3. QED
        BY <1>1, <4>1, <4>2, Numbers DEF Freezes
    <3>2. CASE call[t] # "new"
      <4>1. Freezing' = Freezing \ {t} /\ Making' = Making
        BY <1>1, <1>8, <2>1, <2>5, <3>2 DEF Freezing, TypeOK
      <4>2. Cardinality(Freezing') = Cardinality(Freezing) - 1
        BY <1>8, <4>1, Left
      <4>3. QED
        BY <1>1, <4>1, <4>2, Numbers DEF Freezes
    <3>3. QED
      BY <3>1, <3>2
  <2>8. CountsExact' /\ IsFiniteSet(References') /\ AtEnd' = AtEnd
    BY <1>2, <1>7, <1>8, <2>3, <2>4, <2>6, <2>7, SameCounts
  <2>9. NothingGone'
    BY <1>1, <1>2, <1>3, <2>1, <2>5 DEF NothingGone, TypeOK
  <2>10. NotLost'
    BY <1>1, <1>2, <2>1, <2>3, <2>4, <2>8 DEF NotLost
  <2>11. EndOK'
    <3>1. \A v \in Thread \ {t} : Away(v) => Away(v)'
      BY <1>1, <1>2, <1>5, <2>1 DEF Away, TypeOK
    <3>2. \A v \in Thread : pc'[v] # "delete"
      BY <1>1, <1>2, <1>3, <1>5, ObjectAssumption DEF EndOK, AtEnd, TypeOK
    <3>3. QED
      BY <1>1, <1>2, <1>3, <1>5, <2>8, <3>1, <3>2 DEF EndOK, TypeOK
  <2>12. \A v \in Thread : PlaceOK(v)' /\ HandsOK(v)'
    BY <1>1, <1>2, <1>4, <1>5, <2>1, <2>5 DEF PlaceOK, HandsOK, TypeOK
  <2>13. \A v \in Thread : MakingOK(v)'
    BY <1>1, <1>2, <1>3, <1>5, <2>1 DEF MakingOK, TypeOK, Away
  <2>14. QED
    BY <2>8, <2>9, <2>10, <2>11, <2>12, <2>13 DEF IInv
<1>12. QED
  BY <1>10, <1>11

-----------------------------------------------------------------------------
(* Emissions of "notify" *)

\* A step of a thread in an emission that counts nothing.
LEMMA Looked ==
  ASSUME IInv, NotLost', NEW t \in Thread, pc[t] = "emit",
         UNCHANGED <<counts, end, queue, pc, call, prop, nqueue, emitting>>,
         unseen' \subseteq unseen,
         pspecs' \in [Thread -> SUBSET Prop], \A v \in Thread : pspecs'[v] \subseteq pspecs[v],
         state' \in [Thread -> {"run", "seen", "restart"}],
         \A v \in Thread : emitting[v] = None => state'[v] = state[v]
  PROVE  IInv'
<1> USE DEF counts, end
<1>1. /\ TypeOK /\ EndOK /\ NothingGone
      /\ \A v \in Thread : PlaceOK(v) /\ HandsOK(v) /\ MakingOK(v)
  BY Facts
<1>2. TypeOK'
  BY <1>1 DEF TypeOK
<1>3. Calling' = Calling /\ Emitting' = Emitting /\ Dropping' = Dropping /\ Freezes' = Freezes
  BY DEF Calling, Emitting, Dropping, Freezes, Freezing, Making
<1>4. CountsExact' /\ IsFiniteSet(References') /\ AtEnd' = AtEnd
  BY <1>2, <1>3, SameCounts, Facts
<1>5. NothingGone'
  BY <1>1 DEF NothingGone
<1>6. \A v \in Thread : Away(v) => Away(v)'
  BY <1>1 DEF Away
<1>7. EndOK'
  BY <1>1, <1>4, <1>6 DEF EndOK
<1>8. \A v \in Thread : PlaceOK(v)' /\ HandsOK(v)'
  BY <1>1 DEF PlaceOK, HandsOK
<1>9. \A v \in Thread : MakingOK(v)'
  BY <1>1, <1>6 DEF MakingOK
<1>10. QED
  BY <1>4, <1>5, <1>7, <1>8, <1>9 DEF IInv

\* What was in the hands of t is what the emission under way was asked for.
LEMMA EmitAgainStep ==
  ASSUME IInv, NEW t \in Thread, NEW p \in Prop, EmitAgain(t, p)
  PROVE  IInv'
<1>1. TypeOK /\ NotLost /\ p # None
  BY Facts, ObjectAssumption
<1>2. /\ pc[t] = "emit" /\ pspecs' = [pspecs EXCEPT ![t] = @ \ {p}]
      /\ state' = [u \in Thread |-> IF emitting[u] = p THEN "restart" ELSE state[u]]
      /\ UNCHANGED <<counts, end, queue, unseen, pc, call, prop, nqueue, emitting>>
  BY DEF EmitAgain
<1>3. PICK u \in Thread : emitting[u] = p
  BY DEF EmitAgain
<1>4. /\ pspecs' \in [Thread -> SUBSET Prop] /\ \A v \in Thread : pspecs'[v] \subseteq pspecs[v]
      /\ \A v \in Thread, q \in Prop \ {p} : q \in pspecs[v] => q \in pspecs'[v]
      /\ state' \in [Thread -> {"run", "seen", "restart"}]
      /\ \A v \in Thread : emitting[v] = None => state'[v] = state[v]
      /\ \A v \in Thread : state'[v] = "seen" => state[v] = "seen"
      /\ state'[u] # "seen"
  BY <1>1, <1>2, <1>3 DEF TypeOK
<1>5. NotLost'
  <2>1. SUFFICES ASSUME ~AtEnd, NEW q \in unseen
                 PROVE  \/ queue # None /\ q \in queue.pspecs
                        \/ \E v \in Thread :
                             \/ q = prop[v] \/ q \in pspecs'[v]
                             \/ q = emitting[v] /\ state'[v] # "seen"
    BY <1>2 DEF NotLost, AtEnd, end
  <2>2. CASE q = p
    BY <1>3, <1>4, <2>2
  <2>3. CASE q # p
    <3>1. q \in Prop
      BY <1>1, <2>1 DEF TypeOK
    <3>2. CASE queue # None /\ q \in queue.pspecs
      BY <3>2
    <3>3. CASE \E v \in Thread :
                 \/ q = prop[v] \/ q \in pspecs[v]
                 \/ q = emitting[v] /\ state[v] # "seen"
      BY <1>4, <2>3, <3>1, <3>3
    <3>4. QED
      BY <1>1, <2>1, <3>2, <3>3 DEF NotLost
  <2>4. QED
    BY <2>2, <2>3
<1>6. QED
  BY <1>2, <1>4, <1>5, Looked

LEMMA RestartStep ==
  ASSUME IInv, NEW t \in Thread, Restart(t)
  PROVE  IInv'
<1>1. TypeOK /\ NotLost /\ HandsOK(t)
  BY Facts
<1>2. /\ emitting[t] # None /\ state[t] = "restart" /\ state' = [state EXCEPT ![t] = "run"]
      /\ UNCHANGED <<counts, end, queue, unseen, pc, call, prop, nqueue, pspecs, emitting>>
  BY DEF Restart, local
<1>3. /\ pspecs' \in [Thread -> SUBSET Prop] /\ \A v \in Thread : pspecs'[v] \subseteq pspecs[v]
      /\ state' \in [Thread -> {"run", "seen", "restart"}]
      /\ \A v \in Thread : emitting[v] = None => state'[v] = state[v]
      /\ \A v \in Thread : state'[v] = "seen" => state[v] = "seen"
  BY <1>1, <1>2 DEF TypeOK
<1>4. NotLost'
  BY <1>1, <1>2, <1>3 DEF NotLost, AtEnd, end
<1>5. pc[t] = "emit"
  BY <1>1, <1>2 DEF HandsOK
<1>6. QED
  BY <1>2, <1>3, <1>4, <1>5, Looked

LEMMA EmitStep ==
  ASSUME IInv, NEW t \in Thread, NEW p \in Prop, Emit(t, p)
  PROVE  IInv'
<1> USE DEF end
<1>1. /\ TypeOK /\ EndOK /\ NothingGone /\ NotLost
      /\ \A v \in Thread : PlaceOK(v) /\ HandsOK(v) /\ MakingOK(v)
  BY Facts
<1>2. /\ pc[t] = "emit" /\ emitting[t] = None /\ pspecs' = [pspecs EXCEPT ![t] = @ \ {p}]
      /\ Ref /\ emitting' = [emitting EXCEPT ![t] = p]
      /\ UNCHANGED <<floating, held, freed, disposer, queue, unseen,
                     pc, call, prop, nqueue, state>>
  BY DEF Emit
<1>3. ~freed /\ (AtEnd => disposer = t) /\ AtEnd' = AtEnd
  BY <1>2, OneActs DEF Acting, AtEnd
<1>4. call[t] \in {"made", "set", "notify"} /\ state[t] = "run" /\ p # None
  BY <1>1, <1>2, ObjectAssumption DEF PlaceOK, HandsOK, TypeOK
<1>5. ref_count \in Nat /\ (~AtEnd => ref_count > 0)
  <2>1. held[t] > 0 \/ t \in Calling \/ floating
    BY <1>1, <1>4 DEF Calling, MakingOK
  <2>2. QED
    BY <1>1, <2>1, Counted DEF TypeOK
<1>6. TypeOK'
  BY <1>1, <1>2, <1>5 DEF TypeOK, Ref
<1>7. /\ Calling' = Calling /\ Dropping' = Dropping /\ Freezes' = Freezes
      /\ Emitting' = Emitting \cup {t} /\ t \notin Emitting /\ References' = References
  BY <1>1, <1>2, <1>4 DEF Calling, Emitting, Dropping, Freezes, Freezing, Making,
     References, TypeOK
<1>8. Cardinality(Emitting') = Cardinality(Emitting) + 1
  BY <1>7, Joined DEF Emitting
<1>9. Claims' = Claims + 1
  BY <1>1, <1>2, <1>7, <1>8, Numbers, Facts DEF Claims, Held
<1>10. CountsExact' /\ IsFiniteSet(References')
  BY <1>2, <1>3, <1>5, <1>6, <1>7, <1>9, Facts DEF CountsExact, Ref
<1>11. NothingGone'
  BY <1>1, <1>2 DEF NothingGone
<1>12. NotLost'
  <2>1. /\ pspecs'[t] = pspecs[t] \ {p} /\ emitting'[t] = p
        /\ \A v \in Thread \ {t} : pspecs'[v] = pspecs[v] /\ emitting'[v] = emitting[v]
    BY <1>1, <1>2 DEF TypeOK
  <2>2. SUFFICES ASSUME ~AtEnd, NEW q \in unseen
                 PROVE  \/ queue # None /\ q \in queue.pspecs
                        \/ \E v \in Thread :
                             \/ q = prop[v] \/ q \in pspecs'[v]
                             \/ q = emitting'[v] /\ state[v] # "seen"
    BY <1>2, <1>3 DEF NotLost
  <2>3. CASE q = p
    BY <1>4, <2>1, <2>3
  <2>4. CASE q # p
    <3>1. q # None
      BY <1>1, <2>2, ObjectAssumption DEF TypeOK
    <3>2. CASE queue # None /\ q \in queue.pspecs
      BY <3>2
    <3>3. CASE \E v \in Thread :
                 \/ q = prop[v] \/ q \in pspecs[v]
                 \/ q = emitting[v] /\ state[v] # "seen"
      <4>1. PICK v \in Thread : \/ q = prop[v] \/ q \in pspecs[v]
                                \/ q = emitting[v] /\ state[v] # "seen"
        BY <3>3
      <4>2. CASE v = t
        BY <1>2, <2>1, <2>4, <3>1, <4>1, <4>2
      <4>3. CASE v # t
        BY <2>1, <4>1, <4>3
      <4>4. QED
        BY <4>2, <4>3
    <3>4. QED
      BY <1>1, <2>2, <3>2, <3>3 DEF NotLost
  <2>5. QED
    BY <2>3, <2>4
<1>13. \A v \in Thread \ {t} : Away(v) => Away(v)'
  BY <1>1, <1>2 DEF Away, TypeOK
<1>14. EndOK'
  BY <1>1, <1>2, <1>3, <1>13 DEF EndOK
<1>15. \A v \in Thread : PlaceOK(v)' /\ HandsOK(v)'
  BY <1>1, <1>2, <1>4 DEF PlaceOK, HandsOK, TypeOK
<1>16. \A v \in Thread : MakingOK(v)'
  <2>1. \A v \in Thread : call[v] \in {"new", "made"} => v = t
    BY <1>2, OneActs DEF Acting
  <2>2. QED
    BY <1>1, <1>2, <1>13, <2>1 DEF MakingOK
<1>17. QED
  BY <1>10, <1>11, <1>12, <1>14, <1>15, <1>16 DEF IInv

\* An emission is in a call that has a reference of its own, or in x_object_newv:
\* what a handler gives up, and what the emission gives back, is never the last.
LEMMA NotTheLast ==
  ASSUME IInv, NEW t \in Thread, emitting[t] # None, ~AtEnd
  PROVE  ref_count \in Nat /\ ref_count > 1 /\ (t \in Calling \/ call[t] = "made")
<1> DEFINE h == Held
           c == Cardinality(Calling)
           e == Cardinality(Emitting)
           d == Cardinality(Dropping)
<1>1. TypeOK /\ PlaceOK(t) /\ HandsOK(t) /\ MakingOK(t) /\ IsFiniteSet(References)
  BY Facts
<1>2. call[t] \in {"made", "set", "notify"}
  BY <1>1 DEF PlaceOK, HandsOK, TypeOK
<1>3. ref_count = h + c + e + d + (IF floating THEN 1 ELSE 0)
  BY Facts DEF Claims
<1>4. h \in Nat /\ c \in Nat /\ d \in Nat /\ e \in Nat
  BY <1>1, Numbers
<1>5. t \in Emitting /\ e > 0
  BY Left DEF Emitting
<1>6. /\ held[t] > 0 => h > 0
      /\ t \in Calling => c > 0
  BY Holds, Left DEF Calling
<1>7. t \in Calling \/ (call[t] = "made" /\ (floating \/ held[t] > 0))
  BY <1>1, <1>2 DEF Calling, MakingOK
<1> HIDE DEF h, c, d, e
<1>8. QED
  BY <1>3, <1>4, <1>5, <1>6, <1>7

LEMMA HandleStep ==
  ASSUME IInv, NEW t \in Thread, Handle(t)
  PROVE  IInv'
<1>1. /\ TypeOK /\ EndOK /\ NothingGone /\ NotLost /\ IsFiniteSet(References)
      /\ \A v \in Thread : PlaceOK(v) /\ HandsOK(v) /\ MakingOK(v)
  BY Facts
<1>2. /\ emitting[t] # None /\ pc[t] = "emit" /\ unseen' = unseen \ {emitting[t]}
      /\ state' = [state EXCEPT ![t] = IF @ = "run" THEN "seen" ELSE @]
      /\ UNCHANGED <<floating, freed, queue, call, prop, nqueue, pspecs, emitting>>
  BY <1>1 DEF Handle, HandsOK
<1>3. /\ state' \in [Thread -> {"run", "seen", "restart"}]
      /\ \A v \in Thread \ {t} : state'[v] = state[v]
  BY <1>1, <1>2 DEF TypeOK
<1>4. AtEnd' = AtEnd => NotLost'
  BY <1>1, <1>2, <1>3 DEF NotLost
<1>5. CASE UNCHANGED <<pc, ref_count, held, disposer>>
  <2>1. NotLost'
    BY <1>2, <1>4, <1>5 DEF AtEnd
  <2>2. QED
    BY <1>1, <1>2, <1>3, <1>5, <2>1, Looked DEF TypeOK, counts, end
<1>6. CASE /\ call[t] # "made" /\ held[t] > 0 /\ Unref(t, "emit")
           /\ held' = [held EXCEPT ![t] = @ - 1]
  <2>1. ~AtEnd
    BY <1>1, <1>6 DEF EndOK
  <2>2. ref_count \in Nat /\ ref_count > 1 /\ t \in Calling
    BY <1>2, <1>6, <2>1, NotTheLast
  <2>3. /\ ref_count' = ref_count - 1 /\ ref_count' \in Nat
        /\ UNCHANGED <<pc, disposer>>
    BY <1>1, <1>2, <1>6, <2>2 DEF Unref, Goto, TypeOK
  <2>4. AtEnd' = AtEnd /\ ~AtEnd'
    BY <1>2, <2>1, <2>3 DEF AtEnd
  <2>5. TypeOK'
    BY <1>1, <1>2, <1>3, <1>6, <2>3 DEF TypeOK
  <2>6. IsFiniteSet(References') /\ Held' = Held - 1
    BY <1>6, GaveUp
  <2>7. Calling' = Calling /\ Emitting' = Emitting /\ Dropping' = Dropping /\ Freezes' = Freezes
    BY <1>2, <2>3 DEF Calling, Emitting, Dropping, Freezes, Freezing, Making
  <2>8. Claims' = Claims - 1
    BY <1>1, <1>2, <2>6, <2>7, Numbers DEF Claims
  <2>9. CountsExact'
    BY <1>2, <2>1, <2>3, <2>4, <2>5, <2>7, <2>8, Facts DEF CountsExact
  <2>10. NothingGone'
    BY <1>1, <1>2, <2>1 DEF NothingGone, AtEnd
  <2>11. EndOK'
    BY <1>1, <1>2, <2>3, <2>4 DEF EndOK
  <2>12. \A v \in Thread : PlaceOK(v)' /\ HandsOK(v)'
    <3>1. call[t] # "sink"
      BY <2>2 DEF Calling
    <3>2. QED
      BY <1>1, <1>2, <1>3, <1>6, <2>3, <3>1 DEF PlaceOK, HandsOK, TypeOK
  <2>13. \A v \in Thread : MakingOK(v)'
    <3>1. \A v \in Thread : call[v] \notin {"new", "made"}
      BY <1>2, <2>2, OneActs DEF Acting, Calling
    <3>2. QED
      BY <1>2, <3>1 DEF MakingOK
  <2>14. QED
    BY <1>4, <2>4, <2>6, <2>9, <2>10, <2>11, <2>12, <2>13 DEF IInv
<1>7. QED
  BY <1>5, <1>6 DEF Handle

LEMMA EmittedStep ==
  ASSUME IInv, NEW t \in Thread, Emitted(t)
  PROVE  IInv'
<1>1. /\ TypeOK /\ EndOK /\ NothingGone /\ NotLost /\ IsFiniteSet(References)
      /\ \A v \in Thread : PlaceOK(v) /\ HandsOK(v) /\ MakingOK(v)
  BY Facts
<1>2. /\ emitting[t] # None /\ state[t] = "seen" /\ pc[t] = "emit" /\ Unref(t, "emit")
      /\ emitting' = [emitting EXCEPT ![t] = None] /\ state' = [state EXCEPT ![t] = "run"]
      /\ UNCHANGED <<floating, held, freed, queue, unseen, call, prop, nqueue, pspecs>>
  BY <1>1 DEF Emitted, HandsOK
<1>3. /\ ~freed /\ (AtEnd => disposer = t) /\ (AtEnd => ref_count = 0)
      /\ \A v \in Thread : call[v] \in {"new", "made"} => v = t
  BY <1>2, OneActs, Facts DEF Acting
<1>4. ~AtEnd => ref_count > 1
  BY <1>2, NotTheLast
<1>5. /\ UNCHANGED <<pc, disposer>> /\ ref_count' \in Nat
      /\ ref_count' = IF AtEnd THEN ref_count ELSE ref_count - 1
  BY <1>1, <1>2, <1>3, <1>4 DEF Unref, Goto, TypeOK
<1>6. TypeOK' /\ AtEnd' = AtEnd
  BY <1>1, <1>2, <1>5 DEF TypeOK, AtEnd
<1>7. /\ Calling' = Calling /\ Dropping' = Dropping /\ Freezes' = Freezes
      /\ Emitting' = Emitting \ {t} /\ t \in Emitting /\ References' = References
  BY <1>1, <1>2, <1>5 DEF Calling, Emitting, Dropping, Freezes, Freezing, Making,
     References, TypeOK
<1>8. Cardinality(Emitting') = Cardinality(Emitting) - 1
  BY <1>7, Left DEF Emitting
<1>9. Claims' = Claims - 1
  BY <1>1, <1>2, <1>7, <1>8, Numbers DEF Claims, Held
<1>10. CountsExact' /\ IsFiniteSet(References')
  BY <1>1, <1>2, <1>5, <1>6, <1>7, <1>9, Facts DEF CountsExact
<1>11. NothingGone'
  BY <1>1, <1>2 DEF NothingGone
<1>12. NotLost'
  <2>1. /\ \A v \in Thread \ {t} : emitting'[v] = emitting[v] /\ state'[v] = state[v]
    BY <1>1, <1>2 DEF TypeOK
  <2>2. QED
    BY <1>1, <1>2, <1>6, <2>1 DEF NotLost
<1>13. \A v \in Thread \ {t} : Away(v) => Away(v)'
  BY <1>1, <1>2, <1>5 DEF Away, TypeOK
<1>14. EndOK'
  BY <1>1, <1>2, <1>3, <1>5, <1>6, <1>13 DEF EndOK
<1>15. \A v \in Thread : PlaceOK(v)' /\ HandsOK(v)'
  BY <1>1, <1>2, <1>5 DEF PlaceOK, HandsOK, TypeOK
<1>16. \A v \in Thread : MakingOK(v)'
  BY <1>1, <1>2, <1>3, <1>13 DEF MakingOK
<1>17. QED
  BY <1>10, <1>11, <1>12, <1>14, <1>15, <1>16 DEF IInv

LEMMA ReturnStep ==
  ASSUME IInv, NEW t \in Thread, Return(t)
  PROVE  IInv'
<1> USE DEF counts, end, rounds
<1>1. /\ TypeOK /\ EndOK /\ NothingGone /\ NotLost
      /\ \A v \in Thread : PlaceOK(v) /\ HandsOK(v) /\ MakingOK(v)
  BY Facts
<1>2. /\ pc[t] = "emit" /\ pspecs[t] = {} /\ emitting[t] = None
      /\ call' = [call EXCEPT ![t] = "no"]
      /\ UNCHANGED <<floating, held, freed, emitting, state, queue, unseen,
                     prop, nqueue, pspecs>>
  BY DEF Return
<1>3. /\ ~freed /\ (AtEnd => disposer = t)
      /\ \A v \in Thread \ {t} : call[v] \notin {"new", "made"} /\ (AtEnd => Away(v))
  BY <1>2, OneActs DEF Acting
<1>4. call[t] \in {"made", "set", "notify"} /\ prop[t] = None /\ nqueue[t] = "no"
  BY <1>1, <1>2 DEF PlaceOK, HandsOK, NothingGone, TypeOK
<1>5. References' = References /\ Held' = Held /\ Freezing' = Freezing
  BY <1>2 DEF References, Held, Freezing
<1>6. Making' = Making /\ (t \in Calling <=> call[t] # "made")
  BY <1>1, <1>2, <1>4 DEF Making, Calling, TypeOK
<1>7. Home(t) \in {"dispose", "idle"} /\ (Home(t) = "dispose" <=> disposer = t)
  BY DEF Home
\* The object stays, or goes on with its end.
<1>8. ASSUME pc' = [pc EXCEPT ![t] = Home(t)], disposer' = disposer, ref_count' \in Nat,
             ref_count' = IF t \in Calling /\ ~AtEnd THEN ref_count - 1 ELSE ref_count
      PROVE  IInv'
  <2>1. TypeOK' /\ AtEnd' = AtEnd
    BY <1>1, <1>2, <1>7, <1>8 DEF TypeOK, AtEnd
  <2>2. Dropping' = Dropping /\ Emitting' = Emitting /\ Calling' = Calling \ {t}
    BY <1>1, <1>2, <1>7, <1>8 DEF Dropping, Emitting, Calling, TypeOK
  <2>3. t \in Calling => Cardinality(Calling') = Cardinality(Calling) - 1
    BY <2>2, Left DEF Calling
  <2>4. t \notin Calling => Calling' = Calling
    BY <2>2
  <2>5. /\ Claims' = IF t \in Calling THEN Claims - 1 ELSE Claims
        /\ Freezes' = Freezes
    <3> DEFINE h == Held
               c == Cardinality(Calling)
               e == Cardinality(Emitting)
               d == Cardinality(Dropping)
               f == IF floating THEN 1 ELSE 0
    <3>1. h \in Nat /\ c \in Nat /\ e \in Nat /\ d \in Nat /\ f \in Nat
      BY Numbers, Facts
    <3>2. h' = h /\ e' = e /\ d' = d /\ f' = f
      BY <1>2, <1>5, <2>2
    <3>3. c' = IF t \in Calling THEN c - 1 ELSE c
      BY <2>3, <2>4
    <3>4. Claims = h + c + e + d + f /\ Claims' = h' + c' + e' + d' + f'
      BY DEF Claims
    <3>5. Freezes' = Freezes
      BY <1>5, <1>6 DEF Freezes
    <3> HIDE DEF h, c, e, d, f
    <3>6. QED
      BY <3>1, <3>2, <3>3, <3>4, <3>5
  <2>6. CountsExact' /\ IsFiniteSet(References')
    BY <1>2, <1>5, <1>8, <2>1, <2>5, Facts DEF CountsExact
  <2>7. NothingGone' /\ NotLost'
    BY <1>1, <1>2, <1>3, <1>8, <2>1 DEF NothingGone, NotLost
  <2>8. EndOK'
    <3>1. \A v \in Thread \ {t} : Away(v) => Away(v)'
      BY <1>1, <1>2, <1>8 DEF Away, TypeOK
    <3>2. QED
      BY <1>1, <1>2, <1>3, <1>7, <1>8, <2>1, <3>1 DEF EndOK, TypeOK
  <2>9. \A v \in Thread : PlaceOK(v)' /\ HandsOK(v)'
    BY <1>1, <1>2, <1>4, <1>7, <1>8 DEF PlaceOK, HandsOK, TypeOK
  <2>10. \A v \in Thread : MakingOK(v)'
    BY <1>1, <1>2, <1>3 DEF MakingOK, TypeOK
  <2>11. QED
    BY <2>6, <2>7, <2>8, <2>9, <2>10 DEF IInv
<1>9. CASE call[t] = "made"
  BY <1>1, <1>6, <1>8, <1>9 DEF Return, Goto, TypeOK
<1>10. CASE call[t] # "made" /\ AtEnd
  <2>1. ref_count = 0
    BY <1>10, Facts
  <2>2. QED
    BY <1>8, <1>10, <2>1 DEF Return, Unref, Goto
<1>11. CASE call[t] # "made" /\ ~AtEnd
  <2>1. t \in Calling /\ ref_count > 0 /\ ref_count \in Nat /\ Unref(t, Home(t))
    BY <1>1, <1>6, <1>11, Counted DEF Return, TypeOK
  <2>2. CASE ref_count # 1
    BY <1>8, <1>11, <2>1, <2>2 DEF Unref, Goto
  <2>3. CASE ref_count = 1
    <3>1. ref_count' = 0 /\ pc' = [pc EXCEPT ![t] = "dispose"] /\ disposer' = t
      BY <2>1, <2>3 DEF Unref, Goto
    <3>2. ~floating /\ held[t] = 0 /\ \A v \in Thread \ {t} : Away(v)
      BY <1>1, <1>11, <2>1, <2>3, LastOne DEF TypeOK
    <3>3. \A v \in Thread \ {t} : Away(v)'
      BY <1>1, <1>2, <3>1, <3>2 DEF Away, TypeOK
    <3>4. TypeOK' /\ AtEnd'
      BY <1>1, <1>2, <3>1, ObjectAssumption DEF TypeOK, AtEnd
    <3>5. CountsExact' /\ IsFiniteSet(References')
      BY <1>5, <3>1, <3>4, Facts DEF CountsExact
    <3>6. NothingGone' /\ NotLost'
      BY <1>1, <1>2, <1>3, <3>4 DEF NothingGone, NotLost
    <3>7. EndOK'
      BY <1>1, <1>2, <1>3, <3>1, <3>2, <3>3 DEF EndOK, Away, TypeOK
    <3>8. \A v \in Thread : PlaceOK(v)' /\ HandsOK(v)'
      BY <1>1, <1>2, <1>4, <3>1 DEF PlaceOK, HandsOK, TypeOK
    <3>9. \A v \in Thread : MakingOK(v)'
      BY <1>1, <1>2, <1>3 DEF MakingOK, TypeOK
    <3>10. QED
      BY <3>5, <3>6, <3>7, <3>8, <3>9 DEF IInv
  <2>4. QED
    BY <2>2, <2>3
<1>12. QED
  BY <1>4, <1>9, <1>10, <1>11

-----------------------------------------------------------------------------
(* The end *)

LEMMA FinalizeStep ==
  ASSUME IInv, NEW t \in Thread, Finalize(t)
  PROVE  IInv'
<1> USE DEF counts, end, rounds
<1>1. /\ TypeOK /\ EndOK /\ NothingGone /\ NotLost
      /\ \A v \in Thread : PlaceOK(v) /\ HandsOK(v) /\ MakingOK(v)
  BY Facts
<1>2. /\ disposer = t /\ pc[t] = "dispose" /\ pc' = [pc EXCEPT ![t] = "delete"]
      /\ Unqueue(t)
      /\ UNCHANGED <<ref_count, floating, held, freed, disposer, emitting, state, unseen,
                     call, prop, pspecs>>
  BY DEF Finalize, Goto
<1>3. /\ ~freed /\ AtEnd /\ call[t] = "no"
      /\ \A v \in Thread \ {t} : call[v] \notin {"new", "made"} /\ Away(v)
  <2>1. AtEnd
    BY <1>2, ObjectAssumption DEF AtEnd
  <2>2. call[t] = "no"
    BY <1>1, <1>2 DEF PlaceOK, TypeOK
  <2>3. QED
    BY <1>2, <2>1, <2>2, OneActs DEF Acting
<1>4. queue' = None /\ nqueue' = nqueue
  <2>1. \A v \in Thread : nqueue[v] = "no"
    BY <1>1, <1>2, <1>3 DEF Away, HandsOK, NothingGone, TypeOK
  <2>2. Kept(t) = "no"
    BY <1>3 DEF Kept
  <2>3. nqueue' = [v \in Thread |-> "no"]
    BY <1>2, <2>1, <2>2 DEF Unqueue
  <2>4. nqueue = [v \in Thread |-> "no"]
    BY <1>1, <2>1 DEF TypeOK
  <2>5. QED
    BY <1>2, <2>3, <2>4 DEF Unqueue
<1>5. TypeOK' /\ Calling' = Calling /\ Emitting' = Emitting /\ Dropping' = Dropping
  BY <1>1, <1>2, <1>4 DEF TypeOK, Calling, Emitting, Dropping
<1>6. CountsExact' /\ IsFiniteSet(References') /\ AtEnd' = AtEnd
  BY <1>2, <1>3, <1>5, SameCounts
<1>7. NothingGone' /\ NotLost'
  BY <1>1, <1>2, <1>3, <1>4, <1>6 DEF NothingGone, NotLost
<1>8. EndOK'
  BY <1>1, <1>2, <1>4, <1>6 DEF EndOK, Away, TypeOK
<1>9. \A v \in Thread : PlaceOK(v)' /\ HandsOK(v)'
  BY <1>1, <1>2, <1>3, <1>4 DEF PlaceOK, HandsOK, TypeOK
<1>10. \A v \in Thread : MakingOK(v)'
  BY <1>2, <1>3 DEF MakingOK
<1>11. QED
  BY <1>6, <1>7, <1>8, <1>9, <1>10 DEF IInv

LEMMA DeleteStep ==
  ASSUME IInv, NEW t \in Thread, Delete(t)
  PROVE  IInv'
<1> USE DEF counts, end, rounds
<1>1. /\ TypeOK /\ EndOK /\ NothingGone /\ NotLost
      /\ \A v \in Thread : PlaceOK(v) /\ HandsOK(v) /\ MakingOK(v)
  BY Facts
<1>2. /\ pc[t] = "delete" /\ freed' = TRUE /\ disposer' = None
      /\ UNCHANGED <<ref_count, floating, held, emitting, state, queue, unseen,
                     call, prop, nqueue, pspecs>>
  BY DEF Delete
<1>3. /\ disposer = t /\ AtEnd /\ AtEnd' /\ call[t] = "no" /\ queue = None
      /\ ~floating /\ held[t] = 0
      /\ \A v \in Thread \ {t} : Away(v)
  <2>1. disposer = t /\ call[t] = "no" /\ queue = None
    BY <1>1, <1>2 DEF EndOK, PlaceOK, TypeOK
  <2>2. AtEnd /\ AtEnd'
    BY <1>2, <2>1, ObjectAssumption DEF AtEnd
  <2>3. QED
    BY <1>1, <2>1, <2>2, ObjectAssumption DEF EndOK
<1>4. pc' = [pc EXCEPT ![t] = "idle"]
  BY <1>3 DEF Delete, Goto
<1>5. TypeOK'
  BY <1>1, <1>2, <1>4 DEF TypeOK
<1>6. CountsExact' /\ IsFiniteSet(References')
  <2>1. References' = References
    BY <1>2 DEF References
  <2>2. QED
    BY <1>2, <1>3, <1>5, <2>1, Facts DEF CountsExact
<1>7. \A v \in Thread : call[v] = "no" /\ held[v] = 0 /\ nqueue[v] = "no" /\ prop[v] = None
                        /\ pspecs[v] = {} /\ emitting[v] = None
  BY <1>1, <1>2, <1>3 DEF Away, HandsOK, NothingGone, TypeOK
<1>8. \A v \in Thread : Away(v)'
  BY <1>1, <1>2, <1>3, <1>4, <1>7 DEF Away, TypeOK
<1>9. NothingGone' /\ NotLost'
  BY <1>1, <1>2, <1>3, <1>7 DEF NothingGone, NotLost
<1>10. EndOK'
  BY <1>2, <1>3, <1>8, ObjectAssumption DEF EndOK, Away
<1>11. \A v \in Thread : PlaceOK(v)' /\ HandsOK(v)' /\ MakingOK(v)'
  BY <1>1, <1>2, <1>7, <1>8 DEF PlaceOK, HandsOK, MakingOK, Away
<1>12. QED
  BY <1>6, <1>9, <1>10, <1>11 DEF IInv

-----------------------------------------------------------------------------
LEMMA InitHolds ==
  Init => IInv
<1> SUFFICES ASSUME Init
             PROVE  IInv
  OBVIOUS
<1> USE ObjectAssumption
<1>1. TypeOK
  <2>1. /\ ref_count \in Nat /\ floating \in BOOLEAN /\ freed \in BOOLEAN
        /\ disposer \in Thread \cup {None}
        /\ unseen \subseteq Prop
    BY DEF Init
  <2>2. /\ emitting \in [Thread -> Prop \cup {None}]
        /\ state \in [Thread -> {"run", "seen", "restart"}]
    BY DEF Init
  <2>3. held \in [Thread -> Nat]
    BY DEF Init
  <2>4. queue \in [freeze_count : Nat \ {0}, pspecs : SUBSET Prop]
    BY DEF Init
  <2>5. /\ prop \in [Thread -> Prop \cup {None}] /\ pspecs \in [Thread -> SUBSET Prop]
        /\ nqueue \in [Thread -> {"no", "this", "gone"}]
    BY DEF Init
  <2>6. QED
    BY <2>1, <2>2, <2>3, <2>4, <2>5 DEF Init, TypeOK
<1>2. /\ ~AtEnd /\ queue.freeze_count = 1 /\ queue # None /\ disposer = None /\ ~freed
      /\ Calling = {} /\ Emitting = {} /\ Dropping = {} /\ Freezing = {} /\ Making = {Creator}
  <2>1. queue \in [freeze_count : Nat, pspecs : SUBSET Prop]
    BY DEF Init
  <2>2. queue # None
    BY <2>1, QueueThere
  <2>3. QED
    BY <2>2 DEF Init, AtEnd, Calling, Emitting, Dropping, Freezing, Making
<1>3. References = IF floating THEN {} ELSE {<<Creator, 1>>}
  <2>1. \A t \in Thread : held[t] = IF t = Creator /\ ~floating THEN 1 ELSE 0
    BY DEF Init
  <2>2. QED
    BY <2>1 DEF References
<1>4. IsFiniteSet(References) /\ Held = IF floating THEN 0 ELSE 1
  BY <1>3, FS_EmptySet, FS_Singleton DEF Held
<1>5. Claims = 1 /\ Freezes = 1
  <2>1. /\ Cardinality(Calling) = 0 /\ Cardinality(Emitting) = 0
        /\ Cardinality(Dropping) = 0 /\ Cardinality(Freezing) = 0
    BY <1>2, FS_EmptySet
  <2>2. Cardinality(Making) = 1
    BY <1>2, FS_Singleton
  <2>3. QED
    BY <1>4, <2>1, <2>2 DEF Claims, Freezes
<1>6. CountsExact
  BY <1>1, <1>2, <1>5 DEF CountsExact, Init
<1>7. NothingGone /\ NotLost
  BY DEF Init, NothingGone, NotLost
<1>8. EndOK
  BY <1>2 DEF Init, EndOK
<1>9. \A t \in Thread : PlaceOK(t) /\ HandsOK(t) /\ MakingOK(t)
  BY DEF Init, PlaceOK, HandsOK, MakingOK, Away
<1>10. QED
  BY <1>4, <1>6, <1>7, <1>8, <1>9 DEF IInv

LEMMA Idle ==
  ASSUME IInv, UNCHANGED <<counts, end, queue, unseen, local, rounds>>
  PROVE  IInv'
<1> USE DEF counts, end, local, rounds
<1>1. /\ TypeOK' /\ Calling' = Calling /\ Emitting' = Emitting /\ Dropping' = Dropping
      /\ Freezes' = Freezes
  BY Facts DEF TypeOK, Calling, Emitting, Dropping, Freezes, Freezing, Making
<1>2. CountsExact' /\ IsFiniteSet(References') /\ AtEnd' = AtEnd
  BY <1>1, SameCounts, Facts
<1>3. NothingGone' /\ NotLost'
  BY <1>2, Facts DEF NothingGone, NotLost
<1>4. EndOK'
  BY <1>2, Facts DEF EndOK, Away
<1>5. \A v \in Thread : PlaceOK(v)' /\ HandsOK(v)' /\ MakingOK(v)'
  BY Facts DEF PlaceOK, HandsOK, MakingOK, Away
<1>6. QED
  BY <1>2, <1>3, <1>4, <1>5 DEF IInv

LEMMA StepHolds ==
  IInv /\ [Next]_vars => IInv'
<1> SUFFICES ASSUME IInv, [Next]_vars
             PROVE  IInv'
  OBVIOUS
<1>1. CASE UNCHANGED vars
  <2>1. UNCHANGED <<counts, end, queue, unseen, local, rounds>>
    BY <1>1 DEF vars
  <2>2. QED
    BY <2>1, Idle
<1>2. CASE Next
  <2>1. PICK t \in Thread :
          \/ \E u \in Thread : Share(t, u)
          \/ Release(t) \/ Sink(t) \/ Sunk(t) \/ DropFloating(t)
          \/ SetCall(t) \/ \E p \in Prop : NotifyCall(t, p)
          \/ Freeze(t) \/ FreezeThere(t) \/ \E p \in Prop : SetProperty(t, p)
          \/ Add(t) \/ Values(t) \/ Thaw(t)
          \/ \E p \in Prop : EmitAgain(t, p) \/ Emit(t, p)
          \/ Handle(t) \/ Restart(t) \/ Emitted(t) \/ Return(t)
          \/ Finalize(t) \/ Delete(t)
    BY <1>2 DEF Next
  <2>2. QED
    BY <2>1, ShareStep, ReleaseStep, SinkStep, SunkStep, DropFloatingStep, SetCallStep,
       NotifyCallStep, FreezeStep, FreezeThereStep, SetPropertyStep, AddStep, ValuesStep,
       ThawStep, EmitAgainStep, EmitStep, HandleStep, RestartStep, EmittedStep,
       ReturnStep, FinalizeStep, DeleteStep, Zenon
<1>3. QED
  BY <1>1, <1>2

LEMMA Invariant ==
  Spec => []IInv
BY InitHolds, StepHolds, PTL DEF Spec

\* x_object_ref, unref, sink and newv, with the calls that set and notify: the
\* count of an object is what the threads, their calls and emissions and the
\* floating flag have of it, whatever the handlers give up, and stays 0 from
\* its end on; its queue is frozen as often as calls have frozen it.
THEOREM CountsAreExact ==
  Spec => []CountsExact
<1>1. IInv => CountsExact
  BY DEF IInv
<1>2. QED
  BY <1>1, Invariant, PTL

\* Nobody is in a call of a deleted object or holds it, and nobody goes on with
\* a queue that a thaw or finalize has freed.
THEOREM NothingIsGone ==
  Spec => []NothingGone
<1>1. IInv => NothingGone
  BY DEF IInv
<1>2. QED
  BY <1>1, Invariant, PTL

\* notify_queue_freeze, add and thaw, and the emissions of "notify", which do
\* not recurse: as long as the object is not at its end, a changed property that
\* the handler has not seen is on its way to it.
THEOREM NothingIsLost ==
  Spec => []NotLost
<1>1. IInv => NotLost
  BY DEF IInv
<1>2. QED
  BY <1>1, Invariant, PTL

=============================================================================
