----------------------------- MODULE SignalProof -----------------------------
(***************************************************************************)
(* Proofs that the counts of handlers and closures are exact, that the     *)
(* list of handlers stays in order, that a round calls whom it has to, and *)
(* that no thread runs a closure whose data is gone, for any kinds of      *)
(* signals, threads and handlers.                                          *)
(***************************************************************************)
EXTENDS Signal, FiniteSetTheorems, WellFoundedInduction, TLAPS

(* Frames *)

\* An emission in user code, at its return included.
Calling == {"call", "stop", "returned"}

Emissions ==
  [what : {"emit"},
   pc : {"collect", "enter", "restart", "begin", "before", "look", "ended", "last", "after",
         "cleanup", "finish", "pop"} \cup Calling,
   stage : {"first", "before", "last", "after", "cleanup"}, state : {"run", "restart", "stop"},
   detail : BOOLEAN, max : Nat, list : Handler \cup {None}, h : Handler \cup {None},
   due : SUBSET Nat, called : Seq(Nat), asked : SUBSET Windows]

Fasts == [what : {"fast"}, pc : {"picked", "call"}, h : Handler \cup {None}]

Drops ==
  [what : {"drop"}, pc : {"read", "dec", "notify", "dropped"}, h : Handler,
   handler : BOOLEAN, locked : BOOLEAN]

TypeOK ==
  /\ Types
  /\ hlist \in [handlers : Handler \cup {None}, tail_before : Handler \cup {None},
                tail_after : Handler \cup {None}, next : [Handler -> Handler \cup {None}],
                prev : [Handler -> Handler \cup {None}]]
  /\ ref_count \in [Handler -> Nat] /\ matched \in [Handler -> Nat]
  /\ closure_refs \in [Handler -> Nat]
  /\ stack \in [Thread -> Seq(Emissions \cup Fasts \cup Drops)]
  /\ IsFiniteSet(Places)

\* Between the loops that call handlers, and behind both.
Between(f) ==
  \/ f.pc = "ended" /\ f.stage = "before" /\ f.state = "run"
  \/ f.pc \in {"last", "after"}
  \/ f.pc \in Calling /\ f.stage = "last"
Behind(f) ==
  \/ f.pc = "ended" /\ f.stage = "after" /\ f.state = "run"
  \/ f.pc \in {"cleanup", "finish"} /\ f.state = "run"
Ahead(f) == f.pc = "before" \/ (f.pc \in Calling /\ f.stage = "first")

\* Where an emission stands, and what it knows there.
PlaceOK(f) ==
  /\ f.h # None <=> f.pc = "look" \/ (f.pc \in Calling /\ f.stage \in {"before", "after"})
  /\ f.h # None /\ f.stage = "before" => f.list # None
  /\ f.pc \in {"collect", "enter", "begin", "pop"} => f.list = None
  /\ f.pc \in {"look", "ended"} => f.stage \in {"before", "after"}
  /\ f.pc \in {"before", "last", "after"} => f.state = "run"
  /\ f.pc \in Calling /\ f.stage = "cleanup" => f.state # "run"
  /\ f.pc \in Calling /\ f.stage = "before" => f.h \notin After
  /\ "open" \in f.asked =>
       f.state = "restart" /\ f.pc \in {"call", "returned", "look", "ended", "restart", "begin"}

\* What a round has called: growing ranks, none beyond where it stands.
Called(f) == {f.called[i] : i \in 1 .. Len(f.called)}

CalledOK(f) ==
  /\ \A i, j \in 1 .. Len(f.called) : i < j => f.called[i] < f.called[j]
  /\ Ahead(f) => f.called = << >>
  /\ \A c \in Called(f) :
       /\ f.h # None =>
            /\ c <= Rank(f.h)
            /\ f.pc = "look" => c < Rank(f.h) \/ (f.stage = "after" /\ f.h \notin After)
       /\ Between(f) => /\ f.list # None /\ c <= Rank(f.list)
                        /\ f.list \in After => c < Rank(f.list)

\* What it has to call yet is not behind it.
DueOK(f) ==
  \A r \in f.due \ Called(f) :
    /\ ~ Behind(f)
    /\ Ahead(f) => f.list # None /\ Rank(f.list) <= r
    /\ Between(f) => f.list \in After /\ Rank(f.list) <= r
    /\ f.h # None => /\ Rank(f.h) <= r /\ (f.pc \in Calling => Rank(f.h) < r)
                     /\ f.stage = "after" => r > MaxId

\* Who is due may be called.
Callable(h, f) ==
  /\ h \in connected /\ block_count[h] = 0
  /\ h \in Detailed => f.detail
  /\ id[h] < f.max

EmitOK(f) ==
  /\ PlaceOK(f) /\ CalledOK(f) /\ DueOK(f)
  /\ \A r \in f.due : \E h \in Handler : Rank(h) = r /\ Callable(h, f)

DropOK(f) == f.handler => ref_count[f.h] = 0

\* An emission that is here is its thread's last frame, and the lock is held.
Locking == {"restart", "before", "last", "after", "cleanup", "finish"}

FrameOK(t, i) ==
  LET f == stack[t][i]
  IN /\ f.what = "emit" => EmitOK(f) /\ (f.pc \in Locking => lock = t /\ i = Len(stack[t]))
     /\ f.what = "fast" => (f.pc = "picked" => f.h # None)
     /\ f.what = "drop" => DropOK(f)

-----------------------------------------------------------------------------
(* Handlers and closures *)

One(b) == IF b THEN 1 ELSE 0

\* The frames that hold a reference to the closure of h, besides its handler;
\* those that call it are invocations of the fast path.
Invoking(h) == {p \in Places : Frame(p).what = "fast" /\ Frame(p).pc = "call" /\ Frame(p).h = h}
Dropping(h) ==
  {p \in Places : Frame(p).what = "drop" /\ Frame(p).pc \in {"read", "dec"} /\ Frame(p).h = h}

ClosureOK(h) ==
  /\ closure_refs[h] = One(h \in Alive) + Cardinality(Invoking(h)) + Cardinality(Dropping(h))
  /\ is_invalid[h] => h \notin Alive /\ Invoking(h) = {}

HandlerOK(h) ==
  h \in Alive =>
    /\ id[h] < n_handlers
    /\ h \in connected \/ block_count[h] > 0
    /\ \A g \in Alive : Rank(g) = Rank(h) => g = h

IInv ==
  /\ TypeOK /\ RefsExact /\ InOrder
  /\ \A h \in Handler : HandlerOK(h) /\ ClosureOK(h)
  /\ \A t \in Thread : \A i \in 1 .. Len(stack[t]) : FrameOK(t, i)

-----------------------------------------------------------------------------
(* Counting frames *)

AnyFrame == Emissions \cup Fasts \cup Drops

\* What the steps of an emission leave as it is, those that enter it in the list
\* of emissions or remove it included.
Steady == UNCHANGED <<kind, handlerVars, closureVars, emitted>>

\* A set that differs in p at most.
LEMMA Change ==
  ASSUME NEW S, IsFiniteSet(S), NEW R, NEW p, \A q : q # p => (q \in R <=> q \in S)
  PROVE  /\ IsFiniteSet(R) /\ Cardinality(S) \in Nat /\ Cardinality(R) \in Nat
         /\ Cardinality(R) = Cardinality(S) + One(p \in R) - One(p \in S)
<1>1. Cardinality(S) \in Nat
  BY FS_CardinalityType
<1>2. CASE p \in R /\ p \notin S
  <2>1. R = S \cup {p}
    BY <1>2
  <2>2. IsFiniteSet(R) /\ Cardinality(R) = Cardinality(S) + 1
    BY <1>2, <2>1, FS_AddElement
  <2>3. QED
    BY <1>1, <1>2, <2>2 DEF One
<1>3. CASE p \notin R /\ p \in S
  <2>1. R = S \ {p}
    BY <1>3
  <2>2. IsFiniteSet(R) /\ Cardinality(R) = Cardinality(S) - 1
    BY <1>3, <2>1, FS_RemoveElement
  <2>3. Cardinality(R) \in Nat
    BY <2>2, FS_CardinalityType
  <2>4. QED
    BY <1>1, <1>3, <2>2, <2>3 DEF One
<1>4. CASE p \in R <=> p \in S
  <2>1. R = S
    BY <1>4
  <2>2. QED
    BY <1>1, <1>4, <2>1 DEF One
<1>5. QED
  BY <1>2, <1>3, <1>4

LEMMA PlaceDef ==
  \A p : p \in Places <=> \E t \in Thread : \E i \in 1 .. Len(stack[t]) : p = <<t, i>>
BY DEF Places

LEMMA PlaceNext ==
  \A p : p \in Places' <=> \E t \in Thread : \E i \in 1 .. Len(stack'[t]) : p = <<t, i>>
BY DEF Places

\* What the counts depend on is the same at q.
Same(q) ==
  /\ q \in Places' <=> q \in Places
  /\ q \in Places =>
       /\ Frame(q)'.what = Frame(q).what
       /\ Frame(q).what = "emit" => Frame(q)'.list = Frame(q).list /\ Frame(q)'.h = Frame(q).h
       /\ Frame(q).what # "emit" => Frame(q)' = Frame(q)

LEMMA SameSets ==
  ASSUME NEW q, Same(q), NEW h
  PROVE  /\ q \in Listing(h)' <=> q \in Listing(h)
         /\ q \in Standing(h)' <=> q \in Standing(h)
         /\ q \in Invoking(h)' <=> q \in Invoking(h)
         /\ q \in Dropping(h)' <=> q \in Dropping(h)
<1>1. q \in Listing(h)' <=> q \in Listing(h)
  BY DEF Same, Listing
<1>2. q \in Standing(h)' <=> q \in Standing(h)
  BY DEF Same, Standing
<1>3. q \in Invoking(h)' <=> q \in Invoking(h)
  BY DEF Same, Invoking
<1>4. q \in Dropping(h)' <=> q \in Dropping(h)
  BY DEF Same, Dropping
<1>5. QED
  BY <1>1, <1>2, <1>3, <1>4

LEMMA Finite ==
  ASSUME IsFiniteSet(Places), NEW h
  PROVE  /\ IsFiniteSet(Listing(h)) /\ IsFiniteSet(Standing(h))
         /\ IsFiniteSet(Invoking(h)) /\ IsFiniteSet(Dropping(h))
         /\ Cardinality(Listing(h)) \in Nat /\ Cardinality(Standing(h)) \in Nat
         /\ Cardinality(Invoking(h)) \in Nat /\ Cardinality(Dropping(h)) \in Nat
<1>1. /\ Listing(h) \in SUBSET Places /\ Standing(h) \in SUBSET Places
      /\ Invoking(h) \in SUBSET Places /\ Dropping(h) \in SUBSET Places
  BY DEF Listing, Standing, Invoking, Dropping
<1>2. \A S \in SUBSET Places : IsFiniteSet(S) /\ Cardinality(S) \in Nat
  BY FS_Subset, FS_CardinalityType
<1>3. QED
  BY <1>1, <1>2

\* A step that changes one place.
LEMMA OneChanged ==
  ASSUME IsFiniteSet(Places), NEW p, \A q : q # p => Same(q)
  PROVE  /\ IsFiniteSet(Places')
         /\ \A h : /\ Cardinality(Listing(h)') = Cardinality(Listing(h))
                        + One(p \in Listing(h)') - One(p \in Listing(h))
                   /\ Cardinality(Standing(h)') = Cardinality(Standing(h))
                        + One(p \in Standing(h)') - One(p \in Standing(h))
                   /\ Cardinality(Invoking(h)') = Cardinality(Invoking(h))
                        + One(p \in Invoking(h)') - One(p \in Invoking(h))
                   /\ Cardinality(Dropping(h)') = Cardinality(Dropping(h))
                        + One(p \in Dropping(h)') - One(p \in Dropping(h))
<1>1. IsFiniteSet(Places')
  <2>1. \A q : q # p => (q \in Places' <=> q \in Places)
    BY DEF Same
  <2>2. QED
    BY <2>1, Change
<1>2. ASSUME NEW h
      PROVE  /\ Cardinality(Listing(h)') = Cardinality(Listing(h))
                  + One(p \in Listing(h)') - One(p \in Listing(h))
             /\ Cardinality(Standing(h)') = Cardinality(Standing(h))
                  + One(p \in Standing(h)') - One(p \in Standing(h))
             /\ Cardinality(Invoking(h)') = Cardinality(Invoking(h))
                  + One(p \in Invoking(h)') - One(p \in Invoking(h))
             /\ Cardinality(Dropping(h)') = Cardinality(Dropping(h))
                  + One(p \in Dropping(h)') - One(p \in Dropping(h))
  <2>1. \A q : q # p => /\ q \in Listing(h)' <=> q \in Listing(h)
                        /\ q \in Standing(h)' <=> q \in Standing(h)
                        /\ q \in Invoking(h)' <=> q \in Invoking(h)
                        /\ q \in Dropping(h)' <=> q \in Dropping(h)
    BY SameSets
  <2>2. /\ IsFiniteSet(Listing(h)) /\ IsFiniteSet(Standing(h))
        /\ IsFiniteSet(Invoking(h)) /\ IsFiniteSet(Dropping(h))
    BY Finite
  <2>3. Cardinality(Listing(h)') = Cardinality(Listing(h))
          + One(p \in Listing(h)') - One(p \in Listing(h))
    BY <2>1, <2>2, Change
  <2>4. Cardinality(Standing(h)') = Cardinality(Standing(h))
          + One(p \in Standing(h)') - One(p \in Standing(h))
    BY <2>1, <2>2, Change
  <2>5. Cardinality(Invoking(h)') = Cardinality(Invoking(h))
          + One(p \in Invoking(h)') - One(p \in Invoking(h))
    BY <2>1, <2>2, Change
  <2>6. Cardinality(Dropping(h)') = Cardinality(Dropping(h))
          + One(p \in Dropping(h)') - One(p \in Dropping(h))
    BY <2>1, <2>2, Change
  <2>7. QED
    BY <2>3, <2>4, <2>5, <2>6
<1>3. QED
  BY <1>1, <1>2

-----------------------------------------------------------------------------
(* What steps do to the stacks *)

LEMMA StackType ==
  ASSUME TypeOK
  PROVE  stack \in [Thread -> Seq(AnyFrame)]
BY DEF TypeOK, AnyFrame

LEMMA TopIs ==
  ASSUME TypeOK, NEW t \in Thread, stack[t] # << >>
  PROVE  /\ Len(stack[t]) \in Nat \ {0} /\ Top(t) = stack[t][Len(stack[t])]
         /\ Top(t) \in AnyFrame
BY StackType DEF Top

\* The topmost frame of t becomes g.
LEMMA Turned ==
  ASSUME TypeOK, NEW t \in Thread, stack[t] # << >>, NEW g \in AnyFrame, NEW st,
         st = WithTop(t, g)
  PROVE  /\ st \in [Thread -> Seq(AnyFrame)]
         /\ Len(st[t]) = Len(stack[t]) /\ st[t][Len(stack[t])] = g
         /\ \A i \in 1 .. Len(stack[t]) : i # Len(stack[t]) => st[t][i] = stack[t][i]
         /\ \A u \in Thread \ {t} : st[u] = stack[u]
<1> DEFINE n == Len(stack[t])
           s == [stack[t] EXCEPT ![n] = g]
<1>1. stack \in [Thread -> Seq(AnyFrame)] /\ n \in Nat \ {0} /\ stack[t] \in Seq(AnyFrame)
  BY StackType, TopIs
<1>2. st = [stack EXCEPT ![t] = s]
  BY DEF WithTop
<1>3. /\ s \in Seq(AnyFrame) /\ Len(s) = n /\ s[n] = g
      /\ \A i \in 1 .. n : i # n => s[i] = stack[t][i]
  BY <1>1
<1> HIDE DEF s, n
<1>4. /\ st \in [Thread -> Seq(AnyFrame)] /\ st[t] = s
      /\ \A u \in Thread \ {t} : st[u] = stack[u]
  BY <1>1, <1>2, <1>3
<1>5. QED
  BY <1>3, <1>4 DEF n

\* The frame f is put on the stack of t.
On(st, t, f) == [st EXCEPT ![t] = Append(@, f)]

LEMMA Put1 ==
  ASSUME NEW st \in [Thread -> Seq(AnyFrame)], NEW t \in Thread, NEW g \in AnyFrame, NEW st2,
         st2 = On(st, t, g)
  PROVE  /\ st2 \in [Thread -> Seq(AnyFrame)]
         /\ Len(st[t]) \in Nat /\ Len(st2[t]) = Len(st[t]) + 1 /\ st2[t][Len(st[t]) + 1] = g
         /\ \A i \in 1 .. Len(st[t]) : st2[t][i] = st[t][i]
         /\ \A u \in Thread \ {t} : st2[u] = st[u]
<1> DEFINE s == Append(st[t], g)
<1>1. st[t] \in Seq(AnyFrame)
  OBVIOUS
<1>2. /\ s \in Seq(AnyFrame) /\ Len(st[t]) \in Nat /\ Len(s) = Len(st[t]) + 1
      /\ s[Len(st[t]) + 1] = g /\ \A i \in 1 .. Len(st[t]) : s[i] = st[t][i]
  BY <1>1
<1>3. st2 = [st EXCEPT ![t] = s]
  BY DEF On
<1> HIDE DEF s
<1>4. /\ st2 \in [Thread -> Seq(AnyFrame)] /\ st2[t] = s
      /\ \A u \in Thread \ {t} : st2[u] = st[u]
  BY <1>2, <1>3
<1>5. QED
  BY <1>2, <1>4

\* And the topmost one is taken off.
LEMMA TakenOff ==
  ASSUME TypeOK, NEW t \in Thread, stack[t] # << >>, stack' = Popped(t)
  PROVE  /\ stack' \in [Thread -> Seq(AnyFrame)]
         /\ Len(stack[t]) \in Nat \ {0} /\ Len(stack'[t]) = Len(stack[t]) - 1
         /\ \A i \in 1 .. Len(stack[t]) - 1 : stack'[t][i] = stack[t][i]
         /\ \A u \in Thread \ {t} : stack'[u] = stack[u]
<1> DEFINE n == Len(stack[t])
           s == SubSeq(stack[t], 1, n - 1)
<1>1. stack \in [Thread -> Seq(AnyFrame)] /\ n \in Nat \ {0} /\ stack[t] \in Seq(AnyFrame)
  BY StackType, TopIs
<1>2. stack' = [stack EXCEPT ![t] = s]
  BY DEF Popped
<1>3. /\ s \in Seq(AnyFrame) /\ Len(s) = n - 1
      /\ \A i \in 1 .. n - 1 : s[i] = stack[t][i]
  <2> DEFINE m == n - 1
  <2>1. m \in Nat /\ m <= Len(stack[t])
    BY <1>1
  <2> HIDE DEF m
  <2>2. s = SubSeq(stack[t], 1, m)
    BY DEF m
  <2>3. /\ SubSeq(stack[t], 1, m) \in Seq(AnyFrame) /\ Len(SubSeq(stack[t], 1, m)) = m
        /\ \A i \in 1 .. m : SubSeq(stack[t], 1, m)[i] = stack[t][i]
    BY <1>1, <2>1
  <2>4. /\ SubSeq(stack[t], 1, n - 1) \in Seq(AnyFrame)
        /\ Len(SubSeq(stack[t], 1, n - 1)) = n - 1
        /\ \A i \in 1 .. n - 1 : SubSeq(stack[t], 1, n - 1)[i] = stack[t][i]
    BY <2>3 DEF m
  <2>5. QED
    BY <2>4
<1> HIDE DEF s, n
<1>4. /\ stack' \in [Thread -> Seq(AnyFrame)] /\ stack'[t] = s
      /\ \A u \in Thread \ {t} : stack'[u] = stack[u]
  BY <1>1, <1>2, <1>3
<1>5. QED
  BY <1>1, <1>3, <1>4 DEF n

\* All is the same but for p and e.
Others(p, e) == \A q : q # p /\ q # e => Same(q)

\* What the counts become when an emission in p changes, and e drops.
TwoCounts(p, e) ==
  \A h :
    /\ Cardinality(Listing(h)') = Cardinality(Listing(h))
              + One(p \in Listing(h)') - One(p \in Listing(h))
         /\ Cardinality(Standing(h)') = Cardinality(Standing(h))
              + One(p \in Standing(h)') - One(p \in Standing(h))
         /\ Cardinality(Invoking(h)') = Cardinality(Invoking(h))
         /\ Invoking(h)' = Invoking(h)
         /\ Cardinality(Dropping(h)') = Cardinality(Dropping(h))
              + One(e \in Dropping(h)')

\* A step that changes an emission and drops a handler or closure.
LEMMA TwoChanged ==
  ASSUME IsFiniteSet(Places), NEW p, NEW e, Others(p, e),
         p \in Places, p \in Places', Frame(p).what = "emit", Frame(p)'.what = "emit",
         e \notin Places, e \in Places', Frame(e)'.what = "drop"
  PROVE  IsFiniteSet(Places') /\ TwoCounts(p, e)
<1>0. \A q : q # p /\ q # e => Same(q)
  BY DEF Others
<1>1. IsFiniteSet(Places')
  <2>1. \A q : q # e => (q \in Places' <=> q \in Places)
    BY <1>0 DEF Same
  <2>2. QED
    BY <2>1, Change
<1>2. ASSUME NEW h
      PROVE  /\ Cardinality(Listing(h)') = Cardinality(Listing(h))
                  + One(p \in Listing(h)') - One(p \in Listing(h))
             /\ Cardinality(Standing(h)') = Cardinality(Standing(h))
                  + One(p \in Standing(h)') - One(p \in Standing(h))
             /\ Invoking(h)' = Invoking(h)
             /\ Cardinality(Dropping(h)') = Cardinality(Dropping(h)) + One(e \in Dropping(h)')
  <2>1. \A q : q # p /\ q # e => /\ q \in Listing(h)' <=> q \in Listing(h)
                                 /\ q \in Standing(h)' <=> q \in Standing(h)
                                 /\ q \in Invoking(h)' <=> q \in Invoking(h)
                                 /\ q \in Dropping(h)' <=> q \in Dropping(h)
    BY <1>0, SameSets
  <2>2. /\ e \notin Listing(h) /\ e \notin Standing(h) /\ e \notin Invoking(h)
        /\ e \notin Dropping(h)
    BY DEF Listing, Standing, Invoking, Dropping
  <2>3. e \notin Listing(h)' /\ e \notin Standing(h)' /\ e \notin Invoking(h)'
    BY DEF Listing, Standing, Invoking
  <2>4. /\ p \notin Invoking(h) /\ p \notin Dropping(h)
        /\ p \notin Invoking(h)' /\ p \notin Dropping(h)'
    BY DEF Invoking, Dropping
  <2>5. /\ \A q : q # p => (q \in Listing(h)' <=> q \in Listing(h))
        /\ \A q : q # p => (q \in Standing(h)' <=> q \in Standing(h))
        /\ \A q : q \in Invoking(h)' <=> q \in Invoking(h)
        /\ \A q : q # e => (q \in Dropping(h)' <=> q \in Dropping(h))
    BY <2>1, <2>2, <2>3, <2>4
  <2>6. IsFiniteSet(Listing(h)) /\ IsFiniteSet(Standing(h)) /\ IsFiniteSet(Dropping(h))
    BY Finite
  <2>7. Cardinality(Listing(h)') = Cardinality(Listing(h))
          + One(p \in Listing(h)') - One(p \in Listing(h))
    BY <2>5, <2>6, Change
  <2>8. Cardinality(Standing(h)') = Cardinality(Standing(h))
          + One(p \in Standing(h)') - One(p \in Standing(h))
    BY <2>5, <2>6, Change
  <2>9. Invoking(h)' = Invoking(h)
    BY <2>5
  <2>10. /\ Cardinality(Dropping(h)') = Cardinality(Dropping(h))
              + One(e \in Dropping(h)') - One(e \in Dropping(h))
         /\ Cardinality(Dropping(h)') \in Nat /\ Cardinality(Dropping(h)) \in Nat
    BY <2>5, <2>6, Change
  <2>11. Cardinality(Dropping(h)') = Cardinality(Dropping(h)) + One(e \in Dropping(h)')
    BY <2>2, <2>10 DEF One
  <2>12. QED
    BY <2>7, <2>8, <2>9, <2>11
<1>3. QED
  BY <1>1, <1>2 DEF TwoCounts

LEMMA FrameIs ==
  ASSUME NEW t, NEW i
  PROVE  Frame(<<t, i>>) = stack[t][i] /\ Frame(<<t, i>>)' = stack'[t][i]
BY DEF Frame

LEMMA SameThere ==
  ASSUME NEW t \in Thread, NEW i \in 1 .. Len(stack[t]), i \in 1 .. Len(stack'[t]),
         stack'[t][i] = stack[t][i]
  PROVE  Same(<<t, i>>)
<1>1. <<t, i>> \in Places
  BY PlaceDef
<1>2. <<t, i>> \in Places'
  BY PlaceNext
<1>3. QED
  BY <1>1, <1>2, FrameIs DEF Same

LEMMA SameNowhere ==
  ASSUME NEW q, q \notin Places, q \notin Places'
  PROVE  Same(q)
BY DEF Same

\* The place of t's topmost frame, and the next one.
Here(t) == <<t, Len(stack[t])>>
Beyond(t) == <<t, Len(stack[t]) + 1>>

LEMMA TurnedPlaces ==
  ASSUME TypeOK, NEW t \in Thread, stack[t] # << >>, NEW g \in AnyFrame, stack' = WithTop(t, g),
         NEW p, p = Here(t)
  PROVE  /\ \A q : q # p => Same(q)
         /\ p \in Places /\ p \in Places'
         /\ Frame(p) = Top(t) /\ Frame(p)' = g
<1>0. Len(stack[t]) \in Nat \ {0} /\ Top(t) = stack[t][Len(stack[t])]
  BY TopIs
<1>1. /\ Len(stack[t]) \in Nat \ {0} /\ Top(t) = stack[t][Len(stack[t])]
      /\ Len(stack'[t]) = Len(stack[t]) /\ stack'[t][Len(stack[t])] = g
      /\ \A i \in 1 .. Len(stack[t]) : i # Len(stack[t]) => stack'[t][i] = stack[t][i]
      /\ \A u \in Thread \ {t} : stack'[u] = stack[u]
  BY <1>0, Turned
<1>2. p \in Places /\ p \in Places'
  BY <1>1, PlaceDef, PlaceNext DEF Here
<1>3. Frame(p) = Top(t) /\ Frame(p)' = g
  BY <1>1, FrameIs DEF Here
<1>4. ASSUME NEW q, q # p
      PROVE  Same(q)
  <2>1. CASE q \in Places
    <3>1. PICK u \in Thread : \E i \in 1 .. Len(stack[u]) : q = <<u, i>>
      BY <2>1, PlaceDef
    <3>2. PICK i \in 1 .. Len(stack[u]) : q = <<u, i>>
      BY <3>1
    <3>3. i \in 1 .. Len(stack'[u]) /\ stack'[u][i] = stack[u][i]
      BY <1>1, <1>4, <3>2 DEF Here
    <3>4. QED
      BY <3>2, <3>3, SameThere
  <2>2. CASE q \notin Places
    <3>1. q \notin Places'
      <4>1. SUFFICES ASSUME q \in Places'
                     PROVE  FALSE
        OBVIOUS
      <4>2. PICK u \in Thread : \E i \in 1 .. Len(stack'[u]) : q = <<u, i>>
        BY <4>1, PlaceNext
      <4>3. PICK i \in 1 .. Len(stack'[u]) : q = <<u, i>>
        BY <4>2
      <4>4. i \in 1 .. Len(stack[u])
        BY <1>1, <4>3
      <4>5. QED
        BY <2>2, <4>3, <4>4, PlaceDef
    <3>2. QED
      BY <2>2, <3>1, SameNowhere
  <2>3. QED
    BY <2>1, <2>2
<1>5. QED
  BY <1>2, <1>3, <1>4

\* The stacks st are those of now, but for p and what frames do not count.
Alike(st, p) ==
  /\ \A u \in Thread : Len(st[u]) = Len(stack[u])
  /\ \A u \in Thread : \A i \in 1 .. Len(stack[u]) : <<u, i>> # p =>
       /\ st[u][i].what = stack[u][i].what
       /\ stack[u][i].what = "emit" => /\ st[u][i].list = stack[u][i].list
                                       /\ st[u][i].h = stack[u][i].h
       /\ stack[u][i].what # "emit" => st[u][i] = stack[u][i]

\* The frames of st are there.
There(st) ==
  \A u \in Thread : \A i \in 1 .. Len(stack[u]) :
    i \in 1 .. Len(stack'[u]) /\ stack'[u][i] = st[u][i]

\* A frame is put on a stack whose other frames count as before.
LEMMA AddedPlaces ==
  ASSUME TypeOK, NEW st \in [Thread -> Seq(AnyFrame)], NEW t \in Thread, NEW g \in AnyFrame,
         stack' = On(st, t, g),
         NEW e, e = Beyond(t),
         NEW p, Alike(st, p)
  PROVE  /\ Others(p, e)
         /\ e \notin Places /\ e \in Places' /\ Frame(e)' = g
         /\ There(st)
<1>1. /\ Len(stack[t]) \in Nat /\ Len(stack'[t]) = Len(stack[t]) + 1
      /\ stack'[t][Len(stack[t]) + 1] = g
      /\ \A i \in 1 .. Len(stack[t]) : stack'[t][i] = st[t][i]
      /\ \A u \in Thread \ {t} : stack'[u] = st[u]
  <2>1. /\ Len(st[t]) \in Nat /\ Len(stack'[t]) = Len(st[t]) + 1
        /\ stack'[t][Len(st[t]) + 1] = g
        /\ \A i \in 1 .. Len(st[t]) : stack'[t][i] = st[t][i]
        /\ \A u \in Thread \ {t} : stack'[u] = st[u]
    BY Put1
  <2>2. Len(st[t]) = Len(stack[t])
    BY DEF Alike
  <2>3. QED
    BY <2>1, <2>2
<1>2. \A u \in Thread : \A i \in 1 .. Len(stack[u]) :
        i \in 1 .. Len(stack'[u]) /\ stack'[u][i] = st[u][i]
  BY <1>1 DEF Alike
<1>3. e \notin Places
  <2>1. SUFFICES ASSUME e \in Places
                 PROVE  FALSE
    OBVIOUS
  <2>2. PICK u \in Thread : \E i \in 1 .. Len(stack[u]) : e = <<u, i>>
    BY <2>1, PlaceDef
  <2>3. PICK i \in 1 .. Len(stack[u]) : e = <<u, i>>
    BY <2>2
  <2>4. u = t /\ i = Len(stack[t]) + 1
    BY <2>3 DEF Beyond
  <2>5. QED
    BY <1>1, <2>4
<1>4. e \in Places' /\ Frame(e)' = g
  <2>1. Len(stack[t]) + 1 \in 1 .. Len(stack'[t])
    BY <1>1
  <2>2. QED
    BY <1>1, <2>1, PlaceNext, FrameIs DEF Beyond
<1>5. ASSUME NEW q, q # p, q # e
      PROVE  Same(q)
  <2>1. CASE q \in Places
    <3>1. PICK u \in Thread : \E i \in 1 .. Len(stack[u]) : q = <<u, i>>
      BY <2>1, PlaceDef
    <3>2. PICK i \in 1 .. Len(stack[u]) : q = <<u, i>>
      BY <3>1
    <3>3. i \in 1 .. Len(stack'[u]) /\ stack'[u][i] = st[u][i]
      BY <1>2
    <3>4. q \in Places'
      BY <3>2, <3>3, PlaceNext
    <3>5. Frame(q) = stack[u][i] /\ Frame(q)' = st[u][i]
      BY <3>2, <3>3, FrameIs
    <3>6. QED
      BY <1>5, <2>1, <3>2, <3>4, <3>5 DEF Same, Alike
  <2>2. CASE q \notin Places
    <3>1. q \notin Places'
      <4>1. SUFFICES ASSUME q \in Places'
                     PROVE  FALSE
        OBVIOUS
      <4>2. PICK u \in Thread : \E i \in 1 .. Len(stack'[u]) : q = <<u, i>>
        BY <4>1, PlaceNext
      <4>3. PICK i \in 1 .. Len(stack'[u]) : q = <<u, i>>
        BY <4>2
      <4>4. i \in 1 .. Len(stack[u])
        <5>1. CASE u = t
          <6>1. i # Len(stack[t]) + 1
            BY <1>5, <4>3, <5>1 DEF Beyond
          <6>2. QED
            BY <1>1, <4>3, <5>1, <6>1
        <5>2. CASE u # t
          BY <1>1, <5>2 DEF Alike
        <5>3. QED
          BY <5>1, <5>2
      <4>5. QED
        BY <2>2, <4>3, <4>4, PlaceDef
    <3>2. QED
      BY <2>2, <3>1, SameNowhere
  <2>3. QED
    BY <2>1, <2>2
<1>6. QED
  BY <1>2, <1>3, <1>4, <1>5 DEF Others, There

\* The topmost frame is taken off.
LEMMA TakenPlaces ==
  ASSUME TypeOK, NEW t \in Thread, stack[t] # << >>, stack' = Popped(t),
         NEW p, p = Here(t)
  PROVE  /\ \A q : q # p => Same(q)
         /\ p \in Places /\ p \notin Places' /\ Frame(p) = Top(t)
<1>1. /\ Len(stack[t]) \in Nat \ {0} /\ Top(t) = stack[t][Len(stack[t])]
      /\ Len(stack'[t]) = Len(stack[t]) - 1
      /\ \A i \in 1 .. Len(stack[t]) - 1 : stack'[t][i] = stack[t][i]
      /\ \A u \in Thread \ {t} : stack'[u] = stack[u]
  BY TakenOff, TopIs
<1>2. p \in Places /\ Frame(p) = Top(t)
  BY <1>1, PlaceDef, FrameIs DEF Here
<1>3. \A u \in Thread : \A i \in 1 .. Len(stack'[u]) :
        i \in 1 .. Len(stack[u]) /\ <<u, i>> # p /\ stack'[u][i] = stack[u][i]
  BY <1>1 DEF Here
<1>4. \A u \in Thread : \A i \in 1 .. Len(stack[u]) :
        <<u, i>> # p => i \in 1 .. Len(stack'[u])
  <2>1. SUFFICES ASSUME NEW u \in Thread, NEW i \in 1 .. Len(stack[u]), <<u, i>> # p
                 PROVE  i \in 1 .. Len(stack'[u])
    OBVIOUS
  <2>2. u = t => i # Len(stack[t])
    BY <2>1 DEF Here
  <2>3. QED
    BY <1>1, <2>2
<1>5. p \notin Places'
  BY <1>3, PlaceNext
<1>6. ASSUME NEW q, q # p
      PROVE  Same(q)
  <2>1. CASE q \in Places
    <3>1. PICK u \in Thread : \E i \in 1 .. Len(stack[u]) : q = <<u, i>>
      BY <2>1, PlaceDef
    <3>2. PICK i \in 1 .. Len(stack[u]) : q = <<u, i>>
      BY <3>1
    <3>3. i \in 1 .. Len(stack'[u]) /\ stack'[u][i] = stack[u][i]
      BY <1>3, <1>4, <1>6, <3>2
    <3>4. QED
      BY <3>2, <3>3, SameThere
  <2>2. CASE q \notin Places
    <3>1. q \notin Places'
      BY <1>3, <2>2, PlaceDef, PlaceNext
    <3>2. QED
      BY <2>2, <3>1, SameNowhere
  <2>3. QED
    BY <2>1, <2>2
<1>7. QED
  BY <1>2, <1>5, <1>6

-----------------------------------------------------------------------------
(* The list of handlers *)

LEMMA Ranks ==
  ASSUME TypeOK
  PROVE  \A h \in Handler : /\ Rank(h) \in Nat
                            /\ h \in After <=> Rank(h) > MaxId
                            /\ h \notin After => Rank(h) = id[h]
                            /\ h \in After => Rank(h) = MaxId + 1 + id[h]
<1>1. MaxId \in Nat
  BY SignalAssumption
<1>2. ASSUME NEW h \in Handler
      PROVE  /\ Rank(h) \in Nat
             /\ h \in After <=> Rank(h) > MaxId
             /\ h \notin After => Rank(h) = id[h]
             /\ h \in After => Rank(h) = MaxId + 1 + id[h]
  <2>1. id[h] \in 0 .. MaxId
    BY DEF TypeOK, Types
  <2>2. QED
    BY <1>1, <2>1 DEF Rank
<1>3. QED
  BY <1>2

Lists == [handlers : Handler \cup {None}, tail_before : Handler \cup {None},
          tail_after : Handler \cup {None}, next : [Handler -> Handler \cup {None}],
          prev : [Handler -> Handler \cup {None}]]

Up(h)   == {g \in Alive : Rank(g) > Rank(h)}
Down(h) == {g \in Alive : Rank(g) < Rank(h)}

LEMMA Ordered ==
  ASSUME TypeOK, InOrder
  PROVE  /\ hlist \in Lists /\ Alive \subseteq Handler
         /\ IsFirst(Alive, hlist.handlers)
         /\ IsLast(Alive \ After, hlist.tail_before) /\ IsLast(Alive, hlist.tail_after)
         /\ \A h \in Alive : IsFirst(Up(h), hlist.next[h]) /\ IsLast(Down(h), hlist.prev[h])
BY DEF TypeOK, Lists, InOrder, Up, Down, Alive

\* The handler that comes after h, and the first of all.
LEMMA After1 ==
  ASSUME TypeOK, InOrder, NEW h \in Alive
  PROVE  /\ hlist.next[h] \in Alive \cup {None}
         /\ hlist.next[h] # None => Rank(h) < Rank(hlist.next[h])
         /\ \A g \in Alive : Rank(h) < Rank(g) =>
              hlist.next[h] # None /\ Rank(hlist.next[h]) <= Rank(g)
<1>1. IsFirst(Up(h), hlist.next[h]) /\ Alive \subseteq Handler /\ hlist \in Lists
  BY Ordered
<1>2. None \notin Alive /\ \A g \in Alive : Rank(g) \in Nat
  BY <1>1, Ranks, SignalAssumption
<1>3. QED
  BY <1>1, <1>2 DEF IsFirst, Up

LEMMA First1 ==
  ASSUME TypeOK, InOrder
  PROVE  /\ hlist.handlers \in Alive \cup {None}
         /\ \A g \in Alive : hlist.handlers # None /\ Rank(hlist.handlers) <= Rank(g)
<1>1. IsFirst(Alive, hlist.handlers) /\ Alive \subseteq Handler
  BY Ordered
<1>2. None \notin Alive /\ \A g \in Alive : Rank(g) \in Nat
  BY <1>1, Ranks, SignalAssumption
<1>3. QED
  BY <1>1, <1>2 DEF IsFirst

\* No two handlers that are referenced have one rank.
Distinct == \A g, h \in Alive : Rank(g) = Rank(h) => g = h

\* handler_unref_R takes x out of the list.
LEMMA Unlinked ==
  ASSUME TypeOK, InOrder, Distinct, NEW x \in Alive, NEW A, A = Alive \ {x}, NEW l,
         l = Unlink(hlist, x)
  PROVE  /\ l \in Lists
         /\ IsFirst(A, l.handlers) /\ IsLast(A \ After, l.tail_before) /\ IsLast(A, l.tail_after)
         /\ \A h \in A : /\ IsFirst({g \in A : Rank(g) > Rank(h)}, l.next[h])
                         /\ IsLast({g \in A : Rank(g) < Rank(h)}, l.prev[h])
<1> DEFINE b == hlist.prev[x]
           n == hlist.next[x]
           nx == [Put(hlist.next, b, n) EXCEPT ![x] = None]
           pv == [Put(hlist.prev, n, b) EXCEPT ![x] = None]
<1>1. /\ hlist \in Lists /\ Alive \subseteq Handler /\ None \notin Handler
      /\ IsFirst(Alive, hlist.handlers)
      /\ IsLast(Alive \ After, hlist.tail_before) /\ IsLast(Alive, hlist.tail_after)
      /\ \A h \in Alive : IsFirst(Up(h), hlist.next[h]) /\ IsLast(Down(h), hlist.prev[h])
  BY Ordered, SignalAssumption
<1>2. /\ b \in Handler \cup {None} /\ n \in Handler \cup {None}
      /\ IsFirst(Up(x), n) /\ IsLast(Down(x), b)
      /\ hlist.next \in [Handler -> Handler \cup {None}]
      /\ hlist.prev \in [Handler -> Handler \cup {None}]
      /\ hlist.handlers \in Handler \cup {None}
      /\ hlist.tail_before \in Handler \cup {None} /\ hlist.tail_after \in Handler \cup {None}
  BY <1>1 DEF Lists
<1>3. /\ nx \in [Handler -> Handler \cup {None}] /\ pv \in [Handler -> Handler \cup {None}]
      /\ \A h \in Alive \ {x} : /\ nx[h] = IF h = b THEN n ELSE hlist.next[h]
                                /\ pv[h] = IF h = n THEN b ELSE hlist.prev[h]
  BY <1>1, <1>2 DEF Put
<1>4. \A g \in Alive : Rank(g) \in Nat /\ (g \in After <=> Rank(g) > MaxId)
  BY <1>1, Ranks
<1>5. MaxId \in Nat
  BY SignalAssumption
<1>6. l = [handlers |-> IF b = None THEN n ELSE hlist.handlers,
           tail_before |-> IF x \notin After /\ (n = None \/ n \in After)
                           THEN b ELSE hlist.tail_before,
           tail_after |-> IF n = None THEN b ELSE hlist.tail_after,
           next |-> nx, prev |-> pv]
  BY DEF Unlink
<1> HIDE DEF nx, pv
<1>7. /\ l.handlers = IF b = None THEN n ELSE hlist.handlers
      /\ l.tail_before = IF x \notin After /\ (n = None \/ n \in After)
                         THEN b ELSE hlist.tail_before
      /\ l.tail_after = IF n = None THEN b ELSE hlist.tail_after
      /\ l.next = nx /\ l.prev = pv /\ l \in Lists
  BY <1>2, <1>3, <1>6 DEF Lists
<1> HIDE DEF b, n
<1>8. /\ n = None => Up(x) = {}
      /\ n # None => n \in Alive /\ Rank(n) > Rank(x) /\ \A g \in Up(x) : Rank(n) <= Rank(g)
      /\ b = None => Down(x) = {}
      /\ b # None => b \in Alive /\ Rank(b) < Rank(x) /\ \A g \in Down(x) : Rank(g) <= Rank(b)
  BY <1>1, <1>2, <1>4 DEF IsFirst, IsLast, Up, Down
<1>9. \A g \in A : g \in Up(x) \/ g \in Down(x)
  BY <1>4 DEF Distinct, Up, Down
<1>10. A \subseteq Alive /\ x \notin A /\ \A g \in Alive : g \in A \/ g = x
  OBVIOUS
<1>11. IsFirst(A, l.handlers)
  <2>1. CASE b = None
    <3>1. A = Up(x)
      BY <1>8, <1>9, <1>10, <2>1, <1>4 DEF Up
    <3>2. QED
      BY <1>2, <1>7, <2>1, <3>1
  <2>2. CASE b # None
    <3>1. hlist.handlers # x /\ hlist.handlers \in Alive
      BY <1>1, <1>4, <1>8, <2>2 DEF IsFirst
    <3>2. QED
      BY <1>1, <1>7, <1>10, <2>2, <3>1 DEF IsFirst
  <2>3. QED
    BY <2>1, <2>2
<1>12. IsLast(A, l.tail_after)
  <2>1. CASE n = None
    <3>1. A = Down(x)
      BY <1>8, <1>9, <1>10, <2>1, <1>4 DEF Down
    <3>2. QED
      BY <1>2, <1>7, <2>1, <3>1
  <2>2. CASE n # None
    <3>1. hlist.tail_after # x /\ hlist.tail_after \in Alive
      BY <1>1, <1>4, <1>8, <2>2 DEF IsLast
    <3>2. QED
      BY <1>1, <1>7, <1>10, <2>2, <3>1 DEF IsLast
  <2>3. QED
    BY <2>1, <2>2
<1>13. IsLast(A \ After, l.tail_before)
  <2>1. CASE x \in After
    <3>1. A \ After = Alive \ After
      BY <2>1
    <3>2. QED
      BY <1>1, <1>7, <2>1, <3>1
  <2>2. CASE x \notin After /\ (n = None \/ n \in After)
    <3>1. \A g \in Up(x) : g \in After
      BY <1>4, <1>5, <1>8, <2>2 DEF Up
    <3>2. \A g \in Down(x) : g \notin After
      BY <1>4, <1>5, <2>2 DEF Down
    <3>3. A \ After = Down(x)
      BY <1>4, <1>9, <1>10, <3>1, <3>2 DEF Down
    <3>4. QED
      BY <1>2, <1>7, <2>2, <3>3
  <2>3. CASE x \notin After /\ n # None /\ n \notin After
    <3>1. n \in Alive \ After /\ Rank(n) > Rank(x)
      BY <1>8, <2>3
    <3>2. hlist.tail_before # x /\ hlist.tail_before \in Alive \ After
      BY <1>1, <1>4, <3>1 DEF IsLast
    <3>3. QED
      BY <1>1, <1>7, <1>10, <2>3, <3>2 DEF IsLast
  <2>4. QED
    BY <2>1, <2>2, <2>3
<1>14. ASSUME NEW h \in A
       PROVE  IsFirst({g \in A : Rank(g) > Rank(h)}, l.next[h])
  <2>1. IsFirst(Up(h), hlist.next[h]) /\ h \in Alive /\ h # x
    BY <1>1, <1>10
  <2>2. CASE h = b
    <3>1. b # None /\ Rank(b) < Rank(x)
      BY <1>1, <1>8, <2>1, <2>2
    <3>2. \A g \in A : Rank(g) > Rank(h) => g \in Up(x)
      BY <1>4, <1>8, <1>9, <1>10, <2>1, <2>2, <3>1 DEF Down
    <3>3. \A g \in Up(x) : g \in A /\ Rank(g) > Rank(h)
      BY <1>4, <1>10, <2>1, <2>2, <3>1 DEF Up
    <3>4. {g \in A : Rank(g) > Rank(h)} = Up(x)
      BY <1>10, <3>2, <3>3
    <3>5. QED
      BY <1>2, <1>3, <1>7, <2>1, <2>2, <3>4
  <2>3. CASE h # b
    <3>1. hlist.next[h] # x
      <4>1. SUFFICES ASSUME hlist.next[h] = x
                     PROVE  FALSE
        OBVIOUS
      <4>2. Rank(x) > Rank(h) /\ \A g \in Up(h) : g # x => Rank(x) < Rank(g)
        BY <1>1, <2>1, <4>1 DEF IsFirst, Up
      <4>3. h \in Down(x)
        BY <1>4, <2>1, <4>2 DEF Down
      <4>4. b # None /\ b \in Alive /\ Rank(b) < Rank(x) /\ Rank(h) <= Rank(b)
        BY <1>8, <4>3
      <4>5. Rank(h) # Rank(b)
        BY <2>1, <2>3, <4>4 DEF Distinct
      <4>6. b \in Up(h) /\ b # x
        BY <1>4, <2>1, <4>4, <4>5 DEF Up
      <4>7. QED
        BY <1>4, <4>2, <4>4, <4>6
    <3>2. {g \in A : Rank(g) > Rank(h)} = Up(h) \ {x}
      BY <1>10 DEF Up
    <3>3. IsFirst(Up(h) \ {x}, hlist.next[h])
      BY <2>1, <3>1 DEF IsFirst
    <3>4. QED
      BY <1>3, <1>7, <2>1, <2>3, <3>2, <3>3
  <2>4. QED
    BY <2>2, <2>3
<1>15. ASSUME NEW h \in A
       PROVE  IsLast({g \in A : Rank(g) < Rank(h)}, l.prev[h])
  <2>1. IsLast(Down(h), hlist.prev[h]) /\ h \in Alive /\ h # x
    BY <1>1, <1>10
  <2>2. CASE h = n
    <3>1. n # None /\ Rank(n) > Rank(x)
      BY <1>1, <1>8, <2>1, <2>2
    <3>2. \A g \in A : Rank(g) < Rank(h) => g \in Down(x)
      BY <1>4, <1>8, <1>9, <1>10, <2>1, <2>2, <3>1 DEF Up
    <3>3. \A g \in Down(x) : g \in A /\ Rank(g) < Rank(h)
      BY <1>4, <1>10, <2>1, <2>2, <3>1 DEF Down
    <3>4. {g \in A : Rank(g) < Rank(h)} = Down(x)
      BY <1>10, <3>2, <3>3
    <3>5. QED
      BY <1>2, <1>3, <1>7, <2>1, <2>2, <3>4
  <2>3. CASE h # n
    <3>1. hlist.prev[h] # x
      <4>1. SUFFICES ASSUME hlist.prev[h] = x
                     PROVE  FALSE
        OBVIOUS
      <4>2. Rank(x) < Rank(h) /\ \A g \in Down(h) : g # x => Rank(g) < Rank(x)
        BY <1>1, <2>1, <4>1 DEF IsLast, Down
      <4>3. h \in Up(x)
        BY <1>4, <2>1, <4>2 DEF Up
      <4>4. n # None /\ n \in Alive /\ Rank(n) > Rank(x) /\ Rank(n) <= Rank(h)
        BY <1>8, <4>3
      <4>5. Rank(h) # Rank(n)
        BY <2>1, <2>3, <4>4 DEF Distinct
      <4>6. n \in Down(h) /\ n # x
        BY <1>4, <2>1, <4>4, <4>5 DEF Down
      <4>7. QED
        BY <1>4, <4>2, <4>4, <4>6
    <3>2. {g \in A : Rank(g) < Rank(h)} = Down(h) \ {x}
      BY <1>10 DEF Down
    <3>3. IsLast(Down(h) \ {x}, hlist.prev[h])
      BY <2>1, <3>1 DEF IsLast
    <3>4. QED
      BY <1>3, <1>7, <2>1, <2>3, <3>2, <3>3
  <2>4. QED
    BY <2>2, <2>3
<1>16. QED
  BY <1>7, <1>11, <1>12, <1>13, <1>14, <1>15

\* handler_insert_L puts x where its new id n belongs.
LEMMA Inserted ==
  ASSUME TypeOK, InOrder, Distinct, NEW x \in Handler, x \notin Alive, NEW A, A = Alive \cup {x},
         NEW n \in 0 .. MaxId, \A g \in Alive : id[g] < n,
         NEW r, r = (IF x \in After THEN MaxId + 1 + n ELSE n),
         Alive' = A, Rank(x)' = r, \A g \in Alive : Rank(g)' = Rank(g),
         NEW l, l = Insert(hlist, x), hlist' = l
  PROVE  hlist' \in Lists /\ InOrder' /\ Distinct'
<1> DEFINE b == IF hlist.handlers = None THEN None
                ELSE IF x \in After THEN hlist.tail_after ELSE hlist.tail_before
           a == IF hlist.handlers = None \/ x \in After THEN None
                ELSE IF b = None THEN hlist.handlers ELSE hlist.next[b]
           nx == Put([hlist.next EXCEPT ![x] = a], b, x)
           pv == Put([hlist.prev EXCEPT ![x] = b], a, x)
<1>1. /\ hlist \in Lists /\ Alive \subseteq Handler /\ None \notin Handler /\ MaxId \in Nat
      /\ IsFirst(Alive, hlist.handlers)
      /\ IsLast(Alive \ After, hlist.tail_before) /\ IsLast(Alive, hlist.tail_after)
      /\ \A h \in Alive : IsFirst(Up(h), hlist.next[h]) /\ IsLast(Down(h), hlist.prev[h])
  BY Ordered, SignalAssumption
<1>2. \A g \in Alive : /\ Rank(g) \in Nat
                       /\ g \in After <=> Rank(g) > MaxId
                       /\ g \notin After => Rank(g) < n
                       /\ g \in After => Rank(g) < MaxId + 1 + n
  <2>1. SUFFICES ASSUME NEW g \in Alive
                 PROVE  /\ Rank(g) \in Nat
                        /\ g \in After <=> Rank(g) > MaxId
                        /\ g \notin After => Rank(g) < n
                        /\ g \in After => Rank(g) < MaxId + 1 + n
    OBVIOUS
  <2>2. id[g] \in 0 .. MaxId /\ id[g] < n
    BY <1>1 DEF TypeOK, Types
  <2>3. QED
    BY <1>1, <2>2, Ranks
<1>3. /\ hlist.handlers = None <=> Alive = {}
      /\ hlist.handlers # None => /\ hlist.handlers \in Alive
                                  /\ \A g \in Alive : Rank(hlist.handlers) <= Rank(g)
  BY <1>1, <1>2 DEF IsFirst
<1>4. /\ b \in Alive \cup {None} /\ a \in Alive \cup {None}
      /\ b # None => Rank(b) < r
      /\ \A g \in Alive : Rank(g) < r => b # None /\ Rank(g) <= Rank(b)
      /\ a # None => r < Rank(a)
      /\ \A g \in Alive : r <= Rank(g) => a # None /\ Rank(a) <= Rank(g)
      /\ x \in After => a = None
  <2>1. CASE Alive = {}
    BY <1>3, <2>1
  <2>2. CASE Alive # {} /\ x \in After
    <3>1. a = None /\ b = hlist.tail_after
      BY <1>3, <2>2
    <3>2. b \in Alive /\ \A g \in Alive : Rank(g) <= Rank(b)
      BY <1>1, <1>2, <2>2, <3>1 DEF IsLast
    <3>3. \A g \in Alive : Rank(g) < r
      BY <1>1, <1>2, <2>2
    <3>4. QED
      BY <1>1, <1>2, <2>2, <3>1, <3>2, <3>3
  <2>3. CASE Alive # {} /\ x \notin After
    <3>1. /\ b = hlist.tail_before /\ r = n
          /\ a = IF b = None THEN hlist.handlers ELSE hlist.next[b]
      BY <1>3, <2>3
    <3>2. \A g \in Alive : (Rank(g) < r <=> g \notin After) /\ (r < Rank(g) <=> g \in After)
      BY <1>1, <1>2, <3>1
    <3>3. CASE b = None
      <4>1. Alive \ After = {}
        BY <1>1, <3>1, <3>3 DEF IsLast
      <4>2. a = hlist.handlers
        BY <3>1, <3>3
      <4>3. QED
        BY <1>2, <1>3, <2>3, <3>2, <3>3, <4>1, <4>2
    <3>4. CASE b # None
      <4>1. b \in Alive \ After /\ \A g \in Alive \ After : Rank(g) <= Rank(b)
        BY <1>1, <1>2, <3>1, <3>4 DEF IsLast
      <4>2. a = hlist.next[b] /\ IsFirst(Up(b), a)
        BY <1>1, <3>1, <3>4, <4>1
      <4>3. \A g \in Alive : g \in Up(b) <=> g \in After
        BY <1>1, <1>2, <4>1 DEF Up
      <4>4. Up(b) \subseteq Alive
        BY DEF Up
      <4>5. QED
        BY <1>1, <1>2, <2>3, <3>2, <3>4, <4>1, <4>2, <4>3, <4>4 DEF IsFirst
    <3>5. QED
      BY <3>3, <3>4
  <2>4. QED
    BY <2>1, <2>2, <2>3
<1>5. l = [handlers |-> IF b = None THEN x ELSE hlist.handlers,
           tail_before |-> IF x \in After THEN hlist.tail_before ELSE x,
           tail_after |-> IF a = None THEN x ELSE hlist.tail_after,
           next |-> nx, prev |-> pv]
  BY DEF Insert
<1>6. /\ b # x /\ a # x
      /\ nx \in [Handler -> Handler \cup {None}] /\ pv \in [Handler -> Handler \cup {None}]
      /\ nx[x] = a /\ pv[x] = b
      /\ \A h \in Alive : /\ nx[h] = IF h = b THEN x ELSE hlist.next[h]
                          /\ pv[h] = IF h = a THEN x ELSE hlist.prev[h]
  <2>1. /\ hlist.next \in [Handler -> Handler \cup {None}]
        /\ hlist.prev \in [Handler -> Handler \cup {None}]
        /\ b # x /\ a # x /\ b \in Handler \cup {None} /\ a \in Handler \cup {None}
    BY <1>1, <1>4 DEF Lists
  <2> HIDE DEF a, b
  <2>2. QED
    BY <1>1, <2>1 DEF Put
<1> HIDE DEF nx, pv
<1>7. /\ l.handlers = IF b = None THEN x ELSE hlist.handlers
      /\ l.tail_before = IF x \in After THEN hlist.tail_before ELSE x
      /\ l.tail_after = IF a = None THEN x ELSE hlist.tail_after
      /\ l.next = nx /\ l.prev = pv /\ l \in Lists
  <2>1. /\ hlist.handlers \in Handler \cup {None}
        /\ hlist.tail_before \in Handler \cup {None} /\ hlist.tail_after \in Handler \cup {None}
    BY <1>1 DEF Lists
  <2> HIDE DEF a, b
  <2>2. QED
    BY <1>5, <1>6, <2>1 DEF Lists
<1> HIDE DEF a, b
<1>8. r \in Nat /\ \A g \in Alive : Rank(g) # r
  BY <1>1, <1>2, <1>4
<1>9. \A g \in Alive : Rank(g)' = Rank(g)
  OBVIOUS
<1>10. IsFirst(A, l.handlers)'
  <2>1. l.handlers \in A /\ \A g \in A \ {l.handlers} : Rank(l.handlers)' < Rank(g)'
    <3>1. CASE b = None
      BY <1>2, <1>4, <1>7, <1>8, <3>1
    <3>2. CASE b # None
      <4>1. /\ l.handlers = hlist.handlers /\ hlist.handlers \in Alive
            /\ Rank(hlist.handlers) <= Rank(b) /\ Rank(b) < r /\ b \in Alive
        BY <1>3, <1>4, <1>7, <3>2
      <4>2. \A g \in Alive \ {l.handlers} : Rank(l.handlers) < Rank(g)
        BY <1>1, <4>1 DEF IsFirst
      <4>3. QED
        BY <1>2, <1>8, <4>1, <4>2
    <3>3. QED
      BY <3>1, <3>2
  <2>2. QED
    BY <2>1 DEF IsFirst
<1>11. IsLast(A, l.tail_after)'
  <2>1. l.tail_after \in A /\ \A g \in A \ {l.tail_after} : Rank(g)' < Rank(l.tail_after)'
    <3>1. CASE a = None
      BY <1>2, <1>4, <1>7, <1>8, <3>1
    <3>2. CASE a # None
      <4>1. hlist.tail_after \in Alive /\ \A g \in Alive \ {hlist.tail_after} : Rank(g) < Rank(hlist.tail_after)
        BY <1>4, <3>2, <1>1 DEF IsLast
      <4>2. /\ l.tail_after = hlist.tail_after
            /\ Rank(a) <= Rank(hlist.tail_after) /\ r < Rank(a) /\ a \in Alive
        BY <1>2, <1>4, <1>7, <3>2, <4>1
      <4>3. QED
        BY <1>2, <1>8, <4>1, <4>2
    <3>3. QED
      BY <3>1, <3>2
  <2>2. QED
    BY <2>1 DEF IsLast
<1>12. IsLast(A \ After, l.tail_before)'
  <2>1. CASE x \in After
    <3>1. l.tail_before = hlist.tail_before /\ A \ After = Alive \ After
      BY <1>7, <2>1
    <3>2. IsLast(Alive \ After, l.tail_before)
      BY <1>1, <3>1
    <3>3. QED
      BY <3>1, <3>2 DEF IsLast
  <2>2. CASE x \notin After
    <3>1. /\ l.tail_before = x /\ x \in A \ After /\ r = n
          /\ \A g \in (A \ After) \ {x} : g \in Alive /\ Rank(g) < n
      BY <1>2, <1>7, <2>2
    <3>2. QED
      BY <3>1 DEF IsLast
  <2>3. QED
    BY <2>1, <2>2
<1>13. ASSUME NEW h \in A
       PROVE  IsFirst({g \in A : Rank(g) > Rank(h)}, l.next[h])'
  <2> DEFINE S == {g \in A : Rank(g)' > Rank(h)'}
  <2>1. IF S = {} THEN l.next[h] = None
        ELSE l.next[h] \in S /\ \A g \in S \ {l.next[h]} : Rank(l.next[h])' < Rank(g)'
    <3>1. CASE h = x
      <4>1. S = {g \in Alive : Rank(g) > r}
        BY <1>8, <3>1
      <4>2. l.next[h] = a
        BY <1>6, <1>7, <3>1
      <4>3. a = None => S = {}
        BY <1>2, <1>4, <1>8, <4>1
      <4>4. a # None => a \in S /\ \A g \in S : Rank(a) <= Rank(g)
        BY <1>2, <1>4, <1>8, <4>1
      <4>5. QED
        BY <1>1, <1>2, <1>4, <4>1, <4>2, <4>3, <4>4 DEF Distinct
    <3>2. CASE h # x /\ h = b
      <4>1. h \in Alive /\ l.next[h] = x /\ Rank(h) < r
        BY <1>1, <1>4, <1>6, <1>7, <3>2
      <4>2. \A g \in S \ {x} : g \in Alive /\ r < Rank(g)
        BY <1>2, <1>4, <1>8, <3>2, <4>1
      <4>3. x \in S
        BY <4>1
      <4>4. QED
        BY <4>1, <4>2, <4>3
    <3>3. CASE h # x /\ h # b
      <4>1. h \in Alive /\ l.next[h] = hlist.next[h] /\ IsFirst(Up(h), hlist.next[h])
        BY <1>1, <1>6, <1>7, <3>3
      <4>2. CASE Rank(h) < r
        <5>1. b \in Alive /\ Rank(h) <= Rank(b) /\ Rank(b) < r
          BY <1>4, <4>1, <4>2
        <5>2. Rank(h) < Rank(b)
          BY <1>2, <3>3, <4>1, <5>1 DEF Distinct
        <5>3. b \in Up(h)
          BY <5>1, <5>2 DEF Up
        <5>4. /\ hlist.next[h] \in Up(h) /\ Rank(hlist.next[h]) <= Rank(b)
              /\ \A g \in Up(h) \ {hlist.next[h]} : Rank(hlist.next[h]) < Rank(g)
          <6>1. /\ hlist.next[h] \in Up(h)
                /\ \A g \in Up(h) \ {hlist.next[h]} : Rank(hlist.next[h]) < Rank(g)
            BY <4>1, <5>3 DEF IsFirst
          <6>2. Rank(hlist.next[h]) < Rank(b) \/ hlist.next[h] = b
            BY <5>3, <6>1
          <6>3. hlist.next[h] \in Alive
            BY <6>1 DEF Up
          <6>4. QED
            BY <1>2, <5>1, <6>1, <6>2, <6>3
        <5>5. S = Up(h) \cup {x}
          BY <1>2, <4>1, <4>2 DEF Up
        <5>6. QED
          BY <1>2, <1>8, <4>1, <5>1, <5>4, <5>5 DEF Up
      <4>3. CASE ~ (Rank(h) < r)
        <5>1. S = Up(h)
          BY <1>2, <1>8, <4>1, <4>3 DEF Up
        <5>2. QED
          BY <4>1, <5>1 DEF IsFirst, Up
      <4>4. QED
        BY <4>2, <4>3
    <3>4. QED
      BY <3>1, <3>2, <3>3
  <2>2. QED
    BY <2>1 DEF IsFirst
<1>14. ASSUME NEW h \in A
       PROVE  IsLast({g \in A : Rank(g) < Rank(h)}, l.prev[h])'
  <2> DEFINE S == {g \in A : Rank(g)' < Rank(h)'}
  <2>1. IF S = {} THEN l.prev[h] = None
        ELSE l.prev[h] \in S /\ \A g \in S \ {l.prev[h]} : Rank(g)' < Rank(l.prev[h])'
    <3>1. CASE h = x
      <4>1. S = {g \in Alive : Rank(g) < r}
        BY <1>8, <3>1
      <4>2. l.prev[h] = b
        BY <1>6, <1>7, <3>1
      <4>3. b = None => S = {}
        BY <1>2, <1>4, <1>8, <4>1
      <4>4. b # None => b \in S /\ \A g \in S : Rank(g) <= Rank(b)
        BY <1>2, <1>4, <1>8, <4>1
      <4>5. QED
        BY <1>1, <1>2, <1>4, <4>1, <4>2, <4>3, <4>4 DEF Distinct
    <3>2. CASE h # x /\ h = a
      <4>1. h \in Alive /\ l.prev[h] = x /\ r < Rank(h)
        BY <1>1, <1>4, <1>6, <1>7, <3>2
      <4>2. \A g \in S \ {x} : g \in Alive /\ Rank(g) < r
        BY <1>2, <1>4, <1>8, <3>2, <4>1
      <4>3. x \in S
        BY <4>1
      <4>4. QED
        BY <4>1, <4>2, <4>3
    <3>3. CASE h # x /\ h # a
      <4>1. h \in Alive /\ l.prev[h] = hlist.prev[h] /\ IsLast(Down(h), hlist.prev[h])
        BY <1>1, <1>6, <1>7, <3>3
      <4>2. CASE r < Rank(h)
        <5>1. a \in Alive /\ Rank(a) <= Rank(h) /\ r < Rank(a)
          BY <1>2, <1>4, <1>8, <4>1, <4>2
        <5>2. Rank(a) < Rank(h)
          BY <1>2, <3>3, <4>1, <5>1 DEF Distinct
        <5>3. a \in Down(h)
          BY <5>1, <5>2 DEF Down
        <5>4. /\ hlist.prev[h] \in Down(h) /\ Rank(a) <= Rank(hlist.prev[h])
              /\ \A g \in Down(h) \ {hlist.prev[h]} : Rank(g) < Rank(hlist.prev[h])
          <6>1. /\ hlist.prev[h] \in Down(h)
                /\ \A g \in Down(h) \ {hlist.prev[h]} : Rank(g) < Rank(hlist.prev[h])
            BY <4>1, <5>3 DEF IsLast
          <6>2. Rank(a) < Rank(hlist.prev[h]) \/ hlist.prev[h] = a
            BY <5>3, <6>1
          <6>3. hlist.prev[h] \in Alive
            BY <6>1 DEF Down
          <6>4. QED
            BY <1>2, <5>1, <6>1, <6>2, <6>3
        <5>5. S = Down(h) \cup {x}
          BY <1>2, <4>1, <4>2 DEF Down
        <5>6. QED
          BY <1>2, <1>8, <4>1, <5>1, <5>4, <5>5 DEF Down
      <4>3. CASE ~ (r < Rank(h))
        <5>1. S = Down(h)
          BY <1>2, <1>8, <4>1, <4>3 DEF Down
        <5>2. QED
          BY <4>1, <5>1 DEF IsLast, Down
      <4>4. QED
        BY <4>2, <4>3
    <3>4. QED
      BY <3>1, <3>2, <3>3
  <2>2. QED
    BY <2>1 DEF IsLast
<1>15. Distinct'
  BY <1>2, <1>8 DEF Distinct
<1>16. InOrder'
  BY <1>10, <1>11, <1>12, <1>13, <1>14 DEF InOrder
<1>17. QED
  BY <1>7, <1>15, <1>16

\* The list and its handlers do not change.
LEMMA OrderKept ==
  ASSUME InOrder, Distinct, Alive' = Alive, UNCHANGED hlist,
         \A g \in Alive : Rank(g)' = Rank(g)
  PROVE  InOrder' /\ Distinct'
<1> PICK A : A = Alive
  OBVIOUS
<1> PICK l : l = hlist
  OBVIOUS
<1>1. Alive' = A /\ hlist' = l
  OBVIOUS
<1>2. IsFirst(A, l.handlers) /\ IsLast(A \ After, l.tail_before) /\ IsLast(A, l.tail_after)
  BY DEF InOrder
<1>3. IsFirst(A, l.handlers)'
  BY <1>2 DEF IsFirst
<1>4. IsLast(A \ After, l.tail_before)'
  BY <1>2 DEF IsLast
<1>5. IsLast(A, l.tail_after)'
  BY <1>2 DEF IsLast
<1>6. ASSUME NEW h \in A
      PROVE  /\ IsFirst({g \in A : Rank(g) > Rank(h)}, l.next[h])'
             /\ IsLast({g \in A : Rank(g) < Rank(h)}, l.prev[h])'
  <2>1. /\ IsFirst({g \in A : Rank(g) > Rank(h)}, l.next[h])
        /\ IsLast({g \in A : Rank(g) < Rank(h)}, l.prev[h])
    BY DEF InOrder
  <2>2. /\ {g \in A : Rank(g)' > Rank(h)'} = {g \in A : Rank(g) > Rank(h)}
        /\ {g \in A : Rank(g)' < Rank(h)'} = {g \in A : Rank(g) < Rank(h)}
    OBVIOUS
  <2>3. IsFirst({g \in A : Rank(g) > Rank(h)}, l.next[h])'
    BY <2>1, <2>2 DEF IsFirst
  <2>4. IsLast({g \in A : Rank(g) < Rank(h)}, l.prev[h])'
    BY <2>1, <2>2 DEF IsLast
  <2>5. QED
    BY <2>3, <2>4
<1>7. InOrder'
  BY <1>1, <1>3, <1>4, <1>5, <1>6 DEF InOrder
<1>8. Distinct'
  BY DEF Distinct
<1>9. QED
  BY <1>7, <1>8

AliveBy(refs) == {h \in Handler : refs[h] > 0}

\* The counts are refs without a reference to x.
Less(refs, x) == \A h \in Handler : ref_count'[h] = refs[h] - One(h = x)

\* What handler_unref_R does to the counts, the list and the stacks.
LEMMA Unreffed ==
  ASSUME TypeOK, InOrder, Distinct, UNCHANGED id, NEW t \in Thread, NEW x \in Handler,
         NEW refs \in [Handler -> Nat], Alive = AliveBy(refs),
         NEW st, NEW locked \in BOOLEAN, Unref(t, x, refs, st, locked)
  PROVE  /\ InOrder' /\ Distinct' /\ hlist' \in Lists /\ x \in Alive
         /\ ref_count' \in [Handler -> Nat] /\ Less(refs, x)
         /\ \/ /\ Alive' = Alive /\ stack' = st
               /\ lock' = IF locked THEN t ELSE None
            \/ /\ Alive' = Alive \ {x} /\ lock' = None
               /\ stack' = On(st, t, Drop(x, TRUE, locked))
<1>1. Alive' = {h \in Handler : ref_count'[h] > 0}
  BY DEF Alive
<1>2. \A g \in Handler : Rank(g)' = Rank(g)
  BY DEF Rank
<1>3. Alive \subseteq Handler
  BY DEF Alive
<1>4. CASE /\ refs[x] > 1 /\ ref_count' = [refs EXCEPT ![x] = @ - 1] /\ stack' = st
           /\ lock' = (IF locked THEN t ELSE None) /\ UNCHANGED hlist
  <2>1. /\ ref_count' \in [Handler -> Nat]
        /\ \A h \in Handler : ref_count'[h] = refs[h] - One(h = x)
    BY <1>4 DEF One
  <2>2. Alive' = Alive /\ x \in Alive
    BY <1>1, <1>4, <2>1 DEF One, AliveBy
  <2>3. InOrder' /\ Distinct'
    BY <1>2, <1>3, <1>4, <2>2, OrderKept
  <2>4. hlist' \in Lists
    BY <1>4, Ordered
  <2>5. QED
    BY <1>4, <2>1, <2>2, <2>3, <2>4 DEF Less
<1>5. CASE /\ refs[x] = 1 /\ ref_count' = [refs EXCEPT ![x] = 0]
           /\ stack' = On(st, t, Drop(x, TRUE, locked))
           /\ lock' = None /\ hlist' = Unlink(hlist, x)
  <2>1. /\ ref_count' \in [Handler -> Nat]
        /\ \A h \in Handler : ref_count'[h] = refs[h] - One(h = x)
    BY <1>5 DEF One
  <2>2. Alive' = Alive \ {x} /\ x \in Alive
    BY <1>1, <1>5, <2>1 DEF One, AliveBy
  <2> PICK A : A = Alive \ {x}
    OBVIOUS
  <2> PICK l : l = Unlink(hlist, x)
    OBVIOUS
  <2>3. /\ l \in Lists
        /\ IsFirst(A, l.handlers) /\ IsLast(A \ After, l.tail_before) /\ IsLast(A, l.tail_after)
        /\ \A h \in A : /\ IsFirst({g \in A : Rank(g) > Rank(h)}, l.next[h])
                        /\ IsLast({g \in A : Rank(g) < Rank(h)}, l.prev[h])
    BY <2>2, Unlinked
  <2>4. Alive' = A /\ hlist' = l /\ \A g \in A : Rank(g)' = Rank(g)
    BY <1>2, <1>3, <1>5, <2>2
  <2>5. IsFirst(A, l.handlers)'
    BY <2>3, <2>4 DEF IsFirst
  <2>6. IsLast(A \ After, l.tail_before)'
    BY <2>3, <2>4 DEF IsLast
  <2>7. IsLast(A, l.tail_after)'
    BY <2>3, <2>4 DEF IsLast
  <2>8. ASSUME NEW h \in A
        PROVE  /\ IsFirst({g \in A : Rank(g) > Rank(h)}, l.next[h])'
               /\ IsLast({g \in A : Rank(g) < Rank(h)}, l.prev[h])'
    <3>1. /\ {g \in A : Rank(g)' > Rank(h)'} = {g \in A : Rank(g) > Rank(h)}
          /\ {g \in A : Rank(g)' < Rank(h)'} = {g \in A : Rank(g) < Rank(h)}
      BY <2>4
    <3>2. IsFirst({g \in A : Rank(g) > Rank(h)}, l.next[h])'
      <4>1. IsFirst({g \in A : Rank(g) > Rank(h)}, l.next[h])
        BY <2>3
      <4>2. QED
        BY <2>4, <3>1, <4>1 DEF IsFirst
    <3>3. IsLast({g \in A : Rank(g) < Rank(h)}, l.prev[h])'
      <4>1. IsLast({g \in A : Rank(g) < Rank(h)}, l.prev[h])
        BY <2>3
      <4>2. QED
        BY <2>4, <3>1, <4>1 DEF IsLast
    <3>4. QED
      BY <3>2, <3>3
  <2>9. InOrder'
    BY <2>4, <2>5, <2>6, <2>7, <2>8 DEF InOrder
  <2>10. Distinct'
    BY <2>2, <2>4 DEF Distinct
  <2>11. QED
    BY <1>5, <2>1, <2>2, <2>3, <2>4, <2>9, <2>10 DEF Less
<1>6. QED
  BY <1>4, <1>5 DEF Unref, On, Less

-----------------------------------------------------------------------------
(* What the steps of an emission preserve *)

\* What the proof of each action uses of the invariant.
LEMMA Facts ==
  ASSUME IInv
  PROVE  /\ TypeOK /\ Types /\ InOrder /\ Distinct
         /\ hlist \in Lists /\ Alive \subseteq Handler /\ connected \subseteq Alive
         /\ IsFiniteSet(Places)
         /\ stack \in [Thread -> Seq(AnyFrame)]
         /\ ref_count \in [Handler -> Nat]
         /\ \A h \in Handler :
              /\ ref_count[h] = One(h \in connected) + matched[h] + Held(h)
              /\ h \in Alive <=> ref_count[h] > 0
              /\ h \in Alive => h \in used
              /\ Held(h) \in Nat
              /\ HandlerOK(h) /\ ClosureOK(h)
         /\ \A t \in Thread : \A i \in 1 .. Len(stack[t]) : FrameOK(t, i)
<1>1. /\ TypeOK /\ RefsExact /\ InOrder /\ \A h \in Handler : HandlerOK(h) /\ ClosureOK(h)
      /\ \A t \in Thread : \A i \in 1 .. Len(stack[t]) : FrameOK(t, i)
  BY DEF IInv
<1>2. /\ Types /\ hlist \in Lists /\ IsFiniteSet(Places) /\ stack \in [Thread -> Seq(AnyFrame)]
      /\ ref_count \in [Handler -> Nat] /\ matched \in [Handler -> Nat]
  BY <1>1, StackType DEF TypeOK, Lists
<1>3. \A h \in Handler : Held(h) \in Nat
  BY <1>2, Finite DEF Held
<1>4. /\ Alive \subseteq Handler
      /\ \A h \in Handler : h \in Alive <=> ref_count[h] > 0
  BY DEF Alive
<1>5. Distinct
  BY <1>1, <1>4 DEF Distinct, HandlerOK
<1>6. \A h \in Handler : /\ ref_count[h] = One(h \in connected) + matched[h] + Held(h)
                         /\ h \in Alive => h \in used
  BY <1>1, <1>4 DEF RefsExact, One
<1>7. connected \subseteq Alive
  <2>1. SUFFICES ASSUME NEW h \in connected
                 PROVE  h \in Alive
    OBVIOUS
  <2>2. h \in Handler /\ matched[h] \in Nat /\ Held(h) \in Nat
    BY <1>2, <1>3 DEF Types
  <2>3. ref_count[h] = 1 + matched[h] + Held(h)
    BY <1>6, <2>2 DEF One
  <2>4. QED
    BY <1>4, <2>2, <2>3
<1>8. QED
  BY <1>1, <1>2, <1>3, <1>4, <1>5, <1>6, <1>7

\* Whatever an emission refers to is referenced.
LEMMA HeldIsAlive ==
  ASSUME IInv, NEW t \in Thread, NEW i \in 1 .. Len(stack[t]), stack[t][i].what = "emit",
         NEW x \in Handler, x \in {stack[t][i].list, stack[t][i].h}
  PROVE  x \in Alive
<1> PICK p : p = <<t, i>>
  OBVIOUS
<1>1. p \in Places /\ Frame(p) = stack[t][i]
  BY PlaceDef, FrameIs
<1>2. p \in Listing(x) \/ p \in Standing(x)
  BY <1>1 DEF Listing, Standing
<1>3. /\ IsFiniteSet(Listing(x)) /\ IsFiniteSet(Standing(x))
      /\ Cardinality(Listing(x)) \in Nat /\ Cardinality(Standing(x)) \in Nat
  BY Facts, Finite
<1>4. Held(x) > 0
  <2>1. Cardinality(Listing(x)) # 0 \/ Cardinality(Standing(x)) # 0
    BY <1>2, <1>3, FS_EmptySet
  <2>2. QED
    BY <1>3, <2>1 DEF Held
<1>5. matched[x] \in Nat /\ Held(x) \in Nat
  BY Facts DEF TypeOK
<1>6. ref_count[x] > 0
  BY <1>4, <1>5, Facts DEF One
<1>7. QED
  BY <1>6, Facts

\* An emission knows what it knew when nothing happens to what it refers to.
LEMMA EmitKept ==
  ASSUME NEW f, EmitOK(f),
         f.h # None => Rank(f.h)' = Rank(f.h), f.list # None => Rank(f.list)' = Rank(f.list),
         \A h \in Handler : Callable(h, f) => Callable(h, f)' /\ Rank(h)' = Rank(h)
  PROVE  EmitOK(f)'
<1>1. PlaceOK(f)'
  BY DEF EmitOK, PlaceOK
<1>2. CalledOK(f)'
  BY DEF EmitOK, CalledOK, Called, Ahead, Between
<1>3. DueOK(f)'
  <2>1. DueOK(f)
    BY DEF EmitOK
  <2>2. \A r \in f.due \ Called(f) : Between(f) => f.list # None
    BY <2>1, SignalAssumption DEF DueOK
  <2>3. QED
    BY <2>1, <2>2 DEF DueOK, Called, Ahead, Between, Behind
<1>4. \A r \in f.due : \E h \in Handler : Rank(h)' = r /\ Callable(h, f)'
  <2>1. \A r \in f.due : \E h \in Handler : Rank(h) = r /\ Callable(h, f)
    BY DEF EmitOK
  <2>2. QED
    BY <2>1
<1>5. QED
  BY <1>1, <1>2, <1>3, <1>4 DEF EmitOK

LEMMA EmitStill ==
  ASSUME NEW f, EmitOK(f), UNCHANGED <<id, connected, block_count>>
  PROVE  EmitOK(f)'
<1>1. /\ \A h : Rank(h)' = Rank(h)
      /\ \A h : Callable(h, f) => Callable(h, f)'
  BY DEF Rank, Callable
<1>2. QED
  BY <1>1, EmitKept

\* The frame in a place, when the step is that of an emission of t.
LEMMA FrameKept ==
  ASSUME IInv, Steady, NEW t \in Thread, lock \in {None, t}, Alive' \subseteq Alive,
         ref_count' \in [Handler -> Nat],
         NEW u \in Thread, NEW i \in 1 .. Len(stack[u]), <<u, i>> # Here(t),
         stack'[u][i] = stack[u][i]
  PROVE  FrameOK(u, i)'
<1> PICK f : f = stack[u][i]
  OBVIOUS
<1>1. FrameOK(u, i) /\ stack'[u][i] = f
  BY Facts
<1>2. CASE f.what = "emit"
  <2>1. EmitOK(f) /\ f.pc \notin Locking
    <3>1. f.pc \in Locking => lock = u /\ i = Len(stack[u])
      BY <1>1, <1>2 DEF FrameOK
    <3>2. None \notin Thread
      BY SignalAssumption
    <3>3. QED
      BY <1>1, <1>2, <3>1, <3>2 DEF FrameOK, Here
  <2>2. EmitOK(f)'
    BY <2>1, EmitStill DEF Steady, handlerVars
  <2>3. QED
    BY <1>1, <1>2, <2>1, <2>2 DEF FrameOK
<1>3. CASE f.what = "drop"
  <2>1. f \in AnyFrame
    BY Facts
  <2>2. f.h \in Handler
    BY <1>3, <2>1 DEF AnyFrame, Emissions, Fasts, Drops
  <2>3. DropOK(f)
    BY <1>1, <1>3 DEF FrameOK
  <2>4. f.handler => f.h \notin Alive
    BY <2>2, <2>3, Facts DEF DropOK
  <2>5. f.handler => f.h \notin Alive'
    BY <2>4
  <2>6. DropOK(f)'
    BY <2>2, <2>5 DEF DropOK, Alive
  <2>7. QED
    BY <1>1, <1>3, <2>6 DEF FrameOK
<1>4. CASE f.what \notin {"emit", "drop"}
  BY <1>1, <1>4 DEF FrameOK
<1>5. QED
  BY <1>2, <1>3, <1>4

\* The invariant after a step of an emission.
LEMMA Carried ==
  ASSUME IInv, Steady, Alive' \subseteq Alive, InOrder', hlist' \in Lists,
         ref_count' \in [Handler -> Nat], lock' \in Thread \cup {None},
         stack' \in [Thread -> Seq(AnyFrame)], IsFiniteSet(Places'),
         \A h \in Handler : ref_count'[h] = One(h \in connected) + matched[h] + Held(h)',
         \A h \in Handler : ClosureOK(h)',
         \A u \in Thread : \A i \in 1 .. Len(stack'[u]) : FrameOK(u, i)'
  PROVE  IInv'
<1>1. Types'
  <2>1. Types
    BY Facts
  <2>2. QED
    BY <2>1 DEF Types, Steady, handlerVars, closureVars
<1>2. TypeOK'
  <2>1. TypeOK
    BY DEF IInv
  <2>2. QED
    BY <1>1, <2>1 DEF TypeOK, Lists, AnyFrame, Steady, handlerVars, closureVars
<1>3. RefsExact'
  <2>1. ASSUME NEW h \in Handler
        PROVE  /\ ref_count'[h] = (IF h \in connected' THEN 1 ELSE 0) + matched'[h] + Held(h)'
               /\ ref_count'[h] > 0 => h \in used'
    <3>1. ref_count'[h] = One(h \in connected') + matched'[h] + Held(h)'
      BY DEF Steady, handlerVars
    <3>2. ref_count'[h] > 0 => h \in Alive
      BY DEF Alive
    <3>3. ref_count'[h] > 0 => h \in used'
      BY <3>2, Facts DEF Steady, handlerVars
    <3>4. QED
      BY <3>1, <3>3 DEF One
  <2>2. QED
    BY <1>1, <2>1 DEF RefsExact
<1>4. \A h \in Handler : HandlerOK(h)'
  <2>1. \A h : Rank(h)' = Rank(h)
    BY DEF Rank, Steady, handlerVars
  <2>2. \A h \in Handler : HandlerOK(h)
    BY Facts
  <2>3. QED
    BY <2>1, <2>2 DEF HandlerOK, Steady, handlerVars
<1>5. QED
  BY <1>2, <1>3, <1>4 DEF IInv

\* What a count becomes that is taken for a, which is referenced or None.
LEMMA Reffed ==
  ASSUME IInv, NEW a \in Alive \cup {None}, NEW refs, refs = Ref(ref_count, a)
  PROVE  /\ refs \in [Handler -> Nat] /\ Alive = AliveBy(refs)
         /\ \A h \in Handler : refs[h] = ref_count[h] + One(h = a)
<1>1. /\ ref_count \in [Handler -> Nat] /\ Alive \subseteq Handler
      /\ \A h \in Handler : h \in Alive <=> ref_count[h] > 0
  BY Facts
<1>2. None \notin Handler
  BY SignalAssumption
<1>3. \A h \in Handler : refs[h] = ref_count[h] + One(h = a)
  BY <1>1, <1>2 DEF Ref, One
<1>4. refs \in [Handler -> Nat]
  BY <1>1, <1>2 DEF Ref
<1>5. ASSUME NEW h \in Handler
      PROVE  h \in Alive <=> refs[h] > 0
  <2>1. ref_count[h] \in Nat /\ refs[h] = ref_count[h] + One(h = a)
    BY <1>1, <1>3
  <2>2. h \in Alive <=> ref_count[h] > 0
    BY <1>1
  <2>3. h = a => h \in Alive
    BY <1>2
  <2>4. QED
    BY <2>1, <2>2, <2>3 DEF One
<1>6. QED
  BY <1>1, <1>3, <1>4, <1>5 DEF AliveBy

\* How the sets of places see an emission in p.
LEMMA EmissionAt ==
  ASSUME NEW p, p \in Places, Frame(p).what = "emit", NEW h
  PROVE  /\ One(p \in Listing(h)) = One(Frame(p).list = h)
         /\ One(p \in Standing(h)) = One(Frame(p).h = h)
         /\ p \notin Invoking(h) /\ p \notin Dropping(h)
BY DEF Listing, Standing, Invoking, Dropping, One

LEMMA EmissionNext ==
  ASSUME NEW p, p \in Places', Frame(p)'.what = "emit", NEW h
  PROVE  /\ One(p \in Listing(h)') = One(Frame(p)'.list = h)
         /\ One(p \in Standing(h)') = One(Frame(p)'.h = h)
         /\ p \notin Invoking(h)' /\ p \notin Dropping(h)'
BY DEF Listing, Standing, Invoking, Dropping, One

\* An emission that becomes g: the count of h is still that of its references.
LEMMA Recounted ==
  ASSUME IInv, NEW f, NEW g, NEW h \in Handler, ref_count'[h] \in Nat,
         Cardinality(Listing(h)') = Cardinality(Listing(h)) + One(g.list = h) - One(f.list = h),
         Cardinality(Standing(h)') = Cardinality(Standing(h)) + One(g.h = h) - One(f.h = h),
         ref_count'[h] + One(f.list = h) + One(f.h = h)
           = ref_count[h] + One(g.list = h) + One(g.h = h)
  PROVE  ref_count'[h] = One(h \in connected) + matched[h] + Held(h)'
<1>1. /\ Cardinality(Listing(h)') = Cardinality(Listing(h)) + One(g.list = h) - One(f.list = h)
      /\ Cardinality(Standing(h)') = Cardinality(Standing(h)) + One(g.h = h) - One(f.h = h)
  OBVIOUS
<1>2. Cardinality(Listing(h)) \in Nat /\ Cardinality(Standing(h)) \in Nat
  BY Facts, Finite
<1>3. /\ ref_count[h] \in Nat /\ ref_count'[h] \in Nat /\ matched[h] \in Nat
      /\ One(h \in connected) \in Nat /\ One(g.list = h) \in Nat /\ One(g.h = h) \in Nat
      /\ One(f.list = h) \in Nat /\ One(f.h = h) \in Nat
  BY Facts DEF One, TypeOK
<1>4. /\ ref_count[h] = One(h \in connected) + matched[h] + Held(h)
      /\ ref_count'[h] + One(f.list = h) + One(f.h = h)
           = ref_count[h] + One(g.list = h) + One(g.h = h)
  BY Facts
<1>5. /\ Held(h) = Cardinality(Listing(h)) + Cardinality(Standing(h))
      /\ Held(h)' = Cardinality(Listing(h)') + Cardinality(Standing(h)')
  BY DEF Held
<1>6. PICK a1 \in Nat, a2 \in Nat, b1 \in Nat, b2 \in Nat, c \in Nat, m \in Nat :
        /\ a1 = One(f.list = h) /\ a2 = One(f.h = h)
        /\ b1 = One(g.list = h) /\ b2 = One(g.h = h)
        /\ c = One(h \in connected) /\ m = matched[h]
  BY <1>3
<1>7. PICK n1 \in Nat, n2 \in Nat, r \in Nat, r2 \in Nat :
        /\ n1 = Cardinality(Listing(h)) /\ n2 = Cardinality(Standing(h))
        /\ r = ref_count[h] /\ r2 = ref_count'[h]
  BY <1>2, <1>3
<1>8. r = c + m + (n1 + n2) /\ r2 + a1 + a2 = r + b1 + b2
  BY <1>4, <1>5, <1>6, <1>7
<1>9. Held(h)' = (n1 + b1 - a1) + (n2 + b2 - a2)
  BY <1>1, <1>5, <1>6, <1>7
<1>10. r2 = c + m + ((n1 + b1 - a1) + (n2 + b2 - a2))
  BY <1>8
<1>11. QED
  BY <1>6, <1>7, <1>9, <1>10

\* The counts change by what g refers to and f does not.
Counted(f, g) ==
  \A h \in Handler : ref_count'[h] + One(f.list = h) + One(f.h = h)
                       = ref_count[h] + One(g.list = h) + One(g.h = h)

\* A step of an emission that drops nothing: its topmost frame becomes g, which
\* refers to what it referred to and to a.
LEMMA TurnedStep ==
  ASSUME IInv, Steady, NEW t \in Thread, stack[t] # << >>, Top(t).what = "emit",
         NEW g \in AnyFrame, g.what = "emit", lock \in {None, t}, lock' \in {None, t},
         stack' = WithTop(t, g), Alive' = Alive, InOrder', hlist' \in Lists,
         ref_count' \in [Handler -> Nat],
         Counted(Top(t), g),
         g.pc \in Locking => lock' = t, EmitOK(g)
  PROVE  IInv'
<1> PICK p : p = Here(t)
  OBVIOUS
<1>1. /\ TypeOK /\ IsFiniteSet(Places) /\ stack \in [Thread -> Seq(AnyFrame)]
      /\ ref_count \in [Handler -> Nat] /\ matched \in [Handler -> Nat]
      /\ \A h \in Handler : ref_count[h] = One(h \in connected) + matched[h] + Held(h)
  BY Facts DEF TypeOK
<1>2. /\ \A q : q # p => Same(q)
      /\ p \in Places /\ p \in Places' /\ Frame(p) = Top(t) /\ Frame(p)' = g
  BY <1>1, TurnedPlaces
<1>3. /\ stack' \in [Thread -> Seq(AnyFrame)]
      /\ Len(stack'[t]) = Len(stack[t]) /\ stack'[t][Len(stack[t])] = g
      /\ \A i \in 1 .. Len(stack[t]) : i # Len(stack[t]) => stack'[t][i] = stack[t][i]
      /\ \A u \in Thread \ {t} : stack'[u] = stack[u]
  BY <1>1, Turned
<1>4. /\ IsFiniteSet(Places')
      /\ \A h : /\ Cardinality(Listing(h)') = Cardinality(Listing(h))
                     + One(p \in Listing(h)') - One(p \in Listing(h))
                /\ Cardinality(Standing(h)') = Cardinality(Standing(h))
                     + One(p \in Standing(h)') - One(p \in Standing(h))
  <2>1. IsFiniteSet(Places) /\ \A q : q # p => Same(q)
    BY <1>1, <1>2
  <2>2. QED
    BY <2>1, OneChanged
<1>5. ASSUME NEW h \in Handler
      PROVE  ref_count'[h] = One(h \in connected) + matched[h] + Held(h)'
  <2>1. /\ Cardinality(Listing(h)') = Cardinality(Listing(h)) + One(g.list = h)
              - One(Top(t).list = h)
        /\ Cardinality(Standing(h)') = Cardinality(Standing(h)) + One(g.h = h)
              - One(Top(t).h = h)
    <3>1. /\ One(p \in Listing(h)) = One(Top(t).list = h)
          /\ One(p \in Standing(h)) = One(Top(t).h = h)
      BY <1>2, EmissionAt
    <3>2. /\ One(p \in Listing(h)') = One(g.list = h)
          /\ One(p \in Standing(h)') = One(g.h = h)
      BY <1>2, EmissionNext
    <3>3. QED
      BY <1>4, <3>1, <3>2
  <2>2. /\ ref_count'[h] \in Nat
        /\ ref_count'[h] + One(Top(t).list = h) + One(Top(t).h = h)
             = ref_count[h] + One(g.list = h) + One(g.h = h)
    BY DEF Counted
  <2>3. QED
    BY <2>1, <2>2, Recounted
<1>6. ASSUME NEW h \in Handler
      PROVE  ClosureOK(h)'
  <2>1. \A q : /\ q \in Invoking(h)' <=> q \in Invoking(h)
               /\ q \in Dropping(h)' <=> q \in Dropping(h)
    BY <1>2, SameSets, EmissionAt, EmissionNext
  <2>2. Invoking(h)' = Invoking(h) /\ Dropping(h)' = Dropping(h)
    BY <2>1
  <2>3. ClosureOK(h)
    BY Facts
  <2>4. QED
    BY <2>2, <2>3 DEF ClosureOK, Steady, closureVars
<1>7. ASSUME NEW u \in Thread, NEW i \in 1 .. Len(stack'[u])
      PROVE  FrameOK(u, i)'
  <2>1. i \in 1 .. Len(stack[u])
    BY <1>3
  <2>2. CASE <<u, i>> = p
    <3>1. u = t /\ i = Len(stack'[t]) /\ stack'[u][i] = g
      BY <1>3, <2>2 DEF Here
    <3>2. EmitOK(g)'
      BY EmitStill DEF Steady, handlerVars
    <3>3. QED
      BY <3>1, <3>2 DEF FrameOK
  <2>3. CASE <<u, i>> # p
    <3>1. stack'[u][i] = stack[u][i]
      BY <1>3, <2>1, <2>3 DEF Here
    <3>2. QED
      BY <2>1, <2>3, <3>1, FrameKept
  <2>4. QED
    BY <2>2, <2>3
<1>8. QED
  BY <1>3, <1>4, <1>5, <1>6, <1>7, Carried

\* The frames are g in p, d in e, and those that were there.
Framed(p, e, g, d) ==
  \A u \in Thread : \A i \in 1 .. Len(stack'[u]) :
    \/ <<u, i>> = e /\ stack'[u][i] = d
    \/ <<u, i>> = p /\ stack'[u][i] = g
    \/ <<u, i>> # p /\ i \in 1 .. Len(stack[u]) /\ stack'[u][i] = stack[u][i]

\* The topmost frame of t becomes g, and d is put on it.
LEMMA TurnedAndAdded ==
  ASSUME TypeOK, NEW t \in Thread, stack[t] # << >>, NEW g \in AnyFrame, NEW d \in AnyFrame,
         NEW st \in [Thread -> Seq(AnyFrame)], st = WithTop(t, g),
         stack' = On(st, t, d),
         NEW p, p = Here(t), NEW e, e = Beyond(t)
  PROVE  /\ stack' \in [Thread -> Seq(AnyFrame)]
         /\ Others(p, e)
         /\ e \notin Places /\ e \in Places' /\ Frame(e)' = d
         /\ p \in Places /\ p \in Places' /\ Frame(p) = Top(t) /\ Frame(p)' = g
         /\ Framed(p, e, g, d)
<1>1. /\ st \in [Thread -> Seq(AnyFrame)] /\ Len(stack[t]) \in Nat \ {0}
      /\ Len(st[t]) = Len(stack[t]) /\ st[t][Len(stack[t])] = g
      /\ \A i \in 1 .. Len(stack[t]) : i # Len(stack[t]) => st[t][i] = stack[t][i]
      /\ \A u \in Thread \ {t} : st[u] = stack[u]
  <2>1. Len(stack[t]) \in Nat \ {0}
    BY TopIs
  <2>2. QED
    BY <2>1, Turned
<1>2. /\ \A u \in Thread : Len(st[u]) = Len(stack[u])
      /\ \A u \in Thread : \A i \in 1 .. Len(stack[u]) : <<u, i>> # p => st[u][i] = stack[u][i]
  BY <1>1 DEF Here
<1>3. Alike(st, p)
  BY <1>2 DEF Alike

<1>4. /\ Others(p, e)
      /\ e \notin Places /\ e \in Places' /\ Frame(e)' = d
      /\ There(st)
  BY <1>1, <1>3, AddedPlaces
<1>5. /\ stack' \in [Thread -> Seq(AnyFrame)] /\ Len(stack'[t]) = Len(stack[t]) + 1
      /\ \A u \in Thread \ {t} : stack'[u] = st[u]
  BY <1>1, Put1
<1>6. p \in Places /\ p \in Places' /\ Frame(p) = Top(t) /\ Frame(p)' = g
  <2>1. Len(stack[t]) \in 1 .. Len(stack[t]) /\ stack[t][Len(stack[t])] = Top(t)
    BY <1>1, TopIs
  <2>2. Len(stack[t]) \in 1 .. Len(stack'[t]) /\ stack'[t][Len(stack[t])] = g
    BY <1>1, <1>4, <2>1 DEF There
  <2>3. QED
    BY <2>1, <2>2, PlaceDef, PlaceNext, FrameIs DEF Here
<1>7. ASSUME NEW u \in Thread, NEW i \in 1 .. Len(stack'[u])
       PROVE  \/ <<u, i>> = e /\ stack'[u][i] = d
              \/ <<u, i>> = p /\ stack'[u][i] = g
              \/ <<u, i>> # p /\ i \in 1 .. Len(stack[u]) /\ stack'[u][i] = stack[u][i]
  <2>1. CASE <<u, i>> = e
    BY <1>4, <2>1, FrameIs
  <2>2. CASE <<u, i>> # e
    <3>1. i \in 1 .. Len(stack[u]) /\ stack'[u][i] = st[u][i]
      BY <1>1, <1>4, <1>5, <2>2 DEF Here, Beyond, There
    <3>2. <<u, i>> = p => st[u][i] = g
      BY <1>1 DEF Here
    <3>3. <<u, i>> # p => st[u][i] = stack[u][i]
      BY <1>2, <3>1
    <3>4. QED
      BY <3>1, <3>2, <3>3
  <2>3. QED
    BY <2>1, <2>2
<1>8. QED
  BY <1>4, <1>5, <1>6, <1>7 DEF Framed

\* A step of an emission that unreferences x, which may drop it: the topmost
\* frame becomes g, which refers to what it referred to and to a, but for x.
LEMMA DroppedStep ==
  ASSUME IInv, Steady, NEW t \in Thread, stack[t] # << >>, Top(t).what = "emit",
         NEW g \in AnyFrame, g.what = "emit", NEW x \in Alive,
         NEW st \in [Thread -> Seq(AnyFrame)], st = WithTop(t, g),
         NEW d \in AnyFrame, d.what = "drop", d.pc = "read", d.h = x,
         stack' = On(st, t, d),
         lock \in {None, t}, lock' = None, Alive' = Alive \ {x}, InOrder', hlist' \in Lists,
         ref_count' \in [Handler -> Nat],
         Counted(Top(t), g),
         g.pc \notin Locking, EmitOK(g)
  PROVE  IInv'
<1> PICK p : p = Here(t)
  OBVIOUS
<1> PICK e : e = Beyond(t)
  OBVIOUS
<1>1. /\ TypeOK /\ IsFiniteSet(Places) /\ stack \in [Thread -> Seq(AnyFrame)]
      /\ ref_count \in [Handler -> Nat] /\ matched \in [Handler -> Nat] /\ x \in Handler
      /\ \A h \in Handler : h \in Alive <=> ref_count[h] > 0
  BY Facts DEF TypeOK
<1>2. /\ stack' \in [Thread -> Seq(AnyFrame)]
      /\ Others(p, e)
      /\ e \notin Places /\ e \in Places' /\ Frame(e)' = d
      /\ p \in Places /\ p \in Places' /\ Frame(p) = Top(t) /\ Frame(p)' = g
      /\ Framed(p, e, g, d)
  BY <1>1, TurnedAndAdded
<1>3. /\ IsFiniteSet(Places')
       /\ TwoCounts(p, e)
  <2>1. Frame(p).what = "emit" /\ Frame(p)'.what = "emit" /\ Frame(e)'.what = "drop"
    BY <1>2
  <2>2. QED
    BY <1>1, <1>2, <2>1, TwoChanged
<1>4. ASSUME NEW h \in Handler
       PROVE  ref_count'[h] = One(h \in connected) + matched[h] + Held(h)'
  <2>1. /\ One(p \in Listing(h)) = One(Top(t).list = h)
        /\ One(p \in Standing(h)) = One(Top(t).h = h)
    BY <1>2, EmissionAt
  <2>2. /\ One(p \in Listing(h)') = One(g.list = h)
        /\ One(p \in Standing(h)') = One(g.h = h)
    BY <1>2, EmissionNext
  <2>3. /\ Cardinality(Listing(h)') = Cardinality(Listing(h)) + One(g.list = h)
              - One(Top(t).list = h)
        /\ Cardinality(Standing(h)') = Cardinality(Standing(h)) + One(g.h = h)
              - One(Top(t).h = h)
    BY <1>3, <2>1, <2>2 DEF TwoCounts
  <2>4. /\ ref_count'[h] \in Nat
        /\ ref_count'[h] + One(Top(t).list = h) + One(Top(t).h = h)
             = ref_count[h] + One(g.list = h) + One(g.h = h)
    BY DEF Counted
  <2>5. QED
    BY <2>3, <2>4, Recounted
<1>5. ASSUME NEW h \in Handler
       PROVE  ClosureOK(h)'
  <2>1. ClosureOK(h) /\ closure_refs' = closure_refs /\ is_invalid' = is_invalid
    BY Facts DEF Steady, closureVars
  <2>2. One(e \in Dropping(h)') = One(h = x)
    BY <1>2 DEF Dropping, One
  <2>3. One(h \in Alive') + One(h = x) = One(h \in Alive)
    BY DEF One
  <2>4. /\ Cardinality(Invoking(h)) \in Nat /\ Cardinality(Dropping(h)) \in Nat
        /\ One(h \in Alive') \in Nat /\ One(h = x) \in Nat /\ One(h \in Alive) \in Nat
    BY <1>1, Finite DEF One
  <2>5. /\ Cardinality(Dropping(h)') = Cardinality(Dropping(h)) + One(h = x)
        /\ Cardinality(Invoking(h)') = Cardinality(Invoking(h)) /\ Invoking(h)' = Invoking(h)
    BY <1>3, <2>2 DEF TwoCounts
  <2>6. closure_refs[h] = One(h \in Alive) + Cardinality(Invoking(h)) + Cardinality(Dropping(h))
    BY <2>1 DEF ClosureOK
  <2>7. closure_refs'[h]
          = One(h \in Alive') + Cardinality(Invoking(h)') + Cardinality(Dropping(h)')
    BY <2>1, <2>3, <2>4, <2>5, <2>6
  <2>8. is_invalid'[h] => h \notin Alive' /\ Invoking(h)' = {}
    BY <2>1, <2>5 DEF ClosureOK
  <2>9. QED
    BY <2>7, <2>8 DEF ClosureOK
<1>6. ASSUME NEW u \in Thread, NEW i \in 1 .. Len(stack'[u])
       PROVE  FrameOK(u, i)'
  <2>1. CASE stack'[u][i] = d
    <3>1. ref_count'[x] = 0
      BY <1>1 DEF Alive
    <3>2. DropOK(d)'
      BY <3>1 DEF DropOK
    <3>3. QED
      BY <2>1, <3>2 DEF FrameOK
  <2>2. CASE stack'[u][i] = g
    <3>1. EmitOK(g)'
      BY EmitStill DEF Steady, handlerVars
    <3>2. QED
      BY <2>2, <3>1 DEF FrameOK
  <2>3. CASE <<u, i>> # p /\ i \in 1 .. Len(stack[u]) /\ stack'[u][i] = stack[u][i]
    <3>1. i \in 1 .. Len(stack[u]) /\ <<u, i>> # Here(t)
      BY <2>3
    <3>2. stack'[u][i] = stack[u][i] /\ Alive' \subseteq Alive
      BY <2>3
    <3>3. QED
      BY <3>1, <3>2, FrameKept
  <2>4. QED
    BY <1>2, <2>1, <2>2, <2>3 DEF Framed
<1>7. lock' \in Thread \cup {None}
  OBVIOUS
<1>8. QED
  BY <1>2, <1>3, <1>4, <1>5, <1>6, <1>7, Carried

\* g refers to what f referred to and to a, but for x.
Balanced(f, g, a, x) ==
  \A h \in Handler : One(f.list = h) + One(f.h = h) + One(h = a)
                       = One(g.list = h) + One(g.h = h) + One(h = x)

\* The two together: what handler_unref_R of x does at the end of a step.
LEMMA UnrefStep ==
  ASSUME IInv, Steady, NEW t \in Thread, stack[t] # << >>, Top(t).what = "emit",
         NEW g \in AnyFrame, g.what = "emit", lock \in {None, t},
         NEW a \in Alive \cup {None}, NEW x \in Handler,
         Unref(t, x, Ref(ref_count, a), WithTop(t, g), TRUE),
         Balanced(Top(t), g, a, x),
         g.pc \notin Locking, EmitOK(g)
  PROVE  IInv'
<1> PICK refs : refs = Ref(ref_count, a)
  OBVIOUS
<1> PICK st \in [Thread -> Seq(AnyFrame)] : st = WithTop(t, g)
  BY Facts, Turned
<1>1. /\ TypeOK /\ InOrder /\ Distinct /\ ref_count \in [Handler -> Nat]
      /\ refs \in [Handler -> Nat] /\ Alive = AliveBy(refs)
      /\ \A h \in Handler : refs[h] = ref_count[h] + One(h = a)
  BY Facts, Reffed
<1>2. UNCHANGED id
  BY DEF Steady, handlerVars
<1>3. /\ InOrder' /\ Distinct' /\ hlist' \in Lists /\ x \in Alive
      /\ ref_count' \in [Handler -> Nat] /\ Less(refs, x)
      /\ \/ Alive' = Alive /\ stack' = st /\ lock' = t
         \/ /\ Alive' = Alive \ {x} /\ lock' = None
            /\ stack' = On(st, t, Drop(x, TRUE, TRUE))
  <2>1. UNCHANGED id /\ Unref(t, x, refs, st, TRUE) /\ TRUE \in BOOLEAN
    BY <1>2
  <2>2. QED
    BY <1>1, <2>1, Unreffed
<1>4. Counted(Top(t), g)
  <2> SUFFICES ASSUME NEW h \in Handler
               PROVE  ref_count'[h] + One(Top(t).list = h) + One(Top(t).h = h)
                        = ref_count[h] + One(g.list = h) + One(g.h = h)
    BY DEF Counted
  <2>1. PICK a1 \in Nat, a2 \in Nat, b1 \in Nat, b2 \in Nat, m \in Nat, n \in Nat :
          /\ a1 = One(Top(t).list = h) /\ a2 = One(Top(t).h = h)
          /\ b1 = One(g.list = h) /\ b2 = One(g.h = h)
          /\ m = One(h = a) /\ n = One(h = x)
    BY DEF One
  <2>2. PICK r \in Nat : r = ref_count[h]
    BY <1>1
  <2>3. ref_count'[h] = r + m - n
    BY <1>1, <1>3, <2>1, <2>2 DEF Less
  <2>4. a1 + a2 + m = b1 + b2 + n
    BY <2>1 DEF Balanced
  <2>5. (r + m - n) + a1 + a2 = r + b1 + b2
    BY <2>4
  <2>6. QED
    BY <2>1, <2>2, <2>3, <2>5
<1> PICK d \in AnyFrame : d = Drop(x, TRUE, TRUE)
  BY DEF Drop, AnyFrame, Emissions, Fasts, Drops
<1>5. CASE Alive' = Alive /\ stack' = st /\ lock' = t
  BY <1>3, <1>4, <1>5, TurnedStep
<1>6. CASE /\ Alive' = Alive \ {x} /\ lock' = None
           /\ stack' = On(st, t, d)
  <2>1. d.what = "drop" /\ d.pc = "read" /\ d.h = x
    BY DEF Drop
  <2>2. QED
    BY <1>3, <1>4, <1>6, <2>1, DroppedStep
<1>7. QED
  BY <1>3, <1>5, <1>6

\* And a step that takes a reference to a at most, and drops nothing.
LEMMA RefStep ==
  ASSUME IInv, Steady, NEW t \in Thread, stack[t] # << >>, Top(t).what = "emit",
         NEW g \in AnyFrame, g.what = "emit", lock \in {None, t}, lock' \in {None, t},
         NEW a \in Alive \cup {None}, UNCHANGED hlist,
         ref_count' = Ref(ref_count, a), stack' = WithTop(t, g),
         Balanced(Top(t), g, a, None),
         g.pc \in Locking => lock' = t, EmitOK(g)
  PROVE  IInv'
<1>1. /\ TypeOK /\ InOrder /\ Distinct /\ ref_count \in [Handler -> Nat] /\ hlist \in Lists
      /\ ref_count' \in [Handler -> Nat] /\ Alive = AliveBy(ref_count')
      /\ \A h \in Handler : ref_count'[h] = ref_count[h] + One(h = a)
  BY Facts, Reffed
<1>2. Alive' = Alive
  BY <1>1 DEF Alive, AliveBy
<1>3. InOrder'
  <2>1. \A h : Rank(h)' = Rank(h)
    BY DEF Rank, Steady, handlerVars
  <2>2. QED
    BY <1>1, <1>2, <2>1, OrderKept
<1>4. Counted(Top(t), g)
  <2> SUFFICES ASSUME NEW h \in Handler
               PROVE  ref_count'[h] + One(Top(t).list = h) + One(Top(t).h = h)
                        = ref_count[h] + One(g.list = h) + One(g.h = h)
    BY DEF Counted
  <2>1. PICK a1 \in Nat, a2 \in Nat, b1 \in Nat, b2 \in Nat, m \in Nat :
          /\ a1 = One(Top(t).list = h) /\ a2 = One(Top(t).h = h)
          /\ b1 = One(g.list = h) /\ b2 = One(g.h = h) /\ m = One(h = a)
    BY DEF One
  <2>2. PICK r \in Nat : r = ref_count[h]
    BY <1>1
  <2>3. ref_count'[h] = r + m /\ a1 + a2 + m = b1 + b2
    <3>1. One(h = None) = 0
      BY SignalAssumption DEF One
    <3>2. QED
      BY <1>1, <2>1, <2>2, <3>1 DEF Balanced
  <2>4. (r + m) + a1 + a2 = r + b1 + b2
    <3>1. b2 = a1 + a2 + m - b1
      BY <2>3
    <3>2. QED
      BY <3>1
  <2>5. QED
    BY <2>1, <2>2, <2>3, <2>4
<1>5. QED
  BY <1>1, <1>2, <1>3, <1>4, TurnedStep

-----------------------------------------------------------------------------
(* The steps of an emission *)

\* What an emission that is its thread's topmost frame knows.
LEMMA EmitTop ==
  ASSUME IInv, NEW t \in Thread, stack[t] # << >>, Top(t).what = "emit"
  PROVE  /\ Top(t) \in Emissions /\ EmitOK(Top(t))
         /\ Top(t).list \in Alive \cup {None} /\ Top(t).h \in Alive \cup {None}
         /\ Top(t).pc \in Locking => lock = t
<1>1. /\ Len(stack[t]) \in 1 .. Len(stack[t]) /\ Top(t) = stack[t][Len(stack[t])]
      /\ Top(t) \in AnyFrame
  BY Facts, TopIs
<1>2. Top(t) \in Emissions
  BY <1>1 DEF AnyFrame, Fasts, Drops
<1>3. FrameOK(t, Len(stack[t]))
  BY <1>1, Facts
<1>4. EmitOK(Top(t)) /\ (Top(t).pc \in Locking => lock = t)
  BY <1>1, <1>3 DEF FrameOK
<1>5. Top(t).list \in Handler \cup {None} /\ Top(t).h \in Handler \cup {None}
  BY <1>2 DEF Emissions
<1>6. \A x \in Handler : x \in {Top(t).list, Top(t).h} => x \in Alive
  BY <1>1, HeldIsAlive
<1>7. QED
  BY <1>2, <1>4, <1>5, <1>6

\* An emission that moves from f to g and keeps whom it has called and has to.
LEMMA Moved ==
  ASSUME NEW f, NEW g, EmitOK(f), PlaceOK(g),
         g.called = f.called, g.due = f.due, g.max = f.max, g.detail = f.detail,
         Ahead(g) => f.called = << >>,
         \A c \in Called(f) :
           /\ g.h # None => /\ c <= Rank(g.h)
                            /\ g.pc = "look" => c < Rank(g.h) \/ (g.stage = "after" /\ g.h \notin After)
           /\ Between(g) => /\ g.list # None /\ c <= Rank(g.list)
                            /\ g.list \in After => c < Rank(g.list),
         \A r \in f.due \ Called(f) :
           /\ ~ Behind(g)
           /\ Ahead(g) => g.list # None /\ Rank(g.list) <= r
           /\ Between(g) => g.list \in After /\ Rank(g.list) <= r
           /\ g.h # None => /\ Rank(g.h) <= r /\ (g.pc \in Calling => Rank(g.h) < r)
                            /\ g.stage = "after" => r > MaxId
  PROVE  EmitOK(g)
<1>1. Called(g) = Called(f)
  BY DEF Called
<1>2. CalledOK(g)
  BY <1>1 DEF EmitOK, CalledOK
<1>3. DueOK(g)
  BY <1>1 DEF DueOK
<1>4. \A r \in g.due : \E h \in Handler : Rank(h) = r /\ Callable(h, g)
  BY DEF EmitOK, Callable
<1>5. QED
  BY <1>2, <1>3, <1>4 DEF EmitOK

\* An emission at a place where it need not know anything about its round.
LEMMA MovedAway ==
  ASSUME NEW f, NEW g, EmitOK(f), PlaceOK(g), g.h = None,
         g.called = f.called, g.due = f.due, g.max = f.max, g.detail = f.detail,
         ~ Ahead(g), ~ Between(g), ~ Behind(g)
  PROVE  EmitOK(g)
BY Moved

LEMMA RefNone == Ref(ref_count, None) = ref_count
BY DEF Ref

LEMMA BalanceDropped ==
  ASSUME NEW f, NEW g, NEW x, f.h = g.h, g.list = None, x = f.list
  PROVE  Balanced(f, g, None, x)
<1> SUFFICES ASSUME NEW h \in Handler
             PROVE  One(f.list = h) + One(f.h = h) + One(h = None)
                      = One(g.list = h) + One(g.h = h) + One(h = x)
  BY DEF Balanced
<1>1. One(h = None) = 0 /\ One(g.list = h) = 0
  BY SignalAssumption DEF One
<1>2. One(f.list = h) \in Nat /\ One(f.h = h) \in Nat /\ One(h = x) = One(f.list = h)
  BY DEF One
<1>3. QED
  BY <1>1, <1>2

LEMMA BalanceSame ==
  ASSUME NEW f, NEW g, f.h = g.h, f.list = g.list
  PROVE  Balanced(f, g, None, None)
BY DEF Balanced

LEMMA RestartOK ==
  ASSUME IInv, NEW t \in Thread, Restart(t)
  PROVE  IInv'
<1>f. PICK f : f = Top(t)
  OBVIOUS
<1>g. PICK g : g = [f EXCEPT !.pc = "begin", !.list = None]
  OBVIOUS
<1>1. /\ stack[t] # << >> /\ f.what = "emit" /\ f.pc = "restart" /\ lock = t /\ Steady
      /\ \/ f.list # None /\ Unref(t, f.list, ref_count, WithTop(t, g), TRUE)
         \/ f.list = None /\ stack' = WithTop(t, g) /\ UNCHANGED <<lock, hlist, ref_count>>
  BY <1>f, <1>g DEF Restart, In, At, Still, Steady, emissions
<1>2. f \in Emissions /\ EmitOK(f) /\ f.list \in Alive \cup {None}
  BY <1>1, <1>f, EmitTop
<1>3. /\ g \in AnyFrame /\ g.what = "emit" /\ g.pc = "begin" /\ g.list = None
      /\ g.h = f.h /\ g.called = f.called /\ g.due = f.due /\ g.max = f.max
      /\ g.detail = f.detail /\ g.state = f.state /\ g.stage = f.stage /\ g.asked = f.asked
  BY <1>2, <1>g DEF AnyFrame, Emissions
<1>4. f.h = None /\ PlaceOK(g)
  BY <1>1, <1>2, <1>3 DEF EmitOK, PlaceOK, Calling
<1>5. EmitOK(g)
  <2>1. ~ Ahead(g) /\ ~ Between(g) /\ ~ Behind(g)
    BY <1>3 DEF Ahead, Between, Behind, Calling
  <2>2. QED
    BY <1>2, <1>3, <1>4, <2>1, MovedAway
<1>6. g.pc \notin Locking
  BY <1>3 DEF Locking
<1>7. CASE f.list # None /\ Unref(t, f.list, ref_count, WithTop(t, g), TRUE)
  <2> PICK x : x = f.list
    OBVIOUS
  <2>1. x \in Handler /\ Unref(t, x, Ref(ref_count, None), WithTop(t, g), TRUE)
    BY <1>2, <1>7, RefNone, Facts
  <2>2. Balanced(Top(t), g, None, x)
    BY <1>3, <1>f, BalanceDropped
  <2>3. QED
    BY <1>1, <1>3, <1>5, <1>6, <2>1, <2>2, <1>f, UnrefStep
<1>8. CASE f.list = None /\ stack' = WithTop(t, g) /\ UNCHANGED <<lock, hlist, ref_count>>
  <2>1. Balanced(Top(t), g, None, None)
    BY <1>3, <1>8, <1>f, BalanceSame
  <2>2. ref_count' = Ref(ref_count, None)
    BY <1>8, RefNone
  <2>3. QED
    BY <1>1, <1>3, <1>5, <1>6, <1>8, <2>1, <2>2, <1>f, RefStep
<1>9. QED
  BY <1>1, <1>7, <1>8

LEMMA ListedAlive ==
  ASSUME IInv
  PROVE  Listed \subseteq Alive
<1>1. Alive \subseteq Handler /\ TypeOK /\ InOrder
  BY Facts
<1>2. Led(Alive)
  BY <1>1, First1, After1 DEF Led
<1>3. QED
  BY <1>1, <1>2 DEF Listed

LEMMA BeginOK ==
  ASSUME IInv, NEW t \in Thread, Begin(t)
  PROVE  IInv'
<1>f. PICK f : f = Top(t)
  OBVIOUS
<1>a. PICK a : a = hlist.handlers
  OBVIOUS
<1>d. PICK D : D = {Rank(h) : h \in Open(f.detail)}
  OBVIOUS
<1>n. PICK n : n = n_handlers
  OBVIOUS
<1>e. PICK g0 : g0 = [f EXCEPT !.max = n, !.list = a, !.state = "run", !.due = D,
                             !.called = << >>, !.asked = {}, !.pc = "before"]
  OBVIOUS
<1>g. PICK g : g = IF kind.class = "first" THEN Calls(g0, "first", "run") ELSE g0
  OBVIOUS
<1>1. /\ stack[t] # << >> /\ f.what = "emit" /\ f.pc = "begin" /\ lock = t /\ Steady
      /\ stack' = WithTop(t, g) /\ lock' = (IF kind.class = "first" THEN None ELSE t)
      /\ ref_count' = Ref(ref_count, a) /\ UNCHANGED hlist
  BY <1>f, <1>a, <1>d, <1>n, <1>e, <1>g DEF Begin, In, At, Still, Steady, emissions
<1>2. f \in Emissions /\ EmitOK(f)
  BY <1>1, <1>f, EmitTop
<1>3. /\ TypeOK /\ InOrder /\ Alive \subseteq Handler /\ n \in Nat /\ a \in Alive \cup {None}
      /\ \A h \in Alive : a # None /\ Rank(a) <= Rank(h)
  <2>1. TypeOK /\ InOrder /\ Alive \subseteq Handler /\ Types
    BY Facts
  <2>2. n \in Nat
    BY <1>n, <2>1, SignalAssumption DEF Types
  <2>3. QED
    BY <1>a, <2>1, <2>2, First1
<1>4. \A h \in Open(f.detail) :
        /\ h \in Alive /\ h \in connected /\ block_count[h] = 0 /\ (h \in Detailed => f.detail)
        /\ id[h] < n
  <2> SUFFICES ASSUME NEW h \in Open(f.detail)
               PROVE  /\ h \in Alive /\ h \in connected /\ block_count[h] = 0
                      /\ h \in Detailed => f.detail
                      /\ id[h] < n
    OBVIOUS
  <2>1. h \in Alive /\ block_count[h] = 0 /\ (h \in Detailed => f.detail)
    BY ListedAlive DEF Open
  <2>2. h \in Handler /\ HandlerOK(h)
    BY <1>3, <2>1, Facts
  <2>3. QED
    BY <1>n, <2>1, <2>2 DEF HandlerOK
<1>5. D \subseteq Nat
  BY <1>3, <1>4, <1>d, Ranks
<1>6. /\ g0 \in Emissions /\ g0.pc = "before" /\ g0.max = n /\ g0.list = a /\ g0.state = "run"
      /\ g0.due = D /\ g0.called = << >> /\ "open" \notin g0.asked /\ g0.h = f.h /\ g0.detail = f.detail
      /\ g0.what = "emit" /\ g0.stage = f.stage
  <2>1. a \in Handler \cup {None} /\ << >> \in Seq(Nat)
    BY <1>3
  <2>2. QED
    BY <1>2, <1>3, <1>5, <1>e, <2>1 DEF Emissions
<1>7. /\ g \in AnyFrame /\ g.max = n /\ g.list = a /\ g.state = "run" /\ g.what = "emit"
      /\ g.due = D /\ g.called = << >> /\ "open" \notin g.asked /\ g.h = f.h /\ g.detail = f.detail
      /\ \/ kind.class = "first" /\ g.pc = "call" /\ g.stage = "first"
         \/ kind.class # "first" /\ g.pc = "before"
  <2>1. CASE kind.class = "first"
    <3>1. g = [g0 EXCEPT !.pc = "call", !.stage = "first", !.state = "run"]
      BY <1>g, <2>1 DEF Calls
    <3>2. g \in Emissions
      BY <1>6, <3>1 DEF Emissions, Calling
    <3>3. QED
      BY <1>6, <2>1, <3>1, <3>2 DEF AnyFrame, Emissions
  <2>2. CASE kind.class # "first"
    BY <1>6, <1>g, <2>2 DEF AnyFrame
  <2>3. QED
    BY <2>1, <2>2
<1>8. f.h = None /\ f.list = None
  BY <1>1, <1>2 DEF EmitOK, PlaceOK, Calling
<1>9. EmitOK(g)
  <2>1. PlaceOK(g)
    BY <1>7, <1>8 DEF PlaceOK, Calling
  <2>2. CalledOK(g)
    <3>1. Len(g.called) = 0
      BY <1>7
    <3>2. 1 .. Len(g.called) = {} /\ Called(g) = {}
      BY <3>1 DEF Called
    <3>3. QED
      BY <1>7, <3>2 DEF CalledOK
  <2>3. ASSUME NEW r \in g.due
        PROVE  /\ \E h \in Handler : Rank(h) = r /\ Callable(h, g)
               /\ g.list # None /\ Rank(g.list) <= r
    <3>1. PICK h \in Open(f.detail) : r = Rank(h)
      BY <1>7, <1>d
    <3>2. h \in Handler /\ Callable(h, g)
      BY <1>3, <1>4, <1>7 DEF Callable
    <3>3. QED
      BY <1>3, <1>4, <1>7, <3>1, <3>2
  <2>4. \A r \in g.due : g.list # None /\ Rank(g.list) <= r
    BY <2>3
  <2>5. ~ Behind(g) /\ ~ Between(g) /\ g.h = None
    BY <1>7, <1>8 DEF Behind, Between, Calling
  <2>6. DueOK(g)
    BY <2>4, <2>5 DEF DueOK
  <2>7. QED
    BY <2>1, <2>2, <2>3, <2>6 DEF EmitOK
<1>10. Balanced(Top(t), g, a, None)
  <2>1. \A h \in Handler : /\ One(Top(t).list = h) = 0 /\ One(Top(t).h = h) = 0
                           /\ One(g.h = h) = 0 /\ One(h = None) = 0
                           /\ One(g.list = h) = One(h = a) /\ One(h = a) \in Nat
    BY <1>7, <1>8, <1>f, SignalAssumption DEF One
  <2> SUFFICES ASSUME NEW h \in Handler
               PROVE  One(Top(t).list = h) + One(Top(t).h = h) + One(h = a)
                        = One(g.list = h) + One(g.h = h) + One(h = None)
    BY DEF Balanced
  <2>2. QED
    BY <2>1
<1>11. lock' \in {None, t} /\ (g.pc \in Locking => lock' = t)
  BY <1>1, <1>7 DEF Locking
<1>12. QED
  BY <1>1, <1>3, <1>7, <1>9, <1>10, <1>11, <1>f, RefStep

LEMMA SameStep ==
  ASSUME IInv, Steady, NEW t \in Thread, stack[t] # << >>, Top(t).what = "emit",
         NEW g \in AnyFrame, g.what = "emit", lock \in {None, t}, lock' \in {None, t},
         UNCHANGED <<hlist, ref_count>>, stack' = WithTop(t, g),
         g.h = Top(t).h, g.list = Top(t).list, g.pc \in Locking => lock' = t, EmitOK(g)
  PROVE  IInv'
<1>1. Balanced(Top(t), g, None, None)
  BY BalanceSame
<1>2. ref_count' = Ref(ref_count, None) /\ UNCHANGED hlist
  BY RefNone
<1>3. None \in Alive \cup {None}
  OBVIOUS
<1>4. QED
  BY <1>1, <1>2, <1>3, RefStep

\* What an emission knows of its round when it stands on no handler.
LEMMA KnownBetween ==
  ASSUME NEW f, EmitOK(f), Between(f)
  PROVE  /\ \A c \in Called(f) : /\ f.list # None /\ c <= Rank(f.list)
                                 /\ f.list \in After => c < Rank(f.list)
         /\ \A r \in f.due \ Called(f) : f.list \in After /\ Rank(f.list) <= r
BY DEF EmitOK, CalledOK, DueOK

LEMMA KnownBehind ==
  ASSUME NEW f, EmitOK(f), Behind(f)
  PROVE  f.due \ Called(f) = {}
BY DEF EmitOK, DueOK

LEMMA KnownAhead ==
  ASSUME NEW f, EmitOK(f), Ahead(f)
  PROVE  /\ f.called = << >> /\ Called(f) = {}
         /\ \A r \in f.due \ Called(f) : f.list # None /\ Rank(f.list) <= r
<1>1. f.called = << >>
  BY DEF EmitOK, CalledOK
<1>2. Called(f) = {}
  <2>1. 1 .. Len(f.called) = {}
    BY <1>1
  <2>2. QED
    BY <2>1 DEF Called
<1>3. QED
  BY <1>1, <1>2 DEF EmitOK, DueOK

\* And when it stands on one.
LEMMA KnownAt ==
  ASSUME NEW f, EmitOK(f), f.h # None
  PROVE  /\ \A c \in Called(f) :
              /\ c <= Rank(f.h)
              /\ f.pc = "look" => c < Rank(f.h) \/ (f.stage = "after" /\ f.h \notin After)
         /\ \A r \in f.due \ Called(f) :
              /\ Rank(f.h) <= r /\ (f.pc \in Calling => Rank(f.h) < r)
              /\ f.stage = "after" => r > MaxId
BY DEF EmitOK, CalledOK, DueOK

\* A stage is over.
LEMMA EndedOK ==
  ASSUME NEW f \in Emissions, EmitOK(f), f.h = None,
         f.pc = "ended" \/ (f.pc \in Calling /\ f.stage \notin {"before", "after"}),
         NEW g, g = Ended(f)
  PROVE  /\ g \in Emissions /\ EmitOK(g) /\ g.h = f.h /\ g.list = f.list /\ g.what = "emit"
         /\ g.pc \in Locking
<1>f. /\ f.stage \in {"first", "before", "last", "after", "cleanup"}
      /\ f.state \in {"run", "restart", "stop"}
      /\ f.pc = "ended" => f.stage \in {"before", "after"}
      /\ f.pc \in Calling /\ f.stage = "cleanup" => f.state # "run"
      /\ "open" \in f.asked => f.state = "restart" /\ f.pc \in {"call", "returned", "ended"}
  BY DEF Emissions, EmitOK, PlaceOK, Calling
<1>p. \/ f.state = "restart" /\ Ended(f) = [f EXCEPT !.pc = "restart"]
      \/ f.state = "stop" /\ f.stage # "cleanup" /\ Ended(f) = [f EXCEPT !.pc = "cleanup"]
      \/ f.state = "stop" /\ f.stage = "cleanup" /\ Ended(f) = [f EXCEPT !.pc = "finish"]
      \/ f.state = "run" /\ f.stage = "first" /\ Ended(f) = [f EXCEPT !.pc = "before"]
      \/ f.state = "run" /\ f.stage = "before" /\ Ended(f) = [f EXCEPT !.pc = "last"]
      \/ f.state = "run" /\ f.stage = "last" /\ Ended(f) = [f EXCEPT !.pc = "after"]
      \/ f.state = "run" /\ f.stage = "after" /\ Ended(f) = [f EXCEPT !.pc = "cleanup"]
  BY <1>f DEF Ended, Following, Calling
<1>q. PICK pc \in {"restart", "before", "last", "after", "cleanup", "finish"} :
        /\ g = [f EXCEPT !.pc = pc]
        /\ \/ f.state = "restart" /\ pc = "restart"
           \/ f.state = "stop" /\ pc \in {"cleanup", "finish"}
           \/ f.state = "run" /\ f.stage = "first" /\ pc = "before"
           \/ f.state = "run" /\ f.stage = "before" /\ pc = "last"
           \/ f.state = "run" /\ f.stage = "last" /\ pc = "after"
           \/ f.state = "run" /\ f.stage = "after" /\ pc = "cleanup"
  BY <1>p
<1>1. /\ g \in Emissions /\ g.what = "emit" /\ g.pc = pc /\ g.list = f.list /\ g.h = f.h
      /\ g.called = f.called /\ g.due = f.due /\ g.max = f.max /\ g.detail = f.detail
      /\ g.state = f.state /\ g.stage = f.stage /\ g.asked = f.asked
  BY <1>q DEF Emissions
<1>2. PlaceOK(g)
  BY <1>f, <1>q, <1>1 DEF PlaceOK, Calling
<1>3. EmitOK(g)
  <2>1. CASE Ahead(g)
    <3>1. Ahead(f) /\ ~ Between(g) /\ ~ Behind(g)
      BY <1>f, <1>q, <1>1, <2>1 DEF Ahead, Between, Behind, Calling
    <3>2. QED
      BY <1>1, <1>2, <3>1, KnownAhead, Moved
  <2>2. CASE Between(g)
    <3>1. Between(f) /\ ~ Ahead(g) /\ ~ Behind(g)
      BY <1>f, <1>q, <1>1, <2>2 DEF Ahead, Between, Behind, Calling
    <3>2. QED
      BY <1>1, <1>2, <3>1, KnownBetween, Moved
  <2>3. CASE Behind(g)
    <3>1. Behind(f) /\ ~ Ahead(g) /\ ~ Between(g)
      BY <1>f, <1>q, <1>1, <2>3 DEF Ahead, Between, Behind, Calling
    <3>2. QED
      BY <1>1, <1>2, <3>1, KnownBehind, Moved
  <2>4. CASE ~ Ahead(g) /\ ~ Between(g) /\ ~ Behind(g)
    BY <1>1, <1>2, <2>4, MovedAway
  <2>5. QED
    BY <2>1, <2>2, <2>3, <2>4
<1>4. g.pc \in Locking
  BY <1>1 DEF Locking
<1>5. QED
  BY <1>1, <1>3, <1>4

LEMMA EndOK ==
  ASSUME IInv, NEW t \in Thread, End(t)
  PROVE  IInv'
<1>f. PICK f : f = Top(t)
  OBVIOUS
<1>g. PICK g : g = Ended(f)
  OBVIOUS
<1>1. /\ stack[t] # << >> /\ f.what = "emit" /\ f.pc = "ended" /\ lock = t /\ Steady
      /\ stack' = WithTop(t, g) /\ UNCHANGED <<lock, hlist, ref_count>>
  BY <1>f, <1>g DEF End, In, At, Still, Steady, emissions
<1>2. f \in Emissions /\ EmitOK(f)
  BY <1>1, <1>f, EmitTop
<1>3. f.h = None
  BY <1>1, <1>2 DEF EmitOK, PlaceOK, Calling
<1>4. /\ g \in Emissions /\ EmitOK(g) /\ g.h = f.h /\ g.list = f.list /\ g.what = "emit"
      /\ g.pc \in Locking
  BY <1>1, <1>2, <1>3, <1>g, EndedOK
<1>5. g \in AnyFrame
  BY <1>4 DEF AnyFrame
<1>6. QED
  BY <1>1, <1>4, <1>5, <1>f, SameStep

LEMMA LoopOK ==
  ASSUME IInv, NEW t \in Thread, NEW s \in {"before", "after"}, Loop(t, s)
  PROVE  IInv'
<1>f. PICK f : f = Top(t)
  OBVIOUS
<1>e. PICK f0 : f0 = [f EXCEPT !.stage = s]
  OBVIOUS
<1>g. PICK g : g = IF f.list = None THEN Ended(f0)
                   ELSE [f0 EXCEPT !.pc = "look", !.h = f.list, !.state = "run"]
  OBVIOUS
<1>1. /\ stack[t] # << >> /\ f.what = "emit" /\ f.pc = s /\ lock = t /\ Steady
      /\ stack' = WithTop(t, g) /\ ref_count' = Ref(ref_count, f.list) /\ UNCHANGED <<lock, hlist>>
  <2>1. f0.list = f.list
    BY <1>e, <1>f, EmitTop DEF Loop, In, At, Emissions, Still, Steady, emissions
  <2>2. QED
    BY <1>f, <1>e, <1>g, <2>1 DEF Loop, In, At, Still, Steady, emissions
<1>2. f \in Emissions /\ EmitOK(f) /\ f.list \in Alive \cup {None}
  BY <1>1, <1>f, EmitTop
<1>3. /\ f.h = None /\ f.state = "run" /\ "open" \notin f.asked
      /\ s = "before" => Ahead(f)
      /\ s = "after" => Between(f)
  BY <1>1, <1>2 DEF EmitOK, PlaceOK, Calling, Ahead, Between
<1>4. /\ f0 \in Emissions /\ f0.pc = s /\ f0.stage = s /\ f0.list = f.list /\ f0.h = None
      /\ f0.called = f.called /\ f0.due = f.due /\ f0.max = f.max /\ f0.detail = f.detail
      /\ f0.state = "run" /\ "open" \notin f0.asked /\ f0.what = "emit"
  BY <1>1, <1>2, <1>3, <1>e DEF Emissions
<1>5. CASE f.list = None
  <2>1. g = [f0 EXCEPT !.pc = IF s = "before" THEN "last" ELSE "cleanup"]
    BY <1>4, <1>5, <1>g DEF Ended, Following
  <2>2. /\ g \in Emissions /\ g.pc = (IF s = "before" THEN "last" ELSE "cleanup")
        /\ g.stage = s /\ g.list = None /\ g.h = None
        /\ g.called = f.called /\ g.due = f.due /\ g.max = f.max /\ g.detail = f.detail
        /\ g.state = "run" /\ "open" \notin g.asked /\ g.what = "emit"
    BY <1>4, <1>5, <2>1 DEF Emissions
  <2>3. PlaceOK(g)
    BY <2>2 DEF PlaceOK, Calling
  <2>4. Called(f) = {} /\ f.due = {}
    <3>1. CASE s = "before"
      BY <1>2, <1>3, <1>5, <3>1, KnownAhead
    <3>2. CASE s = "after"
      <4>1. None \notin After
        BY SignalAssumption
      <4>2. QED
        BY <1>2, <1>3, <1>5, <3>2, <4>1, KnownBetween
    <3>3. QED
      BY <3>1, <3>2
  <2>5. ~ Ahead(g)
    BY <2>2 DEF Ahead, Calling
  <2>6. EmitOK(g)
    BY <1>2, <2>2, <2>3, <2>4, <2>5, Moved
  <2>7. lock' = t /\ g \in AnyFrame /\ UNCHANGED <<hlist, ref_count>>
    BY <1>1, <1>5, <2>2, RefNone DEF AnyFrame
  <2>8. g.h = f.h /\ g.list = f.list
    BY <1>3, <1>5, <2>2
  <2>9. QED
    BY <1>1, <1>f, <2>2, <2>6, <2>7, <2>8, SameStep
<1>6. CASE f.list # None
  <2>a. PICK a : a = f.list
    OBVIOUS
  <2>1. a \in Handler /\ a \in Alive /\ TypeOK
    BY <1>2, <1>6, <2>a, Facts
  <2>2. g = [f0 EXCEPT !.pc = "look", !.h = a, !.state = "run"]
    BY <1>6, <1>g, <2>a
  <2>3. /\ g \in Emissions /\ g.pc = "look" /\ g.stage = s /\ g.list = a /\ g.h = a
        /\ g.called = f.called /\ g.due = f.due /\ g.max = f.max /\ g.detail = f.detail
        /\ g.state = "run" /\ "open" \notin g.asked /\ g.what = "emit"
    BY <1>4, <2>1, <2>2, <2>a DEF Emissions
  <2>4. PlaceOK(g)
    BY <1>6, <2>3, <2>a DEF PlaceOK, Calling
  <2>5. ~ Ahead(g) /\ ~ Between(g) /\ ~ Behind(g) /\ g.pc \notin Calling /\ g.pc \notin Locking
    BY <2>3 DEF Ahead, Between, Behind, Calling, Locking
  <2>6. ASSUME NEW c \in Called(f)
        PROVE  c <= Rank(g.h) /\ (c < Rank(g.h) \/ (g.stage = "after" /\ g.h \notin After))
    <3>1. CASE s = "before"
      BY <1>2, <1>3, <3>1, KnownAhead
    <3>2. CASE s = "after"
      BY <1>2, <1>3, <2>3, <2>a, <3>2, KnownBetween
    <3>3. QED
      BY <3>1, <3>2
  <2>7. ASSUME NEW r \in f.due \ Called(f)
        PROVE  Rank(g.h) <= r /\ (g.stage = "after" => r > MaxId)
    <3>1. CASE s = "before"
      BY <1>2, <1>3, <2>3, <2>a, <3>1, KnownAhead
    <3>2. CASE s = "after"
      <4>1. a \in After /\ Rank(a) <= r
        BY <1>2, <1>3, <2>a, <3>2, KnownBetween
      <4>2. Rank(a) \in Nat /\ Rank(a) > MaxId /\ MaxId \in Nat /\ r \in Nat
        BY <1>2, <2>1, <4>1, Ranks, SignalAssumption DEF Emissions
      <4>3. QED
        BY <2>3, <4>1, <4>2
    <3>3. QED
      BY <3>1, <3>2
  <2>8. EmitOK(g)
    BY <1>2, <2>3, <2>4, <2>5, <2>6, <2>7, Moved
  <2>9. Balanced(Top(t), g, a, None)
    <3>1. \A h \in Handler : /\ One(Top(t).list = h) = One(h = a) /\ One(Top(t).h = h) = 0
                             /\ One(g.h = h) = One(h = a) /\ One(h = None) = 0
                             /\ One(g.list = h) = One(h = a) /\ One(h = a) \in Nat
      BY <1>3, <1>f, <2>3, <2>a, SignalAssumption DEF One
    <3> SUFFICES ASSUME NEW h \in Handler
                 PROVE  One(Top(t).list = h) + One(Top(t).h = h) + One(h = a)
                          = One(g.list = h) + One(g.h = h) + One(h = None)
      BY DEF Balanced
    <3>2. QED
      BY <3>1
  <2>10. a \in Alive \cup {None} /\ ref_count' = Ref(ref_count, a) /\ g \in AnyFrame
    BY <1>1, <2>1, <2>3, <2>a DEF AnyFrame
  <2>11. QED
    BY <1>1, <1>f, <2>3, <2>5, <2>8, <2>9, <2>10, RefStep
<1>7. QED
  BY <1>5, <1>6

LEMMA BreakOK ==
  ASSUME IInv, NEW t \in Thread, Break(t)
  PROVE  IInv'
<1>f. PICK f : f = Top(t)
  OBVIOUS
<1>g. PICK g : g = [f EXCEPT !.list = f.h, !.h = None, !.pc = "ended"]
  OBVIOUS
<1>x. PICK x : x = f.list
  OBVIOUS
<1>1. /\ stack[t] # << >> /\ f.what = "emit" /\ f.pc = "look" /\ lock = t /\ Steady
      /\ f.stage = "before" /\ f.h \in After
      /\ Unref(t, x, Ref(ref_count, None), WithTop(t, g), TRUE)
  BY <1>f, <1>g, <1>x, RefNone DEF Break, In, At, Still, Steady, emissions
<1>2. f \in Emissions /\ EmitOK(f) /\ f.list \in Alive \cup {None}
  BY <1>1, <1>f, EmitTop
<1>3. /\ f.h # None /\ f.list # None /\ f.h \in Handler
      /\ "open" \in f.asked => f.state = "restart"
  BY <1>1, <1>2, SignalAssumption DEF EmitOK, PlaceOK, Calling
<1>4. /\ g \in Emissions /\ g.what = "emit" /\ g.pc = "ended" /\ g.list = f.h /\ g.h = None
      /\ g.called = f.called /\ g.due = f.due /\ g.max = f.max /\ g.detail = f.detail
      /\ g.state = f.state /\ g.stage = "before" /\ g.asked = f.asked
  BY <1>1, <1>2, <1>3, <1>g DEF Emissions
<1>5. PlaceOK(g) /\ ~ Ahead(g) /\ ~ Behind(g) /\ g.pc \notin Locking
  BY <1>3, <1>4 DEF PlaceOK, Calling, Ahead, Behind, Locking
<1>6. ASSUME NEW c \in Called(f)
      PROVE  c <= Rank(f.h) /\ c < Rank(f.h)
  BY <1>1, <1>2, <1>3, KnownAt
<1>7. \A r \in f.due \ Called(f) : Rank(f.h) <= r
  BY <1>2, <1>3, KnownAt
<1>8. EmitOK(g)
  BY <1>1, <1>2, <1>3, <1>4, <1>5, <1>6, <1>7, Moved
<1>9. x \in Handler /\ g \in AnyFrame
  BY <1>2, <1>3, <1>4, <1>x, Facts DEF AnyFrame
<1>10. Balanced(Top(t), g, None, x)
  <2>1. \A h \in Handler : /\ One(Top(t).list = h) = One(h = x) /\ One(h = None) = 0
                           /\ One(Top(t).h = h) = One(g.list = h) /\ One(g.h = h) = 0
                           /\ One(g.list = h) \in Nat /\ One(h = x) \in Nat
    BY <1>4, <1>f, <1>x, SignalAssumption DEF One
  <2> SUFFICES ASSUME NEW h \in Handler
               PROVE  One(Top(t).list = h) + One(Top(t).h = h) + One(h = None)
                        = One(g.list = h) + One(g.h = h) + One(h = x)
    BY DEF Balanced
  <2>2. QED
    BY <2>1
<1>11. None \in Alive \cup {None} /\ lock \in {None, t}
  BY <1>1
<1>12. QED
  BY <1>1, <1>4, <1>5, <1>8, <1>9, <1>10, <1>11, <1>f, UnrefStep

\* An emission goes on from its handler to n, which is none at the end.
LEMMA StepOK ==
  ASSUME IInv, Steady, NEW t \in Thread, stack[t] # << >>, NEW f, f = Top(t), f.what = "emit",
         lock \in {None, t}, f.h # None, f.stage \in {"before", "after"},
         ~ (f.stage = "before" /\ f.h \in After), NEW n \in Alive \cup {None}, Step(t, f, n),
         n # None => Rank(f.h) < Rank(n),
         n # None => \A r \in f.due \ Called(f) : Rank(n) <= r,
         n = None /\ f.state = "run" => f.due \ Called(f) = {}
  PROVE  IInv'
<1>p. PICK pc \in {"ended", "look"} : pc = IF n = None THEN "ended" ELSE "look"
  OBVIOUS
<1>x. PICK x : x = IF f.stage = "before" THEN f.list ELSE f.h
  OBVIOUS
<1>g. PICK g : g = IF f.stage = "before" THEN [f EXCEPT !.list = f.h, !.h = n, !.pc = pc]
                   ELSE [f EXCEPT !.h = n, !.pc = pc]
  OBVIOUS
<1>1. Unref(t, x, Ref(ref_count, n), WithTop(t, g), TRUE)
  BY <1>p, <1>x, <1>g DEF Step
<1>2. /\ f \in Emissions /\ EmitOK(f) /\ f.list \in Alive \cup {None}
      /\ f.h \in Alive /\ Alive \subseteq Handler /\ TypeOK
  BY EmitTop, Facts
<1>3. /\ f.stage = "before" => f.list # None /\ f.h \notin After
      /\ "open" \in f.asked => f.state = "restart"
  BY <1>2 DEF EmitOK, PlaceOK
<1>4. /\ g \in Emissions /\ g.what = "emit" /\ g.pc = pc /\ g.h = n
      /\ g.list = (IF f.stage = "before" THEN f.h ELSE f.list)
      /\ g.called = f.called /\ g.due = f.due /\ g.max = f.max /\ g.detail = f.detail
      /\ g.state = f.state /\ g.stage = f.stage /\ g.asked = f.asked
  <2>1. f \in Emissions /\ n \in Handler \cup {None} /\ f.h \in Handler /\ pc \in {"ended", "look"}
    BY <1>2, <1>p
  <2>2. CASE f.stage = "before"
    <3>1. g = [f EXCEPT !.list = f.h, !.h = n, !.pc = pc]
      BY <1>g, <2>2
    <3>2. QED
      BY <2>1, <2>2, <3>1 DEF Emissions
  <2>3. CASE f.stage # "before"
    <3>1. g = [f EXCEPT !.h = n, !.pc = pc]
      BY <1>g, <2>3
    <3>2. QED
      BY <2>1, <2>3, <3>1 DEF Emissions
  <2>4. QED
    BY <2>2, <2>3
<1>5. PlaceOK(g)
  BY <1>3, <1>4, <1>p DEF PlaceOK, Calling
<1>6. ~ Ahead(g) /\ g.pc \notin Locking /\ g.pc \notin Calling
  BY <1>4 DEF Ahead, Calling, Locking
<1>7. Behind(g) => n = None /\ f.state = "run"
  BY <1>4, <1>p DEF Behind, Calling
<1>8. Between(g) => n = None /\ f.state = "run" /\ f.stage = "before"
  BY <1>4, <1>p DEF Between, Calling
<1>9. ASSUME NEW c \in Called(f)
      PROVE  /\ g.h # None => c <= Rank(g.h) /\ c < Rank(g.h)
             /\ Between(g) => /\ g.list # None /\ c <= Rank(g.list)
                              /\ g.list \in After => c < Rank(g.list)
  <2>1. c <= Rank(f.h)
    BY <1>2, KnownAt
  <2>2. c \in Nat
    <3>1. f.called \in Seq(Nat)
      BY <1>2 DEF Emissions
    <3>2. QED
      BY <3>1 DEF Called
  <2>3. Rank(f.h) \in Nat /\ (n # None => Rank(n) \in Nat)
    BY <1>2, Ranks
  <2>4. g.h # None => c <= Rank(g.h) /\ c < Rank(g.h)
    BY <1>4, <2>1, <2>2, <2>3
  <2>5. Between(g) => g.list = f.h /\ f.h \notin After
    BY <1>3, <1>4, <1>8
  <2>6. QED
    BY <2>1, <2>4, <2>5
<1>10. ASSUME NEW r \in f.due \ Called(f)
       PROVE  /\ ~ Behind(g) /\ ~ Between(g)
              /\ g.h # None => Rank(g.h) <= r /\ (g.stage = "after" => r > MaxId)
  <2>1. ~ Behind(g) /\ ~ Between(g)
    BY <1>7, <1>8
  <2>2. f.stage = "after" => r > MaxId
    BY <1>2, KnownAt
  <2>3. QED
    BY <1>4, <2>1, <2>2
<1>11. EmitOK(g)
  BY <1>2, <1>4, <1>5, <1>6, <1>9, <1>10, Moved
<1>12. x \in Handler /\ g \in AnyFrame
  BY <1>2, <1>3, <1>4, <1>x DEF AnyFrame
<1>13. Balanced(Top(t), g, n, x)
  <2>1. CASE f.stage = "before"
    <3>1. x = f.list /\ g.list = f.h /\ g.h = n
      BY <1>4, <1>x, <2>1
    <3>2. \A h \in Handler : /\ One(Top(t).list = h) = One(h = x) /\ One(Top(t).h = h) = One(g.list = h)
                             /\ One(h = n) = One(g.h = h)
                             /\ One(g.list = h) \in Nat /\ One(h = x) \in Nat /\ One(g.h = h) \in Nat
      BY <3>1 DEF One
    <3> SUFFICES ASSUME NEW h \in Handler
                 PROVE  One(Top(t).list = h) + One(Top(t).h = h) + One(h = n)
                          = One(g.list = h) + One(g.h = h) + One(h = x)
      BY DEF Balanced
    <3>3. QED
      BY <3>2
  <2>2. CASE f.stage # "before"
    <3>1. x = f.h /\ g.list = f.list /\ g.h = n
      BY <1>4, <1>x, <2>2
    <3>2. \A h \in Handler : /\ One(Top(t).h = h) = One(h = x) /\ One(Top(t).list = h) = One(g.list = h)
                             /\ One(h = n) = One(g.h = h)
                             /\ One(g.list = h) \in Nat /\ One(h = x) \in Nat /\ One(g.h = h) \in Nat
      BY <3>1 DEF One
    <3> SUFFICES ASSUME NEW h \in Handler
                 PROVE  One(Top(t).list = h) + One(Top(t).h = h) + One(h = n)
                          = One(g.list = h) + One(g.h = h) + One(h = x)
      BY DEF Balanced
    <3>3. QED
      BY <3>2
  <2>3. QED
    BY <2>1, <2>2
<1>14. QED
  BY <1>1, <1>4, <1>6, <1>11, <1>12, <1>13, UnrefStep

\* The ranks that are due are those of handlers that are still connected.
LEMMA DueIsAlive ==
  ASSUME IInv, NEW f, EmitOK(f), NEW r \in f.due
  PROVE  \E h \in Alive : h \in Handler /\ Rank(h) = r /\ Callable(h, f)
<1>1. PICK h \in Handler : Rank(h) = r /\ Callable(h, f)
  BY DEF EmitOK
<1>2. h \in Alive
  BY <1>1, Facts DEF Callable
<1>3. QED
  BY <1>1, <1>2

LEMMA SkipOK ==
  ASSUME IInv, NEW t \in Thread, Skip(t)
  PROVE  IInv'
<1>f. PICK f : f = Top(t)
  OBVIOUS
<1>n. PICK n : n = hlist.next[f.h]
  OBVIOUS
<1>1. /\ stack[t] # << >> /\ f.what = "emit" /\ f.pc = "look" /\ lock = t /\ Steady
      /\ ~ Wanted(f) /\ ~ (f.stage = "before" /\ f.h \in After) /\ Step(t, f, n)
  BY <1>f, <1>n DEF Skip, In, At, Still, Steady, emissions
<1>2. f \in Emissions /\ EmitOK(f) /\ f.h \in Alive \cup {None}
  BY <1>1, <1>f, EmitTop
<1>3. f.h # None /\ f.stage \in {"before", "after"} /\ f.h \in Alive
  BY <1>1, <1>2 DEF EmitOK, PlaceOK, Calling
<1>4. TypeOK /\ InOrder /\ Distinct /\ Alive \subseteq Handler
  BY Facts
<1>5. /\ n \in Alive \cup {None} /\ (n # None => Rank(f.h) < Rank(n))
      /\ \A g \in Alive : Rank(f.h) < Rank(g) => n # None /\ Rank(n) <= Rank(g)
  BY <1>3, <1>4, <1>n, After1
<1>6. ASSUME NEW r \in f.due \ Called(f)
      PROVE  n # None /\ Rank(n) <= r
  <2>1. PICK h \in Alive : h \in Handler /\ Rank(h) = r /\ Callable(h, f)
    BY <1>2, DueIsAlive
  <2>2. Rank(f.h) <= r /\ (f.stage = "after" => r > MaxId)
    BY <1>2, <1>3, KnownAt
  <2>3. Rank(f.h) # r
    <3>1. SUFFICES ASSUME Rank(f.h) = r
                   PROVE  FALSE
      OBVIOUS
    <3>2. h = f.h
      BY <1>3, <1>4, <2>1, <3>1 DEF Distinct
    <3>3. f.stage = "after" => f.h \in After
      BY <1>3, <1>4, <2>2, <3>1, Ranks
    <3>4. Wanted(f)
      BY <1>1, <1>3, <2>1, <3>2, <3>3 DEF Wanted, Callable
    <3>5. QED
      BY <1>1, <3>4
  <2>4. Rank(f.h) \in Nat /\ Rank(h) \in Nat
    BY <1>3, <1>4, <2>1, Ranks
  <2>5. Rank(f.h) < Rank(h)
    BY <2>1, <2>2, <2>3, <2>4
  <2>6. QED
    BY <1>5, <2>1, <2>5
<1>7. n = None => f.due \ Called(f) = {}
  BY <1>6
<1>8. lock \in {None, t}
  BY <1>1
<1>9. QED
  BY <1>1, <1>3, <1>5, <1>6, <1>7, <1>8, <1>f, StepOK

LEMMA ReturnOK ==
  ASSUME IInv, NEW t \in Thread, Return(t)
  PROVE  IInv'
<1>f. PICK f : f = Top(t)
  OBVIOUS
<1>1. /\ stack[t] # << >> /\ f.what = "emit" /\ f.pc \in {"call", "returned"} /\ lock = None
      /\ Steady
      /\ \/ /\ f.stage \in {"before", "after"}
            /\ Step(t, f, IF f.state = "run" THEN hlist.next[f.h] ELSE None)
         \/ /\ f.stage \notin {"before", "after"}
            /\ stack' = WithTop(t, Ended(f)) /\ lock' = t /\ UNCHANGED <<hlist, ref_count>>
  BY <1>f DEF Return, At, Still, Steady, emissions
<1>2. f \in Emissions /\ EmitOK(f) /\ f.h \in Alive \cup {None}
  BY <1>1, <1>f, EmitTop
<1>3. f.pc \in Calling /\ lock \in {None, t}
  BY <1>1 DEF Calling
<1>4. TypeOK /\ InOrder /\ Distinct /\ Alive \subseteq Handler
  BY Facts
<1>5. CASE f.stage \in {"before", "after"}
  <2>n. PICK n : n = IF f.state = "run" THEN hlist.next[f.h] ELSE None
    OBVIOUS
  <2>1. Step(t, f, n)
    BY <1>1, <1>5, <2>n
  <2>2. /\ f.h # None /\ f.h \in Alive /\ (f.stage = "before" => f.h \notin After)
        /\ "open" \in f.asked => f.state = "restart"
    BY <1>2, <1>3, <1>5 DEF EmitOK, PlaceOK
  <2>3. CASE f.state = "run"
    <3>1. /\ n \in Alive \cup {None} /\ (n # None => Rank(f.h) < Rank(n))
          /\ \A g \in Alive : Rank(f.h) < Rank(g) => n # None /\ Rank(n) <= Rank(g)
      BY <1>4, <2>2, <2>3, <2>n, After1
    <3>2. ASSUME NEW r \in f.due \ Called(f)
          PROVE  n # None /\ Rank(n) <= r
      <4>1. PICK h \in Alive : h \in Handler /\ Rank(h) = r /\ Callable(h, f)
        BY <1>2, DueIsAlive
      <4>2. Rank(f.h) < r
        BY <1>2, <1>3, <2>2, KnownAt
      <4>3. QED
        BY <3>1, <4>1, <4>2
    <3>3. n = None => f.due \ Called(f) = {}
      BY <3>2
    <3>4. QED
      BY <1>1, <1>3, <1>5, <1>f, <2>1, <2>2, <3>1, <3>2, <3>3, StepOK
  <2>4. CASE f.state # "run"
    <3>1. n = None /\ n \in Alive \cup {None}
      BY <2>4, <2>n
    <3>2. QED
      BY <1>1, <1>3, <1>5, <1>f, <2>1, <2>2, <2>4, <3>1, StepOK
  <2>5. QED
    BY <2>3, <2>4
<1>6. CASE f.stage \notin {"before", "after"}
  <2>g. PICK g : g = Ended(f)
    OBVIOUS
  <2>1. f.h = None
    BY <1>1, <1>2, <1>6 DEF EmitOK, PlaceOK
  <2>2. /\ g \in Emissions /\ EmitOK(g) /\ g.h = f.h /\ g.list = f.list /\ g.what = "emit"
        /\ g.pc \in Locking
    BY <1>2, <1>3, <1>6, <2>1, <2>g, EndedOK
  <2>3. g \in AnyFrame
    BY <2>2 DEF AnyFrame
  <2>4. stack' = WithTop(t, g) /\ lock' = t /\ UNCHANGED <<hlist, ref_count>>
    BY <1>1, <1>6, <2>g
  <2>5. QED
    BY <1>1, <1>3, <1>f, <2>2, <2>3, <2>4, SameStep
<1>7. QED
  BY <1>5, <1>6

\* One more call: what an emission has called, and the order it called in.
LEMMA OneMoreCalled ==
  ASSUME NEW f, f.called \in Seq(Nat), NEW k \in Nat, NEW g, g.called = Append(f.called, k)
  PROVE  /\ Called(g) = Called(f) \cup {k}
         /\ (/\ \A i, j \in 1 .. Len(f.called) : i < j => f.called[i] < f.called[j]
             /\ \A c \in Called(f) : c < k)
            => \A i, j \in 1 .. Len(g.called) : i < j => g.called[i] < g.called[j]
<1>s. PICK s : s = f.called
  OBVIOUS
<1>e. PICK e : e = g.called
  OBVIOUS
<1>m. PICK m \in Nat : m = Len(s)
  BY <1>s
<1>1. /\ Len(e) = m + 1 /\ e[m + 1] = k
      /\ \A i \in 1 .. m : e[i] = s[i]
  BY <1>s, <1>e, <1>m
<1>2. Called(g) = {e[i] : i \in 1 .. m + 1} /\ Called(f) = {s[i] : i \in 1 .. m}
  BY <1>s, <1>e, <1>m, <1>1 DEF Called
<1>3. \A i : i \in 1 .. m + 1 <=> (i \in 1 .. m \/ i = m + 1)
  OBVIOUS
<1>4. {e[i] : i \in 1 .. m + 1} = {s[i] : i \in 1 .. m} \cup {k}
  BY <1>1, <1>3
<1>5. ASSUME \A i, j \in 1 .. m : i < j => s[i] < s[j], \A c \in Called(f) : c < k,
             NEW i \in 1 .. m + 1, NEW j \in 1 .. m + 1, i < j
      PROVE  e[i] < e[j]
  <2>1. i \in 1 .. m
    BY <1>5
  <2>2. e[i] = s[i] /\ s[i] \in Called(f)
    BY <1>1, <1>2, <2>1
  <2>3. CASE j = m + 1
    BY <1>1, <1>5, <2>2, <2>3
  <2>4. CASE j # m + 1
    <3>1. j \in 1 .. m
      BY <2>4
    <3>2. e[j] = s[j] /\ s[i] < s[j]
      BY <1>1, <1>5, <2>1, <3>1
    <3>3. QED
      BY <2>2, <3>2
  <2>5. QED
    BY <2>3, <2>4
<1>6. QED
  BY <1>s, <1>e, <1>m, <1>1, <1>2, <1>4, <1>5

LEMMA CallHandlerOK ==
  ASSUME IInv, NEW t \in Thread, CallHandler(t)
  PROVE  IInv'
<1>f. PICK f : f = Top(t)
  OBVIOUS
<1>k. PICK k : k = Rank(f.h)
  OBVIOUS
<1>e. PICK s2 : s2 = Append(f.called, k)
  OBVIOUS
<1>g. PICK g : g = [f EXCEPT !.called = s2, !.pc = "call"]
  OBVIOUS
<1>1. /\ stack[t] # << >> /\ f.what = "emit" /\ f.pc = "look" /\ lock = t /\ Steady
      /\ Wanted(f) /\ lock' = None /\ UNCHANGED <<hlist, ref_count>>
      /\ stack' = WithTop(t, Calls([f EXCEPT !.called = Append(@, Rank(f.h))], f.stage, f.state))
  BY <1>f DEF CallHandler, In, At, Still, Steady, emissions
<1>2. f \in Emissions /\ EmitOK(f) /\ f.h \in Alive \cup {None}
  BY <1>1, <1>f, EmitTop
<1>3. /\ f.h # None /\ f.stage \in {"before", "after"} /\ f.h \in Handler /\ TypeOK
      /\ "open" \in f.asked => f.state = "restart"
  BY <1>1, <1>2, Facts DEF EmitOK, PlaceOK, Calling
<1>4. k \in Nat /\ f.called \in Seq(Nat)
  BY <1>2, <1>3, <1>k, Ranks DEF Emissions
<1>5. s2 \in Seq(Nat)
  BY <1>4, <1>e
<1>6. /\ g \in Emissions /\ g.what = "emit" /\ g.pc = "call" /\ g.list = f.list /\ g.h = f.h
      /\ g.called = s2 /\ g.due = f.due /\ g.max = f.max /\ g.detail = f.detail
      /\ g.state = f.state /\ g.stage = f.stage /\ g.asked = f.asked
  BY <1>2, <1>5, <1>g DEF Emissions, Calling
<1>7. stack' = WithTop(t, g)
  <2>1. Calls([f EXCEPT !.called = Append(@, Rank(f.h))], f.stage, f.state) = g
    BY <1>2, <1>e, <1>g, <1>k DEF Calls, Emissions
  <2>2. QED
    BY <1>1, <2>1
<1>8. PlaceOK(g)
  <2>1. f.stage = "before" => f.h \notin After
    BY <1>1 DEF Wanted
  <2>2. f.stage = "before" => f.list # None
    BY <1>2, <1>3 DEF EmitOK, PlaceOK
  <2>3. QED
    BY <1>3, <1>6, <2>1, <2>2 DEF PlaceOK, Calling
<1>9. \A c \in Called(f) : c < k
  <2>1. f.stage = "after" => f.h \in After
    BY <1>1 DEF Wanted
  <2>2. QED
    BY <1>1, <1>2, <1>3, <1>k, <2>1, KnownAt
<1>10. /\ Called(g) = Called(f) \cup {k}
       /\ \A i, j \in 1 .. Len(g.called) : i < j => g.called[i] < g.called[j]
  <2>1. \A i, j \in 1 .. Len(f.called) : i < j => f.called[i] < f.called[j]
    BY <1>2 DEF EmitOK, CalledOK
  <2>2. g.called = Append(f.called, k)
    BY <1>6, <1>e
  <2>3. QED
    BY <1>4, <1>9, <2>1, <2>2, OneMoreCalled
<1>11. ~ Ahead(g) /\ ~ Between(g) /\ ~ Behind(g)
  BY <1>3, <1>6 DEF Ahead, Between, Behind, Calling
<1>12. CalledOK(g)
  <2>1. \A i, j \in 1 .. Len(g.called) : i < j => g.called[i] < g.called[j]
    BY <1>10
  <2>2. \A c \in Called(g) : c <= Rank(g.h)
    <3>1. \A c \in Called(f) : c <= Rank(f.h)
      BY <1>2, <1>3, KnownAt
    <3>2. QED
      BY <1>4, <1>6, <1>10, <1>k, <3>1
  <2>3. QED
    BY <1>6, <1>11, <2>1, <2>2 DEF CalledOK
<1>13. DueOK(g)
  <2>1. ASSUME NEW r \in g.due \ Called(g)
        PROVE  Rank(g.h) <= r /\ Rank(g.h) < r /\ (g.stage = "after" => r > MaxId)
    <3>1. r \in f.due \ Called(f) /\ r # k /\ r \in Nat
      BY <1>2, <1>6, <1>10 DEF Emissions
    <3>2. Rank(f.h) <= r /\ (f.stage = "after" => r > MaxId)
      BY <1>2, <1>3, <3>1, KnownAt
    <3>3. QED
      BY <1>4, <1>6, <1>k, <3>1, <3>2
  <2>2. QED
    BY <1>11, <2>1 DEF DueOK
<1>14. \A r \in g.due : \E h \in Handler : Rank(h) = r /\ Callable(h, g)
  BY <1>2, <1>6 DEF EmitOK, Callable
<1>15. EmitOK(g) /\ g \in AnyFrame /\ g.pc \notin Locking
  BY <1>6, <1>8, <1>12, <1>13, <1>14 DEF EmitOK, AnyFrame, Locking
<1>16. lock \in {None, t} /\ lock' \in {None, t}
  BY <1>1
<1>17. QED
  BY <1>1, <1>6, <1>7, <1>15, <1>16, <1>f, SameStep

\* An emission in user code stays where it is.
CallingAs(f, pc, s) == [f EXCEPT !.pc = pc, !.state = s]

LEMMA CallingOK ==
  ASSUME NEW f \in Emissions, EmitOK(f), f.pc \in Calling, "open" \notin f.asked,
         NEW pc \in Calling, NEW s \in {"run", "restart", "stop"}, f.state # "run" => s # "run",
         NEW g, g = CallingAs(f, pc, s)
  PROVE  /\ g \in Emissions /\ EmitOK(g) /\ g.h = f.h /\ g.list = f.list /\ g.what = "emit"
         /\ g.pc = pc
<1>1. /\ g \in Emissions /\ g.what = "emit" /\ g.pc = pc /\ g.list = f.list /\ g.h = f.h
      /\ g.called = f.called /\ g.due = f.due /\ g.max = f.max /\ g.detail = f.detail
      /\ g.state = s /\ g.stage = f.stage /\ g.asked = f.asked
  BY DEF Emissions, Calling, CallingAs
<1>2. PlaceOK(g)
  BY <1>1 DEF EmitOK, PlaceOK, Calling
<1>3. /\ Ahead(g) => Ahead(f)
      /\ Between(g) => Between(f)
      /\ ~ Behind(g) /\ g.pc # "look"
  BY <1>1 DEF Ahead, Between, Behind, Calling
<1>4. EmitOK(g)
  <2>1. CASE Ahead(g)
    <3>1. Ahead(f) /\ ~ Between(g) /\ g.h = None
      BY <1>1, <1>2, <1>3, <2>1 DEF Ahead, Between, Calling, PlaceOK
    <3>2. QED
      BY <1>1, <1>2, <1>3, <3>1, KnownAhead, Moved
  <2>2. CASE Between(g)
    <3>1. Between(f) /\ ~ Ahead(g) /\ g.h = None
      BY <1>1, <1>2, <1>3, <2>2 DEF Ahead, Between, Calling, PlaceOK
    <3>2. QED
      BY <1>1, <1>2, <1>3, <3>1, KnownBetween, Moved
  <2>3. CASE ~ Ahead(g) /\ ~ Between(g)
    <3>1. CASE g.h = None
      BY <1>1, <1>2, <1>3, <2>3, <3>1, MovedAway
    <3>2. CASE g.h # None
      BY <1>1, <1>2, <1>3, <2>3, <3>2, KnownAt, Moved
    <3>3. QED
      BY <3>1, <3>2
  <2>4. QED
    BY <2>1, <2>2, <2>3
<1>5. QED
  BY <1>1, <1>4

LEMMA StopOK ==
  ASSUME IInv, NEW t \in Thread, Stop(t) \/ Stopped(t)
  PROVE  IInv'
<1>f. PICK f : f = Top(t)
  OBVIOUS
<1>1. /\ stack[t] # << >> /\ f.what = "emit" /\ lock = None
      /\ Steady /\ UNCHANGED <<lock, hlist, ref_count>>
      /\ \/ f.pc = "call" /\ f.state = "run" /\ stack' = WithTop(t, [f EXCEPT !.pc = "stop"])
         \/ /\ f.pc = "stop"
            /\ stack' = WithTop(t, [f EXCEPT !.pc = "returned", !.state = "stop"])
  BY <1>f DEF Stop, Stopped, At, Still, Steady, emissions
<1>2. f \in Emissions /\ EmitOK(f) /\ f.state \in {"run", "restart", "stop"} /\ f.pc \in Calling
  BY <1>1, <1>f, EmitTop DEF Emissions, Calling
<1>3. "open" \notin f.asked
  BY <1>1, <1>2 DEF EmitOK, PlaceOK
<1>4. PICK pc \in Calling, s \in {"run", "restart", "stop"} :
        (f.state # "run" => s # "run") /\ stack' = WithTop(t, CallingAs(f, pc, s))
  <2>1. [f EXCEPT !.pc = "stop"] = [f EXCEPT !.pc = "stop", !.state = f.state]
    BY <1>2 DEF Emissions
  <2>2. QED
    BY <1>1, <1>2, <2>1 DEF Calling, CallingAs
<1>5. PICK g : g = CallingAs(f, pc, s)
  OBVIOUS
<1>6. /\ g \in Emissions /\ EmitOK(g) /\ g.h = f.h /\ g.list = f.list /\ g.what = "emit"
      /\ g.pc = pc
  <2>1. /\ f \in Emissions /\ EmitOK(f) /\ f.pc \in Calling /\ "open" \notin f.asked
        /\ pc \in Calling /\ s \in {"run", "restart", "stop"} /\ (f.state # "run" => s # "run")
    BY <1>2, <1>3, <1>4
  <2>2. QED
    BY <1>5, <2>1, CallingOK
<1>7. g \in AnyFrame /\ g.pc \notin Locking /\ stack' = WithTop(t, g)
  BY <1>4, <1>5, <1>6 DEF AnyFrame, Locking, Calling
<1>8. lock \in {None, t} /\ lock' \in {None, t}
  BY <1>1
<1>9. QED
  BY <1>1, <1>6, <1>7, <1>8, <1>f, SameStep

LEMMA CallClassOK ==
  ASSUME IInv, NEW t \in Thread, NEW s \in {"last", "cleanup"}, CallClass(t, s)
  PROVE  IInv'
<1>f. PICK f : f = Top(t)
  OBVIOUS
<1>1. /\ stack[t] # << >> /\ f.what = "emit" /\ f.pc = s /\ lock = t /\ Steady
      /\ UNCHANGED <<hlist, ref_count>>
      /\ \/ /\ stack' = WithTop(t, Calls(f, s, IF s = "last" THEN "run" ELSE "stop"))
            /\ lock' = None
         \/ /\ stack' = WithTop(t, [f EXCEPT !.pc = IF s = "last" THEN "after" ELSE "finish"])
            /\ UNCHANGED lock
  BY <1>f DEF CallClass, In, At, Still, Steady, emissions
<1>2. f \in Emissions /\ EmitOK(f)
  BY <1>1, <1>f, EmitTop
<1>3. f.h = None /\ "open" \notin f.asked /\ (s = "last" => f.state = "run" /\ Between(f))
  BY <1>1, <1>2 DEF EmitOK, PlaceOK, Calling, Between
<1>4. PICK g : /\ stack' = WithTop(t, g) /\ g \in Emissions
               /\ g.list = f.list /\ g.h = None /\ g.what = "emit"
               /\ g.called = f.called /\ g.due = f.due /\ g.max = f.max /\ g.detail = f.detail
               /\ "open" \notin g.asked
               /\ \/ g.pc = "call" /\ s = "last" /\ g.stage = "last" /\ lock' = None
                  \/ /\ g.pc = "call" /\ s = "cleanup" /\ g.stage = "cleanup" /\ g.state = "stop"
                     /\ lock' = None
                  \/ g.pc = "after" /\ s = "last" /\ g.state = f.state /\ lock' = t
                  \/ g.pc = "finish" /\ s = "cleanup" /\ g.state = f.state /\ lock' = t
  <2>1. CASE /\ stack' = WithTop(t, Calls(f, s, IF s = "last" THEN "run" ELSE "stop"))
             /\ lock' = None
    <3>z. PICK z \in {"run", "stop"} : z = IF s = "last" THEN "run" ELSE "stop"
      OBVIOUS
    <3>g. PICK g : g = [f EXCEPT !.pc = "call", !.stage = s, !.state = z]
      OBVIOUS
    <3>1. /\ g \in Emissions /\ g.what = "emit" /\ g.pc = "call" /\ g.list = f.list /\ g.h = f.h
          /\ g.called = f.called /\ g.due = f.due /\ g.max = f.max /\ g.detail = f.detail
          /\ g.state = z /\ g.stage = s /\ g.asked = f.asked
      <4>1. f \in Emissions
        BY <1>2
      <4>2. QED
        BY <4>1, <3>g DEF Emissions, Calling
    <3>2. stack' = WithTop(t, g)
      BY <2>1, <3>z, <3>g DEF Calls
    <3>3. QED
      BY <1>3, <2>1, <3>z, <3>1, <3>2
  <2>2. CASE /\ stack' = WithTop(t, [f EXCEPT !.pc = IF s = "last" THEN "after" ELSE "finish"])
             /\ UNCHANGED lock
    <3>g. PICK g : g = [f EXCEPT !.pc = IF s = "last" THEN "after" ELSE "finish"]
      OBVIOUS
    <3>1. /\ g \in Emissions /\ g.what = "emit" /\ g.list = f.list /\ g.h = f.h
          /\ g.pc = (IF s = "last" THEN "after" ELSE "finish")
          /\ g.called = f.called /\ g.due = f.due /\ g.max = f.max /\ g.detail = f.detail
          /\ g.state = f.state /\ g.asked = f.asked
      BY <1>2, <3>g DEF Emissions
    <3>2. stack' = WithTop(t, g)
      BY <2>2, <3>g
    <3>3. QED
      BY <1>1, <1>3, <2>2, <3>1, <3>2
  <2>3. QED
    BY <1>1, <2>1, <2>2
<1>5. PlaceOK(g) /\ ~ Ahead(g)
  BY <1>3, <1>4 DEF PlaceOK, Calling, Ahead
<1>6. /\ Between(g) => Between(f)
      /\ Behind(g) => Behind(f)
      /\ Between(g) => ~ Behind(g)
  BY <1>1, <1>3, <1>4 DEF Between, Behind, Calling
<1>7. EmitOK(g)
  <2>1. CASE Between(g)
    BY <1>2, <1>4, <1>5, <1>6, <2>1, KnownBetween, Moved
  <2>2. CASE Behind(g)
    BY <1>2, <1>4, <1>5, <1>6, <2>2, KnownBehind, Moved
  <2>3. CASE ~ Between(g) /\ ~ Behind(g)
    BY <1>2, <1>4, <1>5, <2>3, MovedAway
  <2>4. QED
    BY <2>1, <2>2, <2>3
<1>8. g \in AnyFrame /\ lock \in {None, t} /\ lock' \in {None, t} /\ (g.pc \in Locking => lock' = t)
  BY <1>1, <1>4 DEF AnyFrame, Locking
<1>9. g.h = f.h
  BY <1>3, <1>4
<1>10. QED
  BY <1>1, <1>4, <1>7, <1>8, <1>9, <1>f, SameStep

LEMMA FinishOK ==
  ASSUME IInv, NEW t \in Thread, Finish(t)
  PROVE  IInv'
<1>f. PICK f : f = Top(t)
  OBVIOUS
<1>g. PICK g : g = [f EXCEPT !.pc = "pop", !.list = None]
  OBVIOUS
<1>1. /\ stack[t] # << >> /\ f.what = "emit" /\ f.pc = "finish" /\ lock = t /\ Steady
      /\ \/ f.list # None /\ Unref(t, f.list, ref_count, WithTop(t, g), TRUE)
         \/ f.list = None /\ stack' = WithTop(t, g) /\ UNCHANGED <<lock, hlist, ref_count>>
  BY <1>f, <1>g DEF Finish, In, At, Still, Steady, emissions
<1>2. f \in Emissions /\ EmitOK(f) /\ f.list \in Alive \cup {None}
  BY <1>1, <1>f, EmitTop
<1>3. /\ g \in AnyFrame /\ g.what = "emit" /\ g.pc = "pop" /\ g.list = None
      /\ g.h = f.h /\ g.called = f.called /\ g.due = f.due /\ g.max = f.max
      /\ g.detail = f.detail /\ g.state = f.state /\ g.stage = f.stage /\ g.asked = f.asked
  BY <1>2, <1>g DEF AnyFrame, Emissions
<1>4. g.h = None /\ PlaceOK(g)
  BY <1>1, <1>2, <1>3 DEF EmitOK, PlaceOK, Calling
<1>5. EmitOK(g)
  <2>1. ~ Ahead(g) /\ ~ Between(g) /\ ~ Behind(g)
    BY <1>3 DEF Ahead, Between, Behind, Calling
  <2>2. QED
    BY <1>2, <1>3, <1>4, <2>1, MovedAway
<1>6. g.pc \notin Locking
  BY <1>3 DEF Locking
<1>7. CASE f.list # None /\ Unref(t, f.list, ref_count, WithTop(t, g), TRUE)
  <2> PICK x : x = f.list
    OBVIOUS
  <2>1. x \in Handler /\ Unref(t, x, Ref(ref_count, None), WithTop(t, g), TRUE)
    BY <1>2, <1>7, RefNone, Facts
  <2>2. Balanced(Top(t), g, None, x)
    BY <1>3, <1>f, BalanceDropped
  <2>3. QED
    BY <1>1, <1>3, <1>5, <1>6, <2>1, <2>2, <1>f, UnrefStep
<1>8. CASE f.list = None /\ stack' = WithTop(t, g) /\ UNCHANGED <<lock, hlist, ref_count>>
  <2>1. g.h = f.h /\ g.list = f.list
    BY <1>3, <1>8
  <2>2. QED
    BY <1>1, <1>3, <1>5, <1>6, <1>8, <1>f, <2>1, SameStep
<1>9. QED
  BY <1>1, <1>7, <1>8

\* The emission is over: it refers to nothing any more.
LEMMA PopOK ==
  ASSUME IInv, NEW t \in Thread, Pop(t)
  PROVE  IInv'
<1>f. PICK f : f = Top(t)
  OBVIOUS
<1>p. PICK p : p = Here(t)
  OBVIOUS
<1>1. /\ stack[t] # << >> /\ f.what = "emit" /\ f.pc = "pop" /\ lock = t /\ Steady
      /\ stack' = Popped(t) /\ lock' = None /\ UNCHANGED <<hlist, ref_count>>
  BY <1>f DEF Pop, In, At, Still, Steady, emissions
<1>2. f.list = None /\ f.h = None
  <2>1. EmitOK(f)
    BY <1>1, <1>f, EmitTop
  <2>2. QED
    BY <1>1, <2>1 DEF EmitOK, PlaceOK, Calling
<1>3. /\ TypeOK /\ InOrder /\ Distinct /\ hlist \in Lists /\ ref_count \in [Handler -> Nat]
      /\ IsFiniteSet(Places)
  BY Facts
<1>4. /\ \A q : q # p => Same(q)
      /\ p \in Places /\ p \notin Places' /\ Frame(p) = f
  BY <1>1, <1>3, <1>f, <1>p, TakenPlaces
<1>5. \A h \in Handler : /\ p \notin Listing(h) /\ p \notin Standing(h)
                         /\ p \notin Invoking(h) /\ p \notin Dropping(h)
                         /\ p \notin Listing(h)' /\ p \notin Standing(h)'
                         /\ p \notin Invoking(h)' /\ p \notin Dropping(h)'
  <2>1. None \notin Handler
    BY SignalAssumption
  <2>2. QED
    BY <1>1, <1>2, <1>4, <2>1 DEF Listing, Standing, Invoking, Dropping
<1>6. ASSUME NEW h \in Handler
      PROVE  /\ Listing(h)' = Listing(h) /\ Standing(h)' = Standing(h)
             /\ Invoking(h)' = Invoking(h) /\ Dropping(h)' = Dropping(h)
  <2>1. \A q : /\ q \in Listing(h)' <=> q \in Listing(h)
               /\ q \in Standing(h)' <=> q \in Standing(h)
               /\ q \in Invoking(h)' <=> q \in Invoking(h)
               /\ q \in Dropping(h)' <=> q \in Dropping(h)
    BY <1>4, <1>5, SameSets
  <2>2. QED
    BY <2>1
<1>7. IsFiniteSet(Places')
  <2>1. IsFiniteSet(Places) /\ \A q : q # p => Same(q)
    BY <1>3, <1>4
  <2>2. QED
    BY <2>1, OneChanged
<1>8. Alive' = Alive /\ InOrder'
  <2>1. Alive' = Alive
    BY <1>1 DEF Alive
  <2>2. \A h : Rank(h)' = Rank(h)
    BY <1>1 DEF Rank, Steady, handlerVars
  <2>3. QED
    BY <1>1, <1>3, <2>1, <2>2, OrderKept
<1>9. ASSUME NEW h \in Handler
      PROVE  ref_count'[h] = One(h \in connected) + matched[h] + Held(h)'
  <2>1. Held(h)' = Held(h) /\ ref_count'[h] = ref_count[h]
    BY <1>1, <1>6 DEF Held
  <2>2. QED
    BY <2>1, Facts
<1>10. ASSUME NEW h \in Handler
       PROVE  ClosureOK(h)'
  <2>1. ClosureOK(h)
    BY Facts
  <2>2. QED
    BY <1>1, <1>6, <1>8, <2>1 DEF ClosureOK, Steady, closureVars
<1>11. /\ stack' \in [Thread -> Seq(AnyFrame)]
       /\ Len(stack[t]) \in Nat \ {0} /\ Len(stack'[t]) = Len(stack[t]) - 1
       /\ \A i \in 1 .. Len(stack[t]) - 1 : stack'[t][i] = stack[t][i]
       /\ \A u \in Thread \ {t} : stack'[u] = stack[u]
  BY <1>1, <1>3, TakenOff
<1>12. ASSUME NEW u \in Thread, NEW i \in 1 .. Len(stack'[u])
       PROVE  FrameOK(u, i)'
  <2>1. i \in 1 .. Len(stack[u]) /\ <<u, i>> # Here(t) /\ stack'[u][i] = stack[u][i]
    BY <1>11 DEF Here
  <2>2. lock \in {None, t} /\ Steady /\ Alive' \subseteq Alive /\ ref_count' \in [Handler -> Nat]
    BY <1>1, <1>3, <1>8
  <2>3. QED
    BY <2>1, <2>2, FrameKept
<1>13. /\ Steady /\ Alive' \subseteq Alive /\ InOrder' /\ hlist' \in Lists
       /\ ref_count' \in [Handler -> Nat] /\ lock' \in Thread \cup {None}
  BY <1>1, <1>3, <1>8
<1>14. QED
  BY <1>7, <1>9, <1>10, <1>11, <1>12, <1>13, Carried

-----------------------------------------------------------------------------
(* The operations of the program *)

\* While nobody holds the lock no emission is where it needs it.
LEMMA Unlocked ==
  ASSUME IInv, lock = None, NEW u \in Thread, NEW i \in 1 .. Len(stack[u]), stack[u][i].what = "emit"
  PROVE  EmitOK(stack[u][i]) /\ stack[u][i].pc \notin Locking
<1>1. FrameOK(u, i)
  BY Facts
<1>2. None \notin Thread
  BY SignalAssumption
<1>3. QED
  BY <1>1, <1>2 DEF FrameOK

LEMMA AllSame ==
  ASSUME IInv, \A q : Same(q)
  PROVE  /\ IsFiniteSet(Places')
         /\ \A h : /\ Held(h)' = Held(h)
                   /\ Invoking(h)' = Invoking(h) /\ Dropping(h)' = Dropping(h)
<1>1. Places' = Places
  BY DEF Same
<1>2. ASSUME NEW h
      PROVE  /\ Listing(h)' = Listing(h) /\ Standing(h)' = Standing(h)
             /\ Invoking(h)' = Invoking(h) /\ Dropping(h)' = Dropping(h)
  <2>1. \A q : /\ q \in Listing(h)' <=> q \in Listing(h)
               /\ q \in Standing(h)' <=> q \in Standing(h)
               /\ q \in Invoking(h)' <=> q \in Invoking(h)
               /\ q \in Dropping(h)' <=> q \in Dropping(h)
    BY SameSets
  <2>2. QED
    BY <2>1
<1>3. IsFiniteSet(Places')
  BY <1>1, Facts
<1>4. QED
  BY <1>2, <1>3 DEF Held

\* An emission knows what it knew when something happens to what it does not
\* refer to, and it is excused from calling it.
LEMMA Lessened ==
  ASSUME NEW f, EmitOK(f), NEW g, PlaceOK(g),
         g.pc = f.pc, g.list = f.list, g.h = f.h, g.called = f.called, g.max = f.max,
         g.detail = f.detail, g.stage = f.stage, g.due \subseteq f.due,
         Behind(g) => Behind(f), Between(g) => Between(f),
         f.h # None => Rank(f.h)' = Rank(f.h), f.list # None => Rank(f.list)' = Rank(f.list),
         \A h \in Handler : Callable(h, f) /\ Rank(h) \in g.due => Callable(h, f)' /\ Rank(h)' = Rank(h)
  PROVE  EmitOK(g)'
<1>1. PlaceOK(g)'
  BY DEF PlaceOK
<1>2. Called(g) = Called(f) /\ Called(g)' = Called(f)
  BY DEF Called
<1>3. Ahead(g) => Ahead(f)
  BY DEF Ahead
<1>4. CalledOK(f) /\ DueOK(f)
  BY DEF EmitOK
<1>5. /\ Behind(g)' = Behind(g) /\ Between(g)' = Between(g) /\ Ahead(g)' = Ahead(g)
  BY DEF Behind, Between, Ahead
<1>6. CalledOK(g)'
  BY <1>2, <1>3, <1>4, <1>5 DEF CalledOK
<1>7. DueOK(g)'
  <2>1. \A r \in f.due \ Called(f) : Between(f) => f.list # None
    BY <1>4, SignalAssumption DEF DueOK
  <2>2. QED
    BY <1>2, <1>3, <1>4, <1>5, <2>1 DEF DueOK
<1>8. \A r \in g.due : \E h \in Handler : Rank(h)' = r /\ Callable(h, g)'
  <2>1. ASSUME NEW r \in g.due
        PROVE  \E h \in Handler : Rank(h)' = r /\ Callable(h, g)'
    <3>1. PICK h \in Handler : Rank(h) = r /\ Callable(h, f)
      BY DEF EmitOK
    <3>2. Rank(h)' = r /\ Callable(h, f)'
      BY <3>1
    <3>3. QED
      BY <3>2 DEF Callable
  <2>2. QED
    BY <2>1
<1>9. QED
  BY <1>1, <1>6, <1>7, <1>8 DEF EmitOK

LEMMA IsSeq ==
  ASSUME NEW n \in Nat, NEW S, NEW s \in [1 .. n -> S]
  PROVE  s \in Seq(S) /\ Len(s) = n
OBVIOUS

\* An emission f and what it becomes when it no longer has to call rank r, or is
\* told to start again.
Fields(f, g) ==
  /\ g.pc = f.pc /\ g.list = f.list /\ g.h = f.h /\ g.called = f.called /\ g.max = f.max
  /\ g.detail = f.detail /\ g.stage = f.stage /\ g.what = "emit" /\ f.what = "emit"
  /\ g \in Emissions

Excused(f, g, r) ==
  Fields(f, g) /\ g.due = f.due \ {r} /\ g.state = f.state /\ g.asked = f.asked

\* Excuse changes the emissions only, and of them only whom they have to call.
LEMMA Excuses ==
  ASSUME IInv, NEW h \in Handler, NEW r, r = Rank(h), NEW st, st = Excuse(h)
  PROVE  /\ st \in [Thread -> Seq(AnyFrame)]
         /\ \A u \in Thread : /\ Len(st[u]) = Len(stack[u])
                              /\ \A i \in 1 .. Len(stack[u]) :
                                   \/ Excused(stack[u][i], st[u][i], r)
                                   \/ stack[u][i].what # "emit" /\ st[u][i] = stack[u][i]
<1>1. stack \in [Thread -> Seq(AnyFrame)]
  BY Facts
<1>2. ASSUME NEW u \in Thread
      PROVE  /\ st[u] \in Seq(AnyFrame) /\ Len(st[u]) = Len(stack[u])
             /\ \A i \in 1 .. Len(stack[u]) :
                  \/ Excused(stack[u][i], st[u][i], r)
                  \/ stack[u][i].what # "emit" /\ st[u][i] = stack[u][i]
  <2>n. PICK n \in Nat : n = Len(stack[u])
    BY <1>1
  <2>1. st[u] = [i \in 1 .. n |-> IF stack[u][i].what = "emit"
                                  THEN [stack[u][i] EXCEPT !.due = @ \ {r}] ELSE stack[u][i]]
    BY <2>n DEF Excuse
  <2>2. ASSUME NEW i \in 1 .. n
        PROVE  /\ st[u][i] \in AnyFrame
               /\ \/ Excused(stack[u][i], st[u][i], r)
                  \/ stack[u][i].what # "emit" /\ st[u][i] = stack[u][i]
    <3>f. PICK f : f = stack[u][i]
      OBVIOUS
    <3>g. PICK g : g = st[u][i]
      OBVIOUS
    <3>1. f \in AnyFrame
      BY <1>1, <2>n, <3>f
    <3>2. g = IF f.what = "emit" THEN [f EXCEPT !.due = @ \ {r}] ELSE f
      BY <2>1, <3>f, <3>g
    <3>3. CASE f.what = "emit"
      <4>1. f \in Emissions
        BY <3>1, <3>3 DEF AnyFrame, Fasts, Drops
      <4>2. Excused(f, g, r)
        BY <3>2, <3>3, <4>1 DEF Emissions, Excused, Fields
      <4>3. QED
        BY <3>f, <3>g, <4>2 DEF AnyFrame, Excused, Fields
    <3>4. CASE f.what # "emit"
      BY <3>1, <3>2, <3>4, <3>f, <3>g
    <3>5. QED
      BY <3>3, <3>4
  <2>3. st[u] \in [1 .. n -> AnyFrame]
    BY <2>1, <2>2
  <2>4. QED
    BY <2>2, <2>3, <2>n, IsSeq
<1>3. st = [u \in Thread |-> st[u]]
  BY DEF Excuse
<1>4. QED
  BY <1>2, <1>3

\* Such stacks count as those of now.
LEMMA ExcusedSame ==
  ASSUME IInv, NEW h \in Handler, NEW st, st = Excuse(h)
  PROVE  /\ \A p : Alike(st, p)
         /\ stack' = st => \A q : Same(q)
<1>r. PICK r : r = Rank(h)
  OBVIOUS
<1>1. /\ \A u \in Thread : Len(st[u]) = Len(stack[u])
      /\ \A u \in Thread : \A i \in 1 .. Len(stack[u]) :
           /\ st[u][i].what = stack[u][i].what
           /\ stack[u][i].what = "emit" => /\ st[u][i].list = stack[u][i].list
                                           /\ st[u][i].h = stack[u][i].h
           /\ stack[u][i].what # "emit" => st[u][i] = stack[u][i]
  BY <1>r, Excuses DEF Excused, Fields
<1>2. \A p : Alike(st, p)
  BY <1>1 DEF Alike
<1>3. ASSUME stack' = st, NEW q
      PROVE  Same(q)
  <2>1. q \in Places' <=> q \in Places
    BY <1>1, <1>3, PlaceDef, PlaceNext
  <2>2. ASSUME q \in Places
        PROVE  Same(q)
    <3>1. PICK u \in Thread : \E i \in 1 .. Len(stack[u]) : q = <<u, i>>
      BY <2>2, PlaceDef
    <3>2. PICK i \in 1 .. Len(stack[u]) : q = <<u, i>>
      BY <3>1
    <3>3. Frame(q) = stack[u][i] /\ Frame(q)' = st[u][i]
      BY <1>3, <3>2, FrameIs
    <3>4. QED
      BY <1>1, <2>1, <3>3 DEF Same
  <2>3. QED
    BY <2>1, <2>2, SameNowhere
<1>4. QED
  BY <1>2, <1>3

LEMMA Assembled ==
  ASSUME Types', hlist' \in Lists, ref_count' \in [Handler -> Nat], matched' \in [Handler -> Nat],
         closure_refs' \in [Handler -> Nat], stack' \in [Thread -> Seq(AnyFrame)],
         IsFiniteSet(Places'), InOrder',
         \A h \in Handler : ref_count'[h] = One(h \in connected') + matched'[h] + Held(h)',
         \A h \in Handler : ref_count'[h] > 0 => h \in used',
         \A h \in Handler : HandlerOK(h)', \A h \in Handler : ClosureOK(h)',
         \A u \in Thread : \A i \in 1 .. Len(stack'[u]) : FrameOK(u, i)'
  PROVE  IInv'
<1>1. TypeOK'
  BY DEF TypeOK, Lists, AnyFrame
<1>2. RefsExact'
  BY DEF RefsExact, One
<1>3. QED
  BY <1>1, <1>2 DEF IInv

\* A frame that is no emission needs nothing but that the dropped stay dropped.
LEMMA DropKept ==
  ASSUME IInv, ref_count' \in [Handler -> Nat], Alive' \subseteq Alive,
         NEW u \in Thread, NEW i \in 1 .. Len(stack[u]), stack[u][i].what # "emit",
         NEW v, NEW j, stack'[v][j] = stack[u][i]
  PROVE  FrameOK(v, j)'
<1>f. PICK f : f = stack[u][i]
  OBVIOUS
<1>1. FrameOK(u, i) /\ stack'[v][j] = f /\ f \in AnyFrame /\ f.what # "emit"
  BY <1>f, Facts
<1>2. f.what = "fast" => (f.pc = "picked" => f.h # None)
  BY <1>f, <1>1 DEF FrameOK
<1>3. f.what = "drop" => DropOK(f)'
  <2>1. SUFFICES ASSUME f.what = "drop"
                 PROVE  DropOK(f)'
    OBVIOUS
  <2>2. f.h \in Handler /\ DropOK(f)
    BY <1>f, <1>1, <2>1 DEF FrameOK, AnyFrame, Emissions, Fasts, Drops
  <2>3. f.handler => f.h \notin Alive
    BY <2>2, Facts DEF DropOK
  <2>4. QED
    BY <2>2, <2>3 DEF DropOK, Alive
<1>4. QED
  BY <1>1, <1>2, <1>3 DEF FrameOK

\* An emission that is excused from calling x, when nobody else changes.
LEMMA ExcusedOK ==
  ASSUME IInv, lock = None, NEW x \in Handler, NEW r, r = Rank(x), UNCHANGED id,
         \A h \in Handler : h # x /\ h \in connected /\ block_count[h] = 0 =>
                              h \in connected' /\ block_count'[h] = 0,
         NEW u \in Thread, NEW i \in 1 .. Len(stack[u]), NEW g, Excused(stack[u][i], g, r),
         NEW v, NEW j, stack'[v][j] = g
  PROVE  FrameOK(v, j)'
<1>f. PICK f : f = stack[u][i]
  OBVIOUS
<1>1. Excused(f, g, r) /\ f.what = "emit"
  BY <1>f DEF Excused, Fields
<1>2. EmitOK(f) /\ f.pc \notin Locking
  BY <1>f, <1>1, Unlocked
<1>3. /\ g.pc = f.pc /\ g.list = f.list /\ g.h = f.h /\ g.called = f.called /\ g.max = f.max
      /\ g.detail = f.detail /\ g.stage = f.stage /\ g.what = "emit"
      /\ g.due = f.due \ {r} /\ g.state = f.state /\ g.asked = f.asked
  BY <1>1 DEF Excused, Fields
<1>4. PlaceOK(g)
  BY <1>2, <1>3 DEF EmitOK, PlaceOK
<1>5. (Behind(g) => Behind(f)) /\ (Between(g) => Between(f))
  BY <1>3 DEF Behind, Between
<1>6. \A h : Rank(h)' = Rank(h)
  BY DEF Rank
<1>7. \A h \in Handler : Callable(h, f) /\ Rank(h) \in g.due => Callable(h, f)' /\ Rank(h)' = Rank(h)
  <2>1. \A h \in Handler : Rank(h) \in g.due => h # x
    BY <1>3
  <2>2. QED
    BY <1>6, <2>1 DEF Callable
<1>8. g.due \subseteq f.due
  BY <1>3
<1>9. EmitOK(g)'
  BY <1>2, <1>3, <1>4, <1>5, <1>6, <1>7, <1>8, Lessened
<1>10. QED
  BY <1>2, <1>3, <1>9 DEF FrameOK

LEMMA BlockOK ==
  ASSUME IInv, NEW t \in Thread, NEW h \in Handler, Block(t, h)
  PROVE  IInv'
<1>s. PICK st : st = Excuse(h)
  OBVIOUS
<1>r. PICK r : r = Rank(h)
  OBVIOUS
<1>1. /\ lock = None /\ h \in connected /\ block_count[h] < MaxBlock
      /\ block_count' = [block_count EXCEPT ![h] = @ + 1] /\ stack' = st
      /\ UNCHANGED <<kind, lock, hlist, used, connected, id, n_handlers, ref_count, matched,
                     closureVars, emitted>>
  BY <1>s DEF Block, emissions
<1>2. /\ TypeOK /\ Types /\ InOrder /\ Distinct /\ hlist \in Lists /\ ref_count \in [Handler -> Nat]
      /\ Alive \subseteq Handler
  BY Facts
<1>e. /\ st \in [Thread -> Seq(AnyFrame)]
      /\ \A u \in Thread : /\ Len(st[u]) = Len(stack[u])
                           /\ \A i \in 1 .. Len(stack[u]) :
                                \/ Excused(stack[u][i], st[u][i], r)
                                \/ stack[u][i].what # "emit" /\ st[u][i] = stack[u][i]
  BY <1>s, <1>r, Excuses
<1>q. \A q : Same(q)
  BY <1>1, <1>s, ExcusedSame
<1>3. /\ stack' \in [Thread -> Seq(AnyFrame)] /\ \A q : Same(q)
      /\ \A u \in Thread : /\ Len(stack'[u]) = Len(stack[u])
                           /\ \A i \in 1 .. Len(stack[u]) :
                                \/ Excused(stack[u][i], stack'[u][i], r)
                                \/ stack[u][i].what # "emit" /\ stack'[u][i] = stack[u][i]
  <2>1. stack' = st
    BY <1>1
  <2>2. QED
    BY <1>e, <1>q, <2>1
<1>4. /\ IsFiniteSet(Places')
      /\ \A g : /\ Held(g)' = Held(g)
                /\ Invoking(g)' = Invoking(g) /\ Dropping(g)' = Dropping(g)
  BY <1>3, AllSame
<1>5. /\ Alive' = Alive /\ Alive' \subseteq Alive
      /\ \A g : Rank(g)' = Rank(g)
  BY <1>1 DEF Alive, Rank
<1>6. InOrder'
  BY <1>1, <1>2, <1>5, OrderKept
<1>7. Types'
  <2>1. block_count' \in [Handler -> 0 .. MaxBlock]
    BY <1>1, <1>2, SignalAssumption DEF Types
  <2>2. QED
    BY <1>1, <1>2, <2>1 DEF Types, closureVars
<1>8. \A g \in Handler : HandlerOK(g)'
  <2>1. \A g \in Handler : HandlerOK(g)
    BY Facts
  <2>2. \A g \in Handler : block_count'[g] > 0 \/ block_count'[g] = block_count[g] \/ g \in connected'
    BY <1>1, <1>2 DEF Types
  <2>3. QED
    BY <1>1, <1>5, <2>1, <2>2 DEF HandlerOK
<1>9. \A g \in Handler : ClosureOK(g)'
  <2>1. \A g \in Handler : ClosureOK(g)
    BY Facts
  <2>2. QED
    BY <1>1, <1>4, <1>5, <2>1 DEF ClosureOK, closureVars
<1>10. ASSUME NEW u \in Thread, NEW i \in 1 .. Len(stack'[u])
       PROVE  FrameOK(u, i)'
  <2>1. i \in 1 .. Len(stack[u])
    BY <1>3
  <2>2. CASE Excused(stack[u][i], stack'[u][i], r)
    <3>g. PICK g : g = stack'[u][i]
      OBVIOUS
    <3>1. \A k \in Handler : k # h /\ k \in connected /\ block_count[k] = 0 =>
                               k \in connected' /\ block_count'[k] = 0
      BY <1>1, <1>2 DEF Types
    <3>2. Excused(stack[u][i], g, r) /\ stack'[u][i] = g /\ UNCHANGED id /\ lock = None
      BY <1>1, <2>2, <3>g
    <3>3. QED
      BY <1>r, <2>1, <3>1, <3>2, ExcusedOK
  <2>3. CASE stack[u][i].what # "emit" /\ stack'[u][i] = stack[u][i]
    <3>1. ref_count' \in [Handler -> Nat]
      BY <1>1, <1>2
    <3>2. QED
      BY <1>5, <2>1, <2>3, <3>1, DropKept
  <2>4. QED
    BY <1>3, <2>1, <2>2, <2>3
<1>11. /\ \A g \in Handler : ref_count'[g] = One(g \in connected') + matched'[g] + Held(g)'
       /\ \A g \in Handler : ref_count'[g] > 0 => g \in used'
  <2>1. \A g \in Handler : /\ ref_count[g] = One(g \in connected) + matched[g] + Held(g)
                           /\ ref_count[g] > 0 => g \in used
    BY Facts
  <2>2. QED
    BY <1>1, <1>4, <2>1
<1>12. /\ hlist' \in Lists /\ ref_count' \in [Handler -> Nat] /\ matched' \in [Handler -> Nat]
       /\ closure_refs' \in [Handler -> Nat]
  BY <1>1, <1>2 DEF TypeOK, closureVars
<1>13. QED
  BY <1>3, <1>4, <1>6, <1>7, <1>8, <1>9, <1>10, <1>11, <1>12, Assembled

\* A frame that is left alone while nobody holds the lock, when whom it refers
\* to keeps its rank, and nobody that may be called is touched.
LEMMA FrameSame ==
  ASSUME IInv, lock = None, NEW u \in Thread, NEW i \in 1 .. Len(stack[u]),
         NEW f, f = stack[u][i], NEW v, NEW j, stack'[v][j] = f,
         f.what = "emit" => \A h \in Handler : h \in {f.list, f.h} => Rank(h)' = Rank(h),
         f.what = "drop" => (ref_count[f.h] = 0 => ref_count'[f.h] = 0),
         \A h \in connected : block_count[h] = 0 =>
           h \in connected' /\ block_count'[h] = 0 /\ id'[h] = id[h]
  PROVE  FrameOK(v, j)'
<1>1. FrameOK(u, i) /\ f \in AnyFrame
  BY Facts
<1>2. CASE f.what = "emit"
  <2>1. EmitOK(f) /\ f.pc \notin Locking
    BY <1>2, Unlocked
  <2>2. f.list \in Handler \cup {None} /\ f.h \in Handler \cup {None}
    BY <1>1, <1>2 DEF AnyFrame, Emissions, Fasts, Drops
  <2>3. /\ f.h # None => Rank(f.h)' = Rank(f.h)
        /\ f.list # None => Rank(f.list)' = Rank(f.list)
    BY <1>2, <2>2
  <2>4. \A h \in Handler : Callable(h, f) => Callable(h, f)' /\ Rank(h)' = Rank(h)
    BY DEF Callable, Rank
  <2>5. EmitOK(f)'
    BY <2>1, <2>3, <2>4, EmitKept
  <2>6. QED
    BY <1>2, <2>1, <2>5 DEF FrameOK
<1>3. CASE f.what = "drop"
  <2>1. DropOK(f)
    BY <1>1, <1>3 DEF FrameOK
  <2>2. DropOK(f)'
    BY <1>3, <2>1 DEF DropOK
  <2>3. QED
    BY <1>3, <2>2 DEF FrameOK
<1>4. CASE f.what \notin {"emit", "drop"}
  BY <1>1, <1>4 DEF FrameOK
<1>5. QED
  BY <1>2, <1>3, <1>4

LEMMA UnblockOK ==
  ASSUME IInv, NEW t \in Thread, NEW h \in Handler, Unblock(t, h)
  PROVE  IInv'
<1>1. /\ lock = None /\ h \in connected /\ block_count[h] > 0
      /\ block_count' = [block_count EXCEPT ![h] = @ - 1]
      /\ UNCHANGED <<kind, lock, hlist, used, connected, id, n_handlers, ref_count, matched,
                     closureVars, stack, emitted>>
  BY DEF Unblock, emissions
<1>2. /\ TypeOK /\ Types /\ InOrder /\ Distinct /\ hlist \in Lists /\ ref_count \in [Handler -> Nat]
      /\ stack \in [Thread -> Seq(AnyFrame)]
  BY Facts
<1>3. \A q : Same(q)
  <2>1. \A q : q \in Places' <=> q \in Places
    BY <1>1 DEF Places
  <2>2. \A q : Frame(q)' = Frame(q)
    BY <1>1 DEF Frame
  <2>3. QED
    BY <2>1, <2>2 DEF Same
<1>4. /\ IsFiniteSet(Places')
      /\ \A g : /\ Held(g)' = Held(g)
                /\ Invoking(g)' = Invoking(g) /\ Dropping(g)' = Dropping(g)
  BY <1>3, AllSame
<1>5. /\ Alive' = Alive
      /\ \A g : Rank(g)' = Rank(g)
  BY <1>1 DEF Alive, Rank
<1>6. InOrder'
  BY <1>1, <1>2, <1>5, OrderKept
<1>7. Types'
  <2>1. block_count' \in [Handler -> 0 .. MaxBlock]
    BY <1>1, <1>2, SignalAssumption DEF Types
  <2>2. QED
    BY <1>1, <1>2, <2>1 DEF Types, closureVars
<1>8. \A g \in Handler : HandlerOK(g)'
  <2>1. \A g \in Handler : HandlerOK(g)
    BY Facts
  <2>2. \A g \in Handler : block_count'[g] = block_count[g] \/ g \in connected'
    BY <1>1, <1>2 DEF Types
  <2>3. QED
    BY <1>1, <1>5, <2>1, <2>2 DEF HandlerOK
<1>9. \A g \in Handler : ClosureOK(g)'
  <2>1. \A g \in Handler : ClosureOK(g)
    BY Facts
  <2>2. QED
    BY <1>1, <1>4, <1>5, <2>1 DEF ClosureOK, closureVars
<1>10. ASSUME NEW u \in Thread, NEW i \in 1 .. Len(stack'[u])
       PROVE  FrameOK(u, i)'
  <2>f. PICK f : f = stack[u][i]
    OBVIOUS
  <2>1. i \in 1 .. Len(stack[u]) /\ stack'[u][i] = f
    BY <1>1, <2>f
  <2>2. \A k \in connected : block_count[k] = 0 =>
          k \in connected' /\ block_count'[k] = 0 /\ id'[k] = id[k]
    BY <1>1, <1>2 DEF Types
  <2>3. ref_count'[f.h] = ref_count[f.h]
    BY <1>1
  <2>4. QED
    BY <1>1, <1>5, <2>f, <2>1, <2>2, <2>3, FrameSame
<1>11. /\ \A g \in Handler : ref_count'[g] = One(g \in connected') + matched'[g] + Held(g)'
       /\ \A g \in Handler : ref_count'[g] > 0 => g \in used'
  <2>1. \A g \in Handler : /\ ref_count[g] = One(g \in connected) + matched[g] + Held(g)
                           /\ ref_count[g] > 0 => g \in used
    BY Facts
  <2>2. QED
    BY <1>1, <1>4, <2>1
<1>12. /\ hlist' \in Lists /\ ref_count' \in [Handler -> Nat] /\ matched' \in [Handler -> Nat]
       /\ closure_refs' \in [Handler -> Nat] /\ stack' \in [Thread -> Seq(AnyFrame)]
  BY <1>1, <1>2 DEF TypeOK, closureVars
<1>13. QED
  BY <1>4, <1>6, <1>7, <1>8, <1>9, <1>10, <1>11, <1>12, Assembled

\* What the counts become when e is added.
OneMore(e) ==
  \A h : /\ Cardinality(Listing(h)') = Cardinality(Listing(h)) + One(e \in Listing(h)')
         /\ Cardinality(Standing(h)') = Cardinality(Standing(h)) + One(e \in Standing(h)')
         /\ Cardinality(Invoking(h)') = Cardinality(Invoking(h)) + One(e \in Invoking(h)')
         /\ Cardinality(Dropping(h)') = Cardinality(Dropping(h)) + One(e \in Dropping(h)')
         /\ e \notin Invoking(h)' => Invoking(h)' = Invoking(h)

\* The frames are those of st, and g on the stack of t.
Added(st, t, g) ==
  \A u \in Thread : \A i \in 1 .. Len(stack'[u]) :
    \/ i \in 1 .. Len(stack[u]) /\ stack'[u][i] = st[u][i]
    \/ u = t /\ i = Len(stack'[u]) /\ stack'[u][i] = g

\* g is put on the stack of t, whose frames are otherwise counted as before.
LEMMA PutOn ==
  ASSUME IInv, NEW st \in [Thread -> Seq(AnyFrame)], NEW t \in Thread, NEW g \in AnyFrame,
         stack' = On(st, t, g), NEW e, e = Beyond(t), Alike(st, e)
  PROVE  /\ stack' \in [Thread -> Seq(AnyFrame)]
         /\ IsFiniteSet(Places') /\ e \in Places' /\ Frame(e)' = g
         /\ OneMore(e) /\ Added(st, t, g)
<1>1. TypeOK /\ IsFiniteSet(Places) /\ stack \in [Thread -> Seq(AnyFrame)]
  BY Facts
<1>2. /\ Others(e, e) /\ e \notin Places /\ e \in Places' /\ Frame(e)' = g
      /\ There(st)
  BY <1>1, AddedPlaces
<1>3. \A q : q # e => Same(q)
  BY <1>2 DEF Others
<1>4. /\ IsFiniteSet(Places')
      /\ \A h : /\ Cardinality(Listing(h)') = Cardinality(Listing(h))
                     + One(e \in Listing(h)') - One(e \in Listing(h))
                /\ Cardinality(Standing(h)') = Cardinality(Standing(h))
                     + One(e \in Standing(h)') - One(e \in Standing(h))
                /\ Cardinality(Invoking(h)') = Cardinality(Invoking(h))
                     + One(e \in Invoking(h)') - One(e \in Invoking(h))
                /\ Cardinality(Dropping(h)') = Cardinality(Dropping(h))
                     + One(e \in Dropping(h)') - One(e \in Dropping(h))
  BY <1>1, <1>3, OneChanged
<1>5. \A h : /\ e \notin Listing(h) /\ e \notin Standing(h)
             /\ e \notin Invoking(h) /\ e \notin Dropping(h)
  BY <1>2 DEF Listing, Standing, Invoking, Dropping
<1>6. OneMore(e)
  <2>1. SUFFICES ASSUME NEW h
                 PROVE  /\ Cardinality(Listing(h)') = Cardinality(Listing(h)) + One(e \in Listing(h)')
                        /\ Cardinality(Standing(h)') = Cardinality(Standing(h)) + One(e \in Standing(h)')
                        /\ Cardinality(Invoking(h)') = Cardinality(Invoking(h)) + One(e \in Invoking(h)')
                        /\ Cardinality(Dropping(h)') = Cardinality(Dropping(h)) + One(e \in Dropping(h)')
                        /\ e \notin Invoking(h)' => Invoking(h)' = Invoking(h)
    BY DEF OneMore
  <2>2. /\ One(e \in Listing(h)) = 0 /\ One(e \in Standing(h)) = 0
        /\ One(e \in Invoking(h)) = 0 /\ One(e \in Dropping(h)) = 0
    BY <1>5 DEF One
  <2>3. /\ Cardinality(Listing(h)) \in Nat /\ Cardinality(Standing(h)) \in Nat
        /\ Cardinality(Invoking(h)) \in Nat /\ Cardinality(Dropping(h)) \in Nat
    BY <1>1, Finite
  <2>4. /\ One(e \in Listing(h)') \in Nat /\ One(e \in Standing(h)') \in Nat
        /\ One(e \in Invoking(h)') \in Nat /\ One(e \in Dropping(h)') \in Nat
    BY DEF One
  <2>5. e \notin Invoking(h)' => Invoking(h)' = Invoking(h)
    <3>1. \A q : q # e => (q \in Invoking(h)' <=> q \in Invoking(h))
      BY <1>3, SameSets
    <3>2. e \notin Invoking(h)
      BY <1>5
    <3>3. e \notin Invoking(h)' => \A q : q \in Invoking(h)' <=> q \in Invoking(h)
      BY <3>1, <3>2
    <3>4. QED
      BY <3>3
  <2>6. QED
    BY <1>4, <2>2, <2>3, <2>4, <2>5
<1>7. /\ stack' \in [Thread -> Seq(AnyFrame)]
      /\ Len(st[t]) \in Nat /\ Len(stack'[t]) = Len(st[t]) + 1 /\ stack'[t][Len(st[t]) + 1] = g
      /\ \A u \in Thread \ {t} : stack'[u] = st[u]
  BY Put1
<1>8. \A u \in Thread : Len(st[u]) = Len(stack[u])
  BY DEF Alike
<1>9. ASSUME NEW u \in Thread, NEW i \in 1 .. Len(stack'[u])
      PROVE  \/ i \in 1 .. Len(stack[u]) /\ stack'[u][i] = st[u][i]
             \/ u = t /\ i = Len(stack'[u]) /\ stack'[u][i] = g
  <2>1. CASE i \in 1 .. Len(stack[u])
    BY <1>2, <2>1 DEF There
  <2>2. CASE i \notin 1 .. Len(stack[u])
    <3>1. u = t
      BY <1>7, <1>8, <2>2
    <3>2. i = Len(st[t]) + 1
      BY <1>7, <1>8, <2>2, <3>1
    <3>3. QED
      BY <1>7, <3>1, <3>2
  <2>3. QED
    BY <2>1, <2>2
<1>10. QED
  BY <1>2, <1>4, <1>6, <1>7, <1>9 DEF Added

\* A count that lost a reference to x, and those to its connection.
Left(refs) ==
  \A h \in Handler : refs[h] + matched[h] = ref_count[h] + matched'[h]

\* x_signal_disconnect of x, after matched references were left behind.
LEMMA Disconnected ==
  ASSUME IInv, lock = None, NEW t \in Thread, NEW x \in connected,
         NEW refs \in [Handler -> Nat], Alive = AliveBy(refs), Left(refs),
         matched' \in [Handler -> Nat],
         connected' = connected \ {x}, block_count' = [block_count EXCEPT ![x] = 1],
         Unref(t, x, refs, Excuse(x), FALSE),
         UNCHANGED <<kind, used, id, n_handlers, closureVars, emitted>>
  PROVE  IInv'
<1>s. PICK st : st = Excuse(x)
  OBVIOUS
<1>r. PICK r : r = Rank(x)
  OBVIOUS
<1>e. PICK e : e = Beyond(t)
  OBVIOUS
<1>d. PICK d : d = Drop(x, TRUE, FALSE)
  OBVIOUS
<1>1. /\ TypeOK /\ Types /\ InOrder /\ Distinct /\ ref_count \in [Handler -> Nat]
      /\ matched \in [Handler -> Nat] /\ Alive \subseteq Handler /\ connected \subseteq Handler
      /\ \A h \in Handler : h \in Alive => h \in used
  BY Facts DEF TypeOK
<1>2. x \in Handler
  BY <1>1
<1>3. /\ st \in [Thread -> Seq(AnyFrame)]
      /\ \A u \in Thread : /\ Len(st[u]) = Len(stack[u])
                           /\ \A i \in 1 .. Len(stack[u]) :
                                \/ Excused(stack[u][i], st[u][i], r)
                                \/ stack[u][i].what # "emit" /\ st[u][i] = stack[u][i]
  BY <1>2, <1>s, <1>r, Excuses
<1>4. Alike(st, e) /\ (stack' = st => \A q : Same(q))
  BY <1>2, <1>s, ExcusedSame
<1>5. /\ InOrder' /\ Distinct' /\ hlist' \in Lists /\ x \in Alive
      /\ ref_count' \in [Handler -> Nat] /\ Less(refs, x)
      /\ \/ Alive' = Alive /\ stack' = st /\ lock' = None
         \/ Alive' = Alive \ {x} /\ lock' = None /\ stack' = On(st, t, d)
  <2>1. Unref(t, x, refs, st, FALSE) /\ UNCHANGED id
    BY <1>s
  <2>2. QED
    BY <1>1, <1>2, <1>d, <2>1, Unreffed
<1>6. d \in AnyFrame /\ d.what = "drop" /\ d.pc = "read" /\ d.h = x /\ d.handler = TRUE
  BY <1>2, <1>d DEF Drop, AnyFrame, Drops
<1>7. Types'
  <2>1. block_count' \in [Handler -> 0 .. MaxBlock]
    BY <1>1, SignalAssumption DEF Types
  <2>2. lock' \in Thread \cup {None} /\ connected' \subseteq used'
    BY <1>1, <1>5 DEF Types
  <2>3. QED
    BY <1>1, <2>1, <2>2 DEF Types, closureVars
<1>8. \A g \in Handler : HandlerOK(g)'
  <2>1. \A g \in Handler : HandlerOK(g)
    BY Facts
  <2>2. \A g \in Handler : \/ block_count'[g] > 0
                           \/ block_count'[g] = block_count[g] /\ (g \in connected => g \in connected')
    BY <1>1 DEF Types
  <2>3. Alive' \subseteq Alive /\ \A g : Rank(g)' = Rank(g)
    BY <1>5 DEF Rank
  <2>4. QED
    BY <1>1, <2>1, <2>2, <2>3 DEF HandlerOK
<1>9. ASSUME \A h : Held(h)' = Held(h), NEW h \in Handler
      PROVE  ref_count'[h] = One(h \in connected') + matched'[h] + Held(h)'
  <2>1. /\ ref_count[h] = One(h \in connected) + matched[h] + Held(h) /\ Held(h) \in Nat
        /\ refs[h] + matched[h] = ref_count[h] + matched'[h]
        /\ ref_count'[h] = refs[h] - One(h = x)
    BY <1>5, Facts DEF Left, Less
  <2>2. One(h \in connected') + One(h = x) = One(h \in connected)
    BY DEF One
  <2>3. PICK c \in Nat, c2 \in Nat, k \in Nat, n \in Nat :
          c = One(h \in connected) /\ c2 = One(h \in connected') /\ k = One(h = x) /\ n = Held(h)
    BY <2>1 DEF One
  <2>4. PICK m \in Nat, m2 \in Nat, a \in Nat, b \in Nat :
          m = matched[h] /\ m2 = matched'[h] /\ a = ref_count[h] /\ b = refs[h]
    BY <1>1
  <2>5. a = c + m + n /\ b + m = a + m2 /\ c2 + k = c /\ ref_count'[h] = b - k
    BY <2>1, <2>2, <2>3, <2>4
  <2>6. ref_count'[h] = c2 + m2 + n
    BY <2>5
  <2>7. Held(h)' = n
    BY <1>9, <2>3
  <2>8. QED
    BY <2>3, <2>4, <2>6, <2>7
<1>10. \A h \in Handler : ref_count'[h] > 0 => h \in used'
  BY <1>1, <1>5 DEF Alive
<1>11. ASSUME NEW u \in Thread, NEW i \in 1 .. Len(stack[u]), stack'[u][i] = st[u][i]
       PROVE  FrameOK(u, i)'
  <2>1. CASE Excused(stack[u][i], st[u][i], r)
    <3>g. PICK g : g = st[u][i]
      OBVIOUS
    <3>1. \A k \in Handler : k # x /\ k \in connected /\ block_count[k] = 0 =>
                               k \in connected' /\ block_count'[k] = 0
      BY <1>1 DEF Types
    <3>2. Excused(stack[u][i], g, r) /\ stack'[u][i] = g /\ UNCHANGED id
      BY <1>11, <2>1, <3>g
    <3>3. QED
      BY <1>2, <1>r, <3>1, <3>2, ExcusedOK
  <2>2. CASE stack[u][i].what # "emit" /\ st[u][i] = stack[u][i]
    <3>1. stack'[u][i] = stack[u][i] /\ Alive' \subseteq Alive
      BY <1>5, <1>11, <2>2
    <3>2. QED
      BY <1>5, <2>2, <3>1, DropKept
  <2>3. QED
    BY <1>3, <2>1, <2>2
<1>12. closure_refs' \in [Handler -> Nat]
  BY <1>1 DEF TypeOK, closureVars
<1>13. CASE Alive' = Alive /\ stack' = st /\ lock' = None
  <2>1. \A q : Same(q)
    BY <1>4, <1>13
  <2>2. /\ IsFiniteSet(Places')
        /\ \A h : /\ Held(h)' = Held(h)
                  /\ Invoking(h)' = Invoking(h) /\ Dropping(h)' = Dropping(h)
    BY <2>1, AllSame
  <2>3. \A h \in Handler : ref_count'[h] = One(h \in connected') + matched'[h] + Held(h)'
    BY <1>9, <2>2
  <2>4. \A h \in Handler : ClosureOK(h)'
    <3>1. \A h \in Handler : ClosureOK(h)
      BY Facts
    <3>2. QED
      BY <1>13, <2>2, <3>1 DEF ClosureOK, closureVars
  <2>5. \A u \in Thread : \A i \in 1 .. Len(stack'[u]) : FrameOK(u, i)'
    BY <1>3, <1>11, <1>13
  <2>6. stack' \in [Thread -> Seq(AnyFrame)]
    BY <1>3, <1>13
  <2>7. QED
    BY <1>5, <1>7, <1>8, <1>10, <1>12, <2>2, <2>3, <2>4, <2>5, <2>6, Assembled
<1>14. CASE Alive' = Alive \ {x} /\ lock' = None /\ stack' = On(st, t, d)
  <2>1. /\ stack' \in [Thread -> Seq(AnyFrame)]
        /\ IsFiniteSet(Places') /\ e \in Places' /\ Frame(e)' = d
        /\ OneMore(e) /\ Added(st, t, d)
    BY <1>3, <1>4, <1>6, <1>14, <1>e, PutOn
  <2>2. \A h : /\ One(e \in Listing(h)') = 0 /\ One(e \in Standing(h)') = 0
               /\ e \notin Invoking(h)' /\ One(e \in Invoking(h)') = 0
               /\ One(e \in Dropping(h)') = One(h = x)
    BY <1>6, <2>1 DEF Listing, Standing, Invoking, Dropping, One
  <2>3. \A h : /\ Cardinality(Listing(h)) \in Nat /\ Cardinality(Standing(h)) \in Nat
               /\ Cardinality(Invoking(h)) \in Nat /\ Cardinality(Dropping(h)) \in Nat
    BY Facts, Finite
  <2>4. \A h : /\ Cardinality(Listing(h)') = Cardinality(Listing(h))
               /\ Cardinality(Standing(h)') = Cardinality(Standing(h))
               /\ Invoking(h)' = Invoking(h)
               /\ Cardinality(Dropping(h)') = Cardinality(Dropping(h)) + One(h = x)
    BY <2>1, <2>2, <2>3 DEF OneMore
  <2>5. \A h : Held(h)' = Held(h)
    BY <2>4 DEF Held
  <2>6. \A h \in Handler : ref_count'[h] = One(h \in connected') + matched'[h] + Held(h)'
    BY <1>9, <2>5
  <2>7. ASSUME NEW h \in Handler
        PROVE  ClosureOK(h)'
    <3>1. ClosureOK(h) /\ closure_refs' = closure_refs /\ is_invalid' = is_invalid
      BY Facts DEF closureVars
    <3>2. One(h \in Alive') + One(h = x) = One(h \in Alive)
      BY <1>5, <1>14 DEF One
    <3>3. /\ One(h \in Alive') \in Nat /\ One(h = x) \in Nat /\ One(h \in Alive) \in Nat
      BY DEF One
    <3>4. closure_refs[h] = One(h \in Alive) + Cardinality(Invoking(h)) + Cardinality(Dropping(h))
      BY <3>1 DEF ClosureOK
    <3>5. closure_refs'[h]
            = One(h \in Alive') + Cardinality(Invoking(h)') + Cardinality(Dropping(h)')
      BY <2>3, <2>4, <3>1, <3>2, <3>3, <3>4
    <3>6. is_invalid'[h] => h \notin Alive' /\ Invoking(h)' = {}
      BY <1>14, <2>4, <3>1 DEF ClosureOK
    <3>7. QED
      BY <3>5, <3>6 DEF ClosureOK
  <2>8. ASSUME NEW u \in Thread, NEW i \in 1 .. Len(stack'[u])
        PROVE  FrameOK(u, i)'
    <3>1. CASE i \in 1 .. Len(stack[u]) /\ stack'[u][i] = st[u][i]
      BY <1>11, <3>1
    <3>2. CASE stack'[u][i] = d
      <4>1. ref_count'[x] = 0
        BY <1>2, <1>5, <1>14 DEF Alive
      <4>2. DropOK(d)'
        BY <1>6, <4>1 DEF DropOK
      <4>3. QED
        BY <1>6, <3>2, <4>2 DEF FrameOK
    <3>3. QED
      BY <2>1, <3>1, <3>2 DEF Added
  <2>9. QED
    BY <1>5, <1>7, <1>8, <1>10, <1>12, <2>1, <2>6, <2>7, <2>8, Assembled
<1>15. QED
  BY <1>5, <1>13, <1>14

LEMMA DisconnectOK ==
  ASSUME IInv, NEW t \in Thread, NEW h \in Handler, Disconnect(t, h)
  PROVE  IInv'
<1>1. /\ ref_count \in [Handler -> Nat] /\ matched \in [Handler -> Nat]
      /\ \A g \in Handler : g \in Alive <=> ref_count[g] > 0
  BY Facts DEF TypeOK
<1>2. Alive = AliveBy(ref_count)
  BY DEF Alive, AliveBy
<1>3. /\ lock = None /\ h \in connected
      /\ connected' = connected \ {h} /\ block_count' = [block_count EXCEPT ![h] = 1]
      /\ Unref(t, h, ref_count, Excuse(h), FALSE)
      /\ UNCHANGED <<kind, used, id, n_handlers, matched, closureVars, emitted>>
  BY DEF Disconnect, emissions
<1>4. Left(ref_count) /\ matched' \in [Handler -> Nat]
  BY <1>1, <1>3 DEF Left
<1>5. QED
  BY <1>1, <1>2, <1>3, <1>4, Disconnected

LEMMA DisconnectMatchedOK ==
  ASSUME IInv, NEW t \in Thread, NEW S \in SUBSET connected, NEW h \in S, DisconnectMatched(t, S, h)
  PROVE  IInv'
<1>r. PICK refs : refs = [g \in Handler |-> IF g \in S \ {h} THEN ref_count[g] + 1 ELSE ref_count[g]]
  OBVIOUS
<1>1. /\ ref_count \in [Handler -> Nat] /\ matched \in [Handler -> Nat] /\ connected \subseteq Alive
      /\ \A g \in Handler : g \in Alive <=> ref_count[g] > 0
      /\ Alive \subseteq Handler
  BY Facts DEF TypeOK
<1>2. refs \in [Handler -> Nat]
  BY <1>r, <1>1
<1>3. Alive = AliveBy(refs)
  <2>1. \A g \in Handler : refs[g] > 0 <=> g \in Alive
    <3>1. \A g \in S : g \in Alive
      BY <1>1
    <3>2. QED
      BY <1>r, <1>1, <3>1
  <2>2. QED
    BY <1>1, <2>1 DEF AliveBy
<1>4. /\ lock = None /\ h \in connected
      /\ connected' = connected \ {h} /\ block_count' = [block_count EXCEPT ![h] = 1]
      /\ matched' = [g \in Handler |-> IF g \in S \ {h} THEN matched[g] + 1 ELSE matched[g]]
      /\ Unref(t, h, refs, Excuse(h), FALSE)
      /\ UNCHANGED <<kind, used, id, n_handlers, closureVars, emitted>>
  BY <1>r DEF DisconnectMatched, emissions
<1>5. matched' \in [Handler -> Nat]
  BY <1>1, <1>4
<1>6. Left(refs)
  BY <1>r, <1>1, <1>4 DEF Left
<1>7. QED
  BY <1>2, <1>3, <1>4, <1>5, <1>6, Disconnected

\* The invariant after a step that leaves the handlers and their closures alone,
\* and changes who is counted in no way.
LEMMA Kept ==
  ASSUME IInv, UNCHANGED <<kind, hlist, handlerVars, ref_count, closureVars>>,
         lock' \in Thread \cup {None}, emitted' \in 0 .. kind.emissions,
         stack' \in [Thread -> Seq(AnyFrame)], IsFiniteSet(Places'),
         \A h \in Handler : /\ Held(h)' = Held(h) /\ Invoking(h)' = Invoking(h)
                            /\ Cardinality(Dropping(h)') = Cardinality(Dropping(h)),
         \A u \in Thread : \A i \in 1 .. Len(stack'[u]) : FrameOK(u, i)'
  PROVE  IInv'
<1>1. /\ TypeOK /\ Types /\ InOrder /\ Distinct /\ hlist \in Lists /\ ref_count \in [Handler -> Nat]
  BY Facts
<1>2. UNCHANGED <<kind, hlist, used, connected, id, n_handlers, block_count, matched, ref_count,
                  closure_refs, is_invalid>>
  BY DEF handlerVars, closureVars
<1>3. /\ Alive' = Alive
      /\ \A g : Rank(g)' = Rank(g)
  BY <1>2 DEF Alive, Rank
<1>4. InOrder'
  BY <1>1, <1>2, <1>3, OrderKept
<1>5. Types'
  BY <1>1, <1>2 DEF Types
<1>6. \A g \in Handler : HandlerOK(g)'
  <2>1. \A g \in Handler : HandlerOK(g)
    BY Facts
  <2>2. QED
    BY <1>2, <1>3, <2>1 DEF HandlerOK
<1>7. \A g \in Handler : ClosureOK(g)'
  <2>1. \A g \in Handler : ClosureOK(g)
    BY Facts
  <2>2. QED
    BY <1>2, <1>3, <2>1 DEF ClosureOK
<1>8. /\ \A g \in Handler : ref_count'[g] = One(g \in connected') + matched'[g] + Held(g)'
      /\ \A g \in Handler : ref_count'[g] > 0 => g \in used'
  <2>1. \A g \in Handler : /\ ref_count[g] = One(g \in connected) + matched[g] + Held(g)
                           /\ ref_count[g] > 0 => g \in used
    BY Facts
  <2>2. QED
    BY <1>2, <2>1
<1>9. /\ hlist' \in Lists /\ ref_count' \in [Handler -> Nat] /\ matched' \in [Handler -> Nat]
      /\ closure_refs' \in [Handler -> Nat]
  BY <1>1, <1>2 DEF TypeOK
<1>10. QED
  BY <1>4, <1>5, <1>6, <1>7, <1>8, <1>9, Assembled

\* And one that puts a frame on a stack which refers to no handler.
LEMMA PutStep ==
  ASSUME IInv, UNCHANGED <<kind, hlist, handlerVars, ref_count, closureVars>>, lock = None,
         lock' \in Thread \cup {None}, emitted' \in 0 .. kind.emissions,
         NEW t \in Thread, NEW g \in AnyFrame, g.what # "drop", stack' = On(stack, t, g),
         g.what = "emit" => g.list = None /\ g.h = None /\ EmitOK(g) /\ g.pc \notin Locking,
         g.what = "fast" => (g.h = None <=> g.pc = "call")
  PROVE  IInv'
<1>e. PICK e : e = Beyond(t)
  OBVIOUS
<1>1. /\ stack \in [Thread -> Seq(AnyFrame)] /\ emitted \in 0 .. kind.emissions
  BY Facts DEF Types
<1>2. Alike(stack, e)
  BY DEF Alike
<1>3. /\ stack' \in [Thread -> Seq(AnyFrame)]
      /\ IsFiniteSet(Places') /\ e \in Places' /\ Frame(e)' = g
      /\ OneMore(e) /\ Added(stack, t, g)
  BY <1>1, <1>2, <1>e, PutOn
<1>4. None \notin Handler /\ None \notin Thread
  BY SignalAssumption
<1>5. \A h \in Handler : /\ One(e \in Listing(h)') = 0 /\ One(e \in Standing(h)') = 0
                         /\ e \notin Invoking(h)' /\ One(e \in Dropping(h)') = 0
  BY <1>3, <1>4 DEF Listing, Standing, Invoking, Dropping, One
<1>6. \A h : /\ Cardinality(Listing(h)) \in Nat /\ Cardinality(Standing(h)) \in Nat
             /\ Cardinality(Dropping(h)) \in Nat
  BY Facts, Finite
<1>7. \A h \in Handler : /\ Cardinality(Listing(h)') = Cardinality(Listing(h))
                         /\ Cardinality(Standing(h)') = Cardinality(Standing(h))
                         /\ Invoking(h)' = Invoking(h)
                         /\ Cardinality(Dropping(h)') = Cardinality(Dropping(h))
  BY <1>3, <1>5, <1>6 DEF OneMore
<1>8. \A h \in Handler : /\ Held(h)' = Held(h) /\ Invoking(h)' = Invoking(h)
                         /\ Cardinality(Dropping(h)') = Cardinality(Dropping(h))
  BY <1>7 DEF Held
<1>9. ASSUME NEW u \in Thread, NEW i \in 1 .. Len(stack'[u])
      PROVE  FrameOK(u, i)'
  <2>1. CASE i \in 1 .. Len(stack[u]) /\ stack'[u][i] = stack[u][i]
    <3>f. PICK f : f = stack[u][i]
      OBVIOUS
    <3>1. i \in 1 .. Len(stack[u]) /\ stack'[u][i] = f
      BY <2>1, <3>f
    <3>2. /\ \A h : Rank(h)' = Rank(h)
          /\ ref_count'[f.h] = ref_count[f.h]
      BY DEF Rank, handlerVars
    <3>3. \A k \in connected : block_count[k] = 0 =>
            k \in connected' /\ block_count'[k] = 0 /\ id'[k] = id[k]
      BY DEF handlerVars
    <3>4. QED
      BY <3>f, <3>1, <3>2, <3>3, FrameSame
  <2>2. CASE u = t /\ i = Len(stack'[u]) /\ stack'[u][i] = g
    <3>1. CASE g.what = "emit"
      <4>1. EmitOK(g)'
        BY <3>1, EmitStill DEF handlerVars
      <4>2. QED
        BY <2>2, <3>1, <4>1 DEF FrameOK
    <3>2. CASE g.what # "emit"
      BY <2>2, <3>2 DEF FrameOK
    <3>3. QED
      BY <3>1, <3>2
  <2>3. QED
    BY <1>3, <2>1, <2>2 DEF Added
<1>10. QED
  BY <1>3, <1>8, <1>9, Kept

LEMMA EmitFastOK ==
  ASSUME IInv, NEW t \in Thread, NEW d \in BOOLEAN, EmitFast(t, d)
  PROVE  IInv'
<1>1. PICK h \in IF kind.class = "none" THEN Open(d) ELSE {None} :
        stack' = Pushed(t, [what |-> "fast", pc |-> IF h = None THEN "call" ELSE "picked", h |-> h])
  BY DEF EmitFast
<1>2. h \in Handler \cup {None}
  BY <1>1 DEF Open, Listed
<1>g. PICK g : g = [what |-> "fast", pc |-> IF h = None THEN "call" ELSE "picked", h |-> h]
  OBVIOUS
<1>3. /\ g \in AnyFrame /\ g.what = "fast" /\ (g.h = None <=> g.pc = "call")
  BY <1>2, <1>g DEF AnyFrame, Fasts
<1>4. stack' = On(stack, t, g)
  BY <1>1, <1>g DEF Pushed, On
<1>5. /\ UNCHANGED <<kind, hlist, handlerVars, ref_count, closureVars>> /\ lock = None
      /\ lock' = None /\ emitted < kind.emissions /\ emitted' = emitted + 1
  BY DEF EmitFast, MayEmit
<1>6. emitted' \in 0 .. kind.emissions
  BY <1>5, Facts, SignalAssumption DEF Types
<1>7. lock' \in Thread \cup {None}
  BY <1>5
<1>8. g.what # "drop" /\ g.what # "emit"
  BY <1>3
<1>9. QED
  BY <1>3, <1>4, <1>5, <1>6, <1>7, <1>8, PutStep

\* An emission that begins stands nowhere, and has nothing to do yet.
LEMMA CollectOK ==
  ASSUME IInv, NEW t \in Thread, NEW d \in BOOLEAN, Collect(t, d)
  PROVE  IInv'
<1>g. PICK g : g = Emission(d)
  OBVIOUS
<1>1. /\ g.what = "emit" /\ g.pc = "collect" /\ g.stage = "first" /\ g.state = "run"
      /\ g.list = None /\ g.h = None /\ g.due = {} /\ g.called = << >> /\ g.asked = {}
  BY <1>g DEF Emission
<1>2. g \in AnyFrame
  BY <1>g DEF Emission, AnyFrame, Emissions
<1>3. EmitOK(g)
  <2>1. PlaceOK(g)
    BY <1>1 DEF PlaceOK, Calling
  <2>2. CalledOK(g)
    <3>1. Len(g.called) = 0 /\ Called(g) = {}
      BY <1>1 DEF Called
    <3>2. QED
      BY <1>1, <3>1 DEF CalledOK
  <2>3. DueOK(g)
    BY <1>1 DEF DueOK
  <2>4. QED
    BY <1>1, <2>1, <2>2, <2>3 DEF EmitOK
<1>4. stack' = On(stack, t, g)
  BY <1>g DEF Pushed, On, Collect
<1>5. /\ UNCHANGED <<kind, hlist, handlerVars, ref_count, closureVars>> /\ lock = None
      /\ lock' = None /\ emitted < kind.emissions /\ emitted' = emitted + 1
  BY DEF Collect, MayEmit
<1>6. emitted' \in 0 .. kind.emissions
  BY <1>5, Facts, SignalAssumption DEF Types
<1>7. lock' \in Thread \cup {None} /\ g.pc \notin Locking
  BY <1>1, <1>5 DEF Locking
<1>8. g.what # "drop" /\ g.what # "fast"
  BY <1>1
<1>9. QED
  BY <1>1, <1>2, <1>3, <1>4, <1>5, <1>6, <1>7, <1>8, PutStep

\* It gets on to pc.
LEMMA OnTo ==
  ASSUME IInv, Steady, NEW t \in Thread, stack[t] # << >>, Top(t).what = "emit",
         Top(t).pc \in {"collect", "enter"}, lock = None, lock' \in {None, t},
         NEW pc \in {"enter", "restart"}, pc = "restart" => lock' = t,
         UNCHANGED <<hlist, ref_count>>, stack' = WithTop(t, [Top(t) EXCEPT !.pc = pc])
  PROVE  IInv'
<1>f. PICK f : f = Top(t)
  OBVIOUS
<1>g. PICK g : g = [f EXCEPT !.pc = pc]
  OBVIOUS
<1>1. f \in Emissions /\ EmitOK(f) /\ f.pc \in {"collect", "enter"}
  BY <1>f, EmitTop
<1>2. /\ g \in AnyFrame /\ g.what = "emit" /\ g.pc = pc /\ g.list = f.list
      /\ g.h = f.h /\ g.called = f.called /\ g.due = f.due /\ g.max = f.max
      /\ g.detail = f.detail /\ g.state = f.state /\ g.stage = f.stage /\ g.asked = f.asked
  BY <1>1, <1>g DEF AnyFrame, Emissions
<1>3. PlaceOK(f)
  BY <1>1 DEF EmitOK
<1>4. f.h = None /\ PlaceOK(g)
  BY <1>1, <1>2, <1>3 DEF PlaceOK, Calling
<1>5. ~ Ahead(g) /\ ~ Between(g) /\ ~ Behind(g)
  BY <1>2 DEF Ahead, Between, Behind, Calling
<1>6. EmitOK(g)
  BY <1>1, <1>2, <1>4, <1>5, MovedAway
<1>7. /\ lock \in {None, t} /\ (g.pc \in Locking => lock' = t)
      /\ stack' = WithTop(t, g)
  BY <1>2, <1>f, <1>g DEF Locking
<1>8. QED
  BY <1>2, <1>6, <1>7, <1>f, SameStep

LEMMA PushOK ==
  ASSUME IInv, NEW t \in Thread, stack[t] # << >>, Top(t).what = "emit",
         Top(t).pc \in {"collect", "enter"}, lock = None, Push(t)
  PROVE  IInv'
<1>1. /\ Steady /\ lock' = t /\ UNCHANGED <<hlist, ref_count>>
      /\ stack' = WithTop(t, [Top(t) EXCEPT !.pc = "restart"])
  BY DEF Push, Steady
<1>2. QED
  BY <1>1, OnTo

LEMMA EmitStepOK ==
  ASSUME IInv, NEW t \in Thread, Emit(t)
  PROVE  IInv'
<1>1. /\ stack[t] # << >> /\ Top(t).what = "emit" /\ Top(t).pc = "collect" /\ lock = None
      /\ \/ Push(t)
         \/ /\ stack' = WithTop(t, [Top(t) EXCEPT !.pc = "enter"])
            /\ UNCHANGED <<lock, hlist, ref_count>> /\ Still
  BY DEF Emit, At
<1>2. CASE Push(t)
  BY <1>1, <1>2, PushOK
<1>3. CASE /\ stack' = WithTop(t, [Top(t) EXCEPT !.pc = "enter"])
           /\ UNCHANGED <<lock, hlist, ref_count>> /\ Still
  <2>1. Steady
    BY <1>3 DEF Still, Steady, emissions
  <2>2. lock' \in {None, t}
    BY <1>1, <1>3
  <2>3. QED
    BY <1>1, <1>3, <2>1, <2>2, OnTo
<1>4. QED
  BY <1>1, <1>2, <1>3

LEMMA EnterOK ==
  ASSUME IInv, NEW t \in Thread, Enter(t)
  PROVE  IInv'
<1>1. /\ stack[t] # << >> /\ Top(t).what = "emit" /\ Top(t).pc = "enter" /\ lock = None
      /\ Push(t)
  BY DEF Enter, At
<1>2. QED
  BY <1>1, PushOK

\* An emission f and what it becomes when it is asked to start again.
Again(f, g) ==
  /\ Fields(f, g) /\ g.due = f.due /\ g.state = "restart" /\ f.pc \notin {"collect", "enter"}
  /\ "open" \in g.asked => "open" \in f.asked \/ f.pc \notin {"stop", "pop"}

AgainOr(f, g) == Again(f, g) \/ g = f

LEMMA AgainFrame ==
  ASSUME NEW f \in AnyFrame, NEW g, NEW u, NEW v, NEW d,
         g = IF u = v /\ Running(f, d) THEN Asked(f) ELSE f
  PROVE  AgainOr(f, g) /\ g \in AnyFrame
<1>1. CASE u = v /\ Running(f, d)
  <2>1. f \in Emissions /\ f.what = "emit" /\ f.pc \notin {"collect", "enter"}
    BY <1>1 DEF Running, AnyFrame, Fasts, Drops
  <2>2. PICK w \in Windows : w = IF f.pc \in {"stop", "pop"} THEN f.pc ELSE "open"
    BY DEF Windows
  <2>3. PICK b \in SUBSET Windows : b = f.asked \cup {w}
    BY <2>1, <2>2 DEF Emissions
  <2>4. g = [f EXCEPT !.state = "restart", !.asked = b]
    BY <1>1, <2>2, <2>3 DEF Asked
  <2>5. /\ g.pc = f.pc /\ g.list = f.list /\ g.h = f.h /\ g.called = f.called /\ g.max = f.max
        /\ g.detail = f.detail /\ g.stage = f.stage /\ g.what = f.what /\ g.due = f.due
        /\ g.state = "restart" /\ g.asked = b /\ g \in Emissions
    BY <2>1, <2>4 DEF Emissions
  <2>6. "open" \in g.asked => "open" \in f.asked \/ f.pc \notin {"stop", "pop"}
    BY <2>2, <2>3, <2>5
  <2>7. Again(f, g)
    BY <2>1, <2>5, <2>6 DEF Again, Fields
  <2>8. QED
    BY <2>5, <2>7 DEF AgainOr, AnyFrame
<1>2. CASE ~ (u = v /\ Running(f, d))
  BY <1>2 DEF AgainOr
<1>3. QED
  BY <1>1, <1>2

\* Such an emission knows what it knew.
LEMMA AgainKnows ==
  ASSUME NEW f \in Emissions, EmitOK(f), f.pc \notin Locking, NEW g, Again(f, g),
         UNCHANGED <<id, connected, block_count>>
  PROVE  EmitOK(g)'
<1>1. /\ g.pc = f.pc /\ g.list = f.list /\ g.h = f.h /\ g.called = f.called /\ g.max = f.max
      /\ g.detail = f.detail /\ g.stage = f.stage /\ g.due = f.due /\ g.state = "restart"
      /\ f.pc \notin {"collect", "enter"}
      /\ "open" \in g.asked => "open" \in f.asked \/ f.pc \notin {"stop", "pop"}
  BY DEF Again, Fields
<1>2. PlaceOK(g)
  <2>1. PlaceOK(f)
    BY DEF EmitOK
  <2>2. "open" \in g.asked => f.pc \in {"call", "returned", "look", "ended", "restart", "begin"}
    BY <1>1, <2>1 DEF PlaceOK, Locking, Calling, Emissions
  <2>3. QED
    BY <1>1, <2>1, <2>2 DEF PlaceOK, Locking
<1>3. (Behind(g) => Behind(f)) /\ (Between(g) => Between(f))
  BY <1>1 DEF Behind, Between, Locking
<1>4. /\ \A h : Rank(h)' = Rank(h)
      /\ \A h : Callable(h, f) => Callable(h, f)'
  BY DEF Rank, Callable
<1>5. g.due \subseteq f.due
  BY <1>1
<1>6. QED
  BY <1>1, <1>2, <1>3, <1>4, <1>5, Lessened

\* The stacks when t asks an emission: what it asks is told so, and its own
\* topmost frame is gone.
LEMMA AskedFrames ==
  ASSUME stack \in [Thread -> Seq(AnyFrame)], NEW t \in Thread, stack[t] # << >>,
         NEW i, Ask(t, i)
  PROVE  /\ stack' \in [Thread -> Seq(AnyFrame)]
         /\ Len(stack[t]) \in Nat \ {0} /\ Len(stack'[t]) = Len(stack[t]) - 1
         /\ \A u \in Thread \ {t} : Len(stack'[u]) = Len(stack[u])
         /\ \A u \in Thread : \A k \in 1 .. Len(stack'[u]) :
              AgainOr(stack[u][k], stack'[u][k])
<1>1. ASSUME NEW u \in Thread
      PROVE  /\ stack'[u] \in Seq(AnyFrame)
             /\ Len(stack'[u]) = Len(stack[u]) - (IF u = t THEN 1 ELSE 0)
             /\ \A k \in 1 .. Len(stack'[u]) : AgainOr(stack[u][k], stack'[u][k])
  <2>s. stack[u] \in Seq(AnyFrame) /\ (u = t => stack[u] # << >>)
    OBVIOUS
  <2>l. Len(stack[u]) \in Nat /\ (u = t => Len(stack[u]) # 0)
    BY <2>s
  <2>m. PICK m \in Nat : m = Len(stack[u]) /\ (u = t => m # 0)
    BY <2>l
  <2>k. m - (IF u = t THEN 1 ELSE 0) \in Nat
    BY <2>m
  <2>n. PICK n \in Nat : n = m - (IF u = t THEN 1 ELSE 0)
    BY <2>k
  <2>v. PICK v : v = restart_emissions[i].thread
    OBVIOUS
  <2>d. PICK d : d = Top(t).detail
    OBVIOUS
  <2>1. stack'[u] = [k \in 1 .. n |->
          IF u = v /\ Running(stack[u][k], d) THEN Asked(stack[u][k]) ELSE stack[u][k]]
    BY <2>m, <2>n, <2>v, <2>d DEF Ask
  <2>2. ASSUME NEW k \in 1 .. n
        PROVE  stack'[u][k] \in AnyFrame /\ AgainOr(stack[u][k], stack'[u][k])
    <3>f. PICK f : f = stack[u][k]
      OBVIOUS
    <3>g. PICK g : g = stack'[u][k]
      OBVIOUS
    <3>1. k \in 1 .. m
      BY <2>n
    <3>2. f \in AnyFrame
      BY <2>m, <3>f, <3>1
    <3>3. g = IF u = v /\ Running(f, d) THEN Asked(f) ELSE f
      BY <2>1, <3>f, <3>g
    <3>4. AgainOr(f, g) /\ g \in AnyFrame
      BY <3>2, <3>3, AgainFrame
    <3>5. QED
      BY <3>f, <3>g, <3>4
  <2>3. stack'[u] \in [1 .. n -> AnyFrame]
    BY <2>1, <2>2
  <2>4. stack'[u] \in Seq(AnyFrame) /\ Len(stack'[u]) = n
    BY <2>3, IsSeq
  <2>5. QED
    BY <2>2, <2>4, <2>m, <2>n
<1>2. stack' \in [Thread -> Seq(AnyFrame)]
  <2>1. DOMAIN stack' = Thread /\ stack' = [u \in Thread |-> stack'[u]]
    BY DEF Ask
  <2>2. QED
    BY <1>1, <2>1
<1>3. Len(stack[t]) \in Nat \ {0}
  OBVIOUS
<1>4. QED
  BY <1>1, <1>2, <1>3

LEMMA EmitAgainOK ==
  ASSUME IInv, NEW t \in Thread, EmitAgain(t)
  PROVE  IInv'
<1>p. PICK p : p = Here(t)
  OBVIOUS
<1>f. PICK f : f = Top(t)
  OBVIOUS
<1>1. /\ stack \in [Thread -> Seq(AnyFrame)] /\ IsFiniteSet(Places)
      /\ emitted \in 0 .. kind.emissions
  BY Facts DEF Types
<1>2. /\ UNCHANGED <<kind, hlist, handlerVars, ref_count, closureVars, emitted>>
      /\ lock = None /\ lock' = None
      /\ stack[t] # << >> /\ f.what = "emit" /\ f.pc = "collect"
  BY <1>f DEF EmitAgain, At, Still, emissions
<1>3. PICK i : Ask(t, i)
  BY DEF EmitAgain
<1>4. /\ stack' \in [Thread -> Seq(AnyFrame)]
      /\ Len(stack[t]) \in Nat \ {0} /\ Len(stack'[t]) = Len(stack[t]) - 1
      /\ \A u \in Thread \ {t} : Len(stack'[u]) = Len(stack[u])
      /\ \A u \in Thread : \A k \in 1 .. Len(stack'[u]) :
           AgainOr(stack[u][k], stack'[u][k])
  BY <1>1, <1>2, <1>3, AskedFrames
<1>5. /\ \A u \in Thread : Len(stack[u]) \in Nat /\ Len(stack'[u]) \in Nat
      /\ \A u \in Thread : \A k \in 1 .. Len(stack'[u]) :
           k \in 1 .. Len(stack[u]) /\ <<u, k>> # p
      /\ \A u \in Thread : \A k \in 1 .. Len(stack[u]) :
           <<u, k>> # p => k \in 1 .. Len(stack'[u])
  <2>1. \A u \in Thread : Len(stack[u]) \in Nat /\ Len(stack'[u]) \in Nat
    BY <1>1, <1>4
  <2>2. ASSUME NEW u \in Thread, NEW k \in 1 .. Len(stack'[u])
        PROVE  k \in 1 .. Len(stack[u]) /\ <<u, k>> # p
    BY <1>4, <1>p, <2>1 DEF Here
  <2>3. ASSUME NEW u \in Thread, NEW k \in 1 .. Len(stack[u]), <<u, k>> # p
        PROVE  k \in 1 .. Len(stack'[u])
    <3>1. u = t => k # Len(stack[t])
      BY <1>p, <2>3 DEF Here
    <3>2. QED
      BY <1>4, <2>1, <3>1
  <2>4. QED
    BY <2>1, <2>2, <2>3
<1>6. p \in Places /\ p \notin Places' /\ Frame(p) = f
  <2>1. Len(stack[t]) \in 1 .. Len(stack[t]) /\ f = stack[t][Len(stack[t])]
    BY <1>4, <1>f DEF Top
  <2>2. p \in Places /\ Frame(p) = f
    BY <1>p, <2>1, PlaceDef, FrameIs DEF Here
  <2>3. p \notin Places'
    BY <1>5, PlaceNext
  <2>4. QED
    BY <2>2, <2>3
<1>7. ASSUME NEW q, q # p
      PROVE  Same(q)
  <2>1. q \in Places' <=> q \in Places
    BY <1>5, <1>7, PlaceDef, PlaceNext
  <2>2. ASSUME q \in Places
        PROVE  Same(q)
    <3>1. PICK u \in Thread : \E k \in 1 .. Len(stack'[u]) : q = <<u, k>>
      BY <2>1, <2>2, PlaceNext
    <3>2. PICK k \in 1 .. Len(stack'[u]) : q = <<u, k>>
      BY <3>1
    <3>3. Frame(q) = stack[u][k] /\ Frame(q)' = stack'[u][k]
      BY <3>2, FrameIs
    <3>4. AgainOr(Frame(q), Frame(q)')
      BY <1>4, <3>3
    <3>5. CASE Frame(q)' = Frame(q)
      BY <2>1, <3>5 DEF Same
    <3>6. CASE Again(Frame(q), Frame(q)')
      BY <2>1, <3>6 DEF Same, Again, Fields
    <3>7. QED
      BY <3>4, <3>5, <3>6 DEF AgainOr
  <2>3. QED
    BY <2>1, <2>2, SameNowhere
<1>8. f.list = None /\ f.h = None
  <2>1. EmitOK(f)
    BY <1>2, <1>f, EmitTop
  <2>2. QED
    BY <1>2, <2>1 DEF EmitOK, PlaceOK, Calling
<1>9. IsFiniteSet(Places')
  <2>1. \A q : q # p => Same(q)
    BY <1>7
  <2>2. QED
    BY <1>1, <2>1, OneChanged
<1>10. ASSUME NEW h \in Handler
       PROVE  /\ Held(h)' = Held(h) /\ Invoking(h)' = Invoking(h)
              /\ Cardinality(Dropping(h)') = Cardinality(Dropping(h))
  <2>1. None # h
    BY SignalAssumption
  <2>2. /\ p \notin Listing(h) /\ p \notin Standing(h)
        /\ p \notin Invoking(h) /\ p \notin Dropping(h)
        /\ p \notin Listing(h)' /\ p \notin Standing(h)'
        /\ p \notin Invoking(h)' /\ p \notin Dropping(h)'
    BY <1>2, <1>6, <1>8, <2>1 DEF Listing, Standing, Invoking, Dropping
  <2>3. \A q : /\ q \in Listing(h)' <=> q \in Listing(h)
               /\ q \in Standing(h)' <=> q \in Standing(h)
               /\ q \in Invoking(h)' <=> q \in Invoking(h)
               /\ q \in Dropping(h)' <=> q \in Dropping(h)
    BY <1>7, <2>2, SameSets
  <2>4. /\ Listing(h)' = Listing(h) /\ Standing(h)' = Standing(h)
        /\ Invoking(h)' = Invoking(h) /\ Dropping(h)' = Dropping(h)
    BY <2>3
  <2>5. QED
    BY <2>4 DEF Held
<1>11. ASSUME NEW u \in Thread, NEW k \in 1 .. Len(stack'[u])
       PROVE  FrameOK(u, k)'
  <2>a. PICK a : a = stack[u][k]
    OBVIOUS
  <2>g. PICK g : g = stack'[u][k]
    OBVIOUS
  <2>1. k \in 1 .. Len(stack[u]) /\ AgainOr(a, g)
    BY <1>4, <1>5, <2>a, <2>g
  <2>2. CASE Again(a, g)
    <3>1. a.what = "emit" /\ g.what = "emit" /\ g.pc = a.pc
      BY <2>2 DEF Again, Fields
    <3>2. EmitOK(a) /\ a.pc \notin Locking
      BY <1>2, <2>a, <2>1, <3>1, Unlocked
    <3>3. a \in AnyFrame
      BY <1>1, <2>a, <2>1
    <3>4. a \in Emissions
      BY <3>1, <3>3 DEF AnyFrame, Fasts, Drops
    <3>5. EmitOK(g)'
      BY <1>2, <2>2, <3>2, <3>4, AgainKnows DEF handlerVars
    <3>6. QED
      BY <2>g, <3>1, <3>2, <3>5 DEF FrameOK
  <2>3. CASE g = a
    <3>1. stack'[u][k] = a
      BY <2>3, <2>g
    <3>2. /\ \A h : Rank(h)' = Rank(h)
          /\ ref_count'[a.h] = ref_count[a.h]
      BY <1>2 DEF Rank, handlerVars
    <3>3. \A h \in connected : block_count[h] = 0 =>
            h \in connected' /\ block_count'[h] = 0 /\ id'[h] = id[h]
      BY <1>2 DEF handlerVars
    <3>4. QED
      BY <1>2, <2>a, <2>1, <3>1, <3>2, <3>3, FrameSame
  <2>4. QED
    BY <2>1, <2>2, <2>3 DEF AgainOr
<1>12. lock' \in Thread \cup {None} /\ emitted' \in 0 .. kind.emissions
  BY <1>1, <1>2
<1>13. QED
  BY <1>2, <1>4, <1>9, <1>10, <1>11, <1>12, Kept

LEMMA ConnectOK ==
  ASSUME IInv, NEW t \in Thread, NEW x \in Handler, Connect(t, x)
  PROVE  IInv'
<1>n. PICK n : n = n_handlers
  OBVIOUS
<1>l. PICK l : l = Insert(hlist, x)
  OBVIOUS
<1>1. /\ lock = None /\ x \notin used /\ closure_refs[x] = 0 /\ n <= MaxId
      /\ \A f \in Frames : f.h # x
      /\ used' = used \cup {x} /\ connected' = connected \cup {x}
      /\ id' = [id EXCEPT ![x] = n] /\ n_handlers' = n + 1
      /\ ref_count' = [ref_count EXCEPT ![x] = 1] /\ block_count' = [block_count EXCEPT ![x] = 0]
      /\ closure_refs' = [closure_refs EXCEPT ![x] = 1]
      /\ is_invalid' = [is_invalid EXCEPT ![x] = FALSE] /\ hlist' = l
      /\ UNCHANGED <<kind, lock, matched, stack, emitted>>
  BY <1>n, <1>l DEF Connect, emissions
<1>2. /\ TypeOK /\ Types /\ InOrder /\ Distinct /\ hlist \in Lists
      /\ stack \in [Thread -> Seq(AnyFrame)] /\ Alive \subseteq Handler
      /\ ref_count \in [Handler -> Nat] /\ matched \in [Handler -> Nat]
      /\ closure_refs \in [Handler -> Nat] /\ connected \subseteq Alive
      /\ \A h \in Handler : /\ h \in Alive <=> ref_count[h] > 0
                            /\ h \in Alive => h \in used
  BY Facts DEF TypeOK
<1>3. /\ id \in [Handler -> 0 .. MaxId] /\ n \in 1 .. MaxId + 1 /\ n_handlers = n /\ MaxId \in Nat
      /\ MaxBlock \in Nat \ {0}
      /\ block_count \in [Handler -> 0 .. MaxBlock] /\ is_invalid \in [Handler -> BOOLEAN]
  BY <1>2, <1>n, SignalAssumption DEF Types
<1>4. x \notin Alive /\ ref_count[x] = 0 /\ x \notin connected
  BY <1>1, <1>2
<1>5. \A q : Same(q)
  <2>1. \A q : q \in Places' <=> q \in Places
    BY <1>1 DEF Places
  <2>2. \A q : Frame(q)' = Frame(q)
    BY <1>1 DEF Frame
  <2>3. QED
    BY <2>1, <2>2 DEF Same
<1>6. /\ IsFiniteSet(Places')
      /\ \A g : /\ Held(g)' = Held(g)
                /\ Invoking(g)' = Invoking(g) /\ Dropping(g)' = Dropping(g)
  BY <1>5, AllSame
<1>7. Alive' = Alive \cup {x}
  <2>1. ref_count'[x] > 0 /\ \A h \in Handler \ {x} : ref_count'[h] = ref_count[h]
    BY <1>1, <1>2
  <2>2. QED
    BY <1>2, <2>1 DEF Alive
<1>8. /\ \A h \in Handler : h # x => Rank(h)' = Rank(h)
      /\ Rank(x)' = (IF x \in After THEN MaxId + 1 + n ELSE n)
  BY <1>1, <1>3 DEF Rank
<1>9. /\ \A g \in Alive : id[g] < n
      /\ \A g \in Alive : g # x /\ Rank(g)' = Rank(g)
      /\ n \in 0 .. MaxId
  <2>1. \A g \in Handler : HandlerOK(g)
    BY Facts
  <2>2. QED
    BY <1>1, <1>2, <1>3, <1>4, <1>8, <2>1 DEF HandlerOK
<1>10. hlist' \in Lists /\ InOrder' /\ Distinct'
  <2>1. hlist' = l
    BY <1>1
  <2>r. PICK r : r = IF x \in After THEN MaxId + 1 + n ELSE n
    OBVIOUS
  <2>2. Rank(x)' = r
    BY <1>8, <2>r
  <2>3. QED
    BY <1>2, <1>4, <1>7, <1>9, <1>l, <2>r, <2>1, <2>2, Inserted
<1>11. Types'
  <2>1. /\ id' \in [Handler -> 0 .. MaxId] /\ n_handlers' \in 1 .. MaxId + 1
        /\ block_count' \in [Handler -> 0 .. MaxBlock] /\ is_invalid' \in [Handler -> BOOLEAN]
    BY <1>1, <1>3
  <2>2. QED
    BY <1>1, <1>2, <2>1 DEF Types
<1>12. ASSUME NEW h \in Handler
       PROVE  HandlerOK(h)'
  <2>1. SUFFICES ASSUME h \in Alive'
                 PROVE  id'[h] < n_handlers' /\ (h \in connected' \/ block_count'[h] > 0)
    BY <1>10 DEF HandlerOK, Distinct
  <2>2. CASE h = x
    BY <1>1, <1>3, <2>2
  <2>3. CASE h # x
    <3>1. h \in Alive /\ HandlerOK(h)
      BY <1>7, <2>1, <2>3, Facts
    <3>2. QED
      BY <1>1, <1>3, <2>3, <3>1 DEF HandlerOK
  <2>4. QED
    BY <2>2, <2>3
<1>13. ASSUME NEW h \in Handler
       PROVE  /\ ClosureOK(h)'
              /\ ref_count'[h] = One(h \in connected') + matched'[h] + Held(h)'
              /\ ref_count'[h] > 0 => h \in used'
  <2>1. /\ ClosureOK(h) /\ ref_count[h] = One(h \in connected) + matched[h] + Held(h)
        /\ Held(h) \in Nat /\ matched[h] \in Nat
        /\ ref_count[h] > 0 => h \in used
    BY <1>2, Facts
  <2>2. Cardinality(Invoking(h)) \in Nat /\ Cardinality(Dropping(h)) \in Nat
    BY Facts, Finite
  <2>3. CASE h # x
    <3>1. /\ closure_refs'[h] = closure_refs[h] /\ is_invalid'[h] = is_invalid[h]
          /\ ref_count'[h] = ref_count[h] /\ matched'[h] = matched[h]
          /\ (h \in Alive' <=> h \in Alive) /\ (h \in connected' <=> h \in connected)
      BY <1>1, <1>2, <1>3, <1>7, <2>3
    <3>2. ClosureOK(h)'
      BY <1>6, <2>1, <3>1 DEF ClosureOK
    <3>3. QED
      BY <1>1, <1>6, <2>1, <3>1, <3>2
  <2>4. CASE h = x
    <3>1. Held(h) = 0 /\ matched[h] = 0
      BY <1>4, <2>1, <2>4 DEF One
    <3>2. Cardinality(Invoking(h)) = 0 /\ Cardinality(Dropping(h)) = 0
      <4>1. closure_refs[h] = One(h \in Alive) + Cardinality(Invoking(h)) + Cardinality(Dropping(h))
        BY <2>1 DEF ClosureOK
      <4>2. One(h \in Alive) \in Nat /\ closure_refs[h] = 0
        BY <1>1, <2>4 DEF One
      <4>3. QED
        BY <2>2, <4>1, <4>2
    <3>3. /\ closure_refs'[h] = 1 /\ is_invalid'[h] = FALSE /\ ref_count'[h] = 1
          /\ matched'[h] = 0 /\ h \in Alive' /\ h \in connected' /\ h \in used'
      BY <1>1, <1>2, <1>3, <1>7, <2>4, <3>1
    <3>4. ClosureOK(h)'
      BY <1>6, <3>2, <3>3 DEF ClosureOK, One
    <3>5. QED
      BY <1>6, <3>1, <3>3, <3>4 DEF One
  <2>5. QED
    BY <2>3, <2>4
<1>14. ASSUME NEW u \in Thread, NEW i \in 1 .. Len(stack'[u])
       PROVE  FrameOK(u, i)'
  <2>f. PICK f : f = stack[u][i]
    OBVIOUS
  <2>1. i \in 1 .. Len(stack[u]) /\ stack'[u][i] = f
    BY <1>1, <2>f
  <2>2. f.h # x
    <3>1. <<u, i>> \in Places
      BY <2>1, PlaceDef
    <3>2. f \in Frames
      BY <2>f, <3>1, FrameIs DEF Frames
    <3>3. QED
      BY <1>1, <3>2
  <2>3. ASSUME f.what = "emit", NEW h \in Handler, h \in {f.list, f.h}
        PROVE  Rank(h)' = Rank(h)
    <3>1. h \in Alive
      BY <2>f, <2>1, <2>3, HeldIsAlive
    <3>2. QED
      BY <1>9, <3>1
  <2>4. ref_count[f.h] = 0 => ref_count'[f.h] = 0
    BY <1>1, <1>2, <2>2
  <2>5. \A k \in connected : block_count[k] = 0 =>
          k \in connected' /\ block_count'[k] = 0 /\ id'[k] = id[k]
    BY <1>1, <1>2, <1>3, <1>4
  <2>6. QED
    BY <1>1, <2>f, <2>1, <2>3, <2>4, <2>5, FrameSame
<1>15. /\ ref_count' \in [Handler -> Nat] /\ matched' \in [Handler -> Nat]
       /\ closure_refs' \in [Handler -> Nat] /\ stack' \in [Thread -> Seq(AnyFrame)]
  BY <1>1, <1>2
<1>16. QED
  BY <1>6, <1>10, <1>11, <1>12, <1>13, <1>14, <1>15, Assembled

-----------------------------------------------------------------------------
(* The steps of the fast path, and of closures that are dropped *)

\* A frame that is no emission is taken off, or becomes another one.
LEMMA ClosurePlaces ==
  ASSUME IInv, NEW t \in Thread, stack[t] # << >>, Top(t).what # "emit",
         NEW g \in AnyFrame, g.what # "emit", stack' = Popped(t) \/ stack' = WithTop(t, g),
         NEW p, p = Here(t)
  PROVE  /\ stack' \in [Thread -> Seq(AnyFrame)] /\ IsFiniteSet(Places')
         /\ \A q : q # p => Same(q)
         /\ p \in Places /\ Frame(p) = Top(t) /\ (p \in Places' => Frame(p)' = g)
         /\ stack' = Popped(t) => p \notin Places'
         /\ stack' = WithTop(t, g) => p \in Places'
<1>1. TypeOK /\ IsFiniteSet(Places)
  BY Facts
<1>2. CASE stack' = Popped(t)
  <2>1. /\ \A q : q # p => Same(q)
        /\ p \in Places /\ p \notin Places' /\ Frame(p) = Top(t)
    BY <1>1, <1>2, TakenPlaces
  <2>2. stack' \in [Thread -> Seq(AnyFrame)]
    BY <1>1, <1>2, TakenOff
  <2>3. IsFiniteSet(Places')
    BY <1>1, <2>1, OneChanged
  <2>4. stack' = WithTop(t, g) => p \in Places'
    <3>1. SUFFICES ASSUME stack' = WithTop(t, g)
                   PROVE  p \in Places'
      OBVIOUS
    <3>2. QED
      BY <1>1, <3>1, TurnedPlaces
  <2>5. QED
    BY <2>1, <2>2, <2>3, <2>4
<1>3. CASE stack' = WithTop(t, g)
  <2>1. /\ \A q : q # p => Same(q)
        /\ p \in Places /\ p \in Places' /\ Frame(p) = Top(t) /\ Frame(p)' = g
    BY <1>1, <1>3, TurnedPlaces
  <2>2. stack' \in [Thread -> Seq(AnyFrame)]
    <3>s. PICK st : st = WithTop(t, g)
      OBVIOUS
    <3>1. st \in [Thread -> Seq(AnyFrame)]
      BY <1>1, <3>s, Turned
    <3>2. QED
      BY <1>3, <3>s, <3>1
  <2>3. IsFiniteSet(Places')
    BY <1>1, <2>1, OneChanged
  <2>4. stack' = Popped(t) => p \notin Places'
    <3>1. SUFFICES ASSUME stack' = Popped(t)
                   PROVE  p \notin Places'
      OBVIOUS
    <3>2. QED
      BY <1>1, <3>1, TakenPlaces
  <2>5. QED
    BY <2>1, <2>2, <2>3, <2>4
<1>4. QED
  BY <1>2, <1>3

\* The count of h's closure changes as its references in p do, and it is invalid
\* only when nothing but a frame in p that is gone calls it.
ClosureMoved(p) ==
  \A h \in Handler :
    /\ closure_refs'[h] + One(p \in Invoking(h)) + One(p \in Dropping(h))
         = closure_refs[h] + One(p \in Invoking(h)') + One(p \in Dropping(h)')
    /\ is_invalid'[h] => h \notin Alive /\ Invoking(h) \subseteq {p} /\ p \notin Invoking(h)'

\* Whoever is referenced is left alone.
Spared ==
  \A h \in Alive : id'[h] = id[h] /\ block_count'[h] = block_count[h] /\ h \in used'

LEMMA Sums ==
  ASSUME NEW a \in Nat, NEW i \in Nat, NEW d \in Nat, NEW c \in Nat, NEW r,
         NEW i1 \in Nat, NEW d1 \in Nat, NEW i2 \in Nat, NEW d2 \in Nat,
         r = a + i + d, c + i1 + d1 = r + i2 + d2
  PROVE  c = a + (i + i2 - i1) + (d + d2 - d1)
OBVIOUS

\* What turning the topmost frame of t leaves alone.
LEMMA TurnedBelow ==
  ASSUME TypeOK, NEW t \in Thread, stack[t] # << >>, NEW g \in AnyFrame, stack' = WithTop(t, g)
  PROVE  /\ \A k \in 1 .. Len(stack[t]) : k # Len(stack[t]) => stack'[t][k] = stack[t][k]
         /\ \A v \in Thread \ {t} : stack'[v] = stack[v]
<1>0. Len(stack[t]) \in Nat \ {0} /\ Top(t) = stack[t][Len(stack[t])]
  BY TopIs
<1>1. /\ Len(stack[t]) \in Nat \ {0} /\ Top(t) = stack[t][Len(stack[t])]
      /\ Len(stack'[t]) = Len(stack[t]) /\ stack'[t][Len(stack[t])] = g
      /\ \A i \in 1 .. Len(stack[t]) : i # Len(stack[t]) => stack'[t][i] = stack[t][i]
      /\ \A u \in Thread \ {t} : stack'[u] = stack[u]
  BY <1>0, Turned
<1>2. QED
  BY <1>1

\* A frame below the topmost of t, or of another thread, stays when that one is turned or leaves.
LEMMA KeptBelow ==
  ASSUME TypeOK, NEW t \in Thread, stack[t] # << >>, NEW g \in AnyFrame,
         stack' = Popped(t) \/ stack' = WithTop(t, g),
         NEW u \in Thread, NEW i \in 1 .. Len(stack[u]), <<u, i>> # Here(t)
  PROVE  stack'[u][i] = stack[u][i]
<1>1. Len(stack[t]) \in Nat \ {0}
  BY TopIs
<1>2. u = t => i # Len(stack[t])
  BY DEF Here
<1>3. CASE stack' = WithTop(t, g)
  <2>1. /\ \A k \in 1 .. Len(stack[t]) : k # Len(stack[t]) => stack'[t][k] = stack[t][k]
        /\ \A v \in Thread \ {t} : stack'[v] = stack[v]
    BY <1>3, TurnedBelow
  <2>2. QED
    BY <1>2, <2>1
<1>4. CASE stack' = Popped(t)
  <2>1. /\ \A k \in 1 .. Len(stack[t]) - 1 : stack'[t][k] = stack[t][k]
        /\ \A v \in Thread \ {t} : stack'[v] = stack[v]
    BY <1>4, TakenOff
  <2>2. u = t => i \in 1 .. Len(stack[t]) - 1
    BY <1>1, <1>2
  <2>3. QED
    BY <2>1, <2>2
<1>5. QED
  BY <1>3, <1>4

LEMMA ClosureStep ==
  ASSUME IInv, Quiet, lock = None, Types', Spared, closure_refs' \in [Handler -> Nat],
         NEW t \in Thread, stack[t] # << >>, Top(t).what # "emit",
         NEW g \in AnyFrame, g.what # "emit", stack' = Popped(t) \/ stack' = WithTop(t, g),
         g.what = "fast" => g.pc = "call",
         g.what = "drop" => (g.handler => ref_count[g.h] = 0),
         NEW p, p = Here(t), ClosureMoved(p)
  PROVE  IInv'
<1>1. /\ TypeOK /\ Types /\ InOrder /\ Distinct /\ hlist \in Lists /\ ref_count \in [Handler -> Nat]
      /\ matched \in [Handler -> Nat] /\ IsFiniteSet(Places) /\ Alive \subseteq Handler
      /\ connected \subseteq Alive /\ stack \in [Thread -> Seq(AnyFrame)]
  BY Facts DEF TypeOK
<1>2. /\ stack' \in [Thread -> Seq(AnyFrame)] /\ IsFiniteSet(Places')
      /\ \A q : q # p => Same(q)
      /\ p \in Places /\ Frame(p) = Top(t) /\ (p \in Places' => Frame(p)' = g)
  BY ClosurePlaces
<1>3. /\ UNCHANGED <<hlist, connected, n_handlers, ref_count, matched>>
      /\ Alive' = Alive
      /\ \A h \in Alive : Rank(h)' = Rank(h) /\ id'[h] = id[h] /\ block_count'[h] = block_count[h]
                          /\ h \in used'
  BY DEF Quiet, Alive, Spared, Rank
<1>4. InOrder' /\ Distinct'
  BY <1>1, <1>3, OrderKept
<1>5. \A h \in Handler : HandlerOK(h)'
  <2>1. \A h \in Handler : HandlerOK(h)
    BY Facts
  <2>2. QED
    BY <1>3, <1>4, <2>1 DEF HandlerOK, Distinct
<1>6. ASSUME NEW h \in Handler
      PROVE  /\ ref_count'[h] = One(h \in connected') + matched'[h] + Held(h)'
             /\ ref_count'[h] > 0 => h \in used'
             /\ ClosureOK(h)'
  <2>1. /\ ClosureOK(h) /\ ref_count[h] = One(h \in connected) + matched[h] + Held(h)
        /\ h \in Alive <=> ref_count[h] > 0
    BY Facts
  <2>2. /\ Cardinality(Listing(h)') = Cardinality(Listing(h))
             + One(p \in Listing(h)') - One(p \in Listing(h))
        /\ Cardinality(Standing(h)') = Cardinality(Standing(h))
             + One(p \in Standing(h)') - One(p \in Standing(h))
        /\ Cardinality(Invoking(h)') = Cardinality(Invoking(h))
             + One(p \in Invoking(h)') - One(p \in Invoking(h))
        /\ Cardinality(Dropping(h)') = Cardinality(Dropping(h))
             + One(p \in Dropping(h)') - One(p \in Dropping(h))
    BY <1>1, <1>2, OneChanged
  <2>3. /\ Cardinality(Listing(h)) \in Nat /\ Cardinality(Standing(h)) \in Nat
        /\ Cardinality(Invoking(h)) \in Nat /\ Cardinality(Dropping(h)) \in Nat
    BY <1>1, Finite
  <2>4. /\ One(p \in Listing(h)') = 0 /\ One(p \in Listing(h)) = 0
        /\ One(p \in Standing(h)') = 0 /\ One(p \in Standing(h)) = 0
    BY <1>2 DEF Listing, Standing, One
  <2>5. Held(h)' = Held(h)
    BY <2>2, <2>3, <2>4 DEF Held
  <2>6. closure_refs'[h] = One(h \in Alive') + Cardinality(Invoking(h)') + Cardinality(Dropping(h)')
    <3>1. closure_refs[h] = One(h \in Alive) + Cardinality(Invoking(h)) + Cardinality(Dropping(h))
      BY <2>1 DEF ClosureOK
    <3>2. closure_refs'[h] + One(p \in Invoking(h)) + One(p \in Dropping(h))
            = closure_refs[h] + One(p \in Invoking(h)') + One(p \in Dropping(h)')
      BY DEF ClosureMoved
    <3>n. /\ One(h \in Alive) \in Nat /\ closure_refs'[h] \in Nat
          /\ One(p \in Invoking(h)) \in Nat /\ One(p \in Dropping(h)) \in Nat
          /\ One(p \in Invoking(h)') \in Nat /\ One(p \in Dropping(h)') \in Nat
      BY DEF One
    <3>m. PICK a \in Nat, i \in Nat, d \in Nat, c \in Nat :
            /\ a = One(h \in Alive) /\ i = Cardinality(Invoking(h)) /\ d = Cardinality(Dropping(h))
            /\ c = closure_refs'[h]
      BY <2>3, <3>n
    <3>3. PICK i1 \in Nat, d1 \in Nat, i2 \in Nat, d2 \in Nat :
            /\ i1 = One(p \in Invoking(h)) /\ d1 = One(p \in Dropping(h))
            /\ i2 = One(p \in Invoking(h)') /\ d2 = One(p \in Dropping(h)')
      BY <3>n
    <3>4. /\ closure_refs[h] = a + i + d /\ c + i1 + d1 = closure_refs[h] + i2 + d2
          /\ Cardinality(Invoking(h)') = i + i2 - i1 /\ Cardinality(Dropping(h)') = d + d2 - d1
      BY <2>2, <3>1, <3>2, <3>m, <3>3
    <3>5. c = a + (i + i2 - i1) + (d + d2 - d1)
      BY <3>4, Sums
    <3>6. QED
      BY <1>3, <3>m, <3>4, <3>5
  <2>7. is_invalid'[h] => h \notin Alive' /\ Invoking(h)' = {}
    <3>1. SUFFICES ASSUME is_invalid'[h]
                   PROVE  h \notin Alive' /\ Invoking(h)' = {}
      OBVIOUS
    <3>2. h \notin Alive /\ Invoking(h) \subseteq {p} /\ p \notin Invoking(h)'
      BY <3>1 DEF ClosureMoved
    <3>3. \A q : q # p => (q \in Invoking(h)' <=> q \in Invoking(h))
      BY <1>2, SameSets
    <3>4. QED
      BY <1>3, <3>2, <3>3
  <2>8. ClosureOK(h)'
    BY <2>6, <2>7 DEF ClosureOK
  <2>9. QED
    BY <1>3, <2>1, <2>5, <2>8
<1>7. ASSUME NEW u \in Thread, NEW i \in 1 .. Len(stack'[u])
      PROVE  FrameOK(u, i)'
  <2>1. <<u, i>> \in Places' /\ Frame(<<u, i>>)' = stack'[u][i]
    BY PlaceNext, FrameIs
  <2>2. CASE <<u, i>> = p
    <3>1. stack'[u][i] = g
      BY <1>2, <2>1, <2>2
    <3>2. g.what = "drop" => DropOK(g)'
      BY <1>3 DEF DropOK
    <3>3. g.what = "fast" => (g.pc = "picked" => g.h # None)
      OBVIOUS
    <3>4. QED
      BY <3>1, <3>2, <3>3 DEF FrameOK
  <2>3. CASE <<u, i>> # p
    <3>f. PICK f : f = stack[u][i]
      OBVIOUS
    <3>1. Same(<<u, i>>)
      BY <1>2, <2>3
    <3>2. <<u, i>> \in Places
      BY <2>1, <3>1 DEF Same
    <3>3. i \in 1 .. Len(stack[u])
      BY <3>2, PlaceDef
    <3>4. stack'[u][i] = f
      <4>1. <<u, i>> # Here(t)
        BY <2>3
      <4>2. stack'[u][i] = stack[u][i]
        BY <1>1, <3>3, <4>1, KeptBelow
      <4>3. QED
        BY <3>f, <4>2
    <3>5. ASSUME f.what = "emit", NEW h \in Handler, h \in {f.list, f.h}
          PROVE  Rank(h)' = Rank(h)
      <4>1. h \in Alive
        BY <3>f, <3>3, <3>5, HeldIsAlive
      <4>2. QED
        BY <1>3, <4>1
    <3>6. ref_count[f.h] = 0 => ref_count'[f.h] = 0
      BY <1>3
    <3>7. \A k \in connected : block_count[k] = 0 =>
            k \in connected' /\ block_count'[k] = 0 /\ id'[k] = id[k]
      BY <1>1, <1>3
    <3>8. QED
      BY <3>f, <3>3, <3>4, <3>5, <3>6, <3>7, FrameSame
  <2>4. QED
    BY <2>2, <2>3
<1>8. hlist' \in Lists /\ ref_count' \in [Handler -> Nat] /\ matched' \in [Handler -> Nat]
  BY <1>1, <1>3
<1>9. QED
  BY <1>2, <1>4, <1>5, <1>6, <1>7, <1>8, Assembled

\* The references to the closure of h that a frame holds.
Invokes(f, h) == f.what = "fast" /\ f.pc = "call" /\ f.h = h
Releases(f, h) == f.what = "drop" /\ f.pc \in {"read", "dec"} /\ f.h = h

\* A frame that holds none.
Gone == [what |-> "fast", pc |-> "call", h |-> None]

\* The counts change as the frame f becomes g, and no closure that g or another
\* frame calls is invalid.
Traded(f, g) ==
  \A h \in Handler : closure_refs'[h] + One(Invokes(f, h)) + One(Releases(f, h))
                       = closure_refs[h] + One(Invokes(g, h)) + One(Releases(g, h))
Valid(t, g) ==
  \A h \in Handler : is_invalid'[h] =>
    h \notin Alive /\ Invoking(h) \subseteq {Here(t)} /\ ~ Invokes(g, h)

LEMMA ClosureTurn ==
  ASSUME IInv, Quiet, lock = None, Types', Spared, closure_refs' \in [Handler -> Nat],
         NEW t \in Thread, stack[t] # << >>, Top(t).what # "emit",
         NEW g \in AnyFrame, g.what # "emit",
         stack' = WithTop(t, g) \/ (stack' = Popped(t) /\ g = Gone),
         g.what = "fast" => g.pc = "call",
         g.what = "drop" => (g.handler => ref_count[g.h] = 0),
         Traded(Top(t), g), Valid(t, g)
  PROVE  IInv'
<1>p. PICK p : p = Here(t)
  OBVIOUS
<1>f. PICK f : f = Top(t)
  OBVIOUS
<1>1. /\ p \in Places /\ Frame(p) = f /\ (p \in Places' => Frame(p)' = g)
      /\ stack' = Popped(t) => p \notin Places'
      /\ stack' = WithTop(t, g) => p \in Places'
  BY <1>p, <1>f, ClosurePlaces
<1>2. ASSUME NEW h \in Handler
      PROVE  /\ p \in Invoking(h) <=> Invokes(f, h)
             /\ p \in Dropping(h) <=> Releases(f, h)
             /\ p \in Invoking(h)' <=> Invokes(g, h)
             /\ p \in Dropping(h)' <=> Releases(g, h)
  <2>1. p \in Invoking(h) <=> Invokes(f, h)
    BY <1>1 DEF Invoking, Invokes
  <2>2. p \in Dropping(h) <=> Releases(f, h)
    BY <1>1 DEF Dropping, Releases
  <2>3. CASE p \in Places'
    <3>1. p \in Invoking(h)' <=> Invokes(g, h)
      BY <1>1, <2>3 DEF Invoking, Invokes
    <3>2. p \in Dropping(h)' <=> Releases(g, h)
      BY <1>1, <2>3 DEF Dropping, Releases
    <3>3. QED
      BY <2>1, <2>2, <3>1, <3>2
  <2>4. CASE p \notin Places'
    <3>1. g = Gone
      BY <1>1, <2>4
    <3>2. ~ Invokes(g, h) /\ ~ Releases(g, h)
      BY <3>1, SignalAssumption DEF Gone, Invokes, Releases
    <3>3. p \notin Invoking(h)' /\ p \notin Dropping(h)'
      BY <2>4 DEF Invoking, Dropping
    <3>4. QED
      BY <2>1, <2>2, <3>2, <3>3
  <2>5. QED
    BY <2>3, <2>4
<1>3. ClosureMoved(p)
  <2>1. Traded(f, g)
    BY <1>f
  <2>2. ASSUME NEW h \in Handler
        PROVE  /\ closure_refs'[h] + One(p \in Invoking(h)) + One(p \in Dropping(h))
                    = closure_refs[h] + One(p \in Invoking(h)') + One(p \in Dropping(h)')
               /\ is_invalid'[h] => h \notin Alive /\ Invoking(h) \subseteq {p} /\ p \notin Invoking(h)'
    <3>1. closure_refs'[h] + One(Invokes(f, h)) + One(Releases(f, h))
            = closure_refs[h] + One(Invokes(g, h)) + One(Releases(g, h))
      BY <2>1 DEF Traded
    <3>2. /\ One(p \in Invoking(h)) = One(Invokes(f, h))
          /\ One(p \in Dropping(h)) = One(Releases(f, h))
          /\ One(p \in Invoking(h)') = One(Invokes(g, h))
          /\ One(p \in Dropping(h)') = One(Releases(g, h))
      BY <1>2 DEF One
    <3>3. is_invalid'[h] => h \notin Alive /\ Invoking(h) \subseteq {p} /\ p \notin Invoking(h)'
      BY <1>2, <1>p DEF Valid
    <3>4. QED
      BY <3>1, <3>2, <3>3
  <2>3. QED
    BY <2>2 DEF ClosureMoved
<1>4. stack' = Popped(t) \/ stack' = WithTop(t, g)
  OBVIOUS
<1>5. QED
  BY <1>3, <1>4, <1>p, ClosureStep

\* What a frame that is no emission knows, on top.
LEMMA ClosureTop ==
  ASSUME IInv, NEW t \in Thread, stack[t] # << >>, NEW f, f = Top(t)
  PROVE  /\ f.what = "fast" => f \in Fasts /\ (f.pc = "picked" => f.h \in Handler)
         /\ f.what = "drop" => f \in Drops /\ (f.handler => ref_count[f.h] = 0)
<1>1. Len(stack[t]) \in Nat \ {0} /\ f = stack[t][Len(stack[t])] /\ f \in AnyFrame
  BY Facts, TopIs
<1>2. Len(stack[t]) \in 1 .. Len(stack[t])
  BY <1>1
<1>3. FrameOK(t, Len(stack[t]))
  BY <1>2, Facts
<1>4. CASE f.what = "fast"
  <2>1. f \in Fasts
    BY <1>1, <1>4 DEF AnyFrame, Emissions, Drops
  <2>2. f.pc = "picked" => f.h # None
    BY <1>1, <1>3, <1>4 DEF FrameOK
  <2>3. QED
    BY <1>4, <2>1, <2>2 DEF Fasts
<1>5. CASE f.what = "drop"
  <2>1. f \in Drops
    BY <1>1, <1>5 DEF AnyFrame, Emissions, Fasts
  <2>2. DropOK(f)
    BY <1>1, <1>3, <1>5 DEF FrameOK
  <2>3. QED
    BY <1>5, <2>1, <2>2 DEF DropOK
<1>6. QED
  BY <1>4, <1>5

LEMMA QuietTypes ==
  ASSUME IInv, Quiet, UNCHANGED <<lock, used, id, block_count>>,
         is_invalid' \in [Handler -> BOOLEAN]
  PROVE  Types' /\ Spared
<1>1. Types /\ \A h \in Handler : h \in Alive => h \in used
  BY Facts
<1>2. Alive \subseteq Handler
  BY Facts
<1>3. Types'
  BY <1>1 DEF Types, Quiet, emissions
<1>4. Spared
  BY <1>1, <1>2 DEF Spared
<1>5. QED
  BY <1>3, <1>4

LEMMA InvokeFastOK ==
  ASSUME IInv, NEW t \in Thread, InvokeFast(t)
  PROVE  IInv'
<1>f. PICK f : f = Top(t)
  OBVIOUS
<1>1. /\ lock = None /\ stack[t] # << >> /\ f.what = "fast" /\ f.pc = "picked"
      /\ Quiet /\ UNCHANGED <<lock, used, id, block_count, is_invalid>>
      /\ \/ /\ closure_refs[f.h] > 0 /\ ~ is_invalid[f.h]
            /\ stack' = WithTop(t, [f EXCEPT !.pc = "call"])
            /\ closure_refs' = Ref(closure_refs, f.h)
         \/ /\ closure_refs[f.h] > 0 /\ is_invalid[f.h]
            /\ stack' = WithTop(t, Drop(f.h, FALSE, FALSE))
            /\ closure_refs' = Ref(closure_refs, f.h)
         \/ /\ closure_refs[f.h] = 0 /\ stack' = Popped(t) /\ UNCHANGED closure_refs
  BY <1>f DEF InvokeFast, At
<1>2. f \in Fasts /\ f.h \in Handler
  BY <1>f, <1>1, ClosureTop
<1>3. /\ closure_refs \in [Handler -> Nat] /\ is_invalid \in [Handler -> BOOLEAN]
      /\ \A h \in Handler : ClosureOK(h)
  BY Facts DEF TypeOK, Types
<1>4. Types' /\ Spared
  <2>1. is_invalid' \in [Handler -> BOOLEAN]
    BY <1>1, <1>3
  <2>2. QED
    BY <1>1, <2>1, QuietTypes
<1>5. \A h \in Handler : ~ Invokes(f, h) /\ ~ Releases(f, h)
  BY <1>1 DEF Invokes, Releases
<1>6. Ref(closure_refs, f.h) = [closure_refs EXCEPT ![f.h] = @ + 1]
  BY <1>2, SignalAssumption DEF Ref
<1>7. \A h \in Handler : is_invalid[h] => h \notin Alive /\ Invoking(h) = {}
  BY <1>3 DEF ClosureOK
<1>8. Top(t).what # "emit"
  BY <1>f, <1>1
<1>9. CASE /\ closure_refs[f.h] > 0 /\ ~ is_invalid[f.h]
           /\ stack' = WithTop(t, [f EXCEPT !.pc = "call"])
           /\ closure_refs' = Ref(closure_refs, f.h)
  <2>g. PICK g : g = [f EXCEPT !.pc = "call"]
    OBVIOUS
  <2>1. g \in Fasts /\ g.what = "fast" /\ g.pc = "call" /\ g.h = f.h
    BY <1>1, <1>2, <2>g DEF Fasts
  <2>2. closure_refs' \in [Handler -> Nat]
        /\ \A h \in Handler : closure_refs'[h] = closure_refs[h] + One(f.h = h)
    BY <1>2, <1>3, <1>6, <1>9 DEF One
  <2>3. Traded(f, g)
    <3>1. ASSUME NEW h \in Handler
          PROVE  /\ One(Invokes(f, h)) = 0 /\ One(Releases(f, h)) = 0
                 /\ One(Invokes(g, h)) = One(f.h = h) /\ One(Releases(g, h)) = 0
                 /\ One(f.h = h) \in Nat
      BY <1>5, <2>1 DEF Invokes, Releases, One
    <3>2. QED
      BY <1>3, <2>2, <3>1 DEF Traded
  <2>4. Valid(t, g)
    BY <1>1, <1>7, <1>9, <2>1 DEF Valid, Invokes
  <2>5. g \in AnyFrame /\ g.what # "emit" /\ g.what # "drop" /\ stack' = WithTop(t, g)
    BY <1>9, <2>g, <2>1 DEF AnyFrame
  <2>6. Traded(Top(t), g)
    BY <1>f, <2>3
  <2>7. QED
    BY <1>1, <1>4, <1>8, <2>1, <2>2, <2>4, <2>5, <2>6, ClosureTurn
<1>10. CASE /\ closure_refs[f.h] > 0 /\ is_invalid[f.h]
            /\ stack' = WithTop(t, Drop(f.h, FALSE, FALSE))
            /\ closure_refs' = Ref(closure_refs, f.h)
  <2>g. PICK g : g = Drop(f.h, FALSE, FALSE)
    OBVIOUS
  <2>1. g \in Drops /\ g.what = "drop" /\ g.pc = "read" /\ g.h = f.h /\ g.handler = FALSE
    BY <1>2, <2>g DEF Drop, Drops
  <2>2. closure_refs' \in [Handler -> Nat]
        /\ \A h \in Handler : closure_refs'[h] = closure_refs[h] + One(f.h = h)
    BY <1>2, <1>3, <1>6, <1>10 DEF One
  <2>3. Traded(f, g)
    <3>1. ASSUME NEW h \in Handler
          PROVE  /\ One(Invokes(f, h)) = 0 /\ One(Releases(f, h)) = 0
                 /\ One(Invokes(g, h)) = 0 /\ One(Releases(g, h)) = One(f.h = h)
                 /\ One(f.h = h) \in Nat
      BY <1>5, <2>1 DEF Invokes, Releases, One
    <3>2. QED
      BY <1>3, <2>2, <3>1 DEF Traded
  <2>4. Valid(t, g)
    BY <1>1, <1>7, <2>1 DEF Valid, Invokes
  <2>5. g \in AnyFrame /\ g.what # "emit" /\ g.what # "fast" /\ stack' = WithTop(t, g)
    BY <1>10, <2>g, <2>1 DEF AnyFrame
  <2>6. Traded(Top(t), g)
    BY <1>f, <2>3
  <2>7. QED
    BY <1>1, <1>4, <1>8, <2>1, <2>2, <2>4, <2>5, <2>6, ClosureTurn
<1>11. CASE closure_refs[f.h] = 0 /\ stack' = Popped(t) /\ UNCHANGED closure_refs
  <2>g. PICK g : g = Gone
    OBVIOUS
  <2>1. g \in Fasts /\ g.what = "fast" /\ g.pc = "call" /\ g.h = None
    BY <2>g DEF Gone, Fasts
  <2>2. \A h \in Handler : ~ Invokes(g, h) /\ ~ Releases(g, h)
    BY <2>1, SignalAssumption DEF Invokes, Releases
  <2>3. Traded(f, g)
    <3>1. ASSUME NEW h \in Handler
          PROVE  /\ One(Invokes(f, h)) = 0 /\ One(Releases(f, h)) = 0
                 /\ One(Invokes(g, h)) = 0 /\ One(Releases(g, h)) = 0
      BY <1>5, <2>2 DEF One
    <3>2. QED
      BY <1>11, <3>1 DEF Traded
  <2>4. Valid(t, g)
    BY <1>1, <1>7, <2>2 DEF Valid
  <2>5. /\ g \in AnyFrame /\ g.what # "emit" /\ g.what # "drop"
        /\ stack' = Popped(t) /\ g = Gone /\ closure_refs' \in [Handler -> Nat]
    BY <1>3, <1>11, <2>g, <2>1 DEF AnyFrame
  <2>6. Traded(Top(t), g)
    BY <1>f, <2>3
  <2>7. QED
    BY <1>1, <1>4, <1>8, <2>1, <2>4, <2>5, <2>6, ClosureTurn
<1>12. QED
  BY <1>1, <1>9, <1>10, <1>11

\* A frame that releases the closure of h holds a reference to it.
LEMMA LastRelease ==
  ASSUME IInv, NEW t \in Thread, stack[t] # << >>, NEW h \in Handler, Releases(Top(t), h)
  PROVE  /\ closure_refs[h] > 0
         /\ closure_refs[h] = 1 => h \notin Alive /\ Invoking(h) = {}
<1>p. PICK p : p = Here(t)
  OBVIOUS
<1>1. TypeOK /\ IsFiniteSet(Places) /\ ClosureOK(h)
  BY Facts
<1>2. p \in Places /\ Frame(p) = Top(t)
  <2>1. Len(stack[t]) \in Nat \ {0} /\ Top(t) = stack[t][Len(stack[t])]
    BY <1>1, TopIs
  <2>2. Len(stack[t]) \in 1 .. Len(stack[t])
    BY <2>1
  <2>3. Here(t) \in Places
    BY <2>2, PlaceDef DEF Here
  <2>4. Frame(Here(t)) = Top(t)
    BY <2>1, FrameIs DEF Here
  <2>5. QED
    BY <1>p, <2>3, <2>4
<1>3. p \in Dropping(h)
  BY <1>2 DEF Dropping, Releases
<1>4. /\ IsFiniteSet(Invoking(h)) /\ IsFiniteSet(Dropping(h))
      /\ Cardinality(Invoking(h)) \in Nat /\ Cardinality(Dropping(h)) \in Nat
  BY <1>1, Finite
<1>5. Cardinality(Dropping(h)) # 0
  BY <1>3, <1>4, FS_EmptySet
<1>6. Cardinality(Invoking(h)) = 0 => Invoking(h) = {}
  BY <1>4, FS_EmptySet
<1>7. closure_refs[h] = One(h \in Alive) + Cardinality(Invoking(h)) + Cardinality(Dropping(h))
  BY <1>1 DEF ClosureOK
<1>8. PICK a \in Nat, i \in Nat, d \in Nat :
        a = One(h \in Alive) /\ i = Cardinality(Invoking(h)) /\ d = Cardinality(Dropping(h))
  BY <1>4 DEF One
<1>9. closure_refs[h] = a + i + d /\ d # 0
  BY <1>5, <1>7, <1>8
<1>10. closure_refs[h] > 0 /\ (closure_refs[h] = 1 => a = 0 /\ i = 0)
  BY <1>9
<1>11. a = 0 => h \notin Alive
  BY <1>8 DEF One
<1>12. QED
  BY <1>6, <1>8, <1>10, <1>11

LEMMA InvalidIs ==
  ASSUME IInv
  PROVE  /\ closure_refs \in [Handler -> Nat] /\ is_invalid \in [Handler -> BOOLEAN]
         /\ \A h \in Handler : is_invalid[h] => h \notin Alive /\ Invoking(h) = {}
BY Facts DEF TypeOK, Types, ClosureOK

LEMMA ReturnFastOK ==
  ASSUME IInv, NEW t \in Thread, ReturnFast(t)
  PROVE  IInv'
<1>f. PICK f : f = Top(t)
  OBVIOUS
<1>1. /\ lock = None /\ stack[t] # << >> /\ f.what = "fast" /\ f.pc = "call"
      /\ Quiet /\ UNCHANGED <<lock, used, id, block_count, closure_refs, is_invalid>>
      /\ stack' = IF f.h = None THEN Popped(t) ELSE WithTop(t, Drop(f.h, FALSE, FALSE))
  BY <1>f DEF ReturnFast, At, closureVars
<1>2. f \in Fasts
  BY <1>f, <1>1, ClosureTop
<1>3. /\ closure_refs \in [Handler -> Nat] /\ is_invalid \in [Handler -> BOOLEAN]
      /\ \A h \in Handler : is_invalid[h] => h \notin Alive /\ Invoking(h) = {}
  BY InvalidIs
<1>4. Types' /\ Spared
  <2>1. is_invalid' \in [Handler -> BOOLEAN]
    BY <1>1, <1>3
  <2>2. QED
    BY <1>1, <2>1, QuietTypes
<1>5. \A h \in Handler : (Invokes(f, h) <=> f.h = h) /\ ~ Releases(f, h)
  BY <1>1 DEF Invokes, Releases
<1>6. Top(t).what # "emit" /\ closure_refs' \in [Handler -> Nat]
  BY <1>f, <1>1, <1>3
<1>7. CASE f.h = None
  <2>g. PICK g : g = Gone
    OBVIOUS
  <2>1. g \in Fasts /\ g.what = "fast" /\ g.pc = "call" /\ g.h = None
    BY <2>g DEF Gone, Fasts
  <2>2. \A h \in Handler : /\ ~ Invokes(g, h) /\ ~ Releases(g, h)
                           /\ ~ Invokes(f, h) /\ ~ Releases(f, h)
    BY <1>5, <1>7, <2>1, SignalAssumption DEF Invokes, Releases
  <2>3. Traded(f, g)
    <3>1. ASSUME NEW h \in Handler
          PROVE  /\ One(Invokes(f, h)) = 0 /\ One(Releases(f, h)) = 0
                 /\ One(Invokes(g, h)) = 0 /\ One(Releases(g, h)) = 0
      BY <2>2 DEF One
    <3>2. QED
      BY <1>1, <3>1 DEF Traded
  <2>4. Valid(t, g)
    BY <1>1, <1>3, <2>2 DEF Valid
  <2>5. /\ g \in AnyFrame /\ g.what # "emit" /\ g.what # "drop"
        /\ stack' = Popped(t) /\ g = Gone
    BY <1>1, <1>7, <2>g, <2>1 DEF AnyFrame
  <2>6. Traded(Top(t), g)
    BY <1>f, <2>3
  <2>7. QED
    BY <1>1, <1>4, <1>6, <2>1, <2>4, <2>5, <2>6, ClosureTurn
<1>8. CASE f.h # None
  <2>g. PICK g : g = Drop(f.h, FALSE, FALSE)
    OBVIOUS
  <2>0. f.h \in Handler
    BY <1>2, <1>8 DEF Fasts
  <2>1. g \in Drops /\ g.what = "drop" /\ g.pc = "read" /\ g.h = f.h /\ g.handler = FALSE
    BY <2>0, <2>g DEF Drop, Drops
  <2>3. Traded(f, g)
    <3>1. ASSUME NEW h \in Handler
          PROVE  /\ One(Invokes(f, h)) = One(f.h = h) /\ One(Releases(f, h)) = 0
                 /\ One(Invokes(g, h)) = 0 /\ One(Releases(g, h)) = One(f.h = h)
                 /\ One(f.h = h) \in Nat
      BY <1>5, <2>1 DEF Invokes, Releases, One
    <3>2. QED
      BY <1>1, <1>3, <3>1 DEF Traded
  <2>4. Valid(t, g)
    BY <1>1, <1>3, <2>1 DEF Valid, Invokes
  <2>5. g \in AnyFrame /\ g.what # "emit" /\ g.what # "fast" /\ stack' = WithTop(t, g)
    BY <1>1, <1>8, <2>g, <2>1 DEF AnyFrame
  <2>6. Traded(Top(t), g)
    BY <1>f, <2>3
  <2>7. QED
    BY <1>1, <1>4, <1>6, <2>1, <2>4, <2>5, <2>6, ClosureTurn
<1>9. QED
  BY <1>7, <1>8

LEMMA UnrefReadsOK ==
  ASSUME IInv, NEW t \in Thread, UnrefReads(t)
  PROVE  IInv'
<1>f. PICK f : f = Top(t)
  OBVIOUS
<1>g. PICK g : g = [f EXCEPT !.pc = "dec"]
  OBVIOUS
<1>1. /\ lock = None /\ stack[t] # << >> /\ f.what = "drop" /\ f.pc = "read"
      /\ Quiet /\ UNCHANGED <<lock, used, id, block_count, closure_refs>>
      /\ is_invalid' = [is_invalid EXCEPT ![f.h] = @ \/ closure_refs[f.h] = 1]
      /\ stack' = WithTop(t, g)
  BY <1>f, <1>g DEF UnrefReads, At
<1>2. f \in Drops /\ f.h \in Handler /\ (f.handler => ref_count[f.h] = 0)
  BY <1>f, <1>1, ClosureTop DEF Drops
<1>3. /\ closure_refs \in [Handler -> Nat] /\ is_invalid \in [Handler -> BOOLEAN]
      /\ \A h \in Handler : is_invalid[h] => h \notin Alive /\ Invoking(h) = {}
  BY InvalidIs
<1>4. Types' /\ Spared
  <2>1. is_invalid' \in [Handler -> BOOLEAN]
    BY <1>1, <1>3
  <2>2. QED
    BY <1>1, <2>1, QuietTypes
<1>5. /\ g \in Drops /\ g.what = "drop" /\ g.pc = "dec" /\ g.h = f.h /\ g.handler = f.handler
  BY <1>1, <1>2, <1>g DEF Drops
<1>6. \A h \in Handler : /\ ~ Invokes(f, h) /\ ~ Invokes(g, h)
                         /\ Releases(f, h) <=> f.h = h
                         /\ Releases(g, h) <=> f.h = h
  BY <1>1, <1>5 DEF Invokes, Releases
<1>7. Traded(f, g)
  <2>1. ASSUME NEW h \in Handler
        PROVE  /\ One(Invokes(f, h)) = 0 /\ One(Releases(f, h)) = One(f.h = h)
               /\ One(Invokes(g, h)) = 0 /\ One(Releases(g, h)) = One(f.h = h)
               /\ One(f.h = h) \in Nat
    BY <1>6 DEF One
  <2>2. QED
    BY <1>1, <1>3, <2>1 DEF Traded
<1>8. Valid(t, g)
  <2>1. SUFFICES ASSUME NEW h \in Handler, is_invalid'[h]
                 PROVE  h \notin Alive /\ Invoking(h) = {}
    BY <1>6 DEF Valid
  <2>2. is_invalid[h] \/ (h = f.h /\ closure_refs[h] = 1)
    BY <1>1, <1>2, <1>3, <2>1
  <2>3. CASE h = f.h /\ closure_refs[h] = 1
    <3>1. Releases(Top(t), h)
      BY <1>f, <1>6, <2>3
    <3>2. QED
      BY <1>1, <2>3, <3>1, LastRelease
  <2>4. QED
    BY <1>3, <2>2, <2>3
<1>9. /\ Top(t).what # "emit" /\ closure_refs' \in [Handler -> Nat]
      /\ g \in AnyFrame /\ g.what # "emit" /\ g.what # "fast" /\ Traded(Top(t), g)
      /\ (g.handler => ref_count[g.h] = 0)
  BY <1>f, <1>1, <1>2, <1>3, <1>5, <1>7 DEF AnyFrame
<1>10. QED
  BY <1>1, <1>4, <1>8, <1>9, ClosureTurn

LEMMA UnrefCountsOK ==
  ASSUME IInv, NEW t \in Thread, UnrefCounts(t)
  PROVE  IInv'
<1>f. PICK f : f = Top(t)
  OBVIOUS
<1>c. PICK c \in {"notify", "dropped"} : c = IF closure_refs[f.h] = 1 THEN "notify" ELSE "dropped"
  OBVIOUS
<1>g. PICK g : g = [f EXCEPT !.pc = c]
  OBVIOUS
<1>1. /\ lock = None /\ stack[t] # << >> /\ f.what = "drop" /\ f.pc = "dec"
      /\ Quiet /\ UNCHANGED <<lock, used, id, block_count, is_invalid>>
      /\ closure_refs' = [closure_refs EXCEPT ![f.h] = @ - 1]
      /\ stack' = WithTop(t, g)
  BY <1>f, <1>c, <1>g DEF UnrefCounts, At
<1>2. f \in Drops /\ f.h \in Handler /\ (f.handler => ref_count[f.h] = 0)
  BY <1>f, <1>1, ClosureTop DEF Drops
<1>3. /\ closure_refs \in [Handler -> Nat] /\ is_invalid \in [Handler -> BOOLEAN]
      /\ \A h \in Handler : is_invalid[h] => h \notin Alive /\ Invoking(h) = {}
  BY InvalidIs
<1>4. Types' /\ Spared
  <2>1. is_invalid' \in [Handler -> BOOLEAN]
    BY <1>1, <1>3
  <2>2. QED
    BY <1>1, <2>1, QuietTypes
<1>5. /\ g \in Drops /\ g.what = "drop" /\ g.pc \notin {"read", "dec"} /\ g.h = f.h
      /\ g.handler = f.handler
  BY <1>1, <1>2, <1>g DEF Drops
<1>6. \A h \in Handler : /\ ~ Invokes(f, h) /\ ~ Invokes(g, h)
                         /\ Releases(f, h) <=> f.h = h
                         /\ ~ Releases(g, h)
  BY <1>1, <1>5 DEF Invokes, Releases
<1>7. closure_refs[f.h] > 0
  <2>1. Releases(Top(t), f.h)
    BY <1>f, <1>2, <1>6
  <2>2. QED
    BY <1>1, <1>2, <2>1, LastRelease
<1>8. closure_refs' \in [Handler -> Nat]
      /\ \A h \in Handler : closure_refs'[h] + One(f.h = h) = closure_refs[h]
  BY <1>1, <1>2, <1>3, <1>7 DEF One
<1>9. Traded(f, g)
  <2>1. ASSUME NEW h \in Handler
        PROVE  /\ One(Invokes(f, h)) = 0 /\ One(Releases(f, h)) = One(f.h = h)
               /\ One(Invokes(g, h)) = 0 /\ One(Releases(g, h)) = 0
               /\ One(f.h = h) \in Nat
    BY <1>6 DEF One
  <2>2. QED
    BY <1>3, <1>8, <2>1 DEF Traded
<1>10. Valid(t, g)
  BY <1>1, <1>3, <1>6 DEF Valid
<1>11. /\ Top(t).what # "emit"
       /\ g \in AnyFrame /\ g.what # "emit" /\ g.what # "fast" /\ Traded(Top(t), g)
       /\ (g.handler => ref_count[g.h] = 0)
  BY <1>f, <1>1, <1>2, <1>5, <1>9 DEF AnyFrame
<1>12. QED
  BY <1>1, <1>4, <1>8, <1>10, <1>11, ClosureTurn

LEMMA NotifiedOK ==
  ASSUME IInv, NEW t \in Thread, Notified(t)
  PROVE  IInv'
<1>f. PICK f : f = Top(t)
  OBVIOUS
<1>g. PICK g : g = [f EXCEPT !.pc = "dropped"]
  OBVIOUS
<1>1. /\ lock = None /\ stack[t] # << >> /\ f.what = "drop" /\ f.pc = "notify"
      /\ Quiet /\ UNCHANGED <<lock, used, id, block_count, closure_refs>>
      /\ is_invalid' = [is_invalid EXCEPT ![f.h] = FALSE]
      /\ stack' = WithTop(t, g)
  BY <1>f, <1>g DEF Notified, At
<1>2. f \in Drops /\ f.h \in Handler /\ (f.handler => ref_count[f.h] = 0)
  BY <1>f, <1>1, ClosureTop DEF Drops
<1>3. /\ closure_refs \in [Handler -> Nat] /\ is_invalid \in [Handler -> BOOLEAN]
      /\ \A h \in Handler : is_invalid[h] => h \notin Alive /\ Invoking(h) = {}
  BY InvalidIs
<1>4. Types' /\ Spared
  <2>1. is_invalid' \in [Handler -> BOOLEAN]
    BY <1>1, <1>3
  <2>2. QED
    BY <1>1, <2>1, QuietTypes
<1>5. /\ g \in Drops /\ g.what = "drop" /\ g.pc = "dropped" /\ g.h = f.h /\ g.handler = f.handler
  BY <1>1, <1>2, <1>g DEF Drops
<1>6. \A h \in Handler : /\ ~ Invokes(f, h) /\ ~ Invokes(g, h)
                         /\ ~ Releases(f, h) /\ ~ Releases(g, h)
  BY <1>1, <1>5 DEF Invokes, Releases
<1>7. Traded(f, g)
  <2>1. ASSUME NEW h \in Handler
        PROVE  /\ One(Invokes(f, h)) = 0 /\ One(Releases(f, h)) = 0
               /\ One(Invokes(g, h)) = 0 /\ One(Releases(g, h)) = 0
    BY <1>6 DEF One
  <2>2. QED
    BY <1>1, <1>3, <2>1 DEF Traded
<1>8. Valid(t, g)
  BY <1>1, <1>3, <1>6 DEF Valid
<1>9. /\ Top(t).what # "emit" /\ closure_refs' \in [Handler -> Nat]
      /\ g \in AnyFrame /\ g.what # "emit" /\ g.what # "fast" /\ Traded(Top(t), g)
      /\ (g.handler => ref_count[g.h] = 0)
  BY <1>f, <1>1, <1>2, <1>3, <1>5, <1>7 DEF AnyFrame
<1>10. QED
  BY <1>1, <1>4, <1>8, <1>9, ClosureTurn

LEMMA DroppedOK ==
  ASSUME IInv, NEW t \in Thread, Dropped(t)
  PROVE  IInv'
<1>f. PICK f : f = Top(t)
  OBVIOUS
<1>g. PICK g : g = Gone
  OBVIOUS
<1>1. /\ lock = None /\ stack[t] # << >> /\ f.what = "drop" /\ f.pc = "dropped"
      /\ Quiet /\ UNCHANGED <<closure_refs, is_invalid>>
      /\ used' = IF f.handler THEN used \ {f.h} ELSE used
      /\ id' = IF f.handler THEN [id EXCEPT ![f.h] = 0] ELSE id
      /\ block_count' = IF f.handler THEN [block_count EXCEPT ![f.h] = 0] ELSE block_count
      /\ lock' = IF f.locked THEN t ELSE None
      /\ stack' = Popped(t)
  BY <1>f DEF Dropped, At, closureVars
<1>2. f \in Drops /\ f.h \in Handler /\ (f.handler => ref_count[f.h] = 0)
  BY <1>f, <1>1, ClosureTop DEF Drops
<1>3. /\ closure_refs \in [Handler -> Nat] /\ is_invalid \in [Handler -> BOOLEAN]
      /\ \A h \in Handler : is_invalid[h] => h \notin Alive /\ Invoking(h) = {}
  BY InvalidIs
<1>4. /\ Types /\ connected \subseteq Alive /\ Alive \subseteq Handler
      /\ \A h \in Handler : (h \in Alive <=> ref_count[h] > 0) /\ (h \in Alive => h \in used)
  BY Facts
<1>5. f.handler => f.h \notin Alive
  BY <1>2, <1>4
<1>6. Types'
  <2>1. /\ id' \in [Handler -> 0 .. MaxId] /\ block_count' \in [Handler -> 0 .. MaxBlock]
        /\ lock' \in Thread \cup {None}
    BY <1>1, <1>2, <1>4, SignalAssumption DEF Types
  <2>2. connected' \subseteq used' /\ used' \subseteq Handler
    BY <1>1, <1>4, <1>5 DEF Types, Quiet, emissions
  <2>3. QED
    BY <1>1, <1>4, <2>1, <2>2 DEF Types, Quiet, emissions
<1>7. Spared
  BY <1>1, <1>4, <1>5 DEF Spared, Types
<1>8. g \in Fasts /\ g.what = "fast" /\ g.pc = "call" /\ g.h = None
  BY <1>g DEF Gone, Fasts
<1>9. \A h \in Handler : /\ ~ Invokes(g, h) /\ ~ Releases(g, h)
                         /\ ~ Invokes(f, h) /\ ~ Releases(f, h)
  BY <1>1, <1>8, SignalAssumption DEF Invokes, Releases
<1>10. Traded(f, g)
  <2>1. ASSUME NEW h \in Handler
        PROVE  /\ One(Invokes(f, h)) = 0 /\ One(Releases(f, h)) = 0
               /\ One(Invokes(g, h)) = 0 /\ One(Releases(g, h)) = 0
    BY <1>9 DEF One
  <2>2. QED
    BY <1>1, <2>1 DEF Traded
<1>11. Valid(t, g)
  BY <1>1, <1>3, <1>9 DEF Valid
<1>12. /\ g \in AnyFrame /\ g.what # "emit" /\ g.what # "drop" /\ Traded(Top(t), g)
       /\ Top(t).what # "emit" /\ closure_refs' \in [Handler -> Nat]
  BY <1>f, <1>1, <1>3, <1>8, <1>10 DEF AnyFrame
<1>13. QED
  BY <1>1, <1>6, <1>7, <1>8, <1>11, <1>12, <1>g, ClosureTurn

-----------------------------------------------------------------------------
(* The invariant holds *)

LEMMA InitHolds == Init => IInv
<1> SUFFICES ASSUME Init
             PROVE  IInv
  OBVIOUS
<1>1. /\ lock = None /\ hlist = EmptyList /\ kind \in Kinds
      /\ used = {} /\ connected = {} /\ n_handlers = 1 /\ emitted = 0
      /\ id = [h \in Handler |-> 0] /\ ref_count = [h \in Handler |-> 0]
      /\ block_count = [h \in Handler |-> 0] /\ matched = [h \in Handler |-> 0]
      /\ closure_refs = [h \in Handler |-> 0] /\ is_invalid = [h \in Handler |-> FALSE]
      /\ stack = [t \in Thread |-> << >>]
  BY DEF Init
<1>2. Alive = {} /\ \A t \in Thread : Len(stack[t]) = 0
  BY <1>1 DEF Alive
<1>3. Places = {}
  BY <1>2, PlaceDef
<1>4. \A h : /\ Listing(h) = {} /\ Standing(h) = {} /\ Invoking(h) = {} /\ Dropping(h) = {}
  BY <1>3 DEF Listing, Standing, Invoking, Dropping
<1>5. Cardinality({}) = 0 /\ IsFiniteSet({})
  BY FS_EmptySet
<1>6. Types
  BY <1>1, SignalAssumption DEF Types
<1>7. TypeOK
  <2>1. hlist \in Lists
    BY <1>1 DEF EmptyList, Lists
  <2>2. stack \in [Thread -> Seq(Emissions \cup Fasts \cup Drops)]
    BY <1>1
  <2>3. IsFiniteSet(Places)
    BY <1>3, <1>5
  <2>4. QED
    BY <1>1, <1>6, <2>1, <2>2, <2>3 DEF TypeOK, Lists
<1>8. RefsExact
  <2>1. \A h \in Handler : Held(h) = 0
    BY <1>4, <1>5 DEF Held
  <2>2. QED
    BY <1>1, <1>6, <2>1 DEF RefsExact
<1>9. InOrder
  <2>1. hlist.handlers = None /\ hlist.tail_before = None /\ hlist.tail_after = None
    BY <1>1 DEF EmptyList
  <2>2. QED
    BY <1>2, <2>1 DEF InOrder, IsFirst, IsLast
<1>10. \A h \in Handler : HandlerOK(h) /\ ClosureOK(h)
  <2>1. \A h \in Handler : closure_refs[h] = 0 /\ ~ is_invalid[h] /\ One(h \in Alive) = 0
    BY <1>1, <1>2 DEF One
  <2>2. \A h \in Handler : ClosureOK(h)
    BY <1>4, <1>5, <2>1 DEF ClosureOK
  <2>3. \A h \in Handler : HandlerOK(h)
    BY <1>2 DEF HandlerOK
  <2>4. QED
    BY <2>2, <2>3
<1>11. \A t \in Thread : \A i \in 1 .. Len(stack[t]) : FrameOK(t, i)
  BY <1>2
<1>12. QED
  BY <1>7, <1>8, <1>9, <1>10, <1>11 DEF IInv

LEMMA StutterHolds ==
  ASSUME IInv, UNCHANGED vars
  PROVE  IInv'
<1>1. /\ UNCHANGED <<kind, hlist, handlerVars, ref_count, closureVars>>
      /\ UNCHANGED <<lock, stack, emitted>>
  BY DEF vars, emissions
<1>2. UNCHANGED <<id, connected, block_count, ref_count>>
  BY <1>1 DEF handlerVars
<1>3. Types /\ stack \in [Thread -> Seq(AnyFrame)]
  BY Facts
<1>4. lock' \in Thread \cup {None} /\ emitted' \in 0 .. kind.emissions
  BY <1>1, <1>3 DEF Types
<1>5. stack' \in [Thread -> Seq(AnyFrame)]
  BY <1>1, <1>3
<1>6. \A q : Same(q)
  <2>1. \A q : q \in Places' <=> q \in Places
    BY <1>1 DEF Places
  <2>2. \A q : Frame(q)' = Frame(q)
    BY <1>1 DEF Frame
  <2>3. QED
    BY <2>1, <2>2 DEF Same
<1>7. /\ IsFiniteSet(Places')
      /\ \A h : /\ Held(h)' = Held(h)
                /\ Invoking(h)' = Invoking(h) /\ Dropping(h)' = Dropping(h)
  BY <1>6, AllSame
<1>8. ASSUME NEW u \in Thread, NEW i \in 1 .. Len(stack'[u])
      PROVE  FrameOK(u, i)'
  <2>f. PICK f : f = stack[u][i]
    OBVIOUS
  <2>1. FrameOK(u, i) /\ stack'[u][i] = f /\ stack'[u] = stack[u] /\ lock' = lock
    BY <1>1, <2>f, Facts
  <2>2. f.what = "emit" => /\ EmitOK(f)
                           /\ f.pc \in Locking => lock = u /\ i = Len(stack[u])
    BY <2>f, <2>1 DEF FrameOK
  <2>3. f.what = "emit" => EmitOK(f)'
    BY <1>2, <2>2, EmitStill
  <2>4. f.what = "fast" => (f.pc = "picked" => f.h # None)
    BY <2>f, <2>1 DEF FrameOK
  <2>5. f.what = "drop" => DropOK(f)'
    BY <1>2, <2>f, <2>1 DEF FrameOK, DropOK
  <2>6. QED
    BY <2>1, <2>2, <2>3, <2>4, <2>5 DEF FrameOK
<1>9. QED
  BY <1>1, <1>4, <1>5, <1>7, <1>8, Kept

LEMMA ProceedOK ==
  ASSUME IInv, NEW t \in Thread, Proceed(t)
  PROVE  IInv'
<1>1. \/ EmitAgain(t) \/ Emit(t) \/ Enter(t)
      \/ Restart(t) \/ Begin(t) \/ Loop(t, "before") \/ Loop(t, "after") \/ Break(t)
      \/ CallHandler(t) \/ Skip(t) \/ Stopped(t) \/ Return(t) \/ End(t)
      \/ CallClass(t, "last") \/ CallClass(t, "cleanup") \/ Finish(t) \/ Pop(t)
      \/ InvokeFast(t) \/ ReturnFast(t)
      \/ UnrefReads(t) \/ UnrefCounts(t) \/ Notified(t) \/ Dropped(t)
  BY DEF Proceed
<1>2. CASE Loop(t, "before") \/ Loop(t, "after")
  <2>1. "before" \in {"before", "after"} /\ "after" \in {"before", "after"}
    OBVIOUS
  <2>2. QED
    BY <1>2, <2>1, LoopOK
<1>3. CASE CallClass(t, "last") \/ CallClass(t, "cleanup")
  <2>1. "last" \in {"last", "cleanup"} /\ "cleanup" \in {"last", "cleanup"}
    OBVIOUS
  <2>2. QED
    BY <1>3, <2>1, CallClassOK
<1>4. CASE Stopped(t)
  BY <1>4, StopOK
<1>5. QED
  BY <1>1, <1>2, <1>3, <1>4, EmitAgainOK, EmitStepOK, EnterOK, RestartOK, BeginOK, BreakOK,
     CallHandlerOK, SkipOK, ReturnOK, EndOK, FinishOK, PopOK, InvokeFastOK, ReturnFastOK, UnrefReadsOK, UnrefCountsOK,
     NotifiedOK, DroppedOK, Zenon

LEMMA OperateOK ==
  ASSUME IInv, NEW t \in Thread, Operate(t)
  PROVE  IInv'
<1>1. CASE \E h \in Handler : Connect(t, h) \/ Disconnect(t, h) \/ Block(t, h) \/ Unblock(t, h)
  BY <1>1, ConnectOK, DisconnectOK, BlockOK, UnblockOK, Zenon
<1>2. CASE \E S \in SUBSET connected : \E h \in S : DisconnectMatched(t, S, h)
  BY <1>2, DisconnectMatchedOK, Zenon
<1>3. CASE \E d \in BOOLEAN : EmitFast(t, d) \/ Collect(t, d)
  BY <1>3, EmitFastOK, CollectOK, Zenon
<1>4. CASE Stop(t)
  BY <1>4, StopOK
<1>5. QED
  BY <1>1, <1>2, <1>3, <1>4 DEF Operate

LEMMA StepHolds == IInv /\ [Next]_vars => IInv'
<1> SUFFICES ASSUME IInv, [Next]_vars
             PROVE  IInv'
  OBVIOUS
<1>1. CASE UNCHANGED vars
  BY <1>1, StutterHolds
<1>2. CASE Next
  BY <1>2, OperateOK, ProceedOK DEF Next
<1>3. QED
  BY <1>1, <1>2

LEMMA Invariant ==
  Spec => []IInv
BY InitHolds, StepHolds, PTL DEF Spec

-----------------------------------------------------------------------------
(* What follows from it *)

\* Whoever is referenced is led to from the head of the list: the first who is
\* not would be next to one who is.
LEMMA AliveListed ==
  ASSUME IInv
  PROVE  Alive \subseteq Listed
<1>1. /\ TypeOK /\ InOrder /\ Distinct /\ Alive \subseteq Handler
      /\ \A h \in Alive : Rank(h) \in Nat
  BY Facts, Ranks
<1>2. SUFFICES ASSUME NEW S \in SUBSET Handler, Led(S), NEW k \in Alive, k \notin S
               PROVE  FALSE
  BY <1>1 DEF Listed
<1>r. PICK R : R = {Rank(h) : h \in Alive \ S}
  OBVIOUS
<1>3. R \subseteq Nat /\ R # {}
  BY <1>1, <1>2, <1>r
<1>4. PICK m \in R : \A n \in R : m <= n
  <2>1. PICK m \in R : \A n \in R : ~ (<<n, m>> \in OpToRel(<, Nat))
    BY <1>3, NatLessThanWellFounded, WFMin
  <2>2. \A n \in R : ~ (n < m)
    BY <1>3, <2>1 DEF OpToRel
  <2>3. QED
    BY <1>3, <2>2
<1>5. PICK h \in Alive \ S : /\ Rank(h) = m
                             /\ \A g \in Alive : Rank(g) < Rank(h) => g \in S
  BY <1>1, <1>3, <1>4, <1>r
<1>6. /\ IsFirst(Alive, hlist.handlers)
      /\ IsFirst(Up(h), hlist.next[h]) /\ IsLast(Down(h), hlist.prev[h])
  BY <1>1, <1>5, Ordered
<1>7. CASE Down(h) = {}
  <2>1. hlist.handlers = h
    BY <1>1, <1>5, <1>6, <1>7 DEF IsFirst, Down
  <2>2. QED
    BY <1>1, <1>2, <1>5, <2>1, SignalAssumption DEF Led
<1>8. CASE Down(h) # {}
  <2>1. PICK g : g = hlist.prev[h]
    OBVIOUS
  <2>2. /\ g \in Alive /\ Rank(g) < Rank(h)
        /\ \A c \in Alive : Rank(c) < Rank(h) => c = g \/ Rank(c) < Rank(g)
    BY <1>6, <1>8, <2>1 DEF IsLast, Down
  <2>3. /\ hlist.next[g] \in Alive \cup {None} /\ hlist.next[g] # None
        /\ Rank(g) < Rank(hlist.next[g]) /\ Rank(hlist.next[g]) <= Rank(h)
    BY <1>1, <1>5, <2>2, After1
  <2>4. PICK c \in Alive : c = hlist.next[g]
    BY <2>3
  <2>5. c = h
    BY <1>1, <1>5, <2>2, <2>3, <2>4 DEF Distinct
  <2>6. g \in S /\ hlist.next[g] \in S \cup {None}
    BY <1>2, <1>5, <2>2 DEF Led
  <2>7. QED
    BY <1>5, <2>3, <2>4, <2>5, <2>6
<1>9. QED
  BY <1>7, <1>8

\* What an emission in some place knows.
LEMMA EmissionKnows ==
  ASSUME IInv, NEW f \in Frames, f.what = "emit"
  PROVE  /\ f \in Emissions /\ EmitOK(f)
         /\ f.h # None => f.h \in Alive
<1>1. PICK p \in Places : f = Frame(p)
  BY DEF Frames
<1>2. PICK u \in Thread : \E i \in 1 .. Len(stack[u]) : p = <<u, i>>
  BY <1>1, PlaceDef
<1>3. PICK i \in 1 .. Len(stack[u]) : p = <<u, i>>
  BY <1>2
<1>4. f = stack[u][i]
  BY <1>1, <1>3, FrameIs
<1>5. FrameOK(u, i) /\ f \in AnyFrame
  BY <1>4, Facts
<1>6. f \in Emissions /\ EmitOK(f)
  BY <1>4, <1>5 DEF FrameOK, AnyFrame, Fasts, Drops
<1>7. f.h # None => f.h \in Handler
  BY <1>6 DEF Emissions
<1>8. f.h # None => f.h \in Alive
  BY <1>4, <1>7, HeldIsAlive
<1>9. QED
  BY <1>6, <1>8

LEMMA RoundKnows ==
  IInv => RoundIsComplete
<1> SUFFICES ASSUME IInv, NEW f \in Frames, f.what = "emit"
             PROVE  /\ \A i \in 2 .. Len(f.called) : f.called[i - 1] < f.called[i]
                    /\ f.pc \in {"cleanup", "finish"} /\ f.state = "run" =>
                         f.due \subseteq {f.called[i] : i \in 1 .. Len(f.called)}
  BY DEF RoundIsComplete
<1>1. f.called \in Seq(Nat) /\ CalledOK(f) /\ DueOK(f)
  BY EmissionKnows DEF Emissions, EmitOK
<1>2. \A i \in 2 .. Len(f.called) : f.called[i - 1] < f.called[i]
  <2>1. Len(f.called) \in Nat
    BY <1>1
  <2>2. ASSUME NEW i \in 2 .. Len(f.called)
        PROVE  f.called[i - 1] < f.called[i]
    <3>1. i - 1 \in 1 .. Len(f.called) /\ i \in 1 .. Len(f.called) /\ i - 1 < i
      BY <2>1
    <3>2. QED
      BY <1>1, <3>1 DEF CalledOK
  <2>3. QED
    BY <2>2
<1>3. ASSUME f.pc \in {"cleanup", "finish"}, f.state = "run"
      PROVE  f.due \subseteq {f.called[i] : i \in 1 .. Len(f.called)}
  <2>1. Behind(f)
    BY <1>3 DEF Behind
  <2>2. f.due \ Called(f) = {}
    BY <1>1, <2>1 DEF DueOK
  <2>3. QED
    BY <2>2 DEF Called
<1>4. QED
  BY <1>2, <1>3

LEMMA CalledKnows ==
  IInv => CalledAlive
<1> SUFFICES ASSUME IInv, NEW f \in Frames, f.what \in {"emit", "fast"}, f.h # None,
                    f.pc \in {"call", "stop"}
             PROVE  closure_refs[f.h] > 0 /\ ~ is_invalid[f.h]
  BY DEF CalledAlive
<1>1. PICK p \in Places : f = Frame(p)
  BY DEF Frames
<1>2. f \in AnyFrame
  <2>1. PICK u \in Thread : \E i \in 1 .. Len(stack[u]) : p = <<u, i>>
    BY <1>1, PlaceDef
  <2>2. PICK i \in 1 .. Len(stack[u]) : p = <<u, i>>
    BY <2>1
  <2>3. QED
    BY <1>1, <2>2, FrameIs, Facts
<1>3. f.h \in Handler /\ (f.what = "fast" => f.pc = "call")
  BY <1>2 DEF AnyFrame, Emissions, Fasts, Drops
<1>4. /\ closure_refs[f.h] = One(f.h \in Alive) + Cardinality(Invoking(f.h))
                               + Cardinality(Dropping(f.h))
      /\ is_invalid[f.h] => f.h \notin Alive /\ Invoking(f.h) = {}
  BY <1>3, Facts DEF ClosureOK
<1>5. /\ IsFiniteSet(Invoking(f.h))
      /\ Cardinality(Invoking(f.h)) \in Nat /\ Cardinality(Dropping(f.h)) \in Nat
  BY Facts, Finite
<1>6. CASE f.what = "emit"
  <2>1. f.h \in Alive
    BY <1>6, EmissionKnows
  <2>2. One(f.h \in Alive) = 1
    BY <2>1 DEF One
  <2>3. QED
    BY <1>4, <1>5, <2>1, <2>2
<1>7. CASE f.what = "fast"
  <2>1. p \in Invoking(f.h)
    BY <1>1, <1>3, <1>7 DEF Invoking
  <2>2. Cardinality(Invoking(f.h)) # 0
    BY <1>5, <2>1, FS_EmptySet
  <2>3. One(f.h \in Alive) \in Nat
    BY DEF One
  <2>4. QED
    BY <1>4, <1>5, <2>1, <2>2, <2>3
<1>8. QED
  BY <1>6, <1>7

\* x_signal_connect, disconnect and handler_unref_R, and the emissions: a
\* handler's count is that of its references, and it is allocated while there is
\* one.
THEOREM CountsAreExact ==
  Spec => []RefsExact
<1>1. IInv => RefsExact
  BY DEF IInv
<1>2. QED
  BY <1>1, Invariant, PTL

\* handler_insert_L and handler_unref_R: the list holds the handlers that are
\* referenced, in order and linked both ways, and its tails are where the next
\* ones belong.
THEOREM ListIsExact ==
  Spec => []ListExact
<1>1. IInv => ListExact
  <2>1. SUFFICES ASSUME IInv
                 PROVE  ListExact
    OBVIOUS
  <2>2. Listed = Alive
    BY <2>1, ListedAlive, AliveListed
  <2>3. QED
    BY <2>1, <2>2 DEF ListExact, IInv
<1>2. QED
  BY <1>1, Invariant, PTL

\* signal_emit_unlocked_R: a round that is neither stopped nor restarted has
\* called whoever was there to be called from its beginning to its end, each
\* once and in order, whatever the handlers connect, disconnect and block.
THEOREM RoundsAreComplete ==
  Spec => []RoundIsComplete
BY RoundKnows, Invariant, PTL

\* x_closure_ref and unref: no thread is in the code of a handler whose closure
\* is invalid or freed.
THEOREM TheCalledAreAlive ==
  Spec => []CalledAlive
BY CalledKnows, Invariant, PTL

\* emission_find_L and the restarts: an emission of a signal that does not recurse
\* has begun anew since it was asked to, at whatever moment it was but for two:
\* between the unlocked look at its state and the write that stops it, and after
\* its last look.
THEOREM TheAskedIsGiven ==
  Spec => AskedIsGiven
<1>1. IInv /\ [Next]_vars => [\A t \in Thread : Pop(t) => Top(t).asked \subseteq {"stop", "pop"}]_vars
  <2>1. SUFFICES ASSUME IInv, NEW t \in Thread, Pop(t)
                 PROVE  Top(t).asked \subseteq {"stop", "pop"}
    OBVIOUS
  <2>2. stack[t] # << >> /\ Top(t).what = "emit" /\ Top(t).pc = "pop"
    BY <2>1 DEF Pop, In, At
  <2>3. Top(t) \in Emissions /\ EmitOK(Top(t))
    BY <2>1, <2>2, EmitTop
  <2>4. PlaceOK(Top(t))
    BY <2>3 DEF EmitOK
  <2>5. "open" \notin Top(t).asked
    BY <2>2, <2>4 DEF PlaceOK
  <2>6. QED
    BY <2>3, <2>5 DEF Emissions, Windows
<1>2. QED
  BY <1>1, Invariant, PTL DEF Spec, AskedIsGiven

=============================================================================
