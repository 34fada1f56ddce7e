--------------------------- MODULE FrameworkProof ---------------------------
(***************************************************************************)
(* Proofs about the framework above the base library.                      *)
(*                                                                         *)
(* Resource (xfw): ClaimedInOrder and GroupIsWhole are invariants, for any *)
(* threads, any finite set of resources and whatever their methods call.   *)
(*                                                                         *)
(* SceneGraph (gfw): for any nodes and whatever they may be attached to,   *)
(* children are in the arrays of their parents, frames leave what is heard *)
(* right, and only a node that moves while it waits, or that is taken      *)
(* back, goes unheard.                                                     *)
(***************************************************************************)
EXTENDS Resource, SceneGraph, SequenceTheorems, FiniteSetTheorems, TLAPS

(***************************************************************************)
(* Resource                                                                *)
(***************************************************************************)

Frame == [op : Op \cup {"parse"}, x : Object, at : Place, from : Steady,
          stages : Seq(Op), list : Seq(Resource), todo : Seq(Resource)]

Claimed(f) == f.at \notin {"read", "cas"}

\* What the class method op of a resource finds.
Needs(op) ==
  CASE op = "prepare" -> {"none"}
    [] op = "load"    -> {"prepared"}
    [] OTHER          -> {"prepared", "loaded"}

\* What a call knows without looking at the state of its object.
CallOK(f) ==
  /\ f.op = "parse" =>
       f.x \in Group /\ f.at \in {"cas", "parse", "set"} /\ f.from = "unloaded"
  /\ f.at \in {"parse", "list"} => f.x \in Group
  /\ f.at = "cas" => f.from \in From(f.op, f.x)
  /\ f.at \in {"parse", "list", "methods"} /\ f.op # "parse" =>
       f.stages = <<f.op>> \/ (f.op = "load" /\ f.stages = <<"prepare", "load">>)

\* A call that has claimed its object finds it in the state it has set, and a
\* resource made into what its method needs.
ClaimOK(f) ==
  Claimed(f) =>
    /\ state[f.x] = During[f.op]
    /\ f.x \in Resource /\ f.at = "methods" => data[f.x] \in Needs(Head(f.stages))
    /\ f.x \in Resource /\ f.at = "set" => data[f.x] = Made[f.op]

FramesOK ==
  \A t \in Thread : \A i \in 1 .. Len(stack[t]) :
    CallOK(stack[t][i]) /\ ClaimOK(stack[t][i])

\* No two calls have claimed one object.
Unique ==
  \A t, u \in Thread : \A i \in 1 .. Len(stack[t]) : \A j \in 1 .. Len(stack[u]) :
    /\ Claimed(stack[t][i]) /\ Claimed(stack[u][j]) /\ stack[t][i].x = stack[u][j].x
    => t = u /\ i = j

\* An object in a transient state is claimed by some call.
Owned ==
  \A x \in Object : state[x] \in Transient =>
    \E t \in Thread : \E i \in 1 .. Len(stack[t]) :
      Claimed(stack[t][i]) /\ stack[t][i].x = x

\* The state of a resource that nobody has claimed says what it is made into.
StateSays ==
  \A r \in Resource :
    /\ state[r] = "unloaded" => data[r] = "none"
    /\ state[r] \in {"prepared", "loaded"} => data[r] = state[r]

IInv == TypeOK /\ FramesOK /\ Unique /\ Owned /\ StateSays

-----------------------------------------------------------------------------
(* Stacks *)

LEMMA FrameType ==
  TypeOK => stack \in [Thread -> Seq(Frame)]
BY DEF TypeOK, Frame

\* What is known of the innermost call.
LEMMA TopFrame ==
  ASSUME IInv, NEW t \in Thread, stack[t] # << >>
  PROVE  /\ stack[t] \in Seq(Frame) /\ Len(stack[t]) \in Nat /\ Len(stack[t]) >= 1
         /\ Len(stack[t]) \in 1 .. Len(stack[t])
         /\ Top(t) \in Frame /\ CallOK(Top(t)) /\ ClaimOK(Top(t))
<1>1. stack[t] \in Seq(Frame)
  BY FrameType DEF IInv
<1>2. Len(stack[t]) \in Nat /\ Len(stack[t]) >= 1
  BY <1>1, EmptySeq
<1>3. Len(stack[t]) \in 1 .. Len(stack[t])
  BY <1>2
<1>4. Top(t) \in Frame
  BY <1>1, <1>3, ElementOfSeq DEF Top
<1>5. CallOK(Top(t)) /\ ClaimOK(Top(t))
  BY <1>3 DEF IInv, FramesOK, Top
<1>6. QED
  BY <1>1, <1>2, <1>3, <1>4, <1>5

\* The innermost call of t goes on as f.
LEMMA Continued ==
  ASSUME IInv, NEW t \in Thread, stack[t] # << >>, NEW f \in Frame, Continue(t, f)
  PROVE  /\ stack' \in [Thread -> Seq(Frame)]
         /\ \A u \in Thread \ {t} : stack'[u] = stack[u]
         /\ Len(stack'[t]) = Len(stack[t])
         /\ \A i \in 1 .. Len(stack[t]) :
              stack'[t][i] = IF i = Len(stack[t]) THEN f ELSE stack[t][i]
<1> DEFINE n == Len(stack[t])
           s == [stack[t] EXCEPT ![n] = f]
<1>1. stack \in [Thread -> Seq(Frame)]
  BY FrameType DEF IInv
<1>2. stack[t] \in Seq(Frame) /\ n \in 1 .. n
  BY TopFrame
<1>3. /\ s \in Seq(Frame) /\ Len(s) = n
      /\ \A i \in 1 .. n : s[i] = IF i = n THEN f ELSE stack[t][i]
  BY <1>2, ExceptSeq
<1>4. stack' = [stack EXCEPT ![t] = s]
  BY DEF Continue
<1> HIDE DEF s, n
<1>5. stack'[t] = s /\ \A u \in Thread \ {t} : stack'[u] = stack[u]
  BY <1>1, <1>4
<1>6. stack' \in [Thread -> Seq(Frame)]
  BY <1>1, <1>3, <1>4
<1>7. QED
  BY <1>3, <1>5, <1>6 DEF n

\* The innermost call of t returns.
LEMMA Popped ==
  ASSUME IInv, NEW t \in Thread, stack[t] # << >>, Return(t)
  PROVE  /\ stack' \in [Thread -> Seq(Frame)]
         /\ \A u \in Thread \ {t} : stack'[u] = stack[u]
         /\ Len(stack'[t]) = Len(stack[t]) - 1
         /\ \A i \in 1 .. Len(stack[t]) - 1 : stack'[t][i] = stack[t][i]
<1> DEFINE n == Len(stack[t])
           s == SubSeq(stack[t], 1, n - 1)
<1>1. stack \in [Thread -> Seq(Frame)]
  BY FrameType DEF IInv
<1>2. stack[t] \in Seq(Frame) /\ n \in Nat /\ n >= 1
  BY TopFrame
<1>3. \A i \in 1 .. n - 1 : stack[t][i] \in Frame
  BY <1>2, ElementOfSeq
<1>4. /\ s \in Seq(Frame) /\ Len(s) = n - 1
      /\ \A i \in 1 .. n - 1 : s[i] = stack[t][i]
  BY <1>2, <1>3, SubSeqProperties
<1>5. stack' = [stack EXCEPT ![t] = s]
  BY DEF Return
<1> HIDE DEF s, n
<1>6. stack'[t] = s /\ \A u \in Thread \ {t} : stack'[u] = stack[u]
  BY <1>1, <1>5
<1>7. stack' \in [Thread -> Seq(Frame)]
  BY <1>1, <1>4, <1>5
<1>8. QED
  BY <1>4, <1>6, <1>7 DEF n

\* A call of t to another object becomes the innermost, above f.
LEMMA Pushed ==
  ASSUME IInv, NEW t \in Thread, stack[t] # << >>, NEW f \in Frame, NEW g \in Frame,
         stack' = [stack EXCEPT ![t] =
                     Append([@ EXCEPT ![Len(stack[t])] = f], g)]
  PROVE  /\ stack' \in [Thread -> Seq(Frame)]
         /\ \A u \in Thread \ {t} : stack'[u] = stack[u]
         /\ Len(stack'[t]) = Len(stack[t]) + 1
         /\ \A i \in 1 .. Len(stack[t]) + 1 :
              stack'[t][i] = IF i = Len(stack[t]) + 1 THEN g
                             ELSE IF i = Len(stack[t]) THEN f ELSE stack[t][i]
<1> DEFINE n == Len(stack[t])
           s == [stack[t] EXCEPT ![n] = f]
           p == Append(s, g)
<1>1. stack \in [Thread -> Seq(Frame)]
  BY FrameType DEF IInv
<1>2. stack[t] \in Seq(Frame) /\ n \in 1 .. n /\ n \in Nat
  BY TopFrame
<1>3. /\ s \in Seq(Frame) /\ Len(s) = n
      /\ \A i \in 1 .. n : s[i] = IF i = n THEN f ELSE stack[t][i]
  BY <1>2, ExceptSeq
<1>4. stack' = [stack EXCEPT ![t] = p]
  BY <1>1
<1> HIDE DEF s, n
<1>5. /\ p \in Seq(Frame) /\ Len(p) = n + 1
      /\ \A i \in 1 .. n : p[i] = s[i]
      /\ p[n + 1] = g
  BY <1>3, AppendProperties
<1>6. \A i \in 1 .. n + 1 : p[i] = IF i = n + 1 THEN g
                                   ELSE IF i = n THEN f ELSE stack[t][i]
  <2>1. \A i \in 1 .. n + 1 : i = n + 1 \/ i \in 1 .. n
    BY <1>2
  <2>2. n \in 1 .. n /\ n # n + 1 /\ \A i \in 1 .. n : i # n + 1
    BY <1>2
  <2>3. QED
    BY <1>3, <1>5, <2>1, <2>2
<1> HIDE DEF p
<1>7. stack'[t] = p /\ \A u \in Thread \ {t} : stack'[u] = stack[u]
  BY <1>1, <1>4
<1>8. stack' \in [Thread -> Seq(Frame)]
  BY <1>1, <1>4, <1>5
<1>9. QED
  BY <1>5, <1>6, <1>7, <1>8 DEF n

-----------------------------------------------------------------------------
(* Shapes of steps *)

LEMMA OneCall ==
  ASSUME Unique, NEW t \in Thread, NEW u \in Thread,
         NEW i \in 1 .. Len(stack[t]), NEW j \in 1 .. Len(stack[u]),
         Claimed(stack[t][i]), Claimed(stack[u][j]), stack[t][i].x = stack[u][j].x
  PROVE  t = u /\ i = j
BY DEF Unique

\* Whoever else has claimed an object has another one than t has, or is about
\* to claim.
LEMMA OtherObject ==
  ASSUME IInv, NEW t \in Thread, stack[t] # << >>,
         Claimed(Top(t)) \/ state[Top(t).x] \in Steady,
         NEW u \in Thread, NEW i \in 1 .. Len(stack[u]),
         ~ (u = t /\ i = Len(stack[t])), Claimed(stack[u][i])
  PROVE  stack[u][i].x \in Object \ {Top(t).x}
<1>1. stack[u][i] \in Frame /\ Top(t) \in Frame /\ Len(stack[t]) \in 1 .. Len(stack[t])
  BY FrameType, TopFrame, ElementOfSeq DEF IInv
<1>2. state[stack[u][i].x] = During[stack[u][i].op]
  BY DEF IInv, FramesOK, ClaimOK
<1>3. During[stack[u][i].op] \notin Steady
  BY <1>1 DEF Frame, During, Steady, Op
<1>4. CASE Claimed(Top(t))
  BY <1>1, <1>4 DEF IInv, Unique, Top, Frame
<1>5. CASE state[Top(t).x] \in Steady
  BY <1>1, <1>2, <1>3, <1>5 DEF Frame
<1>6. QED
  BY <1>4, <1>5

\* A call that is not affected stays as it was.
LEMMA FrameStays ==
  ASSUME NEW f \in Frame, CallOK(f), ClaimOK(f), NEW x,
         Claimed(f) => f.x \in Object \ {x},
         \A y \in Object \ {x} : state'[y] = state[y],
         \A r \in Resource \ {x} : data'[r] = data[r]
  PROVE  /\ CallOK(f)
         /\ Claimed(f) =>
              /\ state'[f.x] = During[f.op]
              /\ f.x \in Resource /\ f.at = "methods" => data'[f.x] \in Needs(Head(f.stages))
              /\ f.x \in Resource /\ f.at = "set" => data'[f.x] = Made[f.op]
BY DEF ClaimOK

\* The innermost call goes on with its object claimed.
LEMMA ClaimedMoves ==
  ASSUME IInv, NEW t \in Thread, stack[t] # << >>, NEW f \in Frame, Continue(t, f),
         f.x = Top(t).x, Claimed(f), CallOK(f),
         state'[f.x] = During[f.op],
         f.x \in Resource /\ f.at = "methods" => data'[f.x] \in Needs(Head(f.stages)),
         f.x \in Resource /\ f.at = "set" => data'[f.x] = Made[f.op],
         Claimed(Top(t)) \/ state[f.x] \in Steady,
         \A y \in Object \ {f.x} : state'[y] = state[y],
         \A r \in Resource \ {f.x} : data'[r] = data[r]
  PROVE  /\ stack' \in [Thread -> Seq(Frame)]
         /\ FramesOK' /\ Unique' /\ Owned' /\ StateSays'
<1> DEFINE n == Len(stack[t])
<1>1. /\ stack' \in [Thread -> Seq(Frame)]
      /\ \A u \in Thread \ {t} : stack'[u] = stack[u]
      /\ Len(stack'[t]) = n
      /\ \A i \in 1 .. n : stack'[t][i] = IF i = n THEN f ELSE stack[t][i]
  BY Continued
<1>2. n \in 1 .. n
  BY TopFrame
<1>3. stack'[t][n] = f
  BY <1>1, <1>2
<1>4. \A u \in Thread : /\ Len(stack'[u]) = Len(stack[u])
                        /\ \A i \in 1 .. Len(stack[u]) :
                             (~ (u = t /\ i = n)) => stack'[u][i] = stack[u][i]
  BY <1>1
<1>5. ASSUME NEW u \in Thread, NEW i \in 1 .. Len(stack[u]), ~ (u = t /\ i = n)
      PROVE  /\ stack[u][i] \in Frame
             /\ CallOK(stack[u][i]) /\ ClaimOK(stack[u][i])
             /\ Claimed(stack[u][i]) => stack[u][i].x \in Object \ {f.x}
  <2>1. stack[u] \in Seq(Frame)
    BY FrameType DEF IInv
  <2>2. stack[u][i] \in Frame
    BY <2>1, ElementOfSeq
  <2>3. Claimed(stack[u][i]) => stack[u][i].x \in Object \ {f.x}
    BY <1>5, OtherObject
  <2>4. QED
    BY <2>2, <2>3 DEF IInv, FramesOK
<1> HIDE DEF n
<1>6. FramesOK'
  <2> SUFFICES ASSUME NEW u \in Thread, NEW i \in 1 .. Len(stack[u])
               PROVE  CallOK(stack'[u][i]) /\ ClaimOK(stack[u][i])'
    BY <1>4 DEF FramesOK, CallOK
  <2>1. CASE u = t /\ i = n
    BY <1>3, <2>1 DEF ClaimOK
  <2>2. CASE ~ (u = t /\ i = n)
    <3>1. stack'[u][i] = stack[u][i]
      BY <1>4, <2>2
    <3>2. QED
      BY <1>5, <2>2, <3>1, FrameStays DEF ClaimOK
  <2>3. QED
    BY <2>1, <2>2
<1>7. Unique'
  <2> SUFFICES ASSUME NEW u \in Thread, NEW i \in 1 .. Len(stack[u]),
                      NEW w \in Thread, NEW j \in 1 .. Len(stack[w]),
                      Claimed(stack'[u][i]), Claimed(stack'[w][j]),
                      stack'[u][i].x = stack'[w][j].x
               PROVE  u = w /\ i = j
    BY <1>4 DEF Unique, Claimed
  <2>1. CASE ~ (u = t /\ i = n) /\ ~ (w = t /\ j = n)
    <3>1. stack'[u][i] = stack[u][i] /\ stack'[w][j] = stack[w][j]
      BY <1>4, <2>1
    <3>2. Claimed(stack[u][i]) /\ Claimed(stack[w][j]) /\ stack[u][i].x = stack[w][j].x
      BY <3>1
    <3>3. QED
      BY <3>2 DEF IInv, Unique
  <2>2. CASE u = t /\ i = n /\ ~ (w = t /\ j = n)
    BY <1>3, <1>4, <1>5, <2>2
  <2>3. CASE ~ (u = t /\ i = n) /\ w = t /\ j = n
    BY <1>3, <1>4, <1>5, <2>3
  <2>4. QED
    BY <2>1, <2>2, <2>3
<1>8. Owned'
  <2> SUFFICES ASSUME NEW x \in Object, state'[x] \in Transient
               PROVE  \E u \in Thread : \E i \in 1 .. Len(stack'[u]) :
                        Claimed(stack'[u][i]) /\ stack'[u][i].x = x
    BY DEF Owned, Claimed, Transient
  <2>1. CASE x = f.x
    BY <1>1, <1>2, <1>3, <2>1
  <2>2. CASE x # f.x
    <3>1. state[x] \in Transient
      BY <2>2
    <3>2. PICK u \in Thread : \E i \in 1 .. Len(stack[u]) :
            Claimed(stack[u][i]) /\ stack[u][i].x = x
      BY <3>1 DEF IInv, Owned
    <3>3. PICK i \in 1 .. Len(stack[u]) : Claimed(stack[u][i]) /\ stack[u][i].x = x
      BY <3>2
    <3>4. ~ (u = t /\ i = n)
      BY <2>2, <3>3 DEF n, Top
    <3>5. QED
      BY <1>4, <3>3, <3>4
  <2>3. QED
    BY <2>1, <2>2
<1>9. StateSays'
  <2>1. During[f.op] \notin Steady
    BY DEF Frame, During, Steady, Op
  <2>2. \A r \in Resource : r \in Object
    BY DEF Object
  <2>3. QED
    BY <2>1, <2>2 DEF IInv, StateSays, Steady
<1>10. QED
  BY <1>1, <1>6, <1>7, <1>8, <1>9

\* No object is claimed or given up: of the calls of t the first n have claimed
\* what they had, and the others, before and after, have claimed nothing.
LEMMA ClaimsStay ==
  ASSUME IInv, NEW t \in Thread, NEW n \in Nat,
         state' = state, data' = data, stack' \in [Thread -> Seq(Frame)],
         \A u \in Thread \ {t} : stack'[u] = stack[u],
         n <= Len(stack[t]), n <= Len(stack'[t]),
         \A i \in 1 .. n :
           /\ Claimed(stack'[t][i]) = Claimed(stack[t][i])
           /\ stack'[t][i].x = stack[t][i].x /\ CallOK(stack'[t][i])
           /\ ClaimOK(stack[t][i])',
         \A i \in n + 1 .. Len(stack'[t]) : ~ Claimed(stack'[t][i]) /\ CallOK(stack'[t][i]),
         \A i \in n + 1 .. Len(stack[t]) : ~ Claimed(stack[t][i])
  PROVE  FramesOK' /\ Unique' /\ Owned' /\ StateSays'
<1>1. \A u \in Thread : Len(stack[u]) \in Nat /\ Len(stack'[u]) \in Nat
  BY FrameType DEF IInv
<1>2. ASSUME NEW u \in Thread, NEW i \in 1 .. Len(stack'[u]), Claimed(stack'[u][i])
      PROVE  /\ i \in 1 .. Len(stack[u]) /\ Claimed(stack[u][i])
             /\ stack'[u][i].x = stack[u][i].x
  <2>1. CASE u # t
    BY <1>2, <2>1
  <2>2. CASE u = t
    <3>1. i \in 1 .. n \/ i \in n + 1 .. Len(stack'[t])
      BY <1>1, <2>2
    <3>2. i \in 1 .. n
      BY <1>2, <2>2, <3>1
    <3>3. i \in 1 .. Len(stack[t])
      BY <1>1, <3>2
    <3>4. QED
      BY <1>2, <2>2, <3>2, <3>3
  <2>3. QED
    BY <2>1, <2>2
<1>3. ASSUME NEW u \in Thread, NEW i \in 1 .. Len(stack[u]), Claimed(stack[u][i])
      PROVE  /\ i \in 1 .. Len(stack'[u]) /\ Claimed(stack'[u][i])
             /\ stack'[u][i].x = stack[u][i].x
  <2>1. CASE u # t
    BY <1>3, <2>1
  <2>2. CASE u = t
    <3>1. i \in 1 .. n \/ i \in n + 1 .. Len(stack[t])
      BY <1>1, <2>2
    <3>2. i \in 1 .. n
      BY <1>3, <2>2, <3>1
    <3>3. i \in 1 .. Len(stack'[t])
      BY <1>1, <3>2
    <3>4. QED
      BY <1>3, <2>2, <3>2, <3>3
  <2>3. QED
    BY <2>1, <2>2
<1>4. FramesOK'
  <2> SUFFICES ASSUME NEW u \in Thread, NEW i \in 1 .. Len(stack'[u])
               PROVE  CallOK(stack'[u][i]) /\ ClaimOK(stack[u][i])'
    BY DEF FramesOK, CallOK
  <2>1. CASE u # t
    <3>1. stack'[u] = stack[u]
      BY <2>1
    <3>2. CallOK(stack[u][i]) /\ ClaimOK(stack[u][i])
      BY <3>1 DEF IInv, FramesOK
    <3>3. QED
      BY <3>1, <3>2 DEF ClaimOK
  <2>2. CASE u = t
    <3>1. i \in 1 .. n \/ i \in n + 1 .. Len(stack'[t])
      BY <1>1, <2>2
    <3>2. CASE i \in 1 .. n
      BY <2>2, <3>2
    <3>3. CASE i \in n + 1 .. Len(stack'[t])
      BY <2>2, <3>3 DEF ClaimOK, Claimed
    <3>4. QED
      BY <3>1, <3>2, <3>3
  <2>3. QED
    BY <2>1, <2>2
<1>5. Unique'
  <2> SUFFICES ASSUME NEW u \in Thread, NEW i \in 1 .. Len(stack'[u]),
                      NEW w \in Thread, NEW j \in 1 .. Len(stack'[w]),
                      Claimed(stack'[u][i]), Claimed(stack'[w][j]),
                      stack'[u][i].x = stack'[w][j].x
               PROVE  u = w /\ i = j
    BY DEF Unique, Claimed
  <2>1. /\ i \in 1 .. Len(stack[u]) /\ Claimed(stack[u][i])
        /\ stack'[u][i].x = stack[u][i].x
    BY <1>2
  <2>2. /\ j \in 1 .. Len(stack[w]) /\ Claimed(stack[w][j])
        /\ stack'[w][j].x = stack[w][j].x
    BY <1>2
  <2>3. Unique /\ stack[u][i].x = stack[w][j].x
    BY <2>1, <2>2 DEF IInv
  <2>4. QED
    BY <2>1, <2>2, <2>3, OneCall
<1>6. Owned'
  <2> SUFFICES ASSUME NEW x \in Object, state[x] \in Transient
               PROVE  \E u \in Thread : \E i \in 1 .. Len(stack'[u]) :
                        Claimed(stack'[u][i]) /\ stack'[u][i].x = x
    BY DEF Owned, Claimed, Transient
  <2>1. PICK u \in Thread : \E i \in 1 .. Len(stack[u]) :
          Claimed(stack[u][i]) /\ stack[u][i].x = x
    BY DEF IInv, Owned
  <2>2. PICK i \in 1 .. Len(stack[u]) : Claimed(stack[u][i]) /\ stack[u][i].x = x
    BY <2>1
  <2>3. /\ i \in 1 .. Len(stack'[u]) /\ Claimed(stack'[u][i])
        /\ stack'[u][i].x = stack[u][i].x
    BY <1>3, <2>2
  <2>4. QED
    BY <2>2, <2>3
<1>7. StateSays'
  BY DEF IInv, StateSays
<1>8. QED
  BY <1>4, <1>5, <1>6, <1>7

\* The innermost call, which has claimed nothing, returns.
LEMMA IdleReturns ==
  ASSUME IInv, NEW t \in Thread, stack[t] # << >>, ~ Claimed(Top(t)), Return(t),
         state' = state, data' = data
  PROVE  /\ stack' \in [Thread -> Seq(Frame)]
         /\ FramesOK' /\ Unique' /\ Owned' /\ StateSays'
<1> DEFINE n == Len(stack[t]) - 1
<1>1. /\ stack' \in [Thread -> Seq(Frame)]
      /\ \A u \in Thread \ {t} : stack'[u] = stack[u]
      /\ Len(stack'[t]) = n
      /\ \A i \in 1 .. n : stack'[t][i] = stack[t][i]
  BY Popped
<1>2. n \in Nat /\ Len(stack[t]) = n + 1
  BY TopFrame
<1>3. \A i \in 1 .. n : i \in 1 .. Len(stack[t])
  BY <1>2
<1>4. \A i \in n + 1 .. Len(stack[t]) : ~ Claimed(stack[t][i])
  BY <1>2 DEF Top
<1> HIDE DEF n
<1>5. \A i \in n + 1 .. Len(stack'[t]) : FALSE
  BY <1>1, <1>2
<1>6. n <= Len(stack[t]) /\ n <= Len(stack'[t])
  BY <1>1, <1>2
<1>7. \A i \in 1 .. n :
        /\ Claimed(stack'[t][i]) = Claimed(stack[t][i])
        /\ stack'[t][i].x = stack[t][i].x /\ CallOK(stack'[t][i])
        /\ ClaimOK(stack[t][i])'
  <2> SUFFICES ASSUME NEW i \in 1 .. n
               PROVE  CallOK(stack[t][i]) /\ ClaimOK(stack[t][i])'
    BY <1>1
  <2>1. CallOK(stack[t][i]) /\ ClaimOK(stack[t][i])
    BY <1>3 DEF IInv, FramesOK
  <2>2. QED
    BY <1>1, <2>1 DEF ClaimOK
<1>8. FramesOK' /\ Unique' /\ Owned' /\ StateSays'
  BY <1>1, <1>2, <1>4, <1>5, <1>6, <1>7, ClaimsStay
<1>9. QED
  BY <1>1, <1>8

\* The innermost call, which has claimed nothing, goes on as f, which has not.
LEMMA IdleMoves ==
  ASSUME IInv, NEW t \in Thread, stack[t] # << >>, ~ Claimed(Top(t)),
         NEW f \in Frame, Continue(t, f), ~ Claimed(f), CallOK(f),
         state' = state, data' = data
  PROVE  /\ stack' \in [Thread -> Seq(Frame)]
         /\ FramesOK' /\ Unique' /\ Owned' /\ StateSays'
<1> DEFINE n == Len(stack[t]) - 1
<1>1. /\ stack' \in [Thread -> Seq(Frame)]
      /\ \A u \in Thread \ {t} : stack'[u] = stack[u]
      /\ Len(stack'[t]) = Len(stack[t])
      /\ \A i \in 1 .. Len(stack[t]) :
           stack'[t][i] = IF i = Len(stack[t]) THEN f ELSE stack[t][i]
  BY Continued
<1>2. n \in Nat /\ Len(stack[t]) = n + 1
  BY TopFrame
<1>3. \A i \in 1 .. n : i \in 1 .. Len(stack[t]) /\ i # Len(stack[t])
  BY <1>2
<1>4. \A i \in n + 1 .. Len(stack[t]) : ~ Claimed(stack[t][i])
  BY <1>2 DEF Top
<1>5. \A i \in n + 1 .. Len(stack'[t]) : ~ Claimed(stack'[t][i]) /\ CallOK(stack'[t][i])
  <2> SUFFICES ASSUME NEW i \in n + 1 .. Len(stack'[t]) PROVE stack'[t][i] = f
    OBVIOUS
  <2>1. i = Len(stack[t]) /\ i \in 1 .. Len(stack[t])
    BY <1>1, <1>2
  <2>2. QED
    BY <1>1, <2>1
<1> HIDE DEF n
<1>6. n <= Len(stack[t]) /\ n <= Len(stack'[t])
  BY <1>1, <1>2
<1>7. \A i \in 1 .. n :
        /\ Claimed(stack'[t][i]) = Claimed(stack[t][i])
        /\ stack'[t][i].x = stack[t][i].x /\ CallOK(stack'[t][i])
        /\ ClaimOK(stack[t][i])'
  <2> SUFFICES ASSUME NEW i \in 1 .. n
               PROVE  CallOK(stack[t][i]) /\ ClaimOK(stack[t][i])'
    BY <1>1, <1>3
  <2>1. CallOK(stack[t][i]) /\ ClaimOK(stack[t][i]) /\ stack'[t][i] = stack[t][i]
    BY <1>1, <1>3 DEF IInv, FramesOK
  <2>2. QED
    BY <2>1 DEF ClaimOK
<1>8. FramesOK' /\ Unique' /\ Owned' /\ StateSays'
  BY <1>1, <1>2, <1>4, <1>5, <1>6, <1>7, ClaimsStay
<1>9. QED
  BY <1>1, <1>8

\* The innermost call, which has claimed its object, has set its state for good
\* and returns.
LEMMA ClaimedReturns ==
  ASSUME IInv, NEW t \in Thread, stack[t] # << >>, Claimed(Top(t)), Return(t),
         state'[Top(t).x] \in Steady, data' = data,
         \A y \in Object \ {Top(t).x} : state'[y] = state[y],
         Top(t).x \in Resource => \/ /\ state'[Top(t).x] = "unloaded"
                                     /\ data[Top(t).x] = "none"
                                  \/ /\ state'[Top(t).x] \in {"prepared", "loaded"}
                                     /\ data[Top(t).x] = state'[Top(t).x]
  PROVE  /\ stack' \in [Thread -> Seq(Frame)]
         /\ FramesOK' /\ Unique' /\ Owned' /\ StateSays'
<1> DEFINE n == Len(stack[t])
           x == Top(t).x
<1>1. /\ stack' \in [Thread -> Seq(Frame)]
      /\ \A u \in Thread \ {t} : stack'[u] = stack[u]
      /\ Len(stack'[t]) = n - 1
      /\ \A i \in 1 .. n - 1 : stack'[t][i] = stack[t][i]
  BY Popped
<1>2. n \in Nat /\ n >= 1 /\ n \in 1 .. n
  BY TopFrame
<1>3. \A u \in Thread : \A i \in 1 .. Len(stack'[u]) :
        /\ i \in 1 .. Len(stack[u]) /\ ~ (u = t /\ i = n)
        /\ stack'[u][i] = stack[u][i]
  BY <1>1, <1>2
<1>4. ASSUME NEW u \in Thread, NEW i \in 1 .. Len(stack'[u])
      PROVE  /\ stack[u][i] \in Frame /\ CallOK(stack[u][i]) /\ ClaimOK(stack[u][i])
             /\ Claimed(stack[u][i]) => stack[u][i].x \in Object \ {x}
  <2>1. stack[u] \in Seq(Frame) /\ i \in 1 .. Len(stack[u]) /\ ~ (u = t /\ i = n)
    BY <1>3, FrameType DEF IInv
  <2>2. stack[u][i] \in Frame
    BY <2>1, ElementOfSeq
  <2>3. Claimed(stack[u][i]) => stack[u][i].x \in Object \ {x}
    BY <2>1, OtherObject
  <2>4. QED
    BY <2>1, <2>2, <2>3 DEF IInv, FramesOK
<1>5. x \in Object
  BY TopFrame DEF Frame
<1> HIDE DEF n, x
<1>6. FramesOK'
  <2> SUFFICES ASSUME NEW u \in Thread, NEW i \in 1 .. Len(stack'[u])
               PROVE  CallOK(stack'[u][i]) /\ ClaimOK(stack[u][i])'
    BY DEF FramesOK, CallOK
  <2>1. stack'[u][i] = stack[u][i]
    BY <1>3
  <2>2. \A y \in Object \ {x} : state'[y] = state[y]
    BY DEF x
  <2>3. QED
    BY <1>4, <2>1, <2>2, FrameStays DEF ClaimOK
<1>7. Unique'
  <2> SUFFICES ASSUME NEW u \in Thread, NEW i \in 1 .. Len(stack'[u]),
                      NEW w \in Thread, NEW j \in 1 .. Len(stack'[w]),
                      Claimed(stack'[u][i]), Claimed(stack'[w][j]),
                      stack'[u][i].x = stack'[w][j].x
               PROVE  u = w /\ i = j
    BY DEF Unique, Claimed
  <2>1. /\ i \in 1 .. Len(stack[u]) /\ stack'[u][i] = stack[u][i]
        /\ j \in 1 .. Len(stack[w]) /\ stack'[w][j] = stack[w][j]
    BY <1>3
  <2>2. /\ Unique /\ Claimed(stack[u][i]) /\ Claimed(stack[w][j])
        /\ stack[u][i].x = stack[w][j].x
    BY <2>1 DEF IInv
  <2>3. QED
    BY <2>1, <2>2, OneCall
<1>8. Owned'
  <2> SUFFICES ASSUME NEW y \in Object, state'[y] \in Transient
               PROVE  \E u \in Thread : \E i \in 1 .. Len(stack'[u]) :
                        Claimed(stack'[u][i]) /\ stack'[u][i].x = y
    BY DEF Owned, Claimed, Transient
  <2>1. y # x /\ state[y] \in Transient
    BY DEF x, Steady, Transient
  <2>2. PICK u \in Thread : \E i \in 1 .. Len(stack[u]) :
          Claimed(stack[u][i]) /\ stack[u][i].x = y
    BY <2>1 DEF IInv, Owned
  <2>3. PICK i \in 1 .. Len(stack[u]) : Claimed(stack[u][i]) /\ stack[u][i].x = y
    BY <2>2
  <2>4. ~ (u = t /\ i = n)
    BY <2>1, <2>3 DEF n, x, Top
  <2>5. i \in 1 .. Len(stack'[u]) /\ stack'[u][i] = stack[u][i]
    BY <1>1, <1>2, <2>4 DEF n
  <2>6. QED
    BY <2>3, <2>5
<1>9. StateSays'
  <2>1. \A r \in Resource : r \in Object
    BY DEF Object
  <2>2. QED
    BY <2>1 DEF IInv, StateSays, x
<1>10. QED
  BY <1>1, <1>6, <1>7, <1>8, <1>9

-----------------------------------------------------------------------------
(* Steps *)

LEMMA InitInv == Init => IInv
<1> SUFFICES ASSUME Init PROVE IInv
  OBVIOUS
<1>1. \A t \in Thread : stack[t] = << >> /\ 1 .. Len(stack[t]) = {}
  BY DEF Init
<1>2. \A x \in Object : state[x] = "unloaded"
  BY DEF Init
<1>3. TypeOK
  <2>1. << >> \in Seq(Frame)
    OBVIOUS
  <2>2. QED
    BY <2>1 DEF Init, TypeOK, Frame, Steady
<1>4. FramesOK /\ Unique
  BY <1>1 DEF FramesOK, Unique
<1>5. Owned /\ StateSays
  BY <1>2 DEF Owned, Transient, StateSays, Init, Object
<1>6. QED
  BY <1>3, <1>4, <1>5 DEF IInv

\* A call that begins has claimed nothing.
LEMMA CallIs ==
  ASSUME NEW op \in Op \cup {"parse"}, NEW x \in Object,
         op = "parse" => x \in Group
  PROVE  Call(op, x) \in Frame /\ ~ Claimed(Call(op, x)) /\ CallOK(Call(op, x))
<1> DEFINE f == Call(op, x)
<1>1. /\ f.op = op /\ f.x = x /\ f.from = "unloaded" /\ f.stages = << >>
      /\ f.at = IF op = "parse" \/ (op = "prepare" /\ x \in Resource) THEN "cas" ELSE "read"
      /\ f.list = << >> /\ f.todo = << >>
  BY DEF Call
<1>2. f \in Frame
  <2>1. << >> \in Seq(Op) /\ << >> \in Seq(Resource)
    OBVIOUS
  <2>2. QED
    BY <2>1 DEF Call, Frame, Place, Steady
<1> HIDE DEF f
<1>3. ~ Claimed(f)
  BY <1>1 DEF Claimed
<1>4. CallOK(f)
  <2>1. x \in Resource => x \notin Group
    BY ResourceAssumption
  <2>2. f.at = "cas" => "unloaded" \in From(op, x)
    BY <1>1, <2>1 DEF From
  <2>3. QED
    BY <1>1, <2>2 DEF CallOK
<1>5. QED
  BY <1>2, <1>3, <1>4 DEF f

LEMMA BeginInv ==
  ASSUME IInv, NEW t \in Thread, Begin(t)
  PROVE  IInv'
<1>1. PICK f \in Frame : /\ stack' = [stack EXCEPT ![t] = <<f>>]
                         /\ ~ Claimed(f) /\ CallOK(f)
  <2>1. CASE \E r \in Direct, op \in Op : stack' = [stack EXCEPT ![t] = <<Call(op, r)>>]
    <3>1. PICK r \in Direct, op \in Op : stack' = [stack EXCEPT ![t] = <<Call(op, r)>>]
      BY <2>1
    <3>2. r \in Object /\ op # "parse"
      BY ResourceAssumption DEF Object, Op
    <3>3. QED
      BY <3>1, <3>2, CallIs
  <2>2. CASE \E g \in Group, op \in Op \cup {"parse"} :
               stack' = [stack EXCEPT ![t] = <<Call(op, g)>>]
    <3>1. PICK g \in Group, op \in Op \cup {"parse"} :
            stack' = [stack EXCEPT ![t] = <<Call(op, g)>>]
      BY <2>2
    <3>2. g \in Object
      BY DEF Object
    <3>3. QED
      BY <3>1, <3>2, CallIs
  <2>3. QED
    BY <2>1, <2>2 DEF Begin
<1>2. stack \in [Thread -> Seq(Frame)] /\ stack[t] = << >>
  BY FrameType DEF IInv, Begin
<1>3. <<f>> \in Seq(Frame) /\ Len(<<f>>) = 1 /\ <<f>>[1] = f
  OBVIOUS
<1>4. /\ stack'[t] = <<f>> /\ \A u \in Thread \ {t} : stack'[u] = stack[u]
      /\ stack' \in [Thread -> Seq(Frame)]
  BY <1>1, <1>2, <1>3
<1>5. state' = state /\ data' = data
  BY DEF Begin
<1>6. Len(stack[t]) = 0
  BY <1>2
<1>7. FramesOK' /\ Unique' /\ Owned' /\ StateSays'
  <2>1. /\ \A i \in 0 + 1 .. Len(stack'[t]) : ~ Claimed(stack'[t][i]) /\ CallOK(stack'[t][i])
        /\ \A i \in 0 + 1 .. Len(stack[t]) : FALSE
        /\ \A i \in 1 .. 0 : FALSE
        /\ 0 \in Nat /\ 0 <= Len(stack[t]) /\ 0 <= Len(stack'[t])
    BY <1>1, <1>3, <1>4, <1>6
  <2>2. QED
    BY <1>4, <1>5, <2>1, ClaimsStay
<1>8. TypeOK'
  BY <1>4 DEF Begin, IInv, TypeOK, Frame
<1>9. QED
  BY <1>7, <1>8 DEF IInv

LEMMA ReadInv ==
  ASSUME IInv, NEW t \in Thread, Read(t)
  PROVE  IInv'
<1> DEFINE f == Top(t)
           g == [f EXCEPT !.at = "cas", !.from = state[f.x]]
<1>1. /\ stack[t] # << >> /\ f.at = "read" /\ f \in Frame /\ CallOK(f)
      /\ UNCHANGED <<state, group, resources, data, taken>>
  BY TopFrame DEF Read
<1>2. ~ Claimed(f)
  BY <1>1 DEF Claimed
<1>3. /\ stack' \in [Thread -> Seq(Frame)]
      /\ FramesOK' /\ Unique' /\ Owned' /\ StateSays'
  <2>1. CASE state[f.x] \in From(f.op, f.x) /\ Continue(t, g)
    <3>1. state[f.x] \in Steady /\ f.op # "parse"
      <4>1. f.op # "parse"
        BY <1>1 DEF CallOK
      <4>2. From(f.op, f.x) \subseteq Steady
        BY <1>1, <4>1 DEF From, Frame, Steady, Op
      <4>3. QED
        BY <2>1, <4>1, <4>2
    <3>2. g \in Frame
      BY <1>1, <3>1 DEF Frame, Place
    <3>3. ~ Claimed(g) /\ CallOK(g)
      <4>1. g.op = f.op /\ g.x = f.x /\ g.at = "cas" /\ g.from = state[f.x]
        BY <1>1 DEF Frame
      <4> HIDE DEF g, f
      <4>2. QED
        BY <2>1, <3>1, <4>1 DEF Claimed, CallOK
    <3> HIDE DEF f, g
    <3>4. ~ Claimed(Top(t))
      BY <1>2 DEF f
    <3>5. QED
      BY <1>1, <2>1, <3>2, <3>3, <3>4, IdleMoves
  <2>2. CASE Return(t)
    BY <1>1, <1>2, <2>2, IdleReturns
  <2>3. QED
    BY <2>1, <2>2 DEF Read
<1>4. TypeOK'
  BY <1>1, <1>3 DEF IInv, TypeOK, Frame
<1>5. QED
  BY <1>3, <1>4 DEF IInv

LEMMA FinishInv ==
  ASSUME IInv, NEW t \in Thread, Finish(t)
  PROVE  IInv'
<1> DEFINE f == Top(t)
<1>1. /\ stack[t] # << >> /\ f.at = "set" /\ f \in Frame /\ CallOK(f) /\ ClaimOK(f)
      /\ state' = [state EXCEPT ![f.x] = After[f.op]] /\ Return(t)
      /\ UNCHANGED <<group, resources, data, taken>>
  BY TopFrame DEF Finish
<1>2. Claimed(f)
  BY <1>1 DEF Claimed
<1>3. state \in [Object -> Steady \cup Transient] /\ f.x \in Object
  BY <1>1 DEF IInv, TypeOK, Frame
<1>4. /\ state'[f.x] = After[f.op] /\ After[f.op] \in Steady
      /\ \A y \in Object \ {f.x} : state'[y] = state[y]
  BY <1>1, <1>3 DEF Frame, After, Steady, Op
<1>5. f.x \in Resource =>
        \/ After[f.op] = "unloaded" /\ data[f.x] = "none"
        \/ After[f.op] \in {"prepared", "loaded"} /\ data[f.x] = After[f.op]
  <2> SUFFICES ASSUME f.x \in Resource
               PROVE  \/ After[f.op] = "unloaded" /\ data[f.x] = "none"
                      \/ After[f.op] \in {"prepared", "loaded"} /\ data[f.x] = After[f.op]
    OBVIOUS
  <2>1. f.op \in Op
    BY <1>1, ResourceAssumption DEF Frame, CallOK
  <2>2. data[f.x] = Made[f.op]
    BY <1>1, <1>2 DEF ClaimOK
  <2>3. QED
    BY <2>1, <2>2 DEF Op, Made, After
<1>6. /\ stack' \in [Thread -> Seq(Frame)]
      /\ FramesOK' /\ Unique' /\ Owned' /\ StateSays'
  <2>1. /\ state'[f.x] \in Steady /\ data' = data
        /\ f.x \in Resource => \/ state'[f.x] = "unloaded" /\ data[f.x] = "none"
                               \/ /\ state'[f.x] \in {"prepared", "loaded"}
                                  /\ data[f.x] = state'[f.x]
    BY <1>1, <1>4, <1>5
  <2>2. stack[t] # << >> /\ Return(t)
    BY <1>1
  <2>3. QED
    BY <1>2, <1>4, <2>1, <2>2, ClaimedReturns
<1>7. TypeOK'
  BY <1>1, <1>3, <1>4, <1>6 DEF IInv, TypeOK, Frame
<1>8. QED
  BY <1>6, <1>7 DEF IInv

LEMMA CallNextInv ==
  ASSUME IInv, NEW t \in Thread, CallNext(t)
  PROVE  IInv'
<1> DEFINE f == Top(t)
           n == Len(stack[t])
           g == [f EXCEPT !.todo = Tail(@)]
           h == Call(Head(f.stages), Head(f.todo))
<1>1. /\ stack[t] # << >> /\ f.at = "methods" /\ f.todo # << >>
      /\ f \in Frame /\ CallOK(f) /\ ClaimOK(f) /\ n \in Nat /\ n \in 1 .. n
      /\ stack' = [stack EXCEPT ![t] = Append([@ EXCEPT ![Len(stack[t])] = g], h)]
      /\ UNCHANGED <<state, group, resources, data, taken>>
  BY TopFrame DEF CallNext
<1>2. f.todo \in Seq(Resource) /\ Head(f.todo) \in Resource /\ Tail(f.todo) \in Seq(Resource)
  BY <1>1, HeadTailProperties DEF Frame
<1>3. f.op # "parse" /\ Head(f.stages) \in Op
  <2>1. f.op # "parse" /\ f.op \in Op
    BY <1>1 DEF CallOK, Frame
  <2>2. f.stages = <<f.op>> \/ f.stages = <<"prepare", "load">>
    BY <1>1, <2>1 DEF CallOK
  <2>3. QED
    BY <2>1, <2>2 DEF Op
<1>4. h \in Frame /\ ~ Claimed(h) /\ CallOK(h)
  <2>1. Head(f.todo) \in Object /\ Head(f.stages) # "parse"
    BY <1>2, <1>3 DEF Object, Op
  <2>2. QED
    BY <1>3, <2>1, CallIs
<1>5. g \in Frame /\ g.x = f.x /\ g.at = f.at /\ g.op = f.op /\ g.from = f.from
      /\ g.stages = f.stages
  BY <1>1, <1>2 DEF Frame
<1> HIDE DEF g, h
<1>6. Claimed(g) = Claimed(f) /\ CallOK(g)
  BY <1>1, <1>5 DEF Claimed, CallOK
<1>7. /\ stack' \in [Thread -> Seq(Frame)]
      /\ \A u \in Thread \ {t} : stack'[u] = stack[u]
      /\ Len(stack'[t]) = n + 1
      /\ \A i \in 1 .. n + 1 :
           stack'[t][i] = IF i = n + 1 THEN h
                          ELSE IF i = n THEN g ELSE stack[t][i]
  BY <1>1, <1>4, <1>5, Pushed
<1>8. \A i \in n + 1 .. Len(stack'[t]) : ~ Claimed(stack'[t][i]) /\ CallOK(stack'[t][i])
  <2> SUFFICES ASSUME NEW i \in n + 1 .. Len(stack'[t]) PROVE stack'[t][i] = h
    BY <1>4
  <2>1. i = n + 1 /\ i \in 1 .. n + 1
    BY <1>1, <1>7
  <2>2. QED
    BY <1>7, <2>1
<1>9. \A i \in n + 1 .. Len(stack[t]) : FALSE
  BY <1>1
<1>10. \A i \in 1 .. n :
         /\ Claimed(stack'[t][i]) = Claimed(stack[t][i])
         /\ stack'[t][i].x = stack[t][i].x /\ CallOK(stack'[t][i])
         /\ ClaimOK(stack[t][i])'
  <2> SUFFICES ASSUME NEW i \in 1 .. n
               PROVE  /\ Claimed(stack'[t][i]) = Claimed(stack[t][i])
                      /\ stack'[t][i].x = stack[t][i].x /\ CallOK(stack'[t][i])
                      /\ ClaimOK(stack[t][i])'
    OBVIOUS
  <2>1. i \in 1 .. n + 1 /\ i # n + 1
    BY <1>1
  <2>2. CASE i = n
    <3>1. stack'[t][i] = g /\ stack[t][i] = f
      BY <1>7, <2>1, <2>2 DEF Top
    <3>2. QED
      BY <1>1, <1>5, <1>6, <3>1 DEF ClaimOK
  <2>3. CASE i # n
    <3>1. stack'[t][i] = stack[t][i]
      BY <1>7, <2>1, <2>3
    <3>2. CallOK(stack[t][i]) /\ ClaimOK(stack[t][i])
      BY DEF IInv, FramesOK
    <3>3. QED
      BY <1>1, <3>1, <3>2 DEF ClaimOK
  <2>4. QED
    BY <2>2, <2>3
<1>11. n <= Len(stack[t]) /\ n <= Len(stack'[t])
  BY <1>1, <1>7
<1> HIDE DEF n
<1>12. FramesOK' /\ Unique' /\ Owned' /\ StateSays'
  BY <1>1, <1>7, <1>8, <1>9, <1>10, <1>11, ClaimsStay
<1>13. TypeOK'
  BY <1>1, <1>7 DEF IInv, TypeOK, Frame
<1>14. QED
  BY <1>12, <1>13 DEF IInv

\* How the rounds of a call go on.
LEMMA ListedIs ==
  ASSUME NEW f \in Frame, f.op # "parse", f.stages # << >>, Head(f.stages) \in Op
  PROVE  /\ Listed(f) \in Frame /\ Claimed(Listed(f))
         /\ Listed(f).op = f.op /\ Listed(f).x = f.x /\ Listed(f).stages = f.stages
         /\ Listed(f).at = IF f.x \in Group THEN "list" ELSE "methods"
<1> DEFINE m == IF f.x \in Group THEN << >> ELSE Uses[Head(f.stages)][f.x]
           at == IF f.x \in Group THEN "list" ELSE "methods"
<1>1. m \in Seq(Resource)
  <2>1. f.x \notin Group => f.x \in Resource
    BY DEF Frame, Object
  <2>2. << >> \in Seq(Resource)
    OBVIOUS
  <2>3. QED
    BY <2>1, <2>2, ResourceAssumption
<1>2. Listed(f) = [f EXCEPT !.at = at, !.list = m, !.todo = m]
  BY DEF Listed
<1>3. at \in Place
  BY DEF Place
<1> HIDE DEF m
<1>4. Listed(f) \in Frame
  BY <1>1, <1>2, <1>3 DEF Frame
<1>5. /\ Listed(f).op = f.op /\ Listed(f).x = f.x /\ Listed(f).stages = f.stages
      /\ Listed(f).at = at
  BY <1>2 DEF Frame
<1>6. QED
  BY <1>4, <1>5 DEF Claimed

LEMMA CasInv ==
  ASSUME IInv, NEW t \in Thread, Cas(t)
  PROVE  IInv'
<1> DEFINE f == Top(t)
           g == [f EXCEPT !.stages = Stages(f.op, f.from)]
           parses == f.x \in Group /\ f.from = "unloaded" /\ f.op # "unload"
           h == IF parses THEN [g EXCEPT !.at = "parse"] ELSE Listed(g)
<1>1. /\ stack[t] # << >> /\ f.at = "cas" /\ f \in Frame /\ CallOK(f)
      /\ UNCHANGED <<group, resources, data, taken>>
  BY TopFrame DEF Cas
<1>2. ~ Claimed(f)
  BY <1>1 DEF Claimed
<1>3. CASE Return(t) /\ UNCHANGED state
  <2>1. /\ stack' \in [Thread -> Seq(Frame)]
        /\ FramesOK' /\ Unique' /\ Owned' /\ StateSays'
    BY <1>1, <1>2, <1>3, IdleReturns
  <2>2. TypeOK'
    BY <1>1, <1>3, <2>1 DEF IInv, TypeOK, Frame
  <2>3. QED
    BY <2>1, <2>2 DEF IInv
<1>4. CASE /\ state[f.x] = f.from /\ state' = [state EXCEPT ![f.x] = During[f.op]]
           /\ Continue(t, h)
  <2>1. f.from \in From(f.op, f.x) /\ f.op \in Op \cup {"parse"} /\ f.from \in Steady
    BY <1>1 DEF CallOK, Frame
  <2>2. f.op = "parse" => f.x \in Group /\ f.from = "unloaded"
    BY <1>1 DEF CallOK
  <2>3. Stages(f.op, f.from) \in Seq(Op)
    <3>1. << >> \in Seq(Op) /\ <<"prepare", "load">> \in Seq(Op)
      BY DEF Op
    <3>2. f.op # "parse" => <<f.op>> \in Seq(Op)
      BY <2>1
    <3> HIDE DEF f
    <3>3. f.op = "parse" => Stages(f.op, f.from) = << >>
      BY DEF Stages
    <3>4. f.op # "parse" => Stages(f.op, f.from) \in {<<f.op>>, <<"prepare", "load">>}
      BY DEF Stages
    <3>5. QED
      BY <3>1, <3>2, <3>3, <3>4
  <2>4. /\ g \in Frame /\ g.op = f.op /\ g.x = f.x /\ g.from = f.from
        /\ g.stages = Stages(f.op, f.from)
    BY <1>1, <2>3 DEF Frame
  <2>5. f.op # "parse" =>
          /\ Stages(f.op, f.from) = <<f.op>>
               \/ (f.op = "load" /\ Stages(f.op, f.from) = <<"prepare", "load">>)
          /\ Stages(f.op, f.from) # << >> /\ Head(Stages(f.op, f.from)) \in Op
    BY <2>1 DEF Stages, Op
  <2> HIDE DEF g
  <2>6. /\ h \in Frame /\ h.x = f.x /\ h.op = f.op /\ Claimed(h)
        /\ h.stages = Stages(f.op, f.from)
        /\ h.at = IF parses THEN "parse" ELSE IF f.x \in Group THEN "list" ELSE "methods"
        /\ parses => h.from = f.from
    <3>1. CASE parses
      BY <2>4, <3>1 DEF Frame, Claimed, Place
    <3>2. CASE ~ parses
      <4>1. f.op # "parse"
        BY <2>2, <3>2
      <4>2. QED
        BY <2>4, <2>5, <3>2, <4>1, ListedIs
    <3>3. QED
      BY <3>1, <3>2
  <2>7. f.x \in Resource => /\ f.x \notin Group /\ f.op # "parse"
                            /\ data[f.x] \in Needs(Head(Stages(f.op, f.from)))
    <3> SUFFICES ASSUME f.x \in Resource
                 PROVE  /\ f.x \notin Group /\ f.op # "parse"
                        /\ data[f.x] \in Needs(Head(Stages(f.op, f.from)))
      OBVIOUS
    <3>1. f.x \notin Group /\ f.op # "parse"
      BY <2>2, ResourceAssumption
    <3>2. /\ f.from = "unloaded" => data[f.x] = "none"
          /\ f.from \in {"prepared", "loaded"} => data[f.x] = f.from
      BY <1>4 DEF IInv, StateSays
    <3>3. \/ f.op = "prepare" /\ f.from = "unloaded"
          \/ f.op = "load" /\ f.from \in {"unloaded", "prepared"}
          \/ f.op = "unload" /\ f.from \in {"loaded", "prepared"}
      BY <2>1, <3>1 DEF From, Op
    <3>4. QED
      BY <3>1, <3>2, <3>3 DEF Stages, Needs
  <2> HIDE DEF h, f
  <2>8. CallOK(h)
    BY <2>2, <2>5, <2>6 DEF CallOK
  <2>9. state \in [Object -> Steady \cup Transient] /\ f.x \in Object
    BY <1>1 DEF IInv, TypeOK, Frame
  <2>10. /\ state'[h.x] = During[h.op]
         /\ \A y \in Object \ {h.x} : state'[y] = state[y]
         /\ state[h.x] \in Steady
    BY <1>4, <2>1, <2>6, <2>9
  <2>11. /\ h.x \in Resource /\ h.at = "methods" => data'[h.x] \in Needs(Head(h.stages))
         /\ h.x \in Resource /\ h.at = "set" => data'[h.x] = Made[h.op]
    BY <1>1, <2>6, <2>7
  <2>12. h.x = Top(t).x
    BY <2>6 DEF f
  <2>13. stack[t] # << >> /\ Continue(t, h) /\ data' = data
    BY <1>1, <1>4
  <2>14. /\ stack' \in [Thread -> Seq(Frame)]
         /\ FramesOK' /\ Unique' /\ Owned' /\ StateSays'
    BY <2>6, <2>8, <2>10, <2>11, <2>12, <2>13, ClaimedMoves
  <2>15. During[f.op] \in Transient
    BY <2>1 DEF During, Transient, Op
  <2>16. TypeOK'
    BY <1>1, <1>4, <2>9, <2>14, <2>15 DEF IInv, TypeOK, Frame
  <2>17. QED
    BY <2>14, <2>16 DEF IInv
<1>5. QED
  BY <1>3, <1>4 DEF Cas

LEMMA ParseInv ==
  ASSUME IInv, NEW t \in Thread, Parse(t)
  PROVE  IInv'
<1> DEFINE f == Top(t)
           h == IF f.op = "parse" THEN [f EXCEPT !.at = "set"] ELSE Listed(f)
<1>1. /\ stack[t] # << >> /\ f.at = "parse" /\ f \in Frame /\ CallOK(f) /\ ClaimOK(f)
      /\ Continue(t, h) /\ UNCHANGED <<state, data, taken>>
  BY TopFrame DEF Parse
<1>2. Claimed(f) /\ f.x \in Group /\ f.x \notin Resource
  BY <1>1, ResourceAssumption DEF Claimed, CallOK
<1>3. f.op # "parse" => f.stages # << >> /\ Head(f.stages) \in Op
  BY <1>1 DEF CallOK, Frame, Op
<1>4. /\ h \in Frame /\ h.x = f.x /\ h.op = f.op /\ Claimed(h) /\ h.at \in {"set", "list"}
      /\ h.at = "set" => h.op = "parse" /\ h.from = f.from
      /\ h.at = "list" => h.op # "parse" /\ h.stages = f.stages
  <2>1. CASE f.op = "parse"
    BY <1>1, <2>1 DEF Frame, Claimed, Place
  <2>2. CASE f.op # "parse"
    BY <1>1, <1>2, <1>3, <2>2, ListedIs
  <2>3. QED
    BY <2>1, <2>2
<1> HIDE DEF h, f
<1>5. CallOK(h)
  BY <1>1, <1>2, <1>4 DEF CallOK
<1>6. state'[h.x] = During[h.op]
  BY <1>1, <1>2, <1>4 DEF ClaimOK
<1>7. h.x \notin Resource /\ h.x = Top(t).x /\ Claimed(Top(t))
  BY <1>2, <1>4 DEF f
<1>8. /\ stack' \in [Thread -> Seq(Frame)]
      /\ FramesOK' /\ Unique' /\ Owned' /\ StateSays'
  <2>1. state' = state /\ data' = data /\ stack[t] # << >> /\ Continue(t, h)
    BY <1>1
  <2>2. QED
    BY <1>4, <1>5, <1>6, <1>7, <2>1, ClaimedMoves
<1>9. group' \in [Resource -> Group \cup {None}] /\ resources' \in [Group -> SUBSET Resource]
  <2>1. group \in [Resource -> Group \cup {None}] /\ resources \in [Group -> SUBSET Resource]
    BY DEF IInv, TypeOK
  <2>2. Scripted[f.x] \subseteq Resource
    BY <1>2, ResourceAssumption
  <2>3. QED
    BY <1>2, <2>1, <2>2 DEF Parse, f
<1>10. TypeOK'
  BY <1>1, <1>8, <1>9 DEF IInv, TypeOK, Frame
<1>11. QED
  BY <1>8, <1>10 DEF IInv

LEMMA SnapshotInv ==
  ASSUME IInv, NEW t \in Thread, Snapshot(t)
  PROVE  IInv'
<1> DEFINE f == Top(t)
           held == resources[f.x]
           Sorted(s) == \A i, j \in DOMAIN s : i < j => Order[s[i]] < Order[s[j]]
           s == CHOOSE s \in [1 .. Cardinality(held) -> held] : Sorted(s)
           h == [f EXCEPT !.at = "methods", !.list = s, !.todo = s]
<1>1. /\ stack[t] # << >> /\ f.at = "list" /\ f \in Frame /\ CallOK(f) /\ ClaimOK(f)
      /\ Continue(t, h) /\ taken' = [taken EXCEPT ![f.x] = held]
      /\ UNCHANGED <<state, group, resources, data>>
  BY TopFrame DEF Snapshot
<1>2. Claimed(f) /\ f.x \in Group /\ f.x \notin Resource
  BY <1>1, ResourceAssumption DEF Claimed, CallOK
<1>3. held \in SUBSET Resource
  BY <1>2 DEF IInv, TypeOK
<1>4. s \in Seq(Resource)
  <2>1. Cardinality(held) \in Nat
    BY <1>3, ResourceAssumption, FS_Subset, FS_CardinalityType
  <2>2. \E q \in [1 .. Cardinality(held) -> held] : Sorted(q)
    BY <1>3, ResourceAssumption
  <2>3. s \in [1 .. Cardinality(held) -> held]
    <3> HIDE DEF Sorted
    <3>1. QED
      BY <2>2
  <2> HIDE DEF s
  <2>4. s \in [1 .. Cardinality(held) -> Resource]
    BY <1>3, <2>3
  <2>5. QED
    BY <2>1, <2>4, SeqDef
<1> HIDE DEF s
<1>5. /\ h \in Frame /\ h.x = f.x /\ h.op = f.op /\ Claimed(h)
      /\ h.at = "methods" /\ h.stages = f.stages
  BY <1>1, <1>4 DEF Frame, Claimed, Place
<1> HIDE DEF h
<1>6. CallOK(h)
  BY <1>1, <1>5 DEF CallOK
<1>7. state'[h.x] = During[h.op]
  BY <1>1, <1>2, <1>5 DEF ClaimOK
<1>8. /\ stack' \in [Thread -> Seq(Frame)]
      /\ FramesOK' /\ Unique' /\ Owned' /\ StateSays'
  <2>1. state' = state /\ data' = data /\ stack[t] # << >> /\ Continue(t, h)
    BY <1>1
  <2>2. QED
    BY <1>2, <1>5, <1>6, <1>7, <2>1, ClaimedMoves
<1>9. TypeOK'
  BY <1>1, <1>3, <1>8 DEF IInv, TypeOK, Frame
<1>10. QED
  BY <1>8, <1>9 DEF IInv

LEMMA EndRoundInv ==
  ASSUME IInv, NEW t \in Thread, EndRound(t)
  PROVE  IInv'
<1> DEFINE f == Top(t)
           g == [f EXCEPT !.stages = Tail(@)]
           h == IF Len(f.stages) = 1 THEN [f EXCEPT !.at = "set"]
                ELSE IF f.x \in Group THEN [g EXCEPT !.todo = f.list] ELSE Listed(g)
<1>1. /\ stack[t] # << >> /\ f.at = "methods" /\ f \in Frame /\ CallOK(f) /\ ClaimOK(f)
      /\ Continue(t, h) /\ UNCHANGED <<state, group, resources, taken>>
      /\ data' = IF f.x \in Resource
                 THEN [data EXCEPT ![f.x] = Made[Head(f.stages)]] ELSE data
  BY TopFrame DEF EndRound
<1>2. Claimed(f) /\ f.op \in Op /\ f.op # "parse" /\ f.x \in Object
  BY <1>1 DEF Claimed, CallOK, Frame
<1>3. f.stages = <<f.op>> \/ (f.op = "load" /\ f.stages = <<"prepare", "load">>)
  BY <1>1, <1>2 DEF CallOK
<1>4. Head(f.stages) \in Op
  BY <1>2, <1>3 DEF Op
<1>5. CASE f.stages = <<f.op>>
  <2>1. h = [f EXCEPT !.at = "set"] /\ Head(f.stages) = f.op
    BY <1>5
  <2>2. h \in Frame /\ h.x = f.x /\ h.op = f.op /\ h.at = "set" /\ Claimed(h)
    BY <1>1, <2>1 DEF Frame, Claimed, Place
  <2> HIDE DEF h
  <2>3. CallOK(h)
    BY <1>2, <2>2 DEF CallOK
  <2>4. data \in [Resource -> {"none", "prepared", "loaded"}]
    BY DEF IInv, TypeOK
  <2>5. h.x \in Resource => data'[h.x] = Made[h.op]
    BY <1>1, <2>1, <2>2, <2>4
  <2>6. state'[h.x] = During[h.op]
    BY <1>1, <1>2, <2>2 DEF ClaimOK
  <2>7. /\ \A y \in Object \ {h.x} : state'[y] = state[y]
        /\ \A r \in Resource \ {h.x} : data'[r] = data[r]
        /\ stack[t] # << >> /\ Continue(t, h) /\ h.x = Top(t).x /\ Claimed(Top(t))
    BY <1>1, <1>2, <2>2, <2>4
  <2>8. /\ stack' \in [Thread -> Seq(Frame)]
        /\ FramesOK' /\ Unique' /\ Owned' /\ StateSays'
    BY <2>2, <2>3, <2>5, <2>6, <2>7, ClaimedMoves
  <2>9. data' \in [Resource -> {"none", "prepared", "loaded"}]
    BY <1>1, <1>4, <2>4 DEF Made, Op
  <2>10. TypeOK'
    BY <1>1, <2>8, <2>9 DEF IInv, TypeOK, Frame
  <2>11. QED
    BY <2>8, <2>10 DEF IInv
<1>6. CASE f.op = "load" /\ f.stages = <<"prepare", "load">>
  <2>1. /\ Len(f.stages) # 1 /\ Tail(f.stages) = <<"load">> /\ Head(f.stages) = "prepare"
        /\ <<"load">> \in Seq(Op)
    BY <1>6 DEF Op
  <2>2. /\ g \in Frame /\ g.x = f.x /\ g.op = "load" /\ g.at = "methods"
        /\ g.stages = <<"load">>
    BY <1>1, <1>6, <2>1 DEF Frame
  <2>3. h = IF f.x \in Group THEN [g EXCEPT !.todo = f.list] ELSE Listed(g)
    BY <2>1
  <2> HIDE DEF g
  <2>4. /\ h \in Frame /\ h.x = f.x /\ h.op = "load" /\ Claimed(h) /\ h.at = "methods"
        /\ h.stages = <<"load">>
    <3>1. CASE f.x \in Group
      BY <1>1, <2>2, <2>3, <3>1 DEF Frame, Claimed
    <3>2. CASE f.x \notin Group
      <4>1. Head(g.stages) \in Op /\ g.op # "parse" /\ g.stages # << >>
        BY <2>2 DEF Op
      <4>2. QED
        BY <2>2, <2>3, <3>2, <4>1, ListedIs
    <3>3. QED
      BY <3>1, <3>2
  <2> HIDE DEF h
  <2>5. CallOK(h)
    BY <2>4 DEF CallOK
  <2>6. data \in [Resource -> {"none", "prepared", "loaded"}]
    BY DEF IInv, TypeOK
  <2>7. h.x \in Resource => data'[h.x] \in Needs(Head(h.stages))
    BY <1>1, <2>1, <2>4, <2>6 DEF Made, Needs
  <2>8. state'[h.x] = During[h.op]
    BY <1>1, <1>2, <1>6, <2>4 DEF ClaimOK
  <2>9. /\ \A y \in Object \ {h.x} : state'[y] = state[y]
        /\ \A r \in Resource \ {h.x} : data'[r] = data[r]
        /\ stack[t] # << >> /\ Continue(t, h) /\ h.x = Top(t).x /\ Claimed(Top(t))
    BY <1>1, <1>2, <2>4, <2>6
  <2>10. /\ stack' \in [Thread -> Seq(Frame)]
         /\ FramesOK' /\ Unique' /\ Owned' /\ StateSays'
    BY <2>4, <2>5, <2>7, <2>8, <2>9, ClaimedMoves
  <2>11. data' \in [Resource -> {"none", "prepared", "loaded"}]
    BY <1>1, <1>4, <2>6 DEF Made, Op
  <2>12. TypeOK'
    BY <1>1, <2>10, <2>11 DEF IInv, TypeOK, Frame
  <2>13. QED
    BY <2>10, <2>12 DEF IInv
<1>7. QED
  BY <1>3, <1>5, <1>6

\* The calls, the states and what is made of the resources stay.
LEMMA StillInv ==
  ASSUME IInv, TypeOK', UNCHANGED <<state, stack, data>>
  PROVE  IInv'
BY DEF IInv, FramesOK, CallOK, ClaimOK, Unique, Owned, StateSays, Claimed

LEMMA SetGroupInv ==
  ASSUME IInv, NEW t \in Thread, NEW r \in Movable, NEW g \in Group \cup {None},
         SetGroup(t, r, g)
  PROVE  IInv'
<1>1. /\ group \in [Resource -> Group \cup {None}]
      /\ resources \in [Group -> SUBSET Resource] /\ r \in Resource
  BY ResourceAssumption DEF IInv, TypeOK
<1>2. group' \in [Resource -> Group \cup {None}] /\ resources' \in [Group -> SUBSET Resource]
  BY <1>1 DEF SetGroup, Without
<1>3. UNCHANGED <<state, stack, data, taken>>
  BY DEF SetGroup
<1>4. TypeOK'
  BY <1>2, <1>3 DEF IInv, TypeOK
<1>5. QED
  BY <1>3, <1>4, StillInv

LEMMA NextInv == IInv /\ [Next]_vars => IInv'
<1> SUFFICES ASSUME IInv, [Next]_vars PROVE IInv'
  OBVIOUS
<1>1. ASSUME NEW t \in Thread, Step(t) PROVE IInv'
  BY <1>1, ReadInv, CasInv, ParseInv, SnapshotInv, CallNextInv, EndRoundInv, FinishInv
     DEF Step
<1>2. ASSUME NEW t \in Thread, Begin(t) PROVE IInv'
  BY <1>2, BeginInv
<1>3. ASSUME NEW t \in Thread, NEW r \in Movable, NEW g \in Group \cup {None},
             SetGroup(t, r, g)
      PROVE  IInv'
  BY <1>3, SetGroupInv
<1>4. CASE UNCHANGED vars
  <2>1. TypeOK'
    BY <1>4 DEF IInv, TypeOK, vars
  <2>2. QED
    BY <1>4, <2>1, StillInv DEF vars
<1>5. QED
  BY <1>1, <1>2, <1>3, <1>4 DEF Next

LEMMA InvImplies == IInv => ClaimedInOrder
<1> SUFFICES ASSUME IInv PROVE ClaimedInOrder
  OBVIOUS
<1>1. \A t \in Thread : \A i \in 1 .. Len(stack[t]) : stack[t][i] \in Frame
  BY FrameType, ElementOfSeq DEF IInv
<1>2. OneClaim
  <2> SUFFICES ASSUME NEW x \in Object
               PROVE  IF state[x] \in Steady THEN Claims(x) = {}
                      ELSE \E t \in Thread : \E i \in 1 .. Len(stack[t]) :
                             Claims(x) = {<<t, i>>} /\ state[x] = During[stack[t][i].op]
    BY DEF OneClaim
  <2>1. ASSUME NEW c, c \in Claims(x)
        PROVE  /\ c \in Thread \X (1 .. Len(stack[c[1]])) /\ Claimed(stack[c[1]][c[2]])
               /\ stack[c[1]][c[2]].x = x
    BY <2>1 DEF Claims, Claimed
  <2>2. CASE state[x] \in Steady
    <3>1. ASSUME NEW c, c \in Claims(x) PROVE FALSE
      <4>1. /\ c[1] \in Thread /\ c[2] \in 1 .. Len(stack[c[1]])
            /\ Claimed(stack[c[1]][c[2]]) /\ stack[c[1]][c[2]].x = x
        BY <2>1, <3>1
      <4>2. state[x] = During[stack[c[1]][c[2]].op] /\ stack[c[1]][c[2]] \in Frame
        BY <1>1, <4>1 DEF IInv, FramesOK, ClaimOK
      <4>3. QED
        BY <2>2, <4>2 DEF Frame, During, Steady, Op
    <3>2. QED
      BY <2>2, <3>1
  <2>3. CASE state[x] \notin Steady
    <3>1. state[x] \in Transient
      BY <2>3 DEF IInv, TypeOK
    <3>2. PICK t \in Thread : \E i \in 1 .. Len(stack[t]) :
            Claimed(stack[t][i]) /\ stack[t][i].x = x
      BY <3>1 DEF IInv, Owned
    <3>3. PICK i \in 1 .. Len(stack[t]) : Claimed(stack[t][i]) /\ stack[t][i].x = x
      BY <3>2
    <3>4. state[x] = During[stack[t][i].op]
      BY <3>3 DEF IInv, FramesOK, ClaimOK
    <3>5. <<t, i>> \in Claims(x)
      BY <3>3 DEF Claims, Claimed
    <3>6. ASSUME NEW c, c \in Claims(x) PROVE c = <<t, i>>
      <4>1. /\ c[1] \in Thread /\ c[2] \in 1 .. Len(stack[c[1]]) /\ c = <<c[1], c[2]>>
            /\ Claimed(stack[c[1]][c[2]]) /\ stack[c[1]][c[2]].x = x
        BY <2>1, <3>6
      <4>2. Unique
        BY DEF IInv
      <4>3. c[1] = t /\ c[2] = i
        BY <3>3, <4>1, <4>2, OneCall
      <4>4. QED
        BY <4>1, <4>3
    <3>7. Claims(x) = {<<t, i>>}
      BY <3>5, <3>6
    <3>8. QED
      BY <2>3, <3>4, <3>7
  <2>4. QED
    BY <2>2, <2>3
<1>3. MethodsInOrder
  <2>1. ASSUME NEW t \in Thread, NEW i \in 1 .. Len(stack[t]),
               stack[t][i].at = "methods", stack[t][i].x \in Resource
        PROVE  data[stack[t][i].x] \in Needs(Head(stack[t][i].stages))
    BY <2>1 DEF IInv, FramesOK, ClaimOK, Claimed
  <2>2. QED
    BY <2>1 DEF MethodsInOrder, Needs, IInv, StateSays
<1>4. QED
  BY <1>2, <1>3 DEF ClaimedInOrder, IInv

\* Whatever the resources use and however many threads call them, one call at a
\* time works on a resource, and its class methods follow each other as they
\* rely on it.
THEOREM ClaimsAreInOrder == Spec => []ClaimedInOrder
<1>1. Spec => []IInv
  BY InitInv, NextInv, PTL DEF Spec
<1>2. QED
  BY <1>1, InvImplies, PTL

-----------------------------------------------------------------------------
(* What is called below what *)

Calls(op, r) == Elements(Uses[op][r])

LEMMA CallsAre ==
  ASSUME NEW op \in Op, NEW r \in Resource
  PROVE  Calls(op, r) \subseteq Resource
<1>1. Uses[op][r] \in Seq(Resource)
  BY ResourceAssumption
<1>2. \A i \in 1 .. Len(Uses[op][r]) : Uses[op][r][i] \in Resource
  BY <1>1, ElementOfSeq
<1>3. QED
  BY <1>2 DEF Calls, Elements

\* Who unloads a resource has loaded it, and who loads it has prepared it.
LEMMA CallsNest ==
  ASSUME NEW r \in Resource
  PROVE  /\ Calls("unload", r) \subseteq Calls("load", r)
         /\ Calls("load", r) \subseteq Calls("prepare", r)
         /\ Calls("unload", r) \subseteq Calls("prepare", r)
<1>1. /\ Elements(Uses["unload"][r]) \subseteq Elements(Uses["load"][r])
      /\ Elements(Uses["load"][r]) \subseteq Elements(Uses["prepare"][r])
  BY ResourceAssumption
<1>2. QED
  BY <1>1 DEF Calls

\* T calls nothing but T.
Shut(ops, T) == \A op \in ops, r \in T : Calls(op, r) \subseteq T

LEMMA UnderIs ==
  ASSUME NEW ops, NEW S, S \subseteq Resource, NEW r
  PROVE  r \in Under(ops, S) <=>
           r \in Resource /\ \A T \in SUBSET Resource : S \subseteq T /\ Shut(ops, T) => r \in T
<1> DEFINE C == {T \in {S \cup X : X \in SUBSET (Resource \ S)} :
                   \A op \in ops, q \in T : Elements(Uses[op][q]) \subseteq T}
<1>1. Under(ops, S) = {q \in Resource : \A T \in C : q \in T}
  BY DEF Under
<1>2. \A T : T \in C <=> T \in {S \cup X : X \in SUBSET (Resource \ S)} /\ Shut(ops, T)
  BY DEF Shut, Calls
<1>3. \A T : T \in {S \cup X : X \in SUBSET (Resource \ S)} <=> T \in SUBSET Resource /\ S \subseteq T
  <2>1. ASSUME NEW T \in SUBSET Resource, S \subseteq T
        PROVE  T \in {S \cup X : X \in SUBSET (Resource \ S)}
    <3>1. T = S \cup (T \ S) /\ T \ S \in SUBSET (Resource \ S)
      BY <2>1
    <3>2. QED
      BY <3>1
  <2>2. ASSUME NEW X \in SUBSET (Resource \ S)
        PROVE  S \cup X \in SUBSET Resource /\ S \subseteq S \cup X
    OBVIOUS
  <2>3. QED
    BY <2>1, <2>2
<1> HIDE DEF C
<1>4. QED
  BY <1>1, <1>2, <1>3

LEMMA UnderLeast ==
  ASSUME NEW ops, NEW S, NEW T, S \subseteq T, T \subseteq Resource, Shut(ops, T)
  PROVE  Under(ops, S) \subseteq T
<1>1. S \subseteq Resource /\ T \in SUBSET Resource
  OBVIOUS
<1>2. QED
  BY <1>1, UnderIs

LEMMA UnderHas ==
  ASSUME NEW ops, NEW S, S \subseteq Resource
  PROVE  S \subseteq Under(ops, S) /\ Under(ops, S) \subseteq Resource
<1>1. ASSUME NEW r \in S PROVE r \in Under(ops, S)
  BY UnderIs
<1>2. ASSUME NEW r \in Under(ops, S) PROVE r \in Resource
  BY UnderIs
<1>3. QED
  BY <1>1, <1>2

LEMMA UnderShut ==
  ASSUME NEW ops, ops \subseteq Op, NEW S, S \subseteq Resource
  PROVE  Shut(ops, Under(ops, S))
<1> SUFFICES ASSUME NEW op \in ops, NEW r \in Under(ops, S), NEW c \in Calls(op, r)
             PROVE  c \in Under(ops, S)
  BY DEF Shut
<1>1. r \in Resource /\ op \in Op
  BY UnderHas
<1>2. c \in Resource
  BY <1>1, CallsAre
<1>3. ASSUME NEW T \in SUBSET Resource, S \subseteq T, Shut(ops, T)
      PROVE  c \in T
  <2>1. r \in T
    BY <1>3, UnderIs
  <2>2. QED
    BY <1>3, <2>1 DEF Shut
<1>4. QED
  BY <1>2, <1>3, UnderIs

LEMMA ShutLess ==
  ASSUME NEW ops, NEW less, less \subseteq ops, NEW T, Shut(ops, T)
  PROVE  Shut(less, T)
BY DEF Shut

LEMMA UnderMore ==
  ASSUME NEW ops, NEW less, less \subseteq ops, ops \subseteq Op,
         NEW S, NEW Q, Q \subseteq S, S \subseteq Resource
  PROVE  Under(less, Q) \subseteq Under(ops, S)
<1>1. Shut(less, Under(ops, S))
  BY UnderShut, ShutLess
<1>2. Q \subseteq Under(ops, S) /\ Under(ops, S) \subseteq Resource
  BY UnderHas
<1>3. QED
  BY <1>1, <1>2, UnderLeast

LEMMA ShutBoth ==
  ASSUME NEW ops, NEW T, NEW Q, Shut(ops, T), Shut(ops, Q)
  PROVE  Shut(ops, T \cup Q)
<1> SUFFICES ASSUME NEW op \in ops, NEW r \in T \cup Q
             PROVE  Calls(op, r) \subseteq T \cup Q
  BY DEF Shut
<1>1. r \in T => Calls(op, r) \subseteq T
  BY DEF Shut
<1>2. r \in Q => Calls(op, r) \subseteq Q
  BY DEF Shut
<1>3. QED
  BY <1>1, <1>2

-----------------------------------------------------------------------------
(* What is a group's own *)

\* What never leaves what the last operation of each group went through.
kept == [g \in Group |-> taken[g] \ Movable]

Common == Under(Op, Direct \cup Movable)

\* What is called from elsewhere than g.
AwayFrom(K, g) == Common \cup UNION {Under(Op, K[h]) : h \in Group \ {g}}

\* What only g calls, and of it what unload of g comes to.
OwnOf(K, g) == Under(Op, K[g]) \ AwayFrom(K, g)
UndoneOf(K, g) == OwnOf(K, g) \cap Under({"unload"}, K[g])

TouchedOf(K) == Common \cup UNION {Under(Op, K[h]) : h \in Group}

Kepts == [Group -> SUBSET Resource]

LEMMA CommonIs ==
  /\ Common \subseteq Resource /\ Direct \subseteq Common /\ Movable \subseteq Common
  /\ Shut(Op, Common)
<1>1. Direct \cup Movable \subseteq Resource
  BY ResourceAssumption
<1>2. Direct \cup Movable \subseteq Common /\ Common \subseteq Resource
  BY <1>1, UnderHas DEF Common
<1>3. Shut(Op, Common)
  BY <1>1, UnderShut DEF Common
<1>4. QED
  BY <1>2, <1>3

LEMMA ReachIs ==
  ASSUME NEW K \in Kepts, NEW g \in Group
  PROVE  /\ K[g] \subseteq Under(Op, K[g]) /\ Under(Op, K[g]) \subseteq Resource
         /\ Shut(Op, Under(Op, K[g]))
         /\ K[g] \subseteq Resource
<1>1. K[g] \subseteq Resource
  BY DEF Kepts
<1>2. QED
  BY <1>1, UnderHas, UnderShut

LEMMA ReachUnload ==
  ASSUME NEW K \in Kepts, NEW g \in Group
  PROVE  /\ K[g] \subseteq Under({"unload"}, K[g])
         /\ Under({"unload"}, K[g]) \subseteq Under(Op, K[g])
         /\ Shut({"unload"}, Under({"unload"}, K[g]))
<1>1. K[g] \subseteq Resource /\ {"unload"} \subseteq Op
  BY DEF Kepts, Op
<1>2. QED
  BY <1>1, UnderHas, UnderShut, UnderMore

LEMMA AwayIs ==
  ASSUME NEW K \in Kepts, NEW g \in Group
  PROVE  /\ AwayFrom(K, g) \subseteq Resource /\ Common \subseteq AwayFrom(K, g)
         /\ Shut(Op, AwayFrom(K, g))
         /\ \A h \in Group \ {g} : Under(Op, K[h]) \subseteq AwayFrom(K, g)
<1>1. \A h \in Group : Under(Op, K[h]) \subseteq Resource /\ Shut(Op, Under(Op, K[h]))
  BY ReachIs
<1>2. Common \subseteq Resource /\ Shut(Op, Common)
  BY CommonIs
<1>3. AwayFrom(K, g) \subseteq Resource
  BY <1>1, <1>2 DEF AwayFrom
<1>4. Shut(Op, AwayFrom(K, g))
  <2> SUFFICES ASSUME NEW op \in Op, NEW r \in AwayFrom(K, g)
               PROVE  Calls(op, r) \subseteq AwayFrom(K, g)
    BY DEF Shut
  <2>1. CASE r \in Common
    BY <1>2, <2>1 DEF Shut, AwayFrom
  <2>2. CASE r \notin Common
    <3>1. PICK h \in Group \ {g} : r \in Under(Op, K[h])
      BY <2>2 DEF AwayFrom
    <3>2. Calls(op, r) \subseteq Under(Op, K[h])
      BY <1>1, <3>1 DEF Shut
    <3>3. QED
      BY <3>2 DEF AwayFrom
  <2>3. QED
    BY <2>1, <2>2
<1>5. QED
  BY <1>3, <1>4 DEF AwayFrom

LEMMA OwnIs ==
  ASSUME NEW K \in Kepts, NEW g \in Group
  PROVE  /\ OwnOf(K, g) \subseteq Resource /\ UndoneOf(K, g) \subseteq OwnOf(K, g)
         /\ OwnOf(K, g) \subseteq TouchedOf(K)
         /\ \A r \in OwnOf(K, g) : r \notin Common /\ r \notin Direct /\ r \notin Group
<1>1. Under(Op, K[g]) \subseteq Resource /\ Under(Op, K[g]) \subseteq TouchedOf(K)
  BY ReachIs DEF TouchedOf
<1>2. Common \subseteq AwayFrom(K, g) /\ Direct \subseteq Common
  BY AwayIs, CommonIs
<1>3. Resource \cap Group = {}
  BY ResourceAssumption
<1>4. QED
  BY <1>1, <1>2, <1>3 DEF OwnOf, UndoneOf

\* What is below what unload comes to, it comes to as well, unless it is away.
LEMMA UndoneCalls ==
  ASSUME NEW K \in Kepts, NEW g \in Group, NEW r \in UndoneOf(K, g),
         NEW c \in Calls("unload", r), c \in OwnOf(K, g)
  PROVE  c \in UndoneOf(K, g)
<1>1. r \in Under({"unload"}, K[g])
  BY DEF UndoneOf
<1>2. c \in Under({"unload"}, K[g])
  BY <1>1, ReachUnload DEF Shut
<1>3. QED
  BY <1>2 DEF UndoneOf

\* A resource of one group's own is not what another group reaches.
LEMMA OwnOfOne ==
  ASSUME NEW K \in Kepts, NEW g \in Group, NEW h \in Group, NEW r \in OwnOf(K, g),
         r \in Under(Op, K[h])
  PROVE  h = g
BY DEF OwnOf, AwayFrom

\* What holds of what the group has kept, and goes on to what that calls, holds
\* of all that is the group's own.
LEMMA OwnAll ==
  ASSUME NEW K \in Kepts, NEW g \in Group, NEW ops, ops \subseteq Op, NEW X, X \subseteq Resource,
         \A r \in K[g] : r \in AwayFrom(K, g) \/ r \in X,
         \A r \in X : \A op \in ops : \A c \in Calls(op, r) : c \in AwayFrom(K, g) \/ c \in X
  PROVE  Under(ops, K[g]) \cap OwnOf(K, g) \subseteq X
<1> DEFINE T == AwayFrom(K, g) \cup X
<1>1. AwayFrom(K, g) \subseteq Resource /\ Shut(Op, AwayFrom(K, g))
  BY AwayIs
<1>2. Shut(ops, T)
  <2> SUFFICES ASSUME NEW op \in ops, NEW r \in T, NEW c \in Calls(op, r)
               PROVE  c \in T
    BY DEF Shut
  <2>1. CASE r \in AwayFrom(K, g)
    BY <1>1, <2>1 DEF Shut
  <2>2. CASE r \in X
    BY <2>2
  <2>3. QED
    BY <2>1, <2>2
<1>3. K[g] \subseteq T /\ T \subseteq Resource
  BY <1>1
<1> HIDE DEF T
<1>4. Under(ops, K[g]) \subseteq T
  BY <1>2, <1>3, UnderLeast
<1>5. QED
  BY <1>4 DEF T, OwnOf

LEMMA KeptIs ==
  ASSUME TypeOK
  PROVE  kept \in Kepts /\ \A g \in Group : kept[g] = taken[g] \ Movable
BY DEF kept, Kepts, TypeOK

-----------------------------------------------------------------------------
(* The invariant *)

\* What a resource has when an operation is done with it, or is about to be.
Better == [prepare |-> {"prepared", "loaded"} \cup Transient,
           load    |-> {"loaded", "loading"},
           unload  |-> {"unloaded", "unloading"}]

\* What a call goes through, in the sense of its round.
ListOK(T, f) ==
  /\ f.at = "methods" /\ f.x \in Resource => Elements(f.list) = Calls(Head(f.stages), f.x)
  /\ f.at \in {"methods", "set"} /\ f.x \in Group /\ f.op # "parse" => Elements(f.list) = T[f.x]
  /\ f.at = "methods" => Elements(f.todo) \subseteq Elements(f.list)

\* Where the calls from b may get to.
Within(K, ops, b, x) == x \in Common \/ (b \in Group /\ x \in Under(ops, K[b]))

\* What call i of st, which is called by another one, knows of those that call it.
AboveOK(K, st, i) ==
  /\ st[i].x \in Resource /\ st[i].op = Head(st[i - 1].stages) /\ st[i - 1].at = "methods"
  /\ Within(K, Op, st[1].x, st[i].x)
  /\ st[i].op = "unload" => Within(K, {"unload"}, st[1].x, st[i].x)
  /\ st[1].op = "unload" => st[i].op = "unload"
  /\ st[i].op \in {"load", "unload"} => \A j \in 1 .. i - 1 : st[j].op = st[i].op

StackOK(K, T, st) ==
  /\ \A i \in 1 .. Len(st) : ListOK(T, st[i])
  /\ Len(st) > 0 => st[1].x \in Group \cup Direct
  /\ \A i \in 2 .. Len(st) : AboveOK(K, st, i)

\* What a group calls nobody else changes.
CasOK(K, s, st) ==
  \A i \in 2 .. Len(st) : \A g \in Group :
    st[i].at = "cas" /\ st[i].op # "prepare" /\ st[i].x \in OwnOf(K, g) =>
      s[st[i].x] = st[i].from

\* What call i has called and not heard from.
Awaited(st, i) ==
  IF i < Len(st) /\ ~ Claimed(st[i + 1]) THEN {st[i + 1].x} ELSE {}

\* What a call has called in its round.
Called(st, i) == Elements(st[i].list) \ (Elements(st[i].todo) \cup Awaited(st, i))

RoundAt(K, s, st, i) ==
  \A g \in Group : g = st[1].x =>
    /\ st[i].at = "methods" =>
         \A c \in Called(st, i) \cap OwnOf(K, g) : s[c] \in Better[Head(st[i].stages)]
    /\ st[i].at = "set" /\ st[i].x \in Group /\ st[i].op # "parse" =>
         \A c \in Elements(st[i].list) \cap OwnOf(K, g) : s[c] \in Better[st[i].op]

RoundOK(K, s, st) == \A i \in 1 .. Len(st) : RoundAt(K, s, st, i)

\* A resource has not been made into something before what it calls has.  While
\* its group is not loaded, what it calls may have been unloaded from elsewhere.
ShutOK(K, s, d, g) ==
  /\ \A r \in OwnOf(K, g) : d[r] # "none" =>
       \A c \in Calls("prepare", r) \cap OwnOf(K, g) :
         s[c] \in Better["prepare"] \/ c \in UndoneOf(K, g)
  /\ \A r \in OwnOf(K, g) : d[r] = "loaded" =>
       \A c \in Calls("load", r) \cap OwnOf(K, g) :
         s[c] \in Better["load"] \/ c \in UndoneOf(K, g)
  /\ s[g] # "unloading" => \A r \in UndoneOf(K, g) :
       /\ d[r] # "none" =>
            \A c \in Calls("unload", r) \cap OwnOf(K, g) : s[c] \in Better["prepare"]
       /\ d[r] = "loaded" =>
            \A c \in Calls("unload", r) \cap OwnOf(K, g) : s[c] \in Better["load"]
  /\ s[g] = "unloading" => \A r \in UndoneOf(K, g) : d[r] = "none" =>
       \A c \in Calls("unload", r) \cap OwnOf(K, g) : s[c] \in Better["unload"]

SteadyOK(K, s, g) ==
  /\ s[g] = "loaded" => \A r \in OwnOf(K, g) \cap Under({"load"}, K[g]) : s[r] = "loaded"
  /\ s[g] = "prepared" => \A r \in OwnOf(K, g) : s[r] \in {"prepared", "loaded"}
  /\ s[g] \in {"unloaded", "parsed", "parsing"} => \A r \in UndoneOf(K, g) : s[r] = "unloaded"

NoneParsed(s) == \A r \in Resource : s[r] \notin {"parsed", "parsing"}

TouchedOK(K, s) == \A r \in Resource \ TouchedOf(K) : s[r] = "unloaded"

KeptOK ==
  \A g \in Group :
    /\ taken[g] \ Movable # {} => taken[g] \ Movable = resources[g] \ Movable
    /\ resources[g] \ Movable # {} => \A r \in Scripted[g] \ Movable : group[r] # None

WholeInv ==
  /\ \A t \in Thread :
       /\ StackOK(kept, taken, stack[t])
       /\ CasOK(kept, state, stack[t])
       /\ RoundOK(kept, state, stack[t])
  /\ \A g \in Group : ShutOK(kept, state, data, g) /\ SteadyOK(kept, state, g)
  /\ TouchedOK(kept, state) /\ NoneParsed(state) /\ KeptOK

\* What the last operation of a group went through and nobody else calls is the
\* group's own.
LEMMA TakenIsOwn ==
  ASSUME TypeOK, NEW g \in Group, NEW ops, ops \subseteq Op,
         NEW r \in Under(ops, taken[g]), r \notin Outside(g)
  PROVE  r \in Under(ops, kept[g]) /\ r \in OwnOf(kept, g)
<1>1. kept \in Kepts /\ \A h \in Group : kept[h] = taken[h] \ Movable
  BY KeptIs
<1>2. \A h \in Group : taken[h] \subseteq Resource
  BY DEF TypeOK
<1> DEFINE S == Direct \cup Movable \cup UNION {taken[h] : h \in Group \ {g}}
<1>3. S \subseteq Resource
  BY <1>2, CommonIs
<1>4. Outside(g) = Under(Op, S)
  BY DEF Outside
<1>5. /\ S \subseteq Outside(g) /\ Outside(g) \subseteq Resource /\ Shut(Op, Outside(g))
  BY <1>3, <1>4, UnderHas, UnderShut
<1>6. Movable \subseteq Outside(g) /\ Direct \cup Movable \subseteq S
      /\ \A h \in Group \ {g} : kept[h] \subseteq S
  BY <1>1, <1>5
<1> HIDE DEF S
<1>7. \A op \in {ops, Op} : Under(op, taken[g]) \subseteq Under(op, kept[g]) \cup Outside(g)
  <2> SUFFICES ASSUME NEW o \in {ops, Op}
               PROVE  Under(o, taken[g]) \subseteq Under(o, kept[g]) \cup Outside(g)
    OBVIOUS
  <2>0. o \subseteq Op
    OBVIOUS
  <2>1. Shut(o, Under(o, kept[g])) /\ kept[g] \subseteq Under(o, kept[g])
        /\ Under(o, kept[g]) \subseteq Resource
    <3>1. kept[g] \subseteq Resource
      BY <1>1, <1>2
    <3>2. QED
      BY <2>0, <3>1, UnderHas, UnderShut
  <2>2. Shut(o, Outside(g))
    BY <1>5, <2>0, ShutLess
  <2>3. Shut(o, Under(o, kept[g]) \cup Outside(g))
    BY <2>1, <2>2, ShutBoth
  <2>4. taken[g] \subseteq Under(o, kept[g]) \cup Outside(g)
    BY <1>1, <1>6, <2>1
  <2>5. Under(o, kept[g]) \cup Outside(g) \subseteq Resource
    BY <1>5, <2>1
  <2>6. QED
    BY <2>3, <2>4, <2>5, UnderLeast
<1>8. r \in Under(Op, taken[g])
  BY <1>2, UnderMore
<1>9. r \in Under(ops, kept[g]) /\ r \in Under(Op, kept[g])
  BY <1>7, <1>8
<1>10. AwayFrom(kept, g) \subseteq Outside(g)
  <2>1. Common \subseteq Outside(g)
    BY <1>3, <1>4, <1>6, UnderMore DEF Common
  <2>2. \A h \in Group \ {g} : Under(Op, kept[h]) \subseteq Outside(g)
    BY <1>3, <1>4, <1>6, UnderMore
  <2>3. QED
    BY <2>1, <2>2 DEF AwayFrom
<1>11. QED
  BY <1>9, <1>10 DEF OwnOf

LEMMA WholeImplies ==
  ASSUME TypeOK, WholeInv
  PROVE  GroupIsWhole
<1> SUFFICES ASSUME NEW g \in Group, NEW r \in Under(Op, taken[g]) \ Outside(g)
             PROVE  /\ state[g] = "loaded" /\ r \in Under({"load"}, taken[g]) => state[r] = "loaded"
                    /\ state[g] = "prepared" => state[r] \in {"prepared", "loaded"}
                    /\ state[g] \in {"unloaded", "parsed"} /\ r \in Under({"unload"}, taken[g])
                         => state[r] = "unloaded"
  BY DEF GroupIsWhole
<1>1. r \in OwnOf(kept, g)
  BY TakenIsOwn
<1>2. {"load"} \subseteq Op /\ {"unload"} \subseteq Op
  BY DEF Op
<1>3. r \in Under({"load"}, taken[g]) => r \in Under({"load"}, kept[g])
  BY <1>2, TakenIsOwn
<1>4. r \in Under({"unload"}, taken[g]) => r \in UndoneOf(kept, g)
  BY <1>1, <1>2, TakenIsOwn DEF UndoneOf
<1>5. SteadyOK(kept, state, g)
  BY DEF WholeInv
<1>6. QED
  BY <1>1, <1>3, <1>4, <1>5 DEF SteadyOK


-----------------------------------------------------------------------------
(* Calls and those that call them *)

LEMMA HeadStage ==
  ASSUME NEW f \in Frame, CallOK(f), f.op # "parse", f.at \in {"parse", "list", "methods"}
  PROVE  /\ f.op \in Op /\ f.stages # << >> /\ Head(f.stages) \in Op
         /\ Head(f.stages) = "unload" <=> f.op = "unload"
         /\ Head(f.stages) = "load" => f.op = "load"
         /\ Len(f.stages) = 1 => Head(f.stages) = f.op
<1>1. f.op \in Op
  BY DEF Frame
<1>2. f.stages = <<f.op>> \/ (f.op = "load" /\ f.stages = <<"prepare", "load">>)
  BY DEF CallOK
<1>3. CASE f.stages = <<f.op>>
  BY <1>1, <1>3
<1>4. CASE f.op = "load" /\ f.stages = <<"prepare", "load">>
  BY <1>1, <1>4 DEF Op
<1>5. QED
  BY <1>2, <1>3, <1>4

\* Only the innermost call is not in its class methods, only the outermost is
\* one of a group.
LEMMA StackShape ==
  ASSUME NEW K, NEW T, NEW st \in Seq(Frame), StackOK(K, T, st), NEW i \in 1 .. Len(st)
  PROVE  /\ i # Len(st) => st[i].at = "methods" /\ Claimed(st[i])
         /\ i # 1 => /\ st[i].x \in Resource /\ st[i].x \notin Group /\ AboveOK(K, st, i)
                     /\ st[1].at = "methods" /\ Claimed(st[1])
         /\ 1 \in 1 .. Len(st)
         /\ st[1].x \in Group \cup Direct
<1>1. Len(st) \in Nat /\ i \in Nat /\ i >= 1 /\ i <= Len(st)
  OBVIOUS
<1>2. \A j \in 2 .. Len(st) : AboveOK(K, st, j)
  BY DEF StackOK
<1>3. ASSUME i # Len(st) PROVE st[i].at = "methods" /\ Claimed(st[i])
  <2>1. i + 1 \in 2 .. Len(st) /\ i + 1 - 1 = i
    BY <1>1, <1>3
  <2>2. AboveOK(K, st, i + 1)
    BY <1>2, <2>1
  <2>3. st[i].at = "methods"
    BY <2>1, <2>2 DEF AboveOK
  <2>4. QED
    BY <2>3 DEF Claimed
<1>4. ASSUME i # 1
      PROVE  /\ st[i].x \in Resource /\ st[i].x \notin Group /\ AboveOK(K, st, i)
             /\ st[1].at = "methods" /\ Claimed(st[1])
  <2>1. i \in 2 .. Len(st) /\ 2 \in 2 .. Len(st) /\ 2 - 1 = 1
    BY <1>1, <1>4
  <2>2. AboveOK(K, st, i) /\ AboveOK(K, st, 2)
    BY <1>2, <2>1
  <2>3. st[i].x \in Resource /\ st[1].at = "methods"
    BY <2>1, <2>2 DEF AboveOK
  <2>4. QED
    BY <2>2, <2>3, ResourceAssumption DEF Claimed
<1>5. 1 \in 1 .. Len(st) /\ Len(st) > 0
  BY <1>1
<1>6. QED
  BY <1>3, <1>4, <1>5 DEF StackOK

LEMMA StacksAre ==
  ASSUME IInv, WholeInv, NEW t \in Thread
  PROVE  /\ stack[t] \in Seq(Frame) /\ StackOK(kept, taken, stack[t])
         /\ kept \in Kepts
         /\ \A i \in 1 .. Len(stack[t]) :
              stack[t][i] \in Frame /\ CallOK(stack[t][i]) /\ ClaimOK(stack[t][i])
<1>1. stack[t] \in Seq(Frame)
  BY FrameType DEF IInv
<1>2. \A i \in 1 .. Len(stack[t]) : stack[t][i] \in Frame
  BY <1>1, ElementOfSeq
<1>3. QED
  BY <1>1, <1>2, KeptIs DEF IInv, FramesOK, WholeInv

\* Whoever calls what is a group's own is called by the group.
LEMMA OwnBase ==
  ASSUME IInv, WholeInv, NEW t \in Thread, NEW i \in 1 .. Len(stack[t]),
         NEW g \in Group, stack[t][i].x \in OwnOf(kept, g)
  PROVE  /\ i # 1 /\ 1 \in 1 .. Len(stack[t])
         /\ stack[t][1].x = g /\ stack[t][1].at = "methods" /\ Claimed(stack[t][1])
         /\ stack[t][1].op \in Op /\ state[g] = During[stack[t][1].op]
         /\ stack[t][i].op \in Op
         /\ stack[t][i].op = "unload" <=> state[g] = "unloading"
         /\ stack[t][i].op = "unload" => stack[t][i].x \in UndoneOf(kept, g)
<1> DEFINE st == stack[t]
           x == st[i].x
<1>1. st \in Seq(Frame) /\ StackOK(kept, taken, st) /\ kept \in Kepts
      /\ \A j \in 1 .. Len(st) : st[j] \in Frame /\ CallOK(st[j]) /\ ClaimOK(st[j])
  BY StacksAre
<1>2. x \in Resource /\ x \notin Common /\ x \notin Direct /\ x \notin Group
  BY <1>1, OwnIs
<1> HIDE DEF st
<1>3. i \in 1 .. Len(st)
  BY DEF st
<1>4. i # 1
  BY <1>1, <1>2, <1>3, StackShape
<1>5. /\ AboveOK(kept, st, i) /\ st[1].at = "methods" /\ Claimed(st[1]) /\ 1 \in 1 .. Len(st)
  BY <1>1, <1>3, <1>4, StackShape
<1>6. st[1].x \in Group /\ x \in Under(Op, kept[st[1].x])
  BY <1>2, <1>5 DEF AboveOK, Within
<1>7. st[1].x = g
  BY <1>1, <1>6, OwnOfOne DEF st
<1>8. st[1].op \in Op /\ state[g] = During[st[1].op]
  <2>1. st[1].op # "parse"
    BY <1>1, <1>5 DEF CallOK
  <2>2. st[1].op \in Op
    BY <1>1, <1>5, <2>1 DEF Frame
  <2>3. QED
    BY <1>1, <1>5, <1>7, <2>2 DEF ClaimOK
<1>9. st[i].op \in Op
  <2>1. st[i].op # "parse"
    BY <1>1, <1>2, <1>3 DEF CallOK
  <2>2. QED
    BY <1>1, <1>3, <2>1 DEF Frame
<1>10. 1 \in 1 .. i - 1
  BY <1>1, <1>3, <1>4
<1>11. st[i].op = "unload" <=> st[1].op = "unload"
  BY <1>5, <1>10 DEF AboveOK
<1>12. During[st[1].op] = "unloading" <=> st[1].op = "unload"
  BY <1>8 DEF During, Op
<1>13. st[i].op = "unload" => x \in UndoneOf(kept, g)
  <2>1. st[i].op = "unload" => x \in Under({"unload"}, kept[g])
    BY <1>2, <1>5, <1>7 DEF AboveOK, Within
  <2>2. QED
    BY <2>1 DEF UndoneOf, st
<1>14. QED
  BY <1>4, <1>5, <1>7, <1>8, <1>9, <1>11, <1>12, <1>13 DEF st

LEMMA OneBase ==
  ASSUME IInv, WholeInv, NEW t \in Thread, NEW i \in 1 .. Len(stack[t]),
         NEW u \in Thread, NEW j \in 1 .. Len(stack[u]),
         NEW g \in Group, stack[t][i].x \in OwnOf(kept, g), stack[u][j].x \in OwnOf(kept, g)
  PROVE  t = u
<1>1. 1 \in 1 .. Len(stack[t]) /\ stack[t][1].x = g /\ Claimed(stack[t][1])
  BY OwnBase
<1>2. 1 \in 1 .. Len(stack[u]) /\ stack[u][1].x = g /\ Claimed(stack[u][1])
  BY OwnBase
<1>3. QED
  BY <1>1, <1>2, OneCall DEF IInv

-----------------------------------------------------------------------------
(* An object's state goes on *)

\* Operation o claims x, or is done with it.
StepAt(s, s2, x, o) ==
  /\ \/ s[x] \in From(o, x) /\ s2[x] = During[o]
     \/ s[x] = During[o] /\ s2[x] = After[o]
  /\ \A y \in Object \ {x} : s2[y] = s[y]

LEMMA Improves ==
  ASSUME NEW s, NEW s2, NEW x \in Resource, NEW o \in Op, NEW h \in Op,
         StepAt(s, s2, x, o), h = "unload" <=> o = "unload", s[x] \in Better[h]
  PROVE  s2[x] \in Better[h]
<1>1. x \notin Group
  BY ResourceAssumption
<1>2. CASE s[x] = During[o] /\ s2[x] = After[o]
  <2>1. CASE o = "prepare"
    BY <1>2, <2>1 DEF Better, During, After, Op, Transient
  <2>2. CASE o = "load"
    BY <1>2, <2>2 DEF Better, During, After, Op, Transient
  <2>3. CASE o = "unload"
    BY <1>2, <2>3 DEF Better, During, After, Op, Transient
  <2>4. QED
    BY <2>1, <2>2, <2>3 DEF Op
<1>3. CASE s[x] \in From(o, x) /\ s2[x] = During[o]
  <2>1. CASE o = "prepare"
    BY <1>1, <1>3, <2>1 DEF Better, During, From, Op, Transient
  <2>2. CASE o = "load"
    BY <1>1, <1>3, <2>2 DEF Better, During, From, Op, Transient
  <2>3. CASE o = "unload"
    BY <1>1, <1>3, <2>3 DEF Better, During, From, Op, Transient
  <2>4. QED
    BY <2>1, <2>2, <2>3 DEF Op
<1>4. QED
  BY <1>2, <1>3 DEF StepAt

\* What a step at a resource leaves of the others.
LEMMA OthersStay ==
  ASSUME NEW s, NEW s2, NEW x, NEW o, StepAt(s, s2, x, o), NEW y \in Object, y # x
  PROVE  s2[y] = s[y]
BY DEF StepAt

LEMMA ResourceStepShut ==
  ASSUME NEW K \in Kepts, NEW g \in Group, NEW s, NEW s2, NEW d, NEW x \in Resource, NEW o \in Op,
         StepAt(s, s2, x, o),
         x \in OwnOf(K, g) => /\ o = "unload" <=> s[g] = "unloading"
                              /\ o = "unload" => x \in UndoneOf(K, g),
         ShutOK(K, s, d, g)
  PROVE  ShutOK(K, s2, d, g)
<1>1. g \in Object /\ g # x /\ s2[g] = s[g]
  <2>1. g \in Object /\ g # x
    BY ResourceAssumption DEF Object
  <2>2. QED
    BY <2>1, OthersStay
<1>2. \A h \in Op : \A c \in OwnOf(K, g) :
        s[c] \in Better[h] => s2[c] \in Better[h] \/ (c = x /\ ~ (h = "unload" <=> o = "unload"))
  <2> SUFFICES ASSUME NEW h \in Op, NEW c \in OwnOf(K, g), s[c] \in Better[h]
               PROVE  s2[c] \in Better[h] \/ (c = x /\ ~ (h = "unload" <=> o = "unload"))
    OBVIOUS
  <2>1. c \in Object
    BY OwnIs DEF Object
  <2>2. CASE c # x
    BY <2>1, <2>2, OthersStay
  <2>3. CASE c = x
    BY <2>3, Improves
  <2>4. QED
    BY <2>2, <2>3
<1>3. "prepare" \in Op /\ "load" \in Op /\ "unload" \in Op
  BY DEF Op
<1>4. \A h \in {"prepare", "load"} : \A c \in OwnOf(K, g) :
        s[c] \in Better[h] => s2[c] \in Better[h] \/ (c \in UndoneOf(K, g) /\ s[g] = "unloading")
  BY <1>2, <1>3
<1>5. s[g] = "unloading" => \A c \in OwnOf(K, g) :
        s[c] \in Better["unload"] => s2[c] \in Better["unload"]
  BY <1>2, <1>3
<1>6. UndoneOf(K, g) \subseteq OwnOf(K, g)
  BY OwnIs
<1>7. ASSUME NEW r \in OwnOf(K, g), d[r] # "none", NEW c \in Calls("prepare", r) \cap OwnOf(K, g)
      PROVE  s2[c] \in Better["prepare"] \/ c \in UndoneOf(K, g)
  BY <1>4, <1>7 DEF ShutOK
<1>8. ASSUME NEW r \in OwnOf(K, g), d[r] = "loaded", NEW c \in Calls("load", r) \cap OwnOf(K, g)
      PROVE  s2[c] \in Better["load"] \/ c \in UndoneOf(K, g)
  BY <1>4, <1>8 DEF ShutOK
<1>9. ASSUME s2[g] # "unloading", NEW r \in UndoneOf(K, g), d[r] # "none",
             NEW c \in Calls("unload", r) \cap OwnOf(K, g)
      PROVE  s2[c] \in Better["prepare"]
  BY <1>1, <1>4, <1>9 DEF ShutOK
<1>10. ASSUME s2[g] # "unloading", NEW r \in UndoneOf(K, g), d[r] = "loaded",
              NEW c \in Calls("unload", r) \cap OwnOf(K, g)
       PROVE  s2[c] \in Better["load"]
  BY <1>1, <1>4, <1>10 DEF ShutOK
<1>11. ASSUME s2[g] = "unloading", NEW r \in UndoneOf(K, g), d[r] = "none",
              NEW c \in Calls("unload", r) \cap OwnOf(K, g)
       PROVE  s2[c] \in Better["unload"]
  BY <1>1, <1>5, <1>11 DEF ShutOK
<1>12. QED
  BY <1>7, <1>8, <1>9, <1>10, <1>11 DEF ShutOK

LEMMA ResourceStepSteady ==
  ASSUME NEW K \in Kepts, NEW g \in Group, NEW s, NEW s2, NEW x \in Resource, NEW o,
         StepAt(s, s2, x, o),
         x \in OwnOf(K, g) => s[g] \in {"preparing", "loading", "unloading"},
         SteadyOK(K, s, g)
  PROVE  SteadyOK(K, s2, g)
<1>1. g \in Object /\ g # x /\ s2[g] = s[g]
  <2>1. g \in Object /\ g # x
    BY ResourceAssumption DEF Object
  <2>2. QED
    BY <2>1, OthersStay
<1>2. CASE x \in OwnOf(K, g)
  BY <1>1, <1>2 DEF SteadyOK
<1>3. CASE x \notin OwnOf(K, g)
  <2>1. \A c \in OwnOf(K, g) : s2[c] = s[c]
    <3> SUFFICES ASSUME NEW c \in OwnOf(K, g) PROVE s2[c] = s[c]
      OBVIOUS
    <3>1. c \in Object /\ c # x
      BY <1>3, OwnIs DEF Object
    <3>2. QED
      BY <3>1, OthersStay
  <2>2. UndoneOf(K, g) \subseteq OwnOf(K, g)
    BY OwnIs
  <2>3. QED
    BY <1>1, <2>1, <2>2 DEF SteadyOK
<1>4. QED
  BY <1>2, <1>3

\* A group whose state is what it was, and whose resources are.
LEMMA GroupStays ==
  ASSUME NEW K \in Kepts, NEW g \in Group, NEW s, NEW s2, NEW d,
         s2[g] = s[g], \A r \in Resource : s2[r] = s[r],
         ShutOK(K, s, d, g), SteadyOK(K, s, g)
  PROVE  ShutOK(K, s2, d, g) /\ SteadyOK(K, s2, g)
<1>1. \A c \in OwnOf(K, g) : s2[c] = s[c]
  BY OwnIs
<1>2. UndoneOf(K, g) \subseteq OwnOf(K, g)
  BY OwnIs
<1>3. ShutOK(K, s2, d, g)
  BY <1>1, <1>2 DEF ShutOK
<1>4. SteadyOK(K, s2, g)
  BY <1>1, <1>2 DEF SteadyOK
<1>5. QED
  BY <1>3, <1>4

-----------------------------------------------------------------------------
(* A group's state goes on *)

LEMMA LoadReaches ==
  ASSUME NEW K \in Kepts, NEW g \in Group
  PROVE  UndoneOf(K, g) \subseteq Under({"load"}, K[g])
<1>1. K[g] \subseteq Resource /\ {"load"} \subseteq Op /\ {"unload"} \subseteq Op
  BY ReachIs DEF Op
<1>2. /\ K[g] \subseteq Under({"load"}, K[g]) /\ Under({"load"}, K[g]) \subseteq Resource
      /\ Shut({"load"}, Under({"load"}, K[g]))
  BY <1>1, UnderHas, UnderShut
<1>3. Shut({"unload"}, Under({"load"}, K[g]))
  BY <1>2, CallsNest DEF Shut
<1>4. Under({"unload"}, K[g]) \subseteq Under({"load"}, K[g])
  BY <1>2, <1>3, UnderLeast
<1>5. QED
  BY <1>4 DEF UndoneOf

\* What a resource is made into is what its state says.
Says(s, d, r) ==
  /\ s[r] = "unloaded" => d[r] = "none"
  /\ s[r] \in {"prepared", "loaded"} => d[r] = s[r]

LEMMA GroupClaims ==
  ASSUME NEW K \in Kepts, NEW g \in Group, NEW s, NEW s2, NEW d, NEW o \in Op \cup {"parse"},
         s[g] \in From(o, g), s2[g] = During[o], \A r \in Resource : s2[r] = s[r],
         \A r \in Resource : Says(s, d, r),
         ShutOK(K, s, d, g), SteadyOK(K, s, g)
  PROVE  ShutOK(K, s2, d, g) /\ SteadyOK(K, s2, g)
<1>1. \A c \in OwnOf(K, g) : s2[c] = s[c] /\ Says(s, d, c)
  BY OwnIs
<1>2. UndoneOf(K, g) \subseteq OwnOf(K, g) /\ UndoneOf(K, g) \subseteq Under({"load"}, K[g])
  BY OwnIs, LoadReaches
<1>3. /\ s[g] # "unloading"
      /\ s2[g] = "unloading" => s[g] \in {"loaded", "prepared", "parsed"}
      /\ s2[g] \in {"preparing", "loading", "unloading", "parsing"}
      /\ s2[g] = "parsing" => s[g] = "unloaded"
  <2>1. CASE o = "prepare"
    BY <2>1 DEF During, From, Op
  <2>2. CASE o = "load"
    BY <2>2 DEF During, From, Op
  <2>3. CASE o = "unload"
    BY <2>3 DEF During, From, Op
  <2>4. CASE o = "parse"
    BY <2>4 DEF During, From, Op
  <2>5. QED
    BY <2>1, <2>2, <2>3, <2>4 DEF Op
<1>4. ASSUME s2[g] = "unloading", NEW r \in UndoneOf(K, g), d[r] = "none",
             NEW c \in Calls("unload", r) \cap OwnOf(K, g)
      PROVE  s2[c] \in Better["unload"]
  <2>1. s[g] \notin {"loaded", "prepared"}
    <3>1. s[r] \notin {"prepared", "loaded"}
      BY <1>1, <1>2, <1>4 DEF Says
    <3>2. r \in OwnOf(K, g) \cap Under({"load"}, K[g])
      BY <1>2
    <3>3. QED
      BY <3>1, <3>2 DEF SteadyOK
  <2>2. s[g] = "parsed"
    BY <1>3, <1>4, <2>1
  <2>3. c \in UndoneOf(K, g)
    BY UndoneCalls
  <2>4. s[c] = "unloaded"
    BY <2>2, <2>3 DEF SteadyOK
  <2>5. QED
    BY <1>1, <2>4 DEF Better
<1>5. ShutOK(K, s2, d, g)
  <2>1. ShutOK(K, s2, d, g) <=> 
          /\ \A r \in OwnOf(K, g) : d[r] # "none" =>
               \A c \in Calls("prepare", r) \cap OwnOf(K, g) :
                 s[c] \in Better["prepare"] \/ c \in UndoneOf(K, g)
          /\ \A r \in OwnOf(K, g) : d[r] = "loaded" =>
               \A c \in Calls("load", r) \cap OwnOf(K, g) :
                 s[c] \in Better["load"] \/ c \in UndoneOf(K, g)
          /\ s2[g] # "unloading" => \A r \in UndoneOf(K, g) :
               /\ d[r] # "none" =>
                    \A c \in Calls("unload", r) \cap OwnOf(K, g) : s[c] \in Better["prepare"]
               /\ d[r] = "loaded" =>
                    \A c \in Calls("unload", r) \cap OwnOf(K, g) : s[c] \in Better["load"]
          /\ s2[g] = "unloading" => \A r \in UndoneOf(K, g) : d[r] = "none" =>
               \A c \in Calls("unload", r) \cap OwnOf(K, g) : s2[c] \in Better["unload"]
    BY <1>1 DEF ShutOK
  <2>2. QED
    BY <1>3, <1>4, <2>1 DEF ShutOK
<1>6. SteadyOK(K, s2, g)
  BY <1>1, <1>2, <1>3 DEF SteadyOK
<1>7. QED
  BY <1>5, <1>6

\* Nothing of what is the group's own is being worked on.
Settled(K, s, d, g) ==
  \A r \in OwnOf(K, g) : s[r] \in {"unloaded", "prepared", "loaded"} /\ Says(s, d, r)

\* Done with what it has kept, a group is done with all that is its own.
LEMMA LoadedAll ==
  ASSUME NEW K \in Kepts, NEW g \in Group, NEW s, NEW d,
         Settled(K, s, d, g), ShutOK(K, s, d, g), s[g] # "unloading",
         \A c \in K[g] \cap OwnOf(K, g) : s[c] \in Better["load"]
  PROVE  \A r \in OwnOf(K, g) \cap Under({"load"}, K[g]) : s[r] = "loaded"
<1>1. /\ OwnOf(K, g) \subseteq Resource /\ UndoneOf(K, g) \subseteq OwnOf(K, g)
      /\ K[g] \subseteq Under(Op, K[g]) /\ Shut(Op, Under(Op, K[g]))
      /\ K[g] \subseteq Under({"unload"}, K[g])
      /\ {"load"} \subseteq Op /\ {"unload"} \subseteq Op
  BY OwnIs, ReachIs, ReachUnload DEF Op
<1>2. \A c \in OwnOf(K, g) : s[c] \in Better["load"] => s[c] = "loaded" /\ d[c] = "loaded"
  BY DEF Settled, Says, Better
<1>3. UndoneOf(K, g) \subseteq {r \in UndoneOf(K, g) : s[r] = "loaded"}
  <2> DEFINE X == {r \in UndoneOf(K, g) : s[r] = "loaded"}
  <2>1. \A r \in K[g] : r \in AwayFrom(K, g) \/ r \in X
    BY <1>1, <1>2 DEF OwnOf, UndoneOf
  <2>2. ASSUME NEW r \in X, NEW c \in Calls("unload", r), c \notin AwayFrom(K, g)
        PROVE  c \in X
    <3>1. c \in OwnOf(K, g)
      <4>1. r \in Under(Op, K[g]) /\ "unload" \in Op
        BY <1>1 DEF OwnOf
      <4>2. c \in Under(Op, K[g])
        BY <1>1, <4>1 DEF Shut
      <4>3. QED
        BY <2>2, <4>2 DEF OwnOf
    <3>2. r \in UndoneOf(K, g) /\ d[r] = "loaded"
      BY <1>1 DEF Settled, Says
    <3>3. s[c] \in Better["load"]
      BY <3>1, <3>2 DEF ShutOK
    <3>4. QED
      BY <1>2, <3>1, <3>2, <3>3, UndoneCalls
  <2>3. X \subseteq Resource
    BY <1>1
  <2> HIDE DEF X
  <2>4. Under({"unload"}, K[g]) \cap OwnOf(K, g) \subseteq X
    BY <1>1, <2>1, <2>2, <2>3, OwnAll
  <2>5. QED
    BY <2>4 DEF X, UndoneOf
<1>4. QED
  <2> DEFINE X == {r \in OwnOf(K, g) : s[r] = "loaded"}
  <2>1. \A r \in K[g] : r \in AwayFrom(K, g) \/ r \in X
    BY <1>1, <1>2 DEF OwnOf
  <2>2. ASSUME NEW r \in X, NEW c \in Calls("load", r), c \notin AwayFrom(K, g)
        PROVE  c \in X
    <3>1. c \in OwnOf(K, g)
      <4>1. r \in Under(Op, K[g]) /\ "load" \in Op
        BY <1>1 DEF OwnOf
      <4>2. c \in Under(Op, K[g])
        BY <1>1, <4>1 DEF Shut
      <4>3. QED
        BY <2>2, <4>2 DEF OwnOf
    <3>2. r \in OwnOf(K, g) /\ d[r] = "loaded"
      BY <1>1 DEF Settled, Says
    <3>3. s[c] \in Better["load"] \/ c \in UndoneOf(K, g)
      BY <3>1, <3>2 DEF ShutOK
    <3>4. QED
      BY <1>2, <1>3, <3>1, <3>3
  <2>3. X \subseteq Resource
    BY <1>1
  <2> HIDE DEF X
  <2>4. Under({"load"}, K[g]) \cap OwnOf(K, g) \subseteq X
    BY <1>1, <2>1, <2>2, <2>3, OwnAll
  <2>5. QED
    BY <2>4 DEF X

LEMMA PreparedAll ==
  ASSUME NEW K \in Kepts, NEW g \in Group, NEW s, NEW d,
         Settled(K, s, d, g), ShutOK(K, s, d, g), s[g] # "unloading",
         \A c \in K[g] \cap OwnOf(K, g) : s[c] \in Better["prepare"]
  PROVE  \A r \in OwnOf(K, g) : s[r] \in {"prepared", "loaded"}
<1>1. /\ OwnOf(K, g) \subseteq Resource /\ UndoneOf(K, g) \subseteq OwnOf(K, g)
      /\ OwnOf(K, g) \subseteq Under(Op, K[g])
      /\ K[g] \subseteq Under(Op, K[g]) /\ Shut(Op, Under(Op, K[g]))
      /\ K[g] \subseteq Under({"unload"}, K[g])
      /\ {"unload"} \subseteq Op /\ Op \subseteq Op
  BY OwnIs, ReachIs, ReachUnload DEF Op, OwnOf
<1>2. \A c \in OwnOf(K, g) :
        s[c] \in Better["prepare"] => s[c] \in {"prepared", "loaded"} /\ d[c] # "none"
  BY DEF Settled, Says, Better, Transient
<1>3. UndoneOf(K, g) \subseteq {r \in UndoneOf(K, g) : s[r] \in {"prepared", "loaded"}}
  <2> DEFINE X == {r \in UndoneOf(K, g) : s[r] \in {"prepared", "loaded"}}
  <2>1. \A r \in K[g] : r \in AwayFrom(K, g) \/ r \in X
    BY <1>1, <1>2 DEF OwnOf, UndoneOf
  <2>2. ASSUME NEW r \in X, NEW c \in Calls("unload", r), c \notin AwayFrom(K, g)
        PROVE  c \in X
    <3>1. c \in OwnOf(K, g)
      <4>1. r \in Under(Op, K[g]) /\ "unload" \in Op
        BY <1>1
      <4>2. c \in Under(Op, K[g])
        BY <1>1, <4>1 DEF Shut
      <4>3. QED
        BY <2>2, <4>2 DEF OwnOf
    <3>2. r \in UndoneOf(K, g) /\ d[r] # "none"
      BY <1>1 DEF Settled, Says
    <3>3. s[c] \in Better["prepare"]
      BY <3>1, <3>2 DEF ShutOK
    <3>4. QED
      BY <1>2, <3>1, <3>2, <3>3, UndoneCalls
  <2>3. X \subseteq Resource
    BY <1>1
  <2> HIDE DEF X
  <2>4. Under({"unload"}, K[g]) \cap OwnOf(K, g) \subseteq X
    BY <1>1, <2>1, <2>2, <2>3, OwnAll
  <2>5. QED
    BY <2>4 DEF X, UndoneOf
<1>4. QED
  <2> DEFINE X == {r \in OwnOf(K, g) : s[r] \in {"prepared", "loaded"}}
  <2>1. \A r \in K[g] : r \in AwayFrom(K, g) \/ r \in X
    BY <1>1, <1>2 DEF OwnOf
  <2>2. ASSUME NEW r \in X, NEW op \in Op, NEW c \in Calls(op, r), c \notin AwayFrom(K, g)
        PROVE  c \in X
    <3>1. c \in OwnOf(K, g)
      <4>1. r \in Under(Op, K[g])
        BY <1>1
      <4>2. c \in Under(Op, K[g])
        BY <1>1, <4>1 DEF Shut
      <4>3. QED
        BY <2>2, <4>2 DEF OwnOf
    <3>2. r \in OwnOf(K, g) /\ d[r] # "none" /\ c \in Calls("prepare", r)
      <4>1. r \in OwnOf(K, g) /\ r \in Resource
        BY <1>1
      <4>2. QED
        BY <4>1, CallsNest DEF Op, Settled, Says
    <3>3. s[c] \in Better["prepare"] \/ c \in UndoneOf(K, g)
      BY <3>1, <3>2 DEF ShutOK
    <3>4. QED
      BY <1>2, <1>3, <3>1, <3>3
  <2>3. X \subseteq Resource
    BY <1>1
  <2> HIDE DEF X
  <2>4. Under(Op, K[g]) \cap OwnOf(K, g) \subseteq X
    BY <1>1, <2>1, <2>2, <2>3, OwnAll
  <2>5. QED
    BY <1>1, <2>4 DEF X

LEMMA UnloadedAll ==
  ASSUME NEW K \in Kepts, NEW g \in Group, NEW s, NEW d,
         Settled(K, s, d, g), ShutOK(K, s, d, g), s[g] = "unloading",
         \A c \in K[g] \cap OwnOf(K, g) : s[c] \in Better["unload"]
  PROVE  \A r \in UndoneOf(K, g) : s[r] = "unloaded" /\ d[r] = "none"
<1>1. /\ OwnOf(K, g) \subseteq Resource /\ UndoneOf(K, g) \subseteq OwnOf(K, g)
      /\ OwnOf(K, g) \subseteq Under(Op, K[g])
      /\ K[g] \subseteq Under(Op, K[g]) /\ Shut(Op, Under(Op, K[g]))
      /\ K[g] \subseteq Under({"unload"}, K[g])
      /\ {"unload"} \subseteq Op
  BY OwnIs, ReachIs, ReachUnload DEF Op, OwnOf
<1>2. \A c \in OwnOf(K, g) : s[c] \in Better["unload"] => s[c] = "unloaded" /\ d[c] = "none"
  BY DEF Settled, Says, Better
<1> DEFINE X == {r \in UndoneOf(K, g) : s[r] = "unloaded" /\ d[r] = "none"}
<1>3. \A r \in K[g] : r \in AwayFrom(K, g) \/ r \in X
  BY <1>1, <1>2 DEF OwnOf, UndoneOf
<1>4. ASSUME NEW r \in X, NEW c \in Calls("unload", r), c \notin AwayFrom(K, g)
      PROVE  c \in X
  <2>1. c \in OwnOf(K, g)
    <3>1. r \in Under(Op, K[g]) /\ "unload" \in Op
      BY <1>1
    <3>2. c \in Under(Op, K[g])
      BY <1>1, <3>1 DEF Shut
    <3>3. QED
      BY <1>4, <3>2 DEF OwnOf
  <2>2. s[c] \in Better["unload"]
    BY <2>1 DEF ShutOK
  <2>3. QED
    BY <1>2, <2>1, <2>2, UndoneCalls
<1>5. X \subseteq Resource
  BY <1>1
<1> HIDE DEF X
<1>6. Under({"unload"}, K[g]) \cap OwnOf(K, g) \subseteq X
  BY <1>1, <1>3, <1>4, <1>5, OwnAll
<1>7. QED
  BY <1>6 DEF X, UndoneOf

LEMMA GroupDone ==
  ASSUME NEW K \in Kepts, NEW g \in Group, NEW s, NEW s2, NEW d, NEW o \in Op \cup {"parse"},
         s[g] = During[o], s2[g] = After[o], \A r \in Resource : s2[r] = s[r],
         Settled(K, s, d, g), ShutOK(K, s, d, g), SteadyOK(K, s, g),
         o # "parse" => \A c \in K[g] \cap OwnOf(K, g) : s[c] \in Better[o]
  PROVE  ShutOK(K, s2, d, g) /\ SteadyOK(K, s2, g)
<1>1. \A c \in OwnOf(K, g) : s2[c] = s[c]
  BY OwnIs
<1>2. UndoneOf(K, g) \subseteq OwnOf(K, g)
  BY OwnIs
<1>3. CASE o = "unload"
  <2>1. s[g] = "unloading" /\ s2[g] = "unloaded"
    BY <1>3 DEF During, After
  <2>2. \A r \in UndoneOf(K, g) : s[r] = "unloaded" /\ d[r] = "none"
    BY <1>3, <2>1, UnloadedAll
  <2>3. ShutOK(K, s2, d, g)
    BY <1>1, <1>2, <2>1, <2>2 DEF ShutOK
  <2>4. SteadyOK(K, s2, g)
    BY <1>1, <1>2, <2>1, <2>2 DEF SteadyOK
  <2>5. QED
    BY <2>3, <2>4
<1>4. CASE o # "unload"
  <2>1. /\ o = "prepare" => s[g] = "preparing" /\ s2[g] = "prepared"
        /\ o = "load" => s[g] = "loading" /\ s2[g] = "loaded"
        /\ o = "parse" => s[g] = "parsing" /\ s2[g] = "parsed"
    BY DEF During, After
  <2>2. o \in {"prepare", "load", "parse"}
    BY <1>4 DEF Op
  <2>3. s[g] # "unloading" /\ s2[g] # "unloading"
    BY <2>1, <2>2
  <2>4. ShutOK(K, s2, d, g)
    BY <1>1, <1>2, <2>3 DEF ShutOK
  <2>5. SteadyOK(K, s2, g)
    <3>1. CASE o = "prepare"
      <4>1. \A r \in OwnOf(K, g) : s[r] \in {"prepared", "loaded"}
        BY <2>3, <3>1, PreparedAll
      <4>2. QED
        BY <1>1, <2>1, <3>1, <4>1 DEF SteadyOK
    <3>2. CASE o = "load"
      <4>1. \A r \in OwnOf(K, g) \cap Under({"load"}, K[g]) : s[r] = "loaded"
        BY <2>3, <3>2, LoadedAll
      <4>2. QED
        BY <1>1, <2>1, <3>2, <4>1 DEF SteadyOK
    <3>3. CASE o = "parse"
      BY <1>1, <1>2, <2>1, <3>3 DEF SteadyOK
    <3>4. QED
      BY <2>2, <3>1, <3>2, <3>3
  <2>6. QED
    BY <2>4, <2>5
<1>5. QED
  BY <1>3, <1>4

\* What a call is told by one that returns is so for what the group has kept
\* and for what it reaches.
LEMMA MadeShut ==
  ASSUME NEW K \in Kepts, NEW g \in Group, NEW s, NEW d, NEW d2, NEW x \in Resource, NEW h \in Op,
         ShutOK(K, s, d, g),
         d2[x] = Made[h], \A r \in Resource \ {x} : d2[r] = d[r],
         x \in OwnOf(K, g) =>
           /\ h = "unload" <=> s[g] = "unloading"
           /\ h = "load" => d[x] = "prepared"
           /\ \A c \in Calls(h, x) \cap OwnOf(K, g) : s[c] \in Better[h]
  PROVE  ShutOK(K, s, d2, g)
<1>1. OwnOf(K, g) \subseteq Resource /\ UndoneOf(K, g) \subseteq OwnOf(K, g)
  BY OwnIs
<1>2. ASSUME NEW r \in OwnOf(K, g), d2[r] # "none", NEW c \in Calls("prepare", r) \cap OwnOf(K, g)
      PROVE  s[c] \in Better["prepare"] \/ c \in UndoneOf(K, g)
  <2>1. CASE r # x
    BY <1>1, <1>2, <2>1 DEF ShutOK
  <2>2. CASE r = x /\ h = "prepare"
    BY <1>2, <2>2
  <2>3. CASE r = x /\ h = "load"
    BY <1>2, <2>3 DEF ShutOK
  <2>4. CASE r = x /\ h = "unload"
    BY <1>2, <2>4 DEF Made
  <2>5. QED
    BY <2>1, <2>2, <2>3, <2>4 DEF Op
<1>3. ASSUME NEW r \in OwnOf(K, g), d2[r] = "loaded", NEW c \in Calls("load", r) \cap OwnOf(K, g)
      PROVE  s[c] \in Better["load"] \/ c \in UndoneOf(K, g)
  <2>1. CASE r # x
    BY <1>1, <1>3, <2>1 DEF ShutOK
  <2>2. CASE r = x
    <3>1. h = "load"
      BY <1>3, <2>2 DEF Made, Op
    <3>2. QED
      BY <1>3, <2>2, <3>1
  <2>3. QED
    BY <2>1, <2>2
<1>4. ASSUME s[g] # "unloading", NEW r \in UndoneOf(K, g), d2[r] # "none",
             NEW c \in Calls("unload", r) \cap OwnOf(K, g)
      PROVE  s[c] \in Better["prepare"]
  <2>1. CASE r # x
    BY <1>1, <1>4, <2>1 DEF ShutOK
  <2>2. CASE r = x /\ h = "prepare"
    BY <1>1, <1>4, <2>2, CallsNest
  <2>3. CASE r = x /\ h = "load"
    BY <1>1, <1>4, <2>3 DEF ShutOK
  <2>4. CASE r = x /\ h = "unload"
    BY <1>4, <2>4 DEF Made
  <2>5. QED
    BY <2>1, <2>2, <2>3, <2>4 DEF Op
<1>5. ASSUME s[g] # "unloading", NEW r \in UndoneOf(K, g), d2[r] = "loaded",
             NEW c \in Calls("unload", r) \cap OwnOf(K, g)
      PROVE  s[c] \in Better["load"]
  <2>1. CASE r # x
    BY <1>1, <1>5, <2>1 DEF ShutOK
  <2>2. CASE r = x
    <3>1. h = "load"
      BY <1>5, <2>2 DEF Made, Op
    <3>2. c \in Calls("load", x)
      BY <2>2, CallsNest
    <3>3. QED
      BY <1>1, <1>5, <2>2, <3>1, <3>2
  <2>3. QED
    BY <2>1, <2>2
<1>6. ASSUME s[g] = "unloading", NEW r \in UndoneOf(K, g), d2[r] = "none",
             NEW c \in Calls("unload", r) \cap OwnOf(K, g)
      PROVE  s[c] \in Better["unload"]
  <2>1. CASE r # x
    BY <1>1, <1>6, <2>1 DEF ShutOK
  <2>2. CASE r = x
    BY <1>1, <1>6, <2>2
  <2>3. QED
    BY <2>1, <2>2
<1>7. QED
  BY <1>2, <1>3, <1>4, <1>5, <1>6 DEF ShutOK

-----------------------------------------------------------------------------
(* Stacks that go on *)

\* st2 is st with its last frame replaced by f, without its last frame, and
\* with f for its last frame and h above it.
Replaced(st, st2, f) ==
  /\ Len(st) \in 1 .. Len(st) /\ Len(st2) = Len(st)
  /\ \A i \in 1 .. Len(st) : st2[i] = IF i = Len(st) THEN f ELSE st[i]

Dropped(st, st2) ==
  /\ Len(st) \in 1 .. Len(st) /\ Len(st2) = Len(st) - 1
  /\ \A i \in 1 .. Len(st) - 1 : st2[i] = st[i]

Raised(st, st2, f, h) ==
  /\ Len(st) \in 1 .. Len(st) /\ Len(st2) = Len(st) + 1
  /\ \A i \in 1 .. Len(st) + 1 :
       st2[i] = IF i = Len(st) + 1 THEN h ELSE IF i = Len(st) THEN f ELSE st[i]

\* f is the call that e is, further on.
SameCall(e, f) == f.x = e.x /\ f.op = e.op

LEMMA StackReplaced ==
  ASSUME NEW K, NEW T, NEW st \in Seq(Frame), NEW st2, NEW f, Replaced(st, st2, f),
         SameCall(st[Len(st)], f), ListOK(T, f), StackOK(K, T, st)
  PROVE  StackOK(K, T, st2)
<1> DEFINE n == Len(st)
<1>1. n \in Nat /\ n \in 1 .. n /\ Len(st2) = n /\ n >= 1
  BY DEF Replaced
<1>2. /\ \A i \in 1 .. n : i # n => st2[i] = st[i]
      /\ st2[n] = f
  BY <1>1 DEF Replaced
<1>3. \A i \in 1 .. n : st2[i].x = st[i].x /\ st2[i].op = st[i].op
  BY <1>2 DEF SameCall
<1>4. \A i \in 1 .. n : ListOK(T, st2[i])
  BY <1>2 DEF StackOK
<1>5. 1 \in 1 .. n /\ n > 0
  BY <1>1
<1>6. st2[1].x \in Group \cup Direct
  BY <1>3, <1>5 DEF StackOK
<1>7. ASSUME NEW i \in 2 .. n PROVE AboveOK(K, st2, i)
  <2>1. i \in 1 .. n /\ i - 1 \in 1 .. n /\ i - 1 # n /\ \A j \in 1 .. i - 1 : j \in 1 .. n
    BY <1>1
  <2>2. st2[i - 1] = st[i - 1]
    BY <1>2, <2>1
  <2>3. AboveOK(K, st, i)
    BY DEF StackOK
  <2>4. /\ st2[i].x = st[i].x /\ st2[i].op = st[i].op
        /\ st2[1].x = st[1].x /\ st2[1].op = st[1].op
        /\ \A j \in 1 .. i - 1 : st2[j].op = st[j].op
    BY <1>3, <1>5, <2>1
  <2>5. QED
    BY <2>2, <2>3, <2>4 DEF AboveOK
<1> HIDE DEF n
<1>8. QED
  BY <1>1, <1>4, <1>6, <1>7 DEF StackOK

LEMMA StackDropped ==
  ASSUME NEW K, NEW T, NEW st \in Seq(Frame), NEW st2, Dropped(st, st2), StackOK(K, T, st)
  PROVE  StackOK(K, T, st2)
<1> DEFINE n == Len(st)
           m == n - 1
<1>1. n \in Nat /\ m \in Nat /\ n = m + 1 /\ Len(st2) = m
  BY DEF Dropped
<1>2. \A i \in 1 .. m : st2[i] = st[i] /\ i \in 1 .. n
  BY <1>1 DEF Dropped
<1> HIDE DEF m
<1>3. \A i \in 1 .. m : ListOK(T, st2[i])
  BY <1>2 DEF StackOK
<1>4. m > 0 => st2[1].x \in Group \cup Direct
  <2> SUFFICES ASSUME m > 0 PROVE st2[1].x \in Group \cup Direct
    OBVIOUS
  <2>1. 1 \in 1 .. m /\ Len(st) > 0
    BY <1>1
  <2>2. QED
    BY <1>2, <2>1 DEF StackOK
<1>5. ASSUME NEW i \in 2 .. m PROVE AboveOK(K, st2, i)
  <2>1. i \in 1 .. m /\ i - 1 \in 1 .. m /\ 1 \in 1 .. m /\ i \in 2 .. n
        /\ \A j \in 1 .. i - 1 : j \in 1 .. m
    BY <1>1
  <2>2. AboveOK(K, st, i)
    BY <2>1 DEF StackOK
  <2>3. st2[i] = st[i] /\ st2[i - 1] = st[i - 1] /\ st2[1] = st[1]
        /\ \A j \in 1 .. i - 1 : st2[j] = st[j]
    BY <1>2, <2>1
  <2>4. QED
    BY <2>2, <2>3 DEF AboveOK
<1> HIDE DEF n
<1>6. QED
  BY <1>1, <1>3, <1>4, <1>5 DEF StackOK

LEMMA StackRaised ==
  ASSUME NEW K, NEW T, NEW st \in Seq(Frame), NEW st2, NEW f, NEW h, Raised(st, st2, f, h),
         SameCall(st[Len(st)], f), ListOK(T, f), ListOK(T, h), StackOK(K, T, st),
         AboveOK(K, st2, Len(st) + 1)
  PROVE  StackOK(K, T, st2)
<1> DEFINE n == Len(st)
           m == n + 1
<1>1. /\ n \in Nat /\ n \in 1 .. n /\ n >= 1 /\ m \in Nat /\ Len(st2) = m /\ m # n
      /\ m > 0 /\ \A i \in 1 .. m : (i = m \/ i \in 1 .. n)
      /\ \A i \in 1 .. n : i \in 1 .. m /\ i # m
      /\ m \in 1 .. m
  BY DEF Raised
<1>2. /\ \A i \in 1 .. n : i # n => st2[i] = st[i]
      /\ st2[n] = f /\ st2[m] = h
  BY <1>1 DEF Raised
<1>3. \A i \in 1 .. n : st2[i].x = st[i].x /\ st2[i].op = st[i].op
  BY <1>2 DEF SameCall
<1>4. \A i \in 1 .. m : ListOK(T, st2[i])
  BY <1>1, <1>2 DEF StackOK
<1>5. 1 \in 1 .. n /\ n > 0
  BY <1>1
<1>6. st2[1].x \in Group \cup Direct
  BY <1>3, <1>5 DEF StackOK
<1>7. ASSUME NEW i \in 2 .. m PROVE AboveOK(K, st2, i)
  <2>1. CASE i = m
    BY <2>1
  <2>2. CASE i # m
    <3>1. i \in 1 .. n /\ i - 1 \in 1 .. n /\ i - 1 # n /\ \A j \in 1 .. i - 1 : j \in 1 .. n
      BY <1>1, <2>2
    <3>2. st2[i - 1] = st[i - 1]
      BY <1>2, <3>1
    <3>3. AboveOK(K, st, i)
      <4>1. i \in 2 .. n
        BY <3>1
      <4>2. QED
        BY <4>1 DEF StackOK
    <3>4. /\ st2[i].x = st[i].x /\ st2[i].op = st[i].op
          /\ st2[1].x = st[1].x /\ st2[1].op = st[1].op
          /\ \A j \in 1 .. i - 1 : st2[j].op = st[j].op
      BY <1>3, <1>5, <3>1
    <3>5. QED
      BY <3>2, <3>3, <3>4 DEF AboveOK
  <2>3. QED
    BY <2>1, <2>2
<1> HIDE DEF n, m
<1>8. QED
  BY <1>1, <1>4, <1>6, <1>7 DEF StackOK

\* Only the innermost call is about to compare the state of its object.
LEMMA CasTop ==
  ASSUME NEW K, NEW T, NEW s, NEW st \in Seq(Frame), StackOK(K, T, st),
         Len(st) # 0 => LET f == st[Len(st)] IN
           f.at = "cas" /\ f.op # "prepare" =>
             \A g \in Group : f.x \in OwnOf(K, g) => s[f.x] = f.from
  PROVE  CasOK(K, s, st)
<1> SUFFICES ASSUME NEW i \in 2 .. Len(st), NEW g \in Group,
                    st[i].at = "cas", st[i].op # "prepare", st[i].x \in OwnOf(K, g)
             PROVE  s[st[i].x] = st[i].from
  BY DEF CasOK
<1>1. i \in 1 .. Len(st) /\ Len(st) # 0
  OBVIOUS
<1>2. i = Len(st)
  BY <1>1, StackShape
<1>3. QED
  BY <1>1, <1>2

\* What a call that returns, or claims its object, tells the one that calls it.
Tells(K, s, st) ==
  \A g \in Group : g = st[1].x /\ st[Len(st)].x \in OwnOf(K, g) =>
    s[st[Len(st)].x] \in Better[st[Len(st)].op]

LEMMA RoundReplaced ==
  ASSUME NEW K, NEW T, NEW s, NEW st \in Seq(Frame), NEW st2, NEW f, Replaced(st, st2, f),
         SameCall(st[Len(st)], f), StackOK(K, T, st), RoundOK(K, s, st),
         Claimed(f) => Claimed(st[Len(st)]) \/ Tells(K, s, st),
         ~ Claimed(f) => ~ Claimed(st[Len(st)]),
         f.at = "methods" => Elements(f.todo) = Elements(f.list),
         f.at = "set" /\ f.x \in Group /\ f.op # "parse" =>
           \A g \in Group : g = st[1].x =>
             \A c \in Elements(f.list) \cap OwnOf(K, g) : s[c] \in Better[f.op]
  PROVE  RoundOK(K, s, st2)
<1> DEFINE n == Len(st)
<1>1. /\ n \in Nat /\ n \in 1 .. n /\ 1 \in 1 .. n /\ Len(st2) = n
      /\ \A i \in 1 .. n : i # n => i + 1 \in 1 .. n /\ i \in 1 .. n /\ i < n
  BY DEF Replaced
<1>2. /\ \A i \in 1 .. n : i # n => st2[i] = st[i]
      /\ st2[n] = f
  BY <1>1 DEF Replaced
<1>3. st2[1].x = st[1].x /\ st2[n].x = st[n].x
  BY <1>1, <1>2 DEF SameCall
<1> SUFFICES ASSUME NEW i \in 1 .. n PROVE RoundAt(K, s, st2, i)
  BY <1>1 DEF RoundOK
<1>4. RoundAt(K, s, st, i)
  BY DEF RoundOK
<1>5. CASE i = n
  <2>1. f.at = "methods" => Called(st2, i) = {}
    BY <1>2, <1>5 DEF Called
  <2>2. QED
    BY <1>2, <1>3, <1>5, <2>1 DEF RoundAt
<1>6. CASE i # n
  <2>1. st2[i] = st[i] /\ i + 1 \in 1 .. n /\ i < n
    BY <1>1, <1>2, <1>6
  <2>2. Called(st2, i) \subseteq Called(st, i) \cup
          (IF Claimed(f) /\ ~ Claimed(st[n]) /\ i + 1 = n THEN {st[n].x} ELSE {})
    <3>1. CASE i + 1 # n
      <4>1. st2[i + 1] = st[i + 1]
        BY <1>2, <2>1, <3>1
      <4>2. QED
        BY <1>1, <2>1, <4>1 DEF Called, Awaited
    <3>2. CASE i + 1 = n
      <4>1. st2[i + 1] = f /\ f.x = st[n].x
        BY <1>2, <1>3, <3>2
      <4>2. Awaited(st2, i) = IF Claimed(f) THEN {} ELSE {st[n].x}
        BY <1>1, <2>1, <3>2, <4>1 DEF Awaited
      <4>3. Awaited(st, i) = IF Claimed(st[n]) THEN {} ELSE {st[n].x}
        BY <1>1, <2>1, <3>2 DEF Awaited
      <4>4. QED
        BY <2>1, <3>2, <4>2, <4>3 DEF Called
    <3>3. QED
      BY <3>1, <3>2
  <2>3. ASSUME NEW g \in Group, g = st[1].x, st[i].at = "methods",
               NEW c \in Called(st2, i), c \in OwnOf(K, g)
        PROVE  s[c] \in Better[Head(st[i].stages)]
    <3>1. CASE c \in Called(st, i)
      BY <1>4, <2>3, <3>1 DEF RoundAt
    <3>2. CASE c \notin Called(st, i)
      <4>1. Claimed(f) /\ ~ Claimed(st[n]) /\ i + 1 = n /\ c = st[n].x
        BY <2>2, <3>2
      <4>2. s[c] \in Better[st[n].op]
        BY <2>3, <4>1 DEF Tells
      <4>3. st[n].op = Head(st[i].stages)
        <5>1. n # 1 /\ i = n - 1
          BY <1>1, <4>1
        <5>2. AboveOK(K, st, n)
          BY <1>1, <5>1, StackShape
        <5>3. QED
          BY <5>1, <5>2 DEF AboveOK
      <4>4. QED
        BY <4>2, <4>3
    <3>3. QED
      BY <3>1, <3>2
  <2>4. ASSUME NEW g \in Group, g = st[1].x, st[i].at = "set", st[i].x \in Group, st[i].op # "parse"
        PROVE  \A c \in Elements(st[i].list) \cap OwnOf(K, g) : s[c] \in Better[st[i].op]
    BY <1>4, <2>4 DEF RoundAt
  <2>5. QED
    BY <1>3, <2>1, <2>3, <2>4 DEF RoundAt
<1>7. QED
  BY <1>5, <1>6

LEMMA RoundDropped ==
  ASSUME NEW K, NEW T, NEW s, NEW st \in Seq(Frame), NEW st2, Dropped(st, st2),
         StackOK(K, T, st), RoundOK(K, s, st),
         Claimed(st[Len(st)]) \/ Tells(K, s, st)
  PROVE  RoundOK(K, s, st2)
<1> DEFINE n == Len(st)
           m == n - 1
<1>1. /\ n \in Nat /\ m \in Nat /\ n = m + 1 /\ Len(st2) = m /\ n \in 1 .. n
      /\ \A i \in 1 .. m : (i \in 1 .. n /\ i # n /\ 1 \in 1 .. m)
      /\ \A i \in 1 .. m : i # m => i + 1 \in 1 .. m /\ i < m /\ i < n
  BY DEF Dropped
<1>2. \A i \in 1 .. m : st2[i] = st[i]
  BY DEF Dropped
<1> HIDE DEF m
<1> SUFFICES ASSUME NEW i \in 1 .. m PROVE RoundAt(K, s, st2, i)
  BY <1>1 DEF RoundOK
<1>3. RoundAt(K, s, st, i) /\ st2[i] = st[i] /\ st2[1] = st[1]
  BY <1>1, <1>2 DEF RoundOK
<1>4. Called(st2, i) \subseteq Called(st, i) \cup
        (IF ~ Claimed(st[n]) /\ i = m THEN {st[n].x} ELSE {})
  <2>1. CASE i # m
    <3>1. st2[i + 1] = st[i + 1] /\ i < m /\ i < n
      BY <1>1, <1>2, <2>1
    <3>2. QED
      BY <1>1, <1>3, <3>1 DEF Called, Awaited
  <2>2. CASE i = m
    <3>1. Awaited(st, i) = IF Claimed(st[n]) THEN {} ELSE {st[n].x}
      <4>1. i < Len(st) /\ i + 1 = Len(st)
        BY <1>1, <2>2
      <4>2. QED
        BY <4>1 DEF Awaited
    <3>2. QED
      BY <1>3, <2>2, <3>1 DEF Called
  <2>3. QED
    BY <2>1, <2>2
<1>5. ASSUME NEW g \in Group, g = st[1].x, st[i].at = "methods",
             NEW c \in Called(st2, i), c \in OwnOf(K, g)
      PROVE  s[c] \in Better[Head(st[i].stages)]
  <2>1. CASE c \in Called(st, i)
    BY <1>3, <1>5, <2>1 DEF RoundAt
  <2>2. CASE c \notin Called(st, i)
    <3>1. ~ Claimed(st[n]) /\ i = m /\ c = st[n].x
      BY <1>4, <2>2
    <3>2. s[c] \in Better[st[n].op]
      BY <1>5, <3>1 DEF Tells
    <3>3. st[n].op = Head(st[i].stages)
      <4>1. n # 1 /\ i = n - 1
        BY <1>1, <3>1
      <4>2. AboveOK(K, st, n)
        BY <1>1, <4>1, StackShape
      <4>3. QED
        BY <4>1, <4>2 DEF AboveOK
    <3>4. QED
      BY <3>2, <3>3
  <2>3. QED
    BY <2>1, <2>2
<1>6. ASSUME NEW g \in Group, g = st[1].x, st[i].at = "set", st[i].x \in Group, st[i].op # "parse"
      PROVE  \A c \in Elements(st[i].list) \cap OwnOf(K, g) : s[c] \in Better[st[i].op]
  BY <1>3, <1>6 DEF RoundAt
<1>7. QED
  BY <1>3, <1>5, <1>6 DEF RoundAt

LEMMA RoundRaised ==
  ASSUME NEW K, NEW s, NEW st \in Seq(Frame), NEW st2, NEW f, NEW h, Raised(st, st2, f, h),
         SameCall(st[Len(st)], f), RoundOK(K, s, st), ~ Claimed(h),
         f.at = st[Len(st)].at, f.list = st[Len(st)].list, f.stages = st[Len(st)].stages,
         Elements(st[Len(st)].todo) \subseteq Elements(f.todo) \cup {h.x}
  PROVE  RoundOK(K, s, st2)
<1> DEFINE n == Len(st)
           m == n + 1
<1>1. /\ n \in Nat /\ m \in Nat /\ n \in 1 .. n /\ 1 \in 1 .. n /\ Len(st2) = m /\ n < m
      /\ m \in 1 .. m
      /\ \A i \in 1 .. m : i # m => i \in 1 .. n
      /\ \A i \in 1 .. n : i # n => i + 1 \in 1 .. n /\ i < n /\ i < m
      /\ \A i \in 1 .. n : i \in 1 .. m /\ i # m
  BY DEF Raised
<1>2. /\ \A i \in 1 .. n : i # n => st2[i] = st[i]
      /\ st2[n] = f /\ st2[m] = h
  BY <1>1 DEF Raised
<1> HIDE DEF m
<1>3. /\ st2[1].x = st[1].x
      /\ \A i \in 1 .. n : /\ st2[i].at = st[i].at /\ st2[i].list = st[i].list
                           /\ st2[i].stages = st[i].stages /\ st2[i].x = st[i].x
                           /\ st2[i].op = st[i].op
                           /\ Claimed(st2[i]) <=> Claimed(st[i])
  BY <1>1, <1>2 DEF SameCall, Claimed
<1> SUFFICES ASSUME NEW i \in 1 .. m PROVE RoundAt(K, s, st2, i)
  BY <1>1 DEF RoundOK
<1>4. CASE i = m
  <2>1. st2[i].at \notin {"methods", "set"}
    BY <1>2, <1>4 DEF Claimed
  <2>2. QED
    BY <2>1 DEF RoundAt
<1>5. CASE i # m
  <2>1. i \in 1 .. n
    BY <1>1, <1>5
  <2>2. RoundAt(K, s, st, i)
    BY <2>1 DEF RoundOK
  <2>3. Called(st2, i) \subseteq Called(st, i)
    <3>1. CASE i # n
      <4>1. st2[i] = st[i] /\ i + 1 \in 1 .. n /\ i < n /\ i < m
        BY <1>1, <1>2, <2>1, <3>1
      <4>2. Awaited(st2, i) = Awaited(st, i)
        BY <1>1, <1>3, <4>1 DEF Awaited
      <4>3. QED
        BY <4>1, <4>2 DEF Called
    <3>2. CASE i = n
      <4>1. i + 1 = m /\ i < m /\ ~ (i < n)
        BY <1>1, <3>2 DEF m
      <4>2. Awaited(st, i) = {} /\ Awaited(st2, i) = {h.x}
        BY <1>1, <1>2, <4>1 DEF Awaited
      <4>3. QED
        BY <1>2, <3>2, <4>2 DEF Called
    <3>3. QED
      BY <3>1, <3>2
  <2>4. QED
    BY <1>3, <2>1, <2>2, <2>3 DEF RoundAt
<1>6. QED
  BY <1>4, <1>5

-----------------------------------------------------------------------------
(* What is known when a thread steps *)

\* A call below a group unloads if and only if the group does.
LEMMA GroupOp ==
  ASSUME IInv, WholeInv, NEW t \in Thread, NEW i \in 1 .. Len(stack[t]),
         stack[t][i].at \in {"methods", "set"}, stack[t][i].op # "parse", stack[t][1].x \in Group
  PROVE  /\ stack[t][i].op \in Op
         /\ stack[t][i].op = "unload" <=> state[stack[t][1].x] = "unloading"
<1> DEFINE st == stack[t]
<1>1. st \in Seq(Frame) /\ StackOK(kept, taken, st)
      /\ \A j \in 1 .. Len(st) : st[j] \in Frame /\ CallOK(st[j]) /\ ClaimOK(st[j])
  BY StacksAre
<1>2. st[i].op \in Op
  BY <1>1 DEF Frame
<1>3. /\ 1 \in 1 .. Len(st) /\ Claimed(st[1]) /\ st[1].op \in Op
      /\ st[1].op = "unload" <=> st[i].op = "unload"
  <2>1. CASE i = 1
    BY <1>2, <2>1 DEF Claimed
  <2>2. CASE i # 1
    <3>1. /\ 1 \in 1 .. Len(st) /\ st[1].at = "methods" /\ Claimed(st[1]) /\ AboveOK(kept, st, i)
          /\ 1 \in 1 .. i - 1
      <4> HIDE DEF st
      <4>1. i \in 1 .. Len(st)
        BY DEF st
      <4>2. QED
        BY <1>1, <2>2, <4>1, StackShape
    <3>2. st[1].op # "parse"
      BY <1>1, <3>1 DEF CallOK
    <3>3. st[1].op \in Op
      BY <1>1, <3>1, <3>2 DEF Frame
    <3>4. QED
      BY <3>1, <3>3 DEF AboveOK
  <2>3. QED
    BY <2>1, <2>2
<1>4. state[st[1].x] = During[st[1].op]
  BY <1>1, <1>3 DEF ClaimOK
<1>5. QED
  BY <1>2, <1>3, <1>4 DEF During, Op

LEMMA RoundsStep ==
  ASSUME IInv, WholeInv, NEW s2, NEW x \in Object, NEW o, StepAt(state, s2, x, o),
         x \in Resource => /\ o \in Op
                           /\ \A g \in Group : x \in OwnOf(kept, g) =>
                                (o = "unload" <=> state[g] = "unloading"),
         NEW t \in Thread
  PROVE  RoundOK(kept, s2, stack[t])
<1> DEFINE st == stack[t]
<1> SUFFICES ASSUME NEW i \in 1 .. Len(st) PROVE RoundAt(kept, s2, st, i)
  BY DEF RoundOK
<1>1. RoundAt(kept, state, st, i) /\ kept \in Kepts
  BY StacksAre DEF WholeInv, RoundOK
<1>2. st[i] \in Frame /\ CallOK(st[i])
  BY StacksAre
<1>3. ASSUME NEW g \in Group, NEW c \in OwnOf(kept, g), NEW h \in Op,
             h = "unload" <=> state[g] = "unloading", state[c] \in Better[h]
      PROVE  s2[c] \in Better[h]
  <2>1. c \in Resource /\ c \in Object
    BY <1>1, OwnIs DEF Object
  <2>2. CASE c # x
    BY <1>3, <2>1, <2>2, OthersStay
  <2>3. CASE c = x
    <3>1. o \in Op /\ (h = "unload" <=> o = "unload")
      BY <1>3, <2>1, <2>3
    <3>2. QED
      BY <1>3, <2>1, <2>3, <3>1, Improves
  <2>4. QED
    BY <2>2, <2>3
<1>4. ASSUME NEW g \in Group, g = st[1].x, st[i].at = "methods",
             NEW c \in Called(st, i) \cap OwnOf(kept, g)
      PROVE  s2[c] \in Better[Head(st[i].stages)]
  <2>1. st[i].op # "parse"
    BY <1>2, <1>4 DEF CallOK
  <2>2. st[i].op = "unload" <=> state[g] = "unloading"
    BY <1>4, <2>1, GroupOp
  <2>3. Head(st[i].stages) \in Op /\ (Head(st[i].stages) = "unload" <=> st[i].op = "unload")
    <3> HIDE DEF st
    <3>1. QED
      BY <1>2, <1>4, <2>1, HeadStage
  <2>4. state[c] \in Better[Head(st[i].stages)]
    BY <1>1, <1>4 DEF RoundAt
  <2>5. QED
    BY <1>3, <2>2, <2>3, <2>4
<1>5. ASSUME NEW g \in Group, g = st[1].x, st[i].at = "set", st[i].x \in Group, st[i].op # "parse",
             NEW c \in Elements(st[i].list) \cap OwnOf(kept, g)
      PROVE  s2[c] \in Better[st[i].op]
  <2>1. st[i].op \in Op /\ (st[i].op = "unload" <=> state[g] = "unloading")
    BY <1>5, GroupOp
  <2>2. state[c] \in Better[st[i].op]
    BY <1>1, <1>5 DEF RoundAt
  <2>3. QED
    BY <1>3, <2>1, <2>2
<1>6. QED
  BY <1>4, <1>5 DEF RoundAt

\* What a thread calls is in the reach of what it may call.
LEMMA CallTouches ==
  ASSUME IInv, WholeInv, NEW t \in Thread, NEW i \in 1 .. Len(stack[t]),
         stack[t][i].x \in Resource
  PROVE  stack[t][i].x \in TouchedOf(kept)
<1> DEFINE st == stack[t]
<1>1. st \in Seq(Frame) /\ StackOK(kept, taken, st) /\ kept \in Kepts
  BY StacksAre
<1> HIDE DEF st
<1>2. i \in 1 .. Len(st) /\ st[i].x \in Resource
  BY DEF st
<1>3. CASE i = 1
  <2>1. st[1].x \in Group \cup Direct
    BY <1>1, <1>2, StackShape
  <2>2. st[1].x \in Common
    BY <1>2, <1>3, <2>1, CommonIs, ResourceAssumption
  <2>3. QED
    BY <1>3, <2>2 DEF TouchedOf, st
<1>4. CASE i # 1
  <2>1. AboveOK(kept, st, i)
    BY <1>1, <1>2, <1>4, StackShape
  <2>2. QED
    BY <2>1 DEF AboveOK, Within, TouchedOf, st
<1>5. QED
  BY <1>3, <1>4

\* When a group is about to be done, nothing of its own is being worked on.
LEMMA OwnSettled ==
  ASSUME IInv, WholeInv, NEW t \in Thread, stack[t] # << >>, NEW g \in Group,
         Top(t).x = g, Top(t).at = "set"
  PROVE  Settled(kept, state, data, g)
<1> SUFFICES ASSUME NEW r \in OwnOf(kept, g)
             PROVE  state[r] \in {"unloaded", "prepared", "loaded"} /\ Says(state, data, r)
  BY DEF Settled
<1>1. r \in Resource /\ r \in Object
  BY StacksAre, OwnIs DEF Object
<1>2. Says(state, data, r)
  BY <1>1 DEF IInv, StateSays, Says
<1>3. state[r] \in Steady \cup Transient /\ state[r] \notin {"parsed", "parsing"}
  BY <1>1 DEF IInv, TypeOK, WholeInv, NoneParsed
<1>4. state[r] \notin Transient
  <2> SUFFICES ASSUME state[r] \in Transient PROVE FALSE
    OBVIOUS
  <2>1. PICK u \in Thread : \E i \in 1 .. Len(stack[u]) : Claimed(stack[u][i]) /\ stack[u][i].x = r
    BY <1>1 DEF IInv, Owned
  <2>2. PICK i \in 1 .. Len(stack[u]) : Claimed(stack[u][i]) /\ stack[u][i].x = r
    BY <2>1
  <2>3. /\ 1 \in 1 .. Len(stack[u]) /\ stack[u][1].x = g /\ stack[u][1].at = "methods"
        /\ Claimed(stack[u][1])
    BY <2>2, OwnBase
  <2>4. Len(stack[t]) \in 1 .. Len(stack[t]) /\ Claimed(Top(t))
    BY TopFrame DEF Claimed
  <2>5. u = t /\ Len(stack[t]) = 1
    BY <2>3, <2>4, OneCall DEF IInv, Top
  <2>6. QED
    BY <2>3, <2>5 DEF Top
<1>5. QED
  BY <1>2, <1>3, <1>4 DEF Steady

\* A thread that waits to claim a resource that is being worked on and is a
\* group's own has claimed it itself, for the same operation.
LEMMA OwnTransient ==
  ASSUME IInv, WholeInv, NEW t \in Thread, stack[t] # << >>, ~ Claimed(Top(t)),
         Top(t).op \in {"load", "unload"},
         NEW g \in Group, Top(t).x \in OwnOf(kept, g), state[Top(t).x] \in Transient
  PROVE  state[Top(t).x] = During[Top(t).op]
<1> DEFINE x == Top(t).x
           n == Len(stack[t])
<1>1. n \in 1 .. n /\ n \in Nat /\ Top(t) = stack[t][n] /\ Top(t) \in Frame
  BY TopFrame DEF Top
<1>2. x \in Object
  BY <1>1 DEF Frame
<1>3. PICK u \in Thread : \E j \in 1 .. Len(stack[u]) : Claimed(stack[u][j]) /\ stack[u][j].x = x
  BY <1>2 DEF IInv, Owned
<1>4. PICK j \in 1 .. Len(stack[u]) : Claimed(stack[u][j]) /\ stack[u][j].x = x
  BY <1>3
<1>5. u = t
  BY <1>1, <1>4, OneBase
<1>6. j \in 1 .. n - 1
  <2>1. j # n /\ j \in 1 .. n
    BY <1>1, <1>4, <1>5
  <2>2. QED
    BY <1>1, <2>1
<1>7. n # 1
  BY <1>1, <1>6
<1>8. AboveOK(kept, stack[t], n)
  BY <1>1, <1>7, StacksAre, StackShape
<1>9. stack[t][j].op = Top(t).op
  BY <1>1, <1>6, <1>8 DEF AboveOK
<1>10. ClaimOK(stack[t][j])
  BY <1>4, <1>5, StacksAre
<1>11. QED
  BY <1>4, <1>5, <1>9, <1>10 DEF ClaimOK

-----------------------------------------------------------------------------
(* Steps that change only a stack *)

LEMMA ReplacedIs ==
  ASSUME IInv, NEW t \in Thread, stack[t] # << >>, NEW f \in Frame, Continue(t, f)
  PROVE  /\ Replaced(stack[t], stack'[t], f) /\ stack'[t] \in Seq(Frame)
         /\ \A u \in Thread \ {t} : stack'[u] = stack[u]
         /\ stack[t][Len(stack[t])] = Top(t)
         /\ Len(stack'[t]) = Len(stack[t]) /\ stack'[t][Len(stack'[t])] = f
<1>1. /\ stack' \in [Thread -> Seq(Frame)]
      /\ \A u \in Thread \ {t} : stack'[u] = stack[u]
      /\ Len(stack'[t]) = Len(stack[t])
      /\ \A i \in 1 .. Len(stack[t]) :
           stack'[t][i] = IF i = Len(stack[t]) THEN f ELSE stack[t][i]
  BY Continued
<1>2. Len(stack[t]) \in 1 .. Len(stack[t])
  BY TopFrame
<1>3. QED
  BY <1>1, <1>2 DEF Replaced, Top

LEMMA DroppedIs ==
  ASSUME IInv, NEW t \in Thread, stack[t] # << >>, Return(t)
  PROVE  /\ Dropped(stack[t], stack'[t]) /\ stack'[t] \in Seq(Frame)
         /\ \A u \in Thread \ {t} : stack'[u] = stack[u]
         /\ stack[t][Len(stack[t])] = Top(t)
<1>1. /\ stack' \in [Thread -> Seq(Frame)]
      /\ \A u \in Thread \ {t} : stack'[u] = stack[u]
      /\ Len(stack'[t]) = Len(stack[t]) - 1
      /\ \A i \in 1 .. Len(stack[t]) - 1 : stack'[t][i] = stack[t][i]
  BY Popped
<1>2. Len(stack[t]) \in 1 .. Len(stack[t])
  BY TopFrame
<1>3. QED
  BY <1>1, <1>2 DEF Dropped, Top

\* When a call has returned, the innermost one is in its class methods.
LEMMA DroppedTop ==
  ASSUME NEW K, NEW T, NEW st \in Seq(Frame), NEW st2 \in Seq(Frame), Dropped(st, st2),
         StackOK(K, T, st)
  PROVE  Len(st2) # 0 => st2[Len(st2)].at = "methods"
<1> SUFFICES ASSUME Len(st2) # 0 PROVE st2[Len(st2)].at = "methods"
  OBVIOUS
<1>1. Len(st2) \in 1 .. Len(st) - 1 /\ Len(st2) \in 1 .. Len(st) /\ Len(st2) # Len(st)
  BY DEF Dropped
<1>2. st2[Len(st2)] = st[Len(st2)]
  BY <1>1 DEF Dropped
<1>3. QED
  BY <1>1, <1>2, StackShape

LEMMA StacksOnly ==
  ASSUME WholeInv, NEW t \in Thread,
         state' = state, data' = data, taken' = taken, KeptOK',
         \A u \in Thread \ {t} : stack'[u] = stack[u],
         StackOK(kept, taken, stack'[t]), CasOK(kept, state, stack'[t]),
         RoundOK(kept, state, stack'[t])
  PROVE  WholeInv'
<1>1. kept' = kept
  BY DEF kept
<1>2. \A u \in Thread : /\ StackOK(kept, taken, stack'[u])
                        /\ CasOK(kept, state, stack'[u])
                        /\ RoundOK(kept, state, stack'[u])
  BY DEF WholeInv
<1>3. QED
  BY <1>1, <1>2 DEF WholeInv

LEMMA KeptStays ==
  ASSUME KeptOK, taken' = taken, resources' = resources, group' = group
  PROVE  KeptOK'
BY DEF KeptOK

LEMMA BeginWhole ==
  ASSUME IInv, WholeInv, NEW t \in Thread, Begin(t)
  PROVE  WholeInv'
<1>1. PICK f \in Frame : /\ stack' = [stack EXCEPT ![t] = <<f>>]
                         /\ ~ Claimed(f) /\ f.x \in Group \cup Direct
  <2>1. CASE \E r \in Direct, op \in Op : stack' = [stack EXCEPT ![t] = <<Call(op, r)>>]
    <3>1. PICK r \in Direct, op \in Op : stack' = [stack EXCEPT ![t] = <<Call(op, r)>>]
      BY <2>1
    <3>2. r \in Object /\ op # "parse"
      BY ResourceAssumption DEF Object, Op
    <3>3. Call(op, r).x = r
      BY DEF Call
    <3>4. QED
      BY <3>1, <3>2, <3>3, CallIs
  <2>2. CASE \E g \in Group, op \in Op \cup {"parse"} :
               stack' = [stack EXCEPT ![t] = <<Call(op, g)>>]
    <3>1. PICK g \in Group, op \in Op \cup {"parse"} :
            stack' = [stack EXCEPT ![t] = <<Call(op, g)>>]
      BY <2>2
    <3>2. g \in Object
      BY DEF Object
    <3>3. Call(op, g).x = g
      BY DEF Call
    <3>4. QED
      BY <3>1, <3>2, <3>3, CallIs
  <2>3. QED
    BY <2>1, <2>2 DEF Begin
<1>2. stack \in [Thread -> Seq(Frame)]
  BY FrameType DEF IInv
<1>3. /\ <<f>> \in Seq(Frame) /\ Len(<<f>>) = 1 /\ <<f>>[1] = f
      /\ \A i \in 1 .. 1 : i = 1
      /\ 2 .. 1 = {}
  OBVIOUS
<1>4. stack'[t] = <<f>> /\ \A u \in Thread \ {t} : stack'[u] = stack[u]
  BY <1>1, <1>2
<1>5. f.at \notin {"methods", "set", "parse", "list"}
  BY <1>1 DEF Claimed
<1>6. StackOK(kept, taken, <<f>>)
  <2>1. ListOK(taken, f)
    BY <1>5 DEF ListOK
  <2>2. QED
    BY <1>1, <1>3, <2>1 DEF StackOK
<1>7. CasOK(kept, state, <<f>>)
  BY <1>3 DEF CasOK
<1>8. RoundOK(kept, state, <<f>>)
  BY <1>3, <1>5 DEF RoundOK, RoundAt
<1>9. KeptOK'
  BY KeptStays DEF Begin, WholeInv
<1>10. QED
  BY <1>4, <1>6, <1>7, <1>8, <1>9, StacksOnly DEF Begin

\* A call that does not get its object leaves it as its caller needs it: it is
\* there already, or one of those that call the call is getting it there.
LEMMA FailTells ==
  ASSUME IInv, WholeInv, NEW t \in Thread, stack[t] # << >>,
         \/ Top(t).at = "read" /\ state[Top(t).x] \notin From(Top(t).op, Top(t).x)
         \/ Top(t).at = "cas" /\ state[Top(t).x] # Top(t).from
  PROVE  Tells(kept, state, stack[t])
<1> DEFINE f == Top(t)
           n == Len(stack[t])
<1>1. /\ n \in 1 .. n /\ n \in Nat /\ f = stack[t][n] /\ f \in Frame /\ CallOK(f)
      /\ ~ Claimed(f)
  BY TopFrame DEF Top, Claimed
<1> SUFFICES ASSUME NEW g \in Group, f.x \in OwnOf(kept, g)
             PROVE  state[f.x] \in Better[f.op]
  BY <1>1 DEF Tells
<1>2. f.x \in Resource /\ f.x \in Object /\ f.x \notin Group
  BY StacksAre, OwnIs DEF Object
<1>3. state[f.x] \in {"unloaded", "prepared", "loaded"} \cup Transient
  BY <1>2 DEF IInv, TypeOK, WholeInv, NoneParsed, Steady
<1>4. n # 1 /\ f.op \in Op
  BY <1>1, OwnBase
<1>5. CASE f.op = "prepare"
  <2>1. From(f.op, f.x) = {"unloaded"}
    BY <1>2, <1>5 DEF From
  <2>2. state[f.x] # "unloaded"
    BY <1>1, <2>1 DEF CallOK
  <2>3. QED
    BY <1>3, <1>5, <2>2 DEF Better
<1>6. CASE f.op \in {"load", "unload"}
  <2>1. state[f.x] \notin From(f.op, f.x)
    <3>1. CASE f.at = "cas" /\ state[f.x] # f.from
      <4>1. n \in 2 .. n
        <5>1. \A m \in Nat : m \in 1 .. m /\ m # 1 => m \in 2 .. m
          OBVIOUS
        <5> HIDE DEF n
        <5>2. QED
          BY <1>1, <1>4, <5>1
      <4>2. CasOK(kept, state, stack[t])
        BY DEF WholeInv
      <4>3. state[f.x] = f.from
        BY <1>1, <1>6, <3>1, <4>1, <4>2 DEF CasOK
      <4>4. QED
        BY <3>1, <4>3
    <3>2. QED
      BY <3>1
  <2>2. CASE state[f.x] \in Transient
    <3>1. state[f.x] = During[f.op]
      BY <1>1, <1>6, <2>2, OwnTransient
    <3>2. QED
      BY <1>6, <3>1 DEF During, Better
  <2>3. CASE state[f.x] \notin Transient
    <3>1. f.op = "load" => state[f.x] = "loaded"
      BY <1>2, <1>3, <2>1, <2>3 DEF From
    <3>2. f.op = "unload" => state[f.x] = "unloaded"
      BY <1>2, <1>3, <2>1, <2>3 DEF From
    <3>3. QED
      BY <1>6, <3>1, <3>2 DEF Better
  <2>4. QED
    BY <2>2, <2>3
<1>7. QED
  BY <1>4, <1>5, <1>6 DEF Op

LEMMA FailWhole ==
  ASSUME IInv, WholeInv, NEW t \in Thread, stack[t] # << >>, Return(t),
         \/ Top(t).at = "read" /\ state[Top(t).x] \notin From(Top(t).op, Top(t).x)
         \/ Top(t).at = "cas" /\ state[Top(t).x] # Top(t).from,
         UNCHANGED <<state, group, resources, data, taken>>
  PROVE  WholeInv'
<1>1. /\ Dropped(stack[t], stack'[t]) /\ stack'[t] \in Seq(Frame)
      /\ \A u \in Thread \ {t} : stack'[u] = stack[u]
      /\ stack[t] \in Seq(Frame) /\ StackOK(kept, taken, stack[t])
  BY DroppedIs, StacksAre
<1>2. StackOK(kept, taken, stack'[t])
  BY <1>1, StackDropped
<1>3. CasOK(kept, state, stack'[t])
  <2>1. Len(stack'[t]) # 0 => stack'[t][Len(stack'[t])].at = "methods"
    BY <1>1, DroppedTop
  <2>2. QED
    BY <1>1, <1>2, <2>1, CasTop
<1>4. RoundOK(kept, state, stack'[t])
  <2>1. Tells(kept, state, stack[t])
    BY FailTells
  <2>2. RoundOK(kept, state, stack[t])
    BY DEF WholeInv
  <2>3. QED
    BY <1>1, <2>1, <2>2, RoundDropped
<1>5. KeptOK'
  BY KeptStays DEF WholeInv
<1>6. QED
  BY <1>1, <1>2, <1>3, <1>4, <1>5, StacksOnly

LEMMA ReadWhole ==
  ASSUME IInv, WholeInv, NEW t \in Thread, Read(t)
  PROVE  WholeInv'
<1> DEFINE f == Top(t)
           g == [f EXCEPT !.at = "cas", !.from = state[f.x]]
<1>1. /\ stack[t] # << >> /\ f.at = "read" /\ f \in Frame /\ CallOK(f)
      /\ UNCHANGED <<state, group, resources, data, taken>>
  BY TopFrame DEF Read
<1>2. CASE state[f.x] \in From(f.op, f.x) /\ Continue(t, g)
  <2>1. state[f.x] \in Steady
    <3>1. f.op # "parse"
      BY <1>1 DEF CallOK
    <3>2. From(f.op, f.x) \subseteq Steady
      BY <1>1, <3>1 DEF From, Frame, Steady, Op
    <3>3. QED
      BY <1>2, <3>2
  <2>2. g \in Frame /\ g.x = f.x /\ g.op = f.op /\ g.at = "cas" /\ g.from = state[f.x]
    BY <1>1, <2>1 DEF Frame, Place
  <2> HIDE DEF g
  <2>3. /\ Replaced(stack[t], stack'[t], g) /\ stack'[t] \in Seq(Frame)
        /\ \A u \in Thread \ {t} : stack'[u] = stack[u]
        /\ stack[t][Len(stack[t])] = f
        /\ stack'[t][Len(stack'[t])] = g
    BY <1>1, <1>2, <2>2, ReplacedIs
  <2>4. stack[t] \in Seq(Frame) /\ StackOK(kept, taken, stack[t]) /\ SameCall(f, g)
    BY <2>2, StacksAre DEF SameCall
  <2>5. StackOK(kept, taken, stack'[t])
    <3>1. ListOK(taken, g)
      BY <2>2 DEF ListOK
    <3> HIDE DEF f
    <3>2. QED
      BY <2>3, <2>4, <3>1, StackReplaced
  <2>6. CasOK(kept, state, stack'[t])
    BY <2>2, <2>3, <2>5, CasTop
  <2>7. RoundOK(kept, state, stack'[t])
    <3>1. ~ Claimed(g) /\ ~ Claimed(f) /\ g.at \notin {"methods", "set"}
      BY <1>1, <2>2 DEF Claimed
    <3>2. RoundOK(kept, state, stack[t])
      BY DEF WholeInv
    <3> HIDE DEF f
    <3>3. QED
      BY <2>3, <2>4, <3>1, <3>2, RoundReplaced
  <2>8. KeptOK'
    BY <1>1, KeptStays DEF WholeInv
  <2>9. QED
    BY <1>1, <2>3, <2>5, <2>6, <2>7, <2>8, StacksOnly
<1>3. CASE state[f.x] \notin From(f.op, f.x) /\ Return(t)
  BY <1>1, <1>3, FailWhole
<1>4. QED
  BY <1>2, <1>3 DEF Read

-----------------------------------------------------------------------------
(* Rounds *)

LEMMA ElementsTail ==
  ASSUME NEW S, NEW q \in Seq(S), q # << >>
  PROVE  Head(q) \in Elements(q) /\ Elements(q) = {Head(q)} \cup Elements(Tail(q))
<1>1. /\ Len(q) \in Nat /\ Len(q) >= 1 /\ Head(q) = q[1]
      /\ Tail(q) \in Seq(S) /\ Len(Tail(q)) = Len(q) - 1
      /\ \A i \in 1 .. Len(q) - 1 : Tail(q)[i] = q[i + 1]
  BY EmptySeq
<1>2. ASSUME NEW i \in 1 .. Len(q) PROVE q[i] \in {Head(q)} \cup Elements(Tail(q))
  <2>1. CASE i = 1
    BY <1>1, <2>1
  <2>2. CASE i # 1
    <3>1. i - 1 \in 1 .. Len(q) - 1 /\ (i - 1) + 1 = i
      BY <1>1, <2>2
    <3>2. Tail(q)[i - 1] = q[i] /\ i - 1 \in 1 .. Len(Tail(q))
      BY <1>1, <3>1
    <3>3. QED
      BY <3>2 DEF Elements
  <2>3. QED
    BY <2>1, <2>2
<1>3. 1 \in 1 .. Len(q)
  BY <1>1
<1>4. Head(q) \in Elements(q)
  BY <1>1, <1>3 DEF Elements
<1>5. ASSUME NEW i \in 1 .. Len(Tail(q)) PROVE Tail(q)[i] \in Elements(q)
  <2>1. i \in 1 .. Len(q) - 1 /\ i + 1 \in 1 .. Len(q)
    BY <1>1
  <2>2. QED
    BY <1>1, <2>1 DEF Elements
<1>6. QED
  BY <1>2, <1>4, <1>5 DEF Elements

\* What a call goes through is in the reach of those that call it.
LEMMA ListWithin ==
  ASSUME IInv, WholeInv, NEW t \in Thread, stack[t] # << >>, Top(t).at = "methods",
         NEW c \in Elements(Top(t).list)
  PROVE  /\ Within(kept, Op, stack[t][1].x, c)
         /\ Top(t).op = "unload" => Within(kept, {"unload"}, stack[t][1].x, c)
<1> DEFINE f == Top(t)
           n == Len(stack[t])
           b == stack[t][1].x
<1>1. /\ n \in 1 .. n /\ n \in Nat /\ f = stack[t][n] /\ f \in Frame /\ CallOK(f)
      /\ stack[t] \in Seq(Frame) /\ StackOK(kept, taken, stack[t]) /\ kept \in Kepts
  BY TopFrame, StacksAre DEF Top
<1>2. ListOK(taken, f)
  BY <1>1 DEF StackOK
<1>3. f.op # "parse"
  BY <1>1 DEF CallOK
<1>4. f.x \in Resource \cup Group
  BY <1>1 DEF Frame, Object
<1>5. CASE f.x \in Group
  <2>1. n = 1
    BY <1>1, <1>5, StackShape
  <2>2. c \in taken[f.x] /\ b = f.x
    BY <1>1, <1>2, <1>3, <1>5, <2>1 DEF ListOK
  <2>3. kept[f.x] = taken[f.x] \ Movable
    BY <1>5, KeptIs DEF IInv
  <2>4. c \in Movable \/ c \in kept[f.x]
    BY <2>2, <2>3
  <2>5. Movable \subseteq Common
    BY CommonIs
  <2>6. kept[f.x] \subseteq Under(Op, kept[f.x]) /\ kept[f.x] \subseteq Under({"unload"}, kept[f.x])
    BY <1>1, <1>5, ReachIs, ReachUnload
  <2>7. QED
    BY <1>5, <2>2, <2>4, <2>5, <2>6 DEF Within
<1>6. CASE f.x \in Resource
  <2>1. /\ Head(f.stages) \in Op /\ c \in Calls(Head(f.stages), f.x)
        /\ f.op = "unload" => Head(f.stages) = "unload"
    <3>1. /\ Head(f.stages) \in Op
          /\ f.op = "unload" => Head(f.stages) = "unload"
      <4> HIDE DEF f
      <4>1. f.at = "methods"
        BY DEF f
      <4>2. QED
        BY <1>1, <1>3, <4>1, HeadStage
    <3>2. QED
      BY <1>2, <1>6, <3>1 DEF ListOK
  <2>2. Within(kept, Op, b, f.x) /\ (f.op = "unload" => Within(kept, {"unload"}, b, f.x))
    <3>1. CASE n = 1
      <4>1. f.x \in Direct
        BY <1>1, <1>6, <3>1, ResourceAssumption, StackShape
      <4>2. QED
        BY <4>1, CommonIs DEF Within
    <3>2. CASE n # 1
      <4>1. AboveOK(kept, stack[t], n)
        BY <1>1, <3>2, StackShape
      <4>2. QED
        BY <1>1, <4>1 DEF AboveOK
    <3>3. QED
      BY <3>1, <3>2
  <2>3. Shut(Op, Common) /\ "unload" \in Op
    BY CommonIs DEF Op
  <2>4. \A g \in Group : /\ Shut(Op, Under(Op, kept[g]))
                         /\ Shut({"unload"}, Under({"unload"}, kept[g]))
    BY <1>1, ReachIs, ReachUnload
  <2>5. Within(kept, Op, b, c)
    BY <2>1, <2>2, <2>3, <2>4 DEF Within, Shut
  <2>6. f.op = "unload" => Within(kept, {"unload"}, b, c)
    BY <2>1, <2>2, <2>3, <2>4 DEF Within, Shut
  <2>7. QED
    BY <2>5, <2>6
<1>7. QED
  BY <1>4, <1>5, <1>6

LEMMA CallNextWhole ==
  ASSUME IInv, WholeInv, NEW t \in Thread, CallNext(t)
  PROVE  WholeInv'
<1> DEFINE f == Top(t)
           n == Len(stack[t])
           g == [f EXCEPT !.todo = Tail(@)]
           h == Call(Head(f.stages), Head(f.todo))
<1>1. /\ stack[t] # << >> /\ f.at = "methods" /\ f.todo # << >>
      /\ f \in Frame /\ CallOK(f) /\ n \in Nat /\ n \in 1 .. n /\ f = stack[t][n]
      /\ stack' = [stack EXCEPT ![t] = Append([@ EXCEPT ![Len(stack[t])] = g], h)]
      /\ UNCHANGED <<state, group, resources, data, taken>>
  BY TopFrame DEF CallNext, Top
<1>2. f.todo \in Seq(Resource) /\ Head(f.todo) \in Resource /\ Tail(f.todo) \in Seq(Resource)
  BY <1>1, HeadTailProperties DEF Frame
<1>3. f.op # "parse"
  BY <1>1 DEF CallOK
<1>4. /\ Head(f.stages) \in Op
      /\ Head(f.stages) = "unload" <=> f.op = "unload"
      /\ Head(f.stages) = "load" => f.op = "load"
  <2> HIDE DEF f
  <2>1. f.at = "methods"
    BY <1>1
  <2>2. QED
    BY <1>1, <1>3, <2>1, HeadStage
<1>5. /\ h \in Frame /\ ~ Claimed(h) /\ h.op = Head(f.stages) /\ h.x = Head(f.todo)
      /\ h.at \in {"read", "cas"}
      /\ h.at = "cas" => h.op = "prepare"
  <2>1. Head(f.todo) \in Object /\ Head(f.stages) # "parse"
    BY <1>2, <1>4 DEF Object, Op
  <2>2. h \in Frame /\ ~ Claimed(h)
    BY <1>4, <2>1, CallIs
  <2>3. QED
    BY <1>4, <2>1, <2>2 DEF Call, Op
<1>6. /\ g \in Frame /\ SameCall(f, g) /\ g.at = "methods" /\ g.list = f.list
      /\ g.stages = f.stages /\ g.todo = Tail(f.todo)
  BY <1>1, <1>2 DEF Frame, SameCall
<1>7. Head(f.todo) \in Elements(f.todo) /\ Elements(f.todo) = {h.x} \cup Elements(g.todo)
  BY <1>1, <1>2, <1>5, <1>6, ElementsTail
<1> HIDE DEF g, h
<1>8. /\ Raised(stack[t], stack'[t], g, h) /\ stack'[t] \in Seq(Frame)
      /\ \A u \in Thread \ {t} : stack'[u] = stack[u]
  <2>1. /\ stack' \in [Thread -> Seq(Frame)]
        /\ \A u \in Thread \ {t} : stack'[u] = stack[u]
        /\ Len(stack'[t]) = n + 1
        /\ \A i \in 1 .. n + 1 :
             stack'[t][i] = IF i = n + 1 THEN h
                            ELSE IF i = n THEN g ELSE stack[t][i]
    BY <1>1, <1>5, <1>6, Pushed
  <2>2. QED
    BY <1>1, <2>1 DEF Raised
<1>9. stack[t] \in Seq(Frame) /\ StackOK(kept, taken, stack[t])
  BY StacksAre
<1>10. ListOK(taken, f) /\ h.x \in Elements(f.list)
  <2>1. ListOK(taken, f)
    BY <1>1, <1>9 DEF StackOK
  <2>2. QED
    BY <1>1, <1>7, <2>1 DEF ListOK
<1>11. ListOK(taken, g) /\ ListOK(taken, h)
  <2>1. g.x = f.x /\ g.op = f.op /\ Elements(g.todo) \subseteq Elements(f.todo)
    BY <1>6, <1>7 DEF SameCall
  <2>2. ListOK(taken, g)
    BY <1>1, <1>6, <1>10, <2>1 DEF ListOK
  <2>3. h.at \notin {"methods", "set"}
    BY <1>5
  <2>4. ListOK(taken, h)
    BY <2>3 DEF ListOK
  <2>5. QED
    BY <2>2, <2>4
<1>12. AboveOK(kept, stack'[t], n + 1)
  <2>1. /\ n + 1 \in 1 .. n + 1 /\ (n + 1) - 1 = n /\ n \in 1 .. n + 1 /\ n # n + 1
        /\ 1 \in 1 .. n
        /\ \A i \in 1 .. n : (i \in 1 .. n + 1 /\ i # n + 1)
    BY <1>1
  <2>2. stack'[t][n + 1] = h /\ stack'[t][n] = g
    BY <1>8, <2>1 DEF Raised
  <2>3. \A i \in 1 .. n : stack'[t][i].x = stack[t][i].x /\ stack'[t][i].op = stack[t][i].op
    BY <1>1, <1>6, <1>8, <2>1 DEF Raised, SameCall
  <2>4. /\ Within(kept, Op, stack[t][1].x, h.x)
        /\ f.op = "unload" => Within(kept, {"unload"}, stack[t][1].x, h.x)
    BY <1>1, <1>10, ListWithin
  <2>5. /\ stack[t][1].op = "unload" => f.op = "unload"
        /\ f.op \in {"load", "unload"} => \A j \in 1 .. n : stack[t][j].op = f.op
    <3>1. CASE n = 1
      <4>1. \A j \in 1 .. n : j = 1
        BY <3>1
      <4>2. QED
        BY <1>1, <3>1, <4>1
    <3>2. CASE n # 1
      <4>1. AboveOK(kept, stack[t], n)
        BY <1>1, <1>9, <3>2, StackShape
      <4>2. \A j \in 1 .. n : j = n \/ j \in 1 .. n - 1
        BY <1>1
      <4>3. QED
        BY <1>1, <4>1, <4>2 DEF AboveOK
    <3>3. QED
      BY <3>1, <3>2
  <2>6. stack'[t][1].x = stack[t][1].x /\ stack'[t][1].op = stack[t][1].op
    BY <2>1, <2>3
  <2>7. h.op \in {"load", "unload"} => f.op = h.op
    BY <1>4, <1>5
  <2>8. stack'[t][1].op = "unload" => h.op = "unload"
    BY <1>4, <1>5, <2>5, <2>6
  <2>9. h.op = "unload" => Within(kept, {"unload"}, stack'[t][1].x, h.x)
    BY <1>4, <1>5, <2>4, <2>6
  <2>10. h.op \in {"load", "unload"} => \A j \in 1 .. n : stack'[t][j].op = h.op
    BY <2>3, <2>5, <2>7
  <2>11. h.x \in Resource /\ h.op = Head(g.stages) /\ g.at = "methods"
    BY <1>2, <1>5, <1>6
  <2>12. QED
    BY <2>1, <2>2, <2>4, <2>6, <2>8, <2>9, <2>10, <2>11 DEF AboveOK
<1> HIDE DEF f
<1>13. StackOK(kept, taken, stack'[t])
  <2>1. SameCall(stack[t][Len(stack[t])], g)
    BY <1>1, <1>6
  <2>2. QED
    BY <1>8, <1>9, <1>11, <1>12, <2>1, StackRaised
<1>14. CasOK(kept, state, stack'[t])
  <2>1. Len(stack'[t]) = n + 1 /\ n + 1 \in 1 .. n + 1
    BY <1>1, <1>8 DEF Raised
  <2>2. stack'[t][Len(stack'[t])] = h
    BY <1>8, <2>1 DEF Raised
  <2>3. QED
    BY <1>5, <1>8, <1>13, <2>2, CasTop
<1>15. RoundOK(kept, state, stack'[t])
  <2>1. RoundOK(kept, state, stack[t])
    BY DEF WholeInv
  <2>2. /\ SameCall(stack[t][Len(stack[t])], g)
        /\ g.at = stack[t][Len(stack[t])].at /\ g.list = stack[t][Len(stack[t])].list
        /\ g.stages = stack[t][Len(stack[t])].stages
        /\ Elements(stack[t][Len(stack[t])].todo) \subseteq Elements(g.todo) \cup {h.x}
    BY <1>1, <1>6, <1>7
  <2>3. QED
    BY <1>5, <1>8, <1>9, <2>1, <2>2, RoundRaised
<1>16. KeptOK'
  BY <1>1, KeptStays DEF WholeInv
<1>17. QED
  BY <1>1, <1>8, <1>13, <1>14, <1>15, <1>16, StacksOnly

LEMMA ListedLists ==
  ASSUME NEW f \in Frame, f.x \in Resource
  PROVE  /\ Listed(f).list = Uses[Head(f.stages)][f.x]
         /\ Listed(f).todo = Uses[Head(f.stages)][f.x]
<1>1. f.x \notin Group
  BY ResourceAssumption
<1>2. Listed(f) = [f EXCEPT !.at = "methods", !.list = Uses[Head(f.stages)][f.x],
                            !.todo = Uses[Head(f.stages)][f.x]]
  BY <1>1 DEF Listed
<1>3. QED
  BY <1>2 DEF Frame

\* All that the round has gone through is as the round leaves it.
LEMMA RoundOver ==
  ASSUME IInv, WholeInv, NEW t \in Thread, stack[t] # << >>, Top(t).at = "methods",
         Top(t).todo = << >>, NEW g \in Group, g = stack[t][1].x,
         NEW c \in Elements(Top(t).list) \cap OwnOf(kept, g)
  PROVE  state[c] \in Better[Head(Top(t).stages)]
<1> DEFINE n == Len(stack[t])
<1>1. n \in 1 .. n /\ n \in Nat /\ Top(t) = stack[t][n]
  BY TopFrame DEF Top
<1>2. Elements(stack[t][n].todo) = {}
  BY <1>1 DEF Elements
<1>3. Awaited(stack[t], n) = {}
  BY <1>1 DEF Awaited
<1>4. c \in Called(stack[t], n) \cap OwnOf(kept, g)
  BY <1>1, <1>2, <1>3 DEF Called
<1>5. RoundAt(kept, state, stack[t], n)
  BY <1>1 DEF WholeInv, RoundOK
<1>6. QED
  BY <1>1, <1>4, <1>5 DEF RoundAt

LEMMA EndRoundShut ==
  ASSUME IInv, WholeInv, NEW t \in Thread, EndRound(t), NEW g \in Group
  PROVE  ShutOK(kept, state, data', g)
<1> DEFINE f == Top(t)
           n == Len(stack[t])
           h == Head(f.stages)
<1>1. /\ stack[t] # << >> /\ f.at = "methods" /\ f.todo = << >> /\ f \in Frame /\ CallOK(f)
      /\ ClaimOK(f) /\ n \in 1 .. n /\ f = stack[t][n]
      /\ data' = IF f.x \in Resource THEN [data EXCEPT ![f.x] = Made[h]] ELSE data
  BY TopFrame DEF EndRound, Top
<1>2. ShutOK(kept, state, data, g) /\ kept \in Kepts
  BY StacksAre DEF WholeInv
<1>3. CASE f.x \notin Resource
  BY <1>1, <1>2, <1>3
<1>4. CASE f.x \in Resource
  <2>1. f.op # "parse"
    BY <1>1 DEF CallOK
  <2>2. h \in Op /\ (h = "unload" <=> f.op = "unload")
    <3> HIDE DEF f
    <3>1. f.at = "methods"
      BY <1>1
    <3>2. QED
      BY <1>1, <2>1, <3>1, HeadStage
  <2>3. data \in [Resource -> {"none", "prepared", "loaded"}]
    BY DEF IInv, TypeOK
  <2>4. data'[f.x] = Made[h] /\ \A r \in Resource \ {f.x} : data'[r] = data[r]
    BY <1>1, <1>4, <2>3
  <2>5. h = "load" => data[f.x] = "prepared"
    BY <1>1, <1>4 DEF ClaimOK, Claimed, Needs
  <2>6. ASSUME f.x \in OwnOf(kept, g)
        PROVE  /\ h = "unload" <=> state[g] = "unloading"
               /\ \A c \in Calls(h, f.x) \cap OwnOf(kept, g) : state[c] \in Better[h]
    <3>1. stack[t][1].x = g /\ (f.op = "unload" <=> state[g] = "unloading")
      BY <1>1, <2>6, OwnBase
    <3>2. Elements(f.list) = Calls(h, f.x)
      <4>1. ListOK(taken, f)
        BY <1>1, StacksAre DEF StackOK
      <4>2. QED
        BY <1>1, <1>4, <4>1 DEF ListOK
    <3>3. \A c \in Elements(f.list) \cap OwnOf(kept, g) : state[c] \in Better[h]
      BY <1>1, <3>1, RoundOver
    <3>4. QED
      BY <2>2, <3>1, <3>2, <3>3
  <2> HIDE DEF f, h
  <2>7. QED
    BY <1>2, <1>4, <2>2, <2>4, <2>5, <2>6, MadeShut
<1>5. QED
  BY <1>3, <1>4

LEMMA EndRoundWhole ==
  ASSUME IInv, WholeInv, NEW t \in Thread, EndRound(t)
  PROVE  WholeInv'
<1> DEFINE f == Top(t)
           n == Len(stack[t])
           g == [f EXCEPT !.stages = Tail(@)]
           h == IF Len(f.stages) = 1 THEN [f EXCEPT !.at = "set"]
                ELSE IF f.x \in Group THEN [g EXCEPT !.todo = f.list] ELSE Listed(g)
<1>1. /\ stack[t] # << >> /\ f.at = "methods" /\ f.todo = << >> /\ f \in Frame /\ CallOK(f)
      /\ n \in 1 .. n /\ f = stack[t][n]
      /\ Continue(t, h) /\ UNCHANGED <<state, group, resources, taken>>
  BY TopFrame DEF EndRound, Top
<1>2. Claimed(f) /\ f.op \in Op /\ f.op # "parse" /\ f.x \in Resource \cup Group
  BY <1>1 DEF Claimed, CallOK, Frame, Object
<1>3. f.stages = <<f.op>> \/ (f.op = "load" /\ f.stages = <<"prepare", "load">>)
  BY <1>1, <1>2 DEF CallOK
<1>4. stack[t] \in Seq(Frame) /\ StackOK(kept, taken, stack[t]) /\ ListOK(taken, f)
  BY <1>1, StacksAre DEF StackOK
<1>5. /\ h \in Frame /\ SameCall(f, h) /\ Claimed(h) /\ ListOK(taken, h) /\ h.at # "cas"
      /\ h.at = "methods" => Elements(h.todo) = Elements(h.list)
      /\ h.at = "set" => h.list = f.list /\ Head(f.stages) = f.op
  <2>1. CASE f.stages = <<f.op>>
    <3>1. h = [f EXCEPT !.at = "set"] /\ Head(f.stages) = f.op
      BY <2>1
    <3>2. /\ h \in Frame /\ h.x = f.x /\ h.op = f.op /\ h.at = "set" /\ Claimed(h)
          /\ h.list = f.list
      BY <1>1, <3>1 DEF Frame, Claimed, Place
    <3> HIDE DEF h
    <3>3. ListOK(taken, h)
      BY <1>1, <1>4, <3>2 DEF ListOK
    <3>4. QED
      BY <3>1, <3>2, <3>3 DEF SameCall
  <2>2. CASE f.op = "load" /\ f.stages = <<"prepare", "load">>
    <3>1. /\ Len(f.stages) # 1 /\ Tail(f.stages) = <<"load">> /\ <<"load">> \in Seq(Op)
      BY <2>2 DEF Op
    <3>2. /\ g \in Frame /\ g.x = f.x /\ g.op = "load" /\ g.at = "methods"
          /\ g.stages = <<"load">> /\ g.list = f.list
      BY <1>1, <2>2, <3>1 DEF Frame
    <3>3. h = IF f.x \in Group THEN [g EXCEPT !.todo = f.list] ELSE Listed(g)
      BY <3>1
    <3> HIDE DEF g
    <3>4. CASE f.x \in Group
      <4>1. /\ h \in Frame /\ h.x = f.x /\ h.op = f.op /\ h.at = "methods" /\ Claimed(h)
            /\ h.list = f.list /\ h.todo = f.list
        BY <1>1, <2>2, <3>2, <3>3, <3>4 DEF Frame, Claimed
      <4>2. h.x \notin Resource
        BY <3>4, <4>1, ResourceAssumption
      <4> HIDE DEF h
      <4>3. ListOK(taken, h)
        BY <1>1, <1>4, <4>1, <4>2 DEF ListOK
      <4>4. QED
        BY <4>1, <4>3 DEF SameCall
    <3>5. CASE f.x \notin Group
      <4>1. Head(g.stages) \in Op /\ Head(g.stages) = "load" /\ g.op # "parse" /\ g.stages # << >>
        BY <3>2 DEF Op
      <4>2. f.x \in Resource
        BY <1>2, <3>5
      <4>3. /\ h \in Frame /\ h.x = f.x /\ h.op = f.op /\ h.at = "methods" /\ Claimed(h)
            /\ h.stages = <<"load">>
        BY <2>2, <3>2, <3>3, <3>5, <4>1, ListedIs
      <4>4. h.list = Uses["load"][f.x] /\ h.todo = h.list
        BY <3>2, <3>3, <3>5, <4>1, <4>2, ListedLists
      <4> HIDE DEF h
      <4>5. Head(h.stages) = "load" /\ h.x \notin Group
        BY <3>5, <4>3
      <4>6. ListOK(taken, h)
        BY <4>3, <4>4, <4>5 DEF ListOK, Calls
      <4>7. QED
        BY <4>3, <4>4, <4>6 DEF SameCall
    <3>6. QED
      BY <3>4, <3>5
  <2>3. QED
    BY <1>3, <2>1, <2>2
<1> HIDE DEF h
<1>6. /\ Replaced(stack[t], stack'[t], h) /\ stack'[t] \in Seq(Frame)
      /\ \A u \in Thread \ {t} : stack'[u] = stack[u]
      /\ stack'[t][Len(stack'[t])] = h
  BY <1>1, <1>5, ReplacedIs
<1>7. \A e \in Group : e = stack[t][1].x =>
        \A c \in Elements(f.list) \cap OwnOf(kept, e) : state[c] \in Better[Head(f.stages)]
  BY <1>1, RoundOver
<1>8. SameCall(stack[t][Len(stack[t])], h) /\ Claimed(stack[t][Len(stack[t])])
  BY <1>1, <1>2, <1>5
<1> HIDE DEF f
<1>9. StackOK(kept, taken, stack'[t])
  BY <1>4, <1>5, <1>6, <1>8, StackReplaced
<1>10. CasOK(kept, state, stack'[t])
  BY <1>5, <1>6, <1>9, CasTop
<1>11. RoundOK(kept, state, stack'[t])
  <2>1. RoundOK(kept, state, stack[t])
    BY DEF WholeInv
  <2>2. h.at = "set" =>
          \A e \in Group : e = stack[t][1].x =>
            \A c \in Elements(h.list) \cap OwnOf(kept, e) : state[c] \in Better[h.op]
    BY <1>5, <1>7 DEF SameCall
  <2>3. QED
    BY <1>4, <1>5, <1>6, <1>8, <2>1, <2>2, RoundReplaced
<1>12. kept' = kept
  BY <1>1 DEF kept
<1>13. KeptOK'
  BY <1>1, KeptStays DEF WholeInv
<1>14. \A e \in Group : ShutOK(kept, state, data', e) /\ SteadyOK(kept, state, e)
  BY EndRoundShut DEF WholeInv
<1>15. \A u \in Thread : /\ StackOK(kept, taken, stack'[u])
                         /\ CasOK(kept, state, stack'[u])
                         /\ RoundOK(kept, state, stack'[u])
  BY <1>6, <1>9, <1>10, <1>11 DEF WholeInv
<1>16. QED
  BY <1>1, <1>12, <1>13, <1>14, <1>15 DEF WholeInv

-----------------------------------------------------------------------------
(* What is in a group *)

LEMMA ParseWhole ==
  ASSUME IInv, WholeInv, NEW t \in Thread, Parse(t)
  PROVE  WholeInv'
<1> DEFINE f == Top(t)
           h == IF f.op = "parse" THEN [f EXCEPT !.at = "set"] ELSE Listed(f)
           made == {r \in Scripted[f.x] : group[r] = None}
<1>1. /\ stack[t] # << >> /\ f.at = "parse" /\ f \in Frame /\ CallOK(f)
      /\ Continue(t, h) /\ UNCHANGED <<state, data, taken>>
      /\ group' = [r \in Resource |-> IF r \in made THEN f.x ELSE group[r]]
      /\ resources' = [resources EXCEPT ![f.x] = @ \cup made]
  BY TopFrame DEF Parse
<1>2. Claimed(f) /\ f.x \in Group /\ f.x \notin Resource
  BY <1>1, ResourceAssumption DEF Claimed, CallOK
<1>3. f.op # "parse" => f.stages # << >> /\ Head(f.stages) \in Op
  BY <1>1 DEF CallOK, Frame, Op
<1>4. /\ h \in Frame /\ SameCall(f, h) /\ Claimed(h) /\ h.at \in {"set", "list"}
      /\ h.at = "set" => h.op = "parse"
  <2>1. CASE f.op = "parse"
    BY <1>1, <2>1 DEF Frame, Claimed, Place, SameCall
  <2>2. CASE f.op # "parse"
    BY <1>1, <1>2, <1>3, <2>2, ListedIs DEF SameCall
  <2>3. QED
    BY <2>1, <2>2
<1>5. KeptOK'
  <2>1. /\ resources \in [Group -> SUBSET Resource] /\ group \in [Resource -> Group \cup {None}]
        /\ Scripted[f.x] \subseteq Resource /\ f.x # None /\ \A g \in Group : g # None
        /\ KeptOK
    BY <1>2, ResourceAssumption DEF IInv, TypeOK, WholeInv, Object
  <2> HIDE DEF made
  <2>2. ASSUME NEW g \in Group
        PROVE  /\ taken[g] \ Movable # {} => taken[g] \ Movable = resources'[g] \ Movable
               /\ resources'[g] \ Movable # {} => \A r \in Scripted[g] \ Movable : group'[r] # None
    <3>0. Scripted[g] \subseteq Resource
      BY ResourceAssumption
    <3>1. CASE g # f.x
      <4>1. resources'[g] = resources[g]
        BY <1>1, <2>1, <3>1
      <4>2. \A r \in Resource : group[r] # None => group'[r] # None
        BY <1>1, <2>1
      <4>3. QED
        BY <2>1, <3>0, <4>1, <4>2 DEF KeptOK
    <3>2. CASE g = f.x
      <4>1. resources'[g] = resources[g] \cup made
        BY <1>1, <2>1, <3>2
      <4>2. \A r \in Scripted[g] : group'[r] # None
        BY <1>1, <2>1, <3>2 DEF made
      <4>3. resources[g] \ Movable # {} => made \subseteq Movable
        BY <2>1, <3>2 DEF made, KeptOK
      <4>4. taken[g] \ Movable # {} => taken[g] \ Movable = resources[g] \ Movable
        BY <2>1 DEF KeptOK
      <4>5. taken[g] \ Movable # {} => taken[g] \ Movable = resources'[g] \ Movable
        BY <4>1, <4>3, <4>4
      <4>6. QED
        BY <4>2, <4>5
    <3>3. QED
      BY <3>1, <3>2
  <2>3. taken' = taken
    BY <1>1
  <2>4. QED
    BY <2>2, <2>3 DEF KeptOK
<1> HIDE DEF h
<1>6. /\ Replaced(stack[t], stack'[t], h) /\ stack'[t] \in Seq(Frame)
      /\ \A u \in Thread \ {t} : stack'[u] = stack[u]
      /\ stack'[t][Len(stack'[t])] = h /\ stack[t][Len(stack[t])] = f
  BY <1>1, <1>4, ReplacedIs
<1>7. stack[t] \in Seq(Frame) /\ StackOK(kept, taken, stack[t])
  BY StacksAre
<1> HIDE DEF f
<1>8. ListOK(taken, h)
  BY <1>4 DEF ListOK
<1>9. StackOK(kept, taken, stack'[t])
  BY <1>4, <1>6, <1>7, <1>8, StackReplaced
<1>10. CasOK(kept, state, stack'[t])
  BY <1>4, <1>6, <1>9, CasTop
<1>11. RoundOK(kept, state, stack'[t])
  <2>1. RoundOK(kept, state, stack[t])
    BY DEF WholeInv
  <2>2. h.at # "methods" /\ ~ (h.at = "set" /\ h.x \in Group /\ h.op # "parse")
    BY <1>4
  <2>3. QED
    BY <1>2, <1>4, <1>6, <1>7, <2>1, <2>2, RoundReplaced
<1>12. QED
  BY <1>1, <1>5, <1>6, <1>9, <1>10, <1>11, StacksOnly

LEMMA SetGroupWhole ==
  ASSUME IInv, WholeInv, NEW t \in Thread, NEW r \in Movable, NEW e \in Group \cup {None},
         SetGroup(t, r, e)
  PROVE  WholeInv'
<1>1. /\ group \in [Resource -> Group \cup {None}]
      /\ resources \in [Group -> SUBSET Resource] /\ r \in Resource
      /\ UNCHANGED <<state, stack, data, taken>>
      /\ KeptOK
  BY ResourceAssumption DEF IInv, TypeOK, SetGroup, WholeInv
<1>2. \A g \in Group : resources'[g] \ Movable = resources[g] \ Movable
  BY DEF SetGroup, Without
<1>3. \A q \in Resource \ Movable : group'[q] = group[q]
  BY <1>1 DEF SetGroup
<1>4. \A g \in Group : Scripted[g] \subseteq Resource
  BY ResourceAssumption
<1>5. KeptOK'
  BY <1>1, <1>2, <1>3, <1>4 DEF KeptOK
<1>6. kept' = kept
  BY <1>1 DEF kept
<1>7. QED
  BY <1>1, <1>5, <1>6 DEF WholeInv

-----------------------------------------------------------------------------
(* Claiming an object, and being done with it *)

LEMMA ObjectsStep ==
  ASSUME IInv, WholeInv, NEW t \in Thread, stack[t] # << >>, NEW s2,
         \/ /\ state[Top(t).x] \in From(Top(t).op, Top(t).x)
            /\ s2[Top(t).x] = During[Top(t).op]
         \/ /\ Top(t).at = "set"
            /\ state[Top(t).x] = During[Top(t).op] /\ s2[Top(t).x] = After[Top(t).op],
         \A y \in Object \ {Top(t).x} : s2[y] = state[y]
  PROVE  /\ \A g \in Group : ShutOK(kept, s2, data, g) /\ SteadyOK(kept, s2, g)
         /\ TouchedOK(kept, s2) /\ NoneParsed(s2)
         /\ \A u \in Thread : RoundOK(kept, s2, stack[u])
<1> DEFINE f == Top(t)
           n == Len(stack[t])
<1>1. /\ n \in 1 .. n /\ f = stack[t][n] /\ f \in Frame /\ CallOK(f)
      /\ stack[t] \in Seq(Frame) /\ StackOK(kept, taken, stack[t]) /\ kept \in Kepts
  BY TopFrame, StacksAre DEF Top
<1>2. StepAt(state, s2, f.x, f.op)
  BY DEF StepAt
<1>3. f.x \in Object /\ f.op \in Op \cup {"parse"} /\ Resource \subseteq Object /\ Group \subseteq Object
  BY <1>1 DEF Frame, Object
<1>4. \A g \in Group : ShutOK(kept, state, data, g) /\ SteadyOK(kept, state, g)
  BY DEF WholeInv
<1>5. f.x \in Resource => f.op \in Op
  BY <1>1, <1>3, ResourceAssumption DEF CallOK
<1>6. ASSUME NEW g \in Group, f.x \in OwnOf(kept, g)
      PROVE  /\ f.op = "unload" <=> state[g] = "unloading"
             /\ f.op = "unload" => f.x \in UndoneOf(kept, g)
             /\ state[g] \in {"preparing", "loading", "unloading"}
  <2>1. /\ f.op = "unload" <=> state[g] = "unloading"
        /\ f.op = "unload" => f.x \in UndoneOf(kept, g)
        /\ stack[t][1].op \in Op /\ state[g] = During[stack[t][1].op]
    BY <1>1, <1>6, OwnBase
  <2>2. QED
    BY <2>1 DEF During, Op
<1>7. ASSUME NEW u \in Thread PROVE RoundOK(kept, s2, stack[u])
  <2> HIDE DEF f
  <2>1. QED
    BY <1>2, <1>3, <1>5, <1>6, RoundsStep
<1>8. CASE f.x \in Resource
  <2>1. ASSUME NEW g \in Group PROVE ShutOK(kept, s2, data, g) /\ SteadyOK(kept, s2, g)
    <3> HIDE DEF f
    <3>1. ShutOK(kept, s2, data, g)
      BY <1>1, <1>2, <1>4, <1>5, <1>6, <1>8, ResourceStepShut
    <3>2. SteadyOK(kept, s2, g)
      BY <1>1, <1>2, <1>4, <1>6, <1>8, ResourceStepSteady
    <3>3. QED
      BY <3>1, <3>2
  <2>2. TouchedOK(kept, s2)
    <3>1. f.x \in TouchedOf(kept)
      BY <1>1, <1>8, CallTouches
    <3>2. \A r \in Resource \ TouchedOf(kept) : s2[r] = state[r]
      BY <1>3, <3>1
    <3>3. QED
      BY <3>2 DEF WholeInv, TouchedOK
  <2>3. NoneParsed(s2)
    <3>1. s2[f.x] \notin {"parsed", "parsing"}
      <4>1. f.op \in Op
        BY <1>5, <1>8
      <4>2. s2[f.x] \in {During[f.op], After[f.op]}
        OBVIOUS
      <4>3. QED
        BY <4>1, <4>2 DEF During, After, Op
    <3>2. QED
      BY <1>3, <3>1 DEF WholeInv, NoneParsed
  <2>4. QED
    BY <1>7, <2>1, <2>2, <2>3
<1>9. CASE f.x \notin Resource
  <2>1. f.x \in Group /\ \A r \in Resource : s2[r] = state[r]
    BY <1>3, <1>9 DEF Object
  <2>2. TouchedOK(kept, s2) /\ NoneParsed(s2)
    BY <2>1 DEF WholeInv, TouchedOK, NoneParsed
  <2>3. ASSUME NEW g \in Group PROVE ShutOK(kept, s2, data, g) /\ SteadyOK(kept, s2, g)
    <3>1. CASE g # f.x
      <4>1. s2[g] = state[g]
        BY <1>3, <3>1
      <4>2. QED
        BY <1>1, <1>4, <2>1, <4>1, GroupStays
    <3>2. CASE g = f.x /\ state[f.x] \in From(f.op, f.x) /\ s2[f.x] = During[f.op]
      <4>1. \A r \in Resource : Says(state, data, r)
        BY DEF IInv, StateSays, Says
      <4> HIDE DEF f
      <4>2. QED
        BY <1>1, <1>3, <1>4, <2>1, <3>2, <4>1, GroupClaims
    <3>3. CASE g = f.x /\ f.at = "set" /\ state[f.x] = During[f.op] /\ s2[f.x] = After[f.op]
      <4>1. Settled(kept, state, data, g)
        BY <3>3, OwnSettled
      <4>2. f.op # "parse" => \A c \in kept[g] \cap OwnOf(kept, g) : state[c] \in Better[f.op]
        <5> SUFFICES ASSUME f.op # "parse", NEW c \in kept[g] \cap OwnOf(kept, g)
                     PROVE  state[c] \in Better[f.op]
          OBVIOUS
        <5>1. n = 1
          BY <1>1, <2>1, StackShape
        <5>2. ListOK(taken, f)
          BY <1>1 DEF StackOK
        <5>3. Elements(f.list) = taken[g]
          BY <2>1, <3>3, <5>2 DEF ListOK
        <5>4. c \in Elements(f.list)
          BY <5>3, KeptIs DEF IInv
        <5>5. RoundAt(kept, state, stack[t], n)
          BY <1>1 DEF WholeInv, RoundOK
        <5>6. g = stack[t][1].x
          BY <1>1, <3>3, <5>1
        <5>7. QED
          BY <1>1, <2>1, <3>3, <5>4, <5>5, <5>6 DEF RoundAt
      <4>3. /\ state[g] = During[f.op] /\ s2[g] = After[f.op] /\ f.op \in Op \cup {"parse"}
            /\ \A r \in Resource : s2[r] = state[r]
            /\ kept \in Kepts /\ ShutOK(kept, state, data, g) /\ SteadyOK(kept, state, g)
        BY <1>1, <1>3, <1>4, <2>1, <3>3
      <4> DEFINE o == f.op
      <4> HIDE DEF o
      <4>4. /\ state[g] = During[o] /\ s2[g] = After[o] /\ o \in Op \cup {"parse"}
            /\ o # "parse" => \A c \in kept[g] \cap OwnOf(kept, g) : state[c] \in Better[o]
        BY <4>2, <4>3 DEF o
      <4>5. QED
        BY <4>1, <4>3, <4>4, GroupDone
    <3>4. QED
      BY <3>1, <3>2, <3>3
  <2>4. QED
    BY <1>7, <2>2, <2>3
<1>10. QED
  BY <1>8, <1>9

LEMMA CasOthers ==
  ASSUME IInv, WholeInv, NEW t \in Thread, stack[t] # << >>, NEW s2,
         \A y \in Object \ {Top(t).x} : s2[y] = state[y],
         NEW u \in Thread, u # t
  PROVE  CasOK(kept, s2, stack[u])
<1> SUFFICES ASSUME NEW i \in 2 .. Len(stack[u]), NEW g \in Group,
                    stack[u][i].at = "cas", stack[u][i].op # "prepare",
                    stack[u][i].x \in OwnOf(kept, g)
             PROVE  s2[stack[u][i].x] = stack[u][i].from
  BY DEF CasOK
<1>1. i \in 1 .. Len(stack[u]) /\ Len(stack[t]) \in 1 .. Len(stack[t])
      /\ Top(t) = stack[t][Len(stack[t])]
  BY TopFrame DEF Top
<1>2. stack[u][i].x # Top(t).x
  BY <1>1, OneBase
<1>3. stack[u][i].x \in Object
  BY StacksAre, OwnIs DEF Object
<1>4. state[stack[u][i].x] = stack[u][i].from
  BY DEF WholeInv, CasOK
<1>5. QED
  BY <1>2, <1>3, <1>4

LEMMA FinishWhole ==
  ASSUME IInv, WholeInv, NEW t \in Thread, Finish(t)
  PROVE  WholeInv'
<1> DEFINE f == Top(t)
<1>1. /\ stack[t] # << >> /\ f.at = "set" /\ f \in Frame /\ CallOK(f) /\ ClaimOK(f)
      /\ state' = [state EXCEPT ![f.x] = After[f.op]] /\ Return(t)
      /\ UNCHANGED <<group, resources, data, taken>>
  BY TopFrame DEF Finish
<1>2. Claimed(f)
  BY <1>1 DEF Claimed
<1>3. state \in [Object -> Steady \cup Transient] /\ f.x \in Object
  BY <1>1 DEF IInv, TypeOK, Frame
<1>4. /\ state[f.x] = During[f.op] /\ state'[f.x] = After[f.op]
      /\ \A y \in Object \ {f.x} : state'[y] = state[y]
  BY <1>1, <1>2, <1>3 DEF ClaimOK
<1>5. /\ \A g \in Group : ShutOK(kept, state', data, g) /\ SteadyOK(kept, state', g)
      /\ TouchedOK(kept, state') /\ NoneParsed(state')
      /\ \A u \in Thread : RoundOK(kept, state', stack[u])
  BY <1>1, <1>4, ObjectsStep
<1>6. /\ Dropped(stack[t], stack'[t]) /\ stack'[t] \in Seq(Frame)
      /\ \A u \in Thread \ {t} : stack'[u] = stack[u]
      /\ stack[t] \in Seq(Frame) /\ StackOK(kept, taken, stack[t])
      /\ stack[t][Len(stack[t])] = f
  BY <1>1, DroppedIs, StacksAre
<1>7. StackOK(kept, taken, stack'[t])
  BY <1>6, StackDropped
<1>8. CasOK(kept, state', stack'[t])
  <2>1. Len(stack'[t]) # 0 => stack'[t][Len(stack'[t])].at = "methods"
    BY <1>6, DroppedTop
  <2>2. QED
    BY <1>6, <1>7, <2>1, CasTop
<1>9. RoundOK(kept, state', stack'[t])
  BY <1>2, <1>5, <1>6, RoundDropped
<1>10. KeptOK'
  BY <1>1, KeptStays DEF WholeInv
<1>11. kept' = kept
  BY <1>1 DEF kept
<1>12. ASSUME NEW u \in Thread
       PROVE  /\ StackOK(kept, taken, stack'[u])
              /\ CasOK(kept, state', stack'[u])
              /\ RoundOK(kept, state', stack'[u])
  <2>1. CASE u = t
    BY <1>7, <1>8, <1>9, <2>1
  <2>2. CASE u # t
    <3>1. stack'[u] = stack[u]
      BY <1>6, <2>2
    <3>2. CasOK(kept, state', stack[u])
      BY <1>1, <1>4, <2>2, CasOthers
    <3>3. QED
      BY <1>5, <3>1, <3>2 DEF WholeInv
  <2>3. QED
    BY <2>1, <2>2
<1>13. data' = data /\ taken' = taken
  BY <1>1
<1>14. QED
  BY <1>5, <1>10, <1>11, <1>12, <1>13 DEF WholeInv

LEMMA CasWhole ==
  ASSUME IInv, WholeInv, NEW t \in Thread, Cas(t)
  PROVE  WholeInv'
<1> DEFINE f == Top(t)
           g == [f EXCEPT !.stages = Stages(f.op, f.from)]
           parses == f.x \in Group /\ f.from = "unloaded" /\ f.op # "unload"
           h == IF parses THEN [g EXCEPT !.at = "parse"] ELSE Listed(g)
<1>1. /\ stack[t] # << >> /\ f.at = "cas" /\ f \in Frame /\ CallOK(f)
      /\ UNCHANGED <<group, resources, data, taken>>
  BY TopFrame DEF Cas
<1>2. CASE state[f.x] # f.from /\ Return(t) /\ UNCHANGED state
  BY <1>1, <1>2, FailWhole
<1>3. CASE /\ state[f.x] = f.from /\ state' = [state EXCEPT ![f.x] = During[f.op]]
           /\ Continue(t, h)
  <2>1. f.from \in From(f.op, f.x) /\ f.op \in Op \cup {"parse"} /\ f.from \in Steady
    BY <1>1 DEF CallOK, Frame
  <2>2. f.op = "parse" => f.x \in Group /\ f.from = "unloaded"
    BY <1>1 DEF CallOK
  <2>3. Stages(f.op, f.from) \in Seq(Op)
    <3>1. << >> \in Seq(Op) /\ <<"prepare", "load">> \in Seq(Op)
      BY DEF Op
    <3>2. f.op # "parse" => <<f.op>> \in Seq(Op)
      BY <2>1
    <3> HIDE DEF f
    <3>3. f.op = "parse" => Stages(f.op, f.from) = << >>
      BY DEF Stages
    <3>4. f.op # "parse" => Stages(f.op, f.from) \in {<<f.op>>, <<"prepare", "load">>}
      BY DEF Stages
    <3>5. QED
      BY <3>1, <3>2, <3>3, <3>4
  <2>4. /\ g \in Frame /\ g.op = f.op /\ g.x = f.x /\ g.from = f.from
        /\ g.stages = Stages(f.op, f.from)
    BY <1>1, <2>3 DEF Frame
  <2>5. f.op # "parse" =>
          Stages(f.op, f.from) # << >> /\ Head(Stages(f.op, f.from)) \in Op
    BY <2>1 DEF Stages, Op
  <2>6. f.x \in Resource \cup Group
    BY <1>1 DEF Frame, Object
  <2> HIDE DEF g
  <2>7. /\ h \in Frame /\ SameCall(f, h) /\ Claimed(h)
        /\ h.at \in {"parse", "list", "methods"}
        /\ h.at = "methods" => /\ h.x \in Resource /\ h.x \notin Group /\ h.todo = h.list
                               /\ h.list = Uses[Head(h.stages)][h.x]
    <3>1. CASE parses
      BY <2>4, <3>1 DEF Frame, Claimed, Place, SameCall
    <3>2. CASE ~ parses
      <4>1. f.op # "parse"
        BY <2>2, <3>2
      <4>2. /\ h \in Frame /\ h.op = g.op /\ h.x = g.x /\ Claimed(h) /\ h.stages = g.stages
            /\ h.at = IF g.x \in Group THEN "list" ELSE "methods"
        BY <2>4, <2>5, <3>2, <4>1, ListedIs
      <4>3. g.x \in Resource => h.list = Uses[Head(g.stages)][g.x] /\ h.todo = h.list
        BY <2>4, <3>2, ListedLists
      <4> HIDE DEF h
      <4>4. QED
        BY <2>4, <2>6, <4>2, <4>3 DEF SameCall
    <3>3. QED
      BY <3>1, <3>2
  <2> HIDE DEF h
  <2>8. state \in [Object -> Steady \cup Transient] /\ f.x \in Object
    BY <1>1 DEF IInv, TypeOK, Frame
  <2>9. /\ state[f.x] \in From(f.op, f.x) /\ state'[f.x] = During[f.op]
        /\ \A y \in Object \ {f.x} : state'[y] = state[y]
    BY <1>3, <2>1, <2>8
  <2>10. /\ \A e \in Group : ShutOK(kept, state', data, e) /\ SteadyOK(kept, state', e)
         /\ TouchedOK(kept, state') /\ NoneParsed(state')
         /\ \A u \in Thread : RoundOK(kept, state', stack[u])
    BY <1>1, <2>9, ObjectsStep
  <2>11. /\ Replaced(stack[t], stack'[t], h) /\ stack'[t] \in Seq(Frame)
         /\ \A u \in Thread \ {t} : stack'[u] = stack[u]
         /\ stack'[t][Len(stack'[t])] = h
         /\ stack[t] \in Seq(Frame) /\ StackOK(kept, taken, stack[t])
         /\ stack[t][Len(stack[t])] = f
    BY <1>1, <1>3, <2>7, ReplacedIs, StacksAre
  <2>12. ListOK(taken, h)
    BY <2>7 DEF ListOK, Calls
  <2>13. Tells(kept, state', stack[t])
    <3> SUFFICES ASSUME NEW e \in Group, f.x \in OwnOf(kept, e)
                 PROVE  state'[f.x] \in Better[f.op]
      BY <2>11 DEF Tells
    <3>1. f.op \in Op
      <4>1. f.x \in Resource
        BY StacksAre, OwnIs
      <4>2. QED
        BY <2>1, <2>2, <4>1, ResourceAssumption
    <3>2. QED
      BY <2>9, <3>1 DEF Better, During, Op, Transient
  <2> HIDE DEF f
  <2>14. StackOK(kept, taken, stack'[t])
    BY <2>7, <2>11, <2>12, StackReplaced
  <2>15. CasOK(kept, state', stack'[t])
    BY <2>7, <2>11, <2>14, CasTop
  <2>16. RoundOK(kept, state', stack'[t])
    <3>1. RoundOK(kept, state', stack[t])
      BY <2>10
    <3>2. /\ h.at = "methods" => Elements(h.todo) = Elements(h.list)
          /\ h.at # "set"
          /\ SameCall(stack[t][Len(stack[t])], h)
      BY <2>7, <2>11
    <3>3. QED
      BY <2>7, <2>11, <2>13, <3>1, <3>2, RoundReplaced
  <2>17. KeptOK'
    BY <1>1, KeptStays DEF WholeInv
  <2>18. kept' = kept
    BY <1>1 DEF kept
  <2>19. ASSUME NEW u \in Thread
         PROVE  /\ StackOK(kept, taken, stack'[u])
                /\ CasOK(kept, state', stack'[u])
                /\ RoundOK(kept, state', stack'[u])
    <3>1. CASE u = t
      BY <2>14, <2>15, <2>16, <3>1
    <3>2. CASE u # t
      <4>1. stack'[u] = stack[u]
        BY <2>11, <3>2
      <4>2. CasOK(kept, state', stack[u])
        BY <1>1, <2>9, <3>2, CasOthers DEF f
      <4>3. QED
        BY <2>10, <4>1, <4>2 DEF WholeInv
    <3>3. QED
      BY <3>1, <3>2
  <2>20. data' = data /\ taken' = taken
    BY <1>1
  <2>21. QED
    BY <2>10, <2>17, <2>18, <2>19, <2>20 DEF WholeInv
<1>4. QED
  BY <1>2, <1>3 DEF Cas

-----------------------------------------------------------------------------
(* What a group goes through *)

\* A sorted array of a set has the whole of it.
LEMMA SortedAll ==
  ASSUME NEW S \in SUBSET Resource, NEW q \in [1 .. Cardinality(S) -> S],
         \A i, j \in DOMAIN q : i < j => Order[q[i]] < Order[q[j]]
  PROVE  q \in Seq(Resource) /\ Elements(q) = S
<1>1. IsFiniteSet(S) /\ Cardinality(S) \in Nat
  BY ResourceAssumption, FS_Subset, FS_CardinalityType
<1>2. PICK n \in Nat : n = Cardinality(S)
  BY <1>1
<1>3. q \in [1 .. n -> S] /\ DOMAIN q = 1 .. n
  BY <1>2
<1>4. q \in Seq(Resource) /\ Len(q) = n
  <2>1. q \in [1 .. n -> Resource]
    BY <1>3
  <2>2. q \in Seq(Resource)
    BY <2>1, SeqDef
  <2>3. Len(q) \in Nat /\ DOMAIN q = 1 .. Len(q)
    BY <2>2, LenProperties
  <2>4. QED
    BY <1>3, <2>2, <2>3
<1>5. ASSUME NEW i \in 1 .. n, NEW j \in 1 .. n, q[i] = q[j] PROVE i = j
  <2>1. Order[q[i]] \in Nat /\ Order[q[j]] = Order[q[i]]
    BY <1>3, <1>5, ResourceAssumption
  <2>2. (i < j => Order[q[i]] < Order[q[j]]) /\ (j < i => Order[q[j]] < Order[q[i]])
    BY <1>3
  <2>3. QED
    BY <2>1, <2>2
<1>6. q \in Injection(1 .. n, S)
  BY <1>3, <1>5 DEF Injection, IsInjective
<1>7. IsFiniteSet(1 .. n) /\ Cardinality(1 .. n) = n
  BY FS_Interval
<1>8. q \in Surjection(1 .. n, S)
  BY <1>1, <1>2, <1>6, <1>7, FS_Injection
<1>9. \A r \in S : \E i \in 1 .. n : q[i] = r
  BY <1>8 DEF Surjection
<1>10. QED
  BY <1>3, <1>4, <1>9 DEF Elements

\* A group keeps what it has kept, or keeps for the first time.
Keeps(K, K2, g) ==
  /\ \A h \in Group \ {g} : K2[h] = K[h]
  /\ K[g] = {} \/ K2[g] = K[g]

LEMMA KeepsMore ==
  ASSUME NEW K \in Kepts, NEW K2 \in Kepts, NEW g \in Group, Keeps(K, K2, g),
         NEW h \in Group, NEW ops, ops \subseteq Op
  PROVE  K[h] \subseteq K2[h] /\ Under(ops, K[h]) \subseteq Under(ops, K2[h])
<1>1. K[h] \subseteq K2[h] /\ K2[h] \subseteq Resource
  BY ReachIs DEF Keeps
<1>2. QED
  BY <1>1, UnderMore

LEMMA KeepsWithin ==
  ASSUME NEW K \in Kepts, NEW K2 \in Kepts, NEW g \in Group, Keeps(K, K2, g),
         NEW ops, ops \subseteq Op, NEW b, NEW x, Within(K, ops, b, x)
  PROVE  Within(K2, ops, b, x)
BY KeepsMore DEF Within

LEMMA KeepsOwn ==
  ASSUME NEW K \in Kepts, NEW K2 \in Kepts, NEW g \in Group, Keeps(K, K2, g),
         NEW h \in Group, h # g
  PROVE  /\ OwnOf(K2, h) \subseteq OwnOf(K, h)
         /\ UndoneOf(K2, h) \subseteq UndoneOf(K, h)
         /\ \A c \in OwnOf(K2, h) : c \in UndoneOf(K, h) => c \in UndoneOf(K2, h)
         /\ K2[h] = K[h]
<1>1. K2[h] = K[h]
  BY DEF Keeps
<1>2. \A e \in Group : Under(Op, K[e]) \subseteq Under(Op, K2[e])
  BY KeepsMore
<1>3. AwayFrom(K, h) \subseteq AwayFrom(K2, h)
  BY <1>2 DEF AwayFrom
<1>4. OwnOf(K2, h) \subseteq OwnOf(K, h)
  BY <1>1, <1>3 DEF OwnOf
<1>5. QED
  BY <1>1, <1>4 DEF UndoneOf

LEMMA KeepsTouched ==
  ASSUME NEW K \in Kepts, NEW K2 \in Kepts, NEW g \in Group, Keeps(K, K2, g)
  PROVE  /\ TouchedOf(K) \subseteq TouchedOf(K2)
         /\ K2 = K \/ \A r \in OwnOf(K2, g) : r \in Resource \ TouchedOf(K)
<1>1. \A e \in Group : Under(Op, K[e]) \subseteq Under(Op, K2[e])
  BY KeepsMore
<1>2. TouchedOf(K) \subseteq TouchedOf(K2)
  BY <1>1 DEF TouchedOf
<1>3. CASE K2[g] = K[g]
  <2>1. \A h \in Group : K2[h] = K[h]
    BY <1>3 DEF Keeps
  <2>2. K2 = K
    BY <2>1 DEF Kepts
  <2>3. QED
    BY <1>2, <2>2
<1>4. CASE K[g] = {}
  <2>1. Under(Op, K[g]) = {}
    <3>1. Shut(Op, {})
      BY DEF Shut
    <3>2. Under(Op, K[g]) \subseteq {}
      BY <1>4, <3>1, UnderLeast
    <3>3. QED
      BY <3>2
  <2>2. \A h \in Group \ {g} : K2[h] = K[h]
    BY DEF Keeps
  <2>3. ASSUME NEW r \in OwnOf(K2, g) PROVE r \in Resource \ TouchedOf(K)
    <3>1. r \in Resource /\ r \notin AwayFrom(K2, g)
      BY OwnIs DEF OwnOf
    <3>2. r \notin Common /\ \A h \in Group \ {g} : r \notin Under(Op, K[h])
      BY <2>2, <3>1 DEF AwayFrom
    <3>3. QED
      BY <2>1, <3>1, <3>2 DEF TouchedOf
  <2>4. QED
    BY <1>2, <2>3
<1>5. QED
  BY <1>3, <1>4 DEF Keeps

LEMMA KeepsObjects ==
  ASSUME NEW K \in Kepts, NEW K2 \in Kepts, NEW g \in Group, Keeps(K, K2, g),
         NEW s, NEW d, TouchedOK(K, s), \A r \in Resource : Says(s, d, r),
         s[g] \in {"preparing", "loading", "unloading"},
         NEW h \in Group, ShutOK(K, s, d, h), SteadyOK(K, s, h)
  PROVE  ShutOK(K2, s, d, h) /\ SteadyOK(K2, s, h)
<1>1. CASE h # g
  <2>1. /\ OwnOf(K2, h) \subseteq OwnOf(K, h)
        /\ UndoneOf(K2, h) \subseteq UndoneOf(K, h)
        /\ \A c \in OwnOf(K2, h) : c \in UndoneOf(K, h) => c \in UndoneOf(K2, h)
        /\ K2[h] = K[h]
    BY <1>1, KeepsOwn
  <2>2. ShutOK(K2, s, d, h)
    BY <2>1 DEF ShutOK
  <2>3. SteadyOK(K2, s, h)
    BY <2>1 DEF SteadyOK
  <2>4. QED
    BY <2>2, <2>3
<1>2. CASE h = g
  <2>1. CASE K2 = K
    BY <2>1
  <2>2. CASE \A r \in OwnOf(K2, g) : r \in Resource \ TouchedOf(K)
    <3>1. \A r \in OwnOf(K2, g) : s[r] = "unloaded" /\ d[r] = "none"
      BY <2>2 DEF TouchedOK, Says
    <3>2. UndoneOf(K2, g) \subseteq OwnOf(K2, g)
      BY OwnIs
    <3>3. ShutOK(K2, s, d, g)
      BY <3>1, <3>2 DEF ShutOK, Better
    <3>4. SteadyOK(K2, s, g)
      BY DEF SteadyOK
    <3>5. QED
      BY <1>2, <3>3, <3>4
  <2>3. QED
    BY <2>1, <2>2, KeepsTouched
<1>3. QED
  BY <1>1, <1>2

LEMMA KeepsStack ==
  ASSUME NEW K \in Kepts, NEW K2 \in Kepts, NEW g \in Group, Keeps(K, K2, g),
         NEW T, NEW T2, NEW st, StackOK(K, T, st),
         \A i \in 1 .. Len(st) : ListOK(T2, st[i])
  PROVE  StackOK(K2, T2, st)
<1>1. ASSUME NEW i \in 2 .. Len(st) PROVE AboveOK(K2, st, i)
  <2>1. AboveOK(K, st, i)
    BY DEF StackOK
  <2>2. Op \subseteq Op /\ {"unload"} \subseteq Op
    BY DEF Op
  <2>3. Within(K, Op, st[1].x, st[i].x) => Within(K2, Op, st[1].x, st[i].x)
    BY <2>2, KeepsWithin
  <2>4. Within(K, {"unload"}, st[1].x, st[i].x) => Within(K2, {"unload"}, st[1].x, st[i].x)
    BY <2>2, KeepsWithin
  <2>5. QED
    BY <2>1, <2>3, <2>4 DEF AboveOK
<1>2. QED
  BY <1>1 DEF StackOK

\* The stacks that do not start at g do not mind what it keeps.
LEMMA KeepsRound ==
  ASSUME NEW K \in Kepts, NEW K2 \in Kepts, NEW g \in Group, Keeps(K, K2, g),
         NEW T, NEW T2, NEW s, NEW st \in Seq(Frame), StackOK(K, T, st), StackOK(K2, T2, st),
         CasOK(K, s, st), RoundOK(K, s, st),
         Len(st) # 0 => ~ (st[1].x = g /\ Claimed(st[1]))
  PROVE  CasOK(K2, s, st) /\ RoundOK(K2, s, st)
<1>1. ASSUME NEW i \in 1 .. Len(st), NEW h \in Group, i # 1 \/ Claimed(st[i]), st[1].x = h
      PROVE  OwnOf(K2, h) \subseteq OwnOf(K, h)
  <2>1. Claimed(st[1]) /\ Len(st) # 0
    <3>1. i # 1 => Claimed(st[1])
      BY StackShape
    <3>2. QED
      BY <1>1, <3>1
  <2>2. h # g
    BY <1>1, <2>1
  <2>3. QED
    BY <2>2, KeepsOwn
<1>2. ASSUME NEW i \in 2 .. Len(st), NEW h \in Group,
             st[i].at = "cas", st[i].op # "prepare", st[i].x \in OwnOf(K2, h)
      PROVE  s[st[i].x] = st[i].from
  <2>1. i \in 1 .. Len(st) /\ i # 1
    OBVIOUS
  <2>2. AboveOK(K2, st, i)
    BY DEF StackOK
  <2>3. st[1].x = h
    <3>1. st[i].x \notin Common
      BY <1>2, OwnIs
    <3>2. QED
      BY <1>2, <2>2, <3>1, OwnOfOne DEF AboveOK, Within
  <2>4. st[i].x \in OwnOf(K, h)
    BY <1>1, <1>2, <2>1, <2>3
  <2>5. QED
    BY <1>2, <2>4 DEF CasOK
<1>3. ASSUME NEW i \in 1 .. Len(st) PROVE RoundAt(K2, s, st, i)
  <2>1. RoundAt(K, s, st, i)
    BY DEF RoundOK
  <2>2. ASSUME NEW h \in Group, st[1].x = h, st[i].at \in {"methods", "set"}
        PROVE  OwnOf(K2, h) \subseteq OwnOf(K, h)
    <3>1. Claimed(st[i])
      BY <2>2 DEF Claimed
    <3>2. QED
      BY <1>1, <2>2, <3>1
  <2>3. QED
    BY <2>1, <2>2 DEF RoundAt
<1>4. QED
  BY <1>2, <1>3 DEF CasOK, RoundOK

LEMMA SnapshotWhole ==
  ASSUME IInv, WholeInv, NEW t \in Thread, Snapshot(t)
  PROVE  WholeInv'
<1> DEFINE f == Top(t)
           n == Len(stack[t])
           held == resources[f.x]
           Sorted(q) == \A i, j \in DOMAIN q : i < j => Order[q[i]] < Order[q[j]]
           s == CHOOSE q \in [1 .. Cardinality(held) -> held] : Sorted(q)
           h == [f EXCEPT !.at = "methods", !.list = s, !.todo = s]
<1>1. /\ stack[t] # << >> /\ f.at = "list" /\ f \in Frame /\ CallOK(f) /\ ClaimOK(f)
      /\ Continue(t, h) /\ taken' = [taken EXCEPT ![f.x] = held]
      /\ UNCHANGED <<state, group, resources, data>>
      /\ n \in 1 .. n /\ n \in Nat /\ f = stack[t][n]
  BY TopFrame DEF Snapshot, Top
<1>2. Claimed(f) /\ f.x \in Group /\ f.x \notin Resource
  BY <1>1, ResourceAssumption DEF Claimed, CallOK
<1>3. held \in SUBSET Resource
  BY <1>2 DEF IInv, TypeOK
<1>4. s \in Seq(Resource) /\ Elements(s) = held
  <2>1. \E q \in [1 .. Cardinality(held) -> held] : Sorted(q)
    BY <1>3, ResourceAssumption
  <2>2. s \in [1 .. Cardinality(held) -> held] /\ Sorted(s)
    <3> HIDE DEF Sorted
    <3>1. QED
      BY <2>1
  <2> HIDE DEF s
  <2>3. QED
    BY <1>3, <2>2, SortedAll
<1> HIDE DEF s
<1>5. /\ h \in Frame /\ SameCall(f, h) /\ Claimed(h)
      /\ h.at = "methods" /\ h.list = s /\ h.todo = s
  BY <1>1, <1>4 DEF Frame, Claimed, Place, SameCall
<1> HIDE DEF h
<1>6. /\ Replaced(stack[t], stack'[t], h) /\ stack'[t] \in Seq(Frame)
      /\ \A u \in Thread \ {t} : stack'[u] = stack[u]
      /\ stack'[t][Len(stack'[t])] = h
  BY <1>1, <1>5, ReplacedIs
<1>7. kept \in Kepts /\ stack[t] \in Seq(Frame) /\ StackOK(kept, taken, stack[t])
  BY StacksAre
<1>8. n = 1
  BY <1>1, <1>2, <1>7, StackShape
<1>9. /\ taken'[f.x] = held /\ \A g \in Group \ {f.x} : taken'[g] = taken[g]
      /\ taken' \in [Group -> SUBSET Resource]
  BY <1>1, <1>2, <1>3 DEF IInv, TypeOK
<1>10. /\ kept' \in Kepts /\ Keeps(kept, kept', f.x)
       /\ \A g \in Group : kept'[g] = taken'[g] \ Movable
  <2>1. \A g \in Group : kept[g] = taken[g] \ Movable
    BY DEF kept
  <2>2. \A g \in Group : kept'[g] = taken'[g] \ Movable
    BY DEF kept
  <2>3. kept' \in Kepts
    BY <1>9 DEF kept, Kepts
  <2>4. taken[f.x] \ Movable = {} \/ taken[f.x] \ Movable = resources[f.x] \ Movable
    BY <1>2 DEF WholeInv, KeptOK
  <2>5. kept[f.x] = {} \/ kept'[f.x] = kept[f.x]
    BY <1>2, <1>9, <2>1, <2>2, <2>4
  <2>6. \A g \in Group \ {f.x} : kept'[g] = kept[g]
    BY <1>9, <2>1, <2>2
  <2>7. QED
    BY <2>2, <2>3, <2>5, <2>6 DEF Keeps
<1>11. KeptOK'
  <2>1. KeptOK /\ resources' = resources /\ group' = group
    BY <1>1 DEF WholeInv
  <2>2. QED
    BY <1>9, <2>1 DEF KeptOK
<1>12. state[f.x] \in {"preparing", "loading", "unloading"}
  <2>1. f.op \in Op
    BY <1>1 DEF CallOK, Frame
  <2>2. state[f.x] = During[f.op]
    BY <1>1, <1>2 DEF ClaimOK
  <2>3. QED
    BY <2>1, <2>2 DEF During, Op
<1>13. \A g \in Group : ShutOK(kept', state, data, g) /\ SteadyOK(kept', state, g)
  <2>1. TouchedOK(kept, state) /\ \A g \in Group : ShutOK(kept, state, data, g) /\ SteadyOK(kept, state, g)
    BY DEF WholeInv
  <2>2. \A r \in Resource : Says(state, data, r)
    BY DEF IInv, StateSays, Says
  <2> DEFINE K == kept'
             e == f.x
  <2>3. /\ K \in Kepts /\ e \in Group /\ Keeps(kept, K, e)
        /\ state[e] \in {"preparing", "loading", "unloading"}
    BY <1>2, <1>10, <1>12
  <2> HIDE DEF K, e, f
  <2>4. \A g \in Group : ShutOK(K, state, data, g) /\ SteadyOK(K, state, g)
    BY <1>7, <2>1, <2>2, <2>3, KeepsObjects
  <2>5. QED
    BY <2>4 DEF K
<1>14. TouchedOK(kept', state) /\ NoneParsed(state)
  <2>1. TouchedOf(kept) \subseteq TouchedOf(kept')
    BY <1>2, <1>7, <1>10, KeepsTouched
  <2>2. QED
    BY <2>1 DEF WholeInv, TouchedOK
<1>15. ASSUME NEW u \in Thread, u # t
       PROVE  /\ StackOK(kept', taken', stack[u]) /\ CasOK(kept', state, stack[u])
              /\ RoundOK(kept', state, stack[u])
  <2>1. /\ stack[u] \in Seq(Frame) /\ StackOK(kept, taken, stack[u])
        /\ CasOK(kept, state, stack[u]) /\ RoundOK(kept, state, stack[u])
    BY StacksAre DEF WholeInv
  <2>2. \A i \in 1 .. Len(stack[u]) : ~ (stack[u][i].x = f.x /\ Claimed(stack[u][i]))
    BY <1>1, <1>2, <1>15, OneCall DEF IInv
  <2>3. ASSUME NEW i \in 1 .. Len(stack[u]) PROVE ListOK(taken', stack[u][i])
    <3>1. ListOK(taken, stack[u][i])
      BY <2>1 DEF StackOK
    <3>2. stack[u][i].at \in {"methods", "set"} => stack[u][i].x # f.x
      BY <2>2 DEF Claimed
    <3>3. QED
      BY <1>9, <3>1, <3>2 DEF ListOK
  <2>4. StackOK(kept', taken', stack[u])
    <3> HIDE DEF f
    <3>1. QED
      BY <1>2, <1>7, <1>10, <2>1, <2>3, KeepsStack
  <2>5. Len(stack[u]) # 0 => ~ (stack[u][1].x = f.x /\ Claimed(stack[u][1]))
    <3>1. Len(stack[u]) \in Nat
      BY <2>1
    <3>2. Len(stack[u]) # 0 => 1 \in 1 .. Len(stack[u])
      BY <3>1
    <3>3. QED
      BY <2>2, <3>2
  <2> HIDE DEF f
  <2>6. CasOK(kept', state, stack[u]) /\ RoundOK(kept', state, stack[u])
    BY <1>2, <1>7, <1>10, <2>1, <2>4, <2>5, KeepsRound
  <2>7. QED
    BY <2>4, <2>6
<1>16. StackOK(kept', taken', stack[t]) /\ RoundOK(kept', state, stack[t])
  <2>1. \A i \in 1 .. Len(stack[t]) : stack[t][i] = f
    <3>1. \A i \in 1 .. n : i = n
      BY <1>8
    <3>2. QED
      BY <1>1, <3>1
  <2>2. ListOK(taken', f)
    BY <1>1 DEF ListOK
  <2>3. RoundOK(kept', state, stack[t])
    BY <1>1, <2>1 DEF RoundOK, RoundAt
  <2> HIDE DEF f
  <2>4. StackOK(kept', taken', stack[t])
    BY <1>2, <1>7, <1>10, <2>1, <2>2, KeepsStack
  <2>5. QED
    BY <2>3, <2>4
<1>17. ListOK(taken', h)
  <2>1. h.x = f.x /\ h.x \notin Resource
    BY <1>2, <1>5 DEF SameCall
  <2>2. QED
    BY <1>4, <1>5, <1>9, <2>1 DEF ListOK
<1>18. SameCall(stack[t][Len(stack[t])], h) /\ Claimed(stack[t][Len(stack[t])])
  BY <1>1, <1>2, <1>5
<1> HIDE DEF f, held
<1>19. StackOK(kept', taken', stack'[t])
  BY <1>6, <1>7, <1>16, <1>17, <1>18, StackReplaced
<1>20. CasOK(kept', state, stack'[t])
  BY <1>5, <1>6, <1>19, CasTop
<1>21. RoundOK(kept', state, stack'[t])
  BY <1>5, <1>6, <1>7, <1>16, <1>18, RoundReplaced
<1>22. ASSUME NEW u \in Thread
       PROVE  /\ StackOK(kept', taken', stack'[u])
              /\ CasOK(kept', state, stack'[u])
              /\ RoundOK(kept', state, stack'[u])
  <2>1. CASE u = t
    BY <1>19, <1>20, <1>21, <2>1
  <2>2. CASE u # t
    BY <1>6, <1>15, <2>2
  <2>3. QED
    BY <2>1, <2>2
<1>23. state' = state /\ data' = data
  BY <1>1
<1>24. QED
  BY <1>11, <1>13, <1>14, <1>22, <1>23 DEF WholeInv

LEMMA InitWhole == Init => WholeInv
<1> SUFFICES ASSUME Init PROVE WholeInv
  OBVIOUS
<1>1. \A t \in Thread : stack[t] = << >> /\ Len(stack[t]) = 0
  BY DEF Init
<1>2. 1 .. 0 = {} /\ 2 .. 0 = {} /\ ~ (0 > 0)
  OBVIOUS
<1>3. \A t \in Thread : StackOK(kept, taken, stack[t])
  BY <1>1, <1>2 DEF StackOK
<1>4. \A t \in Thread : CasOK(kept, state, stack[t]) /\ RoundOK(kept, state, stack[t])
  BY <1>1, <1>2 DEF CasOK, RoundOK
<1>5. /\ \A x \in Object : state[x] = "unloaded"
      /\ \A r \in Resource : data[r] = "none"
      /\ \A g \in Group : taken[g] = {} /\ resources[g] = {}
      /\ Resource \subseteq Object /\ Group \subseteq Object
  BY DEF Init, Object
<1>6. kept \in Kepts
  BY <1>5 DEF kept, Kepts
<1>7. ASSUME NEW g \in Group PROVE ShutOK(kept, state, data, g) /\ SteadyOK(kept, state, g)
  <2>1. /\ \A r \in OwnOf(kept, g) : state[r] = "unloaded" /\ data[r] = "none"
        /\ UndoneOf(kept, g) \subseteq OwnOf(kept, g)
        /\ state[g] = "unloaded"
    BY <1>5, <1>6, OwnIs
  <2>2. ShutOK(kept, state, data, g)
    BY <2>1 DEF ShutOK
  <2>3. SteadyOK(kept, state, g)
    BY <2>1 DEF SteadyOK
  <2>4. QED
    BY <2>2, <2>3
<1>8. TouchedOK(kept, state) /\ NoneParsed(state) /\ KeptOK
  BY <1>5 DEF TouchedOK, NoneParsed, KeptOK
<1>9. QED
  BY <1>3, <1>4, <1>7, <1>8 DEF WholeInv

LEMMA NextWhole == IInv /\ WholeInv /\ [Next]_vars => WholeInv'
<1> SUFFICES ASSUME IInv, WholeInv, [Next]_vars PROVE WholeInv'
  OBVIOUS
<1>1. CASE Next
  <2>1. PICK t \in Thread : \/ Begin(t) \/ Step(t)
                            \/ \E r \in Movable, g \in Group \cup {None} : SetGroup(t, r, g)
    BY <1>1 DEF Next
  <2>2. CASE Begin(t)
    BY <2>2, BeginWhole
  <2>3. CASE Step(t)
    BY <2>3, ReadWhole, CasWhole, ParseWhole, SnapshotWhole, CallNextWhole, EndRoundWhole,
       FinishWhole DEF Step
  <2>4. CASE \E r \in Movable, g \in Group \cup {None} : SetGroup(t, r, g)
    BY <2>4, SetGroupWhole
  <2>5. QED
    BY <2>1, <2>2, <2>3, <2>4
<1>2. CASE UNCHANGED vars
  <2>1. kept' = kept
    BY <1>2 DEF vars, kept
  <2>2. UNCHANGED <<state, group, resources, stack, data, taken>>
    BY <1>2 DEF vars
  <2>3. KeptOK'
    BY <2>2, KeptStays DEF WholeInv
  <2>4. QED
    BY <2>1, <2>2, <2>3 DEF WholeInv
<1>3. QED
  BY <1>1, <1>2

\* A group is whole, whatever its resources use (but none unloads what it has
\* not loaded, nor loads what it has not prepared), whichever of them are used
\* from elsewhere as well, and however many threads call which operations of
\* how many groups: GroupIsWhole is an invariant.
THEOREM GroupsAreWhole == Spec => []GroupIsWhole
<1>1. Init => IInv /\ WholeInv
  BY InitInv, InitWhole
<1>2. IInv /\ WholeInv /\ [Next]_vars => (IInv /\ WholeInv)'
  BY NextInv, NextWhole
<1>3. IInv /\ WholeInv => GroupIsWhole
  BY WholeImplies DEF IInv
<1>4. QED
  BY <1>1, <1>2, <1>3, PTL DEF Spec

(***************************************************************************)
(* SceneGraph                                                              *)
(***************************************************************************)

-----------------------------------------------------------------------------
(* What is reached *)

\* Whatever has A and is left by no step has all that is reached.
LEMMA ReachedLeast ==
  ASSUME NEW to, NEW A, NEW T \in SUBSET Node, A \subseteq T,
         \A k \in T : to[k] \subseteq T
  PROVE  Reached(to, A) \subseteq T
<1>1. T = A \cup (T \ A) /\ T \ A \in SUBSET (Node \ A)
  OBVIOUS
<1>2. T \in {A \cup X : X \in SUBSET (Node \ A)}
  BY <1>1
<1>3. QED
  BY <1>2 DEF Reached

\* What is reached has A, and no step leaves it.
LEMMA ReachedCloses ==
  ASSUME NEW A \in SUBSET Node, NEW to \in [Node -> SUBSET Node]
  PROVE  /\ A \subseteq Reached(to, A) /\ Reached(to, A) \subseteq Node
         /\ \A k \in Reached(to, A) : to[k] \subseteq Reached(to, A)
<1>1. A \subseteq Reached(to, A) /\ Reached(to, A) \subseteq Node
  BY DEF Reached
<1>2. ASSUME NEW k \in Reached(to, A), NEW m \in to[k]
      PROVE  m \in Reached(to, A)
  <2>1. k \in Node /\ m \in Node
    BY <1>1, <1>2
  <2>2. ASSUME NEW T \in {A \cup X : X \in SUBSET (Node \ A)}, \A j \in T : to[j] \subseteq T
        PROVE  m \in T
    <3>1. k \in T
      BY <1>2, <2>2 DEF Reached
    <3>2. QED
      BY <1>2, <2>2, <3>1
  <2>3. QED
    BY <2>1, <2>2 DEF Reached
<1>3. QED
  BY <1>1, <1>2

\* A tree as the field parent has it.
Ups == [Node -> Node \cup {NoNode}]

\* The way up from n through S.
LEMMA ThroughCloses ==
  ASSUME NEW up \in Ups, NEW S, NEW n \in Node
  PROVE  /\ n \in Through(up, S, n) /\ Through(up, S, n) \subseteq Node
         /\ \A k \in Through(up, S, n) : k \in S /\ up[k] # NoNode => up[k] \in Through(up, S, n)
<1> DEFINE to == [k \in Node |-> IF k \in S THEN {up[k]} \ {NoNode} ELSE {}]
<1>1. to \in [Node -> SUBSET Node] /\ {n} \in SUBSET Node
  BY DEF Ups
<1>2. Through(up, S, n) = Reached(to, {n})
  BY DEF Through
<1>3. \A k \in Node : k \in S /\ up[k] # NoNode => up[k] \in to[k]
  OBVIOUS
<1> HIDE DEF to
<1>4. /\ {n} \subseteq Reached(to, {n}) /\ Reached(to, {n}) \subseteq Node
      /\ \A k \in Reached(to, {n}) : to[k] \subseteq Reached(to, {n})
  BY <1>1, ReachedCloses
<1>5. QED
  BY <1>2, <1>3, <1>4

LEMMA ThroughLeast ==
  ASSUME NEW up \in Ups, NEW S, NEW n \in Node, NEW T \in SUBSET Node, n \in T,
         \A k \in T : k \in S /\ up[k] # NoNode => up[k] \in T
  PROVE  Through(up, S, n) \subseteq T
<1> DEFINE to == [k \in Node |-> IF k \in S THEN {up[k]} \ {NoNode} ELSE {}]
<1>1. \A k \in T : to[k] \subseteq T
  OBVIOUS
<1>2. Through(up, S, n) = Reached(to, {n})
  BY DEF Through
<1> HIDE DEF to
<1>3. QED
  BY <1>1, <1>2, ReachedLeast

\* The part of the way through S that lies in S has the parents that lie in S.
LEMMA ThroughNext ==
  ASSUME NEW up \in Ups, NEW S, NEW n \in Node, NEW k \in Through(up, S, n) \cap S,
         up[k] \in S, NoNode \notin S
  PROVE  up[k] \in Through(up, S, n) \cap S
BY ThroughCloses

\* The ancestors under the parents up.
LineUp(up, n) == Through(up, Node, n)

LEMMA LineIs == \A n : Line(n) = LineUp(parent, n)
BY DEF Line, LineUp

LEMMA LineCloses ==
  ASSUME NEW up \in Ups, NEW n \in Node
  PROVE  /\ n \in LineUp(up, n) /\ LineUp(up, n) \subseteq Node
         /\ \A k \in LineUp(up, n) : up[k] # NoNode => up[k] \in LineUp(up, n)
BY ThroughCloses DEF LineUp

LEMMA LineLeast ==
  ASSUME NEW up \in Ups, NEW n \in Node, NEW T \in SUBSET Node, n \in T,
         \A k \in T : up[k] # NoNode => up[k] \in T
  PROVE  LineUp(up, n) \subseteq T
BY ThroughLeast DEF LineUp

\* An ancestor's ancestors.
LEMMA LineWithin ==
  ASSUME NEW up \in Ups, NEW n \in Node, NEW k \in LineUp(up, n)
  PROVE  LineUp(up, k) \subseteq LineUp(up, n)
<1>1. k \in Node /\ LineUp(up, n) \in SUBSET Node
  BY LineCloses
<1>2. QED
  BY <1>1, LineCloses, LineLeast

\* What is above a node is its parent, or above it.
LEMMA LineSplits ==
  ASSUME NEW up \in Ups, NEW n \in Node
  PROVE  \A k \in LineUp(up, n) : k = n \/ (up[n] # NoNode /\ k \in LineUp(up, up[n]))
<1> DEFINE T == {k \in Node : k = n \/ (up[n] # NoNode /\ k \in LineUp(up, up[n]))}
<1>1. ASSUME NEW k \in T, up[k] # NoNode PROVE up[k] \in T
  <2>1. up[k] \in Node /\ k \in Node
    BY <1>1 DEF Ups
  <2>2. CASE k = n
    BY <1>1, <2>1, <2>2, LineCloses
  <2>3. CASE up[n] # NoNode /\ k \in LineUp(up, up[n])
    <3>1. up[n] \in Node
      BY <2>3 DEF Ups
    <3>2. QED
      BY <1>1, <2>1, <2>3, <3>1, LineCloses
  <2>4. QED
    BY <1>1, <2>2, <2>3
<1>2. n \in T /\ T \in SUBSET Node
  OBVIOUS
<1> HIDE DEF T
<1>3. LineUp(up, n) \subseteq T
  BY <1>1, <1>2, LineLeast
<1>4. QED
  BY <1>3 DEF T

-----------------------------------------------------------------------------
(* What is below *)

LEMMA BelowCloses ==
  ASSUME parent \in Ups, NoNode \notin Node, NEW n \in Node
  PROVE  /\ n \in Below(n) /\ Below(n) \subseteq Node
         /\ \A m \in Node : parent[m] \in Below(n) => m \in Below(n)
<1> DEFINE to == [k \in Node |-> {m \in Node : parent[m] = k}]
<1>1. to \in [Node -> SUBSET Node] /\ {n} \in SUBSET Node
  OBVIOUS
<1>2. Below(n) = Reached(to, {n})
  BY DEF Below
<1>3. \A k, m \in Node : parent[m] = k => m \in to[k]
  OBVIOUS
<1> HIDE DEF to
<1>4. /\ {n} \subseteq Reached(to, {n}) /\ Reached(to, {n}) \subseteq Node
      /\ \A k \in Reached(to, {n}) : to[k] \subseteq Reached(to, {n})
  BY <1>1, ReachedCloses
<1>5. QED
  BY <1>2, <1>3, <1>4

LEMMA BelowLeast ==
  ASSUME parent \in Ups, NEW n \in Node, NEW T \in SUBSET Node, n \in T,
         \A m \in Node : parent[m] \in T => m \in T
  PROVE  Below(n) \subseteq T
<1> DEFINE to == [k \in Node |-> {m \in Node : parent[m] = k}]
<1>1. \A k \in T : to[k] \subseteq T
  OBVIOUS
<1>2. Below(n) = Reached(to, {n})
  BY DEF Below
<1> HIDE DEF to
<1>3. QED
  BY <1>1, <1>2, ReachedLeast

\* Who has n above it is below n.
LEMMA BelowOfLine ==
  ASSUME parent \in Ups, NoNode \notin Node, NEW n \in Node, NEW x \in Node,
         n \in LineUp(parent, x)
  PROVE  x \in Below(n)
<1> SUFFICES ASSUME x \notin Below(n) PROVE FALSE
  OBVIOUS
<1> DEFINE T == Node \ Below(n)
<1>1. x \in T /\ T \in SUBSET Node
  OBVIOUS
<1>2. ASSUME NEW k \in T, parent[k] # NoNode PROVE parent[k] \in T
  <2>1. parent[k] \in Node
    BY <1>2 DEF Ups
  <2>2. parent[k] \notin Below(n)
    BY BelowCloses
  <2>3. QED
    BY <2>1, <2>2
<1>3. LineUp(parent, x) \subseteq T
  <2> HIDE DEF T
  <2>1. QED
    BY <1>1, <1>2, LineLeast
<1>4. n \in Below(n)
  BY BelowCloses
<1>5. QED
  BY <1>3, <1>4

\* All above what is below a root is below it, too.
LEMMA LineBelow ==
  ASSUME parent \in Ups, NoNode \notin Node, NEW r \in Node, parent[r] = NoNode,
         NEW n \in Below(r)
  PROVE  LineUp(parent, n) \subseteq Below(r)
<1> DEFINE T == {m \in Node : LineUp(parent, m) \subseteq Below(r)}
<1>1. T \in SUBSET Node
  OBVIOUS
<1>2. r \in T
  <2>1. LineUp(parent, r) \subseteq {r}
    <3>1. /\ {r} \in SUBSET Node /\ r \in {r}
          /\ \A k \in {r} : parent[k] # NoNode => parent[k] \in {r}
      OBVIOUS
    <3>2. QED
      BY <3>1, LineLeast
  <2>2. QED
    BY <2>1, BelowCloses
<1>3. ASSUME NEW m \in Node, parent[m] \in T PROVE m \in T
  <2>1. parent[m] \in Node /\ parent[m] # NoNode /\ LineUp(parent, parent[m]) \subseteq Below(r)
    BY <1>3
  <2>2. parent[m] \in Below(r)
    BY <2>1, LineCloses
  <2>3. m \in Below(r)
    BY <2>2, BelowCloses
  <2>4. LineUp(parent, m) \subseteq Below(r)
    BY <2>1, <2>3, LineSplits
  <2>5. QED
    BY <2>4
<1> HIDE DEF T
<1>4. n \in T
  BY <1>1, <1>2, <1>3, BelowLeast
<1>5. QED
  BY <1>4 DEF T

-----------------------------------------------------------------------------
(* Changes of the tree *)

\* A line that n is not on, or that n ends, is the same when n has moved.
LEMMA LineKept ==
  ASSUME NEW up \in Ups, NEW n \in Node, NEW p \in Node \cup {NoNode}, NEW x \in Node,
         up[n] = NoNode \/ n \notin LineUp(up, x)
  PROVE  LineUp(up, x) \subseteq LineUp([up EXCEPT ![n] = p], x)
<1> DEFINE new == [up EXCEPT ![n] = p]
           T == LineUp(new, x) \cap LineUp(up, x)
<1>1. new \in Ups /\ \A k \in Node : k # n => new[k] = up[k]
  BY DEF Ups
<1> HIDE DEF new
<1>2. /\ x \in LineUp(new, x) /\ LineUp(new, x) \subseteq Node
      /\ \A k \in LineUp(new, x) : new[k] # NoNode => new[k] \in LineUp(new, x)
  BY <1>1, LineCloses
<1>3. /\ x \in LineUp(up, x) /\ LineUp(up, x) \subseteq Node
      /\ \A k \in LineUp(up, x) : up[k] # NoNode => up[k] \in LineUp(up, x)
  BY LineCloses
<1>4. ASSUME NEW k \in T, up[k] # NoNode PROVE up[k] \in T
  <2>1. k # n /\ k \in Node
    BY <1>3, <1>4
  <2>2. QED
    BY <1>1, <1>2, <1>3, <1>4, <2>1
<1>5. x \in T /\ T \in SUBSET Node
  BY <1>2, <1>3
<1>6. LineUp(up, x) \subseteq T
  <2> HIDE DEF T
  <2>1. QED
    BY <1>4, <1>5, LineLeast
<1>7. QED
  BY <1>6 DEF new

\* What was below n stays below it, wherever n goes.
LEMMA BelowKept ==
  ASSUME parent \in Ups, NoNode \notin Node, NEW n \in Node,
         NEW new \in Ups, \A k \in Node : k # n => new[k] = parent[k],
         NEW x \in Below(n)
  PROVE  x = n \/ (new[x] # NoNode /\ n \in LineUp(new, new[x]))
<1> DEFINE T == {m \in Node : m = n \/ (new[m] # NoNode /\ n \in LineUp(new, new[m]))}
<1>1. n \in T /\ T \in SUBSET Node
  OBVIOUS
<1>2. ASSUME NEW m \in Node, parent[m] \in T PROVE m \in T
  <2>1. CASE m = n
    BY <2>1
  <2>2. CASE m # n
    <3>1. new[m] = parent[m] /\ new[m] \in Node /\ new[m] # NoNode
      BY <1>2, <2>2
    <3>2. CASE new[m] = n
      BY <3>1, <3>2, LineCloses
    <3>3. CASE new[m] # n
      <4>1. new[new[m]] # NoNode /\ n \in LineUp(new, new[new[m]])
        BY <1>2, <3>1, <3>3
      <4>2. new[new[m]] \in LineUp(new, new[m])
        BY <3>1, <4>1, LineCloses
      <4>3. n \in LineUp(new, new[m])
        BY <3>1, <4>1, <4>2, LineWithin
      <4>4. QED
        BY <3>1, <4>3
    <3>4. QED
      BY <3>2, <3>3
  <2>3. QED
    BY <2>1, <2>2
<1> HIDE DEF T
<1>3. x \in T
  BY <1>1, <1>2, BelowLeast
<1>4. QED
  BY <1>3 DEF T

-----------------------------------------------------------------------------
(* What is computed *)

\* With a node, S has the parents it rests on that are marked.
Rests(S) == \A j \in S : parent[j] # NoNode /\ parent[j] \in parent_dirty => parent[j] \in S

LEMMA PulledRests ==
  ASSUME parent \in Ups, parent_dirty \subseteq Node, NoNode \notin Node, NEW x \in Node
  PROVE  /\ Pulled(x) \subseteq Node /\ Rests(Pulled(x))
         /\ x \in parent_dirty => x \in Pulled(x)
<1>1. x \in Through(parent, parent_dirty, x)
  BY ThroughCloses
<1>2. ASSUME NEW j \in Pulled(x), parent[j] # NoNode, parent[j] \in parent_dirty
      PROVE  parent[j] \in Pulled(x)
  <2>1. j \in Through(parent, parent_dirty, x) /\ j \in parent_dirty
    BY DEF Pulled
  <2>2. parent[j] \in Through(parent, parent_dirty, x)
    BY <1>2, <2>1, ThroughCloses
  <2>3. QED
    BY <1>2, <2>2 DEF Pulled
<1>3. Pulled(x) \subseteq Node
  BY DEF Pulled
<1>4. QED
  BY <1>1, <1>2, <1>3 DEF Pulled, Rests

\* The nodes that compute their transforms, with those on which they rest.
Resting(U, X) == U \cup UNION {Pulled(x) : x \in X}

LEMMA ComputedRests ==
  ASSUME parent \in Ups, parent_dirty \subseteq Node, NoNode \notin Node,
         NEW U \in SUBSET Node, NEW X \in SUBSET Node,
         \A m \in U : parent[m] # NoNode => parent[m] \in X
  PROVE  Resting(U, X) \in SUBSET Node /\ U \subseteq Resting(U, X) /\ Rests(Resting(U, X))
<1> DEFINE S == Resting(U, X)
<1>0. \A j : j \in S <=> j \in U \/ \E x \in X : j \in Pulled(x)
  BY DEF Resting
<1> HIDE DEF S
<1>1. S \in SUBSET Node /\ U \subseteq S
  BY <1>0, PulledRests
<1>2. ASSUME NEW j \in S, parent[j] # NoNode, parent[j] \in parent_dirty
      PROVE  parent[j] \in S
  <2>1. CASE j \in U
    <3>1. parent[j] \in X
      BY <1>2, <2>1
    <3>2. parent[j] \in Pulled(parent[j])
      BY <1>2, <3>1, PulledRests
    <3>3. QED
      BY <1>0, <3>1, <3>2
  <2>2. CASE j \notin U
    <3>1. PICK x \in X : j \in Pulled(x)
      BY <1>0, <2>2
    <3>2. parent[j] \in Pulled(x)
      BY <1>2, <3>1, PulledRests DEF Rests
    <3>3. QED
      BY <1>0, <3>2
  <2>3. QED
    BY <2>1, <2>2
<1>3. Rests(S)
  BY <1>2 DEF Rests
<1>4. QED
  BY <1>1, <1>3 DEF S

\* Who is not right after the nodes of S were computed is marked, or below a
\* node that is to update all below it; one that waits so is not in S.
LEMMA FreshTold ==
  ASSUME parent \in Ups, parent_dirty \subseteq Node, NoNode \notin Node, Told,
         NEW S \in SUBSET Node, Rests(S), NEW n \in Node, n \notin FreshAfter(S)
  PROVE  \/ n \in parent_dirty \ S
         \/ \E k \in Node \ S : \E m \in child_dirty :
              /\ parent[k] # NoNode /\ m \in LineUp(parent, parent[k])
              /\ parent[n] # NoNode /\ m \in LineUp(parent, parent[n])
<1>1. CASE n \notin S
  <2>1. n \notin fresh
    BY <1>1 DEF FreshAfter
  <2>2. CASE n \in parent_dirty
    BY <1>1, <2>2
  <2>3. CASE n \notin parent_dirty
    <3>1. parent[n] # NoNode /\ LineUp(parent, parent[n]) \cap child_dirty # {}
      BY <2>1, <2>3, LineIs DEF Told
    <3>2. QED
      BY <1>1, <3>1
  <2>4. QED
    BY <2>2, <2>3
<1>2. CASE n \in S
  <2>1. PICK k \in Through(parent, S, n) \ S : k \notin fresh
    BY <1>2 DEF FreshAfter
  <2>2. k \in Node /\ k # n
    BY <1>2, <2>1, ThroughCloses
  <2>3. k \notin parent_dirty
    <3> DEFINE T == {j \in Node : j \in S \/ j \notin parent_dirty}
    <3>1. n \in T /\ T \in SUBSET Node
      BY <1>2
    <3>2. ASSUME NEW j \in T, j \in S, parent[j] # NoNode PROVE parent[j] \in T
      <4>1. parent[j] \in Node
        BY <3>2 DEF Ups
      <4>2. QED
        BY <3>2, <4>1 DEF Rests
    <3> HIDE DEF T
    <3>3. Through(parent, S, n) \subseteq T
      BY <3>1, <3>2, ThroughLeast
    <3>4. QED
      BY <2>1, <3>3 DEF T
  <2>4. PICK m \in child_dirty : parent[k] # NoNode /\ m \in LineUp(parent, parent[k])
    <3>1. parent[k] # NoNode /\ LineUp(parent, parent[k]) \cap child_dirty # {}
      BY <2>1, <2>2, <2>3, LineIs DEF Told
    <3>2. QED
      BY <3>1
  <2>5. Through(parent, S, n) \subseteq LineUp(parent, n)
    <3>1. /\ n \in LineUp(parent, n) /\ LineUp(parent, n) \in SUBSET Node
          /\ \A j \in LineUp(parent, n) : parent[j] # NoNode => parent[j] \in LineUp(parent, n)
      BY LineCloses
    <3>2. QED
      BY <3>1, ThroughLeast
  <2>6. parent[n] # NoNode /\ k \in LineUp(parent, parent[n])
    BY <2>1, <2>2, <2>5, LineSplits
  <2>7. parent[n] \in Node
    BY <2>6 DEF Ups
  <2>8. parent[k] \in LineUp(parent, parent[n])
    BY <2>4, <2>6, <2>7, LineCloses
  <2>9. m \in LineUp(parent, parent[n])
    BY <2>4, <2>7, <2>8, LineWithin
  <2>10. QED
    BY <2>1, <2>2, <2>4, <2>6, <2>9
<1>3. QED
  BY <1>1, <1>2

-----------------------------------------------------------------------------
(* What an update visits *)

Arrays == [Node -> SUBSET Node]

LEMMA PlainCloses ==
  ASSUME waiting \in Arrays, NEW n \in Node
  PROVE  /\ n \in Plain(n) /\ Plain(n) \subseteq Node
         /\ \A k \in Plain(n) \ child_dirty : waiting[k] \subseteq Plain(n)
<1> DEFINE to == [k \in Node |-> IF k \in child_dirty THEN {} ELSE waiting[k]]
<1>1. to \in [Node -> SUBSET Node] /\ {n} \in SUBSET Node
  BY DEF Arrays
<1>2. Plain(n) = Reached(to, {n})
  BY DEF Plain
<1>3. \A k \in Node \ child_dirty : to[k] = waiting[k]
  OBVIOUS
<1> HIDE DEF to
<1>4. /\ {n} \subseteq Reached(to, {n}) /\ Reached(to, {n}) \subseteq Node
      /\ \A k \in Reached(to, {n}) : to[k] \subseteq Reached(to, {n})
  BY <1>1, ReachedCloses
<1>5. QED
  BY <1>2, <1>3, <1>4

LEMMA ChangedCloses ==
  ASSUME waiting \in Arrays, children \in Arrays, NEW n \in Node
  PROVE  /\ Changed(n) \subseteq Node
         /\ \A k \in Plain(n) \cap child_dirty : children[k] \subseteq Changed(n)
         /\ \A k \in Changed(n) : children[k] \subseteq Changed(n)
<1> DEFINE A == UNION {children[k] : k \in Plain(n) \cap child_dirty}
<1>1. A \in SUBSET Node
  BY PlainCloses DEF Arrays
<1>2. Changed(n) = Reached(children, A)
  BY DEF Changed
<1>3. \A k \in Plain(n) \cap child_dirty : children[k] \subseteq A
  OBVIOUS
<1> HIDE DEF A
<1>4. /\ A \subseteq Reached(children, A) /\ Reached(children, A) \subseteq Node
      /\ \A k \in Reached(children, A) : children[k] \subseteq Reached(children, A)
  BY <1>1, ReachedCloses DEF Arrays
<1>5. QED
  BY <1>2, <1>3, <1>4

AllListed == \A n \in Node : parent[n] # NoNode => n \in children[parent[n]]

\* The update leaves out nothing below a node with child_dirty that it visits.
LEMMA ChangedAll ==
  ASSUME parent \in Ups, waiting \in Arrays, children \in Arrays, NoNode \notin Node, AllListed,
         NEW n \in Node, NEW m \in (Changed(n) \cup Plain(n)) \cap child_dirty,
         NEW k \in Node, parent[k] # NoNode, m \in LineUp(parent, parent[k])
  PROVE  k \in Changed(n)
<1> SUFFICES ASSUME k \notin Changed(n) PROVE FALSE
  OBVIOUS
<1> DEFINE T == {j \in Node : ~ (children[j] \subseteq Changed(n))}
<1>1. parent[k] \in Node
  BY DEF Ups
<1>2. parent[k] \in T
  BY <1>1 DEF AllListed
<1>3. ASSUME NEW j \in T, parent[j] # NoNode PROVE parent[j] \in T
  <2>1. parent[j] \in Node
    BY <1>3 DEF Ups
  <2>2. j \in children[parent[j]]
    BY <1>3 DEF AllListed
  <2>3. j \notin Changed(n)
    BY ChangedCloses
  <2>4. QED
    BY <2>1, <2>2, <2>3
<1>4. T \in SUBSET Node
  OBVIOUS
<1>5. m \in T
  <2> HIDE DEF T
  <2>1. QED
    BY <1>1, <1>2, <1>3, <1>4, LineLeast
<1>6. children[m] \subseteq Changed(n)
  BY ChangedCloses
<1>7. QED
  BY <1>5, <1>6

-----------------------------------------------------------------------------
(* Told, as a relation of the variables' values *)

ToldBy(up, good, marked, deep) ==
  \A n \in Node \ good :
    \/ n \in marked
    \/ up[n] # NoNode /\ LineUp(up, up[n]) \cap deep # {}

LEMMA ToldIs == Told <=> ToldBy(parent, fresh, parent_dirty, child_dirty)
BY DEF Told, ToldBy, Line, LineUp

LEMMA ToldIsNext == Told' <=> ToldBy(parent', fresh', parent_dirty', child_dirty')
BY DEF Told, ToldBy, Line, LineUp

\* The facts that every step has at hand.
Good ==
  /\ GraphTypeOK /\ parent \in Ups /\ children \in Arrays /\ waiting \in Arrays /\ box \in Arrays
  /\ parent_dirty \subseteq Node /\ child_dirty \subseteq Node /\ parent_notified \subseteq Node
  /\ bounding_dirty \subseteq Node /\ fresh \subseteq Node /\ movables \subseteq Node
  /\ Root \in Node /\ NoNode \notin Node

LEMMA GoodNow == ASSUME GraphTypeOK PROVE Good
BY GraphAssumption DEF Good, GraphTypeOK, Ups, Arrays

\* Marks that are only set leave Told.
LEMMA ToldStill ==
  ASSUME Told, UNCHANGED parent, fresh \subseteq fresh',
         parent_dirty \subseteq parent_dirty', child_dirty \subseteq child_dirty'
  PROVE  Told'
<1>1. ToldBy(parent, fresh, parent_dirty, child_dirty)
  BY ToldIs
<1>2. ToldBy(parent', fresh', parent_dirty', child_dirty')
  <2> SUFFICES ASSUME NEW n \in Node \ fresh'
               PROVE  \/ n \in parent_dirty'
                      \/ parent'[n] # NoNode /\ LineUp(parent', parent'[n]) \cap child_dirty' # {}
    BY DEF ToldBy
  <2>1. \/ n \in parent_dirty
        \/ parent[n] # NoNode /\ LineUp(parent, parent[n]) \cap child_dirty # {}
    BY <1>1 DEF ToldBy
  <2>2. parent' = parent
    OBVIOUS
  <2>3. QED
    BY <2>1, <2>2
<1>3. QED
  BY <1>2, ToldIsNext

-----------------------------------------------------------------------------
(* need_update *)

LEMMA MarkDoes ==
  ASSUME Good, NEW up \in Ups, NEW n \in Node, NEW again, NEW S, Mark(up, n, again, S)
  PROVE  /\ parent_dirty' = (parent_dirty \ S) \cup {n}
         /\ child_dirty' = child_dirty \cup {n}
         /\ parent_notified' = parent_notified \cup Callers(up, n, again)
         /\ waiting' = [p \in Node |->
              IF p = n THEN {} ELSE IF p \in child_dirty THEN waiting[p]
              ELSE waiting[p] \cup {m \in Callers(up, n, again) : up[m] = p}]
         /\ Callers(up, n, again) \subseteq Node
         /\ parent_dirty' \subseteq Node /\ child_dirty' \subseteq Node
         /\ parent_notified' \subseteq Node /\ waiting' \in Arrays
<1>1. Callers(up, n, again) \subseteq Node
  BY DEF Callers
<1>2. /\ parent_dirty' = (parent_dirty \ S) \cup {n}
      /\ child_dirty' = child_dirty \cup {n}
      /\ parent_notified' = parent_notified \cup Callers(up, n, again)
      /\ waiting' = [p \in Node |->
           IF p = n THEN {} ELSE IF p \in child_dirty THEN waiting[p]
           ELSE waiting[p] \cup {m \in Callers(up, n, again) : up[m] = p}]
  BY DEF Mark
<1>3. waiting' \in Arrays
  BY <1>1, <1>2 DEF Good, Arrays
<1>4. QED
  BY <1>1, <1>2, <1>3 DEF Good

\* Who calls, and who is called: the callers' parents that call go on.
LEMMA CallersGo ==
  ASSUME Good, NEW up \in Ups, NEW n \in Node, NEW again
  PROVE  /\ \A m \in Callers(up, n, again) : up[m] \in Node
         /\ \A m \in Callers(up, n, again) :
              up[up[m]] # NoNode /\ up[m] \notin parent_notified /\ up[m] \notin child_dirty
                => up[m] \in Callers(up, n, again)
         /\ up[n] # NoNode /\ (n \notin parent_notified \/ again) => n \in Callers(up, n, again)
<1> DEFINE calling == {k \in Node : up[k] # NoNode /\ (k \notin parent_notified \/ again)
                                      /\ (k = n \/ k \notin child_dirty)}
<1>1. Callers(up, n, again) = Through(up, calling, n) \cap calling
  BY DEF Callers
<1>2. \A m \in calling : up[m] \in Node
  BY DEF Ups
<1>3. \A k \in Node : up[k] # NoNode /\ k \notin parent_notified /\ k \notin child_dirty => k \in calling
  OBVIOUS
<1>4. up[n] # NoNode /\ (n \notin parent_notified \/ again) => n \in calling
  OBVIOUS
<1>5. \A k \in calling : up[k] # NoNode
  OBVIOUS
<1> HIDE DEF calling
<1>6. n \in Through(up, calling, n)
  BY ThroughCloses
<1>7. \A m \in Through(up, calling, n) \cap calling : up[m] \in Through(up, calling, n)
  BY <1>5, ThroughCloses
<1>8. QED
  BY <1>1, <1>2, <1>3, <1>4, <1>6, <1>7

LEMMA DisplaceDoes ==
  ASSUME Good, NEW n \in Node, NEW S \in SUBSET Node, Displace(n, S)
  PROVE  /\ fresh' = FreshAfter(S) \ Below(n)
         /\ fresh' \subseteq Node /\ box' \in Arrays
<1>1. fresh' = FreshAfter(S) \ Below(n) /\ box' = [m \in Node |-> box[m] \ Below(n)]
  BY DEF Displace
<1>2. FreshAfter(S) \subseteq Node
  BY DEF FreshAfter, Good
<1>3. QED
  BY <1>1, <1>2 DEF Good, Arrays

\* A change of n, whatever becomes of its parent, is told.
LEMMA ToldDisplaced ==
  ASSUME Good, Told, NEW n \in Node, NEW S \in SUBSET Node, Rests(S),
         parent' \in Ups, \A k \in Node : k # n => parent'[k] = parent[k],
         \A x \in Node : n \notin LineUp(parent, x) => LineUp(parent, x) \subseteq LineUp(parent', x),
         fresh' = FreshAfter(S) \ Below(n),
         parent_dirty' = (parent_dirty \ S) \cup {n}, child_dirty' = child_dirty \cup {n}
  PROVE  Told'
<1> USE DEF Good
<1> SUFFICES ASSUME NEW x \in Node \ fresh'
             PROVE  \/ x \in parent_dirty'
                    \/ parent'[x] # NoNode /\ LineUp(parent', parent'[x]) \cap child_dirty' # {}
  BY ToldIsNext DEF ToldBy
<1>1. CASE x \in Below(n)
  <2>1. x = n \/ (parent'[x] # NoNode /\ n \in LineUp(parent', parent'[x]))
    BY <1>1, BelowKept
  <2>2. QED
    BY <2>1
<1>2. CASE x \notin Below(n)
  <2>1. x # n /\ parent'[x] = parent[x]
    BY <1>2, BelowCloses
  <2>2. x \notin FreshAfter(S)
    BY <1>2
  <2>3. CASE x \in parent_dirty \ S
    BY <2>3
  <2>4. CASE x \notin parent_dirty \ S
    <3>1. PICK k \in Node \ S : \E m \in child_dirty :
             /\ parent[k] # NoNode /\ m \in LineUp(parent, parent[k])
             /\ parent[x] # NoNode /\ m \in LineUp(parent, parent[x])
      BY <2>2, <2>4, FreshTold
    <3>2. PICK m \in child_dirty : parent[x] # NoNode /\ m \in LineUp(parent, parent[x])
      BY <3>1
    <3>3. parent[x] \in Node
      BY <3>2 DEF Ups
    <3>4. n \notin LineUp(parent, parent[x])
      <4>1. parent[x] \notin Below(n)
        BY <1>2, BelowCloses
      <4>2. QED
        BY <3>3, <4>1, BelowOfLine
    <3>5. m \in LineUp(parent', parent[x])
      BY <3>2, <3>3, <3>4
    <3>6. QED
      BY <2>1, <3>2, <3>5
  <2>5. QED
    BY <2>3, <2>4
<1>3. QED
  BY <1>1, <1>2

-----------------------------------------------------------------------------
(* Updates *)

LEMMA BoxTypes ==
  ASSUME Good, NEW B, NEW good
  PROVE  BoxAfter(B, good) \in Arrays
<1> SUFFICES ASSUME NEW n \in Node
             PROVE  UNION {IF m \in B THEN {m} \cap movables \cap good ELSE box[m] :
                             m \in Reached([k \in Node |-> IF k \in B THEN children[k] ELSE {}], {n})}
                      \subseteq Node
  BY DEF BoxAfter, Arrays, Good
<1> DEFINE R == Reached([k \in Node |-> IF k \in B THEN children[k] ELSE {}], {n})
<1>1. R \subseteq Node
  BY DEF Reached
<1> HIDE DEF R
<1>2. \A m \in R : box[m] \subseteq Node /\ {m} \cap movables \cap good \subseteq Node
  BY <1>1 DEF Good, Arrays
<1>3. UNION {IF m \in B THEN {m} \cap movables \cap good ELSE box[m] : m \in R} \subseteq Node
  BY <1>2
<1>4. QED
  BY <1>3 DEF R

\* What is computed rests on what is right, or is computed too.
LEMMA ComputeDoes ==
  ASSUME Good, NEW U \in SUBSET Node, NEW B, Compute(U, B)
  PROVE  /\ \E S \in SUBSET Node : /\ Rests(S) /\ U \subseteq S
                                   /\ fresh' = FreshAfter(S) /\ parent_dirty' = parent_dirty \ S
         /\ fresh' \subseteq Node /\ parent_dirty' \subseteq Node /\ box' \in Arrays
<1> DEFINE X == (B \cap movables) \cup ({parent[m] : m \in U} \ {NoNode})
<1>1. PICK S \in {U \cup UNION {Pulled(x) : x \in X}} :
        fresh' = FreshAfter(S) /\ parent_dirty' = parent_dirty \ S /\ box' = BoxAfter(B, fresh')
  BY DEF Compute
<1>2. X \in SUBSET Node /\ \A m \in U : parent[m] # NoNode => parent[m] \in X
  BY DEF Good, Ups
<1>3. S = Resting(U, X)
  BY <1>1 DEF Resting
<1> HIDE DEF X
<1>4. S \in SUBSET Node /\ U \subseteq S /\ Rests(S)
  <2>1. parent \in Ups /\ parent_dirty \subseteq Node /\ NoNode \notin Node
    BY DEF Good
  <2>2. QED
    BY <1>2, <1>3, <2>1, ComputedRests
<1>5. FreshAfter(S) \subseteq Node
  BY <1>4 DEF FreshAfter, Good
<1>6. box' \in Arrays
  BY <1>1, BoxTypes
<1>7. parent_dirty' \subseteq Node
  BY <1>1 DEF Good
<1>8. QED
  BY <1>1, <1>4, <1>5, <1>6, <1>7

\* The nodes that an update goes down to, and those it tells of a change.
TellsChange(n, update_children) == IF update_children THEN Changed(n) ELSE {}
Visited(n, update_children) ==
  TellsChange(n, update_children) \cup (IF update_children THEN Plain(n) ELSE {n})

LEMMA VisitedTypes ==
  ASSUME Good, NEW n \in Node, NEW b \in BOOLEAN
  PROVE  Visited(n, b) \subseteq Node /\ n \in Visited(n, b) /\ TellsChange(n, b) \subseteq Visited(n, b)
BY PlainCloses, ChangedCloses DEF Visited, TellsChange, Good

LEMMA UpdateDoes ==
  ASSUME Good, NEW n \in Node, NEW b \in BOOLEAN, UpdateFrom(n, b)
  PROVE  /\ parent_notified' = parent_notified \ Visited(n, b)
         /\ bounding_dirty' = bounding_dirty \ Visited(n, b)
         /\ child_dirty' = IF b THEN child_dirty \ Visited(n, b) ELSE child_dirty
         /\ waiting' = [p \in Node |-> IF p \in Visited(n, b) /\ b THEN {} ELSE waiting[p]]
         /\ \E S \in SUBSET Node :
              /\ Rests(S) /\ TellsChange(n, b) \subseteq S /\ Visited(n, b) \cap parent_dirty \subseteq S
              /\ fresh' = FreshAfter(S) /\ parent_dirty' = parent_dirty \ S
         /\ fresh' \subseteq Node /\ parent_dirty' \subseteq Node /\ box' \in Arrays
<1> DEFINE T == TellsChange(n, b)
           V == Visited(n, b)
           U == T \cup (V \cap parent_dirty)
<1>1. /\ parent_notified' = parent_notified \ V /\ bounding_dirty' = bounding_dirty \ V
      /\ child_dirty' = IF b THEN child_dirty \ V ELSE child_dirty
      /\ waiting' = [p \in Node |-> IF p \in V /\ b THEN {} ELSE waiting[p]]
      /\ Compute(U, Bounded(V))
  BY DEF UpdateFrom, Visited, TellsChange
<1>2. U \in SUBSET Node
  BY VisitedTypes
<1> HIDE DEF T, V, U
<1>3. /\ \E S \in SUBSET Node : /\ Rests(S) /\ U \subseteq S
                                /\ fresh' = FreshAfter(S) /\ parent_dirty' = parent_dirty \ S
      /\ fresh' \subseteq Node /\ parent_dirty' \subseteq Node /\ box' \in Arrays
  BY <1>1, <1>2, ComputeDoes
<1>4. T \subseteq U /\ V \cap parent_dirty \subseteq U
  BY DEF U
<1>5. QED
  BY <1>1, <1>3, <1>4 DEF T, V

LEMMA UpdateTold ==
  ASSUME Good, Told, AllListed, NEW n \in Node, NEW b \in BOOLEAN, UpdateFrom(n, b), UNCHANGED parent
  PROVE  Told'
<1> USE DEF Good
<1>1. PICK S \in SUBSET Node :
        /\ Rests(S) /\ TellsChange(n, b) \subseteq S
        /\ fresh' = FreshAfter(S) /\ parent_dirty' = parent_dirty \ S
  BY UpdateDoes
<1>2. child_dirty' = IF b THEN child_dirty \ Visited(n, b) ELSE child_dirty
  BY UpdateDoes
<1> SUFFICES ASSUME NEW x \in Node \ fresh'
             PROVE  \/ x \in parent_dirty'
                    \/ parent'[x] # NoNode /\ LineUp(parent', parent'[x]) \cap child_dirty' # {}
  BY ToldIsNext DEF ToldBy
<1>3. x \notin FreshAfter(S)
  BY <1>1
<1>4. CASE x \in parent_dirty \ S
  BY <1>1, <1>4
<1>5. CASE x \notin parent_dirty \ S
  <2>1. PICK k \in Node \ S : \E m \in child_dirty :
           /\ parent[k] # NoNode /\ m \in LineUp(parent, parent[k])
           /\ parent[x] # NoNode /\ m \in LineUp(parent, parent[x])
    BY <1>1, <1>3, <1>5, FreshTold
  <2>2. PICK m \in child_dirty :
           /\ parent[k] # NoNode /\ m \in LineUp(parent, parent[k])
           /\ parent[x] # NoNode /\ m \in LineUp(parent, parent[x])
    BY <2>1
  <2>3. m \in child_dirty'
    <3>1. CASE ~ b
      BY <1>2, <3>1
    <3>2. CASE b
      <4> SUFFICES ASSUME m \in Visited(n, b) PROVE FALSE
        BY <1>2, <3>2
      <4>1. m \in (Changed(n) \cup Plain(n)) \cap child_dirty
        BY <3>2 DEF Visited, TellsChange
      <4>2. k \in Changed(n)
        BY <2>2, <4>1, ChangedAll
      <4>3. k \in S
        BY <1>1, <3>2, <4>2 DEF TellsChange
      <4>4. QED
        BY <4>3
    <3>3. QED
      BY <3>1, <3>2
  <2>4. parent' = parent
    OBVIOUS
  <2>5. QED
    BY <2>2, <2>3, <2>4
<1>6. QED
  BY <1>4, <1>5

\* Transforms that are computed outside an update.
LEMMA ComputedTold ==
  ASSUME Good, Told, NEW S \in SUBSET Node, Rests(S), fresh' = FreshAfter(S),
         parent_dirty' = parent_dirty \ S, UNCHANGED <<parent, child_dirty>>
  PROVE  Told'
<1> USE DEF Good
<1> SUFFICES ASSUME NEW x \in Node \ fresh'
             PROVE  \/ x \in parent_dirty'
                    \/ parent'[x] # NoNode /\ LineUp(parent', parent'[x]) \cap child_dirty' # {}
  BY ToldIsNext DEF ToldBy
<1>1. x \notin FreshAfter(S)
  OBVIOUS
<1>2. CASE x \in parent_dirty \ S
  BY <1>2
<1>3. CASE x \notin parent_dirty \ S
  <2>1. PICK m \in child_dirty : parent[x] # NoNode /\ m \in LineUp(parent, parent[x])
    BY <1>1, <1>3, FreshTold
  <2>2. parent' = parent /\ child_dirty' = child_dirty
    OBVIOUS
  <2>3. QED
    BY <2>1, <2>2
<1>4. QED
  BY <1>2, <1>3

-----------------------------------------------------------------------------
(* Who is heard *)

\* need_update leaves unheard only a node that has a new parent and believes
\* that it has told the old one.
LEMMA MarkHears ==
  ASSUME Good, NEW up \in Ups, NEW n \in Node, NEW again, NEW S, Mark(up, n, again, S),
         parent' = up, \A j \in Node : j # n => up[j] = parent[j],
         NEW k \in Node, ~ Unheard(k), Unheard(k)'
  PROVE  k = n /\ n \in parent_notified /\ parent[n] # up[n]
<1> DEFINE callers == Callers(up, n, again)
<1>1. /\ parent_dirty' = (parent_dirty \ S) \cup {n}
      /\ child_dirty' = child_dirty \cup {n}
      /\ parent_notified' = parent_notified \cup callers
      /\ waiting' = [p \in Node |->
           IF p = n THEN {} ELSE IF p \in child_dirty THEN waiting[p]
           ELSE waiting[p] \cup {m \in callers : up[m] = p}]
      /\ callers \subseteq Node
  BY MarkDoes
<1>2. /\ \A m \in callers :
           up[m] \in Node /\ (up[up[m]] # NoNode /\ up[m] \notin parent_notified
                                /\ up[m] \notin child_dirty => up[m] \in callers)
      /\ up[n] # NoNode /\ n \notin parent_notified => n \in callers
  BY CallersGo
<1> HIDE DEF callers
<1>3. /\ k \in parent_dirty' \cup child_dirty' \cup parent_notified' \/ waiting'[k] # {}
      /\ up[k] # NoNode /\ up[k] \notin child_dirty' /\ k \notin waiting'[up[k]]
  BY DEF Unheard
<1>4. up[k] \in Node /\ up[k] # n /\ up[k] \notin child_dirty
  BY <1>1, <1>3 DEF Ups
<1>5. waiting'[up[k]] = waiting[up[k]] \cup {m \in callers : up[m] = up[k]}
  BY <1>1, <1>4
<1>6. k \notin callers /\ k \notin waiting[up[k]]
  BY <1>3, <1>5
<1>7. CASE k # n
  <2>1. up[k] = parent[k]
    BY <1>7
  <2>2. k \notin parent_dirty /\ k \notin child_dirty /\ k \notin parent_notified /\ waiting[k] = {}
    BY <1>3, <1>4, <1>6, <2>1 DEF Unheard
  <2>3. k \notin parent_dirty' \cup child_dirty' \cup parent_notified'
    BY <1>1, <1>6, <1>7, <2>2
  <2>4. waiting'[k] = {m \in callers : up[m] = k}
    BY <1>1, <1>7, <2>2
  <2>5. PICK m \in callers : up[m] = k
    BY <1>3, <2>3, <2>4
  <2>6. k \in callers
    BY <1>2, <1>3, <2>2, <2>5
  <2>7. QED
    BY <1>6, <2>6
<1>8. CASE k = n
  <2>1. n \in parent_notified
    BY <1>2, <1>3, <1>6, <1>8
  <2>2. parent[n] # up[n]
    <3> SUFFICES ASSUME parent[n] = up[n] PROVE FALSE
      OBVIOUS
    <3>1. Unheard(n)
      BY <1>3, <1>4, <1>6, <1>8, <2>1 DEF Unheard
    <3>2. QED
      BY <1>8, <3>1
  <2>3. QED
    BY <1>8, <2>1, <2>2
<1>9. QED
  BY <1>7, <1>8

\* An update leaves no mark on what it visits, and sets none.
LEMMA UpdateClears ==
  ASSUME Good, NEW n \in Node, UpdateFrom(n, TRUE), NEW k \in Node
  PROVE  /\ k \in Visited(n, TRUE) =>
              k \notin parent_dirty' \cup child_dirty' \cup parent_notified' /\ waiting'[k] = {}
         /\ k \notin Visited(n, TRUE) => waiting'[k] = waiting[k]
         /\ parent_dirty' \subseteq parent_dirty /\ child_dirty' \subseteq child_dirty
         /\ parent_notified' \subseteq parent_notified
<1>1. /\ parent_notified' = parent_notified \ Visited(n, TRUE)
      /\ child_dirty' = child_dirty \ Visited(n, TRUE)
      /\ waiting' = [p \in Node |-> IF p \in Visited(n, TRUE) THEN {} ELSE waiting[p]]
      /\ \E S \in SUBSET Node :
           Visited(n, TRUE) \cap parent_dirty \subseteq S /\ parent_dirty' = parent_dirty \ S
  <2>1. TRUE \in BOOLEAN
    OBVIOUS
  <2>2. waiting' = [p \in Node |-> IF p \in Visited(n, TRUE) /\ TRUE THEN {} ELSE waiting[p]]
    BY <2>1, UpdateDoes
  <2>3. QED
    BY <2>1, <2>2, UpdateDoes
<1>2. PICK S \in SUBSET Node :
        Visited(n, TRUE) \cap parent_dirty \subseteq S /\ parent_dirty' = parent_dirty \ S
  BY <1>1
<1>3. waiting'[k] = IF k \in Visited(n, TRUE) THEN {} ELSE waiting[k]
  BY <1>1
<1>4. QED
  BY <1>1, <1>2, <1>3

\* It visits the children that it has been told of, and all of a node with child_dirty.
LEMMA UpdateGoes ==
  ASSUME Good, AllListed, NEW n \in Node, NEW k \in Node, parent[k] # NoNode,
         parent[k] \in Visited(n, TRUE), parent[k] \in child_dirty \/ k \in waiting[parent[k]]
  PROVE  k \in Visited(n, TRUE)
<1> USE DEF Good
<1>1. k \in children[parent[k]]
  BY DEF AllListed
<1>2. parent[k] \in Changed(n) \/ parent[k] \in Plain(n)
  BY DEF Visited, TellsChange
<1>3. CASE parent[k] \in Changed(n) \/ parent[k] \in child_dirty
  <2>1. k \in Changed(n)
    BY <1>1, <1>2, <1>3, ChangedCloses
  <2>2. QED
    BY <2>1 DEF Visited, TellsChange
<1>4. CASE parent[k] \in Plain(n) /\ parent[k] \notin child_dirty
  <2>1. k \in Plain(n)
    BY <1>4, PlainCloses
  <2>2. QED
    BY <2>1 DEF Visited
<1>5. QED
  BY <1>2, <1>3, <1>4

LEMMA UpdateHears ==
  ASSUME Good, AllListed, NEW n \in Node, NEW b \in BOOLEAN, UpdateFrom(n, b), UNCHANGED parent,
         NEW k \in Node, Unheard(k)'
  PROVE  Unheard(k)
<1>1. /\ k \in parent_dirty' \cup child_dirty' \cup parent_notified' \/ waiting'[k] # {}
      /\ parent[k] # NoNode /\ parent[k] \notin child_dirty' /\ k \notin waiting'[parent[k]]
  BY DEF Unheard
<1>2. parent[k] \in Node
  BY <1>1 DEF Good, Ups
<1>3. CASE b = TRUE
  <2>1. UpdateFrom(n, TRUE)
    BY <1>3
  <2>2. k \notin Visited(n, TRUE)
    BY <1>1, <2>1, UpdateClears
  <2>3. k \in parent_dirty \cup child_dirty \cup parent_notified \/ waiting[k] # {}
    BY <1>1, <2>1, <2>2, UpdateClears
  <2>4. parent[k] \notin child_dirty /\ k \notin waiting[parent[k]]
    <3>1. CASE parent[k] \in Visited(n, TRUE)
      BY <1>1, <2>2, <3>1, UpdateGoes
    <3>2. CASE parent[k] \notin Visited(n, TRUE)
      <4>1. child_dirty' = child_dirty \ Visited(n, TRUE)
        <5>1. TRUE \in BOOLEAN
          OBVIOUS
        <5>2. QED
          BY <2>1, <5>1, UpdateDoes
      <4>2. waiting'[parent[k]] = waiting[parent[k]]
        BY <1>2, <2>1, <3>2, UpdateClears
      <4>3. QED
        BY <1>1, <3>2, <4>1, <4>2
    <3>3. QED
      BY <3>1, <3>2
  <2>5. QED
    BY <1>1, <2>3, <2>4 DEF Unheard
<1>4. CASE b = FALSE
  <2>1. UpdateFrom(n, FALSE) /\ FALSE \in BOOLEAN
    BY <1>4
  <2>2. child_dirty' = child_dirty /\ parent_notified' \subseteq parent_notified
    BY <2>1, UpdateDoes
  <2>3. parent_dirty' \subseteq parent_dirty
    <3>1. PICK S \in SUBSET Node : parent_dirty' = parent_dirty \ S
      BY <2>1, UpdateDoes
    <3>2. QED
      BY <3>1
  <2>4. \A p \in Node : waiting'[p] = waiting[p]
    <3>1. waiting' = [p \in Node |-> IF p \in Visited(n, FALSE) /\ FALSE THEN {} ELSE waiting[p]]
      BY <2>1, UpdateDoes
    <3>2. QED
      BY <3>1
  <2>5. waiting'[k] = waiting[k] /\ waiting'[parent[k]] = waiting[parent[k]]
    BY <1>2, <2>4
  <2>6. QED
    BY <1>1, <2>2, <2>3, <2>5 DEF Unheard
<1>5. QED
  BY <1>3, <1>4

-----------------------------------------------------------------------------
(* A frame *)

\* What an update of the scene leaves wrong has an ancestor that is unheard.
LEMMA FrameReaches ==
  ASSUME Good, AllListed, parent[Root] = NoNode, UpdateFrom(Root, TRUE), UNCHANGED parent, Told',
         NEW n \in Below(Root), \A m \in Line(n) : ~ Unheard(m)
  PROVE  n \in fresh'
<1> SUFFICES ASSUME n \notin fresh' PROVE FALSE
  OBVIOUS
<1> DEFINE V == Visited(Root, TRUE)
           Left(m) == m \in parent_dirty \cup child_dirty \cup parent_notified \/ waiting[m] # {}
           Z == {m \in LineUp(parent, n) : m \notin V /\ Left(m)}
<1>1. parent \in Ups /\ NoNode \notin Node /\ Root \in Node
  BY DEF Good
<1>2. n \in Node /\ Below(Root) \subseteq Node
  BY <1>1, BelowCloses
<1>3. /\ n \in LineUp(parent, n) /\ LineUp(parent, n) \subseteq Node
      /\ \A k \in LineUp(parent, n) : parent[k] # NoNode => parent[k] \in LineUp(parent, n)
  BY <1>1, <1>2, LineCloses
<1>4. PICK x \in LineUp(parent, n) : x \in parent_dirty' \cup child_dirty'
  <2>1. \/ n \in parent_dirty'
        \/ parent'[n] # NoNode /\ LineUp(parent', parent'[n]) \cap child_dirty' # {}
    BY <1>2, ToldIsNext DEF ToldBy
  <2>2. CASE n \in parent_dirty'
    BY <1>3, <2>2
  <2>3. CASE n \notin parent_dirty'
    <3>1. parent[n] # NoNode /\ parent[n] \in LineUp(parent, n)
      BY <1>3, <2>1, <2>3
    <3>2. LineUp(parent', parent'[n]) = LineUp(parent, parent[n])
      OBVIOUS
    <3>3. PICK m \in LineUp(parent, parent[n]) : m \in child_dirty'
      BY <2>1, <2>3, <3>2
    <3>4. LineUp(parent, parent[n]) \subseteq LineUp(parent, n)
      BY <1>1, <1>2, <3>1, LineWithin
    <3>5. QED
      BY <3>3, <3>4
  <2>4. QED
    BY <2>2, <2>3
<1>5. x \in Z
  <2>1. x \in Node
    BY <1>3, <1>4
  <2>2. x \notin V /\ Left(x)
    BY <1>1, <1>4, <2>1, UpdateClears
  <2>3. QED
    BY <1>4, <2>2
<1>6. ASSUME NEW m \in Z, parent[m] # NoNode PROVE parent[m] \in Z
  <2>1. m \in LineUp(parent, n) /\ m \in Node /\ m \notin V /\ Left(m)
    BY <1>3, <1>6
  <2>2. parent[m] \in LineUp(parent, n) /\ parent[m] \in Node
    BY <1>3, <1>6, <2>1
  <2>3. parent[m] \in child_dirty \/ m \in waiting[parent[m]]
    <3>1. ~ Unheard(m)
      BY <2>1, LineIs
    <3>2. QED
      BY <1>6, <2>1, <3>1 DEF Unheard
  <2>4. parent[m] \notin V
    BY <1>1, <1>6, <2>1, <2>3, UpdateGoes
  <2>5. Left(parent[m])
    BY <2>3
  <2>6. QED
    BY <2>2, <2>4, <2>5
<1>7. Root \notin Z
  BY <1>1, VisitedTypes
<1>8. Z \subseteq Node
  BY <1>3
<1> HIDE DEF Z, V, Left
<1>9. Below(Root) \subseteq Node \ Z
  <2>1. Root \in Node \ Z /\ Node \ Z \in SUBSET Node
    BY <1>1, <1>7
  <2>2. \A m \in Node : parent[m] \in Node \ Z => m \in Node \ Z
    BY <1>1, <1>6
  <2>3. QED
    BY <1>1, <2>1, <2>2, BelowLeast
<1>10. x \in Below(Root)
  BY <1>1, <1>4, LineBelow
<1>11. QED
  BY <1>5, <1>9, <1>10

-----------------------------------------------------------------------------
(* Every step keeps the invariant *)

LEMMA InvIs ==
  ASSUME GraphInv
  PROVE  Good /\ AllListed /\ Told /\ parent[Root] = NoNode
         /\ first \in [Node -> Node \cup {NoNode}] /\ queue \in Seq(Node) /\ rendering \in BOOLEAN
<1>1. GraphTypeOK
  BY DEF GraphInv, ChildrenListed
<1>2. Good
  BY <1>1, GoodNow
<1>3. QED
  BY <1>1, <1>2 DEF GraphInv, ChildrenListed, AllListed, GraphTypeOK

LEMMA InvNext ==
  ASSUME parent' \in Ups, first' \in [Node -> Node \cup {NoNode}], children' \in Arrays,
         waiting' \in Arrays, box' \in Arrays,
         parent_dirty' \subseteq Node, child_dirty' \subseteq Node, parent_notified' \subseteq Node,
         bounding_dirty' \subseteq Node, movables' \subseteq Node, fresh' \subseteq Node,
         queue' \in Seq(Node), rendering' \in BOOLEAN,
         \A n \in Node : parent'[n] # NoNode => n \in children'[parent'[n]],
         parent'[Root] = NoNode, Told'
  PROVE  GraphInv'
<1>1. UNION {parent_dirty', child_dirty', parent_notified', bounding_dirty', movables', fresh'}
        \subseteq Node
  OBVIOUS
<1>2. GraphTypeOK'
  BY <1>1 DEF GraphTypeOK, Ups, Arrays
<1>3. QED
  BY <1>2 DEF GraphInv, ChildrenListed

\* A step that leaves the tree as it is.
LEMMA InvStill ==
  ASSUME GraphInv, UNCHANGED tree, waiting' \in Arrays, box' \in Arrays,
         parent_dirty' \subseteq Node, child_dirty' \subseteq Node, parent_notified' \subseteq Node,
         bounding_dirty' \subseteq Node, movables' \subseteq Node, fresh' \subseteq Node,
         queue' \in Seq(Node), rendering' \in BOOLEAN, Told'
  PROVE  GraphInv'
<1>1. /\ parent \in Ups /\ children \in Arrays /\ first \in [Node -> Node \cup {NoNode}]
      /\ AllListed /\ parent[Root] = NoNode
  BY InvIs DEF Good
<1>2. parent' = parent /\ children' = children /\ first' = first
  BY DEF tree
<1>3. \A n \in Node : parent'[n] # NoNode => n \in children'[parent'[n]]
  BY <1>1, <1>2 DEF AllListed
<1>4. /\ parent' \in Ups /\ children' \in Arrays /\ first' \in [Node -> Node \cup {NoNode}]
      /\ parent'[Root] = NoNode
  BY <1>1, <1>2
<1>5. QED
  BY <1>3, <1>4, InvNext

LEMMA NeedUpdateDoes ==
  ASSUME Good, NEW up \in Ups, NEW n \in Node, NEW again, NEW S, NeedUpdate(up, n, again, S)
  PROVE  /\ Mark(up, n, again, S)
         /\ parent_dirty' = (parent_dirty \ S) \cup {n} /\ child_dirty' = child_dirty \cup {n}
         /\ parent_dirty' \subseteq Node /\ child_dirty' \subseteq Node
         /\ parent_notified' \subseteq Node /\ waiting' \in Arrays /\ bounding_dirty' \subseteq Node
<1>1. Mark(up, n, again, S) /\ bounding_dirty' = bounding_dirty \cup Bounds(up, n)
  BY DEF NeedUpdate
<1>2. Bounds(up, n) \subseteq Node
  BY ThroughCloses DEF Bounds
<1>3. bounding_dirty' \subseteq Node
  BY <1>1, <1>2 DEF Good
<1>4. QED
  BY <1>1, <1>3, MarkDoes

LEMMA AttachInv ==
  ASSUME GraphInv, NEW n \in Node, NEW p \in Node, Attach(n, p)
  PROVE  GraphInv'
<1> DEFINE up == [parent EXCEPT ![n] = p]
<1>1. /\ p \in Parents[n] /\ parent[n] = NoNode
      /\ parent' = up /\ first' = [first EXCEPT ![p] = IF @ = NoNode THEN n ELSE @]
      /\ children' = [children EXCEPT ![p] = @ \cup {n}]
      /\ Displace(n, {}) /\ NeedUpdate(up, n, FALSE, {})
      /\ queue' = queue /\ rendering' = rendering /\ movables' = movables
  BY DEF Attach
<1>2. /\ Good /\ AllListed /\ Told /\ parent[Root] = NoNode
      /\ first \in [Node -> Node \cup {NoNode}] /\ queue \in Seq(Node) /\ rendering \in BOOLEAN
  BY InvIs
<1>3. /\ parent \in Ups /\ children \in Arrays /\ NoNode \notin Node /\ movables \subseteq Node
      /\ Root \in Node
  BY <1>2 DEF Good
<1>4. up \in Ups /\ up[n] = p /\ \A k \in Node : k # n => up[k] = parent[k]
  BY <1>3 DEF Ups
<1>5. n # Root
  BY <1>1, GraphAssumption
<1>6. \A k \in Node : parent'[k] # NoNode => k \in children'[parent'[k]]
  <2> SUFFICES ASSUME NEW k \in Node, parent'[k] # NoNode PROVE k \in children'[parent'[k]]
    OBVIOUS
  <2>1. CASE k = n
    <3>1. children'[p] = children[p] \cup {n}
      BY <1>1, <1>3 DEF Arrays
    <3>2. QED
      BY <1>1, <1>4, <2>1, <3>1
  <2>2. CASE k # n
    <3>1. parent'[k] = parent[k] /\ parent[k] \in Node
      BY <1>1, <1>3, <1>4, <2>2 DEF Ups
    <3>2. k \in children[parent[k]]
      BY <1>2, <3>1 DEF AllListed
    <3>3. children[parent[k]] \subseteq children'[parent[k]]
      BY <1>1, <1>3, <3>1 DEF Arrays
    <3>4. QED
      BY <3>1, <3>2, <3>3
  <2>3. QED
    BY <2>1, <2>2
<1>7. children' \in Arrays /\ first' \in [Node -> Node \cup {NoNode}]
  BY <1>1, <1>2, <1>3 DEF Arrays
<1>8. parent'[Root] = NoNode
  BY <1>1, <1>2, <1>3, <1>4, <1>5
<1>9. \A x \in Node : n \notin LineUp(parent, x) => LineUp(parent, x) \subseteq LineUp(up, x)
  BY <1>3, LineKept
<1> HIDE DEF up
<1>10. /\ parent_dirty' = (parent_dirty \ {}) \cup {n} /\ child_dirty' = child_dirty \cup {n}
       /\ parent_dirty' \subseteq Node /\ child_dirty' \subseteq Node
       /\ parent_notified' \subseteq Node /\ waiting' \in Arrays /\ bounding_dirty' \subseteq Node
  <2>1. PICK S, again : S = {} /\ again = FALSE
    OBVIOUS
  <2>2. NeedUpdate(up, n, again, S)
    BY <1>1, <2>1
  <2>3. QED
    BY <1>2, <1>4, <2>1, <2>2, NeedUpdateDoes
<1>11. {} \in SUBSET Node /\ Rests({})
  BY DEF Rests
<1>12. fresh' = FreshAfter({}) \ Below(n) /\ fresh' \subseteq Node /\ box' \in Arrays
  BY <1>1, <1>2, <1>11, DisplaceDoes
<1>13. Told'
  BY <1>1, <1>2, <1>4, <1>9, <1>10, <1>11, <1>12, ToldDisplaced
<1>14. parent' \in Ups /\ queue' \in Seq(Node) /\ rendering' \in BOOLEAN /\ movables' \subseteq Node
  BY <1>1, <1>2, <1>3, <1>4
<1>15. QED
  BY <1>6, <1>7, <1>8, <1>10, <1>12, <1>13, <1>14, InvNext

LEMMA DetachInv ==
  ASSUME GraphInv, NEW n \in Node, Detach(n)
  PROVE  GraphInv'
<1> DEFINE up == [parent EXCEPT ![n] = NoNode]
<1>1. /\ parent[n] # NoNode /\ parent' = up /\ first' = first
      /\ children' = [children EXCEPT ![parent[n]] = IF n = first[parent[n]] THEN @ ELSE @ \ {n}]
      /\ Displace(n, {}) /\ NeedUpdate(up, n, FALSE, {})
      /\ queue' = queue /\ rendering' = rendering /\ movables' = movables
  BY DEF Detach
<1>2. /\ Good /\ AllListed /\ Told /\ parent[Root] = NoNode
      /\ first \in [Node -> Node \cup {NoNode}] /\ queue \in Seq(Node) /\ rendering \in BOOLEAN
  BY InvIs
<1>3. /\ parent \in Ups /\ children \in Arrays /\ NoNode \notin Node /\ movables \subseteq Node
      /\ Root \in Node
  BY <1>2 DEF Good
<1>4. up \in Ups /\ up[n] = NoNode /\ \A k \in Node : k # n => up[k] = parent[k]
  BY <1>3 DEF Ups
<1>6. \A k \in Node : parent'[k] # NoNode => k \in children'[parent'[k]]
  <2> SUFFICES ASSUME NEW k \in Node, parent'[k] # NoNode PROVE k \in children'[parent'[k]]
    OBVIOUS
  <2>1. k # n
    BY <1>1, <1>4
  <2>2. parent'[k] = parent[k] /\ parent[k] \in Node
    BY <1>1, <1>3, <1>4, <2>1 DEF Ups
  <2>3. k \in children[parent[k]]
    BY <1>2, <2>2 DEF AllListed
  <2>4. children[parent[k]] \ {n} \subseteq children'[parent[k]]
    BY <1>1, <1>3, <2>2 DEF Arrays
  <2>5. QED
    BY <2>1, <2>2, <2>3, <2>4
<1>7. children' \in Arrays /\ first' \in [Node -> Node \cup {NoNode}]
  BY <1>1, <1>2, <1>3 DEF Arrays
<1>8. parent'[Root] = NoNode
  BY <1>1, <1>2, <1>3, <1>4
<1>9. \A x \in Node : n \notin LineUp(parent, x) => LineUp(parent, x) \subseteq LineUp(up, x)
  BY <1>3, LineKept
<1> HIDE DEF up
<1>10. /\ parent_dirty' = (parent_dirty \ {}) \cup {n} /\ child_dirty' = child_dirty \cup {n}
       /\ parent_dirty' \subseteq Node /\ child_dirty' \subseteq Node
       /\ parent_notified' \subseteq Node /\ waiting' \in Arrays /\ bounding_dirty' \subseteq Node
  <2>1. PICK S, again : S = {} /\ again = FALSE
    OBVIOUS
  <2>2. NeedUpdate(up, n, again, S)
    BY <1>1, <2>1
  <2>3. QED
    BY <1>2, <1>4, <2>1, <2>2, NeedUpdateDoes
<1>11. {} \in SUBSET Node /\ Rests({})
  BY DEF Rests
<1>12. fresh' = FreshAfter({}) \ Below(n) /\ fresh' \subseteq Node /\ box' \in Arrays
  BY <1>1, <1>2, <1>11, DisplaceDoes
<1>13. Told'
  BY <1>1, <1>2, <1>4, <1>9, <1>10, <1>11, <1>12, ToldDisplaced
<1>14. parent' \in Ups /\ queue' \in Seq(Node) /\ rendering' \in BOOLEAN /\ movables' \subseteq Node
  BY <1>1, <1>2, <1>3, <1>4
<1>15. QED
  BY <1>6, <1>7, <1>8, <1>10, <1>12, <1>13, <1>14, InvNext

LEMMA MoveInv ==
  ASSUME GraphInv, NEW n \in Node, NEW x \in Node \cup {NoNode}, Move(n, x)
  PROVE  GraphInv'
<1>1. /\ Good /\ AllListed /\ Told /\ parent[Root] = NoNode
      /\ queue \in Seq(Node) /\ rendering \in BOOLEAN
  BY InvIs
<1>2. /\ parent \in Ups /\ NoNode \notin Node /\ movables \subseteq Node /\ parent_dirty \subseteq Node
  BY <1>1 DEF Good
<1>3. PICK S : /\ S = IF x = NoNode THEN {} ELSE Pulled(x)
               /\ Displace(n, S) /\ NeedUpdate(parent, n, FALSE, S)
  BY DEF Move
<1>4. UNCHANGED <<tree, queue, rendering, movables>>
  BY DEF Move
<1>5. S \in SUBSET Node /\ Rests(S)
  <2>1. CASE x = NoNode
    BY <1>3, <2>1 DEF Rests
  <2>2. CASE x # NoNode
    <3>1. x \in Node /\ S = Pulled(x)
      BY <1>3, <2>2
    <3>2. QED
      BY <1>2, <3>1, PulledRests
  <2>3. QED
    BY <2>1, <2>2
<1>6. parent' = parent
  BY <1>4 DEF tree
<1>7. /\ parent_dirty' = (parent_dirty \ S) \cup {n} /\ child_dirty' = child_dirty \cup {n}
      /\ parent_dirty' \subseteq Node /\ child_dirty' \subseteq Node
      /\ parent_notified' \subseteq Node /\ waiting' \in Arrays /\ bounding_dirty' \subseteq Node
  BY <1>1, <1>2, <1>3, NeedUpdateDoes
<1>8. fresh' = FreshAfter(S) \ Below(n) /\ fresh' \subseteq Node /\ box' \in Arrays
  BY <1>1, <1>3, <1>5, DisplaceDoes
<1>9. Told'
  BY <1>1, <1>2, <1>5, <1>6, <1>7, <1>8, ToldDisplaced
<1>10. QED
  BY <1>1, <1>2, <1>4, <1>7, <1>8, <1>9, InvStill

\* The marks are set, and no more.
LEMMA MarkedInv ==
  ASSUME GraphInv, NEW n \in Node, NEW again, NeedUpdate(parent, n, again, {}),
         UNCHANGED <<tree, right, movables>>, queue' \in Seq(Node), rendering' \in BOOLEAN
  PROVE  GraphInv'
<1>1. Good /\ Told
  BY InvIs
<1>2. /\ parent \in Ups /\ movables \subseteq Node /\ fresh \subseteq Node /\ box \in Arrays
  BY <1>1 DEF Good
<1>3. parent' = parent /\ fresh' = fresh /\ box' = box /\ movables' = movables
  BY DEF tree, right
<1>4. /\ parent_dirty' = (parent_dirty \ {}) \cup {n} /\ child_dirty' = child_dirty \cup {n}
      /\ parent_dirty' \subseteq Node /\ child_dirty' \subseteq Node
      /\ parent_notified' \subseteq Node /\ waiting' \in Arrays /\ bounding_dirty' \subseteq Node
  BY <1>1, <1>2, NeedUpdateDoes
<1>5. Told'
  <2>1. parent_dirty \subseteq parent_dirty' /\ child_dirty \subseteq child_dirty' /\ fresh \subseteq fresh'
    BY <1>3, <1>4
  <2>2. QED
    BY <1>1, <1>3, <2>1, ToldStill
<1>6. QED
  BY <1>2, <1>3, <1>4, <1>5, InvStill

LEMMA UpdateInv ==
  ASSUME GraphInv, NEW n \in Node, NEW b \in BOOLEAN, UpdateFrom(n, b),
         UNCHANGED <<tree, queue, movables>>, rendering' \in BOOLEAN
  PROVE  GraphInv'
<1>1. Good /\ AllListed /\ Told /\ queue \in Seq(Node)
  BY InvIs
<1>2. /\ waiting \in Arrays /\ movables \subseteq Node /\ child_dirty \subseteq Node
      /\ parent_notified \subseteq Node /\ bounding_dirty \subseteq Node
  BY <1>1 DEF Good
<1>3. parent' = parent
  BY DEF tree
<1>4. /\ parent_notified' = parent_notified \ Visited(n, b)
      /\ bounding_dirty' = bounding_dirty \ Visited(n, b)
      /\ child_dirty' = IF b THEN child_dirty \ Visited(n, b) ELSE child_dirty
      /\ waiting' = [p \in Node |-> IF p \in Visited(n, b) /\ b THEN {} ELSE waiting[p]]
      /\ fresh' \subseteq Node /\ parent_dirty' \subseteq Node /\ box' \in Arrays
  BY <1>1, UpdateDoes
<1>5. Told'
  BY <1>1, <1>3, UpdateTold
<1>6. waiting' \in Arrays
  BY <1>2, <1>4 DEF Arrays
<1>7. /\ parent_notified' \subseteq Node /\ bounding_dirty' \subseteq Node
      /\ child_dirty' \subseteq Node /\ movables' \subseteq Node /\ queue' \in Seq(Node)
  BY <1>1, <1>2, <1>4
<1>8. QED
  BY <1>4, <1>5, <1>6, <1>7, InvStill

LEMMA XformInv ==
  ASSUME GraphInv, NEW n \in Node, Xform(n)
  PROVE  GraphInv'
<1>1. Good /\ Told /\ queue \in Seq(Node) /\ rendering \in BOOLEAN
  BY InvIs
<1>2. /\ parent \in Ups /\ parent_dirty \subseteq Node /\ NoNode \notin Node /\ waiting \in Arrays
      /\ box \in Arrays /\ movables \subseteq Node /\ child_dirty \subseteq Node
      /\ parent_notified \subseteq Node /\ bounding_dirty \subseteq Node /\ fresh \subseteq Node
  BY <1>1 DEF Good
<1>3. /\ fresh' = FreshAfter(Pulled(n)) /\ parent_dirty' = parent_dirty \ Pulled(n)
      /\ UNCHANGED <<tree, child_dirty, parent_notified, waiting, box, bounding_dirty,
                     queue, rendering, movables>>
  BY DEF Xform
<1>4. Pulled(n) \in SUBSET Node /\ Rests(Pulled(n))
  BY <1>2, PulledRests
<1>5. parent' = parent
  BY <1>3 DEF tree
<1>6. Told'
  BY <1>1, <1>3, <1>4, <1>5, ComputedTold
<1>7. fresh' \subseteq Node /\ parent_dirty' \subseteq Node
  BY <1>2, <1>3, <1>4 DEF FreshAfter
<1>8. QED
  BY <1>1, <1>2, <1>3, <1>6, <1>7, InvStill

LEMMA BoxInv ==
  ASSUME GraphInv, NEW n \in Node, Box(n)
  PROVE  GraphInv'
<1>1. Good /\ Told /\ queue \in Seq(Node) /\ rendering \in BOOLEAN
  BY InvIs
<1>2. /\ waiting \in Arrays /\ movables \subseteq Node /\ child_dirty \subseteq Node
      /\ parent_notified \subseteq Node /\ bounding_dirty \subseteq Node
  BY <1>1 DEF Good
<1>3. /\ Compute({}, Bounded({n}))
      /\ UNCHANGED <<tree, child_dirty, parent_notified, waiting, bounding_dirty,
                     queue, rendering, movables>>
  BY DEF Box
<1>4. {} \in SUBSET Node
  OBVIOUS
<1>5. /\ \E S \in SUBSET Node : Rests(S) /\ fresh' = FreshAfter(S) /\ parent_dirty' = parent_dirty \ S
      /\ fresh' \subseteq Node /\ parent_dirty' \subseteq Node /\ box' \in Arrays
  BY <1>1, <1>3, <1>4, ComputeDoes
<1>6. PICK S \in SUBSET Node :
        Rests(S) /\ fresh' = FreshAfter(S) /\ parent_dirty' = parent_dirty \ S
  BY <1>5
<1>7. parent' = parent
  BY <1>3 DEF tree
<1>8. Told'
  BY <1>1, <1>3, <1>6, <1>7, ComputedTold
<1>9. QED
  BY <1>1, <1>2, <1>3, <1>5, <1>8, InvStill

\* A step that changes only the marks of boxes, boxes, movables, the queue, and
\* waiting for less.
LEMMA QuietInv ==
  ASSUME GraphInv, UNCHANGED <<tree, parent_dirty, child_dirty, fresh>>,
         waiting' \in Arrays, box' \in Arrays, parent_notified' \subseteq Node,
         bounding_dirty' \subseteq Node, movables' \subseteq Node, queue' \in Seq(Node),
         rendering' \in BOOLEAN
  PROVE  GraphInv'
<1>1. Good /\ Told
  BY InvIs
<1>2. parent' = parent /\ parent_dirty' = parent_dirty /\ child_dirty' = child_dirty /\ fresh' = fresh
  BY DEF tree
<1>3. Told'
  BY <1>1, <1>2, ToldStill
<1>4. parent_dirty' \subseteq Node /\ child_dirty' \subseteq Node /\ fresh' \subseteq Node
  BY <1>1, <1>2 DEF Good
<1>5. QED
  BY <1>3, <1>4, InvStill

LEMMA AttachMovableInv ==
  ASSUME GraphInv, NEW n \in Node, AttachMovable(n)
  PROVE  GraphInv'
<1>1. Good /\ queue \in Seq(Node) /\ rendering \in BOOLEAN
  BY InvIs
<1>2. /\ movables' = movables \cup {n} /\ bounding_dirty' = bounding_dirty \cup {n}
      /\ UNCHANGED <<tree, marks, right, queue, rendering>>
  BY DEF AttachMovable
<1>3. /\ UNCHANGED <<tree, parent_dirty, child_dirty, fresh>>
      /\ waiting' = waiting /\ box' = box /\ parent_notified' = parent_notified
  BY <1>2 DEF marks, right
<1>4. /\ movables' \subseteq Node /\ bounding_dirty' \subseteq Node
      /\ waiting' \in Arrays /\ box' \in Arrays /\ parent_notified' \subseteq Node
  BY <1>1, <1>2, <1>3 DEF Good
<1>5. QED
  BY <1>1, <1>2, <1>3, <1>4, QuietInv

LEMMA ResizeInv ==
  ASSUME GraphInv, NEW n \in Node, Resize(n)
  PROVE  GraphInv'
<1>1. Good /\ queue \in Seq(Node) /\ rendering \in BOOLEAN
  BY InvIs
<1>2. /\ bounding_dirty' = bounding_dirty \cup Bounds(parent, n)
      /\ box' = [m \in Node |-> box[m] \ {n}]
      /\ UNCHANGED <<tree, marks, fresh, queue, rendering, movables>>
  BY DEF Resize
<1>3. /\ UNCHANGED <<tree, parent_dirty, child_dirty, fresh>>
      /\ waiting' = waiting /\ parent_notified' = parent_notified
  BY <1>2 DEF marks
<1>4. Bounds(parent, n) \subseteq Node
  BY <1>1, ThroughCloses DEF Bounds, Good
<1>5. /\ movables' \subseteq Node /\ bounding_dirty' \subseteq Node
      /\ waiting' \in Arrays /\ parent_notified' \subseteq Node
  BY <1>1, <1>2, <1>3, <1>4 DEF Good
<1>6. box' \in Arrays
  BY <1>1, <1>2 DEF Good, Arrays
<1>7. QED
  BY <1>1, <1>2, <1>3, <1>5, <1>6, QuietInv

LEMMA DetachMovableInv ==
  ASSUME GraphInv, NEW n \in Node, DetachMovable(n)
  PROVE  GraphInv'
<1>1. Good /\ Told /\ queue \in Seq(Node) /\ rendering \in BOOLEAN
  BY InvIs
<1>2. /\ movables' = movables \ {n} /\ Mark(parent, n, FALSE, {})
      /\ bounding_dirty' = bounding_dirty \cup {n} /\ box' = [m \in Node |-> box[m] \ {n}]
      /\ UNCHANGED <<tree, fresh, queue, rendering>>
  BY DEF DetachMovable
<1>3. parent \in Ups /\ parent' = parent
  BY <1>1, <1>2 DEF Good, tree
<1>4. /\ parent_dirty' = (parent_dirty \ {}) \cup {n} /\ child_dirty' = child_dirty \cup {n}
      /\ parent_dirty' \subseteq Node /\ child_dirty' \subseteq Node
      /\ parent_notified' \subseteq Node /\ waiting' \in Arrays
  <2>1. PICK S, again : S = {} /\ again = FALSE
    OBVIOUS
  <2>2. Mark(parent, n, again, S)
    BY <1>2, <2>1
  <2>3. QED
    BY <1>1, <1>3, <2>1, <2>2, MarkDoes
<1>5. Told'
  <2>1. parent_dirty \subseteq parent_dirty' /\ child_dirty \subseteq child_dirty' /\ fresh \subseteq fresh'
    BY <1>2, <1>4
  <2>2. QED
    BY <1>1, <1>3, <2>1, ToldStill
<1>6. movables' \subseteq Node /\ bounding_dirty' \subseteq Node /\ fresh' \subseteq Node
  BY <1>1, <1>2 DEF Good
<1>7. box' \in Arrays
  BY <1>1, <1>2 DEF Good, Arrays
<1>8. QED
  BY <1>1, <1>2, <1>4, <1>5, <1>6, <1>7, InvStill

LEMMA UndirtyInv ==
  ASSUME GraphInv, NEW n \in Node, Undirty(n)
  PROVE  GraphInv'
<1>1. Good /\ queue \in Seq(Node) /\ rendering \in BOOLEAN
  BY InvIs
<1>2. /\ \E out : waiting' = [p \in Node |-> waiting[p] \ {m \in out : parent[m] = p}]
      /\ \E undone : parent_notified' = parent_notified \ (undone \ {n})
      /\ UNCHANGED <<tree, parent_dirty, child_dirty, right, bounding_dirty, queue, rendering,
                     movables>>
  BY DEF Undirty
<1>3. waiting' \in Arrays
  <2>1. PICK out : waiting' = [p \in Node |-> waiting[p] \ {m \in out : parent[m] = p}]
    BY <1>2
  <2>2. QED
    BY <1>1, <2>1 DEF Good, Arrays
<1>4. parent_notified' \subseteq Node
  BY <1>1, <1>2 DEF Good
<1>5. UNCHANGED <<tree, parent_dirty, child_dirty, fresh>> /\ box' = box
  BY <1>2 DEF right
<1>6. box' \in Arrays /\ movables' \subseteq Node /\ bounding_dirty' \subseteq Node
  BY <1>1, <1>2, <1>5 DEF Good
<1>7. QED
  BY <1>1, <1>2, <1>3, <1>4, <1>5, <1>6, QuietInv

LEMMA DirtyLaterInv ==
  ASSUME GraphInv, NEW n \in Node, DirtyLater(n)
  PROVE  GraphInv'
<1>1. Good /\ queue \in Seq(Node) /\ rendering \in BOOLEAN
  BY InvIs
<1>2. /\ queue' = Append(queue, n)
      /\ UNCHANGED <<tree, marks, right, bounding_dirty, rendering, movables>>
  BY DEF DirtyLater
<1>3. queue' \in Seq(Node)
  BY <1>1, <1>2, AppendProperties
<1>4. /\ UNCHANGED <<tree, parent_dirty, child_dirty, fresh>>
      /\ waiting' = waiting /\ box' = box /\ parent_notified' = parent_notified
  BY <1>2 DEF marks, right
<1>5. /\ movables' \subseteq Node /\ bounding_dirty' \subseteq Node
      /\ waiting' \in Arrays /\ box' \in Arrays /\ parent_notified' \subseteq Node
  BY <1>1, <1>2, <1>4 DEF Good
<1>6. QED
  BY <1>1, <1>2, <1>3, <1>4, <1>5, QuietInv

LEMMA DirtyInv ==
  ASSUME GraphInv, NEW n \in Node, NEW b \in BOOLEAN, Dirty(n, b)
  PROVE  GraphInv'
<1>1. /\ NeedUpdate(parent, n, b, {})
      /\ UNCHANGED <<tree, right, movables>> /\ queue' = queue /\ rendering' = rendering
  BY DEF Dirty
<1>2. queue \in Seq(Node) /\ rendering \in BOOLEAN
  BY InvIs
<1>3. queue' \in Seq(Node) /\ rendering' \in BOOLEAN
  BY <1>1, <1>2
<1>4. QED
  BY <1>1, <1>3, MarkedInv

LEMMA ProcessQueuedInv ==
  ASSUME GraphInv, ProcessQueued
  PROVE  GraphInv' /\ Head(queue) \in Node
<1>1. /\ queue # << >> /\ NeedUpdate(parent, Head(queue), TRUE, {})
      /\ queue' = Tail(queue) /\ rendering' = TRUE /\ UNCHANGED <<tree, right, movables>>
  BY DEF ProcessQueued
<1>2. queue \in Seq(Node)
  BY InvIs
<1>3. Head(queue) \in Node /\ queue' \in Seq(Node)
  BY <1>1, <1>2, HeadTailProperties
<1>4. rendering' \in BOOLEAN
  BY <1>1
<1>5. QED
  BY <1>1, <1>3, <1>4, MarkedInv

LEMMA FinishFrameInv ==
  ASSUME GraphInv, FinishFrame
  PROVE  GraphInv'
<1>1. /\ UpdateFrom(Root, TRUE) /\ UNCHANGED <<tree, queue, movables>> /\ rendering' = FALSE
  BY DEF FinishFrame
<1>2. Root \in Node /\ TRUE \in BOOLEAN /\ rendering' \in BOOLEAN
  BY <1>1, GraphAssumption
<1>3. QED
  BY <1>1, <1>2, UpdateInv

LEMMA UpdateActionInv ==
  ASSUME GraphInv, NEW n \in Node, NEW b \in BOOLEAN, Update(n, b)
  PROVE  GraphInv'
<1>1. UpdateFrom(n, b) /\ UNCHANGED <<tree, queue, movables>> /\ rendering' = rendering
  BY DEF Update
<1>2. rendering' \in BOOLEAN
  BY <1>1, InvIs
<1>3. QED
  BY <1>1, <1>2, UpdateInv

LEMMA GraphStartsRight == GraphInit => GraphInv
<1> SUFFICES ASSUME GraphInit PROVE GraphInv
  OBVIOUS
<1>1. /\ parent = [n \in Node |-> NoNode] /\ first = [n \in Node |-> NoNode]
      /\ children = [n \in Node |-> {}] /\ waiting = [n \in Node |-> {}]
      /\ parent_dirty = Node /\ child_dirty = {} /\ parent_notified = {} /\ bounding_dirty = {}
      /\ queue = << >> /\ rendering = FALSE /\ movables = {}
      /\ fresh = {} /\ box = [n \in Node |-> {}]
  BY DEF GraphInit
<1>2. queue \in Seq(Node)
  BY <1>1
<1>3. UNION {parent_dirty, child_dirty, parent_notified, bounding_dirty, movables, fresh}
        \subseteq Node
  BY <1>1
<1>4. GraphTypeOK
  BY <1>1, <1>2, <1>3 DEF GraphTypeOK
<1>5. \A n \in Node : parent[n] = NoNode
  BY <1>1
<1>6. parent[Root] = NoNode
  BY <1>5, GraphAssumption
<1>7. Told
  BY <1>1 DEF Told
<1>8. QED
  BY <1>4, <1>5, <1>6, <1>7 DEF GraphInv, ChildrenListed

LEMMA GraphStep ==
  ASSUME GraphInv, [GraphNext]_graph_vars
  PROVE  GraphInv'
<1>1. ASSUME NEW n \in Node, NEW p \in Node, Attach(n, p) PROVE GraphInv'
  BY <1>1, AttachInv
<1>2. ASSUME NEW n \in Node, NEW x \in Node \cup {NoNode}, Move(n, x) PROVE GraphInv'
  BY <1>2, MoveInv
<1>3. ASSUME NEW n \in Node, Detach(n) PROVE GraphInv'
  BY <1>3, DetachInv
<1>4. ASSUME NEW n \in Node, DirtyLater(n) PROVE GraphInv'
  BY <1>4, DirtyLaterInv
<1>5. ASSUME NEW n \in Node, Undirty(n) PROVE GraphInv'
  BY <1>5, UndirtyInv
<1>6. ASSUME NEW n \in Node, Xform(n) PROVE GraphInv'
  BY <1>6, XformInv
<1>7. ASSUME NEW n \in Node, NEW b \in BOOLEAN, Dirty(n, b) PROVE GraphInv'
  BY <1>7, DirtyInv
<1>8. ASSUME NEW n \in Node, NEW b \in BOOLEAN, Update(n, b) PROVE GraphInv'
  BY <1>8, UpdateActionInv
<1>9. ASSUME NEW n \in Node, AttachMovable(n) PROVE GraphInv'
  BY <1>9, AttachMovableInv
<1>10. ASSUME NEW n \in Node, DetachMovable(n) PROVE GraphInv'
  BY <1>10, DetachMovableInv
<1>11. ASSUME NEW n \in Node, Resize(n) PROVE GraphInv'
  BY <1>11, ResizeInv
<1>12. ASSUME NEW n \in Node, Box(n) PROVE GraphInv'
  BY <1>12, BoxInv
<1>13. CASE ProcessQueued
  BY <1>13, ProcessQueuedInv
<1>14. CASE FinishFrame
  BY <1>14, FinishFrameInv
<1>15. CASE UNCHANGED graph_vars
  <2>1. /\ UNCHANGED tree /\ UNCHANGED marks /\ UNCHANGED right
        /\ bounding_dirty' = bounding_dirty /\ queue' = queue /\ rendering' = rendering
        /\ movables' = movables
    BY <1>15 DEF graph_vars
  <2>2. /\ UNCHANGED <<tree, parent_dirty, child_dirty, fresh>>
        /\ waiting' = waiting /\ box' = box /\ parent_notified' = parent_notified
    BY <2>1 DEF marks, right
  <2>3. Good /\ queue \in Seq(Node) /\ rendering \in BOOLEAN
    BY InvIs
  <2>4. /\ movables' \subseteq Node /\ bounding_dirty' \subseteq Node
        /\ waiting' \in Arrays /\ box' \in Arrays /\ parent_notified' \subseteq Node
        /\ queue' \in Seq(Node) /\ rendering' \in BOOLEAN
    BY <2>1, <2>2, <2>3 DEF Good
  <2>5. QED
    BY <2>2, <2>4, QuietInv
<1>16. QED
  BY <1>1, <1>2, <1>3, <1>4, <1>5, <1>6, <1>7, <1>8, <1>9, <1>10, <1>11, <1>12, <1>13, <1>14,
     <1>15 DEF GraphNext

\* A child is in its parent's array, at every moment, for every tree: an update
\* of all the children misses none, although detaching may leave entry 0 behind
\* (x_ptr_array_remove_data) and a node may come back to it.
THEOREM ChildrenAreListed == GraphSpec => []ChildrenListed
<1>1. GraphInv => ChildrenListed
  BY DEF GraphInv
<1>2. QED
  BY <1>1, GraphStartsRight, GraphStep, PTL DEF GraphSpec

\* A frame (g_scene_render) leaves every transform of the scene right, unless a
\* node that waits for an update is unheard, or below one that is.
THEOREM FramesAreRight == GraphSpec => FrameIsRight
<1>1. ASSUME GraphInv, GraphInv', FinishFrame,
             NEW n \in Below(Root), \A m \in Line(n) : ~ Unheard(m)
      PROVE  n \in fresh'
  <2>1. Good /\ AllListed /\ parent[Root] = NoNode
    BY <1>1, InvIs
  <2>2. Told'
    BY <1>1 DEF GraphInv
  <2>3. UpdateFrom(Root, TRUE) /\ UNCHANGED parent
    BY <1>1 DEF FinishFrame, tree
  <2>4. QED
    BY <1>1, <2>1, <2>2, <2>3, FrameReaches
<1>2. GraphInv /\ GraphInv' /\ [GraphNext]_graph_vars =>
        [FinishFrame => \A n \in Below(Root) :
           (\A m \in Line(n) : ~ Unheard(m)) => n \in fresh']_graph_vars
  BY <1>1
<1>3. QED
  BY <1>2, GraphStartsRight, GraphStep, PTL DEF GraphSpec, FrameIsRight

\* Marks that are taken away leave nobody unheard.
LEMMA QuietHears ==
  ASSUME UNCHANGED <<parent, child_dirty>>, waiting' = waiting,
         parent_dirty' \subseteq parent_dirty, parent_notified' \subseteq parent_notified,
         NEW k \in Node, Unheard(k)'
  PROVE  Unheard(k)
BY DEF Unheard

\* need_update, called of a node that stays where it is.
LEMMA NeedHears ==
  ASSUME GraphInv, NEW n \in Node, NEW again, NEW S, Mark(parent, n, again, S), UNCHANGED parent,
         NEW k \in Node, ~ Unheard(k), Unheard(k)'
  PROVE  FALSE
<1>1. Good /\ parent \in Ups
  BY InvIs DEF Good
<1>2. parent' = parent /\ \A j \in Node : j # n => parent[j] = parent[j]
  OBVIOUS
<1>3. k = n /\ parent[n] # parent[n]
  BY <1>1, <1>2, MarkHears
<1>4. QED
  BY <1>3

LEMMA HearsStep ==
  ASSUME GraphInv, GraphNext, NEW k \in Node, ~ Unheard(k), Unheard(k)'
  PROVE  \/ parent[k] = NoNode /\ k \in parent_notified
         \/ \E m \in Node : Undirty(m)
<1> SUFFICES ASSUME ~ \E m \in Node : Undirty(m)
             PROVE  parent[k] = NoNode /\ k \in parent_notified
  OBVIOUS
<1>0. Good /\ AllListed /\ parent \in Ups /\ NoNode \notin Node
  BY InvIs DEF Good
<1>1. ASSUME NEW n \in Node, NEW p \in Node, Attach(n, p)
      PROVE  parent[k] = NoNode /\ k \in parent_notified
  <2>1. PICK S, again, up : /\ up = [parent EXCEPT ![n] = p] /\ parent' = up
                            /\ parent[n] = NoNode /\ Mark(up, n, again, S)
    BY <1>1 DEF Attach, NeedUpdate
  <2>2. up \in Ups /\ \A j \in Node : j # n => up[j] = parent[j]
    BY <1>0, <2>1 DEF Ups
  <2>3. k = n /\ n \in parent_notified
    <3>1. Mark(up, n, again, S) /\ parent' = up
      BY <2>1
    <3>2. QED
      BY <1>0, <2>2, <3>1, MarkHears
  <2>4. QED
    BY <2>1, <2>3
<1>2. ASSUME NEW n \in Node, Detach(n) PROVE FALSE
  <2>1. PICK S, again, up : /\ up = [parent EXCEPT ![n] = NoNode] /\ parent' = up
                            /\ Mark(up, n, again, S)
    BY <1>2 DEF Detach, NeedUpdate
  <2>2. up \in Ups /\ \A j \in Node : j # n => up[j] = parent[j]
    BY <1>0, <2>1 DEF Ups
  <2>3. k = n
    <3>1. Mark(up, n, again, S) /\ parent' = up
      BY <2>1
    <3>2. QED
      BY <1>0, <2>2, <3>1, MarkHears
  <2>4. parent'[k] = NoNode
    BY <1>0, <2>1, <2>3 DEF Ups
  <2>5. parent'[k] # NoNode
    BY DEF Unheard
  <2>6. QED
    BY <2>4, <2>5
<1>3. ASSUME NEW n \in Node, NEW x \in Node \cup {NoNode}, Move(n, x) PROVE FALSE
  <2>1. PICK S, again : Mark(parent, n, again, S)
    <3>1. PICK S : NeedUpdate(parent, n, FALSE, S)
      BY <1>3 DEF Move
    <3>2. Mark(parent, n, FALSE, S)
      BY <3>1 DEF NeedUpdate
    <3>3. QED
      BY <3>2
  <2>2. parent' = parent
    BY <1>3 DEF Move, tree
  <2>3. QED
    BY <2>1, <2>2, NeedHears
<1>4. ASSUME NEW n \in Node, NEW b \in BOOLEAN, Dirty(n, b) PROVE FALSE
  <2>1. PICK S, again : Mark(parent, n, again, S)
    BY <1>4 DEF Dirty, NeedUpdate
  <2>2. parent' = parent
    BY <1>4 DEF Dirty, tree
  <2>3. QED
    BY <2>1, <2>2, NeedHears
<1>5. ASSUME NEW n \in Node, DetachMovable(n) PROVE FALSE
  <2>1. PICK S, again : Mark(parent, n, again, S)
    BY <1>5 DEF DetachMovable
  <2>2. parent' = parent
    BY <1>5 DEF DetachMovable, tree
  <2>3. QED
    BY <2>1, <2>2, NeedHears
<1>6. ASSUME ProcessQueued PROVE FALSE
  <2>1. PICK n \in Node : n = Head(queue)
    BY <1>6, ProcessQueuedInv
  <2>2. PICK S, again : Mark(parent, n, again, S)
    BY <1>6, <2>1 DEF ProcessQueued, NeedUpdate
  <2>3. parent' = parent
    BY <1>6 DEF ProcessQueued, tree
  <2>4. QED
    BY <2>2, <2>3, NeedHears
<1>7. ASSUME NEW n \in Node, NEW b \in BOOLEAN, UpdateFrom(n, b), UNCHANGED tree PROVE FALSE
  <2>1. parent' = parent
    BY <1>7 DEF tree
  <2>2. QED
    BY <1>0, <1>7, <2>1, UpdateHears
<1>8. ASSUME NEW n \in Node, NEW b \in BOOLEAN, Update(n, b) PROVE FALSE
  <2>1. UpdateFrom(n, b) /\ UNCHANGED tree
    BY <1>8 DEF Update
  <2>2. QED
    BY <1>7, <2>1
<1>9. ASSUME FinishFrame PROVE FALSE
  <2>1. UpdateFrom(Root, TRUE) /\ UNCHANGED tree /\ Root \in Node /\ TRUE \in BOOLEAN
    BY <1>9, GraphAssumption DEF FinishFrame
  <2>2. QED
    BY <1>7, <2>1
<1>10. ASSUME NEW n \in Node, DirtyLater(n) \/ AttachMovable(n) \/ Resize(n) PROVE FALSE
  <2>1. UNCHANGED <<tree, marks>>
    BY <1>10 DEF DirtyLater, AttachMovable, Resize
  <2>2. /\ UNCHANGED <<parent, child_dirty>> /\ waiting' = waiting
        /\ parent_dirty' = parent_dirty /\ parent_notified' = parent_notified
    BY <2>1 DEF tree, marks
  <2>3. QED
    BY <2>2, QuietHears
<1>11. ASSUME NEW n \in Node, Xform(n) \/ Box(n) PROVE FALSE
  <2>1. UNCHANGED <<tree, child_dirty, parent_notified, waiting>>
    BY <1>11 DEF Xform, Box
  <2>2. parent_dirty' \subseteq parent_dirty
    BY <1>11 DEF Xform, Box, Compute
  <2>3. UNCHANGED <<parent, child_dirty>> /\ waiting' = waiting /\ parent_notified' = parent_notified
    BY <2>1 DEF tree
  <2>4. QED
    BY <2>2, <2>3, QuietHears
<1>12. QED
  BY <1>1, <1>2, <1>3, <1>4, <1>5, <1>6, <1>8, <1>9, <1>10, <1>11 DEF GraphNext

\* Nodes become unheard only as they are attached to another parent while they
\* wait for an update, or when an update is taken back (g_node_undirty).
THEOREM HeardUnlessMovedAlways == GraphSpec => HeardUnlessMoved
<1>1. ASSUME GraphInv, [GraphNext]_graph_vars
      PROVE  [\A n \in Node : ~ Unheard(n) /\ Unheard(n)' =>
                \/ parent[n] = NoNode /\ n \in parent_notified
                \/ \E m \in Node : Undirty(m)]_graph_vars
  <2>1. CASE GraphNext
    BY <1>1, <2>1, HearsStep
  <2>2. CASE UNCHANGED graph_vars
    BY <2>2
  <2>3. QED
    BY <1>1, <2>1, <2>2
<1>2. QED
  BY <1>1, GraphStartsRight, GraphStep, PTL DEF GraphSpec, HeardUnlessMoved
=============================================================================
