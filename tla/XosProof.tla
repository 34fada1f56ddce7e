------------------------------ MODULE XosProof ------------------------------
(***************************************************************************)
(* Proofs about RWQueue and about OnceInit, two models that have nothing   *)
(* but this module in common.                                              *)
(*                                                                         *)
(* RWQueue: IInv is inductive, with one lemma for each action.             *)
(* The argument is in WindowInv and LinkInv: the nodes from read_ptr to    *)
(* write_head are a chain of distinct nodes, next is injective on the ring *)
(* (but for the link that shrink is rewriting), so the node the writer is  *)
(* about to claim cannot be one that either thread holds.                  *)
(*                                                                         *)
(* OnceInit: OnceIInv is inductive, and says that the initialised          *)
(* locations, the ones being initialised and the threads' own lists fit.   *)
(***************************************************************************)
EXTENDS RWQueue, OnceInit, SequenceTheorems, TLAPS

\* While either thread holds its reference the queue is live and the ring whole.
LEMMA Busy ==
  ASSUME IInv, wpc # "gone" \/ rpc # "gone"
  PROVE  phase = "live" /\ LinkInv /\ ReadyInv
BY DEF IInv, RefInv, TypeOK

\* The node that shrink is about to look at is in no thread's hands.
LEMMA CursorOutside ==
  ASSUME IInv, wpc = "shrink", cursor # read_ptr
  PROVE  \A i \in 1 .. Len(window) : window[i] # cursor
<1> USE DEF IInv, TypeOK
<1>1. phase = "live" /\ LinkInv
  BY Busy
<1>2. TAKE i \in 1 .. Len(window)
<1>3. CASE i = 1
  BY <1>3 DEF WindowInv
<1>4. CASE i > 1
  <2>1. window[i - 1] \in Ring \ {write_head}
    BY <1>1, <1>4 DEF WindowInv, LinkInv
  <2>2. next[window[i - 1]] = window[i]
    BY <1>4 DEF WindowInv
  <2>3. QED
    BY <1>1, <2>1, <2>2 DEF LinkInv
<1>5. QED
  BY <1>3, <1>4

LEMMA WriteLockTestStep ==
  ASSUME IInv, WriteLockTest
  PROVE  IInv'
<1> USE CountAssumption DEF WriteLockTest, heap, ptrs, counts, control, history, IInv, TypeOK, Writing
<1>1. phase = "live" /\ LinkInv /\ ReadyInv
  BY Busy
<1>2. TypeOK'
  BY <1>1 DEF RefInv, WindowInv
<1>3. WindowInv'
  BY <1>1 DEF WindowInv
<1>4. LinkInv'
  BY <1>1 DEF WindowInv, LinkInv, Ring
<1>5. ReadyInv'
  BY <1>1 DEF ReadyInv, ReadyFrom, ReadyTo, WindowInv, LinkInv, Ring
<1>6. RefInv' /\ DrainInv' /\ DeleteInv'
  BY <1>1 DEF RefInv, DrainInv, DeleteInv, WindowInv, LinkInv, Ring
<1>7. QED
  BY <1>2, <1>3, <1>4, <1>5, <1>6

LEMMA WriteLockReadyStep ==
  ASSUME IInv, WriteLockReady
  PROVE  IInv'
<1> USE CountAssumption DEF WriteLockReady, heap, ptrs, counts, control, history, IInv, TypeOK, Writing
<1>1. phase = "live" /\ LinkInv /\ ReadyInv
  BY Busy
<1>2. TypeOK'
  BY <1>1 DEF RefInv, WindowInv
<1>3. WindowInv'
  BY <1>1 DEF WindowInv
<1>4. LinkInv'
  BY <1>1 DEF WindowInv, LinkInv, Ring
<1>5. ReadyInv'
  BY <1>1 DEF ReadyInv, ReadyFrom, ReadyTo, WindowInv, LinkInv, Ring
<1>6. RefInv' /\ DrainInv' /\ DeleteInv'
  BY <1>1 DEF RefInv, DrainInv, DeleteInv, WindowInv, LinkInv, Ring
<1>7. QED
  BY <1>2, <1>3, <1>4, <1>5, <1>6

LEMMA WriteLockFailStep ==
  ASSUME IInv, WriteLockFail
  PROVE  IInv'
<1> USE CountAssumption DEF WriteLockFail, heap, ptrs, counts, control, history, IInv, TypeOK, Writing
<1>1. phase = "live" /\ LinkInv /\ ReadyInv
  BY Busy
<1>2. TypeOK'
  BY <1>1 DEF RefInv, WindowInv
<1>3. WindowInv'
  BY <1>1 DEF WindowInv
<1>4. LinkInv'
  BY <1>1 DEF WindowInv, LinkInv, Ring
<1>5. ReadyInv'
  BY <1>1 DEF ReadyInv, ReadyFrom, ReadyTo, WindowInv, LinkInv, Ring
<1>6. RefInv' /\ DrainInv' /\ DeleteInv'
  BY <1>1 DEF RefInv, DrainInv, DeleteInv, WindowInv, LinkInv, Ring
<1>7. QED
  BY <1>2, <1>3, <1>4, <1>5, <1>6

LEMMA WriteLockGrowStep ==
  ASSUME IInv, NEW n \in Node, WriteLockGrow(n)
  PROVE  IInv'
<1> USE CountAssumption DEF WriteLockGrow, heap, ptrs, counts, control, history, IInv, TypeOK, Writing
<1>1. phase = "live" /\ LinkInv /\ ReadyInv
  BY Busy
<1>2. n \notin Ring
  BY DEF Ring
<1>3. TypeOK'
  BY <1>1, <1>2 DEF RefInv, WindowInv
<1>4. WindowInv'
  BY <1>1, <1>2 DEF WindowInv, LinkInv
<1>5. LinkInv'
  <2>1. Ring' = Ring \cup {n}
    BY DEF Ring, RefInv
  <2>2. write_head \in Ring /\ next[write_head] \in Ring
    BY <1>1 DEF LinkInv, WindowInv
  <2>3. /\ next'[n] = next[write_head] /\ next'[write_head] = n
        /\ \A m \in Ring \ {write_head} : next'[m] = next[m]
    BY <1>2, <2>2 DEF Ring
  <2>4. \A m \in Ring' \ {write_head} : next'[m] \in Ring
    BY <1>1, <2>1, <2>2, <2>3 DEF LinkInv
  <2>5. \A m, m2 \in Ring' \ {write_head} : next'[m] = next'[m2] => m = m2
    BY <1>1, <2>1, <2>2, <2>3 DEF LinkInv
  <2>6. next'[write_head] \in Ring' /\ next'[write_head] # read_ptr
    BY <1>1, <1>2, <2>1, <2>3 DEF LinkInv, WindowInv
  <2>7. \A m \in Ring' \ {write_head} : next'[m] # next'[write_head]
    <3> TAKE m \in Ring' \ {write_head}
    <3>1. next'[m] \in Ring
      BY <2>4
    <3>2. QED
      BY <1>2, <2>3, <3>1
  <2>8. \A i \in 1 .. Len(window) : window[i] \in Ring'
    BY <1>1, <2>1 DEF LinkInv
  <2>9. \A m \in Ring' \ {write_head} : next'[m] \in Ring'
    <3> TAKE m \in Ring' \ {write_head}
    <3>1. next'[m] \in Ring
      BY <2>4
    <3>2. QED
      BY <2>1, <3>1
  <2>10. QED
    BY <2>5, <2>6, <2>7, <2>8, <2>9 DEF LinkInv
<1>6. ReadyInv'
  BY <1>1, <1>2 DEF ReadyInv, ReadyFrom, ReadyTo, WindowInv, LinkInv, Ring
<1>7. RefInv' /\ DrainInv' /\ DeleteInv'
  BY <1>1, <1>2 DEF RefInv, DrainInv, DeleteInv, WindowInv, LinkInv, Ring
<1>8. QED
  BY <1>3, <1>4, <1>5, <1>6, <1>7


LEMMA WriteLockClaimStep ==
  ASSUME IInv, WriteLockClaim
  PROVE  IInv'
<1> USE DEF WriteLockClaim, heap, counts, IInv, TypeOK, Writing
<1>1. phase = "live" /\ LinkInv /\ ReadyInv
  BY Busy
<1>2. /\ window' \in Seq(Node)
      /\ Len(window') = Len(window) + 1
      /\ \A i \in 1 .. Len(window) : window'[i] = window[i]
      /\ window'[Len(window) + 1] = next[write_head]
  BY AppendProperties, next[write_head] \in Node
<1>3. \A i \in 1 .. Len(window) : window[i] # next[write_head]
  <2> TAKE i \in 1 .. Len(window)
  <2>1. CASE i = 1
    BY <1>1, <2>1 DEF WindowInv, LinkInv
  <2>2. CASE i > 1
    <3>1. window[i - 1] \in Ring \ {write_head}
      BY <1>1, <2>2 DEF WindowInv, LinkInv
    <3>2. next[window[i - 1]] = window[i]
      BY <2>2 DEF WindowInv
    <3>3. QED
      BY <1>1, <3>1, <3>2 DEF LinkInv
  <2>3. QED
    BY <2>1, <2>2
<1>4. TypeOK'
  BY <1>2
<1>5. WindowInv'
  <2>1. Len(window') >= nr' + nq' + 1
    BY <1>2 DEF WindowInv
  <2>2. \A i, j \in 1 .. Len(window') : window'[i] = window'[j] => i = j
    <3> SUFFICES ASSUME NEW i \in 1 .. Len(window'), NEW j \in 1 .. Len(window'),
                        window'[i] = window'[j]
                 PROVE  i = j
      OBVIOUS
    <3>1. CASE i <= Len(window) /\ j <= Len(window)
      BY <1>2, <3>1 DEF WindowInv
    <3>2. CASE i = Len(window) + 1 /\ j <= Len(window)
      BY <1>2, <1>3, <3>2
    <3>3. CASE j = Len(window) + 1 /\ i <= Len(window)
      BY <1>2, <1>3, <3>3
    <3>4. QED
      BY <1>2, <3>1, <3>2, <3>3
  <2>3. \A i \in 1 .. Len(window') - 1 : next'[window'[i]] = window'[i + 1]
    <3> TAKE i \in 1 .. Len(window') - 1
    <3>1. CASE i < Len(window)
      <4>1. i \in 1 .. Len(window) - 1
        BY <3>1
      <4>2. next[window[i]] = window[i + 1]
        BY <4>1 DEF WindowInv
      <4>3. window'[i] = window[i] /\ window'[i + 1] = window[i + 1]
        BY <1>2, <4>1
      <4>4. QED
        BY <4>2, <4>3
    <3>2. CASE i = Len(window)
      <4>1. window'[i] = write_head
        BY <1>2, <3>2 DEF WindowInv
      <4>2. QED
        BY <1>2, <3>2, <4>1
    <3>3. QED
      BY <1>2, <3>1, <3>2
  <2>4. /\ read_ptr' = window'[1]
        /\ read_head' = window'[nr' + 1]
        /\ write_ptr' = window'[nr' + nq' + 1]
    BY <1>2 DEF WindowInv
  <2>5. QED
    BY <1>2, <2>1, <2>2, <2>3, <2>4 DEF WindowInv
<1>6. LinkInv'
  <2>1. next[write_head] \in Ring \ {write_head}
    BY <1>1, <1>3 DEF LinkInv, WindowInv
  <2>2. \A n \in Ring \ {write_head'} : next[n] \in Ring
    BY <1>1, <2>1 DEF LinkInv
  <2>3. \A m, n \in Ring \ {write_head'} : next[m] = next[n] => m = n
    BY <1>1, <2>1 DEF LinkInv
  <2>4. \A n \in Ring \ {write_head'} : next[n] # next[write_head']
    BY <1>1, <2>1 DEF LinkInv
  <2>5. \A i \in 1 .. Len(window') : window'[i] \in Ring
    BY <1>1, <1>2, <2>1 DEF LinkInv
  <2>6. QED
    BY <1>1, <2>1, <2>2, <2>3, <2>4, <2>5 DEF LinkInv, Ring
<1>7. ReadyInv'
  <2>1. next[write_head] \notin ready
    BY <1>1, <1>3 DEF ReadyInv, LinkInv
  <2>2. \A i \in 1 .. Len(window') :
           window'[i] \in ready' <=> ReadyFrom' <= i /\ i <= ReadyTo'
    <3> TAKE i \in 1 .. Len(window')
    <3>1. CASE i <= Len(window)
      BY <1>1, <1>2, <3>1 DEF ReadyInv, ReadyFrom, ReadyTo
    <3>2. CASE i = Len(window) + 1
      BY <1>2, <2>1, <3>2 DEF ReadyTo, WindowInv
    <3>3. QED
      BY <1>2, <3>1, <3>2
  <2>3. \A n \in Ring' : n \in ready' => \E i \in 1 .. Len(window') : window'[i] = n
    BY <1>1, <1>2 DEF ReadyInv, Ring
  <2>4. QED
    BY <2>2, <2>3 DEF ReadyInv
<1>8. RefInv' /\ DeleteInv'
  BY <1>1 DEF RefInv, DeleteInv
<1>9. DrainInv'
  BY <1>1 DEF DrainInv
<1>10. QED
  BY <1>4, <1>5, <1>6, <1>7, <1>8, <1>9

LEMMA FillStep ==
  ASSUME IInv, NEW k \in Writing, NEW v \in Value, Fill(k, v)
  PROVE  IInv'
<1> USE CountAssumption DEF Fill, heap, ptrs, counts, control, history, IInv, TypeOK, Writing
<1>1. phase = "live" /\ LinkInv /\ ReadyInv
  BY Busy
<1>2. TypeOK'
  BY <1>1 DEF RefInv, WindowInv
<1>3. WindowInv'
  BY <1>1 DEF WindowInv
<1>4. LinkInv'
  BY <1>1 DEF WindowInv, LinkInv, Ring
<1>5. ReadyInv'
  BY <1>1 DEF ReadyInv, ReadyFrom, ReadyTo, WindowInv, LinkInv, Ring
<1>6. RefInv' /\ DrainInv' /\ DeleteInv'
  BY <1>1 DEF RefInv, DrainInv, DeleteInv, WindowInv, LinkInv, Ring
<1>7. QED
  BY <1>2, <1>3, <1>4, <1>5, <1>6

LEMMA WriteUnlockReadyStep ==
  ASSUME IInv, WriteUnlockReady
  PROVE  IInv'
<1> USE CountAssumption DEF WriteUnlockReady, heap, ptrs, counts, control, history, IInv, TypeOK, Writing
<1>1. phase = "live" /\ LinkInv /\ ReadyInv
  BY Busy
<1>2. TypeOK'
  BY <1>1 DEF RefInv, WindowInv
<1>3. WindowInv'
  BY <1>1 DEF WindowInv
<1>4. LinkInv'
  BY <1>1 DEF WindowInv, LinkInv, Ring
<1>5. ReadyInv'
  BY <1>1 DEF ReadyInv, ReadyFrom, ReadyTo, WindowInv, LinkInv, Ring
<1>6. RefInv' /\ DrainInv' /\ DeleteInv'
  BY <1>1 DEF RefInv, DrainInv, DeleteInv, WindowInv, LinkInv, Ring
<1>7. QED
  BY <1>2, <1>3, <1>4, <1>5, <1>6

LEMMA WriteUnlockPublishStep ==
  ASSUME IInv, WriteUnlockPublish
  PROVE  IInv'
<1> USE CountAssumption DEF WriteUnlockPublish, heap, ptrs, counts, control, history, IInv, TypeOK, Writing
<1>1. phase = "live" /\ LinkInv /\ ReadyInv
  BY Busy
<1>2. TypeOK'
  BY <1>1 DEF RefInv, WindowInv
<1>3. WindowInv'
  BY <1>1 DEF WindowInv
<1>4. LinkInv'
  BY <1>1 DEF WindowInv, LinkInv, Ring
<1>5. ReadyInv'
  BY <1>1 DEF ReadyInv, ReadyFrom, ReadyTo, WindowInv, LinkInv, Ring
<1>6. RefInv' /\ DrainInv' /\ DeleteInv'
  BY <1>1 DEF RefInv, DrainInv, DeleteInv, WindowInv, LinkInv, Ring
<1>7. QED
  BY <1>2, <1>3, <1>4, <1>5, <1>6

LEMMA WriteUnlockCountStep ==
  ASSUME IInv, WriteUnlockCount
  PROVE  IInv'
<1> USE CountAssumption DEF WriteUnlockCount, heap, ptrs, counts, control, history, IInv, TypeOK, Writing
<1>1. phase = "live" /\ LinkInv /\ ReadyInv
  BY Busy
<1>2. TypeOK'
  BY <1>1 DEF RefInv, WindowInv
<1>3. WindowInv'
  BY <1>1 DEF WindowInv
<1>4. LinkInv'
  BY <1>1 DEF WindowInv, LinkInv, Ring
<1>5. ReadyInv'
  BY <1>1 DEF ReadyInv, ReadyFrom, ReadyTo, WindowInv, LinkInv, Ring
<1>6. RefInv' /\ DrainInv' /\ DeleteInv'
  BY <1>1 DEF RefInv, DrainInv, DeleteInv, WindowInv, LinkInv, Ring
<1>7. QED
  BY <1>2, <1>3, <1>4, <1>5, <1>6

LEMMA WriteCancelStep ==
  ASSUME IInv, NEW k \in Writing, WriteCancel(k)
  PROVE  IInv'
<1> USE DEF WriteCancel, heap, control, counts, IInv, TypeOK, Writing
<1>1. phase = "live" /\ LinkInv /\ ReadyInv
  BY Busy
<1>2. /\ window' \in Seq(Node)
      /\ Len(window') = k
      /\ \A i \in 1 .. k : window'[i] = window[i]
  BY SubSeqProperties
<1>3. k >= nr + nq + 1 /\ k < Len(window)
  OBVIOUS
<1>5. WindowInv'
  <2>1. /\ read_ptr' = window'[1]
        /\ read_head' = window'[nr' + 1]
        /\ write_ptr' = window'[nr' + nq' + 1]
        /\ write_head' = window'[Len(window')]
    BY <1>2, <1>3 DEF WindowInv
  <2>2. \A i, j \in 1 .. Len(window') : window'[i] = window'[j] => i = j
    <3>1. \A i \in 1 .. k : i \in 1 .. Len(window)
      BY <1>3
    <3>2. QED
      BY <1>2, <3>1 DEF WindowInv
  <2>3. \A i \in 1 .. Len(window') - 1 : next'[window'[i]] = window'[i + 1]
    <3> TAKE i \in 1 .. Len(window') - 1
    <3>1. i \in 1 .. Len(window) - 1 /\ i \in 1 .. k /\ i + 1 \in 1 .. k
      BY <1>2, <1>3
    <3>2. QED
      BY <1>2, <3>1 DEF WindowInv
  <2>4. Len(window') >= nr' + nq' + 1
    BY <1>2, <1>3
  <2>5. QED
    BY <2>1, <2>2, <2>3, <2>4 DEF WindowInv
<1>6. LinkInv'
  <2>1. \A m, n \in Ring : next[m] = next[n] => m = n
    BY <1>1 DEF LinkInv
  <2>2. \A n \in Ring : next[n] \in Ring
    BY <1>1 DEF LinkInv
  <2>3. \A i \in 1 .. Len(window') : window'[i] \in Ring
    BY <1>1, <1>2, <1>3 DEF LinkInv
  <2>4. QED
    BY <1>3, <2>1, <2>2, <2>3, <1>1 DEF LinkInv, Ring
<1>7. ReadyInv'
  BY <1>1, <1>2, <1>3 DEF ReadyInv, ReadyFrom, ReadyTo, WindowInv, LinkInv, Ring
<1>8. TypeOK' /\ RefInv' /\ DrainInv' /\ DeleteInv'
  BY <1>1, <1>2 DEF RefInv, DrainInv, DeleteInv, Ring
<1>9. QED
  BY <1>5, <1>6, <1>7, <1>8

LEMMA ShrinkBeginStep ==
  ASSUME IInv, ShrinkBegin
  PROVE  IInv'
<1> USE CountAssumption DEF ShrinkBegin, heap, ptrs, counts, control, history, IInv, TypeOK, Writing
<1>1. phase = "live" /\ LinkInv /\ ReadyInv
  BY Busy
<1>2. TypeOK'
  BY <1>1 DEF RefInv, WindowInv
<1>3. WindowInv'
  BY <1>1 DEF WindowInv
<1>4. LinkInv'
  BY <1>1 DEF WindowInv, LinkInv, Ring
<1>5. ReadyInv'
  BY <1>1 DEF ReadyInv, ReadyFrom, ReadyTo, WindowInv, LinkInv, Ring
<1>6. RefInv' /\ DrainInv' /\ DeleteInv'
  BY <1>1 DEF RefInv, DrainInv, DeleteInv, WindowInv, LinkInv, Ring
<1>7. QED
  BY <1>2, <1>3, <1>4, <1>5, <1>6

LEMMA ShrinkFreeStep ==
  ASSUME IInv, ShrinkFree
  PROVE  IInv'
<1> USE DEF ShrinkFree, heap, counts, ptrs, history, IInv, TypeOK, Writing
<1>1. phase = "live" /\ LinkInv /\ ReadyInv
  BY Busy
<1>2. \A i \in 1 .. Len(window) : window[i] # cursor
  BY CursorOutside
<1>3. cursor # write_head
  BY <1>2 DEF WindowInv
<1>4. LinkInv'
  BY <1>1, <1>2, <1>3 DEF LinkInv, Ring
<1>5. TypeOK' /\ WindowInv'
  BY DEF WindowInv
<1>6. ReadyInv'
  BY <1>1 DEF ReadyInv, ReadyFrom, ReadyTo, Ring
<1>7. RefInv' /\ DrainInv' /\ DeleteInv'
  BY <1>1 DEF RefInv, DrainInv, DeleteInv, LinkInv, Ring
<1>8. QED
  BY <1>4, <1>5, <1>6, <1>7


LEMMA ShrinkStopStep ==
  ASSUME IInv, ShrinkStop
  PROVE  IInv'
<1> USE CountAssumption DEF ShrinkStop, heap, ptrs, counts, control, history, IInv, TypeOK, Writing
<1>1. phase = "live" /\ LinkInv /\ ReadyInv
  BY Busy
<1>2. TypeOK'
  BY <1>1 DEF RefInv, WindowInv
<1>3. WindowInv'
  BY <1>1 DEF WindowInv
<1>4. LinkInv'
  BY <1>1 DEF WindowInv, LinkInv, Ring
<1>5. ReadyInv'
  BY <1>1 DEF ReadyInv, ReadyFrom, ReadyTo, WindowInv, LinkInv, Ring
<1>6. RefInv' /\ DrainInv' /\ DeleteInv'
  BY <1>1 DEF RefInv, DrainInv, DeleteInv, WindowInv, LinkInv, Ring
<1>7. QED
  BY <1>2, <1>3, <1>4, <1>5, <1>6

LEMMA ShrinkRelinkStep ==
  ASSUME IInv, ShrinkRelink
  PROVE  IInv'
<1> USE CountAssumption DEF ShrinkRelink, heap, ptrs, counts, control, history, IInv, TypeOK, Writing
<1>1. phase = "live" /\ LinkInv /\ ReadyInv
  BY Busy
<1>2. TypeOK'
  BY <1>1 DEF RefInv, WindowInv
<1>3. WindowInv'
  BY <1>1 DEF WindowInv
<1>4. LinkInv'
  BY <1>1 DEF WindowInv, LinkInv, Ring
<1>5. ReadyInv'
  BY <1>1 DEF ReadyInv, ReadyFrom, ReadyTo, WindowInv, LinkInv, Ring
<1>6. RefInv' /\ DrainInv' /\ DeleteInv'
  BY <1>1 DEF RefInv, DrainInv, DeleteInv, WindowInv, LinkInv, Ring
<1>7. QED
  BY <1>2, <1>3, <1>4, <1>5, <1>6

LEMMA ReadLockTestStep ==
  ASSUME IInv, ReadLockTest
  PROVE  IInv'
<1> USE CountAssumption DEF ReadLockTest, heap, ptrs, counts, control, history, IInv, TypeOK, Writing
<1>1. phase = "live" /\ LinkInv /\ ReadyInv
  BY Busy
<1>2. TypeOK'
  BY <1>1 DEF RefInv, WindowInv
<1>3. WindowInv'
  BY <1>1 DEF WindowInv
<1>4. LinkInv'
  BY <1>1 DEF WindowInv, LinkInv, Ring
<1>5. ReadyInv'
  BY <1>1 DEF ReadyInv, ReadyFrom, ReadyTo, WindowInv, LinkInv, Ring
<1>6. RefInv' /\ DrainInv' /\ DeleteInv'
  BY <1>1 DEF RefInv, DrainInv, DeleteInv, WindowInv, LinkInv, Ring
<1>7. QED
  BY <1>2, <1>3, <1>4, <1>5, <1>6

LEMMA ReadLockTakeStep ==
  ASSUME IInv, ReadLockTake
  PROVE  IInv'
<1> USE DEF ReadLockTake, heap, counts, ptrs, IInv, TypeOK, Writing
<1>1. phase = "live" /\ LinkInv /\ ReadyInv
  BY Busy
<1>2. WindowInv'
  <2>1. CASE read_head \in ready
    <3>1. nr' = nr + 1 /\ nq' = nq - 1 /\ read_head' = next[read_head]
      BY <2>1
    <3>2. next[read_head] = window[nr + 2]
      BY DEF WindowInv
    <3>3. write_ptr = window[nr' + nq' + 1]
      BY <3>1 DEF WindowInv
    <3>4. QED
      BY <3>1, <3>2, <3>3 DEF WindowInv
  <2>2. CASE read_head \notin ready
    BY <2>2 DEF WindowInv
  <2>3. QED
    BY <2>1, <2>2
<1>3. nr' + nq' = nr + nq
  OBVIOUS
<1>4. TypeOK'
  BY DEF WindowInv
<1>5. LinkInv'
  BY <1>1 DEF LinkInv, Ring
<1>6. ReadyInv'
  BY <1>1, <1>3 DEF ReadyInv, ReadyFrom, ReadyTo, Ring
<1>7. RefInv' /\ DrainInv' /\ DeleteInv'
  BY <1>1 DEF RefInv, DrainInv, DeleteInv, WindowInv
<1>8. QED
  BY <1>2, <1>4, <1>5, <1>6, <1>7


LEMMA ReadUnlockReadyStep ==
  ASSUME IInv, ReadUnlockReady
  PROVE  IInv'
<1> USE CountAssumption DEF ReadUnlockReady, heap, ptrs, counts, control, history, IInv, TypeOK, Writing
<1>1. phase = "live" /\ LinkInv /\ ReadyInv
  BY Busy
<1>2. TypeOK'
  BY <1>1 DEF RefInv, WindowInv
<1>3. WindowInv'
  BY <1>1 DEF WindowInv
<1>4. LinkInv'
  BY <1>1 DEF WindowInv, LinkInv, Ring
<1>5. ReadyInv'
  BY <1>1 DEF ReadyInv, ReadyFrom, ReadyTo, WindowInv, LinkInv, Ring
<1>6. RefInv' /\ DrainInv' /\ DeleteInv'
  BY <1>1 DEF RefInv, DrainInv, DeleteInv, WindowInv, LinkInv, Ring
<1>7. QED
  BY <1>2, <1>3, <1>4, <1>5, <1>6

LEMMA ReadUnlockReleaseStep ==
  ASSUME IInv, ReadUnlockRelease
  PROVE  IInv'
<1> USE DEF ReadUnlockRelease, heap, counts, IInv, TypeOK, Writing
<1>1. phase = "live" /\ LinkInv /\ ReadyInv
  BY Busy
<1>2. /\ window' \in Seq(Node)
      /\ Len(window') = Len(window) - 1
      /\ \A i \in 1 .. Len(window) - 1 : window'[i] = window[i + 1]
  BY HeadTailProperties, window # << >> DEF WindowInv
<1>5. WindowInv'
  <2>1. Len(window') >= nr' + nq' + 1
    BY <1>2 DEF WindowInv
  <2>2. \A i, j \in 1 .. Len(window') : window'[i] = window'[j] => i = j
    BY <1>2 DEF WindowInv
  <2>3. \A i \in 1 .. Len(window') - 1 : next'[window'[i]] = window'[i + 1]
    BY <1>2 DEF WindowInv
  <2>4. /\ read_ptr' = window'[1]
        /\ read_head' = window'[nr' + 1]
        /\ write_ptr' = window'[nr' + nq' + 1]
        /\ write_head' = window'[Len(window')]
    <3>1. /\ nr \in Nat /\ nq \in Nat /\ nr > 0 /\ Len(window) \in Nat
          /\ Len(window) >= nr + nq + 1 /\ nr' = nr - 1 /\ nq' = nq
      BY DEF WindowInv
    <3>2. /\ window'[1] = window[2] /\ window'[nr' + 1] = window[nr + 1]
          /\ window'[nr' + nq' + 1] = window[nr + nq + 1]
          /\ window'[Len(window')] = window[Len(window)]
      <4>1. \A i \in 1 .. Len(window) - 1 : window'[i] = window[i + 1]
        BY <1>2
      <4>2. /\ 1 \in 1 .. Len(window) - 1 /\ nr' + 1 \in 1 .. Len(window) - 1
            /\ nr' + nq' + 1 \in 1 .. Len(window) - 1
            /\ Len(window) - 1 \in 1 .. Len(window) - 1
        BY <3>1
      <4>3. /\ nr' + 1 + 1 = nr + 1 /\ nr' + nq' + 1 + 1 = nr + nq + 1
            /\ Len(window) - 1 + 1 = Len(window)
        BY <3>1
      <4>4. Len(window') = Len(window) - 1
        BY <1>2
      <4> HIDE DEF ReadUnlockRelease, IInv, TypeOK, heap, counts, Writing
      <4>5. \A i \in 1 .. Len(window) - 1 : \A j : j = i + 1 => window'[i] = window[j]
        BY <4>1
      <4>6. window'[1] = window[2]
        BY <4>2, <4>5
      <4>7. window'[nr' + 1] = window[nr + 1] /\ window'[nr' + nq' + 1] = window[nr + nq + 1]
        BY <4>2, <4>3, <4>5
      <4>8. window'[Len(window) - 1] = window[Len(window)]
        BY <4>2, <4>3, <4>5
      <4>9. QED
        BY <4>4, <4>6, <4>7, <4>8
    <3>3. next[window[1]] = window[2]
      BY <3>1 DEF WindowInv
    <3>4. QED
      BY <3>2, <3>3 DEF WindowInv
  <2>5. rpc' # "seen" /\ rpc' # "release" /\ (wpc' = "publish" => nr' + nq' + 1 < Len(window'))
    BY <1>2 DEF WindowInv
  <2>6. QED
    BY <2>1, <2>2, <2>3, <2>4, <2>5 DEF WindowInv
<1>6. ReadyInv'
  <2>1. \A i \in 1 .. Len(window') :
        window'[i] \in ready' <=> ReadyFrom' <= i /\ i <= ReadyTo'
    <3>1. ReadyFrom = 2 /\ ReadyFrom' = 1 /\ ReadyTo' = ReadyTo - 1 /\ ReadyTo \in Nat
      BY DEF ReadyFrom, ReadyTo
    <3>2. Len(window) \in Nat /\ ready' = ready
      OBVIOUS
    <3>3. \A i \in 1 .. Len(window) : window[i] \in ready <=> 2 <= i /\ i <= ReadyTo
      BY <1>1, <3>1 DEF ReadyInv
    <3> HIDE DEF ReadUnlockRelease, IInv, TypeOK, heap, counts, Writing
    <3> SUFFICES ASSUME NEW i \in 1 .. Len(window')
                 PROVE  window'[i] \in ready' <=> ReadyFrom' <= i /\ i <= ReadyTo'
      OBVIOUS
    <3>4. i \in 1 .. Len(window) - 1 /\ i + 1 \in 1 .. Len(window)
      BY <1>2, <3>2
    <3>5. window'[i] = window[i + 1]
      BY <1>2, <3>4
    <3>6. window[i + 1] \in ready <=> 2 <= i + 1 /\ i + 1 <= ReadyTo
      BY <3>3, <3>4
    <3>7. (2 <= i + 1 /\ i + 1 <= ReadyTo) <=> (1 <= i /\ i <= ReadyTo - 1)
      BY <3>1, <3>4
    <3>8. QED
      BY <3>1, <3>2, <3>5, <3>6, <3>7
  <2>2. \A n \in Ring' : n \in ready' => \E i \in 1 .. Len(window') : window'[i] = n
    <3> SUFFICES ASSUME NEW n \in Ring', n \in ready'
                 PROVE  \E i \in 1 .. Len(window') : window'[i] = n
      OBVIOUS
    <3>1. PICK i \in 1 .. Len(window) : window[i] = n
      BY <1>1 DEF ReadyInv, Ring
    <3>2. i # 1
      BY <1>1, <3>1 DEF ReadyInv, ReadyFrom
    <3>3. i - 1 \in 1 .. Len(window') /\ window'[i - 1] = n
      BY <1>2, <3>1, <3>2
    <3>4. QED
      BY <3>3
  <2>3. QED
    BY <2>1, <2>2 DEF ReadyInv
<1>7. RefInv'
  BY <1>1 DEF RefInv, WindowInv, LinkInv, Ring
<1>8. TypeOK'
  BY <1>2 DEF WindowInv
<1>9. LinkInv'
  <2>1. \A i \in 1 .. Len(window') : window'[i] \in Ring /\ window'[i] # read_ptr
    BY <1>1, <1>2 DEF LinkInv, WindowInv
  <2>2. read_ptr \in Ring \ {write_head} /\ next[read_ptr] = read_ptr'
    BY <1>1 DEF LinkInv, WindowInv
  <2>3. QED
    BY <1>1, <1>2, <2>1, <2>2 DEF LinkInv, Ring
<1>10. DrainInv' /\ DeleteInv'
  BY <1>1 DEF DrainInv, DeleteInv, WindowInv
<1>11. QED
  BY <1>5, <1>6, <1>7, <1>8, <1>9, <1>10


LEMMA ReadUnlockCountStep ==
  ASSUME IInv, ReadUnlockCount
  PROVE  IInv'
<1> USE CountAssumption DEF ReadUnlockCount, heap, ptrs, counts, control, history, IInv, TypeOK, Writing
<1>1. phase = "live" /\ LinkInv /\ ReadyInv
  BY Busy
<1>2. TypeOK'
  BY <1>1 DEF RefInv, WindowInv
<1>3. WindowInv'
  BY <1>1 DEF WindowInv
<1>4. LinkInv'
  BY <1>1 DEF WindowInv, LinkInv, Ring
<1>5. ReadyInv'
  BY <1>1 DEF ReadyInv, ReadyFrom, ReadyTo, WindowInv, LinkInv, Ring
<1>6. RefInv' /\ DrainInv' /\ DeleteInv'
  BY <1>1 DEF RefInv, DrainInv, DeleteInv, WindowInv, LinkInv, Ring
<1>7. QED
  BY <1>2, <1>3, <1>4, <1>5, <1>6

LEMMA ReadCancelStep ==
  ASSUME IInv, NEW k \in 1 .. nr, ReadCancel(k)
  PROVE  IInv'
<1> USE CountAssumption DEF ReadCancel, heap, ptrs, counts, control, history, IInv, TypeOK, Writing
<1>1. phase = "live" /\ LinkInv /\ ReadyInv
  BY Busy
<1>2. TypeOK'
  BY <1>1 DEF RefInv, WindowInv
<1>3. WindowInv'
  BY <1>1 DEF WindowInv
<1>4. LinkInv'
  BY <1>1 DEF WindowInv, LinkInv, Ring
<1>5. ReadyInv'
  BY <1>1 DEF ReadyInv, ReadyFrom, ReadyTo, WindowInv, LinkInv, Ring
<1>6. RefInv' /\ DrainInv' /\ DeleteInv'
  BY <1>1 DEF RefInv, DrainInv, DeleteInv, WindowInv, LinkInv, Ring
<1>7. QED
  BY <1>2, <1>3, <1>4, <1>5, <1>6

LEMMA WriterUnrefStep ==
  ASSUME IInv, WriterUnref
  PROVE  IInv'
<1> USE CountAssumption DEF WriterUnref, DropRef, heap, ptrs, counts, control, history, IInv, TypeOK, Writing
<1>1. TypeOK'
  BY DEF RefInv, WindowInv
<1>2. WindowInv'
  BY DEF WindowInv
<1>3. (phase \in {"live", "drain"} => LinkInv /\ ReadyInv)'
  BY DEF LinkInv, ReadyInv, ReadyFrom, ReadyTo, Ring, RefInv
<1>4. RefInv'
  BY DEF RefInv, Ring, LinkInv, DeleteInv
<1>5. DrainInv'
  BY DEF DrainInv, WindowInv, RefInv
<1>6. DeleteInv'
  BY DEF DeleteInv, LinkInv, WindowInv, Ring, RefInv
<1>7. QED
  BY <1>1, <1>2, <1>3, <1>4, <1>5, <1>6

LEMMA ReaderUnrefStep ==
  ASSUME IInv, ReaderUnref
  PROVE  IInv'
<1> USE CountAssumption DEF ReaderUnref, DropRef, heap, ptrs, counts, control, history, IInv, TypeOK, Writing
<1>1. TypeOK'
  BY DEF RefInv, WindowInv
<1>2. WindowInv'
  BY DEF WindowInv
<1>3. (phase \in {"live", "drain"} => LinkInv /\ ReadyInv)'
  BY DEF LinkInv, ReadyInv, ReadyFrom, ReadyTo, Ring, RefInv
<1>4. RefInv'
  BY DEF RefInv, Ring, LinkInv, DeleteInv
<1>5. DrainInv'
  BY DEF DrainInv, WindowInv, RefInv
<1>6. DeleteInv'
  BY DEF DeleteInv, LinkInv, WindowInv, Ring, RefInv
<1>7. QED
  BY <1>1, <1>2, <1>3, <1>4, <1>5, <1>6

LEMMA DrainFreeStep ==
  ASSUME IInv, DrainFree
  PROVE  IInv'
<1> USE DEF DrainFree, heap, counts, ptrs, IInv, TypeOK, Writing
<1>2. /\ freed' \in Seq(Node)
      /\ Len(freed') = Len(freed) + 1
      /\ \A i \in 1 .. Len(freed) : freed'[i] = freed[i]
      /\ freed'[Len(freed) + 1] = cursor
  BY AppendProperties
<1>3. Len(freed) < nq
  BY DEF DrainInv, WindowInv
<1>4. next[cursor] = window[nr + 1 + Len(freed')]
  <2>1. cursor = window[nr + 1 + Len(freed)]
    BY DEF DrainInv
  <2>2. nr + 1 + Len(freed) \in 1 .. Len(window) - 1
    BY <1>3 DEF WindowInv
  <2>3. QED
    BY <1>2, <2>1, <2>2 DEF WindowInv
<1>5. \A i \in 1 .. Len(freed') : freed'[i] = window[nr + i]
  <2> TAKE i \in 1 .. Len(freed')
  <2>1. CASE i <= Len(freed)
    BY <1>2, <2>1 DEF DrainInv
  <2>2. CASE i = Len(freed) + 1
    BY <1>2, <2>2 DEF DrainInv
  <2>3. QED
    BY <1>2, <2>1, <2>2
<1>6. DrainInv'
  BY <1>2, <1>3, <1>4, <1>5 DEF DrainInv
<1>7. TypeOK' /\ WindowInv' /\ RefInv' /\ DeleteInv'
  BY <1>2 DEF WindowInv, RefInv, DeleteInv
<1>8. LinkInv' /\ ReadyInv'
  BY DEF LinkInv, ReadyInv, ReadyFrom, ReadyTo, Ring, RefInv
<1>9. QED
  BY <1>6, <1>7, <1>8


LEMMA DrainStopStep ==
  ASSUME IInv, DrainStop
  PROVE  IInv'
<1> USE CountAssumption DEF DrainStop, heap, ptrs, counts, control, history, IInv, TypeOK, Writing
<1>1. TypeOK'
  BY DEF RefInv, WindowInv
<1>2. WindowInv'
  BY DEF WindowInv
<1>3. (phase \in {"live", "drain"} => LinkInv /\ ReadyInv)'
  BY DEF LinkInv, ReadyInv, ReadyFrom, ReadyTo, Ring, RefInv
<1>4. RefInv'
  BY DEF RefInv, Ring, LinkInv, DeleteInv
<1>5. DrainInv'
  BY DEF DrainInv, WindowInv, RefInv
<1>6. DeleteInv'
  <2>1. wpc = "gone"
    BY DEF RefInv
  <2>2. LinkInv /\ cursor \in Ring
    BY DEF WindowInv, LinkInv
  <2>3. \A m, n \in Ring : next[m] = next[n] => m = n
    BY <2>1, <2>2 DEF LinkInv
  <2>4. QED
    BY <2>1, <2>2, <2>3 DEF DeleteInv, LinkInv, Ring
<1>7. QED
  BY <1>1, <1>2, <1>3, <1>4, <1>5, <1>6


LEMMA DeleteNodeStep ==
  ASSUME IInv, DeleteNode
  PROVE  IInv'
<1> USE CountAssumption DEF DeleteNode, heap, ptrs, counts, control, history, IInv, TypeOK, Writing
<1>1. TypeOK'
  BY DEF RefInv, WindowInv
<1>2. WindowInv'
  BY DEF WindowInv
<1>3. (phase \in {"live", "drain"} => LinkInv /\ ReadyInv)'
  BY DEF LinkInv, ReadyInv, ReadyFrom, ReadyTo, Ring, RefInv
<1>4. RefInv'
  BY DEF RefInv, Ring, LinkInv, DeleteInv
<1>5. DrainInv'
  BY DEF DrainInv, WindowInv, RefInv
<1>6. DeleteInv'
  BY DEF DeleteInv, LinkInv, WindowInv, Ring, RefInv
<1>7. QED
  BY <1>1, <1>2, <1>3, <1>4, <1>5, <1>6


LEMMA InitStep == Init => IInv
<1> SUFFICES ASSUME NEW a \in Node, NEW b \in Node, NEW v \in Value,
                    InitRing(a, b, v)
             PROVE  IInv
  BY DEF Init
<1> USE CountAssumption DEF InitRing
<1>1. window \in Seq(Node) /\ Len(window) = 1 /\ window[1] = a
  OBVIOUS
<1>2. next \in [Node -> Node] /\ next[a] = b /\ next[b] = a
  OBVIOUS
<1>3. TypeOK
  BY <1>1, <1>2 DEF TypeOK
<1>4. WindowInv
  BY <1>1 DEF WindowInv, Writing
<1>5. LinkInv /\ ReadyInv
  BY <1>1, <1>2 DEF LinkInv, ReadyInv, ReadyFrom, ReadyTo, Ring
<1>6. RefInv /\ DrainInv /\ DeleteInv
  BY DEF RefInv, DrainInv, DeleteInv
<1>7. QED
  BY <1>3, <1>4, <1>5, <1>6 DEF IInv

LEMMA NextStep == IInv /\ [Next]_vars => IInv'
<1> SUFFICES ASSUME IInv, [Next]_vars PROVE IInv'
  OBVIOUS
<1>1. CASE WriterStep
  BY <1>1, WriteLockTestStep, WriteLockReadyStep, WriteLockFailStep,
     WriteLockGrowStep, WriteLockClaimStep, FillStep, WriteUnlockReadyStep,
     WriteUnlockPublishStep, WriteUnlockCountStep, WriteCancelStep,
     ShrinkBeginStep, ShrinkFreeStep, ShrinkStopStep, ShrinkRelinkStep,
     WriterUnrefStep DEF WriterStep
<1>2. CASE ReaderStep
  BY <1>2, ReadLockTestStep, ReadLockTakeStep, ReadUnlockReadyStep,
     ReadUnlockReleaseStep, ReadUnlockCountStep, ReadCancelStep,
     ReaderUnrefStep DEF ReaderStep
<1>3. CASE Teardown
  BY <1>3, DrainFreeStep, DrainStopStep, DeleteNodeStep DEF Teardown
<1>4. CASE UNCHANGED vars
  BY <1>4 DEF vars, heap, ptrs, counts, control, history, IInv, TypeOK,
     WindowInv, Writing, LinkInv, Ring, ReadyInv, ReadyFrom, ReadyTo, RefInv,
     DrainInv, DeleteInv
<1>5. QED
  BY <1>1, <1>2, <1>3, <1>4 DEF Next

\* The inductive invariant, for any set of nodes, of values and any counter width.
THEOREM Inductive == Spec => []IInv
BY InitStep, NextStep, PTL DEF Spec

\* Every variable keeps its type; in particular no count of elements goes
\* below zero and no counter leaves its width.
THEOREM TypeCorrect == Spec => []TypeOK
<1>1. IInv => TypeOK
  BY DEF IInv
<1>2. QED
  BY Inductive, <1>1, PTL

\* The assertions in write_unlock, write_cancel, read_unlock, read_cancel,
\* shrink and unref hold whenever they are evaluated.
THEOREM AssertionsHold == Spec => []AssertsHold
<1>1. IInv => AssertsHold
  <2> SUFFICES ASSUME IInv PROVE AssertsHold
    OBVIOUS
  <2> USE DEF IInv, TypeOK, Writing
  <2>1. wpc # "gone" \/ rpc # "gone" =>
          phase = "live" /\ LinkInv /\ ReadyInv
    BY Busy
  <2>2. ASSUME wpc = "idle", NEW k \in Writing PROVE window[k] \notin ready
    BY <2>1, <2>2 DEF ReadyInv, ReadyFrom, ReadyTo
  <2>3. ASSUME rpc = "idle", NEW k \in 1 .. nr PROVE window[k] \in ready
    BY <2>1, <2>3 DEF ReadyInv, ReadyFrom, ReadyTo, WindowInv
  <2>4. ASSUME wpc = "shrink", cursor # read_ptr PROVE cursor \notin ready
    <3>1. \A i \in 1 .. Len(window) : window[i] # cursor
      BY <2>4, CursorOutside
    <3>2. QED
      BY <2>1, <2>4, <3>1 DEF ReadyInv, LinkInv
  <2>5. ASSUME phase = "drain", cursor # write_ptr PROVE cursor \in ready
    <3>1. Len(freed) < nq /\ cursor = window[nr + 1 + Len(freed)]
      BY <2>5 DEF DrainInv, WindowInv
    <3>2. rpc = "gone"
      BY <2>5 DEF RefInv
    <3>3. QED
      BY <2>5, <3>1, <3>2 DEF ReadyInv, ReadyFrom, ReadyTo, WindowInv
  <2>6. QED
    BY <2>2, <2>3, <2>4, <2>5 DEF AssertsHold
<1>2. QED
  BY Inductive, <1>1, PTL

\* Neither thread, nor the teardown, reaches a node that is not allocated.
THEOREM NodesStayAllocated == Spec => []NoUseAfterFree
<1>1. IInv => NoUseAfterFree
  BY Busy DEF IInv, TypeOK, NoUseAfterFree, Live, WindowInv, LinkInv, Ring,
     RefInv, DrainInv, DeleteInv
<1>2. QED
  BY Inductive, <1>1, PTL

\* free_func is given exactly the published elements the reader does not hold.
THEOREM DrainIsExact == Spec => []DrainExact
<1>1. IInv => DrainExact
  <2> SUFFICES ASSUME IInv, phase \in {"delete", "done"}
               PROVE  freed = SubSeq(window, nr + 1, nr + nq)
    BY DEF DrainExact
  <2> USE DEF IInv, TypeOK
  <2>1. /\ SubSeq(window, nr + 1, nr + nq) \in Seq(Node)
        /\ Len(SubSeq(window, nr + 1, nr + nq)) = nq
        /\ \A i \in 1 .. nq : SubSeq(window, nr + 1, nr + nq)[i] = window[nr + i]
    BY SubSeqProperties DEF WindowInv
  <2>2. Len(freed) = nq /\ \A i \in 1 .. nq : freed[i] = window[nr + i]
    BY DEF DrainInv
  <2>3. QED
    BY <2>1, <2>2, SeqEqual
<1>2. QED
  BY Inductive, <1>1, PTL

-----------------------------------------------------------------------------
(* RWQueue implements the abstract channel *)

LEMMA ContentsProperties ==
  ASSUME IInv
  PROVE  /\ Contents \in Seq(Value)
         /\ Len(Contents) = Len(window) - 1
         /\ \A k \in 1 .. Len(window) - 1 : Contents[k] = data[window[k]]
<1> DEFINE n == Len(window) - 1
<1>1. n \in Nat /\ \A k \in 1 .. n : data[window[k]] \in Value
  BY DEF IInv, TypeOK, WindowInv
<1>2. Contents \in [1 .. n -> Value]
  BY <1>1 DEF Contents
<1>3. QED
  BY <1>1, <1>2 DEF Contents

LEMMA ContentsPropertiesNext ==
  ASSUME IInv'
  PROVE  /\ Contents' \in Seq(Value)
         /\ Len(Contents') = Len(window') - 1
         /\ \A k \in 1 .. Len(window') - 1 : Contents'[k] = data'[window'[k]]
<1> DEFINE n == Len(window') - 1
<1>1. n \in Nat /\ \A k \in 1 .. n : data'[window'[k]] \in Value
  <2>1. TypeOK' /\ Len(window') >= nr' + nq' + 1
    BY DEF IInv, WindowInv
  <2>2. n \in Nat
    BY <2>1 DEF TypeOK
  <2>3. \A k \in 1 .. n : window'[k] \in Node
    BY <2>1, <2>2 DEF TypeOK
  <2>4. QED
    BY <2>1, <2>2, <2>3 DEF TypeOK
<1>2. Contents' \in [1 .. n -> Value]
  BY <1>1 DEF Contents
<1>3. QED
  BY <1>1, <1>2 DEF Contents

LEMMA ClaimRefines ==
  ASSUME IInv, IInv', WriteLockClaim
  PROVE  \E v \in Value : Chan!Claim(v)
<1> DEFINE v == data[write_head]
<1> USE DEF IInv, TypeOK, WriteLockClaim, heap
<1>1. v \in Value
  OBVIOUS
<1>2. /\ Len(window') = Len(window) + 1
      /\ \A i \in 1 .. Len(window) : window'[i] = window[i]
  BY AppendProperties, next[write_head] \in Node
<1>3. /\ Append(Contents, v) \in Seq(Value)
      /\ Len(Append(Contents, v)) = Len(Contents) + 1
      /\ \A i \in 1 .. Len(Contents) : Append(Contents, v)[i] = Contents[i]
      /\ Append(Contents, v)[Len(Contents) + 1] = v
  BY <1>1, ContentsProperties, AppendProperties
<1>4. /\ Contents' \in Seq(Value)
      /\ Len(Contents') = Len(window)
      /\ \A k \in 1 .. Len(window) : Contents'[k] = data[window[k]]
  BY <1>2 , ContentsPropertiesNext
<1>5. window[Len(window)] = write_head
  BY DEF WindowInv
<1>6. \A i \in 1 .. Len(window) : Contents'[i] = Append(Contents, v)[i]
  <2> TAKE i \in 1 .. Len(window)
  <2>1. CASE i < Len(window)
    BY <1>3, <1>4, <2>1, ContentsProperties
  <2>2. CASE i = Len(window)
    BY <1>3, <1>4, <1>5, <2>2, ContentsProperties
  <2>3. i < Len(window) \/ i = Len(window)
    OBVIOUS
  <2>4. QED
    BY <2>1, <2>2, <2>3
<1>7. Contents' = Append(Contents, v)
  <2>1. Len(Append(Contents, v)) = Len(Contents')
    BY <1>3, <1>4, ContentsProperties
  <2>2. QED
    BY <1>3, <1>4, <1>6, <2>1, SeqEqual
<1>8. QED
  BY <1>1, <1>7 DEF Chan!Claim

LEMMA FillRefines ==
  ASSUME IInv, IInv', NEW k \in Writing, NEW v \in Value, Fill(k, v)
  PROVE  Chan!Write(k, v)
<1> USE DEF IInv, TypeOK, Fill, history, Writing
<1>1. k \in 1 .. Len(Contents)
  BY ContentsProperties
<1>2. \A i \in 1 .. Len(window) - 1 :
         data'[window[i]] = IF i = k THEN v ELSE data[window[i]]
  <2> TAKE i \in 1 .. Len(window) - 1
  <2>1. window[i] \in Node /\ window[k] \in Node
    OBVIOUS
  <2>2. window[i] = window[k] => i = k
    BY DEF WindowInv
  <2>3. QED
    BY <2>1, <2>2
<1>3. /\ [Contents EXCEPT ![k] = v] \in Seq(Value)
      /\ Len([Contents EXCEPT ![k] = v]) = Len(Contents)
      /\ \A j \in 1 .. Len(Contents) :
            [Contents EXCEPT ![k] = v][j] = IF j = k THEN v ELSE Contents[j]
  <2>1. Contents \in Seq(Value)
    BY ContentsProperties
  <2> HIDE DEF IInv, TypeOK, Fill, history, Writing
  <2>2. QED
    BY <1>1, <2>1, ExceptSeq
<1>4. \A i \in 1 .. Len(Contents) : Contents'[i] = [Contents EXCEPT ![k] = v][i]
  <2>1. \A i \in 1 .. Len(window) - 1 : Contents'[i] = data'[window[i]]
    BY ContentsPropertiesNext
  <2>2. TAKE i \in 1 .. Len(Contents)
  <2>3. i \in 1 .. Len(window) - 1 /\ Contents[i] = data[window[i]]
    BY ContentsProperties
  <2>4. Contents'[i] = IF i = k THEN v ELSE Contents[i]
    BY <1>2, <2>1, <2>3
  <2>5. QED
    BY <1>3, <2>4
<1>5. Contents' = [Contents EXCEPT ![k] = v]
  <2> DEFINE t == [Contents EXCEPT ![k] = v]
  <2>1. Contents' \in Seq(Value) /\ Len(Contents') = Len(Contents)
    BY ContentsProperties, ContentsPropertiesNext
  <2>2. t \in Seq(Value) /\ Len(Contents') = Len(t)
    BY <1>3, <2>1
  <2>3. \A i \in 1 .. Len(Contents') : Contents'[i] = t[i]
    BY <1>4, <2>1
  <2> HIDE DEF t
  <2>4. Contents' = t
    BY <2>1, <2>2, <2>3, SeqEqual
  <2>5. QED
    BY <2>4 DEF t
<1>6. QED
  BY <1>1, <1>5, ContentsProperties DEF Chan!Write, Chan!Pending

LEMMA CancelRefines ==
  ASSUME IInv, IInv', NEW k \in Writing, WriteCancel(k)
  PROVE  Chan!Withdraw(k)
<1> USE DEF IInv, TypeOK, WriteCancel, heap, Writing
<1>1. k \in 1 .. Len(Contents)
  BY ContentsProperties
<1>2. Len(window') = k /\ \A i \in 1 .. k : window'[i] = window[i]
  BY SubSeqProperties
<1>3. /\ SubSeq(Contents, 1, k - 1) \in Seq(Value)
      /\ Len(SubSeq(Contents, 1, k - 1)) = k - 1
      /\ \A i \in 1 .. k - 1 : SubSeq(Contents, 1, k - 1)[i] = Contents[i]
  BY <1>1, ContentsProperties, SubSeqProperties
<1>4. \A i \in 1 .. k - 1 : Contents'[i] = SubSeq(Contents, 1, k - 1)[i]
  <2>1. \A i \in 1 .. k - 1 : Contents'[i] = data[window[i]]
    BY <1>2, ContentsPropertiesNext
  <2>2. \A i \in 1 .. k - 1 : Contents[i] = data[window[i]]
    BY <1>1, ContentsProperties
  <2>3. QED
    BY <1>3, <2>1, <2>2
<1>5. Contents' = SubSeq(Contents, 1, k - 1)
  BY <1>2, <1>3, <1>4, ContentsPropertiesNext, SeqEqual
<1>6. QED
  BY <1>1, <1>5, ContentsProperties DEF Chan!Withdraw, Chan!Pending

LEMMA ReleaseRefines ==
  ASSUME IInv, IInv', ReadUnlockRelease
  PROVE  Chan!Release
<1> USE DEF IInv, TypeOK, ReadUnlockRelease, heap
<1>1. nr > 0 /\ Len(window) > 1
  BY DEF WindowInv
<1>2. /\ Len(window') = Len(window) - 1
      /\ \A i \in 1 .. Len(window) - 1 : window'[i] = window[i + 1]
  BY <1>1, HeadTailProperties, window # << >>
<1>3. /\ Tail(Contents) \in Seq(Value)
      /\ Len(Tail(Contents)) = Len(Contents) - 1
      /\ \A i \in 1 .. Len(Contents) - 1 : Tail(Contents)[i] = Contents[i + 1]
  BY <1>1, ContentsProperties, HeadTailProperties, Contents # << >>
<1>4. \A i \in 1 .. Len(Contents) - 1 : Contents'[i] = Tail(Contents)[i]
  <2> TAKE i \in 1 .. Len(Contents) - 1
  <2>1. i \in 1 .. Len(window) - 2 /\ i + 1 \in 1 .. Len(window) - 1
    BY <1>1, ContentsProperties
  <2>2. Contents'[i] = data[window[i + 1]]
    <3>1. i \in 1 .. Len(window') - 1 /\ window'[i] = window[i + 1]
      BY <1>2, <2>1
    <3>2. Contents'[i] = data'[window'[i]]
      BY <3>1, ContentsPropertiesNext
    <3>3. QED
      BY <3>1, <3>2
  <2>3. Contents[i + 1] = data[window[i + 1]]
    BY <2>1, ContentsProperties
  <2>4. QED
    BY <1>3, <2>2, <2>3
<1>5. Contents' = Tail(Contents)
  BY <1>2, <1>3, <1>4, ContentsProperties, ContentsPropertiesNext, SeqEqual
<1>6. QED
  BY <1>1, <1>5 DEF Chan!Release

\* A step that changes neither the window, nor its elements, nor the two marks.
LEMMA Stutters ==
  ASSUME UNCHANGED <<window, data, nr, nq>>
  PROVE  UNCHANGED Chan!cvars
BY DEF Contents, Chan!cvars

LEMMA WriterRefines ==
  ASSUME IInv, IInv', WriterStep
  PROVE  [Chan!ChanNext]_(Chan!cvars)
<1>1. ASSUME \/ WriteLockTest \/ WriteLockReady \/ WriteLockFail
             \/ \E n \in Node : WriteLockGrow(n)
             \/ WriteUnlockReady \/ WriteUnlockCount
             \/ ShrinkBegin \/ ShrinkFree \/ ShrinkStop \/ ShrinkRelink
             \/ WriterUnref
      PROVE  UNCHANGED Chan!cvars
  BY <1>1, Stutters DEF WriteLockTest, WriteLockReady, WriteLockFail,
     WriteLockGrow, WriteUnlockReady, WriteUnlockCount, ShrinkBegin,
     ShrinkFree, ShrinkStop, ShrinkRelink, WriterUnref, DropRef, heap, history
<1>2. CASE WriteLockClaim
  BY <1>2, ClaimRefines DEF Chan!ChanNext
<1>3. ASSUME NEW k \in Writing, NEW v \in Value, Fill(k, v)
      PROVE  Chan!ChanNext
  <2>1. Chan!Write(k, v)
    BY <1>3, FillRefines
  <2>2. QED
    BY <2>1 DEF Chan!ChanNext, Chan!Write
<1>4. CASE WriteUnlockPublish
  <2>1. nr + nq < Len(Contents)
    <3>1. Len(Contents) = Len(window) - 1
      BY ContentsProperties
    <3>2. nr + nq + 1 < Len(window)
      BY <1>4 DEF WriteUnlockPublish, IInv, WindowInv
    <3>3. nr \in Nat /\ nq \in Nat /\ Len(window) \in Nat
      BY DEF IInv, TypeOK
    <3>4. QED
      BY <3>1, <3>2, <3>3
  <2>2. Contents' = Contents
    BY <1>4 DEF WriteUnlockPublish, heap, Contents
  <2>3. QED
    BY <1>4, <2>1, <2>2 DEF WriteUnlockPublish, Chan!ChanNext, Chan!Publish
<1>5. ASSUME NEW k \in Writing, WriteCancel(k)
      PROVE  Chan!ChanNext
  <2>1. Chan!Withdraw(k)
    BY <1>5, CancelRefines
  <2>2. QED
    BY <2>1 DEF Chan!ChanNext, Chan!Withdraw
<1>6. QED
  BY <1>1, <1>2, <1>3, <1>4, <1>5 DEF WriterStep

LEMMA ReaderRefines ==
  ASSUME IInv, IInv', ReaderStep
  PROVE  [Chan!ChanNext]_(Chan!cvars)
<1>1. ASSUME ReadLockTest \/ ReadUnlockReady \/ ReadUnlockCount \/ ReaderUnref
      PROVE  UNCHANGED Chan!cvars
  BY <1>1, Stutters DEF ReadLockTest, ReadUnlockReady, ReadUnlockCount,
     ReaderUnref, DropRef, heap, history
<1>2. CASE ReadLockTake
  <2>1. CASE read_head \in ready
    <3>1. Contents' = Contents
      BY <1>2 DEF ReadLockTake, heap, Contents
    <3>2. Chan!Take
      BY <1>2, <2>1, <3>1 DEF ReadLockTake, Chan!Take, IInv, TypeOK, WindowInv
    <3>3. QED
      BY <3>2 DEF Chan!ChanNext
  <2>2. CASE read_head \notin ready
    BY <1>2, <2>2, Stutters DEF ReadLockTake, heap
  <2>3. QED
    BY <2>1, <2>2
<1>3. CASE ReadUnlockRelease
  BY <1>3, ReleaseRefines DEF Chan!ChanNext
<1>4. ASSUME NEW k \in 1 .. nr, ReadCancel(k)
      PROVE  Chan!ChanNext
  <2>1. Contents' = Contents
    BY <1>4 DEF ReadCancel, heap, Contents
  <2>2. Chan!PutBack(k)
    BY <1>4, <2>1 DEF ReadCancel, Chan!PutBack
  <2>3. QED
    BY <2>2 DEF Chan!ChanNext
<1>5. QED
  BY <1>1, <1>2, <1>3, <1>4 DEF ReaderStep

\* The ring is a first-in first-out channel: its initial states and each of its
\* steps are those of SpscChannel, or change nothing the channel shows.
THEOREM ImplementsFifo == Spec => Fifo
<1>1. Init => Chan!ChanInit
  <2> SUFFICES ASSUME Init PROVE Chan!ChanInit
    OBVIOUS
  <2>1. IInv /\ Len(window) = 1 /\ nr = 0 /\ nq = 0
    BY InitStep DEF Init, InitRing
  <2>2. Contents \in Seq(Value) /\ Len(Contents) = 0
    BY <2>1, ContentsProperties
  <2>3. Contents = << >>
    BY <2>2, EmptySeq
  <2>4. QED
    BY <2>1, <2>3 DEF Chan!ChanInit
<1>2. ASSUME IInv, IInv', [Next]_vars
      PROVE  [Chan!ChanNext]_(Chan!cvars)
  <2>1. CASE WriterStep
    BY <1>2, <2>1, WriterRefines
  <2>2. CASE ReaderStep
    BY <1>2, <2>2, ReaderRefines
  <2>3. CASE Teardown
    BY <2>3, Stutters DEF Teardown, DrainFree, DrainStop, DeleteNode, heap,
       history
  <2>4. CASE UNCHANGED vars
    BY <2>4, Stutters DEF vars, heap, history
  <2>5. QED
    BY <1>2, <2>1, <2>2, <2>3, <2>4 DEF Next
<1>3. QED
  BY <1>1, <1>2, Inductive, PTL DEF Spec, Fifo, Chan!ChanSpec

-----------------------------------------------------------------------------
(* The length the counters give *)

\* Division with remainder is unique.
LEMMA Remainder ==
  ASSUME NEW m \in Nat, m > 0, NEW q \in Int, NEW r \in 0 .. m - 1
  PROVE  (m * q + r) % m = r
<1> DEFINE x == m * q + r
           p == x \div m
           s == x % m
<1>0. m * q \in Int /\ x \in Int
  BY SMT
<1>1. p \in Int /\ s \in 0 .. m - 1 /\ x = m * p + s
  <2> HIDE DEF x
  <2> QED BY <1>0, SMT
<1>2. m * (q - p) = s - r
  <2> m * (q - p) = m * q - m * p BY <1>1, SMT
  <2> QED BY <1>1
<1>3. q - p = 0
  <2>1. m * (q - p) < m /\ m * (q - p) > 0 - m
    BY <1>1, <1>2
  <2> DEFINE d == q - p
  <2>2. d \in Int BY <1>1
  <2>3. CASE d >= 1
    <3> m * d >= m BY <2>2, <2>3, SMT
    <3> QED BY <2>1
  <2>4. CASE d <= 0 - 1
    <3> m * d <= 0 - m BY <2>2, <2>4, SMT
    <3> QED BY <2>1
  <2>5. QED BY <2>2, <2>3, <2>4
<1>4. QED
  BY <1>1, <1>2, <1>3

\* Numbers that differ by whole widths have one remainder.
LEMMA Congruent ==
  ASSUME NEW m \in Nat, m > 0, NEW x \in Int, NEW y \in Int, NEW k \in Int,
         x = y + m * k
  PROVE  x % m = y % m
<1> DEFINE p == y \div m
           s == y % m
<1>1. p \in Int /\ s \in 0 .. m - 1 /\ y = m * p + s
  BY SMT
<1>2. x = m * (p + k) + s
  <2> m * (p + k) = m * p + m * k BY <1>1, SMT
  <2> QED BY <1>1
<1>3. p + k \in Int BY <1>1
<1> HIDE DEF p, s
<1>4. x % m = s
  BY <1>1, <1>2, <1>3, Remainder
<1>5. QED
  BY <1>1, <1>4 DEF s

\* And the other way round.
LEMMA Apart ==
  ASSUME NEW m \in Nat, m > 0, NEW x \in Int, NEW y \in Int, x % m = y % m
  PROVE  \E k \in Int : x = y + m * k
<1> DEFINE p == x \div m
           q == y \div m
<1>1. p \in Int /\ q \in Int /\ x = m * p + (x % m) /\ y = m * q + (y % m)
  BY SMT
<1>2. m * (p - q) = m * p - m * q
  BY <1>1, SMT
<1>3. x = y + m * (p - q) /\ p - q \in Int
  BY <1>1, <1>2
<1>4. QED
  BY <1>3

\* Counting on keeps the remainders equal, and a whole width changes nothing.
LEMMA Shift ==
  ASSUME NEW m \in Nat, m > 0, NEW x \in Int, NEW y \in Int, x % m = y % m,
         NEW d \in Int
  PROVE  /\ (x + d) % m = (y + d) % m
         /\ (x + d + m) % m = (y + d) % m
         /\ (x + d - m) % m = (y + d) % m
<1>1. PICK k \in Int : x = y + m * k
  BY Apart
<1>2. x + d = (y + d) + m * k /\ m * k \in Int
  BY <1>1, SMT
<1>3. m * (k + 1) = m * k + m /\ m * (k - 1) = m * k - m
  BY <1>1, SMT
<1>4. x + d + m = (y + d) + m * (k + 1) /\ x + d - m = (y + d) + m * (k - 1)
  BY <1>1, <1>2, <1>3
<1>5. m \in Nat /\ m > 0
  OBVIOUS
<1> DEFINE u == x + d
           v == y + d
           w1 == x + d + m
           w2 == x + d - m
           k1 == k + 1
           k2 == k - 1
<1>6. /\ u \in Int /\ v \in Int /\ w1 \in Int /\ w2 \in Int
      /\ k \in Int /\ k1 \in Int /\ k2 \in Int
  BY <1>1
<1>7. u = v + m * k /\ w1 = v + m * k1 /\ w2 = v + m * k2
  BY <1>2, <1>4
<1> HIDE DEF u, v, w1, w2, k1, k2
<1>8. u % m = v % m
  <2>1. u \in Int /\ v \in Int /\ k \in Int /\ u = v + m * k
    BY <1>6, <1>7
  <2>2. QED
    BY <1>5, <2>1, Congruent, ZenonT(40)
<1>9. w1 % m = v % m
  <2>1. w1 \in Int /\ v \in Int /\ k1 \in Int /\ w1 = v + m * k1
    BY <1>6, <1>7
  <2>2. QED
    BY <1>5, <2>1, Congruent, ZenonT(40)
<1>10. w2 % m = v % m
  <2>1. w2 \in Int /\ v \in Int /\ k2 \in Int /\ w2 = v + m * k2
    BY <1>6, <1>7
  <2>2. QED
    BY <1>5, <2>1, Congruent, ZenonT(40)
<1>11. QED
  BY <1>8, <1>9, <1>10 DEF u, v, w1, w2

\* What x_rwqueue_len would return if both counters were read at once.
Counted == nr + nq + (IF rpc = "count" THEN 1 ELSE 0)
                   - (IF wpc = "count" THEN 1 ELSE 0)

LengthInv == (write_count - read_count) % CountMod = Counted % CountMod

LEMMA WriteCounts ==
  ASSUME IInv, LengthInv, WriteUnlockCount
  PROVE  LengthInv'
<1> USE CountAssumption DEF WriteUnlockCount, history
<1>1. write_count \in 0 .. CountMod - 1 /\ read_count \in 0 .. CountMod - 1
      /\ nr \in Nat /\ nq \in Nat
  BY DEF IInv, TypeOK
<1>2. Counted \in Int /\ Counted' = Counted + 1
  BY <1>1 DEF Counted
<1> DEFINE len == write_count - read_count
<1>3. len \in Int /\ len % CountMod = Counted % CountMod
  BY <1>1 DEF LengthInv
<1>4. /\ (len + 1) % CountMod = Counted' % CountMod
      /\ (len + 1 - CountMod) % CountMod = Counted' % CountMod
  <2> HIDE DEF len
  <2>1. 1 \in Int /\ Counted \in Int /\ CountMod \in Nat /\ CountMod > 0
    BY <1>2, CountAssumption
  <2>2. QED
    BY <1>2, <1>3, <2>1, Shift, Zenon
<1>5. CASE write_count + 1 < CountMod
  <2>1. write_count' - read_count' = len + 1
    BY <1>1, <1>5
  <2>2. QED
    BY <1>4, <2>1 DEF LengthInv
<1>6. CASE write_count + 1 = CountMod
  <2>1. write_count' = 0
    BY <1>1, <1>6
  <2>2. write_count' - read_count' = len + 1 - CountMod
    BY <1>1, <1>6, <2>1
  <2>3. QED
    BY <1>4, <2>2 DEF LengthInv
<1>7. QED
  BY <1>1, <1>5, <1>6

LEMMA ReadCounts ==
  ASSUME IInv, LengthInv, ReadUnlockCount
  PROVE  LengthInv'
<1> USE CountAssumption DEF ReadUnlockCount, history
<1>1. write_count \in 0 .. CountMod - 1 /\ read_count \in 0 .. CountMod - 1
      /\ nr \in Nat /\ nq \in Nat
  BY DEF IInv, TypeOK
<1>2. Counted \in Int /\ Counted' = Counted + (-1)
  BY <1>1 DEF Counted
<1> DEFINE len == write_count - read_count
<1>3. len \in Int /\ len % CountMod = Counted % CountMod
  BY <1>1 DEF LengthInv
<1>4. /\ (len + (-1)) % CountMod = Counted' % CountMod
      /\ (len + (-1) + CountMod) % CountMod = Counted' % CountMod
  <2> HIDE DEF len
  <2>1. (-1) \in Int /\ Counted \in Int /\ CountMod \in Nat /\ CountMod > 0
    BY <1>2, CountAssumption
  <2>2. QED
    BY <1>2, <1>3, <2>1, Shift, Zenon
<1>5. CASE read_count + 1 < CountMod
  <2>1. write_count' - read_count' = len + (-1)
    BY <1>1, <1>5
  <2>2. QED
    BY <1>4, <2>1 DEF LengthInv
<1>6. CASE read_count + 1 = CountMod
  <2>1. read_count' = 0
    BY <1>1, <1>6
  <2>2. write_count' - read_count' = len + (-1) + CountMod
    BY <1>1, <1>6, <2>1
  <2>3. QED
    BY <1>4, <2>2 DEF LengthInv
<1>7. QED
  BY <1>1, <1>5, <1>6

LEMMA LengthStep == IInv /\ LengthInv /\ [Next]_vars => LengthInv'
<1> SUFFICES ASSUME IInv, LengthInv, [Next]_vars PROVE LengthInv'
  OBVIOUS
<1>1. nr \in Nat /\ nq \in Nat /\ nr' \in Nat /\ nq' \in Nat
  BY NextStep DEF IInv, TypeOK
<1>2. ASSUME Counted' = Counted, UNCHANGED counts PROVE LengthInv'
  BY <1>2 DEF LengthInv, counts
<1>3. CASE WriterStep
  <2>1. CASE WriteUnlockCount
    BY <2>1, WriteCounts
  <2>2. CASE ~WriteUnlockCount
    <3> USE DEF Counted, counts, control, history
    <3>1. CASE WriteLockTest \/ WriteLockReady \/ WriteLockFail \/ WriteLockClaim
      BY <1>2, <3>1 DEF WriteLockTest, WriteLockReady, WriteLockFail, WriteLockClaim
    <3>2. ASSUME NEW n \in Node, WriteLockGrow(n) PROVE LengthInv'
      BY <1>2, <3>2 DEF WriteLockGrow
    <3>3. ASSUME NEW k \in Writing, NEW v \in Value, Fill(k, v) PROVE LengthInv'
      BY <1>2, <3>3 DEF Fill
    <3>4. CASE WriteUnlockReady
      BY <1>2, <3>4 DEF WriteUnlockReady
    <3>5. CASE WriteUnlockPublish
      BY <1>1, <1>2, <3>5 DEF WriteUnlockPublish
    <3>6. ASSUME NEW k \in Writing, WriteCancel(k) PROVE LengthInv'
      BY <1>2, <3>6 DEF WriteCancel
    <3>7. CASE ShrinkBegin \/ ShrinkFree \/ ShrinkStop \/ ShrinkRelink
      BY <1>2, <3>7 DEF ShrinkBegin, ShrinkFree, ShrinkStop, ShrinkRelink
    <3>8. CASE WriterUnref
      BY <1>2, <3>8 DEF WriterUnref, DropRef
    <3>9. QED
      BY <1>3, <2>2, <3>1, <3>2, <3>3, <3>4, <3>5, <3>6, <3>7, <3>8 DEF WriterStep
  <2>3. QED
    BY <2>1, <2>2
<1>4. CASE ReaderStep
  <2>1. CASE ReadUnlockCount
    BY <2>1, ReadCounts
  <2>2. CASE ~ReadUnlockCount
    <3> USE DEF Counted, counts, control, history
    <3>1. CASE ReadLockTest \/ ReadUnlockReady \/ ReaderUnref
      BY <1>2, <3>1 DEF ReadLockTest, ReadUnlockReady, ReaderUnref, DropRef
    <3>2. CASE ReadLockTake
      <4> HIDE DEF Counted
      <4>1. /\ rpc = "seen" /\ rpc' = "idle" /\ wpc' = wpc
            /\ UNCHANGED <<read_count, write_count>>
        BY <3>2 DEF ReadLockTake
      <4>2. nr' + nq' = nr + nq
        <5>1. CASE read_head \in ready
          BY <1>1, <3>2, <5>1 DEF ReadLockTake
        <5>2. CASE read_head \notin ready
          BY <3>2, <5>2 DEF ReadLockTake
        <5>3. QED
          BY <5>1, <5>2
      <4>3. Counted' = Counted
        BY <1>1, <4>1, <4>2 DEF Counted
      <4>4. QED
        BY <1>2, <4>1, <4>3
    <3>3. CASE ReadUnlockRelease
      BY <1>1, <1>2, <3>3 DEF ReadUnlockRelease
    <3>4. ASSUME NEW k \in 1 .. nr, ReadCancel(k) PROVE LengthInv'
      BY <1>1, <1>2, <3>4 DEF ReadCancel
    <3>5. QED
      BY <1>4, <2>2, <3>1, <3>2, <3>3, <3>4 DEF ReaderStep
  <2>3. QED
    BY <2>1, <2>2
<1>5. CASE Teardown
  BY <1>2, <1>5 DEF Teardown, DrainFree, DrainStop, DeleteNode, Counted, counts, history
<1>6. CASE UNCHANGED vars
  BY <1>2, <1>6 DEF vars, counts, control, history, Counted
<1>7. QED
  BY <1>3, <1>4, <1>5, <1>6 DEF Next

\* The length the two counters give is wrong by at most the one element that
\* either thread has moved and not yet counted, however often they wrap.
THEOREM LengthWithinOne == Spec => []LenWithinOne
<1>1. Init => LengthInv
  BY CountAssumption DEF Init, InitRing, LengthInv, Counted
<1>2. LengthInv => LenWithinOne
  BY DEF LengthInv, Counted, LenWithinOne
<1>3. Spec => []LengthInv
  <2>1. LengthInv /\ IInv /\ [Next]_vars => LengthInv'
    BY LengthStep
  <2>2. QED
    BY <1>1, <2>1, Inductive, PTL DEF Spec
<1>4. QED
  BY <1>2, <1>3, PTL

-----------------------------------------------------------------------------
(* OnceInit *)

\* The list of a thread that is initialising something ends in its newest.
LEMMA NewestIsMine ==
  ASSUME OnceTypeOK, NEW t \in Thread, tls[t] # << >>
  PROVE  /\ Len(tls[t]) \in Nat /\ Len(tls[t]) >= 1
         /\ Newest(t) \in Mine(t) /\ Newest(t) \in Location
<1>1. tls[t] \in Seq(Location)
  BY DEF OnceTypeOK
<1>2. Len(tls[t]) \in Nat /\ Len(tls[t]) >= 1
  BY <1>1, EmptySeq
<1>3. tls[t][Len(tls[t])] \in Location
  BY <1>1, <1>2, ElementOfSeq
<1>4. QED
  BY <1>2, <1>3 DEF Newest, Mine

LEMMA MineIsLocations ==
  ASSUME OnceTypeOK, NEW t \in Thread
  PROVE  Mine(t) \subseteq Location
BY ElementOfSeq DEF OnceTypeOK, Mine

LEMMA OnceStartStep == OnceStart => OnceIInv
<1> SUFFICES ASSUME OnceStart PROVE OnceIInv
  OBVIOUS
<1> USE DEF OnceStart
<1>1. \A t \in Thread : Len(tls[t]) = 0 /\ Mine(t) = {}
  <2> SUFFICES ASSUME NEW t \in Thread PROVE Len(tls[t]) = 0 /\ Mine(t) = {}
    OBVIOUS
  <2>1. tls[t] = << >>
    OBVIOUS
  <2>2. Len(tls[t]) = 0
    BY <2>1
  <2>3. 1 .. Len(tls[t]) = {}
    BY <2>2
  <2>4. QED
    BY <2>2, <2>3 DEF Mine
<1>2. OnceTypeOK
  BY EmptySeq DEF OnceTypeOK
<1>3. ListInv
  BY <1>1 DEF ListInv
<1>4. CountInv /\ PlaceInv
  BY DEF CountInv, PlaceInv
<1>5. QED
  BY <1>2, <1>3, <1>4 DEF OnceIInv

LEMMA EnterFirstStep ==
  ASSUME OnceIInv, NEW t \in Thread, EnterFirst(t)
  PROVE  OnceIInv'
<1> USE DEF EnterFirst, GoOn, OnceIInv
<1> DEFINE l == at[t]
<1>1. l \in Location /\ l \notin value /\ l \notin once
  BY DEF PlaceInv
<1>2. tls \in [Thread -> Seq(Location)]
  BY DEF OnceTypeOK
<1>3. /\ tls'[t] \in Seq(Location)
      /\ Len(tls'[t]) = Len(tls[t]) + 1
      /\ \A i \in 1 .. Len(tls[t]) : tls'[t][i] = tls[t][i]
      /\ tls'[t][Len(tls[t]) + 1] = l
  BY <1>1, <1>2, AppendProperties
<1>4. \A u \in Thread \ {t} : tls'[u] = tls[u] /\ Mine(u)' = Mine(u)
  BY <1>2 DEF Mine
<1>5. Len(tls[t]) \in Nat
  BY <1>2
<1>6. Mine(t)' = Mine(t) \cup {l}
  <2>1. Mine(t)' \subseteq Mine(t) \cup {l}
    BY <1>3, <1>5 DEF Mine
  <2>2. Mine(t) \subseteq Mine(t)'
    <3> SUFFICES ASSUME NEW i \in 1 .. Len(tls[t]) PROVE tls[t][i] \in Mine(t)'
      BY DEF Mine
    <3>1. i \in 1 .. Len(tls'[t]) /\ tls'[t][i] = tls[t][i]
      BY <1>3, <1>5
    <3>2. QED
      BY <3>1 DEF Mine
  <2>3. l \in Mine(t)'
    BY <1>3, <1>5 DEF Mine
  <2>4. QED
    BY <2>1, <2>2, <2>3
<1>7. OnceTypeOK'
  BY <1>1, <1>3 DEF OnceTypeOK
<1>8. ListInv'
  <2>1. \A i, j \in 1 .. Len(tls'[t]) : tls'[t][i] = tls'[t][j] => i = j
    <3>1. \A i \in 1 .. Len(tls[t]) : tls[t][i] # l
      BY <1>1 DEF ListInv, Mine
    <3>2. QED
      BY <1>3, <1>5, <3>1 DEF ListInv
  <2>2. \A u \in Thread : Mine(u)' \subseteq once'
    BY <1>4, <1>6 DEF ListInv
  <2>3. \A m \in once' : \E u \in Thread : m \in Mine(u)'
    <3> SUFFICES ASSUME NEW m \in once' PROVE \E u \in Thread : m \in Mine(u)'
      OBVIOUS
    <3>1. CASE m = l
      BY <1>6, <3>1
    <3>2. CASE m \in once
      <4>1. PICK u \in Thread : m \in Mine(u)
        BY <3>2 DEF ListInv
      <4>2. m \in Mine(u)'
        BY <1>4, <1>6, <4>1
      <4>3. QED
        BY <4>2
    <3>3. QED
      BY <3>1, <3>2
  <2>4. \A u, w \in Thread : u # w => Mine(u)' \cap Mine(w)' = {}
    BY <1>1, <1>4, <1>6 DEF ListInv
  <2>5. \A u \in Thread : \A i, j \in 1 .. Len(tls'[u]) :
          tls'[u][i] = tls'[u][j] => i = j
    BY <1>4, <2>1 DEF ListInv
  <2>6. QED
    BY <2>2, <2>3, <2>4, <2>5 DEF ListInv
<1>9. CountInv'
  BY <1>1 DEF CountInv, OnceTypeOK
<1>10. PlaceInv'
  BY <1>1, <1>4 DEF PlaceInv, OnceTypeOK, Newest
<1>11. QED
  BY <1>7, <1>8, <1>9, <1>10

LEMMA LeaveStep ==
  ASSUME OnceIInv, NEW t \in Thread, Leave(t)
  PROVE  OnceIInv'
<1> USE DEF Leave, OnceIInv
<1> DEFINE n == Len(tls[t])
<1>1. tls[t] # << >> /\ Newest(t) \in value
  BY DEF PlaceInv
<1>2. tls \in [Thread -> Seq(Location)]
  BY DEF OnceTypeOK
<1>3. n \in Nat /\ n >= 1 /\ Newest(t) \in Mine(t) /\ Newest(t) \in Location
  BY <1>1, NewestIsMine
<1>4. /\ tls'[t] \in Seq(Location)
      /\ Len(tls'[t]) = n - 1
      /\ \A i \in 1 .. n - 1 : tls'[t][i] = tls[t][i]
  <2>1. tls[t] \in Seq(Location) /\ tls'[t] = SubSeq(tls[t], 1, n - 1)
    BY <1>2
  <2>2. \A i \in 1 .. n - 1 : tls[t][i] \in Location
    BY <1>3, <2>1, ElementOfSeq
  <2>3. QED
    BY <1>3, <2>1, <2>2, SubSeqProperties
<1>5. \A u \in Thread \ {t} : tls'[u] = tls[u] /\ Mine(u)' = Mine(u)
  BY <1>2 DEF Mine
<1>6. Mine(t)' = Mine(t) \ {Newest(t)}
  <2>1. Mine(t)' \subseteq Mine(t)
    BY <1>3, <1>4 DEF Mine
  <2>2. Newest(t) \notin Mine(t)'
    BY <1>3, <1>4 DEF Mine, Newest, ListInv
  <2>3. \A m \in Mine(t) : m # Newest(t) => m \in Mine(t)'
    <3> SUFFICES ASSUME NEW i \in 1 .. n, tls[t][i] # Newest(t)
                 PROVE  tls[t][i] \in Mine(t)'
      BY DEF Mine
    <3>1. i \in 1 .. n - 1
      BY <1>3 DEF Newest
    <3>2. QED
      BY <1>4, <3>1 DEF Mine
  <2>4. QED
    BY <2>1, <2>2, <2>3
<1>7. OnceTypeOK'
  BY <1>4 DEF OnceTypeOK
<1>8. ListInv'
  <2>1. \A u \in Thread : \A i, j \in 1 .. Len(tls'[u]) :
          tls'[u][i] = tls'[u][j] => i = j
    BY <1>3, <1>4, <1>5 DEF ListInv
  <2>2. \A u \in Thread : Mine(u)' \subseteq once'
    BY <1>3, <1>5, <1>6 DEF ListInv
  <2>3. \A m \in once' : \E u \in Thread : m \in Mine(u)'
    <3> SUFFICES ASSUME NEW m \in once' PROVE \E u \in Thread : m \in Mine(u)'
      OBVIOUS
    <3>1. PICK u \in Thread : m \in Mine(u)
      BY DEF ListInv
    <3>2. m \in Mine(u)'
      BY <1>5, <1>6, <3>1
    <3>3. QED
      BY <3>2
  <2>4. \A u, w \in Thread : u # w => Mine(u)' \cap Mine(w)' = {}
    BY <1>5, <1>6 DEF ListInv
  <2>5. QED
    BY <2>1, <2>2, <2>3, <2>4 DEF ListInv
<1>9. CountInv'
  BY <1>1 DEF CountInv
<1>10. PlaceInv'
  <2> SUFFICES ASSUME NEW u \in Thread
               PROVE  /\ pc'[u] \in {"enter", "wait"} => at'[u] \in Location
                      /\ pc'[u] = "wait" => at'[u] \in value' \cup once'
                      /\ pc'[u] = "leave" => tls'[u] # << >> /\ Newest(u)' \in value'
    BY DEF PlaceInv
  <2>1. CASE u = t
    BY <2>1 DEF OnceTypeOK
  <2>2. CASE u # t
    BY <1>1, <1>5, <2>2 DEF PlaceInv, OnceTypeOK, Newest
  <2>3. QED
    BY <2>1, <2>2
<1>11. QED
  BY <1>7, <1>8, <1>9, <1>10

\* The other actions leave _once_slist and the threads' lists alone.
LEMMA OtherSteps ==
  ASSUME OnceIInv, NEW t \in Thread,
         \/ \E l \in Location : Ask(t, l)
         \/ EnterAgain(t) \/ EnterDone(t) \/ EnterWait(t) \/ WaitEnds(t)
         \/ Assign(t)
  PROVE  OnceIInv'
<1> USE DEF OnceIInv
<1>1. UNCHANGED <<once, tls, inits>>
  BY DEF Ask, EnterAgain, EnterDone, EnterWait, WaitEnds, Assign
<1>2. ListInv'
  <2>1. \A u \in Thread : Mine(u)' = Mine(u)
    BY <1>1 DEF Mine
  <2>2. \A u \in Thread : \A i, j \in 1 .. Len(tls'[u]) :
          tls'[u][i] = tls'[u][j] => i = j
    BY <1>1 DEF ListInv
  <2>3. QED
    BY <1>1, <2>1, <2>2 DEF ListInv
<1>3. ASSUME NEW l \in Location, Ask(t, l) PROVE OnceIInv'
  BY <1>1, <1>2, <1>3 DEF Ask, OnceTypeOK, CountInv, PlaceInv, Newest
<1>4. CASE EnterAgain(t)
  BY <1>1, <1>2, <1>4 DEF EnterAgain, GoOn, OnceTypeOK, CountInv, PlaceInv, Newest
<1>5. CASE EnterDone(t)
  BY <1>1, <1>2, <1>5 DEF EnterDone, GoOn, OnceTypeOK, CountInv, PlaceInv, Newest
<1>6. CASE EnterWait(t)
  BY <1>1, <1>2, <1>6 DEF EnterWait, OnceTypeOK, CountInv, PlaceInv, Newest
<1>7. CASE WaitEnds(t)
  <2>1. CASE UNCHANGED <<pc, at>>
    BY <1>1, <1>2, <1>7, <2>1 DEF WaitEnds, OnceTypeOK, CountInv, PlaceInv, Newest
  <2>2. CASE GoOn(t)
    BY <1>1, <1>2, <1>7, <2>2
       DEF WaitEnds, GoOn, OnceTypeOK, CountInv, PlaceInv, Newest
  <2>3. QED
    BY <1>7, <2>1, <2>2 DEF WaitEnds
<1>8. CASE Assign(t)
  <2>1. Newest(t) \in Mine(t) /\ Newest(t) \in Location
    BY <1>8, NewestIsMine DEF Assign
  <2>2. Newest(t) \in once
    BY <2>1 DEF ListInv
  <2>3. QED
    BY <1>1, <1>2, <1>8, <2>1, <2>2
       DEF Assign, OnceTypeOK, CountInv, PlaceInv, Newest
<1>9. QED
  BY <1>3, <1>4, <1>5, <1>6, <1>7, <1>8

LEMMA OnceNextStep == OnceIInv /\ [OnceNext]_once_vars => OnceIInv'
<1> SUFFICES ASSUME OnceIInv, [OnceNext]_once_vars PROVE OnceIInv'
  OBVIOUS
<1>1. CASE UNCHANGED once_vars
  <2> USE <1>1 DEF once_vars, OnceIInv
  <2>1. \A t \in Thread : Mine(t)' = Mine(t)
    BY DEF Mine
  <2>2. \A t \in Thread : \A i, j \in 1 .. Len(tls'[t]) :
          tls'[t][i] = tls'[t][j] => i = j
    BY DEF ListInv
  <2>3. ListInv'
    BY <2>1, <2>2 DEF ListInv
  <2>4. OnceTypeOK' /\ CountInv' /\ PlaceInv'
    BY DEF OnceTypeOK, CountInv, PlaceInv, Newest
  <2>5. QED
    BY <2>3, <2>4
<1>2. ASSUME NEW t \in Thread, Step(t) \/ \E l \in Location : Ask(t, l)
      PROVE  OnceIInv'
  BY <1>2, EnterFirstStep, LeaveStep, OtherSteps DEF Step, Enter
<1>3. QED
  BY <1>1, <1>2 DEF OnceNext

\* OnceIInv holds in every state.
THEOREM OnceInductive == OnceSpec => []OnceIInv
BY OnceStartStep, OnceNextStep, PTL DEF OnceSpec

\* Every location is initialised at most once and by one thread, whatever the
\* threads, the locations and what their initialisations need.
THEOREM InitialisedOnce == OnceSpec => []InitOnce
<1>1. OnceIInv => InitOnce
  BY DEF OnceIInv, InitOnce, CountInv, ListInv
<1>2. QED
  BY OnceInductive, <1>1, PTL

\* x_once_init_enter never says FALSE to a thread that then finds no value,
\* but for a location that the thread itself is initialising.
THEOREM FalseIsTrusted == OnceSpec => FalseMeansValue
<1>1. ASSUME OnceIInv, [OnceNext]_once_vars
      PROVE  [\A t \in Thread :
                pc[t] \in {"enter", "wait"} /\ pc'[t] = "run" =>
                  at[t] \in value \/ at[t] \in Mine(t)']_once_vars
  <2> SUFFICES ASSUME OnceNext, NEW t \in Thread,
                      pc[t] \in {"enter", "wait"}, pc'[t] = "run"
               PROVE  at[t] \in value \/ at[t] \in Mine(t)'
    BY <1>1
  <2> USE DEF OnceIInv
  <2>1. PICK u \in Thread : Step(u) \/ \E l \in Location : Ask(u, l)
    BY DEF OnceNext
  <2>2. u = t
    BY <1>1, <2>1 DEF Step, Enter, Ask, EnterAgain, EnterDone, EnterFirst,
       EnterWait, WaitEnds, Assign, Leave, GoOn, OnceTypeOK
  <2>3. EnterAgain(t) \/ EnterDone(t) \/ EnterFirst(t) \/ WaitEnds(t)
    BY <1>1, <2>1, <2>2 DEF Step, Enter, Ask, EnterWait, Assign, Leave, OnceTypeOK
  <2>4. CASE EnterAgain(t)
    BY <2>4 DEF EnterAgain, Mine
  <2>5. CASE EnterDone(t)
    BY <2>5 DEF EnterDone
  <2>6. CASE EnterFirst(t)
    <3>1. tls[t] \in Seq(Location) /\ at[t] \in Location
      BY <1>1 DEF OnceTypeOK, PlaceInv
    <3>2. tls'[t] = Append(tls[t], at[t])
      BY <1>1, <2>6 DEF EnterFirst, OnceTypeOK
    <3>3. /\ Len(tls'[t]) = Len(tls[t]) + 1 /\ Len(tls[t]) \in Nat
          /\ tls'[t][Len(tls[t]) + 1] = at[t]
      BY <3>1, <3>2, AppendProperties
    <3>4. QED
      BY <3>3 DEF Mine
  <2>7. CASE WaitEnds(t)
    BY <1>1, <2>7 DEF WaitEnds, PlaceInv, OnceTypeOK
  <2>8. QED
    BY <2>3, <2>4, <2>5, <2>6, <2>7
<1>2. QED
  BY OnceInductive, <1>1, PTL DEF OnceSpec, FalseMeansValue
=============================================================================
