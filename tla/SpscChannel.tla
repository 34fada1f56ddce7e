---------------------------- MODULE SpscChannel ----------------------------
(***************************************************************************)
(* What a single-writer, single-reader queue promises.  The contents are   *)
(* one sequence with two marks in it: the reader holds the first `taken`   *)
(* elements, the next `waiting` are published and wait for it, and what is *)
(* left is held by the writer, who still fills it.  Elements enter at the  *)
(* back, leave at the front, and nobody but the writer changes one.        *)
(***************************************************************************)
EXTENDS Naturals, Sequences

CONSTANT Value      \* what an element may hold

VARIABLES
  chan,             \* the elements, oldest first
  taken,            \* how many the reader holds
  waiting           \* how many are published and not yet taken

cvars == <<chan, taken, waiting>>

ChanTypeOK ==
  /\ chan \in Seq(Value)
  /\ taken \in Nat
  /\ waiting \in Nat
  /\ taken + waiting <= Len(chan)

\* The places of chan that the writer holds.
Pending == (taken + waiting + 1) .. Len(chan)

ChanInit == chan = << >> /\ taken = 0 /\ waiting = 0

\* The writer gets a place; what is in it is whatever was there before.
Claim(v) ==
  /\ chan' = Append(chan, v)
  /\ UNCHANGED <<taken, waiting>>

Write(k, v) ==
  /\ k \in Pending
  /\ chan' = [chan EXCEPT ![k] = v]
  /\ UNCHANGED <<taken, waiting>>

\* The oldest pending element becomes visible to the reader.
Publish ==
  /\ taken + waiting < Len(chan)
  /\ waiting' = waiting + 1
  /\ UNCHANGED <<chan, taken>>

\* The writer gives back the k-th element and every later one.
Withdraw(k) ==
  /\ k \in Pending
  /\ chan' = SubSeq(chan, 1, k - 1)
  /\ UNCHANGED <<taken, waiting>>

Take ==
  /\ waiting > 0
  /\ taken' = taken + 1
  /\ waiting' = waiting - 1
  /\ UNCHANGED chan

\* The reader gives back the k-th element it holds and every later one.
PutBack(k) ==
  /\ k \in 1 .. taken
  /\ taken' = k - 1
  /\ waiting' = waiting + (taken - (k - 1))
  /\ UNCHANGED chan

Release ==
  /\ taken > 0
  /\ chan' = Tail(chan)
  /\ taken' = taken - 1
  /\ UNCHANGED waiting

ChanNext ==
  \/ \E v \in Value : Claim(v)
  \/ \E k \in Pending, v \in Value : Write(k, v)
  \/ Publish
  \/ \E k \in Pending : Withdraw(k)
  \/ Take
  \/ \E k \in 1 .. taken : PutBack(k)
  \/ Release

ChanSpec == ChanInit /\ [][ChanNext]_cvars
=============================================================================
