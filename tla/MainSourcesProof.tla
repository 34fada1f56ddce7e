------------------------- MODULE MainSourcesProof -------------------------
(***************************************************************************)
(* Proofs about MainSources.                                               *)
(***************************************************************************)
EXTENDS MainSources, FiniteSetTheorems, SequenceTheorems, WellFoundedInduction, TLAPS

-----------------------------------------------------------------------------
(* Counting *)

\* A set that differs in p at most.
LEMMA Change ==
  ASSUME NEW S, IsFiniteSet(S), NEW R, NEW p, \A q : q # p => (q \in R <=> q \in S)
  PROVE  /\ IsFiniteSet(R) /\ Cardinality(S) \in Nat /\ Cardinality(R) \in Nat
         /\ Cardinality(R) = Cardinality(S) + Count(p \in R) - Count(p \in S)
<1>1. Cardinality(S) \in Nat
  BY FS_CardinalityType
<1>2. CASE p \in R /\ p \notin S
  <2>1. R = S \cup {p}
    BY <1>2
  <2>2. IsFiniteSet(R) /\ Cardinality(R) = Cardinality(S) + 1
    BY <1>2, <2>1, FS_AddElement
  <2>3. QED
    BY <1>1, <1>2, <2>2 DEF Count
<1>3. CASE p \notin R /\ p \in S
  <2>1. R = S \ {p}
    BY <1>3
  <2>2. IsFiniteSet(R) /\ Cardinality(R) = Cardinality(S) - 1
    BY <1>3, <2>1, FS_RemoveElement
  <2>3. Cardinality(R) \in Nat
    BY <2>2, FS_CardinalityType
  <2>4. QED
    BY <1>1, <1>3, <2>2, <2>3 DEF Count
<1>4. CASE p \in R <=> p \in S
  <2>1. R = S
    BY <1>4
  <2>2. QED
    BY <1>1, <1>4, <2>1 DEF Count
<1>5. QED
  BY <1>2, <1>3, <1>4

\* The places of a sequence that hold s.
Places(list, s) == {i \in 1 .. Len(list) : list[i] = s}

LEMMA PlacesFinite ==
  ASSUME NEW list, Len(list) \in Nat, NEW s
  PROVE  /\ IsFiniteSet(Places(list, s)) /\ Cardinality(Places(list, s)) \in Nat
         /\ Cardinality(Places(list, s)) = 0 <=> \A i \in 1 .. Len(list) : list[i] # s
<1>1. IsFiniteSet(1 .. Len(list))
  BY FS_Interval
<1>2. IsFiniteSet(Places(list, s))
  BY <1>1, FS_Subset DEF Places
<1>3. Cardinality(Places(list, s)) \in Nat
  BY <1>2, FS_CardinalityType
<1>4. Cardinality(Places(list, s)) = 0 <=> Places(list, s) = {}
  BY <1>2, FS_EmptySet
<1>5. QED
  BY <1>2, <1>3, <1>4 DEF Places


LEMMA PendingIs ==
  ASSUME TypeOK, NEW s
  PROVE  /\ Pending(s) = Cardinality(Places(dispatches, s)) /\ Pending(s) \in Nat
         /\ Pending(s) = 0 <=> \A i \in 1 .. Len(dispatches) : dispatches[i] # s
<1>1. Len(dispatches) \in Nat /\ DOMAIN dispatches = 1 .. Len(dispatches)
  BY DEF TypeOK
<1>2. Pending(s) = Cardinality(Places(dispatches, s))
  BY <1>1 DEF Pending, Places
<1>3. QED
  BY <1>1, <1>2, PlacesFinite

InPlaces(s) == {i \in DOMAIN calls : calls[i].source = s}

LEMMA InCallsIs ==
  ASSUME TypeOK, NEW s
  PROVE  /\ InCalls(s) = Cardinality(InPlaces(s)) /\ InCalls(s) \in Nat
         /\ IsFiniteSet(InPlaces(s))
         /\ InCalls(s) = 0 <=> \A i \in 1 .. Len(calls) : calls[i].source # s
<1>1. Len(calls) \in Nat /\ DOMAIN calls = 1 .. Len(calls)
  BY DEF TypeOK
<1>2. IsFiniteSet(1 .. Len(calls))
  BY <1>1, FS_Interval
<1>3. IsFiniteSet(InPlaces(s))
  BY <1>1, <1>2, FS_Subset DEF InPlaces
<1>4. InCalls(s) = Cardinality(InPlaces(s))
  BY DEF InCalls, InPlaces
<1>5. Cardinality(InPlaces(s)) \in Nat /\ (Cardinality(InPlaces(s)) = 0 <=> InPlaces(s) = {})
  BY <1>3, FS_CardinalityType, FS_EmptySet
<1>6. QED
  BY <1>1, <1>3, <1>4, <1>5 DEF InPlaces

\* dispatches changes in one place.
LEMMA PendingChange ==
  ASSUME TypeOK, dispatches' \in Seq(Source \cup {None}), NEW k \in 1 .. Len(dispatches) + 1,
         Len(dispatches) <= Len(dispatches'), Len(dispatches') <= Len(dispatches) + 1,
         Len(dispatches') = Len(dispatches) + 1 => k = Len(dispatches'),
         \A i \in 1 .. Len(dispatches) : i # k => dispatches'[i] = dispatches[i],
         NEW s
  PROVE  /\ Pending(s)' \in Nat
         /\ Pending(s)' = Pending(s)
              + Count(k \in 1 .. Len(dispatches') /\ dispatches'[k] = s)
              - Count(k \in 1 .. Len(dispatches) /\ dispatches[k] = s)
<1>1. Len(dispatches) \in Nat /\ Len(dispatches') \in Nat /\ DOMAIN dispatches' = 1 .. Len(dispatches')
  BY DEF TypeOK
<1>2. Pending(s) = Cardinality(Places(dispatches, s)) /\ IsFiniteSet(Places(dispatches, s))
  BY <1>1, PendingIs, PlacesFinite
<1>3. Pending(s)' = Cardinality(Places(dispatches', s))
  BY <1>1 DEF Pending, Places
<1>4. \A i : i # k => (i \in 1 .. Len(dispatches') <=> i \in 1 .. Len(dispatches))
  <2>1. PICK n \in Nat, m \in Nat : n = Len(dispatches) /\ m = Len(dispatches')
    BY <1>1
  <2>2. m = n \/ (m = n + 1 /\ k = m)
    BY <2>1
  <2>3. \A i : i # k => (i \in 1 .. m <=> i \in 1 .. n)
    BY <2>2
  <2>4. QED
    BY <2>1, <2>3
<1>5. \A i : i # k => (i \in Places(dispatches', s) <=> i \in Places(dispatches, s))
  BY <1>4 DEF Places
<1>6. /\ Cardinality(Places(dispatches', s)) \in Nat
      /\ Cardinality(Places(dispatches', s)) = Cardinality(Places(dispatches, s))
           + Count(k \in Places(dispatches', s)) - Count(k \in Places(dispatches, s))
  BY <1>2, <1>5, Change
<1>7. /\ k \in Places(dispatches', s) <=> k \in 1 .. Len(dispatches') /\ dispatches'[k] = s
      /\ k \in Places(dispatches, s) <=> k \in 1 .. Len(dispatches) /\ dispatches[k] = s
  BY DEF Places
<1>8. QED
  BY <1>2, <1>3, <1>6, <1>7

LEMMA PendingAppended ==
  ASSUME TypeOK, NEW t \in Source, dispatches' = Append(dispatches, t), NEW s
  PROVE  Pending(s)' = Pending(s) + Count(s = t)
<1>1. PICK n \in Nat : n = Len(dispatches)
  BY DEF TypeOK
<1>2. /\ dispatches' \in Seq(Source \cup {None}) /\ Len(dispatches') = n + 1
      /\ dispatches'[n + 1] = t /\ \A i \in 1 .. n : dispatches'[i] = dispatches[i]
  BY <1>1, AppendProperties DEF TypeOK
<1>3. n + 1 \in 1 .. Len(dispatches) + 1 /\ n + 1 \notin 1 .. n /\ n + 1 \in 1 .. n + 1
  BY <1>1
<1>4. Pending(s)' = Pending(s) + Count(n + 1 \in 1 .. Len(dispatches') /\ dispatches'[n + 1] = s)
        - Count(n + 1 \in 1 .. Len(dispatches) /\ dispatches[n + 1] = s)
  BY <1>1, <1>2, <1>3, PendingChange
<1>5. Pending(s) \in Nat
  BY PendingIs
<1>6. /\ Count(n + 1 \in 1 .. Len(dispatches') /\ dispatches'[n + 1] = s) = Count(s = t)
      /\ Count(n + 1 \in 1 .. Len(dispatches) /\ dispatches[n + 1] = s) = 0
  BY <1>1, <1>2, <1>3 DEF Count
<1>7. QED
  BY <1>4, <1>5, <1>6 DEF Count

LEMMA PendingTaken ==
  ASSUME TypeOK, NEW k \in 1 .. Len(dispatches), dispatches' = [dispatches EXCEPT ![k] = None],
         None \notin Source, NEW s \in Source
  PROVE  Pending(s)' = Pending(s) - Count(s = dispatches[k])
<1>1. PICK n \in Nat : n = Len(dispatches)
  BY DEF TypeOK
<1>2. /\ dispatches' \in Seq(Source \cup {None}) /\ Len(dispatches') = n
      /\ dispatches'[k] = None /\ \A i \in 1 .. n : i # k => dispatches'[i] = dispatches[i]
  BY <1>1, ExceptSeq DEF TypeOK
<1>3. Pending(s)' = Pending(s) + Count(k \in 1 .. Len(dispatches') /\ dispatches'[k] = s)
        - Count(k \in 1 .. Len(dispatches) /\ dispatches[k] = s)
  BY <1>1, <1>2, PendingChange
<1>4. Pending(s) \in Nat
  BY PendingIs
<1>5. /\ Count(k \in 1 .. Len(dispatches') /\ dispatches'[k] = s) = 0
      /\ Count(k \in 1 .. Len(dispatches) /\ dispatches[k] = s) = Count(s = dispatches[k])
  BY <1>1, <1>2 DEF Count
<1>6. QED
  BY <1>3, <1>4, <1>5 DEF Count

LEMMA PendingEmpty ==
  ASSUME dispatches' = << >>, NEW s
  PROVE  Pending(s)' = 0
<1>1. Pending(s)' = Cardinality({})
  BY DEF Pending
<1>2. QED
  BY <1>1, FS_EmptySet

LEMMA CallsAppended ==
  ASSUME TypeOK, NEW c \in [source : Source, next : Nat], calls' = Append(calls, c), NEW s
  PROVE  InCalls(s)' = InCalls(s) + Count(s = c.source)
<1>1. PICK n \in Nat : n = Len(calls)
  BY DEF TypeOK
<1>2. /\ calls' \in Seq([source : Source, next : Nat]) /\ Len(calls') = n + 1
      /\ calls'[n + 1] = c /\ \A i \in 1 .. n : calls'[i] = calls[i]
  BY <1>1, AppendProperties DEF TypeOK
<1>3. DOMAIN calls = 1 .. n /\ DOMAIN calls' = 1 .. n + 1
  BY <1>1, <1>2 DEF TypeOK
<1>4. /\ \A i : i # n + 1 => (i \in InPlaces(s)' <=> i \in InPlaces(s))
      /\ n + 1 \in InPlaces(s)' <=> s = c.source
      /\ n + 1 \notin InPlaces(s)
  BY <1>1, <1>2, <1>3 DEF InPlaces
<1>5. /\ Cardinality(InPlaces(s)) \in Nat
      /\ Cardinality(InPlaces(s)') = Cardinality(InPlaces(s))
           + Count(n + 1 \in InPlaces(s)') - Count(n + 1 \in InPlaces(s))
  BY <1>4, InCallsIs, Change
<1>6. InCalls(s) = Cardinality(InPlaces(s)) /\ InCalls(s)' = Cardinality(InPlaces(s)')
  BY DEF InCalls, InPlaces
<1>7. QED
  BY <1>4, <1>5, <1>6 DEF Count

LEMMA CallsLeft ==
  ASSUME TypeOK, calls # << >>, calls' = SubSeq(calls, 1, Len(calls) - 1), NEW s
  PROVE  /\ calls' \in Seq([source : Source, next : Nat])
         /\ InCalls(s)' = InCalls(s) - Count(s = Call.source)
<1>1. PICK n \in Nat \ {0} : n = Len(calls)
  BY DEF TypeOK
<1>2. \A i \in 1 .. n - 1 : calls[i] \in [source : Source, next : Nat]
  <2>1. \A i \in 1 .. n - 1 : i \in 1 .. Len(calls)
    BY <1>1
  <2>2. calls \in Seq([source : Source, next : Nat])
    BY DEF TypeOK
  <2>3. QED
    BY <2>1, <2>2, ElementOfSeq
<1>3. /\ calls' \in Seq([source : Source, next : Nat]) /\ Len(calls') = n - 1
      /\ \A i \in 1 .. n - 1 : calls'[i] = calls[i]
  BY <1>1, <1>2, SubSeqProperties
<1>4. DOMAIN calls = 1 .. n /\ DOMAIN calls' = 1 .. n - 1 /\ Call = calls[n]
  BY <1>1, <1>3 DEF TypeOK, Call
<1>5. /\ \A i : i # n => (i \in InPlaces(s)' <=> i \in InPlaces(s))
      /\ n \notin InPlaces(s)'
      /\ n \in InPlaces(s) <=> s = Call.source
  BY <1>1, <1>3, <1>4 DEF InPlaces
<1>6. /\ Cardinality(InPlaces(s)) \in Nat
      /\ Cardinality(InPlaces(s)') = Cardinality(InPlaces(s))
           + Count(n \in InPlaces(s)') - Count(n \in InPlaces(s))
  BY <1>5, InCallsIs, Change
<1>7. InCalls(s) = Cardinality(InPlaces(s)) /\ InCalls(s)' = Cardinality(InPlaces(s)')
  BY DEF InCalls, InPlaces
<1>8. QED
  BY <1>3, <1>5, <1>6, <1>7 DEF Count

-----------------------------------------------------------------------------
(* Lists *)

Distinct(list) == \A i, j \in 1 .. Len(list) : list[i] = list[j] => i = j

\* The list has the members of S, each in one place.
Lists(list, S) ==
  /\ list \in Seq(Source) /\ Distinct(list)
  /\ \A s : (\E i \in 1 .. Len(list) : list[i] = s) <=> s \in S

\* In the list, r comes before s.
InOrder(list, r, s) == \E i, j \in 1 .. Len(list) : i < j /\ list[i] = r /\ list[j] = s

LEMMA IndexOf ==
  ASSUME NEW list \in Seq(Source), NEW s, \E i \in 1 .. Len(list) : list[i] = s
  PROVE  IndexIn(list, s) \in 1 .. Len(list) /\ list[IndexIn(list, s)] = s
<1>1. DOMAIN list = 1 .. Len(list)
  OBVIOUS
<1>2. QED
  BY <1>1 DEF IndexIn

\* The list without entry k.
Skip(k, i) == IF i < k THEN i ELSE i + 1

LEMMA Spliced ==
  ASSUME NEW list \in Seq(Source), NEW k \in 1 .. Len(list), NEW s, k = IndexIn(list, s)
  PROVE  /\ Without(list, s) \in Seq(Source)
         /\ Len(Without(list, s)) = Len(list) - 1
         /\ \A i \in 1 .. Len(list) - 1 : Without(list, s)[i] = list[Skip(k, i)]
<1>1. PICK n \in Nat : n = Len(list)
  OBVIOUS
<1> DEFINE front == SubSeq(list, 1, k - 1)
           back == SubSeq(list, k + 1, n)
           rest == Without(list, s)
<1>2. rest = front \o back
  BY <1>1 DEF Without
<1> HIDE DEF rest
<1>3. \A i \in 1 .. n : list[i] \in Source
  BY <1>1, ElementOfSeq
<1>4. k \in 1 .. n
  BY <1>1
<1>5. /\ front \in Seq(Source) /\ Len(front) = k - 1
      /\ \A i \in 1 .. k - 1 : front[i] = list[i]
  <2>1. \A i \in 1 .. k - 1 : list[i] \in Source
    BY <1>3, <1>4
  <2>2. QED
    BY <1>4, <2>1, SubSeqProperties
<1>6. /\ back \in Seq(Source) /\ Len(back) = n - k
      /\ \A i \in 1 .. n - k : back[i] = list[k + i]
  <2>1. /\ back \in Seq(Source)
        /\ Len(back) = IF k + 1 <= n THEN n - (k + 1) + 1 ELSE 0
        /\ \A i \in 1 .. n - (k + 1) + 1 : back[i] = list[(k + 1) + i - 1]
    <3>1. k + 1 \in Int /\ n \in Int
      BY <1>1, <1>4
    <3>2. \A i \in k + 1 .. n : list[i] \in Source
      BY <1>3, <1>4
    <3>3. QED
      BY <3>1, <3>2, SubSeqProperties
  <2> HIDE DEF back
  <2>2. /\ n - (k + 1) + 1 = n - k
        /\ Len(back) = n - k
        /\ \A i \in 1 .. n - k : (k + 1) + i - 1 = k + i
    BY <1>4, <2>1
  <2>3. QED
    BY <2>1, <2>2
<1> HIDE DEF front, back
<1>7. /\ rest \in Seq(Source) /\ Len(rest) = Len(front) + Len(back)
      /\ \A i \in 1 .. Len(front) + Len(back) :
           rest[i] = IF i <= Len(front) THEN front[i] ELSE back[i - Len(front)]
  <2>1. front \in Seq(Source) /\ back \in Seq(Source)
    BY <1>5, <1>6
  <2>2. QED
    BY <1>2, <2>1, ConcatProperties
<1>8. Len(front) + Len(back) = n - 1
  BY <1>4, <1>5, <1>6
<1>9. ASSUME NEW i \in 1 .. n - 1
      PROVE  rest[i] = list[Skip(k, i)]
  <2>1. CASE i < k
    <3>1. i <= Len(front) /\ i \in 1 .. k - 1
      BY <1>4, <1>5, <2>1
    <3>2. QED
      BY <1>5, <1>7, <1>8, <2>1, <3>1 DEF Skip
  <2>2. CASE ~ (i < k)
    <3>1. ~ (i <= Len(front)) /\ i - Len(front) \in 1 .. n - k /\ k + (i - Len(front)) = i + 1
      BY <1>4, <1>5, <2>2
    <3>2. QED
      BY <1>6, <1>7, <1>8, <2>2, <3>1 DEF Skip
  <2>3. QED
    BY <2>1, <2>2
<1>10. QED
  BY <1>1, <1>7, <1>8, <1>9 DEF rest

LEMMA WithoutIs ==
  ASSUME NEW list, NEW S, Lists(list, S), NEW s \in S
  PROVE  /\ Lists(Without(list, s), S \ {s})
         /\ \A q, r : q # s /\ r # s /\ InOrder(list, q, r) => InOrder(Without(list, s), q, r)
<1>1. list \in Seq(Source) /\ Distinct(list) /\ \E i \in 1 .. Len(list) : list[i] = s
  BY DEF Lists
<1>2. PICK n \in Nat : n = Len(list)
  BY <1>1
<1>3. PICK k \in 1 .. n : k = IndexIn(list, s) /\ list[k] = s
  BY <1>1, <1>2, IndexOf
<1>4. PICK rest : rest = Without(list, s)
  OBVIOUS
<1>5. /\ rest \in Seq(Source) /\ Len(rest) = n - 1
      /\ \A i \in 1 .. n - 1 : rest[i] = list[Skip(k, i)]
  BY <1>1, <1>2, <1>3, <1>4, Spliced
<1>6. \A i \in 1 .. n - 1 : Skip(k, i) \in 1 .. n /\ Skip(k, i) # k
  BY <1>3 DEF Skip
<1>7. \A i, j \in 1 .. n - 1 : /\ Skip(k, i) = Skip(k, j) => i = j
                               /\ Skip(k, i) < Skip(k, j) => i < j
  BY <1>3 DEF Skip
<1>8. \A j \in 1 .. n : j # k => \E i \in 1 .. n - 1 : j = Skip(k, i)
  <2>1. SUFFICES ASSUME NEW j \in 1 .. n, j # k
                 PROVE  \E i \in 1 .. n - 1 : j = Skip(k, i)
    OBVIOUS
  <2>2. CASE j < k
    BY <1>3, <2>1, <2>2 DEF Skip
  <2>3. CASE j > k
    <3>1. j - 1 \in 1 .. n - 1 /\ j = Skip(k, j - 1)
      BY <1>3, <2>1, <2>3 DEF Skip
    <3>2. QED
      BY <3>1
  <2>4. QED
    BY <1>3, <2>1, <2>2, <2>3
<1>9. \A i, j \in 1 .. n : list[i] = list[j] => i = j
  BY <1>1, <1>2 DEF Distinct
<1>10. Distinct(rest)
  <2>1. SUFFICES ASSUME NEW i \in 1 .. n - 1, NEW j \in 1 .. n - 1, rest[i] = rest[j]
                 PROVE  i = j
    BY <1>5 DEF Distinct
  <2>2. Skip(k, i) = Skip(k, j)
    BY <1>5, <1>6, <1>9, <2>1
  <2>3. QED
    BY <1>7, <2>2
<1>11. ASSUME NEW r
       PROVE  (\E i \in 1 .. n - 1 : rest[i] = r) <=> r \in S \ {s}
  <2>1. CASE \E i \in 1 .. n - 1 : rest[i] = r
    <3>1. PICK i \in 1 .. n - 1 : rest[i] = r
      BY <2>1
    <3>2. list[Skip(k, i)] = r /\ Skip(k, i) \in 1 .. n /\ r # s
      BY <1>3, <1>5, <1>6, <1>9, <3>1
    <3>3. r \in S
      BY <1>2, <3>2 DEF Lists
    <3>4. QED
      BY <2>1, <3>2, <3>3
  <2>2. CASE r \in S \ {s}
    <3>1. PICK j \in 1 .. n : list[j] = r
      BY <1>2, <2>2 DEF Lists
    <3>2. PICK i \in 1 .. n - 1 : j = Skip(k, i)
      BY <1>3, <1>8, <2>2, <3>1
    <3>3. QED
      BY <1>5, <2>2, <3>1, <3>2
  <2>3. QED
    BY <2>1, <2>2
<1>12. Lists(rest, S \ {s})
  BY <1>5, <1>10, <1>11 DEF Lists
<1>13. ASSUME NEW q, NEW r, q # s, r # s, InOrder(list, q, r)
       PROVE  InOrder(rest, q, r)
  <2>1. PICK i \in 1 .. n, j \in 1 .. n : i < j /\ list[i] = q /\ list[j] = r
    BY <1>2, <1>13 DEF InOrder
  <2>2. PICK a \in 1 .. n - 1 : i = Skip(k, a)
    BY <1>3, <1>8, <1>13, <2>1
  <2>3. PICK b \in 1 .. n - 1 : j = Skip(k, b)
    BY <1>3, <1>8, <1>13, <2>1
  <2>4. a < b /\ rest[a] = q /\ rest[b] = r
    BY <1>5, <1>7, <2>1, <2>2, <2>3
  <2>5. QED
    BY <1>5, <2>4 DEF InOrder
<1>14. QED
  BY <1>4, <1>12, <1>13

LEMMA AppendIs ==
  ASSUME NEW list, NEW S, Lists(list, S), NEW s \in Source, s \notin S
  PROVE  /\ Lists(Append(list, s), S \cup {s})
         /\ \A q, r : InOrder(list, q, r) => InOrder(Append(list, s), q, r)
<1>1. PICK n \in Nat : n = Len(list)
  BY DEF Lists
<1>2. PICK more : more = Append(list, s)
  OBVIOUS
<1>3. /\ more \in Seq(Source) /\ Len(more) = n + 1 /\ more[n + 1] = s
      /\ \A i \in 1 .. n : more[i] = list[i]
  BY <1>1, <1>2, AppendProperties DEF Lists
<1>4. \A i \in 1 .. n : list[i] # s
  BY <1>1 DEF Lists
<1>5. Distinct(more)
  <2>1. SUFFICES ASSUME NEW i \in 1 .. n + 1, NEW j \in 1 .. n + 1, more[i] = more[j]
                 PROVE  i = j
    BY <1>3 DEF Distinct
  <2>2. (i \in 1 .. n \/ i = n + 1) /\ (j \in 1 .. n \/ j = n + 1)
    OBVIOUS
  <2>3. CASE i \in 1 .. n /\ j \in 1 .. n
    BY <1>1, <1>3, <2>1, <2>3 DEF Lists, Distinct
  <2>4. QED
    BY <1>3, <1>4, <2>1, <2>2, <2>3
<1>6. ASSUME NEW r
      PROVE  (\E i \in 1 .. n + 1 : more[i] = r) <=> r \in S \cup {s}
  <2>1. (\E i \in 1 .. n : list[i] = r) <=> r \in S
    BY <1>1 DEF Lists
  <2>2. \A i : i \in 1 .. n + 1 <=> i \in 1 .. n \/ i = n + 1
    OBVIOUS
  <2>3. QED
    BY <1>3, <2>1, <2>2
<1>7. ASSUME NEW q, NEW r, InOrder(list, q, r)
      PROVE  InOrder(more, q, r)
  <2>1. PICK i \in 1 .. n, j \in 1 .. n : i < j /\ list[i] = q /\ list[j] = r
    BY <1>1, <1>7 DEF InOrder
  <2>2. i \in 1 .. n + 1 /\ j \in 1 .. n + 1
    BY <2>1
  <2>3. QED
    BY <1>3, <2>1, <2>2 DEF InOrder
<1>8. QED
  BY <1>2, <1>3, <1>5, <1>6, <1>7 DEF Lists

-----------------------------------------------------------------------------
(* The invariant's parts *)

\* Whoever is listed under p.
Listed(p) == {s \in Source : src[s].state = "live" /\ src[s].priority = p}

LEMMA ListsAre ==
  ASSUME TypeOK
  PROVE  ListInv <=> \A p \in Priority : Lists(lists[p], Listed(p))
<1>1. \A p \in Priority : lists[p] \in Seq(Source)
  BY DEF TypeOK
<1>2. ASSUME NEW p \in Priority
      PROVE  Lists(lists[p], Listed(p)) <=>
               /\ \A i, j \in 1 .. Len(lists[p]) : lists[p][i] = lists[p][j] => i = j
               /\ \A s \in Source : (\E i \in 1 .. Len(lists[p]) : lists[p][i] = s) <=>
                    src[s].state = "live" /\ src[s].priority = p
  <2>1. \A i \in 1 .. Len(lists[p]) : lists[p][i] \in Source
    BY <1>1, ElementOfSeq
  <2>2. QED
    BY <1>1, <2>1 DEF Lists, Distinct, Listed
<1>3. QED
  BY <1>2 DEF ListInv

\* The fields of a source.
Rec == [state : {"new", "live", "freed"}, refs : Nat, priority : Priority, active : BOOLEAN,
        ready : BOOLEAN]

LEMMA Fields ==
  ASSUME TypeOK, NEW s \in Source
  PROVE  /\ src[s] \in Rec /\ src[s].state \in {"new", "live", "freed"}
         /\ src[s].refs \in Nat /\ src[s].priority \in Priority
         /\ src[s].active \in BOOLEAN /\ src[s].ready \in BOOLEAN
BY DEF TypeOK, Rec

\* Who is referenced is live.
LEMMA HeldIsLive ==
  ASSUME TypeOK, CountInv, NEW s \in Source,
         \/ s \in held \/ iter.source = s
         \/ \E i \in 1 .. Len(dispatches) : dispatches[i] = s
         \/ \E i \in 1 .. Len(calls) : calls[i].source = s
  PROVE  src[s].state = "live" /\ src[s].refs > 0
<1>1. Pending(s) \in Nat /\ InCalls(s) \in Nat
  BY PendingIs, InCallsIs
<1>2. \/ Count(s \in held) = 1 \/ Count(iter.source = s) = 1
      \/ Pending(s) # 0 \/ InCalls(s) # 0
  BY PendingIs, InCallsIs DEF Count
<1>3. /\ src[s].refs = Count(s \in held) + Count(iter.source = s) + Pending(s)
           + InCalls(s) + Count(Owned(s))
      /\ src[s].state = "live" <=> src[s].refs > 0
  BY DEF CountInv
<1>4. /\ Count(s \in held) \in {0, 1} /\ Count(iter.source = s) \in {0, 1}
      /\ Count(Owned(s)) \in {0, 1}
  BY DEF Count
<1>5. src[s].refs > 0
  <2>1. PICK a \in {0, 1}, b \in {0, 1}, c \in {0, 1} :
          a = Count(s \in held) /\ b = Count(iter.source = s) /\ c = Count(Owned(s))
    BY <1>4
  <2>2. PICK m \in Nat, n \in Nat : m = Pending(s) /\ n = InCalls(s)
    BY <1>1
  <2>3. a = 1 \/ b = 1 \/ m # 0 \/ n # 0
    BY <1>2, <2>1, <2>2
  <2>4. a + b + m + n + c > 0
    BY <2>3
  <2>5. QED
    BY <1>3, <2>1, <2>2, <2>4
<1>6. QED
  BY <1>3, <1>5

LEMMA CallIs ==
  ASSUME TypeOK, calls # << >>
  PROVE  /\ Call \in [source : Source, next : Nat]
         /\ Len(calls) \in 1 .. Len(calls) /\ calls[Len(calls)] = Call
<1>1. calls \in Seq([source : Source, next : Nat])
  BY DEF TypeOK
<1>2. PICK n \in Nat : n = Len(calls)
  BY <1>1
<1>3. n \in 1 .. n
  BY <1>1, <1>2
<1>4. calls[n] \in [source : Source, next : Nat]
  BY <1>1, <1>2, <1>3, ElementOfSeq
<1>5. QED
  BY <1>2, <1>3, <1>4 DEF Call

\* The references of s, but those of the context, are at least those named.
Sum(s) == Count(s \in held) + Count(iter.source = s) + Pending(s) + InCalls(s) + Count(Owned(s))

LEMMA Sums ==
  ASSUME TypeOK, CountInv, NEW s \in Source
  PROVE  /\ src[s].refs = Sum(s) /\ Sum(s) \in Nat
         /\ src[s].state = "live" <=> src[s].refs > 0
         /\ src[s].state = "new" => src[s].active
         /\ Pending(s) \in Nat /\ InCalls(s) \in Nat
<1>1. Pending(s) \in Nat /\ InCalls(s) \in Nat
  BY PendingIs, InCallsIs
<1>2. /\ Count(s \in held) \in Nat /\ Count(iter.source = s) \in Nat /\ Count(Owned(s)) \in Nat
  BY DEF Count
<1>3. QED
  BY <1>1, <1>2 DEF CountInv, Sum

-----------------------------------------------------------------------------
(* SOURCE_UNREF *)

\* The source loses n references, and is freed with the last.
Less(s, n) ==
  /\ src'[s].refs = src[s].refs - n
  /\ src'[s].state = IF src[s].refs > n THEN "live" ELSE "freed"
  /\ src'[s].priority = src[s].priority
  /\ src'[s].active = src[s].active /\ src'[s].ready = src[s].ready
  /\ \A r \in Source : r # s => src'[r] = src[r]

LEMMA UnrefIs ==
  ASSUME TypeOK, ListInv, NEW s \in Source, NEW n \in Nat, n <= src[s].refs,
         src[s].state = "live", Unref(s, n)
  PROVE  /\ src' \in [Source -> Rec] /\ lists' \in [Priority -> Seq(Source)]
         /\ ListInv' /\ Less(s, n)
         /\ \A p \in Priority : \A q, r : q # s /\ r # s /\ InOrder(lists[p], q, r) =>
              InOrder(lists'[p], q, r)
<1>1. src \in [Source -> Rec] /\ lists \in [Priority -> Seq(Source)] /\ src[s].priority \in Priority
  BY Fields DEF TypeOK, Rec
<1>2. src[s].refs - n \in Nat
  BY Fields
<1>3. src' \in [Source -> Rec] /\ Less(s, n)
  <2>1. CASE src[s].refs > n
    <3>1. src' = [src EXCEPT ![s].refs = @ - n]
      BY <2>1 DEF Unref
    <3>2. QED
      BY <1>1, <1>2, <2>1, <3>1 DEF Less, Rec
  <2>2. CASE ~ (src[s].refs > n)
    <3>1. src' = [src EXCEPT ![s].refs = @ - n, ![s].state = "freed"]
      BY <2>2 DEF Unref
    <3>2. QED
      BY <1>1, <1>2, <2>2, <3>1 DEF Less, Rec
  <2>3. QED
    BY <2>1, <2>2
<1>4. \A p \in Priority : Lists(lists[p], Listed(p))
  BY ListsAre
<1>5. SUFFICES /\ lists' \in [Priority -> Seq(Source)]
               /\ \A p \in Priority : Lists(lists'[p], Listed(p)')
               /\ \A p \in Priority : \A q, r : q # s /\ r # s /\ InOrder(lists[p], q, r) =>
                    InOrder(lists'[p], q, r)
  <2>1. SUFFICES ASSUME \A p \in Priority : Lists(lists'[p], Listed(p)'),
                        lists' \in [Priority -> Seq(Source)]
                 PROVE  ListInv'
    BY <1>3
  <2>2. ASSUME NEW p \in Priority
        PROVE  /\ \A i, j \in 1 .. Len(lists'[p]) : lists'[p][i] = lists'[p][j] => i = j
               /\ \A r \in Source : (\E i \in 1 .. Len(lists'[p]) : lists'[p][i] = r) <=>
                    src'[r].state = "live" /\ src'[r].priority = p
    BY <2>1 DEF Lists, Distinct, Listed
  <2>3. QED
    BY <2>2 DEF ListInv
<1>6. CASE src[s].refs > n
  <2>1. lists' = lists
    BY <1>6 DEF Unref
  <2>2. \A p \in Priority : Listed(p)' = Listed(p)
    BY <1>3, <1>6 DEF Less, Listed
  <2>3. QED
    BY <1>1, <1>4, <2>1, <2>2
<1>7. CASE ~ (src[s].refs > n)
  <2>1. PICK o \in Priority : o = src[s].priority
    BY <1>1
  <2>2. lists' = [lists EXCEPT ![o] = Without(@, s)]
    BY <1>7, <2>1 DEF Unref, Unlinked
  <2>3. /\ Listed(o)' = Listed(o) \ {s} /\ s \in Listed(o)
        /\ \A p \in Priority : p # o => Listed(p)' = Listed(p)
    BY <1>3, <1>7, <2>1 DEF Less, Listed
  <2>4. /\ Lists(Without(lists[o], s), Listed(o) \ {s})
        /\ \A q, r : q # s /\ r # s /\ InOrder(lists[o], q, r) =>
             InOrder(Without(lists[o], s), q, r)
    BY <1>4, <2>3, WithoutIs
  <2>5. Without(lists[o], s) \in Seq(Source)
    BY <2>4 DEF Lists
  <2>6. /\ lists' \in [Priority -> Seq(Source)] /\ lists'[o] = Without(lists[o], s)
        /\ \A p \in Priority : p # o => lists'[p] = lists[p]
    BY <1>1, <2>2, <2>5
  <2>7. ASSUME NEW p \in Priority
        PROVE  /\ Lists(lists'[p], Listed(p)')
               /\ \A q, r : q # s /\ r # s /\ InOrder(lists[p], q, r) => InOrder(lists'[p], q, r)
    <3>1. CASE p = o
      <4>1. Listed(p)' = Listed(o) \ {s} /\ lists'[p] = Without(lists[o], s)
        BY <2>3, <2>6, <3>1
      <4>2. QED
        BY <2>4, <3>1, <4>1
    <3>2. CASE p # o
      <4>1. Listed(p)' = Listed(p) /\ lists'[p] = lists[p] /\ Lists(lists[p], Listed(p))
        BY <1>4, <2>3, <2>6, <3>2
      <4>2. QED
        BY <4>1
    <3>3. QED
      BY <3>1, <3>2
  <2>8. QED
    BY <2>6, <2>7
<1>8. QED
  BY <1>6, <1>7

\* The count of references that stay is that of those who refer.
LEMMA LessCounts ==
  ASSUME TypeOK, CountInv, NEW s \in Source, NEW n \in Nat, n <= src[s].refs,
         src[s].state = "live", Less(s, n),
         \A r \in Source : r # s => Sum(r)' = Sum(r),
         src'[s].refs = src[s].refs - n => Sum(s)' = Sum(s) - n
  PROVE  CountInv'
<1>1. SUFFICES ASSUME NEW r \in Source
               PROVE  /\ src'[r].refs = Sum(r)'
                      /\ src'[r].state = "live" <=> src'[r].refs > 0
                      /\ src'[r].state = "new" => src'[r].active
  <2>1. \A r \in Source : Sum(r)' = Count(r \in held') + Count(iter'.source = r) + Pending(r)'
                             + InCalls(r)' + Count(Owned(r)')
    BY DEF Sum
  <2>2. QED
    BY <1>1, <2>1 DEF CountInv
<1>2. CASE r = s
  BY <1>2, Sums, Fields DEF Less
<1>3. CASE r # s
  BY <1>3, Sums DEF Less
<1>4. QED
  BY <1>2, <1>3

\* Those who refer to a source, but the context.
Rest(s) == Count(s \in held) + Count(iter.source = s) + Pending(s) + InCalls(s)

LEMMA RestIs ==
  ASSUME TypeOK, NEW s
  PROVE  /\ Rest(s) \in Nat /\ Sum(s) = Rest(s) + Count(Owned(s))
         /\ (\/ s \in held \/ iter.source = s
             \/ \E i \in 1 .. Len(dispatches) : dispatches[i] = s
             \/ \E i \in 1 .. Len(calls) : calls[i].source = s) => Rest(s) >= 1
<1>1. PICK a \in {0, 1}, b \in {0, 1} : a = Count(s \in held) /\ b = Count(iter.source = s)
  BY DEF Count
<1>2. PICK m \in Nat, n \in Nat : m = Pending(s) /\ n = InCalls(s)
  BY PendingIs, InCallsIs
<1>3. Rest(s) = a + b + m + n
  BY <1>1, <1>2 DEF Rest
<1>4. Sum(s) = a + b + m + n + Count(Owned(s))
  BY <1>1, <1>2 DEF Sum
<1>5. /\ s \in held => a = 1
      /\ iter.source = s => b = 1
      /\ (\E i \in 1 .. Len(dispatches) : dispatches[i] = s) => m # 0
      /\ (\E i \in 1 .. Len(calls) : calls[i].source = s) => n # 0
  BY <1>1, <1>2, PendingIs, InCallsIs DEF Count
<1>6. a + b + m + n \in Nat /\ (a = 1 \/ b = 1 \/ m # 0 \/ n # 0 => a + b + m + n >= 1)
  <2>1. a \in Nat /\ b \in Nat /\ m \in Nat /\ n \in Nat
    OBVIOUS
  <2>2. QED
    BY <2>1
<1>7. QED
  BY <1>3, <1>4, <1>5, <1>6

\* Someone drops the one reference it has.
LEMMA UnrefOne ==
  ASSUME TypeOK, CountInv, ListInv, NEW s \in Source, src[s].state = "live", Unref(s, 1),
         Rest(s) >= 1, \A r \in Source : Rest(r)' = Rest(r) - Count(r = s),
         (pc # "destroy()" /\ pc' # "destroy()") \/ UNCHANGED <<pc, calls>>
  PROVE  /\ src' \in [Source -> Rec] /\ lists' \in [Priority -> Seq(Source)]
         /\ ListInv' /\ CountInv' /\ Less(s, 1)
         /\ \A p \in Priority : \A q, r : q # s /\ r # s /\ InOrder(lists[p], q, r) =>
              InOrder(lists'[p], q, r)
<1>1. src[s].refs \in Nat /\ 1 <= src[s].refs /\ src[s].refs = Sum(s)
  BY Sums, Fields
<1>2. /\ src' \in [Source -> Rec] /\ lists' \in [Priority -> Seq(Source)]
      /\ ListInv' /\ Less(s, 1)
      /\ \A p \in Priority : \A q, r : q # s /\ r # s /\ InOrder(lists[p], q, r) =>
           InOrder(lists'[p], q, r)
  BY <1>1, UnrefIs
<1>3. \A r \in Source : Sum(r)' = Rest(r)' + Count(Owned(r)')
  <2>1. ASSUME NEW r
        PROVE  (Count(r \in held) + Count(iter.source = r) + Pending(r) + InCalls(r)
                 + Count(Owned(r)))'
                 = (Count(r \in held) + Count(iter.source = r) + Pending(r) + InCalls(r))'
                     + Count(Owned(r)')
    OBVIOUS
  <2>2. QED
    BY <2>1 DEF Sum, Rest
<1>4. \A r \in Source : Rest(r) \in Nat /\ Sum(r) = Rest(r) + Count(Owned(r))
  BY RestIs
<1>5. ASSUME NEW r \in Source, r # s
      PROVE  Sum(r)' = Sum(r)
  <2>1. Owned(r)' <=> Owned(r)
    BY <1>2, <1>5 DEF Less, Owned, Call
  <2>2. Rest(r)' = Rest(r)
    BY <1>4, <1>5 DEF Count
  <2>3. QED
    BY <1>3, <1>4, <2>1, <2>2 DEF Count
<1>6. Sum(s)' = Sum(s) - 1
  <2>1. Rest(s)' = Rest(s) - 1
    BY <1>4 DEF Count
  <2>2. Count(Owned(s)') = Count(Owned(s))
    <3>1. CASE src[s].refs > 1
      <4>1. Owned(s)' <=> Owned(s)
        BY <1>2, <3>1 DEF Less, Owned, Call
      <4>2. QED
        BY <4>1 DEF Count
    <3>2. CASE ~ (src[s].refs > 1)
      <4>1. ~ Owned(s)'
        BY <1>2, <3>2 DEF Less, Owned
      <4>2. ~ Owned(s)
        BY <1>1, <1>4, <3>2 DEF Count
      <4>3. QED
        BY <4>1, <4>2 DEF Count
    <3>3. QED
      BY <3>1, <3>2
  <2>3. Count(Owned(s)) \in {0, 1}
    BY DEF Count
  <2>4. QED
    BY <1>3, <1>4, <2>1, <2>2, <2>3
<1>7. CountInv'
  BY <1>1, <1>2, <1>5, <1>6, LessCounts
<1>8. QED
  BY <1>2, <1>7

\* Nothing moves between the lists.
LEMMA ListsStay ==
  ASSUME ListInv, UNCHANGED lists,
         \A s \in Source : src'[s].state = src[s].state /\ src'[s].priority = src[s].priority
  PROVE  ListInv'
BY DEF ListInv

\* The counts that do not change.
LEMMA SameCounts ==
  ASSUME NEW s
  PROVE  /\ UNCHANGED dispatches => Pending(s)' = Pending(s)
         /\ UNCHANGED calls => InCalls(s)' = InCalls(s)
BY DEF Pending, InCalls

-----------------------------------------------------------------------------
(* The iterator *)

LEMMA Least ==
  ASSUME NEW S, S \subseteq Nat, S # {}
  PROVE  \E m \in S : \A n \in S : m <= n
<1>1. PICK m \in S : \A n \in S : ~ (<<n, m>> \in OpToRel(<, Nat))
  BY NatLessThanWellFounded, WFMin
<1>2. \A n \in S : ~ (n < m)
  BY <1>1 DEF OpToRel
<1>3. QED
  BY <1>2

LEMMA NextListIs ==
  ASSUME NEW p, SourcesAssumption
  PROVE  \/ NextList(p) = None
         \/ /\ NextList(p) \in Priority /\ lists[NextList(p)] # << >>
            /\ p = None \/ NextList(p) > p
<1> DEFINE after == {q \in Priority : lists[q] # << >> /\ (p = None \/ q > p)}
<1>1. NextList(p) = IF after = {} THEN None ELSE CHOOSE q \in after : \A r \in after : q <= r
  BY DEF NextList
<1>2. CASE after # {}
  <2>1. after \subseteq Nat
    BY DEF SourcesAssumption
  <2>2. \E q \in after : \A r \in after : q <= r
    BY <1>2, <2>1, Least
  <2>3. NextList(p) \in after
    BY <1>1, <1>2, <2>2
  <2>4. QED
    BY <2>3
<1>3. QED
  BY <1>1, <1>2

IterType == [source : Source \cup {None}, list : Priority \cup {None}, lost : BOOLEAN,
             n_ready : Nat, max : Nat]

LEMMA SuccessorIs ==
  ASSUME TypeOK, ListInv, NEW s \in Source, src[s].state = "live"
  PROVE  \/ Successor(s) = None
         \/ /\ Successor(s) \in Source /\ src[Successor(s)].state = "live"
            /\ src[Successor(s)].priority = src[s].priority
            /\ InOrder(lists[src[s].priority], s, Successor(s))
<1>1. PICK p \in Priority : p = src[s].priority
  BY Fields
<1>2. PICK list : list = lists[p]
  OBVIOUS
<1>3. Lists(list, Listed(p)) /\ s \in Listed(p)
  BY <1>1, <1>2, ListsAre DEF Listed
<1>4. list \in Seq(Source) /\ \E i \in 1 .. Len(list) : list[i] = s
  BY <1>3 DEF Lists
<1>5. PICK i \in 1 .. Len(list) : i = IndexIn(list, s) /\ list[i] = s
  BY <1>4, IndexOf
<1>6. Successor(s) = IF i < Len(list) THEN list[i + 1] ELSE None
  BY <1>1, <1>2, <1>5 DEF Successor
<1>7. CASE i < Len(list)
  <2>1. i + 1 \in 1 .. Len(list) /\ i < i + 1
    BY <1>4, <1>5, <1>7
  <2>2. list[i + 1] \in Listed(p)
    BY <1>3, <2>1 DEF Lists
  <2>3. InOrder(list, s, list[i + 1])
    BY <1>5, <2>1 DEF InOrder
  <2>4. QED
    BY <1>1, <1>2, <1>6, <1>7, <2>2, <2>3 DEF Listed
<1>8. QED
  BY <1>6, <1>7

LEMMA AdvancedIs ==
  ASSUME SourcesAssumption, TypeOK, ListInv, iter.source # None => src[iter.source].state = "live"
  PROVE  /\ Advanced \in IterType
         /\ Advanced.lost = iter.lost /\ Advanced.n_ready = iter.n_ready
         /\ Advanced.max = iter.max
         /\ Advanced.source # None => src[Advanced.source].state = "live"
         /\ (iter.source # None => iter.list = src[iter.source].priority)
              /\ Advanced.source # None =>
              /\ Advanced.list = src[Advanced.source].priority
              /\ iter.source # None => Before(iter.source, Advanced.source)
<1>1. iter \in IterType /\ None \notin Source /\ None \notin Priority
  BY DEF TypeOK, IterType, SourcesAssumption
<1>2. CASE iter.source # None /\ Successor(iter.source) # None
  <2>1. PICK s \in Source : s = iter.source
    BY <1>1, <1>2 DEF IterType
  <2>2. PICK t : t = Successor(s)
    OBVIOUS
  <2>3. /\ t \in Source /\ src[t].state = "live" /\ src[t].priority = src[s].priority
        /\ InOrder(lists[src[s].priority], s, t)
    BY <1>2, <2>1, <2>2, SuccessorIs
  <2>4. Advanced = [iter EXCEPT !.source = t, !.list = iter.list]
    BY <1>2, <2>1, <2>2 DEF Advanced
  <2>5. /\ Advanced \in IterType /\ Advanced.source = t /\ Advanced.list = iter.list
        /\ Advanced.lost = iter.lost /\ Advanced.n_ready = iter.n_ready
        /\ Advanced.max = iter.max
    BY <1>1, <2>3, <2>4 DEF IterType
  <2>6. Before(s, t)
    BY <2>3 DEF Before, InOrder
  <2>7. QED
    BY <2>1, <2>3, <2>5, <2>6
<1>3. CASE ~ (iter.source # None /\ Successor(iter.source) # None)
  <2>1. PICK list : list = NextList(iter.list)
    OBVIOUS
  <2>2. PICK t : t = IF list = None THEN None ELSE Head(lists[list])
    OBVIOUS
  <2>3. Advanced = [iter EXCEPT !.source = t, !.list = list]
    BY <1>3, <2>1, <2>2 DEF Advanced
  <2>4. list = None \/ (/\ list \in Priority /\ lists[list] # << >>
                        /\ iter.list = None \/ list > iter.list)
    BY <2>1, NextListIs
  <2>5. CASE list = None
    <3>1. /\ Advanced \in IterType /\ Advanced.source = None
          /\ Advanced.lost = iter.lost /\ Advanced.n_ready = iter.n_ready
          /\ Advanced.max = iter.max
      BY <1>1, <2>2, <2>3, <2>5 DEF IterType
    <3>2. QED
      BY <3>1
  <2>6. CASE list # None
    <3>1. list \in Priority /\ lists[list] # << >> /\ (iter.list = None \/ list > iter.list)
      BY <2>4, <2>6
    <3>2. Lists(lists[list], Listed(list))
      BY <3>1, ListsAre
    <3>3. lists[list] \in Seq(Source) /\ 1 \in 1 .. Len(lists[list]) /\ t = lists[list][1]
      BY <2>2, <2>6, <3>1, <3>2, EmptySeq DEF Lists
    <3>4. t \in Listed(list)
      BY <3>2, <3>3 DEF Lists
    <3>5. t \in Source /\ src[t].state = "live" /\ src[t].priority = list
      BY <3>4 DEF Listed
    <3>6. /\ Advanced \in IterType /\ Advanced.source = t /\ Advanced.list = list
          /\ Advanced.lost = iter.lost /\ Advanced.n_ready = iter.n_ready
          /\ Advanced.max = iter.max
      BY <1>1, <2>3, <3>1, <3>5 DEF IterType
    <3>7. ASSUME iter.source # None, iter.list = src[iter.source].priority
          PROVE  Before(iter.source, t)
      <4>1. iter.source \in Source
        BY <1>1, <3>7 DEF IterType
      <4>2. iter.list \in Priority
        BY <3>7, <4>1, Fields
      <4>3. list > iter.list /\ list \in Nat /\ iter.list \in Nat
        BY <1>1, <3>1, <4>2 DEF SourcesAssumption
      <4>4. src[iter.source].priority < src[t].priority
        BY <3>5, <3>7, <4>3
      <4>5. QED
        BY <4>4 DEF Before
    <3>8. QED
      BY <3>5, <3>6, <3>7
  <2>7. QED
    BY <2>5, <2>6
<1>4. QED
  BY <1>2, <1>3

\* The parts after a step.
LEMMA ListsNext ==
  ASSUME TypeOK', \A p \in Priority : Lists(lists'[p], Listed(p)')
  PROVE  ListInv'
<1>1. ASSUME NEW p \in Priority
      PROVE  /\ \A i, j \in 1 .. Len(lists'[p]) : lists'[p][i] = lists'[p][j] => i = j
             /\ \A s \in Source : (\E i \in 1 .. Len(lists'[p]) : lists'[p][i] = s) <=>
                  src'[s].state = "live" /\ src'[s].priority = p
  BY DEF Lists, Distinct, Listed
<1>2. QED
  BY <1>1 DEF ListInv

LEMMA CountNext ==
  ASSUME \A s \in Source : /\ src'[s].refs = Rest(s)' + Count(Owned(s)')
                           /\ src'[s].state = "live" <=> src'[s].refs > 0
                           /\ src'[s].state = "new" => src'[s].active
  PROVE  CountInv'
<1>1. \A s \in Source : src'[s].refs = (Count(s \in held) + Count(iter.source = s)
                            + Pending(s) + InCalls(s))' + Count(Owned(s)')
  BY DEF Rest
<1>2. QED
  BY <1>1 DEF CountInv

LEMMA CountGives ==
  ASSUME CountInv', NEW s \in Source
  PROVE  /\ src'[s].refs = Rest(s)' + Count(Owned(s)')
         /\ src'[s].state = "live" <=> src'[s].refs > 0
<1>1. src'[s].refs = (Count(s \in held) + Count(iter.source = s) + Pending(s) + InCalls(s))'
        + Count(Owned(s)')
  BY DEF CountInv
<1>2. src'[s].state = "live" <=> src'[s].refs > 0
  BY DEF CountInv
<1>3. QED
  BY <1>1, <1>2 DEF Rest

LEMMA RestNext ==
  ASSUME TypeOK', NEW s
  PROVE  /\ Rest(s)' \in Nat
         /\ (\/ s \in held' \/ iter'.source = s
             \/ \E i \in 1 .. Len(dispatches') : dispatches'[i] = s
             \/ \E i \in 1 .. Len(calls') : calls'[i].source = s) => Rest(s)' >= 1
<1>1. /\ (Rest(s) \in Nat)'
      /\ ((\/ s \in held \/ iter.source = s
           \/ \E i \in 1 .. Len(dispatches) : dispatches[i] = s
           \/ \E i \in 1 .. Len(calls) : calls[i].source = s) => Rest(s) >= 1)'
  BY RestIs, PTL
<1>2. QED
  BY <1>1

LEMMA NewIsUnknownNext ==
  ASSUME TypeOK', CountInv', NEW s \in Source, src'[s].state # "live"
  PROVE  /\ iter'.source # s
         /\ \A i \in 1 .. Len(dispatches') : dispatches'[i] # s
<1>1. ~ (src'[s].refs > 0) /\ src'[s].refs = Rest(s)' + Count(Owned(s)')
  BY CountGives
<1>2. ~ (Rest(s)' >= 1) /\ Rest(s)' \in Nat
  BY <1>1, RestNext DEF Count
<1>3. QED
  BY <1>2, RestNext

\* A dispatch is left: its source has a reference less.
LEMMA RestLeft ==
  ASSUME TypeOK, calls # << >>, calls' = SubSeq(calls, 1, Len(calls) - 1),
         UNCHANGED <<dispatches, held, iter>>, NEW s, s = Call.source
  PROVE  \A r \in Source : Rest(r)' = Rest(r) - Count(r = s)
<1>1. SUFFICES ASSUME NEW r \in Source
               PROVE  Rest(r)' = Rest(r) - Count(r = s)
  OBVIOUS
<1>2. InCalls(r)' = InCalls(r) - Count(r = s) /\ Pending(r)' = Pending(r)
  BY CallsLeft, SameCounts
<1>3. PICK m \in Nat, n \in Nat : m = Pending(r) /\ n = InCalls(r)
  BY PendingIs, InCallsIs
<1>4. PICK a \in {0, 1}, b \in {0, 1}, c \in {0, 1} :
        a = Count(r \in held) /\ b = Count(iter.source = r) /\ c = Count(r = s)
  BY DEF Count
<1>5. Rest(r)' = a + b + m + (n - c) /\ Rest(r) = a + b + m + n
  BY <1>2, <1>3, <1>4 DEF Rest
<1>6. QED
  BY <1>3, <1>4, <1>5

LEMMA UnrefKeeps ==
  ASSUME src \in [Source -> Rec], NEW s \in Source, NEW n, Unref(s, n)
  PROVE  \A r \in Source : src'[r].active = src[r].active /\ src'[r].ready = src[r].ready
<1>1. CASE src[s].refs > n
  <2>1. src' = [src EXCEPT ![s].refs = @ - n]
    BY <1>1 DEF Unref
  <2>2. QED
    BY <2>1 DEF Rec
<1>2. CASE ~ (src[s].refs > n)
  <2>1. src' = [src EXCEPT ![s].refs = @ - n, ![s].state = "freed"]
    BY <1>2 DEF Unref
  <2>2. QED
    BY <2>1 DEF Rec
<1>3. QED
  BY <1>1, <1>2

-----------------------------------------------------------------------------
(* What another thread does *)

LEMMA Unlocked ==
  ASSUME IInv, ~ Locked
  PROVE  /\ pc \in {"user", "prepare()", "poll", "check()", "checked", "destroy()"}
         /\ iter.source # None => src[iter.source].active
BY DEF IInv, PlaceInv, TypeOK, Locked

\* The entries stay right if neither they nor the place change.
LEMMA EntriesStay ==
  ASSUME EntryInv, UNCHANGED <<dispatches, pc, next, calls>>
  PROVE  EntryInv'
BY DEF EntryInv, From, Call

\* What the owner has stays right if its sources keep a reference.
LEMMA PlaceStays ==
  ASSUME PlaceInv, UNCHANGED <<dispatches, pc, next, calls>>, iter'.source = iter.source,
         iter.source # None => src'[iter.source].refs > 1
                               /\ src'[iter.source].active = src[iter.source].active,
         pc = "destroy()" => src'[Call.source].active = src[Call.source].active
  PROVE  PlaceInv'
BY DEF PlaceInv, Call

\* A source nobody has heard of.
LEMMA NewIsUnknown ==
  ASSUME TypeOK, CountInv, NEW s \in Source, src[s].state # "live"
  PROVE  /\ src[s].refs = 0 /\ s \notin held /\ iter.source # s
         /\ \A i \in 1 .. Len(dispatches) : dispatches[i] # s
         /\ \A i \in 1 .. Len(calls) : calls[i].source # s
<1>1. src[s].refs \in Nat /\ ~ (src[s].refs > 0)
  BY Sums, Fields
<1>2. QED
  BY <1>1, HeldIsLive

LEMMA AttachHolds ==
  ASSUME SourcesAssumption, IInv, NEW s \in Source, Attach(s)
  PROVE  /\ IInv'
         /\ \A r \in Source : r # s => src'[r] = src[r]
         /\ \A p \in Priority : \A q, r : InOrder(lists[p], q, r) => InOrder(lists'[p], q, r)
<1>1. TypeOK /\ CountInv /\ ListInv /\ PlaceInv /\ EntryInv
  BY DEF IInv
<1>2. PICK o \in Priority : o = src[s].priority
  BY <1>1, Fields
<1>3. /\ src' = [src EXCEPT ![s].state = "live", ![s].refs = 2] /\ src[s].state = "new"
      /\ held' = held \cup {s} /\ lists' = [lists EXCEPT ![o] = Append(@, s)]
      /\ UNCHANGED <<dispatches, pc, iter, next, calls>>
  BY <1>2 DEF Attach
<1>4. /\ src[s].refs = 0 /\ s \notin held /\ iter.source # s
      /\ \A i \in 1 .. Len(dispatches) : dispatches[i] # s
      /\ \A i \in 1 .. Len(calls) : calls[i].source # s
  BY <1>1, <1>3, NewIsUnknown
<1>5. /\ src' \in [Source -> Rec]
      /\ src'[s].state = "live" /\ src'[s].refs = 2 /\ src'[s].priority = src[s].priority
      /\ src'[s].active = src[s].active
      /\ \A r \in Source : r # s => src'[r] = src[r]
  <2>1. src \in [Source -> Rec]
    BY <1>1 DEF TypeOK, Rec
  <2>2. PICK r : r = [src[s] EXCEPT !.state = "live", !.refs = 2]
    OBVIOUS
  <2>3. /\ r \in Rec /\ r.state = "live" /\ r.refs = 2 /\ r.priority = src[s].priority
        /\ r.active = src[s].active
    <3>1. src[s] \in Rec
      BY <2>1
    <3>2. QED
      BY <2>2, <3>1 DEF Rec
  <2>4. src' = [src EXCEPT ![s] = r]
    BY <1>3, <2>2
  <2>5. QED
    BY <2>1, <2>3, <2>4
<1>6. \A p \in Priority : Lists(lists[p], Listed(p))
  BY <1>1, ListsAre
<1>7. /\ Listed(o)' = Listed(o) \cup {s} /\ s \notin Listed(o)
      /\ \A p \in Priority : p # o => Listed(p)' = Listed(p)
  BY <1>2, <1>3, <1>5 DEF Listed
<1>8. /\ Lists(Append(lists[o], s), Listed(o) \cup {s})
      /\ \A q, r : InOrder(lists[o], q, r) => InOrder(Append(lists[o], s), q, r)
  BY <1>6, <1>7, AppendIs
<1>9. /\ lists' \in [Priority -> Seq(Source)] /\ lists'[o] = Append(lists[o], s)
      /\ \A p \in Priority : p # o => lists'[p] = lists[p]
  <2>1. lists \in [Priority -> Seq(Source)] /\ Append(lists[o], s) \in Seq(Source)
    BY <1>1, <1>8 DEF TypeOK, Lists
  <2>2. QED
    BY <1>3, <2>1
<1>10. ASSUME NEW p \in Priority
       PROVE  /\ Lists(lists'[p], Listed(p)')
              /\ \A q, r : InOrder(lists[p], q, r) => InOrder(lists'[p], q, r)
  <2>1. CASE p = o
    <3>1. Listed(p)' = Listed(o) \cup {s} /\ lists'[p] = Append(lists[o], s)
      BY <1>7, <1>9, <2>1
    <3>2. QED
      BY <1>8, <2>1, <3>1
  <2>2. CASE p # o
    <3>1. Listed(p)' = Listed(p) /\ lists'[p] = lists[p] /\ Lists(lists[p], Listed(p))
      BY <1>6, <1>7, <1>9, <2>2
    <3>2. QED
      BY <3>1
  <2>3. QED
    BY <2>1, <2>2
<1>11. TypeOK'
  <2>1. src' \in [Source -> Rec] /\ lists' \in [Priority -> Seq(Source)] /\ held' \subseteq Source
    BY <1>1, <1>3, <1>5, <1>9 DEF TypeOK
  <2>2. UNCHANGED <<dispatches, pc, iter, next, calls>>
    BY <1>3
  <2>3. QED
    BY <1>1, <2>1, <2>2 DEF TypeOK, Rec
<1>12. ListInv'
  <2>1. \A p \in Priority : Lists(lists'[p], Listed(p)')
    BY <1>10
  <2>2. QED
    BY <1>11, <2>1, ListsNext
<1>13. CountInv'
  <2>1. ASSUME NEW r \in Source, r # s
        PROVE  /\ src'[r].refs = src[r].refs /\ Rest(r)' = Rest(r)
               /\ Owned(r)' <=> Owned(r)
               /\ src'[r].state = "live" <=> src'[r].refs > 0
               /\ src'[r].state = "new" => src'[r].active
    <3>1. src'[r] = src[r]
      BY <1>5, <2>1
    <3>2. Rest(r)' = Rest(r)
      BY <1>3, <2>1 DEF Rest, Count, Pending, InCalls
    <3>3. Owned(r)' <=> Owned(r)
      BY <1>3, <3>1 DEF Owned, Call
    <3>4. QED
      BY <1>1, <3>1, <3>2, <3>3, Sums
  <2>2. /\ Rest(s)' = 1 /\ Owned(s)'
    <3>1. Pending(s)' = 0 /\ InCalls(s)' = 0
      BY <1>1, <1>3, <1>4, PendingIs, InCallsIs, SameCounts
    <3>2. Count(s \in held') = 1 /\ Count(iter'.source = s) = 0
      BY <1>3, <1>4 DEF Count
    <3>3. Rest(s)' = Count(s \in held') + Count(iter'.source = s) + Pending(s)' + InCalls(s)'
      BY DEF Rest
    <3>4. src[s].active
      BY <1>1, <1>3, Sums
    <3>5. QED
      BY <1>5, <3>1, <3>2, <3>3, <3>4 DEF Owned
  <2>3. ASSUME NEW r \in Source
        PROVE  /\ src'[r].refs = Rest(r)' + Count(Owned(r)')
               /\ src'[r].state = "live" <=> src'[r].refs > 0
               /\ src'[r].state = "new" => src'[r].active
    <3>1. CASE r = s
      BY <1>5, <2>2, <3>1 DEF Count
    <3>2. CASE r # s
      <4>1. src[r].refs = Rest(r) + Count(Owned(r))
        BY <1>1, Sums, RestIs
      <4>2. QED
        BY <2>1, <3>2, <4>1 DEF Count
    <3>3. QED
      BY <3>1, <3>2
  <2>4. QED
    BY <2>3, CountNext
<1>14. PlaceInv'
  <2>1. iter.source # None => iter.source \in Source
    BY <1>1 DEF TypeOK
  <2>2. iter.source # None => src'[iter.source] = src[iter.source] /\ src[iter.source].refs > 1
    BY <1>1, <1>4, <1>5, <2>1 DEF PlaceInv
  <2>3. pc = "destroy()" => Call.source \in Source /\ Call.source # s
    BY <1>1, <1>4, CallIs DEF PlaceInv
  <2>4. QED
    BY <1>1, <1>3, <1>5, <2>2, <2>3, PlaceStays
<1>15. EntryInv'
  BY <1>1, <1>3, EntriesStay
<1>16. QED
  BY <1>5, <1>10, <1>11, <1>12, <1>13, <1>14, <1>15 DEF IInv

LEMMA SetPriorityHolds ==
  ASSUME SourcesAssumption, IInv, NEW s \in Source, NEW o \in Priority, SetPriority(s, o)
  PROVE  IInv'
<1>1. TypeOK /\ CountInv /\ ListInv /\ PlaceInv /\ EntryInv
  BY DEF IInv
<1>2. PICK w \in Priority : w = src[s].priority
  BY <1>1, Fields
<1>3. /\ src' = [src EXCEPT ![s].priority = o] /\ s \in held
      /\ lists' = [Unlinked(s) EXCEPT ![o] = Append(@, s)]
      /\ iter' = [iter EXCEPT !.lost = @ \/ LosesList(s)]
      /\ UNCHANGED <<dispatches, held, pc, next, calls>>
  BY DEF SetPriority
<1>4. src[s].state = "live"
  BY <1>1, <1>3, HeldIsLive
<1>5. /\ src' \in [Source -> Rec]
      /\ src'[s].priority = o
      /\ \A r \in Source : /\ r # s => src'[r] = src[r]
                           /\ src'[r].state = src[r].state /\ src'[r].refs = src[r].refs
                           /\ src'[r].active = src[r].active
  <2>1. src \in [Source -> Rec]
    BY <1>1 DEF TypeOK, Rec
  <2>2. QED
    BY <1>3, <2>1 DEF Rec
<1>6. \A p \in Priority : Lists(lists[p], Listed(p))
  BY <1>1, ListsAre
<1>7. /\ s \in Listed(w)
      /\ Lists(Without(lists[w], s), Listed(w) \ {s})
  <2>1. s \in Listed(w)
    BY <1>2, <1>4 DEF Listed
  <2>2. QED
    BY <1>6, <2>1, WithoutIs
<1>8. PICK mid : mid = Unlinked(s)
  OBVIOUS
<1>9. /\ mid \in [Priority -> Seq(Source)] /\ mid[w] = Without(lists[w], s)
      /\ \A p \in Priority : p # w => mid[p] = lists[p]
  <2>1. lists \in [Priority -> Seq(Source)] /\ Without(lists[w], s) \in Seq(Source)
    BY <1>1, <1>7 DEF TypeOK, Lists
  <2>2. mid = [lists EXCEPT ![w] = Without(@, s)]
    BY <1>2, <1>8 DEF Unlinked
  <2>3. QED
    BY <2>1, <2>2
<1>10. ASSUME NEW p \in Priority
       PROVE  Lists(mid[p], Listed(p) \ {s})
  <2>1. CASE p = w
    BY <1>7, <1>9, <2>1
  <2>2. CASE p # w
    <3>1. Listed(p) \ {s} = Listed(p)
      BY <1>2, <2>2 DEF Listed
    <3>2. mid[p] = lists[p] /\ Lists(lists[p], Listed(p))
      BY <1>6, <1>9, <2>2
    <3>3. QED
      BY <3>1, <3>2
  <2>3. QED
    BY <2>1, <2>2
<1>11. Lists(Append(mid[o], s), (Listed(o) \ {s}) \cup {s})
  <2>1. Lists(mid[o], Listed(o) \ {s}) /\ s \notin Listed(o) \ {s}
    BY <1>10
  <2>2. QED
    BY <2>1, AppendIs
<1>12. /\ Listed(o)' = (Listed(o) \ {s}) \cup {s}
       /\ \A p \in Priority : p # o => Listed(p)' = Listed(p) \ {s}
  BY <1>4, <1>5 DEF Listed
<1>13. /\ lists' \in [Priority -> Seq(Source)] /\ lists'[o] = Append(mid[o], s)
       /\ \A p \in Priority : p # o => lists'[p] = mid[p]
  <2>1. Append(mid[o], s) \in Seq(Source)
    BY <1>11 DEF Lists
  <2>2. QED
    BY <1>3, <1>8, <1>9, <2>1
<1>14. ASSUME NEW p \in Priority
       PROVE  Lists(lists'[p], Listed(p)')
  <2>1. CASE p = o
    <3>1. Listed(p)' = (Listed(o) \ {s}) \cup {s} /\ lists'[p] = Append(mid[o], s)
      BY <1>12, <1>13, <2>1
    <3>2. QED
      BY <1>11, <3>1
  <2>2. CASE p # o
    <3>1. Listed(p)' = Listed(p) \ {s} /\ lists'[p] = mid[p]
      BY <1>12, <1>13, <2>2
    <3>2. QED
      BY <1>10, <3>1
  <2>3. QED
    BY <2>1, <2>2
<1>15. iter' \in IterType /\ iter'.source = iter.source
  <2>1. iter \in IterType /\ LosesList(s) \in BOOLEAN
    BY <1>1 DEF TypeOK, IterType, LosesList
  <2>2. QED
    BY <1>3, <2>1 DEF IterType
<1>16. TypeOK'
  BY <1>1, <1>3, <1>5, <1>13, <1>15 DEF TypeOK, Rec, IterType
<1>17. ListInv'
  BY <1>14, <1>16, ListsNext
<1>18. CountInv'
  <2>1. ASSUME NEW r \in Source
        PROVE  /\ src'[r].refs = Rest(r)' + Count(Owned(r)')
               /\ src'[r].state = "live" <=> src'[r].refs > 0
               /\ src'[r].state = "new" => src'[r].active
    <3>1. Rest(r)' = Rest(r)
      BY <1>3, <1>15 DEF Rest, Count, Pending, InCalls
    <3>2. Owned(r)' <=> Owned(r)
      BY <1>3, <1>5 DEF Owned, Call
    <3>3. src[r].refs = Rest(r) + Count(Owned(r))
      BY <1>1, Sums, RestIs
    <3>4. QED
      BY <1>1, <1>5, <3>1, <3>2, <3>3, Sums DEF Count
  <2>2. QED
    BY <2>1, CountNext
<1>19. PlaceInv'
  <2>1. iter.source # None => iter.source \in Source /\ src[iter.source].refs > 1
    BY <1>1 DEF TypeOK, PlaceInv
  <2>2. pc = "destroy()" => Call.source \in Source
    BY <1>1, CallIs DEF PlaceInv
  <2>3. QED
    BY <1>1, <1>3, <1>5, <1>15, <2>1, <2>2, PlaceStays
<1>20. EntryInv'
  BY <1>1, <1>3, EntriesStay
<1>21. QED
  BY <1>16, <1>17, <1>18, <1>19, <1>20 DEF IInv

LEMMA ReleaseHolds ==
  ASSUME SourcesAssumption, IInv, NEW s \in Source, Release(s)
  PROVE  /\ IInv' /\ Less(s, 1)
         /\ \A p \in Priority : \A q, r : q # s /\ r # s /\ InOrder(lists[p], q, r) =>
              InOrder(lists'[p], q, r)
         /\ src'[s].state # "live" =>
              /\ iter.source # s
              /\ \A i \in 1 .. Len(dispatches) : dispatches[i] # s
<1>1. TypeOK /\ CountInv /\ ListInv /\ PlaceInv /\ EntryInv
  BY DEF IInv
<1>2. /\ s \in held /\ held' = held \ {s} /\ Unref(s, 1)
      /\ UNCHANGED <<dispatches, pc, iter, next, calls>> /\ ~ Locked
  BY DEF Release
<1>3. src[s].state = "live" /\ Rest(s) >= 1
  BY <1>1, <1>2, HeldIsLive, RestIs
<1>4. ASSUME NEW r \in Source
      PROVE  Rest(r)' = Rest(r) - Count(r = s)
  <2>1. Pending(r)' = Pending(r) /\ InCalls(r)' = InCalls(r)
    BY <1>2, SameCounts
  <2>2. Count(r \in held') = Count(r \in held) - Count(r = s)
    BY <1>2 DEF Count
  <2>3. Count(iter'.source = r) = Count(iter.source = r)
    BY <1>2
  <2>4. PICK m \in Nat, n \in Nat : m = Pending(r) /\ n = InCalls(r)
    BY <1>1, PendingIs, InCallsIs
  <2>5. PICK a \in {0, 1}, b \in {0, 1}, c \in {0, 1} :
          a = Count(r \in held) /\ b = Count(iter.source = r) /\ c = Count(r = s)
    BY DEF Count
  <2>6. Rest(r)' = (a - c) + b + m + n /\ Rest(r) = a + b + m + n
    BY <2>1, <2>2, <2>3, <2>4, <2>5 DEF Rest
  <2>7. QED
    BY <2>5, <2>6
<1>5. /\ src' \in [Source -> Rec] /\ lists' \in [Priority -> Seq(Source)]
      /\ ListInv' /\ CountInv' /\ Less(s, 1)
      /\ \A p \in Priority : \A q, r : q # s /\ r # s /\ InOrder(lists[p], q, r) =>
           InOrder(lists'[p], q, r)
  BY <1>1, <1>2, <1>3, <1>4, UnrefOne
<1>6. TypeOK'
  BY <1>1, <1>2, <1>5 DEF TypeOK, Rec
<1>7. ASSUME src'[s].state # "live"
      PROVE  iter.source # s /\ \A i \in 1 .. Len(dispatches) : dispatches[i] # s
  BY <1>2, <1>5, <1>6, <1>7, NewIsUnknownNext
<1>8. PlaceInv'
  <2>1. ASSUME iter.source # None
        PROVE  /\ src'[iter.source].refs > 1
               /\ src'[iter.source].active = src[iter.source].active
    <3>1. PICK t \in Source : t = iter.source
      BY <1>1, <2>1 DEF TypeOK
    <3>2. src[t].active /\ src[t].state = "live" /\ src[t].refs > 1
      BY <1>1, <1>2, <3>1, <2>1, Unlocked, HeldIsLive DEF PlaceInv
    <3>3. CASE t = s
      <4>1. Owned(t)'
        <5>1. Owned(t)
          BY <3>2 DEF Owned
        <5>2. src[t].refs > 1
          BY <3>2
        <5>3. QED
          BY <1>5, <3>2, <3>3 DEF Less, Owned
      <4>2. Rest(t)' >= 1 /\ Rest(t)' \in Nat
        BY <1>2, <1>6, <3>1, RestNext
      <4>3. src'[t].refs = Rest(t)' + Count(Owned(t)')
        BY <1>5, CountGives
      <4>4. src'[t].refs > 1
        BY <4>1, <4>2, <4>3 DEF Count
      <4>5. QED
        BY <1>5, <3>1, <3>3, <4>4 DEF Less
    <3>4. CASE t # s
      BY <1>5, <3>1, <3>2, <3>4 DEF Less
    <3>5. QED
      BY <3>3, <3>4
  <2>2. pc = "destroy()" => Call.source \in Source
    BY <1>1, CallIs DEF PlaceInv
  <2>3. pc = "destroy()" => src'[Call.source].active = src[Call.source].active
    BY <1>5, <2>2 DEF Less
  <2>4. QED
    BY <1>1, <1>2, <2>1, <2>3, PlaceStays
<1>9. EntryInv'
  BY <1>1, <1>2, EntriesStay
<1>10. QED
  BY <1>5, <1>6, <1>7, <1>8, <1>9 DEF IInv

-----------------------------------------------------------------------------
(* What the owner does: prepare *)

LEMMA PrepareBeginHolds ==
  ASSUME SourcesAssumption, IInv, PrepareBegin
  PROVE  IInv'
<1>1. /\ TypeOK /\ CountInv /\ ListInv /\ PlaceInv /\ EntryInv
      /\ pc = "user" /\ pc' = "drop" /\ next' = 1
      /\ UNCHANGED <<src, lists, dispatches, held, iter, calls>>
  BY DEF IInv, PrepareBegin
<1>2. TypeOK'
  BY <1>1 DEF TypeOK
<1>3. ListInv'
  BY <1>1, ListsStay
<1>4. CountInv'
  <2>1. \A s \in Source : Owned(s)' <=> Owned(s)
    BY <1>1 DEF Owned, Call
  <2>2. QED
    BY <1>1, <2>1 DEF CountInv, Pending, InCalls, Count
<1>5. PlaceInv'
  BY <1>1 DEF PlaceInv
<1>6. EntryInv'
  BY <1>1, <1>2 DEF EntryInv, From
<1>7. QED
  BY <1>2, <1>3, <1>4, <1>5, <1>6 DEF IInv

\* Nothing is left in dispatches.
LEMMA AllTaken ==
  ASSUME SourcesAssumption, TypeOK, EntryInv, From > Len(dispatches), NEW s \in Source
  PROVE  Pending(s) = 0
<1>1. \A i \in 1 .. Len(dispatches) : dispatches[i] = None
  <2>1. ASSUME NEW i \in 1 .. Len(dispatches)
        PROVE  dispatches[i] = None
    <3>1. PICK n \in Nat : n = Len(dispatches)
      BY DEF TypeOK
    <3>2. From \in Int
      <4>1. calls # << >> => Call.next + 1 \in Int
        BY CallIs
      <4>2. next \in Int
        BY DEF TypeOK
      <4>3. CASE pc \in {"drop", "dispatch"}
        BY <4>2, <4>3 DEF From
      <4>4. CASE pc \in {"user", "destroy()"} /\ calls # << >>
        BY <4>1, <4>4 DEF From
      <4>5. CASE ~ (pc \in {"drop", "dispatch"} \/ (pc \in {"user", "destroy()"} /\ calls # << >>))
        BY <4>5 DEF From
      <4>6. QED
        BY <4>3, <4>4, <4>5
    <3>3. i < From
      BY <3>1, <3>2
    <3>4. QED
      BY <3>3 DEF EntryInv
  <2>2. QED
    BY <2>1
<1>2. QED
  BY <1>1, PendingIs DEF SourcesAssumption

LEMMA DropEndHolds ==
  ASSUME SourcesAssumption, IInv, pc = "drop", next > Len(dispatches), dispatches' = << >>,
         iter' = NoIter, pc' = "prepare", UNCHANGED <<src, lists, next, held, calls>>
  PROVE  IInv'
<1>1. TypeOK /\ CountInv /\ ListInv /\ PlaceInv /\ EntryInv
  BY DEF IInv
<1>2. iter.source = None /\ iter'.source = None
  BY <1>1 DEF PlaceInv, NoIter
<1>3. TypeOK'
  BY <1>1 DEF TypeOK, NoIter
<1>4. ListInv'
  BY <1>1, ListsStay
<1>5. CountInv'
  <2>1. ASSUME NEW s \in Source
        PROVE  /\ src'[s].refs = Rest(s)' + Count(Owned(s)')
               /\ src'[s].state = "live" <=> src'[s].refs > 0
               /\ src'[s].state = "new" => src'[s].active
    <3>1. Pending(s) = 0
      BY <1>1, AllTaken DEF From
    <3>2. Pending(s)' = 0 /\ InCalls(s)' = InCalls(s)
      BY PendingEmpty, SameCounts
    <3>3. Rest(s)' = Rest(s)
      BY <1>2, <3>1, <3>2 DEF Rest, Count
    <3>4. Owned(s)' <=> Owned(s)
      BY DEF Owned, Call
    <3>5. src[s].refs = Rest(s) + Count(Owned(s))
      BY <1>1, Sums, RestIs
    <3>6. QED
      BY <1>1, <3>3, <3>4, <3>5, Sums DEF Count
  <2>2. QED
    BY <2>1, CountNext
<1>6. PlaceInv'
  <2>1. next >= 1
    BY <1>1 DEF PlaceInv
  <2>2. QED
    BY <1>2, <2>1 DEF PlaceInv
<1>7. EntryInv'
  BY DEF EntryInv
<1>8. QED
  BY <1>3, <1>4, <1>5, <1>6, <1>7 DEF IInv

\* The entry at "next" is taken, and its reference with it.
LEMMA TakenCounts ==
  ASSUME SourcesAssumption, TypeOK, next \in 1 .. Len(dispatches),
         dispatches' = [dispatches EXCEPT ![next] = None], UNCHANGED <<held, calls>>,
         iter'.source = iter.source
  PROVE  /\ dispatches' \in Seq(Source \cup {None}) /\ Len(dispatches') = Len(dispatches)
         /\ dispatches'[next] = None
         /\ \A i \in 1 .. Len(dispatches) : i # next => dispatches'[i] = dispatches[i]
         /\ \A r \in Source : Rest(r)' = Rest(r) - Count(r = dispatches[next])
<1>1. dispatches \in Seq(Source \cup {None})
  BY DEF TypeOK
<1>2. /\ dispatches' \in Seq(Source \cup {None}) /\ Len(dispatches') = Len(dispatches)
      /\ dispatches'[next] = None
      /\ \A i \in 1 .. Len(dispatches) : i # next => dispatches'[i] = dispatches[i]
  BY <1>1, ExceptSeq
<1>3. ASSUME NEW r \in Source
      PROVE  Rest(r)' = Rest(r) - Count(r = dispatches[next])
  <2>1. Pending(r)' = Pending(r) - Count(r = dispatches[next]) /\ InCalls(r)' = InCalls(r)
    BY PendingTaken, SameCounts DEF SourcesAssumption
  <2>2. PICK m \in Nat, n \in Nat : m = Pending(r) /\ n = InCalls(r)
    BY PendingIs, InCallsIs
  <2>3. PICK a \in {0, 1}, b \in {0, 1}, c \in {0, 1} :
          a = Count(r \in held) /\ b = Count(iter.source = r) /\ c = Count(r = dispatches[next])
    BY DEF Count
  <2>4. Rest(r)' = a + b + (m - c) + n /\ Rest(r) = a + b + m + n
    BY <2>1, <2>2, <2>3 DEF Rest
  <2>5. QED
    BY <2>2, <2>3, <2>4
<1>4. QED
  BY <1>2, <1>3

LEMMA DropHolds ==
  ASSUME SourcesAssumption, IInv, PrepareDrop
  PROVE  IInv'
<1>1. TypeOK /\ CountInv /\ ListInv /\ PlaceInv /\ EntryInv
  BY DEF IInv
<1>2. CASE next > Len(dispatches)
  <2>1. next \in Nat /\ Len(dispatches) \in Nat
    BY <1>1 DEF TypeOK
  <2>2. ~ (next <= Len(dispatches))
    BY <1>2, <2>1
  <2>3. /\ pc = "drop" /\ dispatches' = << >> /\ iter' = NoIter /\ pc' = "prepare"
        /\ UNCHANGED <<src, lists, next, held, calls>>
    BY <2>2 DEF PrepareDrop
  <2>4. QED
    BY <1>2, <2>3, DropEndHolds
<1>3. CASE ~ (next > Len(dispatches))
  <2>1. /\ pc = "drop" /\ next' = next + 1 /\ dispatches' = [dispatches EXCEPT ![next] = None]
        /\ \/ dispatches[next] # None /\ Unref(dispatches[next], 1)
           \/ dispatches[next] = None /\ UNCHANGED <<src, lists>>
        /\ UNCHANGED <<pc, iter, held, calls>>
    BY <1>3 DEF PrepareDrop
  <2>2. next >= 1
    BY <1>1 DEF PlaceInv
  <2>3. next \in 1 .. Len(dispatches)
    <3>1. next \in Nat /\ Len(dispatches) \in Nat
      BY <1>1 DEF TypeOK
    <3>2. QED
      BY <1>3, <2>2, <3>1
  <2>4. /\ dispatches' \in Seq(Source \cup {None}) /\ Len(dispatches') = Len(dispatches)
        /\ dispatches'[next] = None
        /\ \A i \in 1 .. Len(dispatches) : i # next => dispatches'[i] = dispatches[i]
        /\ \A r \in Source : Rest(r)' = Rest(r) - Count(r = dispatches[next])
    BY <1>1, <2>1, <2>3, TakenCounts
  <2>5. iter.source = None
    BY <1>1, <2>1 DEF PlaceInv
  <2>6. /\ src' \in [Source -> Rec] /\ lists' \in [Priority -> Seq(Source)]
        /\ ListInv' /\ CountInv'
    <3>1. CASE dispatches[next] = None
      <4>1. UNCHANGED <<src, lists>>
        BY <2>1, <3>1 DEF SourcesAssumption
      <4>2. src \in [Source -> Rec] /\ lists \in [Priority -> Seq(Source)]
        BY <1>1 DEF TypeOK, Rec
      <4>3. ListInv'
        BY <1>1, <4>1, ListsStay
      <4>4. ASSUME NEW s \in Source
            PROVE  /\ src'[s].refs = Rest(s)' + Count(Owned(s)')
                   /\ src'[s].state = "live" <=> src'[s].refs > 0
                   /\ src'[s].state = "new" => src'[s].active
        <5>1. Count(s = dispatches[next]) = 0
          BY <3>1 DEF SourcesAssumption, Count
        <5>2. Rest(s)' = Rest(s)
          BY <1>1, <2>4, <5>1, RestIs
        <5>3. Owned(s)' <=> Owned(s)
          BY <2>1, <4>1 DEF Owned, Call
        <5>4. src[s].refs = Rest(s) + Count(Owned(s))
          BY <1>1, Sums, RestIs
        <5>5. QED
          BY <1>1, <4>1, <5>2, <5>3, <5>4, Sums DEF Count
      <4>5. CountInv'
        BY <4>4, CountNext
      <4>6. QED
        BY <4>1, <4>2, <4>3, <4>5
    <3>2. CASE dispatches[next] # None
      <4>1. PICK s \in Source : s = dispatches[next]
        <5>1. dispatches[next] \in Source \cup {None}
          BY <1>1, <2>3, ElementOfSeq DEF TypeOK
        <5>2. QED
          BY <3>2, <5>1
      <4>2. src[s].state = "live" /\ Rest(s) >= 1
        BY <1>1, <2>3, <4>1, HeldIsLive, RestIs
      <4>3. Unref(s, 1)
        BY <2>1, <3>2, <4>1
      <4>4. \A r \in Source : Rest(r)' = Rest(r) - Count(r = s)
        BY <2>4, <4>1
      <4>5. QED
        BY <1>1, <2>1, <4>2, <4>3, <4>4, UnrefOne
    <3>3. QED
      BY <3>1, <3>2
  <2>7. TypeOK'
    <3>1. next + 1 \in Nat
      BY <1>1 DEF TypeOK
    <3>2. QED
      BY <1>1, <2>1, <2>4, <2>6, <3>1 DEF TypeOK, Rec
  <2>8. PlaceInv'
    BY <1>1, <2>1, <2>5, <2>2, <2>7 DEF PlaceInv, TypeOK
  <2>9. EntryInv'
    <3>1. PICK n \in Nat : n = Len(dispatches)
      BY <1>1 DEF TypeOK
    <3>2. \A i \in 1 .. n : i < next => dispatches[i] = None
      BY <1>1, <2>1, <3>1 DEF EntryInv, From
    <3>3. \A i \in 1 .. n : i < next + 1 => dispatches'[i] = None
      <4>1. next \in 1 .. n
        BY <2>3, <3>1
      <4>2. \A i \in 1 .. n : i < next + 1 => i < next \/ i = next
        BY <4>1
      <4>3. QED
        BY <2>4, <3>1, <3>2, <4>2
    <3>4. QED
      BY <2>1, <2>4, <3>1, <3>3 DEF EntryInv, From
  <2>10. QED
    BY <2>6, <2>7, <2>8, <2>9 DEF IInv
<1>4. QED
  BY <1>2, <1>3

\* The iterator's reference moves from one source to another.
LEMMA MovedIs ==
  ASSUME SourcesAssumption, TypeOK, CountInv,
         NEW from \in Source \cup {None}, from # None => src[from].refs > 1,
         NEW to \in Source \cup {None}, to # None => src[to].state = "live",
         NEW f, f = MovedRefs(from, to)
  PROVE  /\ f \in [Source -> Rec]
         /\ \A s \in Source :
              /\ f[s].state = src[s].state /\ f[s].priority = src[s].priority
              /\ f[s].active = src[s].active /\ f[s].ready = src[s].ready
              /\ f[s].refs = src[s].refs - Count(s = from) + Count(s = to)
              /\ f[s].state = "live" <=> f[s].refs > 0
         /\ to # None => f[to].refs > 1
<1>1. \A s \in Source : f[s] = [src[s] EXCEPT !.refs =
                                  @ - (IF s = from THEN 1 ELSE 0) + (IF s = to THEN 1 ELSE 0)]
  BY DEF MovedRefs
<1>2. f = [s \in Source |-> f[s]]
  BY DEF MovedRefs
<1>3. ASSUME NEW s \in Source
      PROVE  /\ f[s] \in Rec
             /\ f[s].state = src[s].state /\ f[s].priority = src[s].priority
             /\ f[s].active = src[s].active /\ f[s].ready = src[s].ready
             /\ f[s].refs = src[s].refs - Count(s = from) + Count(s = to)
             /\ f[s].state = "live" <=> f[s].refs > 0
             /\ s = to => f[s].refs > 1
  <2>1. PICK n : n = src[s].refs - Count(s = from) + Count(s = to)
    OBVIOUS
  <2>2. PICK m \in Nat : m = src[s].refs
    BY Fields
  <2>3. src[s].state = "live" <=> m > 0
    BY <2>2, Sums
  <2>4. s = from => m > 1
    BY <2>2 DEF SourcesAssumption
  <2>5. s = to => m > 0
    BY <2>3 DEF SourcesAssumption
  <2>6. PICK a \in {0, 1}, b \in {0, 1} :
          /\ a = Count(s = from) /\ b = Count(s = to)
          /\ a = 1 => m > 1
          /\ b = 1 => m > 0
          /\ s = to => b = 1
    BY <2>4, <2>5 DEF Count
  <2>7. n = m - a + b
    BY <2>1, <2>2, <2>6
  <2>8. n \in Nat /\ (n > 0 <=> m > 0) /\ (b = 1 => n > 1 \/ (a = 0 /\ n = m + 1))
    BY <2>6, <2>7
  <2>9. s = to => n > 1
    BY <2>5, <2>6, <2>8
  <2>10. f[s] = [src[s] EXCEPT !.refs = n]
    BY <1>1, <2>1 DEF Count
  <2>11. f[s] \in Rec /\ f[s].state = src[s].state /\ f[s].priority = src[s].priority
         /\ f[s].active = src[s].active /\ f[s].ready = src[s].ready /\ f[s].refs = n
    BY <2>8, <2>10, Fields DEF Rec
  <2>12. QED
    BY <2>1, <2>3, <2>8, <2>9, <2>11
<1>4. QED
  BY <1>2, <1>3

\* What the walk comes to.
LEMMA WalkIs ==
  ASSUME SourcesAssumption, IInv, NEW it, it = Advanced,
         NEW to, to = IF Ends(it) THEN None ELSE it.source,
         NEW f, f = MovedRefs(iter.source, to)
  PROVE  /\ it \in IterType /\ to \in Source \cup {None}
         /\ it.lost = iter.lost /\ it.n_ready = iter.n_ready /\ it.max = iter.max
         /\ ~ Ends(it) => to = it.source /\ to # None
         /\ to # None => src[to].state = "live"
         /\ f \in [Source -> Rec]
         /\ \A s \in Source :
              /\ f[s].state = src[s].state /\ f[s].priority = src[s].priority
              /\ f[s].active = src[s].active /\ f[s].ready = src[s].ready
              /\ f[s].refs = src[s].refs - Count(s = iter.source) + Count(s = to)
              /\ f[s].state = "live" <=> f[s].refs > 0
         /\ to # None => f[to].refs > 1
<1>1. TypeOK /\ CountInv /\ ListInv /\ PlaceInv
  BY DEF IInv
<1>2. /\ iter.source \in Source \cup {None}
      /\ iter.source # None => src[iter.source].state = "live" /\ src[iter.source].refs > 1
  <2>1. iter.source \in Source \cup {None}
    BY <1>1 DEF TypeOK
  <2>2. QED
    BY <1>1, <2>1, HeldIsLive DEF PlaceInv
<1>3. /\ it \in IterType
      /\ it.lost = iter.lost /\ it.n_ready = iter.n_ready /\ it.max = iter.max
      /\ it.source # None => src[it.source].state = "live"
  BY <1>1, <1>2, AdvancedIs
<1>4. /\ to \in Source \cup {None}
      /\ ~ Ends(it) => to = it.source /\ to # None
      /\ to # None => src[to].state = "live"
  BY <1>3 DEF Ends, IterType
<1>5. /\ f \in [Source -> Rec]
      /\ \A s \in Source :
           /\ f[s].state = src[s].state /\ f[s].priority = src[s].priority
           /\ f[s].active = src[s].active /\ f[s].ready = src[s].ready
           /\ f[s].refs = src[s].refs - Count(s = iter.source) + Count(s = to)
           /\ f[s].state = "live" <=> f[s].refs > 0
      /\ to # None => f[to].refs > 1
  BY <1>1, <1>2, <1>4, MovedIs
<1>6. QED
  BY <1>3, <1>4, <1>5

\* A reference moves, and one more may be taken: the counts follow.
LEMMA WalkCounts ==
  ASSUME SourcesAssumption, TypeOK, CountInv, NEW to \in Source \cup {None}, iter'.source = to,
         UNCHANGED <<held, calls>>, NEW d \in {0, 1}, NEW c,
         d = 0 => UNCHANGED dispatches,
         d = 1 => c \in Source /\ dispatches' = Append(dispatches, c),
         \A s \in Source :
           /\ src'[s].state = src[s].state /\ src'[s].active = src[s].active
           /\ src'[s].refs = src[s].refs - Count(s = iter.source) + Count(s = to)
                               + (IF s = c THEN d ELSE 0)
           /\ src'[s].state = "live" <=> src'[s].refs > 0,
         pc # "destroy()", pc' # "destroy()"
  PROVE  CountInv'
<1>1. ASSUME NEW s \in Source
      PROVE  /\ src'[s].refs = Rest(s)' + Count(Owned(s)')
             /\ src'[s].state = "live" <=> src'[s].refs > 0
             /\ src'[s].state = "new" => src'[s].active
  <2>1. Owned(s)' <=> Owned(s)
    BY DEF Owned
  <2>2. InCalls(s)' = InCalls(s)
    BY SameCounts
  <2>3. Pending(s)' = Pending(s) + (IF s = c THEN d ELSE 0)
    <3>1. CASE d = 0
      BY <3>1, SameCounts, PendingIs
    <3>2. CASE d = 1
      BY <3>2, PendingAppended DEF Count
    <3>3. QED
      BY <3>1, <3>2
  <2>4. PICK m \in Nat, n \in Nat : m = Pending(s) /\ n = InCalls(s)
    BY PendingIs, InCallsIs
  <2>5. PICK a \in {0, 1}, b \in {0, 1}, e \in {0, 1}, g \in {0, 1}, o \in {0, 1} :
          /\ a = Count(s \in held) /\ b = Count(iter.source = s) /\ e = Count(s = to)
          /\ g = (IF s = c THEN d ELSE 0) /\ o = Count(Owned(s))
          /\ b = Count(s = iter.source) /\ e = Count(iter'.source = s)
    BY DEF Count
  <2>6. Rest(s)' = a + e + (m + g) + n /\ Rest(s) = a + b + m + n
    BY <2>2, <2>3, <2>4, <2>5 DEF Rest
  <2>7. src[s].refs = Rest(s) + o /\ Count(Owned(s)') = o
    BY <2>1, <2>5, Sums, RestIs DEF Count
  <2>8. src'[s].refs = src[s].refs - b + e + g
    BY <2>5
  <2>9. src'[s].refs = Rest(s)' + Count(Owned(s)')
    <3>1. PICK x : x = src'[s].refs
      OBVIOUS
    <3>2. PICK y : y = Rest(s)' + Count(Owned(s)')
      OBVIOUS
    <3>3. x = (a + b + m + n + o) - b + e + g
      BY <2>6, <2>7, <2>8, <3>1
    <3>4. y = a + e + (m + g) + n + o
      BY <2>6, <2>7, <3>2
    <3>5. /\ a \in Int /\ b \in Int /\ e \in Int /\ g \in Int /\ o \in Int
          /\ m \in Int /\ n \in Int
      OBVIOUS
    <3>6. x = y
      BY <3>3, <3>4, <3>5
    <3>7. QED
      BY <3>1, <3>2, <3>6
  <2>10. QED
    BY <2>9, Sums
<1>2. QED
  BY <1>1, CountNext

LEMMA CountedIs ==
  ASSUME SourcesAssumption, TypeOK, NEW it \in IterType, it.source \in Source
  PROVE  /\ Counted(it) \in IterType
         /\ Counted(it).source = it.source /\ Counted(it).list = it.list
         /\ Counted(it).lost = it.lost /\ Counted(it).n_ready = it.n_ready + 1
         /\ Counted(it).max = src[it.source].priority
<1>1. PICK p \in Nat : p = src[it.source].priority
  BY Fields DEF SourcesAssumption
<1>2. PICK n \in Nat : n = it.n_ready + 1
  BY DEF IterType
<1>3. Counted(it) = [it EXCEPT !.n_ready = n, !.max = p]
  BY <1>1, <1>2 DEF Counted
<1>4. /\ Counted(it) \in IterType
      /\ Counted(it).source = it.source /\ Counted(it).list = it.list
      /\ Counted(it).lost = it.lost /\ Counted(it).n_ready = n
      /\ Counted(it).max = p
  BY <1>3 DEF IterType
<1>5. QED
  BY <1>1, <1>2, <1>4

\* Entries that are none need no care.
LEMMA NoEntries ==
  ASSUME dispatches' = << >>
  PROVE  EntryInv'
BY DEF EntryInv

LEMMA PrepareNextHolds ==
  ASSUME SourcesAssumption, IInv, PrepareNext
  PROVE  IInv'
<1>1. TypeOK /\ CountInv /\ ListInv /\ PlaceInv /\ EntryInv /\ pc = "prepare"
  BY DEF IInv, PrepareNext
<1>2. PICK it : it = Advanced
  OBVIOUS
<1>3. PICK to : to = IF Ends(it) THEN None ELSE it.source
  OBVIOUS
<1>4. /\ src' = MovedRefs(iter.source, to)
      /\ \/ /\ Ends(it)
            /\ pc' = "poll" /\ iter' = [it EXCEPT !.source = None]
         \/ /\ ~ Ends(it) /\ src[it.source].active /\ ~src[it.source].ready
            /\ pc' = "prepare()" /\ iter' = it
         \/ /\ ~ Ends(it) /\ ~(src[it.source].active /\ ~src[it.source].ready)
            /\ UNCHANGED pc
            /\ iter' = IF src[it.source].active THEN Counted(it) ELSE it
      /\ UNCHANGED <<lists, dispatches, held, next, calls>>
  BY <1>2, <1>3 DEF PrepareNext
<1>5. /\ it \in IterType /\ to \in Source \cup {None}
      /\ ~ Ends(it) => to = it.source /\ to # None
      /\ to # None => src[to].state = "live"
      /\ src' \in [Source -> Rec]
      /\ \A s \in Source :
           /\ src'[s].state = src[s].state /\ src'[s].priority = src[s].priority
           /\ src'[s].active = src[s].active /\ src'[s].ready = src[s].ready
           /\ src'[s].refs = src[s].refs - Count(s = iter.source) + Count(s = to)
           /\ src'[s].state = "live" <=> src'[s].refs > 0
      /\ to # None => src'[to].refs > 1
  BY <1>2, <1>3, <1>4, WalkIs
<1>6. /\ iter' \in IterType /\ iter'.source = to
      /\ pc' \in {"prepare", "prepare()", "poll"}
      /\ to = None => pc' \in {"poll", "prepare"}
      /\ pc' = "poll" => to = None
      /\ pc' = "prepare()" => to # None /\ src[to].active
  <2>1. CASE Ends(it)
    <3>1. pc' = "poll" /\ iter' = [it EXCEPT !.source = None] /\ to = None
      BY <1>3, <1>4, <2>1
    <3>2. QED
      BY <1>5, <3>1 DEF IterType
  <2>2. CASE ~ Ends(it)
    <3>1. to = it.source /\ to \in Source /\ to # None
      BY <1>5, <2>2
    <3>2. CASE src[to].active /\ ~src[to].ready
      BY <1>4, <1>5, <2>2, <3>1, <3>2
    <3>3. CASE ~ (src[to].active /\ ~src[to].ready)
      <4>1. pc' = "prepare" /\ iter' = IF src[to].active THEN Counted(it) ELSE it
        BY <1>1, <1>4, <2>2, <3>1, <3>3
      <4>2. Counted(it) \in IterType /\ Counted(it).source = to
        BY <1>1, <1>5, <3>1, CountedIs
      <4>3. QED
        BY <1>5, <3>1, <4>1, <4>2
    <3>4. QED
      BY <3>2, <3>3
  <2>3. QED
    BY <2>1, <2>2
<1>7. TypeOK'
  BY <1>1, <1>4, <1>5, <1>6 DEF TypeOK, Rec, IterType
<1>8. ListInv'
  BY <1>1, <1>4, <1>5, ListsStay
<1>9. CountInv'
  <2>1. ASSUME NEW s \in Source
        PROVE  src'[s].refs = src[s].refs - Count(s = iter.source) + Count(s = to)
                                + (IF s = None THEN 0 ELSE 0)
    <3>1. src'[s].refs = src[s].refs - Count(s = iter.source) + Count(s = to)
      BY <1>5
    <3>2. src'[s].refs \in Nat
      BY <1>5 DEF Rec
    <3>3. QED
      BY <3>1, <3>2
  <2>2. UNCHANGED <<held, calls>> /\ UNCHANGED dispatches /\ iter'.source = to
        /\ pc # "destroy()" /\ pc' # "destroy()" /\ 0 \in {0, 1} /\ 0 # 1
    BY <1>1, <1>4, <1>6
  <2>3. \A s \in Source :
           /\ src'[s].state = src[s].state /\ src'[s].active = src[s].active
           /\ src'[s].refs = src[s].refs - Count(s = iter.source) + Count(s = to)
                               + (IF s = None THEN 0 ELSE 0)
           /\ src'[s].state = "live" <=> src'[s].refs > 0
    BY <1>5, <2>1
  <2>4. QED
    BY <1>1, <1>5, <2>2, <2>3, WalkCounts
<1>10. PlaceInv'
  BY <1>1, <1>4, <1>5, <1>6 DEF PlaceInv
<1>11. EntryInv'
  BY <1>1, <1>4, NoEntries DEF PlaceInv
<1>12. QED
  BY <1>7, <1>8, <1>9, <1>10, <1>11 DEF IInv

\* The counts stay right if nobody takes or drops a reference.
LEMMA NothingCounted ==
  ASSUME TypeOK, CountInv, UNCHANGED <<held, dispatches, calls>>, iter'.source = iter.source,
         \A s \in Source : /\ src'[s].refs = src[s].refs /\ src'[s].state = src[s].state
                           /\ src'[s].active = src[s].active,
         pc # "destroy()", pc' # "destroy()"
  PROVE  CountInv'
<1>1. ASSUME NEW s \in Source
      PROVE  /\ src'[s].refs = Rest(s)' + Count(Owned(s)')
             /\ src'[s].state = "live" <=> src'[s].refs > 0
             /\ src'[s].state = "new" => src'[s].active
  <2>1. Owned(s)' <=> Owned(s)
    BY DEF Owned
  <2>2. Pending(s)' = Pending(s) /\ InCalls(s)' = InCalls(s)
    BY SameCounts
  <2>3. Rest(s)' = Rest(s)
    BY <2>2 DEF Rest
  <2>4. src[s].refs = Rest(s) + Count(Owned(s))
    BY Sums, RestIs
  <2>5. QED
    BY <2>1, <2>3, <2>4, Sums DEF Count
<1>2. QED
  BY <1>1, CountNext

LEMMA PrepareReturnsHolds ==
  ASSUME SourcesAssumption, IInv, NEW ready \in BOOLEAN, PrepareReturns(ready)
  PROVE  IInv'
<1>1. /\ TypeOK /\ CountInv /\ ListInv /\ PlaceInv /\ EntryInv
      /\ pc = "prepare()" /\ pc' = "prepare"
      /\ src' = [src EXCEPT ![iter.source].ready = ready]
      /\ iter' = IF ready THEN Counted(iter) ELSE iter
      /\ UNCHANGED <<lists, dispatches, held, next, calls>>
  BY DEF IInv, PrepareReturns
<1>2. PICK t \in Source : t = iter.source
  BY <1>1 DEF PlaceInv, TypeOK
<1>3. /\ iter \in IterType /\ Counted(iter) \in IterType /\ Counted(iter).source = t
  BY <1>1, <1>2, CountedIs DEF TypeOK, IterType
<1>4. iter' \in IterType /\ iter'.source = iter.source
  BY <1>1, <1>2, <1>3
<1>5. /\ src' \in [Source -> Rec]
      /\ \A s \in Source : /\ src'[s].refs = src[s].refs /\ src'[s].state = src[s].state
                           /\ src'[s].active = src[s].active
                           /\ src'[s].priority = src[s].priority
  <2>1. src \in [Source -> Rec] /\ src' = [src EXCEPT ![t].ready = ready]
    BY <1>1, <1>2 DEF TypeOK, Rec
  <2>2. QED
    BY <2>1 DEF Rec
<1>6. TypeOK'
  BY <1>1, <1>4, <1>5 DEF TypeOK, Rec, IterType
<1>7. ListInv'
  BY <1>1, <1>5, ListsStay
<1>8. CountInv'
  BY <1>1, <1>4, <1>5, NothingCounted
<1>9. PlaceInv'
  <2>1. src'[t].refs > 1 /\ iter'.source = t
    BY <1>1, <1>2, <1>4, <1>5 DEF PlaceInv, SourcesAssumption
  <2>2. dispatches' = << >> /\ next' >= 1
    BY <1>1 DEF PlaceInv
  <2>3. QED
    BY <1>1, <2>1, <2>2 DEF PlaceInv
<1>10. EntryInv'
  BY <1>1, NoEntries DEF PlaceInv
<1>11. QED
  BY <1>6, <1>7, <1>8, <1>9, <1>10 DEF IInv

-----------------------------------------------------------------------------
(* check *)

LEMMA CheckBeginHolds ==
  ASSUME SourcesAssumption, IInv, CheckBegin
  PROVE  IInv'
<1>1. /\ TypeOK /\ CountInv /\ ListInv /\ PlaceInv /\ EntryInv
      /\ pc = "poll" /\ pc' = "check" /\ iter' = [NoIter EXCEPT !.max = iter.max]
      /\ UNCHANGED <<src, lists, dispatches, held, next, calls>>
  BY DEF IInv, CheckBegin
<1>2. iter' \in IterType /\ iter'.source = None /\ iter.source = None
  BY <1>1 DEF PlaceInv, TypeOK, IterType, NoIter
<1>3. TypeOK'
  BY <1>1, <1>2 DEF TypeOK, IterType
<1>4. ListInv'
  BY <1>1, ListsStay
<1>5. CountInv'
  BY <1>1, <1>2, NothingCounted
<1>6. PlaceInv'
  BY <1>1, <1>2 DEF PlaceInv
<1>7. EntryInv'
  BY <1>1, NoEntries DEF PlaceInv
<1>8. QED
  BY <1>3, <1>4, <1>5, <1>6, <1>7 DEF IInv

\* An entry that is appended is not empty.
LEMMA EntriesGrow ==
  ASSUME SourcesAssumption, TypeOK, EntryInv, pc \in {"check", "check()"},
         pc' \in {"check", "check()"}, NEW t \in Source, Chosen(t)
  PROVE  EntryInv' /\ dispatches' \in Seq(Source \cup {None})
<1>1. PICK n \in Nat : n = Len(dispatches)
  BY DEF TypeOK
<1>2. /\ dispatches' \in Seq(Source \cup {None}) /\ Len(dispatches') = n + 1
      /\ dispatches'[n + 1] = t /\ \A i \in 1 .. n : dispatches'[i] = dispatches[i]
  BY <1>1, AppendProperties DEF TypeOK, Chosen
<1>3. From = 1 /\ From' = 1
  BY DEF From
<1>4. \A i \in 1 .. n : dispatches[i] # None
  BY <1>1, <1>3 DEF EntryInv
<1>5. \A i \in 1 .. n + 1 : dispatches'[i] # None
  <2>1. \A i \in 1 .. n + 1 : i \in 1 .. n \/ i = n + 1
    OBVIOUS
  <2>2. QED
    BY <1>2, <1>4, <2>1 DEF SourcesAssumption
<1>6. \A i \in 1 .. n + 1 : ~ (i < 1)
  OBVIOUS
<1>7. QED
  BY <1>2, <1>3, <1>5, <1>6 DEF EntryInv

\* The walk ends, or comes to a source.
LEMMA CheckNextHolds ==
  ASSUME SourcesAssumption, IInv, CheckNext
  PROVE  IInv'
<1>1. TypeOK /\ CountInv /\ ListInv /\ PlaceInv /\ EntryInv /\ pc = "check"
  BY DEF IInv, CheckNext
<1>2. PICK it : it = Advanced
  OBVIOUS
<1>3. PICK to : to = IF Ends(it) THEN None ELSE it.source
  OBVIOUS
<1>4. PICK f : f = MovedRefs(iter.source, to)
  OBVIOUS
<1>5. /\ \/ /\ Ends(it)
            /\ src' = f /\ pc' = "checked" /\ iter' = NoIter
            /\ UNCHANGED dispatches
         \/ /\ ~ Ends(it) /\ src[it.source].active /\ src[it.source].ready
            /\ src' = [f EXCEPT ![it.source].refs = @ + 1]
            /\ Chosen(it.source)
            /\ iter' = Counted(it)
            /\ UNCHANGED pc
         \/ /\ ~ Ends(it) /\ ~ (src[it.source].active /\ src[it.source].ready)
            /\ src' = f /\ iter' = it
            /\ pc' = IF src[it.source].active THEN "check()" ELSE pc
            /\ UNCHANGED dispatches
      /\ UNCHANGED <<lists, held, next, calls>>
  BY <1>2, <1>3, <1>4 DEF CheckNext
<1>6. /\ it \in IterType /\ to \in Source \cup {None}
      /\ ~ Ends(it) => to = it.source /\ to # None
      /\ to # None => src[to].state = "live"
      /\ f \in [Source -> Rec]
      /\ \A s \in Source :
           /\ f[s].state = src[s].state /\ f[s].priority = src[s].priority
           /\ f[s].active = src[s].active /\ f[s].ready = src[s].ready
           /\ f[s].refs = src[s].refs - Count(s = iter.source) + Count(s = to)
           /\ f[s].state = "live" <=> f[s].refs > 0
      /\ to # None => f[to].refs > 1
  BY <1>2, <1>3, <1>4, WalkIs
<1>7. ASSUME src' = f, UNCHANGED dispatches, iter' \in IterType, iter'.source = to,
             pc' \in {"check", "check()", "checked"}, pc' = "checked" => to = None,
             pc' = "check()" => to # None /\ src[to].active
      PROVE  IInv'
  <2>1. TypeOK'
    BY <1>1, <1>5, <1>6, <1>7 DEF TypeOK, Rec, IterType
  <2>2. ListInv'
    BY <1>1, <1>5, <1>6, <1>7, ListsStay
  <2>3. CountInv'
    <3>1. \A s \in Source :
            src'[s].refs = src[s].refs - Count(s = iter.source) + Count(s = to)
                             + (IF s = None THEN 0 ELSE 0)
      <4>1. ASSUME NEW s \in Source
            PROVE  src'[s].refs = src[s].refs - Count(s = iter.source) + Count(s = to)
                                    + (IF s = None THEN 0 ELSE 0)
        <5>1. src'[s].refs = src[s].refs - Count(s = iter.source) + Count(s = to)
          BY <1>6, <1>7
        <5>2. src'[s].refs \in Nat
          BY <1>6, <1>7 DEF Rec
        <5>3. QED
          BY <5>1, <5>2
      <4>2. QED
        BY <4>1
    <3>2. \A s \in Source :
            /\ src'[s].state = src[s].state /\ src'[s].active = src[s].active
            /\ src'[s].refs = src[s].refs - Count(s = iter.source) + Count(s = to)
                                + (IF s = None THEN 0 ELSE 0)
            /\ src'[s].state = "live" <=> src'[s].refs > 0
      BY <1>6, <1>7, <3>1
    <3>3. UNCHANGED <<held, calls>> /\ pc # "destroy()" /\ pc' # "destroy()" /\ 0 \in {0, 1}
          /\ 0 # 1
      BY <1>1, <1>5, <1>7
    <3>4. QED
      BY <1>1, <1>6, <1>7, <3>2, <3>3, WalkCounts
  <2>4. PlaceInv'
    BY <1>1, <1>5, <1>6, <1>7 DEF PlaceInv
  <2>5. EntryInv'
    <3>1. From = 1 /\ From' = 1
      BY <1>1, <1>7 DEF From
    <3>2. QED
      BY <1>1, <1>7, <3>1 DEF EntryInv
  <2>6. QED
    BY <2>1, <2>2, <2>3, <2>4, <2>5 DEF IInv
<1>8. CASE Ends(it)
  <2>1. src' = f /\ pc' = "checked" /\ iter' = NoIter /\ UNCHANGED dispatches /\ to = None
    BY <1>3, <1>5, <1>8
  <2>2. iter' \in IterType /\ iter'.source = to
    BY <2>1 DEF NoIter, IterType
  <2>3. QED
    BY <1>7, <2>1, <2>2
<1>9. CASE ~ Ends(it) /\ ~ (src[it.source].active /\ src[it.source].ready)
  <2>1. /\ src' = f /\ iter' = it /\ UNCHANGED dispatches /\ to = it.source /\ to # None
        /\ pc' = IF src[it.source].active THEN "check()" ELSE "check"
    BY <1>1, <1>5, <1>6, <1>9
  <2>2. QED
    BY <1>6, <1>7, <2>1
<1>10. CASE ~ Ends(it) /\ src[it.source].active /\ src[it.source].ready
  <2>1. to = it.source /\ to # None /\ to \in Source
    BY <1>6, <1>10
  <2>2. /\ src' = [f EXCEPT ![to].refs = @ + 1] /\ Chosen(to) /\ iter' = Counted(it)
        /\ UNCHANGED pc
    BY <1>5, <1>10, <2>1
  <2>3. iter' \in IterType /\ iter'.source = to
    BY <1>1, <1>6, <2>1, <2>2, CountedIs
  <2>4. /\ src' \in [Source -> Rec]
        /\ \A s \in Source :
             /\ src'[s].state = f[s].state /\ src'[s].priority = f[s].priority
             /\ src'[s].active = f[s].active
             /\ src'[s].refs = f[s].refs + (IF s = to THEN 1 ELSE 0)
    <3>1. f[to].refs + 1 \in Nat /\ \A s \in Source : f[s].refs \in Nat
      BY <1>6, <2>1 DEF Rec
    <3>2. src' \in [Source -> Rec]
      BY <1>6, <2>1, <2>2, <3>1 DEF Rec
    <3>3. ASSUME NEW s \in Source
          PROVE  /\ src'[s].state = f[s].state /\ src'[s].priority = f[s].priority
                 /\ src'[s].active = f[s].active
                 /\ src'[s].refs = f[s].refs + (IF s = to THEN 1 ELSE 0)
      BY <1>6, <2>1, <2>2, <3>1 DEF Rec
    <3>4. QED
      BY <3>2, <3>3
  <2>5. EntryInv' /\ dispatches' \in Seq(Source \cup {None})
    BY <1>1, <2>1, <2>2, EntriesGrow
  <2>6. TypeOK'
    BY <1>1, <1>5, <2>2, <2>3, <2>4, <2>5 DEF TypeOK, Rec, IterType
  <2>7. ListInv'
    BY <1>1, <1>5, <1>6, <2>4, ListsStay
  <2>8. CountInv'
    <3>1. ASSUME NEW s \in Source
          PROVE  /\ src'[s].state = src[s].state /\ src'[s].active = src[s].active
                 /\ src'[s].refs = src[s].refs - Count(s = iter.source) + Count(s = to)
                                     + (IF s = to THEN 1 ELSE 0)
                 /\ src'[s].state = "live" <=> src'[s].refs > 0
      <4>1. f[s].refs \in Nat /\ src'[s].refs = f[s].refs + (IF s = to THEN 1 ELSE 0)
        BY <1>6, <2>4 DEF Rec
      <4>2. s = to => f[s].refs > 1
        BY <1>6, <2>1
      <4>3. src'[s].refs > 0 <=> f[s].refs > 0
        BY <4>1, <4>2
      <4>4. QED
        BY <1>6, <2>4, <4>3
    <3>2. /\ UNCHANGED <<held, calls>> /\ pc # "destroy()" /\ pc' # "destroy()" /\ 1 \in {0, 1}
          /\ 1 # 0 /\ dispatches' = Append(dispatches, to)
      BY <1>1, <1>5, <2>2 DEF Chosen
    <3>3. QED
      BY <1>1, <1>6, <2>1, <2>3, <3>1, <3>2, WalkCounts
  <2>9. PlaceInv'
    <3>1. src'[to].refs > 1
      <4>1. f[to].refs > 1 /\ f[to].refs \in Nat
        BY <1>6, <2>1 DEF Rec
      <4>2. QED
        BY <2>1, <2>4, <4>1
    <3>2. QED
      BY <1>1, <1>5, <2>1, <2>2, <2>3, <3>1 DEF PlaceInv
  <2>10. QED
    BY <2>5, <2>6, <2>7, <2>8, <2>9 DEF IInv
<1>11. QED
  BY <1>8, <1>9, <1>10

LEMMA CheckReturnsHolds ==
  ASSUME SourcesAssumption, IInv, NEW ready \in BOOLEAN, CheckReturns(ready)
  PROVE  IInv'
<1>1. /\ TypeOK /\ CountInv /\ ListInv /\ PlaceInv /\ EntryInv
      /\ pc = "check()" /\ pc' = "check"
      /\ UNCHANGED <<lists, held, next, calls>>
  BY DEF IInv, CheckReturns
<1>2. PICK t \in Source : t = iter.source /\ t # None
  BY <1>1 DEF PlaceInv, TypeOK
<1>3. src[t].refs > 1 /\ next >= 1 /\ src[t].state = "live"
  BY <1>1, <1>2, HeldIsLive DEF PlaceInv
<1>4. CASE ready
  <2>1. /\ src' = [src EXCEPT ![t].ready = TRUE, ![t].refs = @ + 1]
        /\ Chosen(t) /\ iter' = Counted(iter)
    BY <1>2, <1>4 DEF CheckReturns
  <2>2. iter' \in IterType /\ iter'.source = t
    BY <1>1, <1>2, <2>1, CountedIs DEF TypeOK, IterType
  <2>3. /\ src' \in [Source -> Rec]
        /\ \A s \in Source :
             /\ src'[s].state = src[s].state /\ src'[s].priority = src[s].priority
             /\ src'[s].active = src[s].active
             /\ src'[s].refs = src[s].refs + (IF s = t THEN 1 ELSE 0)
    <3>1. src \in [Source -> Rec] /\ src[t].refs + 1 \in Nat
      BY <1>1, Fields DEF TypeOK, Rec
    <3>2. src' \in [Source -> Rec]
      BY <2>1, <3>1 DEF Rec
    <3>3. ASSUME NEW s \in Source
          PROVE  /\ src'[s].state = src[s].state /\ src'[s].priority = src[s].priority
                 /\ src'[s].active = src[s].active
                 /\ src'[s].refs = src[s].refs + (IF s = t THEN 1 ELSE 0)
      BY <2>1, <3>1 DEF Rec
    <3>4. QED
      BY <3>2, <3>3
  <2>4. EntryInv' /\ dispatches' \in Seq(Source \cup {None})
    BY <1>1, <2>1, EntriesGrow
  <2>5. TypeOK'
    BY <1>1, <2>2, <2>3, <2>4 DEF TypeOK, Rec, IterType
  <2>6. ListInv'
    BY <1>1, <2>3, ListsStay
  <2>7. CountInv'
    <3>1. ASSUME NEW s \in Source
          PROVE  /\ src'[s].state = src[s].state /\ src'[s].active = src[s].active
                 /\ src'[s].refs = src[s].refs - Count(s = iter.source) + Count(s = t)
                                     + (IF s = t THEN 1 ELSE 0)
                 /\ src'[s].state = "live" <=> src'[s].refs > 0
      <4>1. src[s].refs \in Nat /\ (src[s].state = "live" <=> src[s].refs > 0)
        BY <1>1, Sums, Fields
      <4>2. Count(s = iter.source) = Count(s = t) /\ Count(s = t) \in {0, 1}
        BY <1>2 DEF Count
      <4>3. src'[s].refs = src[s].refs + (IF s = t THEN 1 ELSE 0)
        BY <2>3
      <4>4. src'[s].refs = src[s].refs - Count(s = iter.source) + Count(s = t)
              + (IF s = t THEN 1 ELSE 0)
        BY <4>1, <4>2, <4>3
      <4>5. src'[s].refs > 0 <=> src[s].refs > 0
        BY <1>3, <4>1, <4>3
      <4>6. QED
        BY <2>3, <4>1, <4>4, <4>5
    <3>2. /\ UNCHANGED <<held, calls>> /\ pc # "destroy()" /\ pc' # "destroy()" /\ 1 \in {0, 1}
          /\ 1 # 0 /\ dispatches' = Append(dispatches, t)
      BY <1>1, <2>1 DEF Chosen
    <3>3. QED
      BY <1>1, <2>2, <3>1, <3>2, WalkCounts
  <2>8. PlaceInv'
    <3>1. src'[t].refs > 1
      <4>1. src[t].refs \in Nat
        BY <1>1, Fields
      <4>2. QED
        BY <1>3, <2>3, <4>1
    <3>2. QED
      BY <1>1, <1>3, <2>2, <3>1 DEF PlaceInv
  <2>9. QED
    BY <2>4, <2>5, <2>6, <2>7, <2>8 DEF IInv
<1>5. CASE ~ ready
  <2>1. UNCHANGED <<src, dispatches, iter>>
    BY <1>5 DEF CheckReturns
  <2>2. TypeOK'
    BY <1>1, <2>1 DEF TypeOK
  <2>3. ListInv'
    BY <1>1, <2>1, ListsStay
  <2>4. CountInv'
    BY <1>1, <2>1, NothingCounted
  <2>5. PlaceInv'
    BY <1>1, <1>2, <1>3, <2>1 DEF PlaceInv
  <2>6. EntryInv'
    <3>1. From = 1 /\ From' = 1
      BY <1>1 DEF From
    <3>2. QED
      BY <1>1, <2>1, <3>1 DEF EntryInv
  <2>7. QED
    BY <2>2, <2>3, <2>4, <2>5, <2>6 DEF IInv
<1>6. QED
  BY <1>4, <1>5

-----------------------------------------------------------------------------
(* dispatch *)

LEMMA DispatchBeginHolds ==
  ASSUME SourcesAssumption, IInv, DispatchBegin
  PROVE  IInv'
<1>1. /\ TypeOK /\ CountInv /\ ListInv /\ PlaceInv /\ EntryInv
      /\ pc = "checked" /\ pc' = "dispatch" /\ next' = 1
      /\ UNCHANGED <<src, lists, dispatches, held, iter, calls>>
  BY DEF IInv, DispatchBegin
<1>2. TypeOK'
  BY <1>1 DEF TypeOK
<1>3. ListInv'
  BY <1>1, ListsStay
<1>4. CountInv'
  BY <1>1, NothingCounted
<1>5. PlaceInv'
  BY <1>1 DEF PlaceInv
<1>6. EntryInv'
  <2>1. From = 1 /\ From' = 1
    BY <1>1 DEF From
  <2>2. QED
    BY <1>1, <2>1 DEF EntryInv
<1>7. QED
  BY <1>2, <1>3, <1>4, <1>5, <1>6 DEF IInv

\* The entries after that at "next" was taken.
LEMMA EntryTaken ==
  ASSUME TypeOK, EntryInv, pc = "dispatch", next \in 1 .. Len(dispatches),
         Len(dispatches') = Len(dispatches), dispatches'[next] = None,
         \A i \in 1 .. Len(dispatches) : i # next => dispatches'[i] = dispatches[i],
         From' = next + 1
  PROVE  EntryInv'
<1>1. PICK n \in Nat : n = Len(dispatches)
  BY DEF TypeOK
<1>2. PICK k \in 1 .. n : k = next
  BY <1>1
<1>3. From = k
  BY <1>2 DEF From
<1>4. \A i \in 1 .. n : (i < k => dispatches[i] = None) /\ (i >= k => dispatches[i] # None)
  BY <1>1, <1>3 DEF EntryInv
<1>5. ASSUME NEW i \in 1 .. n
      PROVE  /\ i < k + 1 => dispatches'[i] = None
             /\ i >= k + 1 => dispatches'[i] # None
  <2>1. CASE i = k
    BY <1>1, <1>2, <2>1
  <2>2. CASE i # k
    <3>1. dispatches'[i] = dispatches[i]
      BY <1>1, <1>2, <2>2
    <3>2. (i < k + 1 => i < k) /\ (i >= k + 1 => i >= k)
      BY <2>2
    <3>3. QED
      BY <1>4, <3>1, <3>2
  <2>3. QED
    BY <2>1, <2>2
<1>6. From' = k + 1 /\ Len(dispatches') = n
  BY <1>1, <1>2
<1>7. QED
  BY <1>5, <1>6 DEF EntryInv

LEMMA DispatchNextHolds ==
  ASSUME SourcesAssumption, IInv, DispatchNext
  PROVE  IInv'
<1>1. /\ TypeOK /\ CountInv /\ ListInv /\ PlaceInv /\ EntryInv
      /\ pc = "dispatch" /\ next <= Len(dispatches)
      /\ dispatches' = [dispatches EXCEPT ![next] = None]
      /\ UNCHANGED <<held, iter>>
  BY DEF IInv, DispatchNext
<1>2. next \in 1 .. Len(dispatches) /\ next \in Nat
  <2>1. next \in Nat /\ Len(dispatches) \in Nat /\ next >= 1
    BY <1>1 DEF TypeOK, PlaceInv
  <2>2. QED
    BY <1>1, <2>1
<1>3. PICK s \in Source : s = dispatches[next]
  <2>1. dispatches[next] # None
    BY <1>1, <1>2 DEF EntryInv, From
  <2>2. dispatches[next] \in Source \cup {None}
    BY <1>1, <1>2, ElementOfSeq DEF TypeOK
  <2>3. QED
    BY <2>1, <2>2
<1>4. src[s].state = "live" /\ Rest(s) >= 1
  BY <1>1, <1>2, <1>3, HeldIsLive, RestIs
<1>5. iter.source = None
  BY <1>1 DEF PlaceInv
<1>6. CASE src[s].active
  <2>1. /\ src' = [src EXCEPT ![s].ready = FALSE] /\ pc' = "user"
        /\ calls' = Append(calls, [source |-> s, next |-> next])
        /\ UNCHANGED <<lists, next>>
    BY <1>3, <1>6 DEF DispatchNext
  <2>2. PICK c \in [source : Source, next : Nat] :
          c = [source |-> s, next |-> next] /\ c.source = s /\ c.next = next
    <3>1. PICK c : c = [source |-> s, next |-> next]
      OBVIOUS
    <3>2. next \in Nat
      BY <1>2
    <3>3. c \in [source : Source, next : Nat] /\ c.source = s /\ c.next = next
      BY <3>1, <3>2
    <3>4. QED
      BY <3>1, <3>3
  <2>3. PICK n \in Nat : n = Len(calls)
    BY <1>1 DEF TypeOK
  <2>4. /\ calls' \in Seq([source : Source, next : Nat]) /\ Len(calls') = n + 1
        /\ calls'[n + 1] = c /\ calls' # << >>
    <3>1. calls \in Seq([source : Source, next : Nat]) /\ calls' = Append(calls, c)
      BY <1>1, <2>1, <2>2 DEF TypeOK
    <3>2. /\ calls' \in Seq([source : Source, next : Nat]) /\ Len(calls') = n + 1
          /\ calls'[n + 1] = c
      BY <2>3, <3>1, AppendProperties
    <3>3. n + 1 # 0
      BY <2>3
    <3>4. QED
      BY <3>2, <3>3
  <2>5. /\ dispatches' \in Seq(Source \cup {None}) /\ Len(dispatches') = Len(dispatches)
        /\ dispatches'[next] = None
        /\ \A i \in 1 .. Len(dispatches) : i # next => dispatches'[i] = dispatches[i]
    BY <1>1, <1>2, ExceptSeq DEF TypeOK
  <2>6. /\ src' \in [Source -> Rec]
        /\ \A r \in Source : /\ src'[r].refs = src[r].refs /\ src'[r].state = src[r].state
                             /\ src'[r].active = src[r].active
                             /\ src'[r].priority = src[r].priority
    <3>1. src \in [Source -> Rec]
      BY <1>1 DEF TypeOK, Rec
    <3>2. src' = [src EXCEPT ![s].ready = FALSE]
      BY <2>1
    <3>3. src' \in [Source -> Rec]
      <4>1. PICK r : r = [src[s] EXCEPT !.ready = FALSE]
        OBVIOUS
      <4>2. src[s] \in Rec
        BY <3>1
      <4>3. r \in Rec
        BY <4>1, <4>2 DEF Rec
      <4>4. src' = [src EXCEPT ![s] = r]
        BY <3>2, <4>1
      <4>5. QED
        BY <3>1, <4>3, <4>4
    <3>4. ASSUME NEW r \in Source
          PROVE  /\ src'[r].refs = src[r].refs /\ src'[r].state = src[r].state
                 /\ src'[r].active = src[r].active /\ src'[r].priority = src[r].priority
      BY <3>1, <3>2 DEF Rec
    <3>5. QED
      BY <3>3, <3>4
  <2>7. TypeOK'
    BY <1>1, <2>1, <2>4, <2>5, <2>6 DEF TypeOK, Rec
  <2>8. ListInv'
    BY <1>1, <2>1, <2>6, ListsStay
  <2>9. CountInv'
    <3>1. ASSUME NEW r \in Source
          PROVE  /\ src'[r].refs = Rest(r)' + Count(Owned(r)')
                 /\ src'[r].state = "live" <=> src'[r].refs > 0
                 /\ src'[r].state = "new" => src'[r].active
      <4>1. Owned(r)' <=> Owned(r)
        BY <1>1, <2>1, <2>6 DEF Owned
      <4>2. Pending(r)' = Pending(r) - Count(r = s)
        BY <1>1, <1>2, <1>3, PendingTaken DEF SourcesAssumption
      <4>3. InCalls(r)' = InCalls(r) + Count(r = s)
        BY <1>1, <2>1, <2>2, CallsAppended
      <4>4. PICK a \in Nat, b \in Nat : a = Pending(r) /\ b = InCalls(r)
        BY <1>1, PendingIs, InCallsIs
      <4>5. PICK d \in {0, 1}, e \in {0, 1}, g \in {0, 1} :
              d = Count(r \in held) /\ e = Count(iter.source = r) /\ g = Count(r = s)
        BY DEF Count
      <4>6. Rest(r)' = d + e + (a - g) + (b + g) /\ Rest(r) = d + e + a + b
        BY <1>1, <4>2, <4>3, <4>4, <4>5 DEF Rest
      <4>7. Rest(r)' = Rest(r)
        BY <4>4, <4>5, <4>6
      <4>8. src[r].refs = Rest(r) + Count(Owned(r))
        BY <1>1, Sums, RestIs
      <4>9. QED
        BY <1>1, <2>6, <4>1, <4>7, <4>8, Sums DEF Count
    <3>2. QED
      BY <3>1, CountNext
  <2>10. PlaceInv'
    <3>1. next' >= 1
      BY <1>1, <2>1 DEF PlaceInv
    <3>2. QED
      BY <1>1, <1>5, <2>1, <2>4, <3>1 DEF PlaceInv
  <2>11. EntryInv'
    <3>1. Call'.next = next
      BY <2>2, <2>4 DEF Call
    <3>2. From' = next + 1
      BY <2>1, <2>4, <3>1 DEF From
    <3>3. QED
      BY <1>1, <1>2, <2>5, <3>2, EntryTaken
  <2>12. QED
    BY <2>7, <2>8, <2>9, <2>10, <2>11 DEF IInv
<1>7. CASE ~ src[s].active
  <2>1. Unref(s, 1) /\ next' = next + 1 /\ UNCHANGED <<pc, calls>>
    BY <1>3, <1>7 DEF DispatchNext
  <2>2. /\ dispatches' \in Seq(Source \cup {None}) /\ Len(dispatches') = Len(dispatches)
        /\ dispatches'[next] = None
        /\ \A i \in 1 .. Len(dispatches) : i # next => dispatches'[i] = dispatches[i]
        /\ \A r \in Source : Rest(r)' = Rest(r) - Count(r = s)
    BY <1>1, <1>2, <1>3, <2>1, TakenCounts
  <2>3. /\ src' \in [Source -> Rec] /\ lists' \in [Priority -> Seq(Source)]
        /\ ListInv' /\ CountInv'
    BY <1>1, <1>4, <2>1, <2>2, UnrefOne
  <2>4. next' \in Nat /\ next' >= 1
    BY <1>2, <2>1
  <2>5. TypeOK'
    BY <1>1, <2>1, <2>2, <2>3, <2>4 DEF TypeOK, Rec
  <2>6. PlaceInv'
    BY <1>1, <1>5, <2>1, <2>4 DEF PlaceInv
  <2>7. EntryInv'
    <3>1. From' = next + 1
      BY <1>1, <2>1 DEF From
    <3>2. QED
      BY <1>1, <1>2, <2>2, <3>1, EntryTaken
  <2>8. QED
    BY <2>3, <2>5, <2>6, <2>7 DEF IInv
<1>8. QED
  BY <1>6, <1>7

LEMMA DispatchEndHolds ==
  ASSUME SourcesAssumption, IInv, DispatchEnd
  PROVE  IInv'
<1>1. /\ TypeOK /\ CountInv /\ ListInv /\ PlaceInv /\ EntryInv
      /\ pc = "dispatch" /\ next > Len(dispatches) /\ dispatches' = << >> /\ pc' = "user"
      /\ UNCHANGED <<src, lists, held, iter, next, calls>>
  BY DEF IInv, DispatchEnd
<1>2. TypeOK'
  BY <1>1 DEF TypeOK
<1>3. ListInv'
  BY <1>1, ListsStay
<1>4. CountInv'
  <2>1. ASSUME NEW s \in Source
        PROVE  /\ src'[s].refs = Rest(s)' + Count(Owned(s)')
               /\ src'[s].state = "live" <=> src'[s].refs > 0
               /\ src'[s].state = "new" => src'[s].active
    <3>1. Pending(s) = 0
      BY <1>1, AllTaken DEF From
    <3>2. Pending(s)' = 0 /\ InCalls(s)' = InCalls(s)
      BY <1>1, PendingEmpty, SameCounts
    <3>3. Rest(s)' = Rest(s)
      BY <1>1, <3>1, <3>2 DEF Rest
    <3>4. Owned(s)' <=> Owned(s)
      BY <1>1 DEF Owned
    <3>5. src[s].refs = Rest(s) + Count(Owned(s))
      BY <1>1, Sums, RestIs
    <3>6. QED
      BY <1>1, <3>3, <3>4, <3>5, Sums DEF Count
  <2>2. QED
    BY <2>1, CountNext
<1>5. PlaceInv'
  BY <1>1 DEF PlaceInv
<1>6. EntryInv'
  BY <1>1, NoEntries
<1>7. QED
  BY <1>2, <1>3, <1>4, <1>5, <1>6 DEF IInv

\* The rest of a dispatch, after its callback: n references are dropped.
LEMMA LeaveHolds ==
  ASSUME SourcesAssumption, IInv, pc \in {"user", "destroy()"}, calls # << >>, LeaveCall,
         UNCHANGED <<dispatches, held, iter>>,
         src' \in [Source -> Rec], lists' \in [Priority -> Seq(Source)], ListInv', CountInv'
  PROVE  IInv'
<1>1. /\ TypeOK /\ CountInv /\ ListInv /\ PlaceInv /\ EntryInv
      /\ calls' = SubSeq(calls, 1, Len(calls) - 1) /\ next' = Call.next + 1 /\ pc' = "dispatch"
  BY DEF IInv, LeaveCall
<1>2. Call.next \in Nat
  BY <1>1, CallIs
<1>3. calls' \in Seq([source : Source, next : Nat])
  BY <1>1, CallsLeft
<1>4. next' \in Nat /\ next' >= 1
  BY <1>1, <1>2
<1>5. TypeOK'
  BY <1>1, <1>3, <1>4 DEF TypeOK, Rec
<1>6. PlaceInv'
  BY <1>1, <1>4 DEF PlaceInv
<1>7. EntryInv'
  <2>1. From = Call.next + 1 /\ From' = Call.next + 1
    BY <1>1 DEF From
  <2>2. \A i \in 1 .. Len(dispatches) : /\ i < Call.next + 1 => dispatches[i] = None
                                        /\ i >= Call.next + 1 => dispatches[i] # None
    BY <1>1, <2>1 DEF EntryInv
  <2>3. QED
    BY <2>1, <2>2 DEF EntryInv
<1>8. QED
  BY <1>5, <1>6, <1>7 DEF IInv

LEMMA CallReturnsHolds ==
  ASSUME SourcesAssumption, IInv, NEW again \in BOOLEAN, CallReturns(again)
  PROVE  IInv'
<1>1. /\ TypeOK /\ CountInv /\ ListInv /\ PlaceInv /\ EntryInv
      /\ pc = "user" /\ calls # << >> /\ UNCHANGED <<dispatches, held, iter>>
  BY DEF IInv, CallReturns
<1>2. PICK s \in Source : /\ s = Call.source
                          /\ Len(calls) \in 1 .. Len(calls) /\ calls[Len(calls)].source = s
  BY <1>1, CallIs
<1>3. src[s].state = "live" /\ Rest(s) >= 1 /\ src[s].refs > 0
  BY <1>1, <1>2, HeldIsLive, RestIs
<1>4. CASE again \/ ~ src[s].active
  <2>1. Unref(s, 1) /\ LeaveCall
    BY <1>2, <1>4 DEF CallReturns
  <2>2. calls' = SubSeq(calls, 1, Len(calls) - 1) /\ pc' = "dispatch"
    BY <2>1 DEF LeaveCall
  <2>3. \A r \in Source : Rest(r)' = Rest(r) - Count(r = s)
    BY <1>1, <1>2, <2>2, RestLeft
  <2>4. /\ src' \in [Source -> Rec] /\ lists' \in [Priority -> Seq(Source)]
        /\ ListInv' /\ CountInv'
    BY <1>1, <1>3, <2>1, <2>2, <2>3, UnrefOne
  <2>5. QED
    BY <1>1, <2>1, <2>4, LeaveHolds
<1>5. CASE ~ (again \/ ~ src[s].active)
  <2>1. /\ src' = [src EXCEPT ![s].active = FALSE] /\ pc' = "destroy()"
        /\ UNCHANGED <<lists, calls, next>>
    BY <1>2, <1>5 DEF CallReturns
  <2>2. /\ src' \in [Source -> Rec]
        /\ \A r \in Source : /\ src'[r].refs = src[r].refs /\ src'[r].state = src[r].state
                             /\ src'[r].priority = src[r].priority
                             /\ r # s => src'[r].active = src[r].active
        /\ ~ src'[s].active
    <3>1. src \in [Source -> Rec]
      BY <1>1 DEF TypeOK, Rec
    <3>2. QED
      BY <2>1, <3>1 DEF Rec
  <2>3. TypeOK'
    BY <1>1, <2>1, <2>2 DEF TypeOK, Rec
  <2>4. ListInv'
    BY <1>1, <2>1, <2>2, ListsStay
  <2>5. CountInv'
    <3>1. ASSUME NEW r \in Source
          PROVE  /\ src'[r].refs = Rest(r)' + Count(Owned(r)')
                 /\ src'[r].state = "live" <=> src'[r].refs > 0
                 /\ src'[r].state = "new" => src'[r].active
      <4>1. Owned(r)' <=> Owned(r)
        <5>1. CASE r = s
          BY <1>2, <1>5, <2>1, <2>2, <5>1 DEF Owned, Call
        <5>2. CASE r # s
          BY <1>1, <1>2, <2>1, <2>2, <5>2 DEF Owned, Call
        <5>3. QED
          BY <5>1, <5>2
      <4>2. Pending(r)' = Pending(r) /\ InCalls(r)' = InCalls(r)
        BY <1>1, <2>1, SameCounts
      <4>3. Rest(r)' = Rest(r)
        BY <1>1, <4>2 DEF Rest
      <4>4. src[r].refs = Rest(r) + Count(Owned(r))
        BY <1>1, Sums, RestIs
      <4>5. r = s => src'[r].state # "new"
        BY <1>3, <2>2
      <4>6. QED
        BY <1>1, <2>2, <4>1, <4>3, <4>4, <4>5, Sums DEF Count
    <3>2. QED
      BY <3>1, CountNext
  <2>6. PlaceInv'
    <3>1. Call' = Call
      BY <2>1 DEF Call
    <3>2. QED
      BY <1>1, <1>2, <2>1, <2>2, <3>1 DEF PlaceInv
  <2>7. EntryInv'
    <3>1. From' = From
      BY <1>1, <2>1 DEF From, Call
    <3>2. \A i \in 1 .. Len(dispatches) : /\ i < From => dispatches[i] = None
                                          /\ i >= From => dispatches[i] # None
      BY <1>1 DEF EntryInv
    <3>3. QED
      BY <1>1, <3>1, <3>2 DEF EntryInv
  <2>8. QED
    BY <2>3, <2>4, <2>5, <2>6, <2>7 DEF IInv
<1>6. QED
  BY <1>4, <1>5

LEMMA DestroyEndHolds ==
  ASSUME SourcesAssumption, IInv, DestroyEnd
  PROVE  IInv'
<1>1. /\ TypeOK /\ CountInv /\ ListInv /\ PlaceInv /\ EntryInv
      /\ pc = "destroy()" /\ Unref(Call.source, 2) /\ LeaveCall
      /\ UNCHANGED <<dispatches, held, iter>> /\ calls # << >> /\ ~ src[Call.source].active
  BY DEF IInv, DestroyEnd, PlaceInv
<1>2. PICK s \in Source : /\ s = Call.source
                          /\ Len(calls) \in 1 .. Len(calls) /\ calls[Len(calls)].source = s
  BY <1>1, CallIs
<1>3. /\ src[s].state = "live" /\ Rest(s) >= 1 /\ Rest(s) \in Nat
      /\ src[s].refs = Rest(s) + Count(Owned(s))
  BY <1>1, <1>2, HeldIsLive, RestIs, Sums
<1>4. Owned(s)
  BY <1>1, <1>2, <1>3 DEF Owned
<1>5. src[s].refs = Rest(s) + 1 /\ 2 <= src[s].refs
  BY <1>3, <1>4 DEF Count
<1>6. calls' = SubSeq(calls, 1, Len(calls) - 1) /\ pc' = "dispatch"
  BY <1>1 DEF LeaveCall
<1>7. \A r \in Source : Rest(r)' = Rest(r) - Count(r = s)
  BY <1>1, <1>2, <1>6, RestLeft
<1>8. /\ src' \in [Source -> Rec] /\ lists' \in [Priority -> Seq(Source)]
      /\ ListInv' /\ Less(s, 2)
  BY <1>1, <1>2, <1>3, <1>5, UnrefIs
<1>9. CountInv'
  <2>1. ASSUME NEW r \in Source
        PROVE  /\ src'[r].refs = Rest(r)' + Count(Owned(r)')
               /\ src'[r].state = "live" <=> src'[r].refs > 0
               /\ src'[r].state = "new" => src'[r].active
    <3>1. CASE r = s
      <4>1. /\ src'[s].refs = src[s].refs - 2
            /\ src'[s].state = IF src[s].refs > 2 THEN "live" ELSE "freed"
            /\ src'[s].active = src[s].active
        BY <1>8 DEF Less
      <4>2. ~ Owned(s)'
        BY <1>1, <1>2, <1>6, <4>1 DEF Owned
      <4>3. Count(Owned(s)') = 0 /\ Rest(s)' = Rest(s) - 1
        BY <1>3, <1>7, <4>2 DEF Count
      <4>4. QED
        BY <1>3, <1>5, <3>1, <4>1, <4>3
    <3>2. CASE r # s
      <4>1. src'[r] = src[r] /\ Rest(r)' = Rest(r)
        BY <1>1, <1>7, <1>8, <3>2, RestIs DEF Less, Count
      <4>2. Owned(r)' <=> Owned(r)
        BY <1>1, <1>2, <1>6, <3>2, <4>1 DEF Owned
      <4>3. src[r].refs = Rest(r) + Count(Owned(r))
        BY <1>1, Sums, RestIs
      <4>4. QED
        BY <1>1, <4>1, <4>2, <4>3, Sums DEF Count
    <3>3. QED
      BY <3>1, <3>2
  <2>2. QED
    BY <2>1, CountNext
<1>10. QED
  BY <1>1, <1>8, <1>9, LeaveHolds

-----------------------------------------------------------------------------
(* The invariant *)

LEMMA StepHolds ==
  ASSUME SourcesAssumption, IInv, [Next]_vars
  PROVE  IInv'
<1>1. CASE UNCHANGED vars
  <2>1. UNCHANGED <<src, lists, dispatches, held, pc, iter, next, calls>>
    BY <1>1 DEF vars
  <2>2. TypeOK /\ CountInv /\ ListInv /\ PlaceInv /\ EntryInv
    BY DEF IInv
  <2>3. TypeOK' /\ ListInv'
    BY <2>1, <2>2 DEF TypeOK, ListInv
  <2>4. CountInv'
    BY <2>1, <2>2 DEF CountInv, Pending, InCalls, Owned, Call
  <2>5. PlaceInv' /\ EntryInv'
    BY <2>1, <2>2 DEF PlaceInv, EntryInv, From, Call
  <2>6. QED
    BY <2>3, <2>4, <2>5 DEF IInv
<1>2. CASE PrepareBegin
  BY <1>2, PrepareBeginHolds
<1>3. CASE OwnerStep
  BY <1>3, DropHolds, PrepareNextHolds, CheckBeginHolds, CheckNextHolds, PrepareReturnsHolds,
     CheckReturnsHolds, DispatchBeginHolds, DispatchNextHolds, DispatchEndHolds,
     CallReturnsHolds, DestroyEndHolds DEF OwnerStep
<1>4. CASE OtherStep
  BY <1>4, AttachHolds, ReleaseHolds, SetPriorityHolds DEF OtherStep
<1>5. QED
  BY <1>1, <1>2, <1>3, <1>4 DEF Next

LEMMA InitHolds ==
  ASSUME SourcesAssumption, Init
  PROVE  IInv
<1>1. TypeOK
  <2>1. src \in [Source -> [state : {"new", "live", "freed"}, refs : Nat, priority : Priority,
                            active : BOOLEAN, ready : BOOLEAN]]
    <3>1. src \in [Source -> [state : {"new"}, refs : {0}, priority : Priority,
                              active : {TRUE}, ready : {FALSE}]]
      BY DEF Init
    <3>2. ASSUME NEW r \in [state : {"new"}, refs : {0}, priority : Priority,
                            active : {TRUE}, ready : {FALSE}]
          PROVE  r \in [state : {"new", "live", "freed"}, refs : Nat, priority : Priority,
                       active : BOOLEAN, ready : BOOLEAN]
      <4>1. PICK p \in Priority : r = [state |-> "new", refs |-> 0, priority |-> p,
                                      active |-> TRUE, ready |-> FALSE]
        OBVIOUS
      <4>2. QED
        BY <4>1
    <3>3. QED
      BY <3>1, <3>2
  <2>2. lists \in [Priority -> Seq(Source)] /\ dispatches \in Seq(Source \cup {None})
        /\ calls \in Seq([source : Source, next : Nat])
    BY DEF Init
  <2>3. iter \in [source : Source \cup {None}, list : Priority \cup {None},
                  lost : BOOLEAN, n_ready : Nat, max : Nat]
    BY DEF Init, NoIter
  <2>4. held \subseteq Source /\ next \in Nat /\ pc = "user"
    BY DEF Init
  <2>5. QED
    BY <2>1, <2>2, <2>3, <2>4 DEF TypeOK
<1>2. \A s \in Source : src[s].state = "new" /\ src[s].refs = 0 /\ src[s].active
  BY DEF Init
<1>3. CountInv
  <2>1. ASSUME NEW s \in Source
        PROVE  /\ Pending(s) = 0 /\ InCalls(s) = 0 /\ Count(s \in held) = 0
               /\ Count(iter.source = s) = 0 /\ Count(Owned(s)) = 0
    <3>1. dispatches = << >> /\ calls = << >> /\ held = {} /\ iter.source = None
      BY DEF Init, NoIter
    <3>2. Pending(s) = 0 /\ InCalls(s) = 0
      BY <1>1, <3>1, PendingIs, InCallsIs
    <3>3. ~ Owned(s) /\ iter.source # s
      BY <1>2, <3>1 DEF Owned, SourcesAssumption
    <3>4. QED
      BY <3>1, <3>2, <3>3 DEF Count
  <2>2. QED
    BY <1>2, <2>1 DEF CountInv
<1>4. ListInv
  BY <1>2 DEF Init, ListInv
<1>5. PlaceInv /\ EntryInv
  BY DEF Init, PlaceInv, EntryInv, NoIter
<1>6. QED
  BY <1>1, <1>3, <1>4, <1>5 DEF IInv

LEMMA Invariant ==
  Spec => []IInv
BY SourcesAssumption, InitHolds, StepHolds, PTL DEF Spec

LEMMA ExactNow ==
  ASSUME SourcesAssumption, IInv
  PROVE  SourcesExact /\ ListedOnce
<1>1. TypeOK /\ CountInv /\ ListInv /\ PlaceInv
  BY DEF IInv
<1>2. RefsExact
  <2>1. SUFFICES ASSUME NEW s \in Source, src[s].state = "live"
                 PROVE  src[s].refs = Count(s \in held) + Count(iter.source = s) + Pending(s)
                          + Cardinality({i \in DOMAIN calls : calls[i].source = s})
                          + Count(src[s].active \/ (pc = "destroy()" /\ Call.source = s))
    BY DEF RefsExact
  <2>2. Owned(s) <=> src[s].active \/ (pc = "destroy()" /\ Call.source = s)
    BY <2>1 DEF Owned
  <2>3. QED
    BY <1>1, <2>2 DEF CountInv, InCalls, Count
<1>3. NoFreedSource
  <2>1. SUFFICES ASSUME NEW s \in Source, src[s].state = "freed"
                 PROVE  /\ \A p \in Priority : s \notin {lists[p][i] : i \in DOMAIN lists[p]}
                        /\ Pending(s) = 0 /\ iter.source # s
                        /\ \A i \in DOMAIN calls : calls[i].source # s
    BY DEF NoFreedSource
  <2>2. /\ iter.source # s /\ \A i \in 1 .. Len(dispatches) : dispatches[i] # s
        /\ \A i \in 1 .. Len(calls) : calls[i].source # s
    BY <1>1, <2>1, NewIsUnknown
  <2>3. Pending(s) = 0
    BY <1>1, <2>2, PendingIs
  <2>4. DOMAIN calls = 1 .. Len(calls) /\ \A p \in Priority : DOMAIN lists[p] = 1 .. Len(lists[p])
    BY <1>1 DEF TypeOK
  <2>5. \A p \in Priority : \A i \in 1 .. Len(lists[p]) : lists[p][i] # s
    BY <1>1, <2>1 DEF ListInv
  <2>6. QED
    BY <2>2, <2>3, <2>4, <2>5
<1>4. ListedOnce
  <2>1. SUFFICES ASSUME NEW s \in Source, NEW p \in Priority
                 PROVE  Cardinality({i \in DOMAIN lists[p] : lists[p][i] = s}) =
                          Count(src[s].state = "live" /\ src[s].priority = p)
    BY DEF ListedOnce
  <2>2. DOMAIN lists[p] = 1 .. Len(lists[p])
    BY <1>1 DEF TypeOK
  <2>3. /\ \A i, j \in 1 .. Len(lists[p]) : lists[p][i] = lists[p][j] => i = j
        /\ (\E i \in 1 .. Len(lists[p]) : lists[p][i] = s) <=>
             src[s].state = "live" /\ src[s].priority = p
    BY <1>1 DEF ListInv
  <2>4. PICK S : S = {i \in DOMAIN lists[p] : lists[p][i] = s}
    OBVIOUS
  <2>5. CASE \E i \in 1 .. Len(lists[p]) : lists[p][i] = s
    <3>1. PICK i \in 1 .. Len(lists[p]) : lists[p][i] = s
      BY <2>5
    <3>2. S = {i}
      BY <2>2, <2>3, <2>4, <3>1
    <3>3. Cardinality(S) = 1
      BY <3>2, FS_Singleton
    <3>4. QED
      BY <2>3, <2>4, <2>5, <3>3 DEF Count
  <2>6. CASE ~ \E i \in 1 .. Len(lists[p]) : lists[p][i] = s
    <3>1. S = {}
      BY <2>2, <2>4, <2>6
    <3>2. Cardinality(S) = 0
      BY <3>1, FS_EmptySet
    <3>3. QED
      BY <2>3, <2>4, <2>6, <3>2 DEF Count
  <2>7. QED
    BY <2>5, <2>6
<1>5. QED
  BY <1>1, <1>2, <1>3, <1>4 DEF SourcesExact

-----------------------------------------------------------------------------
(* The walk of check, as long as no priority changes under it *)

LEMMA BeforeIs ==
  \A r, s : Before(r, s) <=>
    \/ src[r].priority < src[s].priority
    \/ src[r].priority = src[s].priority /\ InOrder(lists[src[s].priority], r, s)
BY DEF Before, InOrder

LEMMA BeforeOrders ==
  ASSUME SourcesAssumption, TypeOK, ListInv, NEW r \in Source, NEW s \in Source, NEW t \in Source
  PROVE  /\ ~ Before(s, s)
         /\ Before(r, s) /\ Before(s, t) => Before(r, t)
<1>1. PICK a \in Priority, b \in Priority, c \in Priority :
        a = src[r].priority /\ b = src[s].priority /\ c = src[t].priority
  BY Fields
<1>2. a \in Nat /\ b \in Nat /\ c \in Nat
  BY DEF SourcesAssumption
<1>3. PICK list : list = lists[b]
  OBVIOUS
<1>4. Distinct(list)
  <2>1. Lists(list, Listed(b))
    BY <1>3, ListsAre
  <2>2. QED
    BY <2>1 DEF Lists
<1>5. Len(list) \in Nat
  BY <1>3 DEF TypeOK
<1>6. ~ InOrder(list, s, s)
  BY <1>4, <1>5 DEF InOrder, Distinct
<1>7. InOrder(list, r, s) /\ InOrder(list, s, t) => InOrder(list, r, t)
  <2>1. SUFFICES ASSUME InOrder(list, r, s), InOrder(list, s, t)
                 PROVE  InOrder(list, r, t)
    OBVIOUS
  <2>2. PICK i \in 1 .. Len(list), j \in 1 .. Len(list) : i < j /\ list[i] = r /\ list[j] = s
    BY <2>1 DEF InOrder
  <2>3. PICK k \in 1 .. Len(list), l \in 1 .. Len(list) : k < l /\ list[k] = s /\ list[l] = t
    BY <2>1 DEF InOrder
  <2>4. j = k
    BY <1>4, <2>2, <2>3 DEF Distinct
  <2>5. i < l
    BY <1>5, <2>2, <2>3, <2>4
  <2>6. QED
    BY <2>2, <2>3, <2>5 DEF InOrder
<1>8. ~ Before(s, s)
  BY <1>1, <1>2, <1>3, <1>6, BeforeIs
<1>9. ASSUME Before(r, s), Before(s, t)
      PROVE  Before(r, t)
  <2>1. a < b \/ (a = b /\ InOrder(list, r, s))
    BY <1>1, <1>3, <1>9, BeforeIs
  <2>2. b < c \/ (b = c /\ InOrder(list, s, t))
    BY <1>1, <1>3, <1>9, BeforeIs
  <2>3. a < c \/ (a = c /\ b = c /\ InOrder(list, r, t))
    BY <1>2, <1>7, <2>1, <2>2
  <2>4. a < c \/ (a = c /\ InOrder(lists[c], r, t))
    BY <1>3, <2>3
  <2>5. QED
    BY <1>1, <2>4, BeforeIs
<1>10. QED
  BY <1>8, <1>9

\* The order stays if the lists keep it.
LEMMA BeforeStays ==
  ASSUME TypeOK, NEW r \in Source, NEW s \in Source,
         src'[r].priority = src[r].priority, src'[s].priority = src[s].priority,
         \A p \in Priority : InOrder(lists[p], r, s) => InOrder(lists'[p], r, s),
         Before(r, s)
  PROVE  Before(r, s)'
<1>1. src[s].priority \in Priority
  BY Fields
<1>2. \/ src'[r].priority < src'[s].priority
      \/ src'[r].priority = src'[s].priority /\ InOrder(lists'[src'[s].priority], r, s)
  BY <1>1, BeforeIs
<1>3. QED
  BY <1>2 DEF Before, InOrder

\* The entries that are not empty are sources.
LEMMA EntryIs ==
  ASSUME TypeOK, NEW i \in 1 .. Len(dispatches)
  PROVE  dispatches[i] \in Source \cup {None}
BY ElementOfSeq DEF TypeOK

LEMMA NoneChosen ==
  ASSUME dispatches' = << >>, pc' \notin {"check", "check()"}
  PROVE  ChosenInv'
BY DEF ChosenInv, WalkInv, QueueInv

\* The queue stays as it is if its sources do.
LEMMA QueueStays ==
  ASSUME QueueInv, pc # "drop", UNCHANGED dispatches, From' = From,
         \A i \in 1 .. Len(dispatches) : i >= From =>
           /\ src'[dispatches[i]].active => src[dispatches[i]].active
           /\ src'[dispatches[i]].ready = src[dispatches[i]].ready
  PROVE  QueueInv'
<1>1. \A i \in 1 .. Len(dispatches) : i >= From =>
        /\ src[dispatches[i]].active => src[dispatches[i]].ready
        /\ \A j \in 1 .. Len(dispatches) : dispatches[j] = dispatches[i] => j = i
  BY DEF QueueInv
<1>2. \A i \in 1 .. Len(dispatches) : i >= From =>
        /\ src'[dispatches[i]].active => src'[dispatches[i]].ready
        /\ \A j \in 1 .. Len(dispatches) : dispatches[j] = dispatches[i] => j = i
  BY <1>1
<1>3. QED
  BY <1>2 DEF QueueInv

\* A source that is appended is ready, and none of the others.
LEMMA QueueGrows ==
  ASSUME SourcesAssumption, TypeOK, EntryInv, QueueInv, pc \in {"check", "check()"},
         pc' \in {"check", "check()"}, NEW t \in Source, Chosen(t),
         src'[t].ready,
         \A s \in Source : src'[s].active = src[s].active
                           /\ (s # t => src'[s].ready = src[s].ready),
         \A i \in 1 .. Len(dispatches) : dispatches[i] # t
  PROVE  QueueInv'
<1>1. PICK n \in Nat : n = Len(dispatches)
  BY DEF TypeOK
<1>2. /\ Len(dispatches') = n + 1 /\ dispatches'[n + 1] = t
      /\ \A i \in 1 .. n : dispatches'[i] = dispatches[i]
  BY <1>1, AppendProperties DEF TypeOK, Chosen
<1>3. From = 1
  BY DEF From
<1>4. \A i \in 1 .. n : i >= 1
  OBVIOUS
<1>5. \A i \in 1 .. n : /\ dispatches[i] \in Source
                        /\ src[dispatches[i]].active => src[dispatches[i]].ready
                        /\ \A j \in 1 .. n : dispatches[j] = dispatches[i] => j = i
  <2>1. \A i \in 1 .. n : dispatches[i] # None
    BY <1>1, <1>3, <1>4 DEF EntryInv
  <2>2. \A i \in 1 .. n : dispatches[i] \in Source
    BY <1>1, <2>1, EntryIs
  <2>3. QED
    BY <1>1, <1>3, <1>4, <2>2 DEF QueueInv
<1>6. ASSUME NEW i \in 1 .. n + 1
      PROVE  /\ src'[dispatches'[i]].active => src'[dispatches'[i]].ready
             /\ \A j \in 1 .. n + 1 : dispatches'[j] = dispatches'[i] => j = i
  <2>1. \A j \in 1 .. n + 1 : j \in 1 .. n \/ j = n + 1
    OBVIOUS
  <2>2. CASE i = n + 1
    <3>1. \A j \in 1 .. n : dispatches'[j] # t
      BY <1>1, <1>2
    <3>2. QED
      BY <1>2, <2>1, <2>2, <3>1
  <2>3. CASE i \in 1 .. n
    <3>1. /\ dispatches'[i] = dispatches[i] /\ dispatches[i] \in Source /\ dispatches[i] # t
          /\ src[dispatches[i]].active => src[dispatches[i]].ready
      BY <1>1, <1>2, <1>5, <2>3
    <3>2. src'[dispatches[i]].active => src'[dispatches[i]].ready
      BY <3>1
    <3>3. \A j \in 1 .. n + 1 : dispatches'[j] = dispatches'[i] => j = i
      BY <1>2, <1>5, <2>1, <2>3, <3>1
    <3>4. QED
      BY <3>1, <3>2, <3>3
  <2>4. QED
    BY <2>1, <2>2, <2>3
<1>7. QED
  BY <1>2, <1>6 DEF QueueInv

\* What the walk comes to lies behind none of those chosen.
LEMMA WalkGoesOn ==
  ASSUME SourcesAssumption, IInv, WalkInv, pc = "check",
         NEW t \in Source, Advanced.source = t
  PROVE  /\ Advanced.list = src[t].priority
         /\ \A i \in 1 .. Len(dispatches) : dispatches[i] \in Source /\ Before(dispatches[i], t)
<1>1. TypeOK /\ CountInv /\ ListInv /\ EntryInv
  BY DEF IInv
<1>2. iter.source # None => iter.source \in Source /\ src[iter.source].state = "live"
  <2>1. iter.source # None => iter.source \in Source
    BY <1>1 DEF TypeOK
  <2>2. QED
    BY <1>1, <2>1, HeldIsLive
<1>3. /\ Advanced.list = src[t].priority
      /\ iter.source # None => Before(iter.source, t)
  <2>1. t # None /\ (iter.source # None => iter.list = src[iter.source].priority)
    BY DEF WalkInv, SourcesAssumption
  <2>2. QED
    BY <1>1, <1>2, <2>1, AdvancedIs
<1>4. ASSUME NEW i \in 1 .. Len(dispatches)
      PROVE  dispatches[i] \in Source /\ Before(dispatches[i], t)
  <2>1. Passed(dispatches[i])
    BY DEF WalkInv
  <2>2. dispatches[i] \in Source
    <3>1. From = 1 /\ i >= 1
      BY DEF From
    <3>2. dispatches[i] # None
      BY <1>1, <3>1 DEF EntryInv
    <3>3. QED
      BY <1>1, <3>2, EntryIs
  <2>3. iter.source # None /\ (dispatches[i] = iter.source \/ Before(dispatches[i], iter.source))
    BY <2>1 DEF Passed
  <2>4. iter.source \in Source /\ Before(iter.source, t)
    BY <1>2, <1>3, <2>3
  <2>5. QED
    BY <1>1, <2>2, <2>3, <2>4, BeforeOrders
<1>5. QED
  BY <1>3, <1>4

\* The walk after a step that leaves it at t.
LEMMA WalkNext ==
  ASSUME SourcesAssumption, TypeOK, NEW t \in Source, iter'.source = t, UNCHANGED lists,
         \A s \in Source : src'[s].priority = src[s].priority,
         \A i \in 1 .. Len(dispatches) : dispatches[i] \in Source /\ Before(dispatches[i], t),
         \/ UNCHANGED dispatches
         \/ Chosen(t) /\ pc' = "check",
         iter'.list = src[t].priority,
         dispatches' # << >> => iter'.n_ready > 0,
         pc' = "check()" /\ iter'.n_ready > 0 => src[t].priority <= iter'.max
  PROVE  WalkInv'
<1>1. PICK n \in Nat : n = Len(dispatches)
  BY DEF TypeOK
<1>2. t # None
  BY DEF SourcesAssumption
<1>3. ASSUME NEW s \in Source, Before(s, t)
      PROVE  Before(s, t)'
  BY <1>3, BeforeStays
<1>4. ASSUME NEW s \in Source, Before(s, t)' \/ (s = t /\ pc' = "check")
      PROVE  Passed(s)'
  BY <1>2, <1>4 DEF Passed, Before
<1>5. ASSUME NEW i \in 1 .. Len(dispatches')
      PROVE  \E s \in Source : s = dispatches'[i] /\ Passed(s)'
  <2>1. CASE UNCHANGED dispatches
    BY <1>1, <1>3, <1>4, <2>1
  <2>2. CASE Chosen(t) /\ pc' = "check"
    <3>1. /\ Len(dispatches') = n + 1 /\ dispatches'[n + 1] = t
          /\ \A k \in 1 .. n : dispatches'[k] = dispatches[k]
      BY <1>1, <2>2, AppendProperties DEF TypeOK, Chosen
    <3>2. i \in 1 .. n \/ i = n + 1
      BY <1>1, <3>1
    <3>3. CASE i \in 1 .. n
      BY <1>1, <1>3, <1>4, <3>1, <3>3
    <3>4. CASE i = n + 1
      BY <1>4, <2>2, <3>1, <3>4
    <3>5. QED
      BY <3>2, <3>3, <3>4
  <2>3. QED
    BY <2>1, <2>2
<1>6. (\A i \in 1 .. Len(dispatches) : Passed(dispatches[i]))'
  BY <1>5 DEF Passed, Before
<1>7. QED
  BY <1>6 DEF WalkInv

LEMMA CheckNextChosen ==
  ASSUME SourcesAssumption, IInv, ChosenInv, CheckNext
  PROVE  ChosenInv'
<1>1. TypeOK /\ CountInv /\ ListInv /\ PlaceInv /\ EntryInv /\ pc = "check" /\ WalkInv /\ QueueInv
  BY DEF IInv, CheckNext, ChosenInv
<1>2. PICK it : it = Advanced
  OBVIOUS
<1>3. PICK to : to = IF Ends(it) THEN None ELSE it.source
  OBVIOUS
<1>4. PICK f : f = MovedRefs(iter.source, to)
  OBVIOUS
<1>5. /\ \/ /\ Ends(it)
            /\ src' = f /\ pc' = "checked" /\ iter' = NoIter
            /\ UNCHANGED dispatches
         \/ /\ ~ Ends(it) /\ src[it.source].active /\ src[it.source].ready
            /\ src' = [f EXCEPT ![it.source].refs = @ + 1]
            /\ Chosen(it.source)
            /\ iter' = Counted(it)
            /\ UNCHANGED pc
         \/ /\ ~ Ends(it) /\ ~ (src[it.source].active /\ src[it.source].ready)
            /\ src' = f /\ iter' = it
            /\ pc' = IF src[it.source].active THEN "check()" ELSE pc
            /\ UNCHANGED dispatches
      /\ UNCHANGED <<lists, held, next, calls>>
  BY <1>2, <1>3, <1>4 DEF CheckNext
<1>6. /\ it \in IterType /\ to \in Source \cup {None}
      /\ it.n_ready = iter.n_ready /\ it.max = iter.max
      /\ ~ Ends(it) => to = it.source /\ to # None
      /\ f \in [Source -> Rec]
      /\ \A s \in Source :
           /\ f[s].priority = src[s].priority
           /\ f[s].active = src[s].active /\ f[s].ready = src[s].ready
  BY <1>2, <1>3, <1>4, WalkIs
<1>7. From = 1
  BY <1>1 DEF From
<1>8. \A i \in 1 .. Len(dispatches) : i >= From => dispatches[i] \in Source
  <2>1. \A i \in 1 .. Len(dispatches) : i >= From => dispatches[i] # None
    BY <1>1 DEF EntryInv
  <2>2. QED
    BY <1>1, <2>1, EntryIs
<1>9. CASE Ends(it)
  <2>1. src' = f /\ pc' = "checked" /\ UNCHANGED dispatches
    BY <1>5, <1>9
  <2>2. WalkInv'
    BY <2>1 DEF WalkInv
  <2>3. From' = From
    BY <1>7, <2>1 DEF From
  <2>4. QueueInv'
    BY <1>1, <1>6, <1>8, <2>1, <2>3, QueueStays
  <2>5. QED
    BY <2>2, <2>4 DEF ChosenInv
<1>10. ASSUME ~ Ends(it)
       PROVE  /\ to \in Source /\ it.source = to /\ to # None
              /\ it.list = src[to].priority
              /\ \A i \in 1 .. Len(dispatches) :
                   dispatches[i] \in Source /\ Before(dispatches[i], to)
  <2>1. to \in Source /\ it.source = to /\ to # None
    BY <1>6, <1>10
  <2>2. QED
    BY <1>1, <1>2, <2>1, WalkGoesOn
<1>11. CASE ~ Ends(it) /\ ~ (src[it.source].active /\ src[it.source].ready)
  <2>1. /\ src' = f /\ iter' = it /\ UNCHANGED <<dispatches, lists>>
        /\ pc' = IF src[to].active THEN "check()" ELSE "check"
    BY <1>1, <1>5, <1>10, <1>11
  <2>2. WalkInv'
    <3>1. dispatches' # << >> => iter'.n_ready > 0
      BY <1>1, <1>6, <2>1 DEF WalkInv
    <3>2. pc' = "check()" /\ iter'.n_ready > 0 => src[to].priority <= iter'.max
      <4>1. SUFFICES ASSUME pc' = "check()", it.n_ready > 0
                     PROVE  src[to].priority <= it.max
        BY <2>1
      <4>2. src[to].active
        BY <2>1, <4>1
      <4>3. ~ (src[to].priority > it.max)
        BY <1>10, <1>11, <4>1, <4>2 DEF Ends
      <4>4. PICK a \in Nat, b \in Nat : a = src[to].priority /\ b = it.max
        BY <1>1, <1>6, <1>10, <1>11, Fields DEF SourcesAssumption, IterType
      <4>5. QED
        BY <4>3, <4>4
    <3>3. \A s \in Source : src'[s].priority = src[s].priority
      BY <1>6, <2>1
    <3>4. QED
      BY <1>1, <1>10, <1>11, <2>1, <3>1, <3>2, <3>3, WalkNext
  <2>3. From' = From
    BY <1>7, <2>1 DEF From
  <2>4. QueueInv'
    BY <1>1, <1>6, <1>8, <2>1, <2>3, QueueStays
  <2>5. QED
    BY <2>2, <2>4 DEF ChosenInv
<1>12. CASE ~ Ends(it) /\ src[it.source].active /\ src[it.source].ready
  <2>1. /\ to \in Source /\ it.source = to /\ to # None
        /\ it.list = src[to].priority
        /\ \A i \in 1 .. Len(dispatches) :
             dispatches[i] \in Source /\ Before(dispatches[i], to)
    BY <1>10, <1>12
  <2>2. /\ src' = [f EXCEPT ![to].refs = @ + 1] /\ Chosen(to) /\ iter' = Counted(it)
        /\ pc' = "check" /\ UNCHANGED lists
    BY <1>1, <1>5, <1>12, <2>1
  <2>3. /\ iter'.source = to /\ iter'.list = src[to].priority /\ iter'.n_ready = it.n_ready + 1
    BY <1>1, <1>6, <2>1, <2>2, CountedIs
  <2>4. iter'.n_ready > 0
    BY <1>6, <2>3 DEF IterType
  <2>5. \A s \in Source : /\ src'[s].priority = src[s].priority
                          /\ src'[s].active = src[s].active /\ src'[s].ready = src[s].ready
    <3>1. ASSUME NEW s \in Source
          PROVE  /\ src'[s].priority = f[s].priority
                 /\ src'[s].active = f[s].active /\ src'[s].ready = f[s].ready
      BY <1>6, <2>1, <2>2 DEF Rec
    <3>2. QED
      BY <1>6, <3>1
  <2>6. WalkInv'
    BY <1>1, <2>1, <2>2, <2>3, <2>4, <2>5, WalkNext
  <2>7. \A i \in 1 .. Len(dispatches) : dispatches[i] # to
    BY <1>1, <2>1, BeforeOrders
  <2>8. src'[to].ready
    BY <1>12, <2>1, <2>5
  <2>9. QueueInv'
    BY <1>1, <2>1, <2>2, <2>5, <2>7, <2>8, QueueGrows
  <2>10. QED
    BY <2>6, <2>9 DEF ChosenInv
<1>13. QED
  BY <1>9, <1>11, <1>12

LEMMA CheckReturnsChosen ==
  ASSUME SourcesAssumption, IInv, ChosenInv, NEW ready \in BOOLEAN, CheckReturns(ready)
  PROVE  ChosenInv'
<1>1. /\ TypeOK /\ CountInv /\ ListInv /\ PlaceInv /\ EntryInv /\ WalkInv /\ QueueInv
      /\ pc = "check()" /\ pc' = "check"
      /\ UNCHANGED <<lists, held, next, calls>>
  BY DEF IInv, CheckReturns, ChosenInv
<1>2. PICK t \in Source : t = iter.source /\ t # None
  BY <1>1 DEF PlaceInv, TypeOK
<1>3. From = 1 /\ From' = 1
  BY <1>1 DEF From
<1>4. \A i \in 1 .. Len(dispatches) : dispatches[i] \in Source /\ Before(dispatches[i], t)
  <2>1. ASSUME NEW i \in 1 .. Len(dispatches)
        PROVE  dispatches[i] \in Source /\ Before(dispatches[i], t)
    <3>1. Passed(dispatches[i])
      BY <1>1 DEF WalkInv
    <3>2. i >= From
      BY <1>3
    <3>3. dispatches[i] # None
      BY <1>1, <3>2 DEF EntryInv
    <3>4. QED
      BY <1>1, <1>2, <3>1, <3>3, EntryIs DEF Passed
  <2>2. QED
    BY <2>1
<1>5. iter.list = src[t].priority /\ (dispatches # << >> => iter.n_ready > 0)
  BY <1>1, <1>2 DEF WalkInv
<1>6. CASE ready
  <2>1. /\ src' = [src EXCEPT ![t].ready = TRUE, ![t].refs = @ + 1]
        /\ Chosen(t) /\ iter' = Counted(iter)
    BY <1>2, <1>6 DEF CheckReturns
  <2>2. /\ iter'.source = t /\ iter'.list = src[t].priority /\ iter'.n_ready = iter.n_ready + 1
    BY <1>1, <1>2, <1>5, <2>1, CountedIs DEF TypeOK, IterType
  <2>3. iter'.n_ready > 0
    BY <1>1, <2>2 DEF TypeOK
  <2>4. /\ \A s \in Source : /\ src'[s].priority = src[s].priority
                             /\ src'[s].active = src[s].active
                             /\ s # t => src'[s].ready = src[s].ready
        /\ src'[t].ready
    <3>1. src \in [Source -> Rec]
      BY <1>1 DEF TypeOK, Rec
    <3>2. ASSUME NEW s \in Source
          PROVE  /\ src'[s].priority = src[s].priority /\ src'[s].active = src[s].active
                 /\ s # t => src'[s].ready = src[s].ready
      BY <2>1, <3>1 DEF Rec
    <3>3. src'[t].ready
      BY <2>1, <3>1 DEF Rec
    <3>4. QED
      BY <3>2, <3>3
  <2>5. WalkInv'
    BY <1>1, <1>4, <2>1, <2>2, <2>3, <2>4, WalkNext
  <2>6. \A i \in 1 .. Len(dispatches) : dispatches[i] # t
    BY <1>1, <1>4, BeforeOrders
  <2>7. QueueInv'
    BY <1>1, <2>1, <2>4, <2>6, QueueGrows
  <2>8. QED
    BY <2>5, <2>7 DEF ChosenInv
<1>7. CASE ~ ready
  <2>1. UNCHANGED <<src, dispatches, iter>>
    BY <1>7 DEF CheckReturns
  <2>2. WalkInv'
    BY <1>1, <1>2, <1>4, <1>5, <2>1, WalkNext
  <2>3. QueueInv'
    BY <1>1, <1>3, <2>1, QueueStays
  <2>4. QED
    BY <2>2, <2>3 DEF ChosenInv
<1>8. QED
  BY <1>6, <1>7

\* Entries that are left are sources.
LEMMA LeftIs ==
  ASSUME TypeOK, EntryInv, pc # "drop"
  PROVE  \A i \in 1 .. Len(dispatches) : i >= From => dispatches[i] \in Source
<1>1. \A i \in 1 .. Len(dispatches) : i >= From => dispatches[i] # None
  BY DEF EntryInv
<1>2. QED
  BY <1>1, EntryIs

LEMMA DispatchNextChosen ==
  ASSUME SourcesAssumption, IInv, ChosenInv, DispatchNext
  PROVE  ChosenInv'
<1>1. /\ TypeOK /\ CountInv /\ ListInv /\ PlaceInv /\ EntryInv /\ QueueInv
      /\ pc = "dispatch" /\ next <= Len(dispatches)
      /\ dispatches' = [dispatches EXCEPT ![next] = None]
  BY DEF IInv, DispatchNext, ChosenInv
<1>2. PICK n \in Nat : n = Len(dispatches)
  BY <1>1 DEF TypeOK
<1>3. PICK k \in 1 .. n : k = next
  <2>1. next \in Nat /\ next >= 1 /\ next <= n
    BY <1>1, <1>2 DEF TypeOK, PlaceInv
  <2>2. QED
    BY <2>1
<1>4. From = k
  BY <1>1, <1>3 DEF From
<1>5. \A i \in 1 .. n : i >= k =>
        /\ dispatches[i] \in Source
        /\ src[dispatches[i]].active => src[dispatches[i]].ready
        /\ \A j \in 1 .. n : dispatches[j] = dispatches[i] => j = i
  BY <1>1, <1>2, <1>4, LeftIs DEF QueueInv
<1>6. PICK s \in Source : s = dispatches[k]
  BY <1>3, <1>5
<1>7. /\ Len(dispatches') = n /\ dispatches'[k] = None
      /\ \A i \in 1 .. n : i # k => dispatches'[i] = dispatches[i]
  <2>1. dispatches \in Seq(Source \cup {None})
    BY <1>1 DEF TypeOK
  <2>2. QED
    BY <1>1, <1>2, <1>3, <2>1, ExceptSeq
<1>8. /\ From' = k + 1 /\ pc' \in {"user", "dispatch"}
      /\ \A r \in Source : r # s => src'[r].active = src[r].active /\ src'[r].ready = src[r].ready
  <2>1. CASE src[s].active
    <3>1. /\ src' = [src EXCEPT ![s].ready = FALSE] /\ pc' = "user" /\ UNCHANGED next
          /\ calls' = Append(calls, [source |-> s, next |-> k])
      BY <1>1, <1>3, <1>6, <2>1 DEF DispatchNext
    <3>2. src \in [Source -> Rec]
      BY <1>1 DEF TypeOK, Rec
    <3>3. \A r \in Source : r # s => src'[r] = src[r]
      BY <3>1, <3>2
    <3>4. PICK c \in [source : Source, next : Nat] : c = [source |-> s, next |-> k] /\ c.next = k
      <4>1. PICK c : c = [source |-> s, next |-> k]
        OBVIOUS
      <4>2. k \in Nat
        OBVIOUS
      <4>3. c \in [source : Source, next : Nat] /\ c.next = k
        BY <4>1, <4>2
      <4>4. QED
        BY <4>1, <4>3
    <3>5. calls' # << >> /\ Call'.next = k
      <4>1. calls \in Seq([source : Source, next : Nat]) /\ calls' = Append(calls, c)
        BY <1>1, <3>1, <3>4 DEF TypeOK
      <4>2. PICK m \in Nat : m = Len(calls)
        BY <4>1
      <4>3. Len(calls') = m + 1 /\ calls'[m + 1] = c /\ m + 1 # 0
        BY <4>1, <4>2, AppendProperties
      <4>4. QED
        BY <3>4, <4>3 DEF Call
    <3>6. From' = k + 1
      BY <3>1, <3>5 DEF From
    <3>7. QED
      BY <3>1, <3>3, <3>6
  <2>2. CASE ~ src[s].active
    <3>1. Unref(s, 1) /\ next' = k + 1 /\ UNCHANGED pc
      BY <1>3, <1>6, <2>2 DEF DispatchNext
    <3>2. src \in [Source -> Rec]
      BY <1>1 DEF TypeOK, Rec
    <3>3. \A r \in Source : r # s => src'[r] = src[r]
      BY <3>1, <3>2 DEF Unref
    <3>4. From' = k + 1
      BY <1>1, <3>1 DEF From
    <3>5. QED
      BY <1>1, <3>1, <3>3, <3>4
  <2>3. QED
    BY <2>1, <2>2
<1>9. ASSUME NEW i \in 1 .. n, i >= k + 1
      PROVE  /\ src'[dispatches'[i]].active => src'[dispatches'[i]].ready
             /\ \A j \in 1 .. n : dispatches'[j] = dispatches'[i] => j = i
  <2>1. i # k /\ i >= k
    BY <1>9
  <2>2. /\ dispatches'[i] = dispatches[i] /\ dispatches[i] \in Source
        /\ src[dispatches[i]].active => src[dispatches[i]].ready
        /\ \A j \in 1 .. n : dispatches[j] = dispatches[i] => j = i
    BY <1>5, <1>7, <2>1
  <2>3. dispatches[i] # s
    BY <1>6, <2>1, <2>2
  <2>4. src'[dispatches'[i]].active => src'[dispatches'[i]].ready
    BY <1>8, <2>2, <2>3
  <2>5. ASSUME NEW j \in 1 .. n, dispatches'[j] = dispatches'[i]
        PROVE  j = i
    <3>1. j # k
      BY <1>7, <2>2, <2>5 DEF SourcesAssumption
    <3>2. QED
      BY <1>7, <2>2, <2>5, <3>1
  <2>6. QED
    BY <2>4, <2>5
<1>10. QueueInv'
  BY <1>7, <1>8, <1>9 DEF QueueInv
<1>11. WalkInv'
  BY <1>8 DEF WalkInv
<1>12. QED
  BY <1>10, <1>11 DEF ChosenInv

\* Steps that leave the entries, and the place in them, and no walk after them.
LEMMA QueueKept ==
  ASSUME SourcesAssumption, IInv, ChosenInv, pc # "drop", UNCHANGED dispatches, From' = From,
         pc' \notin {"check", "check()"},
         \A s \in Source : /\ src'[s].active => src[s].active
                           /\ src'[s].ready = src[s].ready
  PROVE  ChosenInv'
<1>1. TypeOK /\ EntryInv /\ QueueInv
  BY DEF IInv, ChosenInv
<1>2. \A i \in 1 .. Len(dispatches) : i >= From => dispatches[i] \in Source
  BY <1>1, LeftIs
<1>3. QueueInv'
  BY <1>1, <1>2, QueueStays
<1>4. QED
  BY <1>3 DEF ChosenInv, WalkInv

LEMMA CallReturnsChosen ==
  ASSUME SourcesAssumption, IInv, ChosenInv, NEW again \in BOOLEAN, CallReturns(again)
  PROVE  ChosenInv'
<1>1. /\ TypeOK /\ pc = "user" /\ calls # << >> /\ UNCHANGED <<dispatches, held, iter>>
  BY DEF IInv, CallReturns
<1>2. PICK s \in Source : s = Call.source
  BY <1>1, CallIs
<1>3. src \in [Source -> Rec]
  BY <1>1 DEF TypeOK, Rec
<1>4. CASE again \/ ~ src[s].active
  <2>1. Unref(s, 1) /\ next' = Call.next + 1 /\ pc' = "dispatch"
    BY <1>2, <1>4 DEF CallReturns, LeaveCall
  <2>2. From' = From
    BY <1>1, <2>1 DEF From
  <2>3. \A r \in Source : src'[r].active = src[r].active /\ src'[r].ready = src[r].ready
    BY <1>3, <2>1, UnrefKeeps
  <2>4. QED
    BY <1>1, <2>1, <2>2, <2>3, QueueKept
<1>5. CASE ~ (again \/ ~ src[s].active)
  <2>1. /\ src' = [src EXCEPT ![s].active = FALSE] /\ pc' = "destroy()"
        /\ UNCHANGED <<lists, calls, next>>
    BY <1>2, <1>5 DEF CallReturns
  <2>2. From' = From
    BY <1>1, <2>1 DEF From, Call
  <2>3. \A r \in Source : (src'[r].active => src[r].active) /\ src'[r].ready = src[r].ready
    BY <1>3, <1>5, <2>1 DEF Rec
  <2>4. QED
    BY <1>1, <2>1, <2>2, <2>3, QueueKept
<1>6. QED
  BY <1>4, <1>5

LEMMA DestroyEndChosen ==
  ASSUME SourcesAssumption, IInv, ChosenInv, DestroyEnd
  PROVE  ChosenInv'
<1>1. /\ TypeOK /\ pc = "destroy()" /\ calls # << >> /\ UNCHANGED <<dispatches, held, iter>>
      /\ Unref(Call.source, 2) /\ next' = Call.next + 1 /\ pc' = "dispatch"
  BY DEF IInv, PlaceInv, DestroyEnd, LeaveCall
<1>2. PICK s \in Source : s = Call.source
  BY <1>1, CallIs
<1>3. src \in [Source -> Rec]
  BY <1>1 DEF TypeOK, Rec
<1>4. From' = From
  BY <1>1 DEF From
<1>5. \A r \in Source : src'[r].active = src[r].active /\ src'[r].ready = src[r].ready
  BY <1>1, <1>2, <1>3, UnrefKeeps
<1>6. QED
  BY <1>1, <1>4, <1>5, QueueKept

\* A step of another thread: the walk stays if the lists keep the order of who
\* is in them.
LEMMA OthersChosen ==
  ASSUME SourcesAssumption, IInv, ChosenInv, pc # "drop", UNCHANGED <<dispatches, pc, next, calls>>,
         iter' = iter,
         \A s \in Source : /\ src'[s].active => src[s].active
                           /\ src'[s].ready = src[s].ready
                           /\ src'[s].priority = src[s].priority,
         NEW Kept, iter.source # None => iter.source \in Kept,
         \A i \in 1 .. Len(dispatches) : dispatches[i] \in Kept \cup {None},
         \A p \in Priority : \A q, r \in Kept : InOrder(lists[p], q, r) => InOrder(lists'[p], q, r)
  PROVE  ChosenInv'
<1>1. TypeOK /\ EntryInv /\ QueueInv /\ WalkInv
  BY DEF IInv, ChosenInv
<1>2. From' = From
  BY DEF From, Call
<1>3. \A i \in 1 .. Len(dispatches) : i >= From => dispatches[i] \in Source
  BY <1>1, LeftIs
<1>4. QueueInv'
  BY <1>1, <1>2, <1>3, QueueStays
<1>5. WalkInv'
  <2>1. CASE pc \notin {"check", "check()"}
    BY <2>1 DEF WalkInv
  <2>2. CASE pc \in {"check", "check()"}
    <3>1. From = 1
      BY <2>2 DEF From
    <3>2. iter.source # None => iter.source \in Source
      BY <1>1 DEF TypeOK
    <3>3. ASSUME NEW i \in 1 .. Len(dispatches)
          PROVE  \E s \in Source : s = dispatches[i] /\ Passed(s)'
      <4>1. i >= From /\ Passed(dispatches[i])
        BY <1>1, <2>2, <3>1 DEF WalkInv
      <4>2. PICK s \in Source : s = dispatches[i]
        BY <1>3, <4>1
      <4>3. PICK t \in Source : t = iter.source /\ iter.source # None
        BY <3>2, <4>1 DEF Passed
      <4>4. s \in Kept /\ t \in Kept
        BY <4>2, <4>3 DEF SourcesAssumption
      <4>5. (s = t /\ pc = "check") \/ Before(s, t)
        BY <4>1, <4>2, <4>3 DEF Passed
      <4>6. (s = t /\ pc = "check") \/ Before(s, t)'
        BY <1>1, <4>4, <4>5, BeforeStays
      <4>7. Passed(s)'
        BY <4>3, <4>6 DEF Passed, Before
      <4>8. QED
        BY <4>2, <4>7
    <3>4. (\A i \in 1 .. Len(dispatches) : Passed(dispatches[i]))'
      BY <3>3 DEF Passed, Before
    <3>5. iter.source # None => src'[iter.source].priority = src[iter.source].priority
      BY <3>2
    <3>6. /\ iter.source # None => iter.list = src[iter.source].priority
          /\ dispatches # << >> => iter.n_ready > 0
          /\ pc = "check()" /\ iter.n_ready > 0 => src[iter.source].priority <= iter.max
      BY <1>1, <2>2 DEF WalkInv
    <3>7. pc = "check()" => iter.source # None
      BY DEF IInv, PlaceInv
    <3>8. /\ iter'.source # None => iter'.list = src'[iter'.source].priority
          /\ dispatches' # << >> => iter'.n_ready > 0
          /\ pc' = "check()" /\ iter'.n_ready > 0 => src'[iter'.source].priority <= iter'.max
      BY <3>5, <3>6, <3>7
    <3>9. QED
      BY <3>4, <3>8 DEF WalkInv
  <2>3. QED
    BY <2>1, <2>2
<1>6. QED
  BY <1>4, <1>5 DEF ChosenInv

LEMMA AttachChosen ==
  ASSUME SourcesAssumption, IInv, ChosenInv, NEW s \in Source, Attach(s)
  PROVE  ChosenInv'
<1>1. /\ TypeOK /\ pc # "drop" /\ UNCHANGED <<dispatches, pc, iter, next, calls>>
      /\ src' = [src EXCEPT ![s].state = "live", ![s].refs = 2]
  BY DEF IInv, Attach, Locked
<1>2. \A p \in Priority : \A q, r : InOrder(lists[p], q, r) => InOrder(lists'[p], q, r)
  BY AttachHolds
<1>3. \A r \in Source : /\ src'[r].active = src[r].active /\ src'[r].ready = src[r].ready
                        /\ src'[r].priority = src[r].priority
  <2>1. src \in [Source -> Rec]
    BY <1>1 DEF TypeOK, Rec
  <2>2. QED
    BY <1>1, <2>1 DEF Rec
<1>4. /\ iter.source # None => iter.source \in Source
      /\ \A i \in 1 .. Len(dispatches) : dispatches[i] \in Source \cup {None}
  BY <1>1, EntryIs DEF TypeOK
<1>5. QED
  BY <1>1, <1>2, <1>3, <1>4, OthersChosen

LEMMA ReleaseChosen ==
  ASSUME SourcesAssumption, IInv, ChosenInv, NEW s \in Source, Release(s)
  PROVE  ChosenInv'
<1>1. /\ TypeOK /\ pc # "drop" /\ UNCHANGED <<dispatches, pc, iter, next, calls>>
      /\ Unref(s, 1)
  BY DEF IInv, Release, Locked
<1>2. /\ Less(s, 1)
      /\ \A p \in Priority : \A q, r : q # s /\ r # s /\ InOrder(lists[p], q, r) =>
           InOrder(lists'[p], q, r)
      /\ src'[s].state # "live" =>
           iter.source # s /\ \A i \in 1 .. Len(dispatches) : dispatches[i] # s
  BY ReleaseHolds
<1>3. \A r \in Source : /\ src'[r].active = src[r].active /\ src'[r].ready = src[r].ready
                        /\ src'[r].priority = src[r].priority
  BY <1>2 DEF Less
<1>4. /\ iter.source # None => iter.source \in Source
      /\ \A i \in 1 .. Len(dispatches) : dispatches[i] \in Source \cup {None}
  BY <1>1, EntryIs DEF TypeOK
<1>5. CASE src[s].refs > 1
  <2>1. lists' = lists
    BY <1>1, <1>5 DEF Unref
  <2>2. QED
    BY <1>1, <1>3, <1>4, <2>1, OthersChosen
<1>6. CASE ~ (src[s].refs > 1)
  <2>1. iter.source # s /\ \A i \in 1 .. Len(dispatches) : dispatches[i] # s
    BY <1>2, <1>6 DEF Less
  <2>2. PICK Kept : Kept = Source \ {s}
    OBVIOUS
  <2>3. /\ iter.source # None => iter.source \in Kept
        /\ \A i \in 1 .. Len(dispatches) : dispatches[i] \in Kept \cup {None}
        /\ \A p \in Priority : \A q, r \in Kept :
             InOrder(lists[p], q, r) => InOrder(lists'[p], q, r)
    BY <1>2, <1>4, <2>1, <2>2
  <2>4. QED
    BY <1>1, <1>3, <2>3, OthersChosen
<1>7. QED
  BY <1>5, <1>6

LEMMA SetPriorityChosen ==
  ASSUME SourcesAssumption, ~ Reprioritise, IInv, ChosenInv, NEW s \in Source,
         NEW p \in Priority, SetPriority(s, p)
  PROVE  ChosenInv'
<1>1. /\ TypeOK /\ pc \notin {"drop", "check", "check()"}
      /\ UNCHANGED <<dispatches, held, pc, next, calls>>
      /\ src' = [src EXCEPT ![s].priority = p]
  BY DEF IInv, SetPriority, Locked
<1>2. From' = From
  BY <1>1 DEF From, Call
<1>3. \A r \in Source : src'[r].active = src[r].active /\ src'[r].ready = src[r].ready
  <2>1. src \in [Source -> Rec]
    BY <1>1 DEF TypeOK, Rec
  <2>2. QED
    BY <1>1, <2>1 DEF Rec
<1>4. QED
  BY <1>1, <1>2, <1>3, QueueKept

LEMMA ChosenHolds ==
  ASSUME SourcesAssumption, ~ Reprioritise, IInv, ChosenInv, [Next]_vars
  PROVE  ChosenInv'
<1>1. CASE UNCHANGED vars
  <2>1. UNCHANGED <<src, lists, dispatches, held, pc, iter, next, calls>>
    BY <1>1 DEF vars
  <2>2. From' = From
    BY <2>1 DEF From, Call
  <2>3. QueueInv'
    BY <2>1, <2>2 DEF ChosenInv, QueueInv
  <2>4. WalkInv'
    BY <2>1 DEF ChosenInv, WalkInv, Passed, Before
  <2>5. QED
    BY <2>3, <2>4 DEF ChosenInv
<1>2. CASE PrepareBegin \/ PrepareDrop
  <2>1. pc' = "drop" \/ (dispatches' = << >> /\ pc' = "prepare")
    BY <1>2 DEF PrepareBegin, PrepareDrop
  <2>2. QED
    BY <2>1, NoneChosen DEF ChosenInv, WalkInv, QueueInv
<1>3. CASE PrepareNext \/ \E ready \in BOOLEAN : PrepareReturns(ready)
  <2>1. /\ pc \in {"prepare", "prepare()"} /\ dispatches' = dispatches
        /\ pc' \in {"prepare", "prepare()", "poll"}
    BY <1>3 DEF PrepareNext, PrepareReturns
  <2>2. QED
    BY <2>1, NoneChosen DEF IInv, PlaceInv
<1>4. CASE CheckBegin
  <2>1. dispatches' = << >> /\ pc' = "check" /\ iter'.source = None
    BY <1>4 DEF CheckBegin, IInv, PlaceInv, NoIter
  <2>2. QED
    BY <2>1 DEF ChosenInv, WalkInv, QueueInv
<1>5. CASE DispatchBegin
  <2>1. /\ pc = "checked" /\ pc' = "dispatch" /\ next' = 1 /\ UNCHANGED <<src, dispatches>>
    BY <1>5 DEF DispatchBegin
  <2>2. From' = From
    BY <2>1 DEF From
  <2>3. QED
    BY <2>1, <2>2, QueueKept
<1>6. CASE DispatchEnd
  BY <1>6, NoneChosen DEF DispatchEnd
<1>7. CASE \E s \in Source : Attach(s) \/ Release(s) \/ \E p \in Priority : SetPriority(s, p)
  BY <1>7, AttachChosen, ReleaseChosen, SetPriorityChosen
<1>8. CASE DispatchNext \/ CheckNext \/ DestroyEnd
           \/ \E ready \in BOOLEAN : CheckReturns(ready) \/ CallReturns(ready)
  BY <1>8, DispatchNextChosen, CheckNextChosen, DestroyEndChosen, CheckReturnsChosen,
     CallReturnsChosen
<1>9. QED
  BY <1>1, <1>2, <1>3, <1>4, <1>5, <1>6, <1>7, <1>8 DEF Next, OwnerStep, OtherStep

LEMMA ChosenInvariant ==
  ASSUME ~ Reprioritise
  PROVE  Spec => [](IInv /\ ChosenInv)
<1>1. Init => IInv /\ ChosenInv
  <2>1. Init => ChosenInv
    BY DEF Init, ChosenInv, WalkInv, QueueInv
  <2>2. QED
    BY <2>1, SourcesAssumption, InitHolds
<1>2. IInv /\ ChosenInv /\ [Next]_vars => (IInv /\ ChosenInv)'
  BY SourcesAssumption, StepHolds, ChosenHolds
<1>3. QED
  BY <1>1, <1>2, PTL DEF Spec

LEMMA ListsNow ==
  ASSUME IInv, ChosenInv
  PROVE  ListsExact
<1>1. ListedOnce
  BY SourcesAssumption, ExactNow
<1>2. DispatchesReady
  <2>1. SUFFICES ASSUME pc = "dispatch", NEW i \in next .. Len(dispatches)
                 PROVE  /\ dispatches[i] # None
                        /\ src[dispatches[i]].active => src[dispatches[i]].ready
    BY DEF DispatchesReady
  <2>2. next \in Nat /\ next >= 1 /\ Len(dispatches) \in Nat
    BY DEF IInv, TypeOK, PlaceInv
  <2>3. i \in 1 .. Len(dispatches) /\ i >= next
    BY <2>1, <2>2
  <2>4. From = next
    BY <2>1 DEF From
  <2>5. QED
    BY <2>1, <2>3, <2>4 DEF IInv, EntryInv, ChosenInv, QueueInv
<1>3. QED
  BY <1>1, <1>2 DEF ListsExact

\* The source that is chosen, and how urgent it is.
LEMMA ChosenStep ==
  ASSUME IInv, ChosenInv, [Next]_vars, NEW s \in Source, pc \in {"check", "check()"},
         dispatches # << >>, dispatches' = Append(dispatches, s)
  PROVE  src[s].priority <= iter.max
<1>1. TypeOK /\ PlaceInv /\ WalkInv /\ SourcesAssumption
  BY SourcesAssumption DEF IInv, ChosenInv
<1>2. PICK n \in Nat : n = Len(dispatches)
  BY <1>1 DEF TypeOK
<1>3. Len(dispatches') = n + 1 /\ dispatches'[n + 1] = s
  BY <1>1, <1>2, AppendProperties DEF TypeOK
<1>4. dispatches' # dispatches
  BY <1>2, <1>3
<1>5. ASSUME NEW t \in Source, Chosen(t)
      PROVE  s = t
  <2>1. dispatches'[n + 1] = t
    BY <1>1, <1>2, <1>5, AppendProperties DEF Chosen, TypeOK
  <2>2. QED
    BY <1>3, <2>1
<1>6. iter.n_ready > 0
  BY <1>1 DEF WalkInv
<1>7. CASE CheckNext
  <2>1. PICK it : it = Advanced
    OBVIOUS
  <2>2. ~ Ends(it) /\ src[it.source].active /\ Chosen(it.source)
    BY <1>4, <1>7, <2>1 DEF CheckNext
  <2>3. PICK to : to = IF Ends(it) THEN None ELSE it.source
    OBVIOUS
  <2>4. PICK f : f = MovedRefs(iter.source, to)
    OBVIOUS
  <2>5. /\ it \in IterType /\ to \in Source \cup {None} /\ to = it.source /\ to # None
        /\ it.n_ready = iter.n_ready /\ it.max = iter.max
    BY <1>1, <2>1, <2>2, <2>3, <2>4, WalkIs
  <2>6. s = to
    BY <1>5, <2>2, <2>5
  <2>7. ~ (src[s].priority > iter.max)
    BY <1>6, <2>2, <2>5, <2>6 DEF Ends
  <2>8. PICK a \in Nat, b \in Nat : a = src[s].priority /\ b = iter.max
    BY <1>1, <2>5, Fields DEF SourcesAssumption, IterType
  <2>9. QED
    BY <2>7, <2>8
<1>8. CASE \E ready \in BOOLEAN : CheckReturns(ready)
  <2>1. pc = "check()" /\ Chosen(iter.source)
    BY <1>4, <1>8 DEF CheckReturns
  <2>2. iter.source \in Source
    BY <1>1, <2>1 DEF PlaceInv, TypeOK
  <2>3. s = iter.source
    BY <1>5, <2>1, <2>2
  <2>4. QED
    BY <1>1, <1>6, <2>1, <2>3 DEF WalkInv
<1>9. CASE UNCHANGED vars
  BY <1>4, <1>9 DEF vars
<1>10. CASE OtherStep
  BY <1>4, <1>10 DEF OtherStep, Attach, Release, SetPriority
<1>11. CASE OwnerStep
  <2>1. CheckNext \/ \E ready \in BOOLEAN : CheckReturns(ready)
    BY <1>11 DEF OwnerStep, PrepareDrop, PrepareNext, CheckBegin, PrepareReturns,
       DispatchBegin, DispatchNext, DispatchEnd, CallReturns, DestroyEnd
  <2>2. QED
    BY <1>7, <1>8, <2>1
<1>12. CASE PrepareBegin
  BY <1>12 DEF PrepareBegin
<1>13. QED
  BY <1>9, <1>10, <1>11, <1>12 DEF Next

-----------------------------------------------------------------------------
(* The theorems *)

\* Over nested rounds, and whatever another thread attaches, moves and releases
\* whenever the lock is free, a source's ref_count (SOURCE_UNREF) is the number
\* of those who refer to it, and no freed source is in a list, in dispatches,
\* under the iterator or in a dispatch that is under way.
THEOREM SourcesAreExact ==
  Spec => []SourcesExact
<1>1. IInv => SourcesExact
  BY SourcesAssumption, ExactNow
<1>2. QED
  BY <1>1, Invariant, PTL

\* A source that is not freed is once in the list of its priority and in no
\* other (source_add_to_context, source_remove_from_context), even when
\* priorities change under the walks.
THEOREM EachListedOnce ==
  Spec => []ListedOnce
<1>1. IInv => ListedOnce
  BY SourcesAssumption, ExactNow
<1>2. QED
  BY <1>1, Invariant, PTL

\* main_dispatch_L never takes an entry that a nested round has dropped, and
\* the source it takes is ready, as long as no priority changes while check()
\* runs without the lock.
THEOREM ListsAreExact ==
  ASSUME ~ Reprioritise
  PROVE  Spec => []ListsExact
<1>1. IInv /\ ChosenInv => ListsExact
  BY ListsNow
<1>2. Spec => [](IInv /\ ChosenInv)
  BY ChosenInvariant
<1>3. QED
  BY <1>1, <1>2, PTL

\* main_context_check_U never chooses a source that is less urgent than the
\* first it chose, as long as no priority changes while check() runs.
THEOREM ChoosesInOrder ==
  ASSUME ~ Reprioritise
  PROVE  Spec => NeverLessPriority
<1>1. ASSUME IInv, ChosenInv, [Next]_vars
      PROVE  [\A s \in Source :
                /\ pc \in {"check", "check()"} /\ dispatches # << >>
                /\ dispatches' = Append(dispatches, s)
                => src[s].priority <= iter.max]_vars
  BY <1>1, ChosenStep
<1>2. Spec => [](IInv /\ ChosenInv)
  BY ChosenInvariant
<1>3. QED
  BY <1>1, <1>2, PTL DEF Spec, NeverLessPriority
=============================================================================
