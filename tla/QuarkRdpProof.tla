--------------------------- MODULE QuarkRdpProof ---------------------------
(***************************************************************************)
(* Proofs about Rdp and about Quark, two models that have nothing but this *)
(* module in common.                                                       *)
(*                                                                         *)
(* Rdp: RdpInv is inductive, with one lemma for each step.  It says which  *)
(* numbers the receiver holds to be here: those of all the packets that it *)
(* was given, so that none is taken twice.  The recursive functions of the *)
(* model are unrolled by a least counterexample: each exists, and what     *)
(* holds before its first step and is kept by each holds at its end.       *)
(*                                                                         *)
(* Quark: quarks are exact, and implement Intern, for any threads, strings *)
(* and block size: QuarksExact is inductive, and each step of the code is  *)
(* a step of the promise or none.                                          *)
(***************************************************************************)
EXTENDS Quark, Rdp, SequenceTheorems, FiniteSetTheorems, WellFoundedInduction, TLAPS

-----------------------------------------------------------------------------
(* The least of a set of numbers *)

LEMMA LeastNumber ==
  ASSUME NEW S, S \subseteq Nat, S # {}
  PROVE  \E m \in S : \A n \in S : m <= n
<1>1. PICK m \in S : \A n \in S : ~ (<<n, m>> \in OpToRel(<, Nat))
  BY NatLessThanWellFounded, WFMin
<1>2. \A n \in S : ~ (n < m)
  BY <1>1 DEF OpToRel
<1>3. QED
  BY <1>2

LEMMA MinIs ==
  ASSUME NEW S, S \subseteq Nat, S # {}
  PROVE  Min(S) \in S /\ \A n \in S : Min(S) <= n
<1>1. \E m \in S : \A n \in S : m <= n
  BY LeastNumber
<1>2. Min(S) = CHOOSE m \in S : \A n \in S : m <= n
  BY DEF Min
<1>3. QED
  BY <1>1, <1>2, Zenon

\* The first place, or the one after the end.
LEMMA FirstOfIs ==
  ASSUME NEW n \in Nat, NEW places, places \subseteq 1 .. n
  PROVE  /\ FirstOf(places, n) \in 1 .. n + 1
         /\ FirstOf(places, n) <= n => FirstOf(places, n) \in places
         /\ \A i \in places : FirstOf(places, n) <= i
<1>1. places \cup {n + 1} \subseteq Nat /\ places \cup {n + 1} # {}
  OBVIOUS
<1>2. PICK m : m = FirstOf(places, n)
  OBVIOUS
<1>3. m \in places \cup {n + 1} /\ \A i \in places \cup {n + 1} : m <= i
  BY <1>1, <1>2, MinIs DEF FirstOf
<1>4. QED
  BY <1>2, <1>3

-----------------------------------------------------------------------------
(* Ranges *)

\* The ranges are whole, ascend, and leave a number out between any two.
Apart(ranges) ==
  /\ \A i \in DOMAIN ranges : ranges[i][1] <= ranges[i][2]
  /\ \A i, j \in DOMAIN ranges : i < j => ranges[i][2] + 1 < ranges[j][1]

Covers(range, n) == range[1] <= n /\ n <= range[2]

\* x takes the place of what is between a and b.
Splice(s, a, x, b) == SubSeq(s, 1, a) \o <<x>> \o SubSeq(s, b, Len(s))

LEMMA NumberIs ==
  ASSUME RdpAssumption
  PROVE  Number \subseteq Nat /\ 0 \in Number /\ Len(Posts) \in Nat /\ IsFiniteSet(Number)
<1>1. Len(Posts) \in Nat
  BY LenProperties DEF RdpAssumption
<1>2. IsFiniteSet(0 .. Len(Posts))
  BY <1>1, FS_Interval
<1>3. QED
  BY <1>1, <1>2 DEF Number

IsSplice(t, s, a, x, b) ==
  /\ DOMAIN t = 1 .. a + Len(s) - b + 2
  /\ \A i \in 1 .. a : t[i] = s[i]
  /\ t[a + 1] = x
  /\ \A i \in a + 2 .. a + Len(s) - b + 2 : t[i] = s[i + b - a - 2]

LEMMA SpliceIs ==
  ASSUME NEW S, NEW s \in Seq(S), NEW x \in S,
         NEW a \in 0 .. Len(s), NEW b \in a + 1 .. Len(s) + 1
  PROVE  Splice(s, a, x, b) \in Seq(S) /\ IsSplice(Splice(s, a, x, b), s, a, x, b)
<1> DEFINE front == SubSeq(s, 1, a)
           back == SubSeq(s, b, Len(s))
<1>1. Len(s) \in Nat /\ DOMAIN s = 1 .. Len(s)
  BY LenProperties
<1>2. front \in Seq(S) /\ Len(front) = a /\ \A i \in 1 .. a : front[i] = s[i]
  <2>1. \A i \in 1 .. a : s[i] \in S
    BY <1>1, ElementOfSeq
  <2>2. front \in Seq(S) /\ Len(front) = IF 1 <= a THEN a - 1 + 1 ELSE 0
    BY <1>1, <2>1, SubSeqProperties
  <2>3. \A i \in 1 .. a - 1 + 1 : front[i] = s[1 + i - 1]
    BY <1>1, <2>1, SubSeqProperties
  <2>4. QED
    BY <1>1, <2>2, <2>3
<1>3. back \in Seq(S) /\ Len(back) = Len(s) - b + 1 /\ \A i \in 1 .. Len(s) - b + 1 : back[i] = s[i + b - 1]
  <2>1. \A i \in b .. Len(s) : s[i] \in S
    BY <1>1, ElementOfSeq
  <2>2. back \in Seq(S) /\ Len(back) = IF b <= Len(s) THEN Len(s) - b + 1 ELSE 0
    BY <1>1, <2>1, SubSeqProperties
  <2>3. \A i \in 1 .. Len(s) - b + 1 : back[i] = s[b + i - 1]
    BY <1>1, <2>1, SubSeqProperties
  <2>4. Len(back) = Len(s) - b + 1
    BY <1>1, <2>2
  <2>5. \A i \in 1 .. Len(s) - b + 1 : b + i - 1 = i + b - 1
    BY <1>1
  <2>6. QED
    BY <2>2, <2>3, <2>4, <2>5
<1> HIDE DEF front, back
<1>4. PICK f : f = front
  OBVIOUS
<1>5. PICK g : g = back
  OBVIOUS
<1>6. PICK m : m = f \o <<x>>
  OBVIOUS
<1>7. /\ m \in Seq(S) /\ Len(m) = a + 1
      /\ \A i \in 1 .. a : m[i] = s[i]
      /\ m[a + 1] = x
  <2>1. <<x>> \in Seq(S) /\ Len(<<x>>) = 1
    OBVIOUS
  <2>2. f \in Seq(S) /\ Len(f) = a
    BY <1>2, <1>4
  <2>3. PICK e : e = <<x>>
    OBVIOUS
  <2>4. e \in Seq(S) /\ Len(e) = 1 /\ e[1] = x
    BY <2>1, <2>3
  <2>5. f \o e \in Seq(S) /\ Len(f \o e) = Len(f) + Len(e)
    BY <2>2, <2>4, ConcatProperties
  <2>6. \A i \in 1 .. Len(f) + Len(e) : (f \o e)[i] = IF i <= Len(f) THEN f[i] ELSE e[i - Len(f)]
    BY <2>2, <2>4, ConcatProperties
  <2>7. m = f \o e
    BY <1>6, <2>3
  <2>8. \A i \in 1 .. a + 1 : m[i] = IF i <= a THEN f[i] ELSE e[i - a]
    BY <2>2, <2>4, <2>6, <2>7
  <2>9. \A i \in 1 .. a : m[i] = s[i]
    BY <1>2, <1>4, <2>8
  <2>10. m[a + 1] = e[1]
    <3>1. a + 1 \in 1 .. a + 1 /\ ~ (a + 1 <= a) /\ a + 1 - a = 1
      BY <1>1
    <3>2. QED
      BY <2>8, <3>1
  <2>11. QED
    BY <2>2, <2>4, <2>5, <2>7, <2>9, <2>10
<1>8. Splice(s, a, x, b) = m \o g
  BY <1>4, <1>5, <1>6 DEF Splice, front, back
<1>9. /\ m \o g \in Seq(S)
      /\ Len(m \o g) = a + 1 + Len(g)
      /\ \A i \in 1 .. a + 1 : (m \o g)[i] = m[i]
      /\ \A i \in a + 2 .. a + 1 + Len(g) : (m \o g)[i] = g[i - a - 1]
  <2>1. g \in Seq(S) /\ Len(g) \in Nat
    BY <1>3, <1>5, LenProperties
  <2>2. m \o g \in Seq(S) /\ Len(m \o g) = Len(m) + Len(g)
    BY <1>7, <2>1, ConcatProperties
  <2>3. \A i \in 1 .. Len(m) + Len(g) :
          (m \o g)[i] = IF i <= Len(m) THEN m[i] ELSE g[i - Len(m)]
    BY <1>7, <2>1, ConcatProperties
  <2>4. \A i \in 1 .. a + 1 : (m \o g)[i] = m[i]
    BY <1>7, <2>1, <2>3
  <2>5. \A i \in a + 2 .. a + 1 + Len(g) : (m \o g)[i] = g[i - (a + 1)]
    BY <1>7, <2>1, <2>3
  <2>6. \A i \in a + 2 .. a + 1 + Len(g) : i - (a + 1) = i - a - 1
    BY <2>1
  <2>7. QED
    BY <1>7, <2>2, <2>4, <2>5, <2>6
<1>10. PICK t : t = m \o g
  OBVIOUS
<1>11. Len(g) = Len(s) - b + 1 /\ \A i \in 1 .. Len(s) - b + 1 : g[i] = s[i + b - 1]
  BY <1>3, <1>5
<1>12. t \in Seq(S) /\ DOMAIN t = 1 .. a + Len(s) - b + 2
  <2>1. t \in Seq(S) /\ Len(t) = a + 1 + (Len(s) - b + 1)
    BY <1>9, <1>10, <1>11
  <2>2. a + 1 + (Len(s) - b + 1) = a + Len(s) - b + 2
    BY <1>1
  <2>3. DOMAIN t = 1 .. Len(t)
    BY <2>1, LenProperties
  <2>4. QED
    BY <2>1, <2>2, <2>3
<1>13. \A i \in 1 .. a : t[i] = s[i]
  BY <1>7, <1>9, <1>10
<1>14. t[a + 1] = x
  BY <1>7, <1>9, <1>10
<1>15. ASSUME NEW i \in a + 2 .. a + Len(s) - b + 2
       PROVE  t[i] = s[i + b - a - 2]
  <2>1. i - a - 1 \in 1 .. Len(s) - b + 1 /\ i \in a + 2 .. a + 1 + (Len(s) - b + 1)
    BY <1>1
  <2>2. t[i] = g[i - a - 1]
    BY <1>9, <1>10, <1>11, <2>1
  <2>3. g[i - a - 1] = s[(i - a - 1) + b - 1]
    BY <1>11, <2>1
  <2>4. (i - a - 1) + b - 1 = i + b - a - 2
    BY <1>1
  <2>5. QED
    BY <2>2, <2>3, <2>4
<1>16. IsSplice(t, s, a, x, b)
  BY <1>12, <1>13, <1>14, <1>15 DEF IsSplice
<1>17. QED
  BY <1>8, <1>10, <1>12, <1>16

LEMMA RangeIs ==
  ASSUME RdpAssumption, NEW r \in Ranges, NEW i \in DOMAIN r
  PROVE  r[i] \in Number \X Number /\ r[i][1] \in Nat /\ r[i][2] \in Nat
<1>1. r[i] \in Number \X Number
  BY ElementOfSeq, LenProperties DEF Ranges
<1>2. r[i][1] \in Number /\ r[i][2] \in Number
  BY <1>1
<1>3. QED
  BY <1>1, <1>2, NumberIs

\* x fits where it goes.
Fits(r, a, x, b) ==
  /\ r \in Ranges /\ Apart(r) /\ x \in Number \X Number /\ x[1] <= x[2]
  /\ a \in 0 .. Len(r) /\ b \in a + 1 .. Len(r) + 1
  /\ \A i \in 1 .. a : r[i][2] + 1 < x[1]
  /\ \A i \in b .. Len(r) : x[2] + 1 < r[i][1]

LEMMA SpliceApart ==
  ASSUME RdpAssumption, NEW r, NEW x, NEW a, NEW b, Fits(r, a, x, b)
  PROVE  Apart(Splice(r, a, x, b))
<1>0. r \in Ranges /\ x \in Number \X Number
  BY DEF Fits
<1>1. PICK len \in Nat : len = Len(r) /\ DOMAIN r = 1 .. len
  BY <1>0, LenProperties DEF Ranges
<1>2. PICK s : s = Splice(r, a, x, b)
  OBVIOUS
<1>3. PICK d : d = b - a - 2
  OBVIOUS
<1>4. a \in Nat /\ a <= len /\ b \in Nat /\ a < b /\ b <= len + 1 /\ d \in Int /\ b = a + d + 2
  <2>1. a \in 0 .. len /\ b \in a + 1 .. len + 1
    BY <1>1 DEF Fits
  <2>2. a \in Nat /\ a <= len /\ b \in Nat /\ a < b /\ b <= len + 1
    BY <2>1
  <2>3. QED
    BY <1>3, <2>2
<1>5. /\ DOMAIN s = 1 .. len - d
      /\ \A i \in 1 .. a : s[i] = r[i]
      /\ s[a + 1] = x
      /\ \A i \in a + 2 .. len - d : s[i] = r[i + d]
  <2>1. r \in Seq(Number \X Number) /\ a \in 0 .. Len(r) /\ b \in a + 1 .. Len(r) + 1
    BY <1>0 DEF Fits, Ranges
  <2>2. IsSplice(Splice(r, a, x, b), r, a, x, b)
    BY <1>0, <2>1, SpliceIs
  <2>3. a + Len(r) - b + 2 = len - d
    BY <1>1, <1>4
  <2>4. \A i \in a + 2 .. len - d : i + b - a - 2 = i + d
    BY <1>4
  <2>5. QED
    BY <1>2, <2>2, <2>3, <2>4 DEF IsSplice
<1>6. \A i \in DOMAIN r : r[i][1] \in Nat /\ r[i][2] \in Nat
  BY <1>0, RangeIs
<1>7. /\ x[1] \in Nat /\ x[2] \in Nat /\ x[1] <= x[2]
      /\ \A i \in 1 .. a : r[i][2] + 1 < x[1]
      /\ \A i \in b .. len : x[2] + 1 < r[i][1]
  BY <1>0, <1>1, NumberIs DEF Fits
<1>8. /\ \A i \in 1 .. len : r[i][1] <= r[i][2]
      /\ \A i, j \in 1 .. len : i < j => r[i][2] + 1 < r[j][1]
  BY <1>1 DEF Fits, Apart
<1>9. ASSUME NEW i \in DOMAIN s
      PROVE  s[i][1] <= s[i][2]
  <2>0. i \in Int /\ 1 <= i /\ i <= len - d
    BY <1>4, <1>5
  <2>1. CASE i <= a
    <3>1. i \in 1 .. a /\ i \in 1 .. len
      BY <1>4, <2>0, <2>1
    <3>2. QED
      BY <1>5, <1>8, <3>1
  <2>2. CASE i = a + 1
    BY <1>5, <1>7, <2>2
  <2>3. CASE i > a + 1
    <3>1. i \in a + 2 .. len - d /\ i + d \in 1 .. len
      BY <1>4, <2>0, <2>3, SMTT(20)
    <3>2. QED
      BY <1>5, <1>8, <3>1
  <2>4. QED
    BY <1>4, <2>0, <2>1, <2>2, <2>3
<1>10. ASSUME NEW i \in DOMAIN s, NEW j \in DOMAIN s, i < j
       PROVE  s[i][2] + 1 < s[j][1]
  <2>1. i \in Int /\ j \in Int /\ 1 <= i /\ i < j /\ j <= len - d
    BY <1>4, <1>5, <1>10
  <2>2. CASE j <= a
    <3>1. i \in 1 .. a /\ j \in 1 .. a /\ i \in 1 .. len /\ j \in 1 .. len
      BY <1>4, <2>1, <2>2, SMTT(20)
    <3>2. QED
      BY <1>5, <1>8, <1>10, <3>1
  <2>3. CASE j = a + 1
    <3>1. i \in 1 .. a
      BY <1>4, <2>1, <2>3, SMTT(20)
    <3>2. QED
      BY <1>5, <1>7, <2>3, <3>1
  <2>4. CASE j > a + 1 /\ i <= a
    <3>1. i \in 1 .. a /\ i \in 1 .. len /\ j \in a + 2 .. len - d
      BY <1>4, <2>1, <2>4
    <3>2. j + d \in 1 .. len /\ i < j + d
      BY <1>4, <2>1, <2>4
    <3>3. s[i] = r[i] /\ s[j] = r[j + d]
      BY <1>5, <3>1
    <3>4. r[i][2] + 1 < r[j + d][1]
      BY <1>8, <3>1, <3>2
    <3>5. QED
      BY <3>3, <3>4
  <2>5. CASE j > a + 1 /\ i = a + 1
    <3>1. j \in a + 2 .. len - d /\ j + d \in b .. len
      BY <1>4, <2>1, <2>5, SMTT(20)
    <3>2. s[i] = x /\ s[j] = r[j + d] /\ x[2] + 1 < r[j + d][1]
      BY <1>5, <1>7, <2>5, <3>1
    <3>3. QED
      BY <3>2
  <2>6. CASE j > a + 1 /\ i > a + 1
    <3>1. i \in a + 2 .. len - d /\ j \in a + 2 .. len - d
      BY <1>4, <2>1, <2>6
    <3>2. i + d \in 1 .. len /\ j + d \in 1 .. len /\ i + d < j + d
      BY <1>4, <2>1, <2>6
    <3>3. s[i] = r[i + d] /\ s[j] = r[j + d]
      BY <1>5, <3>1
    <3>4. r[i + d][2] + 1 < r[j + d][1]
      BY <1>8, <3>2
    <3>5. QED
      BY <3>3, <3>4
  <2>7. a \in Int /\ i \in Int /\ j \in Int
    BY <1>4, <2>1
  <2>8. j <= a \/ j = a + 1 \/ (j > a + 1 /\ (i <= a \/ i = a + 1 \/ i > a + 1))
    BY <2>7
  <2>9. QED
    BY <2>2, <2>3, <2>4, <2>5, <2>6, <2>8
<1>11. QED
  BY <1>2, <1>9, <1>10 DEF Apart

\* What a list of ranges covers, once one has taken the place of some.
Spans(r, a, x, b, n) ==
  /\ Covers(x, n)
  /\ \A k \in Nat : \A i \in a + 1 .. b - 1 : Covers(r[i], k) => Covers(x, k)
  /\ \A k \in Nat : Covers(x, k) => k = n \/ \E i \in a + 1 .. b - 1 : Covers(r[i], k)

LEMMA SpliceCovers ==
  ASSUME NEW r, NEW x, NEW a, NEW b, NEW n, NEW k \in Nat, Fits(r, a, x, b), Spans(r, a, x, b, n)
  PROVE  (\E i \in DOMAIN Splice(r, a, x, b) : Covers(Splice(r, a, x, b)[i], k))
           <=> k = n \/ \E i \in DOMAIN r : Covers(r[i], k)
<1>0. r \in Ranges /\ x \in Number \X Number
  BY DEF Fits
<1>1. PICK len \in Nat : len = Len(r) /\ DOMAIN r = 1 .. len
  BY <1>0, LenProperties DEF Ranges
<1>2. PICK s : s = Splice(r, a, x, b)
  OBVIOUS
<1>3. PICK d : d = b - a - 2
  OBVIOUS
<1>4. a \in Nat /\ a <= len /\ b \in Nat /\ a < b /\ b <= len + 1 /\ d \in Int /\ b = a + d + 2
  <2>1. a \in 0 .. len /\ b \in a + 1 .. len + 1
    BY <1>1 DEF Fits
  <2>2. a \in Nat /\ a <= len /\ b \in Nat /\ a < b /\ b <= len + 1
    BY <2>1
  <2>3. QED
    BY <1>3, <2>2
<1>5. /\ DOMAIN s = 1 .. len - d
      /\ \A i \in 1 .. a : s[i] = r[i]
      /\ s[a + 1] = x
      /\ \A i \in a + 2 .. len - d : s[i] = r[i + d]
  <2>1. r \in Seq(Number \X Number) /\ a \in 0 .. Len(r) /\ b \in a + 1 .. Len(r) + 1
    BY <1>0 DEF Fits, Ranges
  <2>2. IsSplice(Splice(r, a, x, b), r, a, x, b)
    BY <1>0, <2>1, SpliceIs
  <2>3. a + Len(r) - b + 2 = len - d
    BY <1>1, <1>4
  <2>4. \A i \in a + 2 .. len - d : i + b - a - 2 = i + d
    BY <1>4
  <2>5. QED
    BY <1>2, <2>2, <2>3, <2>4 DEF IsSplice
<1>6. a + 1 \in DOMAIN s
  <2>1. a + 1 \in 1 .. len - d
    BY <1>4
  <2>2. QED
    BY <1>5, <2>1
<1>7. ASSUME NEW i \in DOMAIN s, Covers(s[i], k)
      PROVE  k = n \/ \E j \in DOMAIN r : Covers(r[j], k)
  <2>0. i \in Int /\ 1 <= i /\ i <= len - d
    BY <1>4, <1>5
  <2>1. CASE i <= a
    <3>0. i \in 1 .. a /\ i \in 1 .. len
      BY <1>4, <2>0, <2>1
    <3>1. i \in 1 .. a /\ i \in DOMAIN r
      BY <1>1, <3>0
    <3>2. QED
      BY <1>5, <1>7, <3>1
  <2>2. CASE i = a + 1
    <3>0. a + 1 .. b - 1 \subseteq 1 .. len
      BY <1>4
    <3>1. a + 1 .. b - 1 \subseteq DOMAIN r
      BY <1>1, <3>0
    <3>2. QED
      BY <1>5, <1>7, <2>2, <3>1 DEF Spans
  <2>3. CASE i > a + 1
    <3>0. i \in a + 2 .. len - d /\ i + d \in 1 .. len
      BY <1>4, <2>0, <2>3
    <3>1. i \in a + 2 .. len - d /\ i + d \in DOMAIN r
      BY <1>1, <3>0
    <3>2. QED
      BY <1>5, <1>7, <3>1
  <2>4. QED
    BY <1>4, <2>0, <2>1, <2>2, <2>3
<1>8. ASSUME k = n
      PROVE  \E i \in DOMAIN s : Covers(s[i], k)
  BY <1>5, <1>6, <1>8 DEF Spans
<1>9. ASSUME NEW i \in DOMAIN r, Covers(r[i], k)
      PROVE  \E j \in DOMAIN s : Covers(s[j], k)
  <2>0. i \in Int /\ 1 <= i /\ i <= len
    BY <1>1
  <2>1. CASE i <= a
    <3>0. i \in 1 .. a /\ i \in 1 .. len - d
      BY <1>4, <2>0, <2>1
    <3>1. i \in 1 .. a /\ i \in DOMAIN s
      BY <1>5, <3>0
    <3>2. QED
      BY <1>5, <1>9, <3>1
  <2>2. CASE i \in a + 1 .. b - 1
    BY <1>5, <1>6, <1>9, <2>2 DEF Spans
  <2>3. CASE i >= b
    <3>0. i - d \in a + 2 .. len - d /\ i - d \in 1 .. len - d /\ (i - d) + d = i
      BY <1>4, <2>0, <2>3
    <3>1. i - d \in DOMAIN s
      BY <1>5, <3>0
    <3>2. s[i - d] = r[i]
      BY <1>5, <3>0
    <3>3. QED
      BY <1>9, <3>1, <3>2
  <2>4. QED
    BY <1>4, <2>0, <2>1, <2>2, <2>3
<1>10. QED
  BY <1>2, <1>7, <1>8, <1>9

LEMMA NumbersIs ==
  ASSUME RdpAssumption, NEW r \in Ranges, NEW k
  PROVE  k \in Numbers(r) <=> k \in Nat /\ \E i \in DOMAIN r : Covers(r[i], k)
<1>1. \A i \in DOMAIN r : r[i][1] \in Nat /\ r[i][2] \in Nat
  BY RangeIs
<1>2. k \in Numbers(r) <=> \E i \in DOMAIN r : k \in r[i][1] .. r[i][2]
  BY DEF Numbers, Range
<1>3. \A i \in DOMAIN r : k \in r[i][1] .. r[i][2] <=> k \in Nat /\ Covers(r[i], k)
  BY <1>1 DEF Covers
<1>4. QED
  BY <1>2, <1>3

\* What Insert makes of one more number.
Inserted(t, r, n) ==
  /\ t \in Ranges /\ Apart(t)
  /\ \A k \in Nat : (\E i \in DOMAIN t : Covers(t[i], k)) <=> k = n \/ \E i \in DOMAIN r : Covers(r[i], k)

LEMMA SpliceInserts ==
  ASSUME RdpAssumption, NEW r, NEW n \in Number, NEW x, NEW a, NEW b,
         Fits(r, a, x, b), Spans(r, a, x, b, n)
  PROVE  Inserted(Splice(r, a, x, b), r, n)
<1>1. Splice(r, a, x, b) \in Ranges
  BY SpliceIs DEF Fits, Ranges
<1>2. Apart(Splice(r, a, x, b))
  BY SpliceApart
<1>3. ASSUME NEW k \in Nat
      PROVE  (\E i \in DOMAIN Splice(r, a, x, b) : Covers(Splice(r, a, x, b)[i], k))
               <=> k = n \/ \E i \in DOMAIN r : Covers(r[i], k)
  BY SpliceCovers
<1>4. QED
  BY <1>1, <1>2, <1>3 DEF Inserted

\* Where a number goes: those before it start no later, those from there on do.
LEMMA PlaceIs ==
  ASSUME RdpAssumption, NEW r \in Ranges, Apart(r), NEW n \in Number,
         NEW pos, pos = FirstOf({i \in 1 .. Len(r) : Before(<<n, n>>, r[i])}, Len(r))
  PROVE  /\ pos \in 1 .. Len(r) + 1
         /\ \A i \in pos .. Len(r) : n <= r[i][1] /\ n <= r[i][2] /\ (i > pos => n + 1 < r[i][1])
         /\ \A i \in 1 .. pos - 1 : r[i][1] <= n /\ (i < pos - 1 => r[i][2] + 1 < n)
<1>1. Len(r) \in Nat /\ DOMAIN r = 1 .. Len(r)
  BY LenProperties DEF Ranges
<1>2. n \in Nat
  BY NumberIs
<1>3. \A i \in 1 .. Len(r) : r[i][1] \in Nat /\ r[i][2] \in Nat
  BY <1>1, RangeIs
<1>4. /\ \A i \in 1 .. Len(r) : r[i][1] <= r[i][2]
      /\ \A i, j \in 1 .. Len(r) : i < j => r[i][2] + 1 < r[j][1]
  BY <1>1 DEF Apart
<1> DEFINE places == {i \in 1 .. Len(r) : Before(<<n, n>>, r[i])}
<1>5. places \subseteq 1 .. Len(r)
  OBVIOUS
<1>6. /\ pos \in 1 .. Len(r) + 1
      /\ pos <= Len(r) => pos \in places
      /\ \A i \in places : pos <= i
  <2>1. PICK set, len : set = places /\ len = Len(r)
    OBVIOUS
  <2>2. len \in Nat /\ set \subseteq 1 .. len /\ pos = FirstOf(set, len)
    BY <1>1, <1>5, <2>1
  <2>3. /\ FirstOf(set, len) \in 1 .. len + 1
        /\ FirstOf(set, len) <= len => FirstOf(set, len) \in set
        /\ \A i \in set : FirstOf(set, len) <= i
    BY <2>2, FirstOfIs, Zenon
  <2>4. QED
    BY <2>1, <2>2, <2>3
<1>7. \A i \in 1 .. Len(r) : i \in places <=> n < r[i][1] \/ (n = r[i][1] /\ n < r[i][2])
  BY DEF Before
<1> HIDE DEF places
<1>8. ASSUME NEW i \in pos .. Len(r)
      PROVE  n <= r[i][1] /\ n <= r[i][2] /\ (i > pos => n + 1 < r[i][1])
  <2>1. pos \in 1 .. Len(r) /\ i \in 1 .. Len(r) /\ pos <= i
    BY <1>1, <1>6
  <2>2. pos \in places
    BY <1>6, <2>1
  <2>3. n < r[pos][1] \/ (n = r[pos][1] /\ n < r[pos][2])
    BY <1>7, <2>1, <2>2
  <2>4. PICK f, g, h, l : f = r[pos][1] /\ g = r[pos][2] /\ h = r[i][1] /\ l = r[i][2]
    OBVIOUS
  <2>5. f \in Nat /\ g \in Nat /\ h \in Nat /\ l \in Nat /\ f <= g /\ h <= l
    BY <1>3, <1>4, <2>1, <2>4
  <2>6. pos < i => g + 1 < h
    BY <1>4, <2>1, <2>4
  <2>7. n <= f
    BY <1>2, <2>3, <2>4, <2>5, SMTT(20)
  <2>8. CASE i = pos
    <3>1. n <= h /\ n <= l /\ ~ (i > pos)
      BY <1>2, <2>1, <2>4, <2>5, <2>7, <2>8, SMTT(20)
    <3>2. QED
      BY <2>4, <3>1
  <2>9. CASE pos < i
    <3>1. n + 1 < h
      BY <1>2, <2>5, <2>6, <2>7, <2>9
    <3>2. n <= h /\ n <= l
      BY <1>2, <2>5, <3>1
    <3>3. QED
      BY <2>4, <3>1, <3>2
  <2>10. QED
    BY <2>1, <2>8, <2>9
<1>9. ASSUME NEW i \in 1 .. pos - 1
      PROVE  r[i][1] <= n /\ (i < pos - 1 => r[i][2] + 1 < n)
  <2>1. i \in 1 .. Len(r) /\ pos - 1 \in 1 .. Len(r) /\ i < pos /\ pos - 1 < pos /\ i \in Nat /\ pos \in Nat
    BY <1>1, <1>6
  <2>2. pos <= Len(r) + 1 /\ pos \in Nat
    BY <1>1, <1>6
  <2>3. i \notin places
    <3>1. ~ (pos <= i)
      BY <2>1
    <3>2. QED
      BY <1>6, <3>1
  <2>4. pos - 1 \notin places
    <3>1. ~ (pos <= pos - 1)
      BY <2>1
    <3>2. QED
      BY <1>6, <3>1
  <2>5. PICK f, g, h : f = r[i][1] /\ g = r[i][2] /\ h = r[pos - 1][1]
    OBVIOUS
  <2>6. f \in Nat /\ g \in Nat /\ h \in Nat
    BY <1>3, <2>1, <2>5
  <2>7. f <= n /\ h <= n
    <3>1. ~ (n < f) /\ ~ (n < h)
      BY <1>7, <2>1, <2>3, <2>4, <2>5
    <3>2. QED
      BY <1>2, <2>6, <3>1
  <2>8. i < pos - 1 => g + 1 < h
    BY <1>4, <2>1, <2>5
  <2>9. i < pos - 1 => g + 1 < n
    BY <1>2, <2>6, <2>7, <2>8
  <2>10. QED
    BY <2>5, <2>7, <2>9
<1>10. QED
  BY <1>6, <1>8, <1>9

LEMMA InsertIs ==
  ASSUME RdpAssumption, NEW r \in Ranges, Apart(r), NEW n \in Number
  PROVE  Inserted(Insert(r, <<n, n>>), r, n)
<1>1. PICK len \in Nat : len = Len(r) /\ DOMAIN r = 1 .. len
  BY LenProperties DEF Ranges
<1>2. n \in Nat
  BY NumberIs
<1>3. \A i \in 1 .. len : r[i] \in Number \X Number /\ r[i][1] \in Nat /\ r[i][2] \in Nat
  BY <1>1, RangeIs
<1>4. /\ \A i \in 1 .. len : r[i][1] <= r[i][2]
      /\ \A i, j \in 1 .. len : i < j => r[i][2] + 1 < r[j][1]
  BY <1>1 DEF Apart
<1>5. PICK pos : pos = FirstOf({i \in 1 .. len : Before(<<n, n>>, r[i])}, len)
  OBVIOUS
<1>6. /\ pos \in 1 .. len + 1
      /\ \A i \in pos .. len : n <= r[i][1] /\ n <= r[i][2] /\ (i > pos => n + 1 < r[i][1])
      /\ \A i \in 1 .. pos - 1 : r[i][1] <= n /\ (i < pos - 1 => r[i][2] + 1 < n)
  BY <1>1, <1>5, PlaceIs
<1> DEFINE touches == pos <= len /\ r[pos][1] <= n + 1
           joins == pos > 1 /\ n <= r[pos - 1][2] + 1
<1>9. PICK iter : iter = IF touches THEN FirstOf({i \in pos .. len : n <= r[i][2]}, len) ELSE pos
  OBVIOUS
<1>10. iter = pos
  <2>1. CASE touches
    <3>1. pos \in pos .. len /\ pos \in {i \in pos .. len : n <= r[i][2]}
      <4>1. pos \in pos .. len
        BY <1>1, <1>6, <2>1
      <4>2. n <= r[pos][2]
        BY <1>6, <4>1
      <4>3. QED
        BY <4>1, <4>2
    <3>2. {i \in pos .. len : n <= r[i][2]} \subseteq 1 .. len
      BY <1>1, <1>6
    <3>3. FirstOf({i \in pos .. len : n <= r[i][2]}, len) \in 1 .. len + 1
      BY <3>2, FirstOfIs
    <3>4. FirstOf({i \in pos .. len : n <= r[i][2]}, len) <= pos
      BY <3>1, <3>2, FirstOfIs
    <3>5. PICK m : m = FirstOf({i \in pos .. len : n <= r[i][2]}, len)
      OBVIOUS
    <3>6. m \in 1 .. len + 1 /\ m <= pos /\ (m <= len => m \in {i \in pos .. len : n <= r[i][2]})
      BY <3>2, <3>3, <3>4, <3>5, FirstOfIs
    <3>7. m <= len
      <4>1. pos <= len /\ pos \in Nat /\ m \in Nat
        BY <1>6, <2>1, <3>6
      <4>2. QED
        BY <3>6, <4>1
    <3>8. m >= pos
      BY <3>6, <3>7
    <3>9. QED
      BY <1>6, <1>9, <2>1, <3>5, <3>6, <3>8
  <2>2. QED
    BY <1>9, <2>1
<1>11. PICK first : first = IF joins THEN r[pos - 1][1] ELSE n
  OBVIOUS
<1>12. PICK second : second = CASE touches /\ pos <= len -> r[pos][2]
                                [] ~touches /\ joins /\ r[pos - 1][2] > n -> r[pos - 1][2]
                                [] OTHER -> n
  OBVIOUS
<1>13. Insert(r, <<n, n>>) =
         Splice(r, IF joins THEN pos - 2 ELSE pos - 1, <<first, second>>,
                IF touches THEN pos + 1 ELSE pos)
  BY <1>1, <1>5, <1>9, <1>10, <1>11, <1>12 DEF Insert, Reaches, Splice
<1>14. PICK x : x = <<first, second>>
  OBVIOUS
<1>15. x[1] = first /\ x[2] = second
  BY <1>14
<1>16. r \in Ranges /\ Apart(r) /\ n \in Number
  OBVIOUS
<1>17. ASSUME NEW a \in 0 .. len, NEW b \in a + 1 .. len + 1,
              first \in Number, second \in Number,
              \A i \in 1 .. a : r[i][2] + 1 < first,
              \A i \in b .. len : second + 1 < r[i][1],
              first <= n, n <= second,
              \A k \in Nat : \A i \in a + 1 .. b - 1 : Covers(r[i], k) => first <= k /\ k <= second,
              \A k \in Nat : first <= k /\ k <= second =>
                 k = n \/ \E i \in a + 1 .. b - 1 : Covers(r[i], k)
       PROVE  Inserted(Splice(r, a, x, b), r, n)
  <2>1. x \in Number \X Number
    BY <1>14, <1>17
  <2>2. a \in 0 .. Len(r) /\ b \in a + 1 .. Len(r) + 1
    BY <1>1
  <2>3. \A i \in 1 .. a : r[i][2] + 1 < x[1]
    BY <1>15, <1>17
  <2>4. \A i \in b .. Len(r) : x[2] + 1 < r[i][1]
    BY <1>1, <1>15, <1>17
  <2>5. \A k : Covers(x, k) <=> first <= k /\ k <= second
    BY <1>15 DEF Covers
  <2>6. Covers(x, n)
    BY <1>17, <2>5
  <2>7. \A k \in Nat : \A i \in a + 1 .. b - 1 : Covers(r[i], k) => Covers(x, k)
    BY <1>17, <2>5
  <2>8. \A k \in Nat : Covers(x, k) => k = n \/ \E i \in a + 1 .. b - 1 : Covers(r[i], k)
    BY <1>17, <2>5
  <2>9. Fits(r, a, x, b)
    <3>1. first \in Nat /\ second \in Nat /\ n \in Nat
      BY <1>17, NumberIs
    <3>2. x[1] <= x[2]
      BY <1>15, <1>17, <3>1
    <3>3. QED
      BY <1>16, <2>1, <2>2, <2>3, <2>4, <3>2 DEF Fits
  <2>10. Spans(r, a, x, b, n)
    BY <2>6, <2>7, <2>8 DEF Spans
  <2>11. QED
    BY <2>9, <2>10, SpliceInserts
<1>18. \A i \in 1 .. len : r[i][1] \in Number /\ r[i][2] \in Number
  BY <1>3
<1>19. Number \subseteq Nat
  BY NumberIs
<1>20. ASSUME touches
       PROVE  pos \in 1 .. len /\ pos \in pos .. len /\ n <= r[pos][1] /\ r[pos][1] <= n + 1
  <2>1. pos \in 1 .. len /\ pos \in pos .. len
    BY <1>1, <1>6, <1>20
  <2>2. QED
    BY <1>6, <1>20, <2>1
<1>21. ASSUME joins
       PROVE  pos - 1 \in 1 .. len /\ pos - 1 \in 1 .. pos - 1 /\ r[pos - 1][1] <= n /\ n <= r[pos - 1][2] + 1
  <2>1. pos - 1 \in 1 .. len /\ pos - 1 \in 1 .. pos - 1
    BY <1>1, <1>6, <1>21
  <2>2. QED
    BY <1>6, <1>21, <2>1
<1>22. pos \in Nat /\ 1 <= pos /\ pos <= len + 1
  BY <1>1, <1>6
\* What is left of n and does not join it, or right of n and does not touch it.
<1>23. ASSUME NEW i \in 1 .. pos - 1, i < pos - 1 \/ ~joins
       PROVE  r[i][2] + 1 < n
  <2>1. CASE i < pos - 1
    BY <1>6, <2>1
  <2>2. CASE i = pos - 1
    <3>1. ~joins /\ pos > 1
      BY <1>22, <1>23, <2>2
    <3>2. ~ (n <= r[i][2] + 1)
      BY <2>2, <3>1
    <3>3. i \in 1 .. len
      BY <1>1, <1>22
    <3>4. r[i][2] \in Nat
      BY <1>3, <3>3
    <3>5. QED
      BY <1>2, <3>2, <3>4
  <2>3. QED
    BY <1>22, <2>1, <2>2
<1>24. ASSUME NEW i \in pos .. len, i > pos \/ ~touches
       PROVE  n + 1 < r[i][1]
  <2>1. CASE i > pos
    BY <1>6, <2>1
  <2>2. CASE i = pos
    <3>1. ~touches /\ pos <= len
      BY <1>22, <1>24, <2>2
    <3>2. ~ (r[i][1] <= n + 1)
      BY <2>2, <3>1
    <3>3. i \in 1 .. len
      BY <1>1, <1>22
    <3>4. r[i][1] \in Nat
      BY <1>3, <3>3
    <3>5. QED
      BY <1>2, <3>2, <3>4
  <2>3. QED
    BY <1>22, <2>1, <2>2
<1> HIDE DEF touches, joins
<1>25. CASE ~touches /\ ~joins
  <2>1. first = n /\ second = n
    BY <1>11, <1>12, <1>25
  <2>2. Insert(r, <<n, n>>) = Splice(r, pos - 1, x, pos)
    BY <1>13, <1>14, <1>25
  <2>3. pos - 1 \in 0 .. len /\ pos \in (pos - 1) + 1 .. len + 1
    BY <1>1, <1>22
  <2>4. \A i \in 1 .. pos - 1 : r[i][2] + 1 < n
    BY <1>23, <1>25
  <2>5. \A i \in pos .. len : n + 1 < r[i][1]
    BY <1>24, <1>25
  <2>6. \A i \in (pos - 1) + 1 .. pos - 1 : FALSE
    BY <1>22
  <2>7. \A k \in Nat : n <= k /\ k <= n => k = n
    BY <1>2
  <2>8. n <= n
    BY <1>2
  <2>9. QED
    BY <1>17, <2>1, <2>2, <2>3, <2>4, <2>5, <2>6, <2>7, <2>8
<1>26. CASE ~touches /\ joins
  <2>1. PICK l : l = pos - 1
    OBVIOUS
  <2>2. l \in 1 .. len /\ l \in Nat /\ pos = l + 1 /\ r[l][1] <= n /\ n <= r[l][2] + 1
    BY <1>1, <1>21, <1>22, <1>26, <2>1
  <2>3. PICK f, g : f = r[l][1] /\ g = r[l][2]
    OBVIOUS
  <2>4. f \in Number /\ g \in Number /\ f \in Nat /\ g \in Nat /\ f <= g
    BY <1>4, <1>18, <1>19, <2>2, <2>3
  <2>5. f <= n /\ n <= g + 1
    BY <2>2, <2>3
  <2>6. first = f /\ second = IF g > n THEN g ELSE n
    BY <1>11, <1>12, <1>26, <2>1, <2>3
  <2>7. second \in Nat /\ second \in Number /\ g <= second /\ n <= second
    BY <1>2, <2>4, <2>6
  <2>8. Insert(r, <<n, n>>) = Splice(r, l - 1, x, l + 1)
    <3>1. pos - 2 = l - 1
      BY <2>2
    <3>2. QED
      BY <1>13, <1>14, <1>26, <2>2, <3>1
  <2>9. l - 1 \in 0 .. len /\ l + 1 \in (l - 1) + 1 .. len + 1
    BY <1>1, <2>2
  <2>10. \A i \in 1 .. l - 1 : r[i][2] + 1 < first
    <3>1. \A i \in 1 .. l - 1 : i \in 1 .. len /\ i < l
      BY <1>1, <2>2
    <3>2. QED
      BY <1>4, <2>2, <2>3, <2>6, <3>1
  <2>11. ASSUME NEW i \in l + 1 .. len
         PROVE  second + 1 < r[i][1]
    <3>1. i \in 1 .. len /\ l < i /\ i \in pos .. len
      BY <1>1, <2>2
    <3>2. g + 1 < r[i][1]
      BY <1>4, <2>2, <2>3, <3>1
    <3>3. n + 1 < r[i][1]
      BY <1>24, <1>26, <3>1
    <3>4. QED
      BY <2>6, <3>2, <3>3
  <2>12. (l - 1) + 1 .. (l + 1) - 1 = {l}
    BY <2>2
  <2>13. \A k : Covers(r[l], k) <=> f <= k /\ k <= g
    BY <2>3 DEF Covers
  <2>14. \A k \in Nat : Covers(r[l], k) => first <= k /\ k <= second
    BY <2>4, <2>6, <2>7, <2>13
  <2>15. \A k \in Nat : first <= k /\ k <= second => k = n \/ Covers(r[l], k)
    <3>1. \A k \in Nat : k <= n => k = n \/ k <= g
      BY <1>2, <2>4, <2>5
    <3>2. QED
      BY <2>6, <2>13, <3>1
  <2>16. \A i \in (l - 1) + 1 .. (l + 1) - 1 : i = l
    BY <2>12
  <2>17. l \in (l - 1) + 1 .. (l + 1) - 1
    BY <2>12
  <2>18. /\ \A k \in Nat : \A i \in (l - 1) + 1 .. (l + 1) - 1 : Covers(r[i], k) => first <= k /\ k <= second
         /\ \A k \in Nat : first <= k /\ k <= second =>
                k = n \/ \E i \in (l - 1) + 1 .. (l + 1) - 1 : Covers(r[i], k)
    BY <2>14, <2>15, <2>16, <2>17, Zenon
  <2>19. first \in Number /\ first <= n
    BY <2>4, <2>5, <2>6
  <2>20. Inserted(Splice(r, l - 1, x, l + 1), r, n)
    BY <1>17, <2>7, <2>9, <2>10, <2>11, <2>18, <2>19
  <2>21. QED
    BY <2>8, <2>20
<1>27. CASE touches /\ ~joins
  <2>2. pos \in 1 .. len /\ n <= r[pos][1] /\ r[pos][1] <= n + 1
    BY <1>20, <1>27
  <2>3. PICK f, g : f = r[pos][1] /\ g = r[pos][2]
    OBVIOUS
  <2>4. f \in Number /\ g \in Number /\ f \in Nat /\ g \in Nat /\ f <= g
    BY <1>4, <1>18, <1>19, <2>2, <2>3
  <2>5. n <= f /\ f <= n + 1
    BY <2>2, <2>3
  <2>6. first = n /\ second = g
    <3>1. pos <= len
      BY <2>2
    <3>2. QED
      BY <1>11, <1>12, <1>27, <2>3, <3>1
  <2>7. n <= g /\ n <= n
    BY <1>2, <2>4, <2>5
  <2>8. Insert(r, <<n, n>>) = Splice(r, pos - 1, x, pos + 1)
    BY <1>13, <1>14, <1>27
  <2>9. pos - 1 \in 0 .. len /\ pos + 1 \in (pos - 1) + 1 .. len + 1
    BY <1>1, <2>2
  <2>10. \A i \in 1 .. pos - 1 : r[i][2] + 1 < first
    BY <1>23, <1>27, <2>6
  <2>11. ASSUME NEW i \in pos + 1 .. len
         PROVE  second + 1 < r[i][1]
    <3>1. i \in 1 .. len /\ pos < i
      BY <1>1, <2>2
    <3>2. QED
      BY <1>4, <2>2, <2>3, <2>6, <3>1
  <2>12. (pos - 1) + 1 .. (pos + 1) - 1 = {pos}
    BY <2>2
  <2>13. \A k : Covers(r[pos], k) <=> f <= k /\ k <= g
    BY <2>3 DEF Covers
  <2>14. \A k \in Nat : Covers(r[pos], k) => first <= k /\ k <= second
    BY <1>2, <2>4, <2>5, <2>6, <2>13
  <2>15. \A k \in Nat : first <= k /\ k <= second => k = n \/ Covers(r[pos], k)
    <3>1. \A k \in Nat : n <= k => k = n \/ f <= k
      BY <1>2, <2>4, <2>5
    <3>2. QED
      BY <2>6, <2>13, <3>1
  <2>16. \A i \in (pos - 1) + 1 .. (pos + 1) - 1 : i = pos
    BY <2>12
  <2>17. pos \in (pos - 1) + 1 .. (pos + 1) - 1
    BY <2>12
  <2>18. /\ \A k \in Nat : \A i \in (pos - 1) + 1 .. (pos + 1) - 1 :
                Covers(r[i], k) => first <= k /\ k <= second
         /\ \A k \in Nat : first <= k /\ k <= second =>
                k = n \/ \E i \in (pos - 1) + 1 .. (pos + 1) - 1 : Covers(r[i], k)
    BY <2>14, <2>15, <2>16, <2>17, Zenon
  <2>19. first \in Number /\ first <= n /\ second \in Number /\ n <= second
    BY <2>4, <2>6, <2>7
  <2>20. Inserted(Splice(r, pos - 1, x, pos + 1), r, n)
    BY <1>17, <2>9, <2>10, <2>11, <2>18, <2>19
  <2>21. QED
    BY <2>8, <2>20
<1>28. CASE touches /\ joins
  <2>1. PICK l : l = pos - 1
    OBVIOUS
  <2>2. /\ l \in 1 .. len /\ l \in Nat /\ pos = l + 1 /\ r[l][1] <= n /\ n <= r[l][2] + 1
        /\ pos \in 1 .. len /\ n <= r[pos][1] /\ r[pos][1] <= n + 1
    BY <1>1, <1>20, <1>21, <1>22, <1>28, <2>1
  <2>3. PICK f, g, h, m : f = r[l][1] /\ g = r[l][2] /\ h = r[pos][1] /\ m = r[pos][2]
    OBVIOUS
  <2>4. /\ f \in Number /\ m \in Number
        /\ f \in Nat /\ g \in Nat /\ f <= g /\ h \in Nat /\ m \in Nat /\ h <= m /\ g + 1 < h
    <3>1. f \in Number /\ g \in Number /\ h \in Number /\ m \in Number
      BY <1>18, <2>2, <2>3
    <3>2. f <= g /\ h <= m
      BY <1>4, <2>2, <2>3
    <3>3. l \in 1 .. len /\ pos \in 1 .. len /\ l < pos
      BY <2>2
    <3>4. r[l][2] + 1 < r[pos][1]
      BY <1>4, <3>3
    <3>5. QED
      BY <1>19, <2>3, <3>1, <3>2, <3>4
  <2>5. f <= n /\ n <= g + 1 /\ n <= h /\ h <= n + 1
    BY <2>2, <2>3
  <2>6. first = f /\ second = m
    <3>1. pos <= len
      BY <2>2
    <3>2. QED
      BY <1>11, <1>12, <1>28, <2>1, <2>3, <3>1
  <2>7. n <= m
    BY <1>2, <2>4, <2>5
  <2>8. Insert(r, <<n, n>>) = Splice(r, l - 1, x, pos + 1)
    <3>1. pos - 2 = l - 1
      BY <2>2
    <3>2. QED
      BY <1>13, <1>14, <1>28, <3>1
  <2>9. l - 1 \in 0 .. len /\ pos + 1 \in (l - 1) + 1 .. len + 1
    BY <1>1, <2>2
  <2>10. \A i \in 1 .. l - 1 : r[i][2] + 1 < first
    <3>1. \A i \in 1 .. l - 1 : i \in 1 .. len /\ i < l
      BY <1>1, <2>2
    <3>2. QED
      BY <1>4, <2>2, <2>3, <2>6, <3>1
  <2>11. ASSUME NEW i \in pos + 1 .. len
         PROVE  second + 1 < r[i][1]
    <3>1. i \in 1 .. len /\ pos < i
      BY <1>1, <2>2
    <3>2. QED
      BY <1>4, <2>2, <2>3, <2>6, <3>1
  <2>12. \A k : Covers(r[l], k) <=> f <= k /\ k <= g
    BY <2>3 DEF Covers
  <2>13. \A k : Covers(r[pos], k) <=> h <= k /\ k <= m
    BY <2>3 DEF Covers
  <2>14. \A k \in Nat : Covers(r[l], k) \/ Covers(r[pos], k) => first <= k /\ k <= second
    BY <2>4, <2>6, <2>12, <2>13
  <2>15. \A k \in Nat : first <= k /\ k <= second => k = n \/ Covers(r[l], k) \/ Covers(r[pos], k)
    <3>1. \A k \in Nat : k = n \/ k <= g \/ h <= k
      BY <1>2, <2>4, <2>5
    <3>2. QED
      BY <2>6, <2>12, <2>13, <3>1
  <2>16. \A i \in (l - 1) + 1 .. (pos + 1) - 1 : i = l \/ i = pos
    BY <2>2
  <2>17. l \in (l - 1) + 1 .. (pos + 1) - 1 /\ pos \in (l - 1) + 1 .. (pos + 1) - 1
    BY <2>2
  <2>18. /\ \A k \in Nat : \A i \in (l - 1) + 1 .. (pos + 1) - 1 :
                Covers(r[i], k) => first <= k /\ k <= second
         /\ \A k \in Nat : first <= k /\ k <= second =>
                k = n \/ \E i \in (l - 1) + 1 .. (pos + 1) - 1 : Covers(r[i], k)
    BY <2>14, <2>15, <2>16, <2>17, Zenon
  <2>19. first \in Number /\ first <= n /\ second \in Number /\ n <= second
    BY <2>4, <2>5, <2>6, <2>7
  <2>20. Inserted(Splice(r, l - 1, x, pos + 1), r, n)
    BY <1>17, <2>9, <2>10, <2>11, <2>18, <2>19
  <2>21. QED
    BY <2>8, <2>20
<1>29. QED
  BY <1>25, <1>26, <1>27, <1>28

-----------------------------------------------------------------------------
(* Numbers are inserted one after the other *)

\* f is after, in InsertAll, up to k.
IsAfter(f, ranges, numbers, k) ==
  f = [i \in 0 .. k |->
         IF i = 0 THEN ranges ELSE Insert(f[i - 1], <<numbers[i], numbers[i]>>)]

LEMMA AfterExists ==
  ASSUME NEW ranges, NEW numbers, NEW n \in Nat
  PROVE  \E f : IsAfter(f, ranges, numbers, n)
<1> DEFINE missing == {k \in Nat : ~ \E f : IsAfter(f, ranges, numbers, k)}
<1>1. SUFFICES ASSUME missing # {}
               PROVE  FALSE
  OBVIOUS
<1>2. PICK m \in missing : \A k \in missing : m <= k
  BY <1>1, LeastNumber
<1>3. m \in Nat /\ ~ \E f : IsAfter(f, ranges, numbers, m)
  BY <1>2
<1>4. CASE m = 0
  <2>1. PICK f : f = [i \in 0 .. 0 |-> ranges]
    OBVIOUS
  <2>2. f = [i \in 0 .. 0 |->
               IF i = 0 THEN ranges ELSE Insert(f[i - 1], <<numbers[i], numbers[i]>>)]
    BY <2>1
  <2>3. QED
    BY <1>3, <1>4, <2>2 DEF IsAfter
<1>5. CASE m # 0
  <2>1. m - 1 \in Nat /\ ~ (m <= m - 1)
    BY <1>3, <1>5
  <2>2. m - 1 \notin missing
    BY <1>2, <2>1
  <2>3. PICK f : IsAfter(f, ranges, numbers, m - 1)
    BY <2>1, <2>2
  <2>4. \A i \in 0 .. m - 1 :
          f[i] = IF i = 0 THEN ranges ELSE Insert(f[i - 1], <<numbers[i], numbers[i]>>)
    BY <2>3 DEF IsAfter
  <2>5. PICK g : g = [i \in 0 .. m |->
                        IF i = m THEN Insert(f[m - 1], <<numbers[m], numbers[m]>>) ELSE f[i]]
    OBVIOUS
  <2>6. ASSUME NEW i \in 0 .. m
        PROVE  g[i] = IF i = 0 THEN ranges ELSE Insert(g[i - 1], <<numbers[i], numbers[i]>>)
    <3>1. CASE i = m
      <4>1. m - 1 \in 0 .. m /\ m - 1 # m
        BY <1>3, <2>1
      <4>2. g[m - 1] = f[m - 1]
        BY <2>5, <4>1
      <4>3. g[m] = Insert(f[m - 1], <<numbers[m], numbers[m]>>)
        BY <2>5, <3>1
      <4>4. QED
        BY <1>5, <3>1, <4>2, <4>3
    <3>2. CASE i # m
      <4>1. i \in 0 .. m - 1
        BY <1>3, <3>2
      <4>2. g[i] = f[i]
        BY <2>5, <3>2
      <4>3. CASE i = 0
        BY <2>4, <4>1, <4>2, <4>3
      <4>4. CASE i # 0
        <5>1. i - 1 \in 0 .. m /\ i - 1 # m
          BY <1>3, <4>1, <4>4
        <5>2. g[i - 1] = f[i - 1]
          BY <2>5, <5>1
        <5>3. f[i] = Insert(f[i - 1], <<numbers[i], numbers[i]>>)
          BY <2>4, <4>1, <4>4
        <5>4. QED
          BY <4>2, <4>4, <5>2, <5>3
      <4>5. QED
        BY <4>3, <4>4
    <3>3. QED
      BY <3>1, <3>2
  <2>7. g = [i \in 0 .. m |->
               IF i = 0 THEN ranges ELSE Insert(g[i - 1], <<numbers[i], numbers[i]>>)]
    <3>1. g = [i \in 0 .. m |-> g[i]]
      BY <2>5
    <3>2. QED
      BY <2>6, <3>1, Zenon
  <2>8. QED
    BY <1>3, <2>7 DEF IsAfter
<1>6. QED
  BY <1>4, <1>5

LEMMA InsertAllIs ==
  ASSUME NEW ranges, NEW numbers, Len(numbers) \in Nat
  PROVE  \E f : IsAfter(f, ranges, numbers, Len(numbers)) /\ InsertAll(ranges, numbers) = f[Len(numbers)]
<1>1. \E f : IsAfter(f, ranges, numbers, Len(numbers))
  BY AfterExists
<1>2. InsertAll(ranges, numbers) = (CHOOSE f : IsAfter(f, ranges, numbers, Len(numbers)))[Len(numbers)]
  BY DEF InsertAll, IsAfter
<1>3. QED
  BY <1>1, <1>2, Zenon

LEMMA InsertAllApart ==
  ASSUME RdpAssumption, NEW ranges \in Ranges, Apart(ranges), NEW numbers \in Seq(Number)
  PROVE  InsertAll(ranges, numbers) \in Ranges /\ Apart(InsertAll(ranges, numbers))
<1>1. Len(numbers) \in Nat /\ \A i \in 1 .. Len(numbers) : numbers[i] \in Number
  BY LenProperties, ElementOfSeq
<1>2. PICK f : IsAfter(f, ranges, numbers, Len(numbers)) /\ InsertAll(ranges, numbers) = f[Len(numbers)]
  BY <1>1, InsertAllIs
<1>3. \A i \in 0 .. Len(numbers) :
        f[i] = IF i = 0 THEN ranges ELSE Insert(f[i - 1], <<numbers[i], numbers[i]>>)
  BY <1>2 DEF IsAfter
<1> DEFINE bad == {i \in 0 .. Len(numbers) : ~ (f[i] \in Ranges /\ Apart(f[i]))}
<1>4. bad = {}
  <2>1. SUFFICES ASSUME bad # {}
                 PROVE  FALSE
    OBVIOUS
  <2>2. bad \subseteq Nat
    BY <1>1
  <2>3. PICK m \in bad : \A k \in bad : m <= k
    BY <2>1, <2>2, LeastNumber
  <2>4. m \in 0 .. Len(numbers) /\ ~ (f[m] \in Ranges /\ Apart(f[m]))
    BY <2>3
  <2>5. m # 0
    BY <1>3, <2>4
  <2>6. m \in 1 .. Len(numbers) /\ m - 1 \in 0 .. Len(numbers) /\ ~ (m <= m - 1)
    BY <1>1, <2>4, <2>5
  <2>7. m - 1 \notin bad
    BY <2>3, <2>6
  <2>8. f[m - 1] \in Ranges /\ Apart(f[m - 1])
    BY <2>6, <2>7
  <2>9. numbers[m] \in Number
    BY <1>1, <2>6
  <2>10. Inserted(Insert(f[m - 1], <<numbers[m], numbers[m]>>), f[m - 1], numbers[m])
    BY <2>8, <2>9, InsertIs
  <2>11. f[m] = Insert(f[m - 1], <<numbers[m], numbers[m]>>)
    BY <1>3, <2>4, <2>5
  <2>12. QED
    BY <2>4, <2>10, <2>11 DEF Inserted
<1>5. Len(numbers) \in 0 .. Len(numbers)
  BY <1>1
<1>6. QED
  BY <1>2, <1>4, <1>5

LEMMA OneMoreIsExact ==
  ASSUME RdpAssumption, NEW ranges \in Ranges, Apart(ranges), NEW n \in Number,
         NEW more, more = Insert(ranges, <<n, n>>)
  PROVE  /\ Numbers(more) = Numbers(ranges) \cup {n}
         /\ \A i \in DOMAIN more : more[i][1] <= more[i][2]
         /\ \A i \in 2 .. Len(more) : more[i - 1][2] + 1 < more[i][1]
<1>1. Inserted(more, ranges, n)
  BY InsertIs
<1>2. more \in Ranges /\ Apart(more)
  BY <1>1 DEF Inserted
<1>3. n \in Nat
  BY NumberIs
<1>4. ASSUME NEW k
      PROVE  k \in Numbers(more) <=> k \in Numbers(ranges) \cup {n}
  <2>1. k \in Numbers(more) <=> k \in Nat /\ \E i \in DOMAIN more : Covers(more[i], k)
    BY <1>2, NumbersIs
  <2>2. k \in Numbers(ranges) <=> k \in Nat /\ \E i \in DOMAIN ranges : Covers(ranges[i], k)
    BY NumbersIs
  <2>3. k \in Nat => ((\E i \in DOMAIN more : Covers(more[i], k))
                        <=> k = n \/ \E i \in DOMAIN ranges : Covers(ranges[i], k))
    BY <1>1 DEF Inserted
  <2>4. QED
    BY <1>3, <2>1, <2>2, <2>3
<1>5. Len(more) \in Nat /\ DOMAIN more = 1 .. Len(more)
  BY <1>2, LenProperties DEF Ranges
<1>6. ASSUME NEW i \in 2 .. Len(more)
      PROVE  more[i - 1][2] + 1 < more[i][1]
  <2>1. i - 1 \in DOMAIN more /\ i \in DOMAIN more /\ i - 1 < i
    BY <1>5
  <2>2. QED
    BY <1>2, <2>1 DEF Apart
<1>7. QED
  BY <1>2, <1>4, <1>6 DEF Apart

-----------------------------------------------------------------------------
(* The invariant *)

\* A packet that was given its number below m, and its place, if it has one, below o.
Sound(p, m, o) == p.num < m /\ (p.kind \in Sequenced => p.index < o)

\* Whether a number has come or is given up, where the places s start at b.
Here(n, b, s) == n < b \/ \E i \in DOMAIN s : s[i] /\ n = b + i - 1

CountsInv ==
  /\ orderingIndex <= messageNumber + Len(sendQueue)
  /\ messageNumber + Len(sendQueue) <= Len(Posts)

PacketsInv ==
  /\ \A i \in DOMAIN sendQueue :
       sendQueue[i].kind \in Sequenced => sendQueue[i].index < orderingIndex
  /\ \A i \in DOMAIN resendQueue : Sound(resendQueue[i].packet, messageNumber, orderingIndex)
  /\ \A p \in data : Sound(p, messageNumber, orderingIndex)
  /\ \A i \in DOMAIN receivedQueue : Sound(receivedQueue[i], messageNumber, orderingIndex)

PlacesInv ==
  /\ slots # << >> => ~ slots[1]
  /\ \A i \in DOMAIN receivedQueue : Here(receivedQueue[i].num, base, slots)
  /\ \A i \in DOMAIN output : Here(output[i].num, base, slots)

OnceInv ==
  /\ \A i, j \in DOMAIN receivedQueue : receivedQueue[i].num = receivedQueue[j].num => i = j
  /\ \A i, j \in DOMAIN output : output[i].num = output[j].num => i = j
  /\ \A i \in DOMAIN receivedQueue, j \in DOMAIN output : receivedQueue[i].num # output[j].num

OrderInv ==
  /\ \A i \in DOMAIN output : output[i].kind \in Sequenced => output[i].index < sequencedIndex
  /\ \A i, j \in DOMAIN output :
       i < j /\ {output[i].kind, output[j].kind} \subseteq Sequenced =>
         output[i].index < output[j].index

RangesInv == Apart(ackRanges) /\ Apart(nackRanges)

RdpInv ==
  RdpTypeOK /\ CountsInv /\ PacketsInv /\ PlacesInv /\ OnceInv /\ OrderInv /\ RangesInv

LEMMA InvIsRangesExact ==
  ASSUME RdpAssumption, RdpInv
  PROVE  RangesExact
<1>1. /\ ackRanges \in Ranges /\ nackRanges \in Ranges
      /\ Apart(ackRanges) /\ Apart(nackRanges)
  BY DEF RdpInv, RdpTypeOK, RangesInv
<1>2. \A ranges \in {ackRanges, nackRanges} : ranges \in Ranges /\ Apart(ranges)
  BY <1>1
<1>3. ASSUME NEW ranges \in {ackRanges, nackRanges}, NEW n \in Number
      PROVE  LET more == Insert(ranges, <<n, n>>)
             IN /\ Numbers(more) = Numbers(ranges) \cup {n}
                /\ \A i \in DOMAIN more : more[i][1] <= more[i][2]
                /\ \A i \in 2 .. Len(more) : more[i - 1][2] + 1 < more[i][1]
  BY <1>2, OneMoreIsExact
<1>4. QED
  BY <1>3 DEF RangesExact

LEMMA InvIsOnceInOrder ==
  ASSUME RdpInv
  PROVE  OnceInOrder
<1>1. /\ RdpTypeOK
      /\ receivedQueue \in Seq(Packet) /\ output \in Seq(Packet)
  BY DEF RdpInv, RdpTypeOK
<1>2. OnceInv /\ OrderInv
  BY DEF RdpInv
<1>3. PICK n \in Nat : n = Len(output) /\ DOMAIN output = 1 .. n
  BY <1>1, LenProperties
<1>4. PICK m \in Nat : m = Len(receivedQueue) /\ DOMAIN receivedQueue = 1 .. m
  BY <1>1, LenProperties
<1>5. PICK all : all = output \o receivedQueue
  OBVIOUS
<1>6. /\ all \in Seq(Packet) /\ Len(all) = n + m
      /\ \A i \in 1 .. n + m : all[i] = IF i <= n THEN output[i] ELSE receivedQueue[i - n]
  BY <1>1, <1>3, <1>4, <1>5, ConcatProperties
<1>7. DOMAIN all = 1 .. n + m
  BY <1>6, LenProperties
<1>8. ASSUME NEW i \in DOMAIN all
      PROVE  \/ i \in 1 .. n /\ all[i] = output[i]
             \/ i - n \in 1 .. m /\ all[i] = receivedQueue[i - n] /\ i \in Int
  <2>1. i \in 1 .. n + m
    BY <1>7
  <2>2. CASE i <= n
    BY <1>6, <2>1, <2>2
  <2>3. CASE ~ (i <= n)
    BY <1>6, <2>1, <2>3
  <2>4. QED
    BY <2>2, <2>3
<1>9. ASSUME NEW i \in DOMAIN all, NEW j \in DOMAIN all, all[i].num = all[j].num
      PROVE  i = j
  <2>1. CASE i \in 1 .. n /\ all[i] = output[i] /\ j \in 1 .. n /\ all[j] = output[j]
    BY <1>2, <1>3, <1>9, <2>1 DEF OnceInv
  <2>2. CASE /\ i - n \in 1 .. m /\ all[i] = receivedQueue[i - n] /\ i \in Int
             /\ j - n \in 1 .. m /\ all[j] = receivedQueue[j - n] /\ j \in Int
    <3>1. i - n = j - n
      BY <1>2, <1>4, <1>9, <2>2 DEF OnceInv
    <3>2. QED
      BY <2>2, <3>1
  <2>3. CASE i \in 1 .. n /\ all[i] = output[i] /\ j - n \in 1 .. m /\ all[j] = receivedQueue[j - n]
    BY <1>2, <1>3, <1>4, <1>9, <2>3 DEF OnceInv
  <2>4. CASE j \in 1 .. n /\ all[j] = output[j] /\ i - n \in 1 .. m /\ all[i] = receivedQueue[i - n]
    BY <1>2, <1>3, <1>4, <1>9, <2>4 DEF OnceInv
  <2>5. QED
    BY <1>8, <2>1, <2>2, <2>3, <2>4
<1>10. QED
  BY <1>1, <1>2, <1>5, <1>9 DEF OnceInOrder, OrderInv

LEMMA InitInv ==
  ASSUME RdpAssumption, RdpInit
  PROVE  RdpInv
<1>1. 0 \in Number /\ 0 <= Len(Posts) /\ Len(Posts) \in Nat
  BY NumberIs
<1>2. /\ sendQueue = << >> /\ resendQueue = << >> /\ slots = << >>
      /\ ackQueue = << >> /\ nackQueue = << >> /\ receivedQueue = << >>
      /\ ackRanges = << >> /\ nackRanges = << >> /\ output = << >>
  BY DEF RdpInit
<1>3. \A s : s = << >> => Len(s) = 0 /\ DOMAIN s = {} /\ \A S : s \in Seq(S)
  OBVIOUS
<1>4. RdpTypeOK
  <2>1. 0 \in 0 .. MaxFaults
    BY DEF RdpAssumption
  <2>2. base = 0 /\ messageNumber = 0 /\ Len(slots) = 0
    BY <1>2, <1>3 DEF RdpInit
  <2>3. base + Len(slots) <= messageNumber
    BY <2>2
  <2>4. /\ {orderingIndex, messageNumber, base, sequencedIndex} \subseteq Number
        /\ acks \subseteq Number /\ nacks \subseteq Number
        /\ data \subseteq Packet /\ feedback \subseteq [acks : Ranges, nacks : Ranges]
        /\ faults \in 0 .. MaxFaults /\ arrived \subseteq Number
    BY <1>1, <2>1 DEF RdpInit
  <2>5. /\ sendQueue \in Seq([kind : Kind, index : Number])
        /\ resendQueue \in Seq([packet : Packet, mark : BOOLEAN, due : BOOLEAN])
        /\ slots \in Seq(BOOLEAN) /\ ackQueue \in Seq(Number) /\ nackQueue \in Seq(Number)
        /\ receivedQueue \in Seq(Packet) /\ output \in Seq(Packet)
        /\ ackRanges \in Ranges /\ nackRanges \in Ranges
    BY <1>2, <1>3 DEF Ranges
  <2>6. QED
    BY <2>3, <2>4, <2>5 DEF RdpTypeOK
<1>5. CountsInv
  BY <1>1, <1>2, <1>3 DEF RdpInit, CountsInv
<1>6. PacketsInv /\ PlacesInv
  BY <1>2, <1>3 DEF RdpInit, PacketsInv, PlacesInv
<1>7. OnceInv /\ OrderInv /\ RangesInv
  BY <1>2, <1>3 DEF OnceInv, OrderInv, RangesInv, Apart
<1>8. QED
  BY <1>4, <1>5, <1>6, <1>7 DEF RdpInv

-----------------------------------------------------------------------------
(* What a step leaves alone *)

LEMMA CountsAre ==
  ASSUME RdpAssumption, RdpTypeOK
  PROVE  /\ messageNumber \in Nat /\ orderingIndex \in Nat /\ base \in Nat /\ sequencedIndex \in Nat
         /\ Len(sendQueue) \in Nat /\ Len(slots) \in Nat /\ Len(Posts) \in Nat
         /\ base + Len(slots) <= messageNumber
         /\ DOMAIN slots = 1 .. Len(slots)
<1>1. {orderingIndex, messageNumber, base, sequencedIndex} \subseteq Nat
  BY NumberIs DEF RdpTypeOK
<1>2. Len(sendQueue) \in Nat /\ Len(slots) \in Nat /\ DOMAIN slots = 1 .. Len(slots)
  BY LenProperties DEF RdpTypeOK
<1>3. QED
  BY <1>1, <1>2, NumberIs DEF RdpTypeOK

LEMMA SoundStays ==
  ASSUME RdpAssumption, NEW p \in Packet, NEW m \in Nat, NEW o \in Nat, Sound(p, m, o),
         NEW later \in Nat, NEW more \in Nat, m <= later, o <= more
  PROVE  Sound(p, later, more)
<1>1. p.num \in Nat /\ p.index \in Nat
  BY NumberIs DEF Packet
<1>2. QED
  BY <1>1 DEF Sound

LEMMA PlacesStay ==
  ASSUME PlacesInv, UNCHANGED <<base, slots, receivedQueue, output>>
  PROVE  PlacesInv'
BY DEF PlacesInv

LEMMA OnceStays ==
  ASSUME OnceInv, UNCHANGED <<receivedQueue, output>>
  PROVE  OnceInv'
BY DEF OnceInv

LEMMA OrderStays ==
  ASSUME OrderInv, UNCHANGED <<output, sequencedIndex>>
  PROVE  OrderInv'
BY DEF OrderInv

LEMMA RangesStay ==
  ASSUME RangesInv, UNCHANGED <<ackRanges, nackRanges>>
  PROVE  RangesInv'
BY DEF RangesInv

LEMMA EntriesAre ==
  ASSUME RdpTypeOK
  PROVE  /\ \A i \in DOMAIN resendQueue : resendQueue[i].packet \in Packet
         /\ \A i \in DOMAIN receivedQueue : receivedQueue[i] \in Packet
         /\ \A i \in DOMAIN output : output[i] \in Packet
         /\ data \subseteq Packet
<1>1. /\ resendQueue \in Seq([packet : Packet, mark : BOOLEAN, due : BOOLEAN])
      /\ receivedQueue \in Seq(Packet) /\ output \in Seq(Packet) /\ data \subseteq Packet
  BY DEF RdpTypeOK
<1>2. \A i \in DOMAIN resendQueue : resendQueue[i] \in [packet : Packet, mark : BOOLEAN, due : BOOLEAN]
  BY <1>1, ElementOfSeq, LenProperties
<1>3. QED
  BY <1>1, <1>2, ElementOfSeq, LenProperties

\* The packets that are under way, when the counts grow.
LEMMA PacketsStay ==
  ASSUME RdpAssumption, RdpTypeOK, PacketsInv,
         messageNumber' \in Nat, orderingIndex' \in Nat,
         messageNumber <= messageNumber', orderingIndex <= orderingIndex'
  PROVE  /\ \A i \in DOMAIN resendQueue : Sound(resendQueue[i].packet, messageNumber', orderingIndex')
         /\ \A p \in data : Sound(p, messageNumber', orderingIndex')
         /\ \A i \in DOMAIN receivedQueue : Sound(receivedQueue[i], messageNumber', orderingIndex')
<1>1. messageNumber \in Nat /\ orderingIndex \in Nat
  BY CountsAre
<1>2. QED
  BY <1>1, EntriesAre, SoundStays DEF PacketsInv

-----------------------------------------------------------------------------
(* The steps *)

LEMMA SendPacketInv ==
  ASSUME RdpAssumption, RdpInv, SendPacket
  PROVE  RdpInv'
<1>1. /\ UNCHANGED <<messageNumber, resendQueue, acks, nacks, data, feedback, faults>>
      /\ UNCHANGED <<base, slots, ackQueue, nackQueue, receivedQueue, arrived>>
      /\ UNCHANGED <<ackRanges, nackRanges, sequencedIndex, output>>
  BY DEF SendPacket, network, reading, writing
<1>2. RdpTypeOK /\ CountsInv /\ PacketsInv /\ PlacesInv /\ OnceInv /\ OrderInv /\ RangesInv
  BY DEF RdpInv
<1>3. PICK n, m : n = Len(sendQueue) /\ m = messageNumber + Len(sendQueue)
  OBVIOUS
<1>4. /\ n \in Nat /\ m = messageNumber + n /\ messageNumber \in Nat /\ orderingIndex \in Nat
      /\ Len(Posts) \in Nat
  BY <1>2, <1>3, CountsAre
<1>5. m < Len(Posts) /\ m + 1 \in 1 .. Len(Posts)
  <2>1. m < Len(Posts)
    BY <1>3 DEF SendPacket
  <2>2. QED
    BY <1>4, <2>1
<1>6. PICK k : k = Posts[m + 1]
  OBVIOUS
<1>7. k \in Kind
  <2>1. Posts \in Seq(Kind)
    BY DEF RdpAssumption
  <2>2. QED
    BY <1>5, <1>6, <2>1, ElementOfSeq
<1>8. PICK e : e = [kind |-> k, index |-> IF k \in Sequenced THEN orderingIndex ELSE 0]
  OBVIOUS
<1>9. /\ sendQueue' = Append(sendQueue, e)
      /\ orderingIndex' = orderingIndex + (IF k \in Sequenced THEN 1 ELSE 0)
  BY <1>3, <1>6, <1>8 DEF SendPacket
<1>10. e.kind = k /\ e.index = IF k \in Sequenced THEN orderingIndex ELSE 0
  BY <1>8
<1>11. orderingIndex <= m /\ orderingIndex \in Number
  BY <1>2, <1>3 DEF CountsInv, RdpTypeOK
<1>12. e \in [kind : Kind, index : Number]
  BY <1>7, <1>8, <1>11, NumberIs
<1>13. /\ orderingIndex' \in Nat /\ orderingIndex <= orderingIndex' /\ orderingIndex' <= m + 1
       /\ orderingIndex' \in Number
  <2>1. orderingIndex' = orderingIndex + 1 \/ orderingIndex' = orderingIndex
    BY <1>4, <1>9
  <2>2. orderingIndex' \in Nat /\ orderingIndex <= orderingIndex' /\ orderingIndex' <= m + 1
    BY <1>4, <1>11, <2>1
  <2>3. orderingIndex' \in 0 .. Len(Posts)
    BY <1>4, <1>5, <2>2
  <2>4. QED
    BY <2>2, <2>3 DEF Number
<1>14. sendQueue \in Seq([kind : Kind, index : Number])
  BY <1>2 DEF RdpTypeOK
<1>15. /\ sendQueue' \in Seq([kind : Kind, index : Number])
       /\ Len(sendQueue') = n + 1
       /\ \A i \in 1 .. n : sendQueue'[i] = sendQueue[i]
       /\ sendQueue'[n + 1] = e
  BY <1>3, <1>9, <1>12, <1>14, AppendProperties
<1>16. RdpTypeOK'
  BY <1>1, <1>2, <1>13, <1>15 DEF RdpTypeOK
<1>17. CountsInv'
  <2>1. Len(sendQueue)' = n + 1
    BY <1>15
  <2>2. messageNumber + (n + 1) = m + 1 /\ m + 1 <= Len(Posts)
    BY <1>4, <1>5
  <2>3. QED
    BY <1>1, <1>13, <2>1, <2>2 DEF CountsInv
<1>18. PacketsInv'
  <2>1. ASSUME NEW i \in 1 .. n + 1, sendQueue'[i].kind \in Sequenced
        PROVE  sendQueue'[i].index < orderingIndex'
    <3>1. CASE i \in 1 .. n
      <4>1. i \in DOMAIN sendQueue
        BY <1>3, <1>14, <3>1, LenProperties
      <4>2. sendQueue'[i] = sendQueue[i]
        BY <1>15, <3>1
      <4>3. sendQueue[i].index < orderingIndex
        BY <1>2, <2>1, <4>1, <4>2 DEF PacketsInv
      <4>4. sendQueue[i].index \in Nat
        <5>1. sendQueue[i] \in [kind : Kind, index : Number]
          BY <1>3, <1>14, <3>1, ElementOfSeq
        <5>2. QED
          BY <5>1, NumberIs
      <4>5. QED
        BY <1>4, <1>13, <4>2, <4>3, <4>4
    <3>2. CASE i = n + 1
      <4>1. sendQueue'[i] = e
        BY <1>15, <3>2
      <4>2. k \in Sequenced
        BY <1>10, <2>1, <4>1
      <4>3. e.index = orderingIndex /\ orderingIndex' = orderingIndex + 1
        BY <1>9, <1>10, <4>2
      <4>4. QED
        BY <1>4, <4>1, <4>3
    <3>3. i \in 1 .. n \/ i = n + 1
      BY <1>4
    <3>4. QED
      BY <3>1, <3>2, <3>3
  <2>2. DOMAIN sendQueue' = 1 .. n + 1
    BY <1>15, LenProperties
  <2>3. messageNumber' \in Nat /\ messageNumber <= messageNumber'
    BY <1>1, <1>4
  <2>4. /\ \A i \in DOMAIN resendQueue : Sound(resendQueue[i].packet, messageNumber', orderingIndex')
        /\ \A p \in data : Sound(p, messageNumber', orderingIndex')
        /\ \A i \in DOMAIN receivedQueue : Sound(receivedQueue[i], messageNumber', orderingIndex')
    BY <1>2, <1>13, <2>3, PacketsStay
  <2>5. QED
    BY <1>1, <2>1, <2>2, <2>4 DEF PacketsInv
<1>19. PlacesInv' /\ OnceInv' /\ OrderInv' /\ RangesInv'
  BY <1>1, <1>2, PlacesStay, OnceStays, OrderStays, RangesStay
<1>20. QED
  BY <1>16, <1>17, <1>18, <1>19 DEF RdpInv

\* Sound packets stay so when there are fewer.
LEMMA FewerPackets ==
  ASSUME PacketsInv, data' \subseteq data,
         UNCHANGED <<sendQueue, messageNumber, orderingIndex, resendQueue, receivedQueue>>
  PROVE  PacketsInv'
BY DEF PacketsInv

LEMMA CountsStay ==
  ASSUME CountsInv, UNCHANGED <<sendQueue, messageNumber, orderingIndex>>
  PROVE  CountsInv'
BY DEF CountsInv

LEMMA NumbersOfRanges ==
  ASSUME RdpAssumption, NEW r \in Ranges
  PROVE  Numbers(r) \subseteq Number
<1>1. ASSUME NEW k \in Numbers(r)
      PROVE  k \in Number
  <2>1. k \in Nat
    BY <1>1, NumbersIs
  <2>2. PICK i \in DOMAIN r : Covers(r[i], k)
    BY <1>1, NumbersIs
  <2>3. r[i][2] \in Number
    <3>1. r[i] \in Number \X Number
      BY RangeIs
    <3>2. QED
      BY <3>1
  <2>4. k <= r[i][2]
    BY <2>2 DEF Covers
  <2>5. Len(Posts) \in Nat
    BY NumberIs
  <2>6. QED
    BY <2>1, <2>3, <2>4, <2>5 DEF Number
<1>2. QED
  BY <1>1

LEMMA ArrivesIs ==
  ASSUME RdpTypeOK, RdpAssumption, NEW d, NEW S, NEW T, 
         \/ T = S \ {d} /\ faults' = faults
         \/ T = S /\ faults < MaxFaults /\ faults' = faults + 1
  PROVE  T \subseteq S /\ faults' \in 0 .. MaxFaults
<1>1. faults \in 0 .. MaxFaults /\ MaxFaults \in Nat
  BY DEF RdpTypeOK, RdpAssumption
<1>2. QED
  BY <1>1

LEMMA DeliverFeedbackInv ==
  ASSUME RdpAssumption, RdpInv, NEW d, DeliverFeedback(d)
  PROVE  RdpInv'
<1>1. RdpTypeOK /\ CountsInv /\ PacketsInv /\ PlacesInv /\ OnceInv /\ OrderInv /\ RangesInv
  BY DEF RdpInv
<1>2. /\ UNCHANGED <<sendQueue, orderingIndex, messageNumber, resendQueue, data>>
      /\ UNCHANGED <<base, slots, ackQueue, nackQueue, receivedQueue, arrived>>
      /\ UNCHANGED <<ackRanges, nackRanges, sequencedIndex, output>>
  BY DEF DeliverFeedback, OnAcks, reading, writing
<1>3. d \in feedback /\ acks' = acks \cup Numbers(d.acks) /\ nacks' = nacks \cup Numbers(d.nacks)
  BY DEF DeliverFeedback, OnAcks
<1>4. feedback' \subseteq feedback /\ faults' \in 0 .. MaxFaults
  BY <1>1, ArrivesIs DEF DeliverFeedback, Arrive
<1>5. feedback \subseteq [acks : Ranges, nacks : Ranges]
  BY <1>1 DEF RdpTypeOK
<1>6. d.acks \in Ranges /\ d.nacks \in Ranges
  BY <1>3, <1>5
<1>7. Numbers(d.acks) \subseteq Number /\ Numbers(d.nacks) \subseteq Number
  BY <1>6, NumbersOfRanges
<1>8. acks' \subseteq Number /\ nacks' \subseteq Number /\ feedback' \subseteq [acks : Ranges, nacks : Ranges]
  <2>1. acks \subseteq Number /\ nacks \subseteq Number
    BY <1>1 DEF RdpTypeOK
  <2>2. QED
    BY <1>3, <1>4, <1>5, <1>7, <2>1
<1>9. RdpTypeOK'
  BY <1>1, <1>2, <1>4, <1>8 DEF RdpTypeOK
<1>10. PacketsInv' /\ CountsInv'
  BY <1>1, <1>2, FewerPackets, CountsStay
<1>11. PlacesInv' /\ OnceInv' /\ OrderInv' /\ RangesInv'
  BY <1>1, <1>2, PlacesStay, OnceStays, OrderStays, RangesStay
<1>12. QED
  BY <1>9, <1>10, <1>11 DEF RdpInv

LEMMA LoseInv ==
  ASSUME RdpAssumption, RdpInv, Lose
  PROVE  RdpInv'
<1>1. RdpTypeOK /\ CountsInv /\ PacketsInv /\ PlacesInv /\ OnceInv /\ OrderInv /\ RangesInv
  BY DEF RdpInv
<1>2. /\ UNCHANGED <<sendQueue, orderingIndex, messageNumber, resendQueue, acks, nacks>>
      /\ UNCHANGED <<base, slots, ackQueue, nackQueue, receivedQueue, arrived>>
      /\ UNCHANGED <<ackRanges, nackRanges, sequencedIndex, output>>
  BY DEF Lose, sender, reading, writing
<1>3. data' \subseteq data /\ feedback' \subseteq feedback
  BY DEF Lose
<1>4. faults' \in 0 .. MaxFaults
  <2>1. faults \in 0 .. MaxFaults /\ MaxFaults \in Nat
    BY <1>1 DEF RdpTypeOK, RdpAssumption
  <2>2. QED
    BY <2>1 DEF Lose
<1>5. data' \subseteq Packet /\ feedback' \subseteq [acks : Ranges, nacks : Ranges]
  BY <1>1, <1>3 DEF RdpTypeOK
<1>6. RdpTypeOK'
  BY <1>1, <1>2, <1>4, <1>5 DEF RdpTypeOK
<1>7. PacketsInv' /\ CountsInv'
  BY <1>1, <1>2, <1>3, FewerPackets, CountsStay
<1>8. PlacesInv' /\ OnceInv' /\ OrderInv' /\ RangesInv'
  BY <1>1, <1>2, PlacesStay, OnceStays, OrderStays, RangesStay
<1>9. QED
  BY <1>6, <1>7, <1>8 DEF RdpInv

LEMMA WriteAcksInv ==
  ASSUME RdpAssumption, RdpInv, WriteAcks
  PROVE  RdpInv'
<1>1. RdpTypeOK /\ CountsInv /\ PacketsInv /\ PlacesInv /\ OnceInv /\ OrderInv /\ RangesInv
  BY DEF RdpInv
<1>2. /\ UNCHANGED <<sendQueue, orderingIndex, messageNumber, resendQueue, acks, nacks, data>>
      /\ UNCHANGED <<base, slots, ackQueue, nackQueue, receivedQueue, arrived>>
      /\ UNCHANGED <<sequencedIndex, output>>
  BY DEF WriteAcks, sender, reading
<1>3. ackRanges' = << >> /\ (nackRanges' = << >> \/ nackRanges' = nackRanges)
  BY DEF WriteAcks
<1>4. << >> \in Ranges /\ Apart(<< >>)
  BY DEF Ranges, Apart
<1>5. /\ ackRanges \in Ranges /\ nackRanges \in Ranges
      /\ feedback \subseteq [acks : Ranges, nacks : Ranges] /\ faults \in 0 .. MaxFaults /\ MaxFaults \in Nat
  BY <1>1 DEF RdpTypeOK, RdpAssumption
<1>6. ackRanges' \in Ranges /\ nackRanges' \in Ranges
  BY <1>3, <1>4, <1>5
<1>7. feedback' \subseteq [acks : Ranges, nacks : Ranges] /\ faults' \in 0 .. MaxFaults
  <2>1. CASE feedback' = feedback \cup {[acks |-> ackRanges, nacks |-> nackRanges]} /\ faults' = faults
    BY <1>5, <2>1
  <2>2. CASE feedback' = feedback /\ faults < MaxFaults /\ faults' = faults + 1
    BY <1>5, <2>2
  <2>3. QED
    BY <2>1, <2>2 DEF WriteAcks
<1>8. RdpTypeOK'
  BY <1>1, <1>2, <1>6, <1>7 DEF RdpTypeOK
<1>9. RangesInv'
  BY <1>1, <1>3, <1>4 DEF RangesInv
<1>10. PacketsInv' /\ CountsInv'
  BY <1>1, <1>2, FewerPackets, CountsStay
<1>11. PlacesInv' /\ OnceInv' /\ OrderInv'
  BY <1>1, <1>2, PlacesStay, OnceStays, OrderStays
<1>12. QED
  BY <1>8, <1>9, <1>10, <1>11 DEF RdpInv

-----------------------------------------------------------------------------
(* writePackets_W *)

Entry(P) == [packet : P, mark : BOOLEAN, due : BOOLEAN]
Progress(P) == [queue : Seq(Entry(P)), sent : SUBSET P, room : Int, full : BOOLEAN]
SoundPacket(m, o) == {p \in Packet : Sound(p, m, o)}

LEMMA ScanKeeps ==
  ASSUME NEW P, NEW s \in Progress(P), NEW w \in Entry(P), NEW late
  PROVE  Scan(s, w, late) \in Progress(P)
<1>1. /\ s = [queue |-> s.queue, sent |-> s.sent, room |-> s.room, full |-> s.full]
      /\ s.queue \in Seq(Entry(P)) /\ s.sent \in SUBSET P /\ s.room \in Int /\ s.full \in BOOLEAN
  BY DEF Progress
<1>2. w.packet \in P /\ w.mark \in BOOLEAN /\ w.due \in BOOLEAN
  BY DEF Entry
<1>3. PICK e : e = [w EXCEPT !.mark = @ \/ w.packet.num \in Marks]
  OBVIOUS
<1>4. PICK now : now = [e EXCEPT !.due = @ \/ e.packet.num \in late]
  OBVIOUS
<1>5. PICK reset : reset = [now EXCEPT !.mark = FALSE, !.due = FALSE]
  OBVIOUS
<1>6. e \in Entry(P)
  BY <1>2, <1>3 DEF Entry
<1>7. now \in Entry(P) /\ now.packet \in P
  BY <1>4, <1>6 DEF Entry
<1>8. reset \in Entry(P)
  BY <1>5, <1>7 DEF Entry
<1>9. \/ Scan(s, w, late) = [s EXCEPT !.queue = Append(@, e)]
      \/ Scan(s, w, late) = s
      \/ Scan(s, w, late) = [s EXCEPT !.queue = Append(@, now)]
      \/ Scan(s, w, late) = [s EXCEPT !.full = TRUE, !.queue = Append(@, now)]
      \/ Scan(s, w, late) =
           [s EXCEPT !.room = @ - 1, !.queue = Append(@, reset), !.sent = @ \cup {now.packet}]
  BY <1>3, <1>4, <1>5 DEF Scan
<1>10. /\ Append(s.queue, e) \in Seq(Entry(P)) /\ Append(s.queue, now) \in Seq(Entry(P))
       /\ Append(s.queue, reset) \in Seq(Entry(P))
  BY <1>1, <1>6, <1>7, <1>8, AppendProperties
<1>11. s.sent \cup {now.packet} \in SUBSET P /\ s.room - 1 \in Int
  BY <1>1, <1>7
<1>12. [s EXCEPT !.queue = Append(@, e)] \in Progress(P)
  BY <1>1, <1>10 DEF Progress
<1>13. [s EXCEPT !.queue = Append(@, now)] \in Progress(P)
  BY <1>1, <1>10 DEF Progress
<1>14. [s EXCEPT !.full = TRUE, !.queue = Append(@, now)] \in Progress(P)
  BY <1>1, <1>10 DEF Progress
<1>15. [s EXCEPT !.room = @ - 1, !.queue = Append(@, reset), !.sent = @ \cup {now.packet}] \in Progress(P)
  BY <1>1, <1>10, <1>11 DEF Progress
<1>16. QED
  BY <1>9, <1>12, <1>13, <1>14, <1>15

\* f is scan, in WritePackets, up to k.
IsScan(f, room, late, k) ==
  f = [i \in 0 .. k |->
         IF i = 0 THEN [queue |-> << >>, sent |-> {}, room |-> room, full |-> FALSE]
         ELSE Scan(f[i - 1], resendQueue[i], late)]

LEMMA ScanExists ==
  ASSUME NEW room, NEW late, NEW n \in Nat
  PROVE  \E f : IsScan(f, room, late, n)
<1> DEFINE missing == {k \in Nat : ~ \E f : IsScan(f, room, late, k)}
<1>1. SUFFICES ASSUME missing # {}
               PROVE  FALSE
  OBVIOUS
<1>2. PICK m \in missing : \A k \in missing : m <= k
  BY <1>1, LeastNumber
<1>3. m \in Nat /\ ~ \E f : IsScan(f, room, late, m)
  BY <1>2
<1>4. PICK first : first = [queue |-> << >>, sent |-> {}, room |-> room, full |-> FALSE]
  OBVIOUS
<1>5. CASE m = 0
  <2>1. PICK f : f = [i \in 0 .. 0 |-> first]
    OBVIOUS
  <2>2. f = [i \in 0 .. 0 |-> IF i = 0 THEN first ELSE Scan(f[i - 1], resendQueue[i], late)]
    BY <2>1
  <2>3. QED
    BY <1>3, <1>4, <1>5, <2>2 DEF IsScan
<1>6. CASE m # 0
  <2>1. m - 1 \in Nat /\ ~ (m <= m - 1)
    BY <1>3, <1>6
  <2>2. m - 1 \notin missing
    BY <1>2, <2>1
  <2>3. PICK f : IsScan(f, room, late, m - 1)
    BY <2>1, <2>2
  <2>4. \A i \in 0 .. m - 1 : f[i] = IF i = 0 THEN first ELSE Scan(f[i - 1], resendQueue[i], late)
    BY <1>4, <2>3 DEF IsScan
  <2>5. PICK g : g = [i \in 0 .. m |->
                        IF i = m THEN Scan(f[m - 1], resendQueue[m], late) ELSE f[i]]
    OBVIOUS
  <2>6. ASSUME NEW i \in 0 .. m
        PROVE  g[i] = IF i = 0 THEN first ELSE Scan(g[i - 1], resendQueue[i], late)
    <3>1. CASE i = m
      <4>1. m - 1 \in 0 .. m /\ m - 1 # m
        BY <1>3, <2>1
      <4>2. g[m - 1] = f[m - 1]
        BY <2>5, <4>1
      <4>3. g[m] = Scan(f[m - 1], resendQueue[m], late)
        BY <2>5, <3>1
      <4>4. QED
        BY <1>6, <3>1, <4>2, <4>3
    <3>2. CASE i # m
      <4>1. i \in 0 .. m - 1
        BY <1>3, <3>2
      <4>2. g[i] = f[i]
        BY <2>5, <3>2
      <4>3. CASE i = 0
        BY <2>4, <4>1, <4>2, <4>3
      <4>4. CASE i # 0
        <5>1. i - 1 \in 0 .. m /\ i - 1 # m
          BY <1>3, <4>1, <4>4
        <5>2. g[i - 1] = f[i - 1]
          BY <2>5, <5>1
        <5>3. f[i] = Scan(f[i - 1], resendQueue[i], late)
          BY <2>4, <4>1, <4>4
        <5>4. QED
          BY <4>2, <4>4, <5>2, <5>3
      <4>5. QED
        BY <4>3, <4>4
    <3>3. QED
      BY <3>1, <3>2
  <2>7. g = [i \in 0 .. m |-> IF i = 0 THEN first ELSE Scan(g[i - 1], resendQueue[i], late)]
    <3>1. g = [i \in 0 .. m |-> g[i]]
      BY <2>5
    <3>2. QED
      BY <2>6, <3>1, Zenon
  <2>8. IsScan(g, room, late, m)
    BY <1>4, <2>7 DEF IsScan
  <2>9. QED
    BY <1>3, <2>8
<1>7. QED
  BY <1>5, <1>6

\* What the scan leaves in the queue and sends was in the queue.
LEMMA ScanIs ==
  ASSUME NEW P, resendQueue \in Seq(Entry(P)), NEW room \in Int, NEW late,
         NEW f, IsScan(f, room, late, Len(resendQueue))
  PROVE  f[Len(resendQueue)] \in Progress(P)
<1>1. Len(resendQueue) \in Nat /\ \A i \in 1 .. Len(resendQueue) : resendQueue[i] \in Entry(P)
  BY LenProperties, ElementOfSeq
<1>2. \A i \in 0 .. Len(resendQueue) :
        f[i] = IF i = 0 THEN [queue |-> << >>, sent |-> {}, room |-> room, full |-> FALSE]
               ELSE Scan(f[i - 1], resendQueue[i], late)
  BY DEF IsScan
<1> DEFINE bad == {i \in 0 .. Len(resendQueue) : f[i] \notin Progress(P)}
<1>3. bad = {}
  <2>1. SUFFICES ASSUME bad # {}
                 PROVE  FALSE
    OBVIOUS
  <2>2. bad \subseteq Nat
    BY <1>1
  <2>3. PICK m \in bad : \A k \in bad : m <= k
    BY <2>1, <2>2, LeastNumber
  <2>4. m \in 0 .. Len(resendQueue) /\ f[m] \notin Progress(P)
    BY <2>3
  <2>5. m # 0
    <3>1. [queue |-> << >>, sent |-> {}, room |-> room, full |-> FALSE] \in Progress(P)
      BY DEF Progress
    <3>2. QED
      BY <1>2, <2>4, <3>1
  <2>6. m \in 1 .. Len(resendQueue) /\ m - 1 \in 0 .. Len(resendQueue) /\ ~ (m <= m - 1)
    BY <1>1, <2>4, <2>5
  <2>7. m - 1 \notin bad
    BY <2>3, <2>6
  <2>8. f[m - 1] \in Progress(P) /\ resendQueue[m] \in Entry(P)
    BY <1>1, <2>6, <2>7
  <2>9. f[m] = Scan(f[m - 1], resendQueue[m], late)
    BY <1>2, <2>4, <2>5
  <2>10. QED
    BY <2>4, <2>8, <2>9, ScanKeeps
<1>4. Len(resendQueue) \in 0 .. Len(resendQueue)
  BY <1>1
<1>5. QED
  BY <1>3, <1>4

\* What is written, given what the scan has found.
Written(s, room) ==
  LET packet == [num |-> messageNumber, kind |-> Head(sendQueue).kind,
                 index |-> Head(sendQueue).index]
      first == [packet |-> packet, mark |-> FALSE, due |-> FALSE]
  IN /\ acks' = {} /\ nacks' = {}
     /\ \/ /\ resendQueue' = s.queue /\ data' = data \cup s.sent
           /\ UNCHANGED <<sendQueue, messageNumber>>
        \/ /\ sendQueue # << >>
           /\ resendQueue' = Append(s.queue, first) /\ data' = data \cup {packet}
           /\ sendQueue' = Tail(sendQueue) /\ messageNumber' = messageNumber + 1
     /\ faults' = faults + 1 - room /\ faults' <= MaxFaults
     /\ UNCHANGED <<orderingIndex, feedback, reading, writing>>

LEMMA WritePacketsIs ==
  ASSUME RdpTypeOK, NEW room, NEW late, WritePackets(room, late)
  PROVE  \E f : IsScan(f, room, late, Len(resendQueue)) /\ Written(f[Len(resendQueue)], room)
<1>1. Len(resendQueue) \in Nat
  BY LenProperties DEF RdpTypeOK
<1>2. \E f : IsScan(f, room, late, Len(resendQueue))
  BY <1>1, ScanExists
<1>3. PICK f : f = CHOOSE g : IsScan(g, room, late, Len(resendQueue))
  OBVIOUS
<1>4. IsScan(f, room, late, Len(resendQueue))
  BY <1>2, <1>3, Zenon
<1>5. Written(f[Len(resendQueue)], room)
  BY <1>3 DEF WritePackets, Written, IsScan
<1>6. QED
  BY <1>4, <1>5

LEMMA WritePacketsInv ==
  ASSUME RdpAssumption, RdpInv, NEW room \in 0 .. 1, NEW late, WritePackets(room, late)
  PROVE  RdpInv'
<1>1. RdpTypeOK /\ CountsInv /\ PacketsInv /\ PlacesInv /\ OnceInv /\ OrderInv /\ RangesInv
  BY DEF RdpInv
<1>2. PICK f : IsScan(f, room, late, Len(resendQueue)) /\ Written(f[Len(resendQueue)], room)
  BY <1>1, WritePacketsIs
<1>3. PICK s : s = f[Len(resendQueue)]
  OBVIOUS
<1>4. /\ UNCHANGED <<orderingIndex, feedback, base, slots, ackQueue, nackQueue, receivedQueue, arrived>>
      /\ UNCHANGED <<ackRanges, nackRanges, sequencedIndex, output>>
      /\ acks' = {} /\ nacks' = {} /\ faults' = faults + 1 - room /\ faults' <= MaxFaults
  BY <1>2 DEF Written, reading, writing
<1>5. PICK packet, first :
        /\ packet = [num |-> messageNumber, kind |-> Head(sendQueue).kind,
                     index |-> Head(sendQueue).index]
        /\ first = [packet |-> packet, mark |-> FALSE, due |-> FALSE]
  OBVIOUS
<1>6. \/ /\ resendQueue' = s.queue /\ data' = data \cup s.sent
         /\ UNCHANGED <<sendQueue, messageNumber>>
      \/ /\ sendQueue # << >>
         /\ resendQueue' = Append(s.queue, first) /\ data' = data \cup {packet}
         /\ sendQueue' = Tail(sendQueue) /\ messageNumber' = messageNumber + 1
  BY <1>2, <1>3, <1>5 DEF Written
<1>7. /\ messageNumber \in Nat /\ orderingIndex \in Nat /\ Len(sendQueue) \in Nat /\ Len(Posts) \in Nat
      /\ base \in Nat /\ Len(slots) \in Nat /\ base + Len(slots) <= messageNumber
  BY <1>1, CountsAre
<1>8. sendQueue \in Seq([kind : Kind, index : Number])
  BY <1>1 DEF RdpTypeOK
<1> DEFINE sound == SoundPacket(messageNumber, orderingIndex)
<1>9. resendQueue \in Seq(Entry(sound))
  <2>1. resendQueue \in Seq([packet : Packet, mark : BOOLEAN, due : BOOLEAN])
    BY <1>1 DEF RdpTypeOK
  <2>2. ASSUME NEW i \in 1 .. Len(resendQueue)
        PROVE  resendQueue[i] \in Entry(sound)
    <3>1. i \in DOMAIN resendQueue /\ resendQueue[i] \in [packet : Packet, mark : BOOLEAN, due : BOOLEAN]
      BY <2>1, ElementOfSeq, LenProperties
    <3>2. Sound(resendQueue[i].packet, messageNumber, orderingIndex)
      BY <1>1, <3>1 DEF PacketsInv
    <3>3. QED
      BY <3>1, <3>2 DEF Entry, SoundPacket
  <2>3. Len(resendQueue) \in Nat /\ resendQueue = [i \in 1 .. Len(resendQueue) |-> resendQueue[i]]
    BY <2>1, LenProperties
  <2>4. QED
    BY <2>2, <2>3
<1> HIDE DEF sound
<1>10. s \in Progress(sound)
  BY <1>2, <1>3, <1>9, ScanIs
<1>11. s.queue \in Seq(Entry(sound)) /\ s.sent \subseteq sound
  BY <1>10 DEF Progress
<1>12. sound \subseteq Packet /\ \A p \in sound : Sound(p, messageNumber, orderingIndex)
  BY DEF sound, SoundPacket
<1>13. /\ messageNumber' \in Nat /\ messageNumber' \in Number /\ messageNumber <= messageNumber'
       /\ sendQueue' \in Seq([kind : Kind, index : Number])
       /\ CountsInv' /\ base' + Len(slots') <= messageNumber'
       /\ \A i \in DOMAIN sendQueue' : i \in Nat /\
            \E j \in DOMAIN sendQueue : sendQueue'[i] = sendQueue[j]
  <2>1. CASE UNCHANGED <<sendQueue, messageNumber>>
    <3>1. messageNumber \in Number
      BY <1>1 DEF RdpTypeOK
    <3>2. DOMAIN sendQueue = 1 .. Len(sendQueue)
      BY <1>8, LenProperties
    <3>3. CountsInv'
      BY <1>1, <1>4, <2>1, CountsStay
    <3>4. QED
      BY <1>4, <1>7, <1>8, <2>1, <3>1, <3>2, <3>3
  <2>2. CASE /\ sendQueue # << >>
             /\ sendQueue' = Tail(sendQueue) /\ messageNumber' = messageNumber + 1
    <3>1. PICK n \in Nat : n = Len(sendQueue) /\ DOMAIN sendQueue = 1 .. n
      BY <1>8, LenProperties
    <3>2. n # 0
      BY <1>8, <2>2, <3>1, EmptySeq
    <3>3. /\ Tail(sendQueue) \in Seq([kind : Kind, index : Number])
          /\ Len(Tail(sendQueue)) = n - 1
          /\ \A i \in 1 .. n - 1 : Tail(sendQueue)[i] = sendQueue[i + 1]
      BY <1>8, <2>2, <3>1, HeadTailProperties
    <3>4. DOMAIN Tail(sendQueue) = 1 .. n - 1
      BY <3>3, LenProperties
    <3>5. \A i \in 1 .. n - 1 : i \in Nat /\ i + 1 \in 1 .. n
      BY <3>1
    <3>6. \A i \in DOMAIN sendQueue' : i \in Nat /\ \E j \in DOMAIN sendQueue : sendQueue'[i] = sendQueue[j]
      BY <2>2, <3>1, <3>3, <3>4, <3>5
    <3>7. orderingIndex <= messageNumber + n /\ messageNumber + n <= Len(Posts)
      BY <1>1, <3>1 DEF CountsInv
    <3>8. Len(sendQueue') = n - 1 /\ messageNumber' = messageNumber + 1 /\ Len(sendQueue)' = n - 1
      BY <2>2, <3>3
    <3>9. (messageNumber + 1) + (n - 1) = messageNumber + n
      BY <1>7, <3>1
    <3>10. CountsInv'
      BY <1>4, <3>7, <3>8, <3>9 DEF CountsInv
    <3>11. messageNumber' \in Nat /\ messageNumber' \in 0 .. Len(Posts) /\ messageNumber <= messageNumber'
      BY <1>7, <3>1, <3>2, <3>7, <3>8
    <3>12. base' + Len(slots') <= messageNumber'
      BY <1>4, <1>7, <3>8
    <3>13. QED
      BY <2>2, <3>3, <3>6, <3>10, <3>11, <3>12 DEF Number
  <2>3. QED
    BY <1>6, <2>1, <2>2
<1> DEFINE later == SoundPacket(messageNumber', orderingIndex)
<1>14. sound \subseteq later
  BY <1>7, <1>12, <1>13, SoundStays DEF later, SoundPacket
<1>15. sendQueue # << >> /\ messageNumber' = messageNumber + 1 => packet \in later /\ first \in Entry(later)
  <2>1. SUFFICES ASSUME sendQueue # << >>, messageNumber' = messageNumber + 1
                 PROVE  packet \in later /\ first \in Entry(later)
    OBVIOUS
  <2>2. PICK h : h = Head(sendQueue)
    OBVIOUS
  <2>3. h \in [kind : Kind, index : Number] /\ h = sendQueue[1] /\ 1 \in DOMAIN sendQueue
    <3>1. Len(sendQueue) # 0 /\ DOMAIN sendQueue = 1 .. Len(sendQueue)
      BY <1>8, <2>1, EmptySeq, LenProperties
    <3>2. 1 \in 1 .. Len(sendQueue)
      BY <1>7, <3>1
    <3>3. Head(sendQueue) = sendQueue[1]
      BY <1>8, <2>1
    <3>4. sendQueue[1] \in [kind : Kind, index : Number]
      BY <1>8, <3>2, ElementOfSeq
    <3>5. QED
      BY <2>2, <3>1, <3>2, <3>3, <3>4
  <2>4. packet = [num |-> messageNumber, kind |-> h.kind, index |-> h.index]
    BY <1>5, <2>2
  <2>5. messageNumber \in Number /\ h.kind \in Kind /\ h.index \in Number
    BY <1>1, <2>3 DEF RdpTypeOK
  <2>6. packet \in Packet
    BY <2>4, <2>5 DEF Packet
  <2>7. h.kind \in Sequenced => h.index < orderingIndex
    BY <1>1, <2>3 DEF PacketsInv
  <2>8. messageNumber < messageNumber'
    BY <1>7, <2>1
  <2>9. packet.num = messageNumber /\ packet.kind = h.kind /\ packet.index = h.index
    BY <2>4
  <2>10. Sound(packet, messageNumber', orderingIndex)
    BY <2>7, <2>8, <2>9 DEF Sound
  <2>11. packet \in later
    BY <2>6, <2>10 DEF later, SoundPacket
  <2>12. QED
    BY <1>5, <2>11 DEF Entry
<1> HIDE DEF later
<1>16. resendQueue' \in Seq(Entry(later)) /\ data' \subseteq later
  <2>1. data \subseteq sound
    <3>1. data \subseteq Packet
      BY <1>1 DEF RdpTypeOK
    <3>2. QED
      BY <1>1, <3>1 DEF PacketsInv, sound, SoundPacket
  <2>2. s.queue \in Seq(Entry(later))
    <3>1. Entry(sound) \subseteq Entry(later)
      BY <1>14 DEF Entry
    <3>2. PICK q, E, F : q = s.queue /\ E = Entry(sound) /\ F = Entry(later)
      OBVIOUS
    <3>3. q \in Seq(E) /\ E \subseteq F
      BY <1>11, <3>1, <3>2
    <3>4. q \in Seq(F)
      <4>1. Len(q) \in Nat /\ q = [i \in 1 .. Len(q) |-> q[i]]
        BY <3>3, LenProperties
      <4>2. \A i \in 1 .. Len(q) : q[i] \in F
        BY <3>3, ElementOfSeq
      <4>3. QED
        BY <4>1, <4>2
    <3>5. QED
      BY <3>2, <3>4
  <2>3. sendQueue # << >> /\ messageNumber' = messageNumber + 1 =>
          Append(s.queue, first) \in Seq(Entry(later))
    BY <1>15, <2>2, AppendProperties
  <2>4. QED
    BY <1>6, <1>11, <1>14, <1>15, <2>1, <2>2, <2>3
<1>17. later \subseteq Packet /\ \A p \in later : Sound(p, messageNumber', orderingIndex')
  BY <1>4 DEF later, SoundPacket
<1>18. resendQueue' \in Seq([packet : Packet, mark : BOOLEAN, due : BOOLEAN])
       /\ \A i \in DOMAIN resendQueue' : Sound(resendQueue'[i].packet, messageNumber', orderingIndex')
  <2>1. PICK q : q = resendQueue'
    OBVIOUS
  <2>2. Len(q) \in Nat /\ DOMAIN q = 1 .. Len(q) /\ q = [i \in 1 .. Len(q) |-> q[i]]
    BY <1>16, <2>1, LenProperties
  <2>3. \A i \in 1 .. Len(q) : q[i] \in Entry(later)
    BY <1>16, <2>1, ElementOfSeq
  <2>4. \A i \in 1 .. Len(q) : q[i].packet \in later /\ q[i] \in [packet : Packet, mark : BOOLEAN, due : BOOLEAN]
    BY <1>17, <2>3 DEF Entry
  <2>5. q \in Seq([packet : Packet, mark : BOOLEAN, due : BOOLEAN])
    <3>1. PICK E : E = [packet : Packet, mark : BOOLEAN, due : BOOLEAN]
      OBVIOUS
    <3>2. \A i \in 1 .. Len(q) : q[i] \in E
      BY <2>4, <3>1
    <3>3. q \in Seq(E)
      BY <2>2, <3>2
    <3>4. QED
      BY <3>1, <3>3
  <2>6. \A i \in DOMAIN q : Sound(q[i].packet, messageNumber', orderingIndex')
    BY <1>17, <2>2, <2>4
  <2>7. QED
    BY <2>1, <2>5, <2>6
<1>19. faults' \in 0 .. MaxFaults
  <2>1. faults \in 0 .. MaxFaults /\ MaxFaults \in Nat
    BY <1>1 DEF RdpTypeOK, RdpAssumption
  <2>2. QED
    BY <1>4, <2>1
<1>20. RdpTypeOK'
  <2>1. data' \subseteq Packet
    BY <1>16, <1>17
  <2>2. QED
    BY <1>1, <1>4, <1>13, <1>18, <1>19, <2>1 DEF RdpTypeOK
<1>21. PacketsInv'
  <2>1. \A i \in DOMAIN sendQueue' :
          sendQueue'[i].kind \in Sequenced => sendQueue'[i].index < orderingIndex'
    BY <1>1, <1>4, <1>13 DEF PacketsInv
  <2>2. \A p \in data' : Sound(p, messageNumber', orderingIndex')
    BY <1>16, <1>17
  <2>3. \A i \in DOMAIN receivedQueue : Sound(receivedQueue[i], messageNumber', orderingIndex')
    BY <1>1, <1>4, <1>7, <1>13, PacketsStay
  <2>4. QED
    BY <1>4, <1>18, <2>1, <2>2, <2>3 DEF PacketsInv
<1>22. PlacesInv' /\ OnceInv' /\ OrderInv' /\ RangesInv'
  BY <1>1, <1>4, PlacesStay, OnceStays, OrderStays, RangesStay
<1>23. QED
  BY <1>13, <1>20, <1>21, <1>22 DEF RdpInv

-----------------------------------------------------------------------------
(* onReceived_R *)

\* The places, with that of the hole filled.
LEMMA FilledIs ==
  ASSUME slots \in Seq(BOOLEAN), NEW hole \in Nat
  PROVE  \E len \in Nat :
           /\ Filled(hole) \in Seq(BOOLEAN) /\ Len(Filled(hole)) = len
           /\ \/ len = 0 /\ hole = 0 /\ slots = << >>
              \/ /\ ~ (hole = 0 /\ slots = << >>)
                 /\ len = hole + 1 \/ len = Len(slots)
                 /\ hole + 1 \in 1 .. len /\ Filled(hole)[hole + 1]
           /\ \A i \in DOMAIN slots : i \in 1 .. len /\ (slots[i] => Filled(hole)[i])
<1>1. PICK n \in Nat : n = Len(slots) /\ DOMAIN slots = 1 .. n
  BY LenProperties
<1>2. slots = << >> <=> n = 0
  BY <1>1, EmptySeq
<1>3. CASE hole < n
  <2>1. PICK f : f = [slots EXCEPT ![hole + 1] = TRUE]
    OBVIOUS
  <2>2. Filled(hole) = f
    BY <1>1, <1>3, <2>1 DEF Filled
  <2>3. hole + 1 \in 1 .. n
    BY <1>1, <1>3
  <2>4. f \in Seq(BOOLEAN) /\ Len(f) = n /\ f[hole + 1] /\ \A i \in 1 .. n : slots[i] => f[i]
    <3>1. f \in Seq(BOOLEAN) /\ Len(f) = n
      BY <1>1, <2>1, <2>3, ExceptSeq
    <3>2. f[hole + 1]
      BY <1>1, <2>1, <2>3
    <3>3. \A i \in 1 .. n : slots[i] => f[i]
      BY <1>1, <2>1, <2>3
    <3>4. QED
      BY <3>1, <3>2, <3>3
  <2>5. ~ (hole = 0 /\ slots = << >>)
    BY <1>2, <1>3
  <2>6. QED
    BY <1>1, <2>2, <2>3, <2>4, <2>5
<1>4. CASE ~ (hole < n) /\ hole = 0
  <2>1. n = 0
    BY <1>4
  <2>2. Filled(hole) = << >>
    BY <1>1, <1>4 DEF Filled
  <2>3. DOMAIN slots = {}
    BY <1>1, <2>1
  <2>4. << >> \in Seq(BOOLEAN) /\ Len(<< >>) = 0
    OBVIOUS
  <2>5. QED
    BY <1>2, <1>4, <2>1, <2>2, <2>3, <2>4
<1>5. CASE ~ (hole < n) /\ hole # 0
  <2>1. PICK k \in Nat : k = hole - n + 1 /\ k >= 1 /\ n + k = hole + 1
    BY <1>5
  <2>2. PICK g : g = [i \in 1 .. k |-> i = k]
    OBVIOUS
  <2>3. g \in Seq(BOOLEAN) /\ Len(g) = k /\ g[k]
    <3>1. \A i \in 1 .. k : (i = k) \in BOOLEAN
      OBVIOUS
    <3>2. g \in [1 .. k -> BOOLEAN]
      BY <2>2, <3>1
    <3>3. g \in Seq(BOOLEAN) /\ Len(g) = k
      BY <2>1, <2>2, <3>2
    <3>4. k \in 1 .. k
      BY <2>1
    <3>5. g[k]
      BY <2>2, <3>4
    <3>6. QED
      BY <3>3, <3>5
  <2>4. PICK f : f = slots \o g
    OBVIOUS
  <2>5. Filled(hole) = f
    BY <1>1, <1>5, <2>1, <2>2, <2>4 DEF Filled
  <2>6. /\ f \in Seq(BOOLEAN) /\ Len(f) = n + k
        /\ \A i \in 1 .. n + k : f[i] = IF i <= n THEN slots[i] ELSE g[i - n]
    BY <1>1, <2>3, <2>4, ConcatProperties
  <2>7. f[hole + 1]
    <3>1. n + k \in 1 .. n + k /\ ~ (n + k <= n) /\ (n + k) - n = k
      BY <2>1
    <3>2. f[n + k] = g[k]
      BY <2>6, <3>1
    <3>3. QED
      BY <2>1, <2>3, <3>2
  <2>8. \A i \in 1 .. n : i \in 1 .. hole + 1 /\ (slots[i] => f[i])
    <3>1. \A i \in 1 .. n : i \in 1 .. n + k /\ i <= n
      BY <2>1
    <3>2. QED
      BY <2>1, <2>6, <3>1
  <2>9. hole + 1 \in 1 .. hole + 1 /\ ~ (hole = 0 /\ slots = << >>) /\ hole + 1 \in Nat
    BY <1>5
  <2>10. QED
    BY <1>1, <2>1, <2>5, <2>6, <2>7, <2>8, <2>9
<1>6. QED
  BY <1>3, <1>4, <1>5

\* The base moves from b by n, up to the first of the holes.
Moves(filled, len, b, holes, n, s) ==
  /\ filled \in Seq(BOOLEAN) /\ len = Len(filled) /\ b \in Nat
  /\ holes \subseteq 1 .. len /\ \A i \in holes : ~ filled[i]
  /\ n = FirstOf(holes, len) - 1
  /\ s = SubSeq(filled, n + 1, len)

\* What is here stays here.
HasMoved(filled, len, b, n, s) ==
  /\ n \in 0 .. len /\ s \in Seq(BOOLEAN) /\ Len(s) = len - n
  /\ s # << >> => ~ s[1]
  /\ \A i \in 1 .. len : filled[i] => Here(b + i - 1, b + n, s)

LEMMA MovedIs ==
  ASSUME NEW filled, NEW len \in Nat, NEW b, NEW holes, NEW n, NEW s,
         Moves(filled, len, b, holes, n, s)
  PROVE  HasMoved(filled, len, b, n, s)
<1>0. /\ filled \in Seq(BOOLEAN) /\ len = Len(filled) /\ b \in Nat
      /\ holes \subseteq 1 .. len /\ \A i \in holes : ~ filled[i]
      /\ n = FirstOf(holes, len) - 1
      /\ s = SubSeq(filled, n + 1, len)
  BY DEF Moves
<1>1. PICK first : first = FirstOf(holes, len)
  OBVIOUS
<1>2. /\ first \in 1 .. len + 1
      /\ first <= len => first \in holes
  BY <1>0, <1>1, FirstOfIs
<1>3. n \in 0 .. len /\ first = n + 1 /\ n \in Nat
  BY <1>0, <1>1, <1>2
<1>4. DOMAIN filled = 1 .. len
  BY <1>0, LenProperties
<1>5. \A i \in n + 1 .. len : i \in 1 .. len /\ filled[i] \in BOOLEAN
  <2>1. \A i \in n + 1 .. len : i \in 1 .. len
    BY <1>3
  <2>2. QED
    BY <1>0, <2>1, ElementOfSeq
<1>6. s \in Seq(BOOLEAN) /\ Len(s) = IF n + 1 <= len THEN len - (n + 1) + 1 ELSE 0
  BY <1>0, <1>3, <1>5, SubSeqProperties
<1>7. \A i \in 1 .. len - (n + 1) + 1 : s[i] = filled[(n + 1) + i - 1]
  <2>1. PICK m \in Nat : m = n + 1
    BY <1>3
  <2>2. /\ m \in Int /\ len \in Int /\ s = SubSeq(filled, m, len)
        /\ \A i \in m .. len : filled[i] \in BOOLEAN
    BY <1>0, <1>5, <2>1
  <2>3. \A i \in 1 .. len - m + 1 : SubSeq(filled, m, len)[i] = filled[m + i - 1]
    BY <2>2, SubSeqProperties
  <2>4. QED
    BY <2>1, <2>2, <2>3
<1>8. Len(s) = len - n
  BY <1>3, <1>6
<1>9. \A i \in 1 .. len - n : s[i] = filled[n + i]
  <2>1. len - (n + 1) + 1 = len - n
    BY <1>3
  <2>2. \A i \in Int : (n + 1) + i - 1 = n + i
    BY <1>3
  <2>3. ASSUME NEW i \in 1 .. len - n
        PROVE  s[i] = filled[n + i]
    <3>1. i \in 1 .. len - (n + 1) + 1
      BY <2>1
    <3>2. s[i] = filled[(n + 1) + i - 1]
      BY <1>7, <3>1
    <3>3. (n + 1) + i - 1 = n + i
      BY <2>2
    <3>4. QED
      BY <3>2, <3>3
  <2>4. QED
    BY <2>3
<1>10. ASSUME s # << >>
       PROVE  ~ s[1]
  <2>1. Len(s) # 0
    BY <1>6, <1>10, EmptySeq
  <2>2. n + 1 <= len /\ 1 \in 1 .. len - n
    BY <1>3, <1>8, <2>1
  <2>3. s[1] = filled[n + 1]
    BY <1>9, <2>2
  <2>4. n + 1 \in holes
    BY <1>2, <1>3, <2>2
  <2>5. QED
    BY <1>0, <2>3, <2>4
<1>11. DOMAIN s = 1 .. len - n
  BY <1>6, <1>8, LenProperties
<1>12. ASSUME NEW i \in 1 .. len, filled[i]
       PROVE  Here(b + i - 1, b + n, s)
  <2>1. CASE i <= n
    <3>1. b + i - 1 < b + n
      BY <1>0, <1>3, <2>1
    <3>2. QED
      BY <3>1 DEF Here
  <2>2. CASE ~ (i <= n)
    <3>1. i - n \in 1 .. len - n /\ n + (i - n) = i /\ b + i - 1 = (b + n) + (i - n) - 1
      BY <1>0, <1>3, <2>2
    <3>2. s[i - n] = filled[i]
      BY <1>9, <3>1
    <3>3. i - n \in DOMAIN s /\ s[i - n]
      BY <1>11, <1>12, <3>1, <3>2
    <3>4. QED
      BY <3>1, <3>3 DEF Here
  <2>3. QED
    BY <2>1, <2>2
<1>13. QED
  BY <1>3, <1>6, <1>8, <1>10, <1>12 DEF HasMoved

\* A packet that is not taken for a repeated one is not here yet.
LEMMA NotHere ==
  ASSUME RdpTypeOK, RdpAssumption, PlacesInv, NEW p \in Packet, ~ Repeated(p.num - base)
  PROVE  p.num - base \in Nat /\ ~ Here(p.num, base, slots)
<1>1. PICK hole : hole = p.num - base
  OBVIOUS
<1>2. p.num \in Nat /\ base \in Nat /\ Len(slots) \in Nat /\ DOMAIN slots = 1 .. Len(slots)
  BY NumberIs, CountsAre DEF Packet
<1>3. ~ (hole < 0) /\ ~ (0 < hole /\ hole < Len(slots) /\ slots[hole + 1])
  BY <1>1 DEF Repeated
<1>4. hole \in Nat /\ p.num = base + hole
  BY <1>1, <1>2, <1>3
<1>5. ~ (p.num < base)
  BY <1>2, <1>4
<1>6. ASSUME NEW i \in DOMAIN slots, slots[i], p.num = base + i - 1
      PROVE  FALSE
  <2>1. i \in 1 .. Len(slots) /\ i = hole + 1
    BY <1>2, <1>4, <1>6
  <2>2. CASE hole = 0
    <3>1. Len(slots) # 0 /\ i = 1
      BY <1>2, <2>1, <2>2
    <3>2. slots # << >>
      BY <3>1
    <3>3. QED
      BY <1>6, <3>1, <3>2 DEF PlacesInv
  <2>3. CASE hole # 0
    <3>1. 0 < hole /\ hole < Len(slots)
      BY <1>2, <1>4, <2>1, <2>3
    <3>2. QED
      BY <1>3, <1>6, <2>1, <3>1
  <2>4. QED
    BY <2>2, <2>3
<1>7. QED
  BY <1>1, <1>4, <1>5, <1>6 DEF Here

\* The numbers that are asked for.
LEMMA AskedAre ==
  ASSUME RdpAssumption, NEW asked, asked \subseteq Number,
         NEW listed \in Listings(asked), nackQueue \in Seq(Number)
  PROVE  nackQueue \o listed \in Seq(Number)
<1>1. IsFiniteSet(asked)
  BY NumberIs, FS_Subset
<1>2. PICK n \in Nat : n = Cardinality(asked)
  BY <1>1, FS_CardinalityType
<1>3. listed \in [1 .. n -> asked]
  BY <1>2 DEF Listings
<1>4. listed \in [1 .. n -> Number]
  BY <1>3
<1>5. listed \in Seq(Number)
  BY <1>2, <1>4
<1>6. QED
  BY <1>5, ConcatProperties

\* A new packet joins those that were received.
LEMMA ReceivedNew ==
  ASSUME RdpAssumption, RdpTypeOK, PlacesInv, OnceInv, NEW p \in Packet,
         ~ Here(p.num, base, slots), receivedQueue' = Append(receivedQueue, p), UNCHANGED output,
         \A n \in Nat : Here(n, base, slots) => Here(n, base', slots'), Here(p.num, base', slots')
  PROVE  /\ OnceInv' /\ receivedQueue' \in Seq(Packet)
         /\ \A i \in DOMAIN receivedQueue' : Here(receivedQueue'[i].num, base', slots')
         /\ \A i \in DOMAIN receivedQueue' :
              (i \in DOMAIN receivedQueue /\ receivedQueue'[i] = receivedQueue[i]) \/ receivedQueue'[i] = p
<1>1. receivedQueue \in Seq(Packet)
  BY DEF RdpTypeOK
<1>2. PICK n \in Nat : n = Len(receivedQueue) /\ DOMAIN receivedQueue = 1 .. n
  BY <1>1, LenProperties
<1>3. PICK q : q = receivedQueue'
  OBVIOUS
<1>4. /\ q \in Seq(Packet) /\ Len(q) = n + 1 /\ q[n + 1] = p
      /\ \A i \in 1 .. n : q[i] = receivedQueue[i]
  BY <1>1, <1>2, <1>3, AppendProperties
<1>5. DOMAIN q = 1 .. n + 1
  BY <1>4, LenProperties
<1>6. ASSUME NEW i \in DOMAIN q
      PROVE  (i \in 1 .. n /\ q[i] = receivedQueue[i]) \/ (i = n + 1 /\ q[i] = p)
  <2>1. i \in 1 .. n + 1
    BY <1>5
  <2>2. i \in 1 .. n \/ i = n + 1
    BY <2>1
  <2>3. CASE i \in 1 .. n
    BY <1>4, <2>3
  <2>4. CASE i = n + 1
    BY <1>4, <2>4
  <2>5. QED
    BY <2>2, <2>3, <2>4
<1>7. \A i \in 1 .. n : Here(receivedQueue[i].num, base, slots) /\ receivedQueue[i].num # p.num
  BY <1>2 DEF PlacesInv
<1>8. ASSUME NEW i \in DOMAIN q
      PROVE  Here(q[i].num, base', slots')
  <2>1. CASE i \in 1 .. n /\ q[i] = receivedQueue[i]
    <3>1. receivedQueue[i] \in Packet
      BY <1>2, <2>1, EntriesAre
    <3>2. q[i].num \in Nat
      BY <2>1, <3>1, NumberIs DEF Packet
    <3>3. QED
      BY <1>7, <2>1, <3>2
  <2>2. QED
    BY <1>6, <2>1
<1>9. ASSUME NEW i \in DOMAIN q, NEW j \in DOMAIN q, q[i].num = q[j].num
      PROVE  i = j
  <2>1. CASE i \in 1 .. n /\ q[i] = receivedQueue[i] /\ j \in 1 .. n /\ q[j] = receivedQueue[j]
    BY <1>2, <1>9, <2>1 DEF OnceInv
  <2>2. QED
    BY <1>6, <1>7, <1>9, <2>1
<1>10. ASSUME NEW i \in DOMAIN q, NEW j \in DOMAIN output
       PROVE  q[i].num # output[j].num
  <2>1. Here(output[j].num, base, slots)
    BY DEF PlacesInv
  <2>2. CASE i \in 1 .. n /\ q[i] = receivedQueue[i]
    BY <1>2, <2>2 DEF OnceInv
  <2>3. CASE q[i] = p
    BY <2>1, <2>3
  <2>4. QED
    BY <1>6, <2>2, <2>3
<1>11. OnceInv'
  BY <1>3, <1>9, <1>10, SMTT(20) DEF OnceInv
<1>12. QED
  BY <1>2, <1>3, <1>4, <1>6, <1>8, <1>11

LEMMA DeliverDataInv ==
  ASSUME RdpAssumption, RdpInv, NEW p, DeliverData(p)
  PROVE  RdpInv'
<1>1. RdpTypeOK /\ CountsInv /\ PacketsInv /\ PlacesInv /\ OnceInv /\ OrderInv /\ RangesInv
  BY DEF RdpInv
<1>2. /\ UNCHANGED <<sendQueue, orderingIndex, messageNumber, resendQueue, acks, nacks, feedback>>
      /\ UNCHANGED <<ackRanges, nackRanges, sequencedIndex, output>>
      /\ p \in data /\ Receive(p)
  BY DEF DeliverData, sender, writing
<1>3. data' \subseteq data /\ faults' \in 0 .. MaxFaults
  BY <1>1, ArrivesIs DEF DeliverData, Arrive
<1>4. p \in Packet /\ p.num \in Number /\ Sound(p, messageNumber, orderingIndex) /\ data' \subseteq Packet
  <2>1. data \subseteq Packet
    BY <1>1 DEF RdpTypeOK
  <2>2. QED
    BY <1>1, <1>2, <1>3, <2>1 DEF PacketsInv, Packet
<1>5. /\ messageNumber \in Nat /\ base \in Nat /\ Len(slots) \in Nat /\ Len(Posts) \in Nat
      /\ base + Len(slots) <= messageNumber /\ DOMAIN slots = 1 .. Len(slots)
      /\ p.num \in Nat /\ p.num < messageNumber /\ messageNumber \in Number
  <2>1. p.num \in Nat /\ p.num < messageNumber /\ messageNumber \in Number
    BY <1>1, <1>4, NumberIs DEF Sound, RdpTypeOK
  <2>2. QED
    BY <1>1, <2>1, CountsAre
<1>6. ackQueue' \in Seq(Number)
  <2>1. ackQueue \in Seq(Number)
    BY <1>1 DEF RdpTypeOK
  <2>2. ackQueue' = Append(ackQueue, p.num) \/ ackQueue' = ackQueue
    BY <1>2 DEF Receive, Acknowledged
  <2>3. QED
    BY <1>4, <2>1, <2>2, AppendProperties
<1>7. arrived' \subseteq Number
  <2>1. arrived' = arrived \cup {p.num}
    BY <1>2 DEF Receive
  <2>2. QED
    BY <1>1, <1>4, <2>1 DEF RdpTypeOK
<1>8. CountsInv' /\ OrderInv' /\ RangesInv'
  BY <1>1, <1>2, CountsStay, OrderStays, RangesStay
<1>9. CASE Repeated(p.num - base)
  <2>1. UNCHANGED <<base, slots, nackQueue, receivedQueue>>
    BY <1>2, <1>9 DEF Receive
  <2>2. RdpTypeOK'
    BY <1>1, <1>2, <1>3, <1>4, <1>6, <1>7, <2>1 DEF RdpTypeOK
  <2>3. PacketsInv'
    BY <1>1, <1>2, <1>3, <2>1, FewerPackets
  <2>4. PlacesInv' /\ OnceInv'
    BY <1>1, <1>2, <2>1, PlacesStay, OnceStays
  <2>5. QED
    BY <1>8, <2>2, <2>3, <2>4 DEF RdpInv
<1>10. CASE ~ Repeated(p.num - base)
  <2>1. PICK hole \in Nat : hole = p.num - base /\ p.num = base + hole
    BY <1>1, <1>4, <1>5, <1>10, NotHere
  <2>2. ~ Here(p.num, base, slots)
    BY <1>1, <1>4, <1>10, NotHere
  <2> DEFINE filled == Filled(p.num - base)
             from == IF p.num - base = 0 /\ slots = << >> THEN base + 1 ELSE base
  <2>3. /\ filled = Filled(p.num - base)
        /\ from = IF p.num - base = 0 /\ slots = << >> THEN base + 1 ELSE base
    OBVIOUS
  <2>4. PICK expired, holes, n :
          /\ holes = {i \in DOMAIN filled : ~ filled[i] /\ i > expired}
          /\ n = FirstOf(holes, Len(filled)) - 1
          /\ receivedQueue' = Append(receivedQueue, p)
          /\ base' = from + n
          /\ slots' = SubSeq(filled, n + 1, Len(filled))
          /\ \E asked \in SUBSET {from + i - 1 : i \in holes} :
               \E listed \in Listings(asked) : nackQueue' = nackQueue \o listed
    <3>1. \E expired \in 0 .. Len(slots) :
            LET holes == {i \in DOMAIN filled : ~ filled[i] /\ i > expired}
                n == FirstOf(holes, Len(filled)) - 1
            IN /\ expired > 0 => ~slots[expired]
               /\ receivedQueue' = Append(receivedQueue, p)
               /\ base' = from + n
               /\ slots' = SubSeq(filled, n + 1, Len(filled))
               /\ \E asked \in SUBSET {from + i - 1 : i \in holes} :
                    /\ Len(nackQueue) + Cardinality(asked) <= MaxUnread
                    /\ \E listed \in Listings(asked) : nackQueue' = nackQueue \o listed
      BY <1>2, <1>10 DEF Receive
    <3>2. PICK expired \in 0 .. Len(slots) :
            LET holes == {i \in DOMAIN filled : ~ filled[i] /\ i > expired}
                n == FirstOf(holes, Len(filled)) - 1
            IN /\ receivedQueue' = Append(receivedQueue, p)
               /\ base' = from + n
               /\ slots' = SubSeq(filled, n + 1, Len(filled))
               /\ \E asked \in SUBSET {from + i - 1 : i \in holes} :
                    \E listed \in Listings(asked) : nackQueue' = nackQueue \o listed
      BY <3>1, ZenonT(40)
    <3>3. QED
      BY <3>2
  <2> HIDE DEF filled, from
  <2>5. slots \in Seq(BOOLEAN)
    BY <1>1 DEF RdpTypeOK
  <2>6. PICK len \in Nat :
          /\ filled \in Seq(BOOLEAN) /\ Len(filled) = len
          /\ \/ len = 0 /\ hole = 0 /\ slots = << >>
             \/ /\ ~ (hole = 0 /\ slots = << >>)
                /\ len = hole + 1 \/ len = Len(slots)
                /\ hole + 1 \in 1 .. len /\ filled[hole + 1]
          /\ \A i \in DOMAIN slots : i \in 1 .. len /\ (slots[i] => filled[i])
    BY <2>1, <2>3, <2>5, FilledIs
  <2>7. from \in Nat /\ base <= from
    BY <1>5, <2>3
  <2>8. from + len <= messageNumber
    <3>1. CASE len = 0 /\ hole = 0 /\ slots = << >>
      <4>1. from = base + 1
        BY <2>1, <2>3, <3>1
      <4>2. QED
        BY <1>5, <2>1, <3>1, <4>1
    <3>2. CASE ~ (hole = 0 /\ slots = << >>) /\ (len = hole + 1 \/ len = Len(slots))
      <4>1. from = base
        BY <2>1, <2>3, <3>2
      <4>2. CASE len = hole + 1
        <5>1. from + len = p.num + 1
          <6>1. PICK x : x = p.num
            OBVIOUS
          <6>2. base \in Nat /\ x = base + hole
            BY <1>5, <2>1, <6>1
          <6>3. base + (hole + 1) = x + 1
            BY <6>2
          <6>4. QED
            BY <4>1, <4>2, <6>1, <6>3
        <5>2. p.num + 1 <= messageNumber
          BY <1>5
        <5>3. QED
          BY <5>1, <5>2
      <4>3. CASE len = Len(slots)
        BY <1>5, <4>1, <4>3
      <4>4. QED
        BY <3>2, <4>2, <4>3
    <3>3. QED
      BY <2>6, <3>1, <3>2
  <2>9. DOMAIN filled = 1 .. len
    BY <2>6, LenProperties
  <2>10. holes \subseteq 1 .. len /\ \A i \in holes : ~ filled[i]
    BY <2>4, <2>9
  <2>11. /\ n \in 0 .. len /\ slots' \in Seq(BOOLEAN) /\ Len(slots') = len - n
         /\ slots' # << >> => ~ slots'[1]
         /\ \A i \in 1 .. len : filled[i] => Here(from + i - 1, from + n, slots')
    <3>1. PICK s : s = slots'
      OBVIOUS
    <3>2. s = SubSeq(filled, n + 1, len) /\ n = FirstOf(holes, len) - 1
      BY <2>4, <2>6, <3>1
    <3>3. filled \in Seq(BOOLEAN) /\ len = Len(filled)
      BY <2>6
    <3>4. /\ n \in 0 .. len /\ s \in Seq(BOOLEAN) /\ Len(s) = len - n
          /\ s # << >> => ~ s[1]
          /\ \A i \in 1 .. len : filled[i] => Here(from + i - 1, from + n, s)
      <4>1. from \in Nat
        BY <2>7
      <4>2. holes \subseteq 1 .. len
        BY <2>10
      <4>3. \A i \in holes : ~ filled[i]
        BY <2>10
      <4>4. s = SubSeq(filled, n + 1, len)
        BY <3>2
      <4>5. n = FirstOf(holes, len) - 1
        BY <3>2
      <4>6. filled \in Seq(BOOLEAN)
        BY <3>3
      <4>7. len = Len(filled)
        BY <3>3
      <4>8. Moves(filled, len, from, holes, n, s)
        BY <4>1, <4>2, <4>3, <4>4, <4>5, <4>6, <4>7 DEF Moves
      <4>9. HasMoved(filled, len, from, n, s)
        BY <4>8, MovedIs
      <4>10. QED
        BY <4>9 DEF HasMoved
    <3>5. QED
      BY <3>1, <3>4
  <2>12. /\ base' \in Nat /\ base' + Len(slots') <= messageNumber /\ base' \in Number
         /\ from <= base'
    <3>0. base' = from + n /\ n \in Nat /\ n <= len
      BY <2>4, <2>11
    <3>1. base' \in Nat /\ base' + (len - n) = from + len /\ base' <= messageNumber /\ from <= base'
      BY <1>5, <2>7, <2>8, <3>0
    <3>2. messageNumber <= Len(Posts)
      BY <1>5 DEF Number
    <3>3. base' \in 0 .. Len(Posts)
      BY <1>5, <3>1, <3>2
    <3>4. QED
      BY <2>8, <2>11, <3>1, <3>3 DEF Number
  <2>13. Here(p.num, base', slots')
    <3>1. CASE len = 0 /\ hole = 0 /\ slots = << >>
      <4>1. from = base + 1
        BY <2>1, <2>3, <3>1
      <4>2. p.num < base'
        BY <1>5, <2>1, <2>12, <3>1, <4>1
      <4>3. QED
        BY <4>2 DEF Here
    <3>2. CASE ~ (hole = 0 /\ slots = << >>) /\ hole + 1 \in 1 .. len /\ filled[hole + 1]
      <4>1. from = base
        BY <2>1, <2>3, <3>2
      <4>2. Here(from + (hole + 1) - 1, from + n, slots')
        BY <2>11, <3>2
      <4>3. from + (hole + 1) - 1 = p.num
        BY <1>5, <2>1, <4>1
      <4>4. QED
        BY <2>4, <4>2, <4>3
    <3>3. QED
      BY <2>6, <3>1, <3>2
  <2>14. ASSUME NEW m \in Nat, Here(m, base, slots)
         PROVE  Here(m, base', slots')
    <3>1. CASE m < base
      <4>1. base <= base' /\ base \in Nat /\ base' \in Nat
        BY <1>5, <2>7, <2>12
      <4>2. QED
        BY <3>1, <4>1 DEF Here
    <3>2. CASE \E i \in DOMAIN slots : slots[i] /\ m = base + i - 1
      <4>1. PICK i \in DOMAIN slots : slots[i] /\ m = base + i - 1
        BY <3>2
      <4>2. i \in 1 .. len /\ filled[i]
        BY <2>6, <4>1
      <4>3. ~ (slots = << >>)
        OBVIOUS
      <4>4. from = base
        BY <2>3, <4>3
      <4>5. Here(from + i - 1, from + n, slots')
        BY <2>11, <4>2
      <4>6. QED
        BY <2>4, <4>1, <4>4, <4>5
    <3>3. QED
      BY <2>14, <3>1, <3>2 DEF Here
  <2>15. nackQueue' \in Seq(Number)
    <3>1. PICK asked \in SUBSET {from + i - 1 : i \in holes} :
            \E listed \in Listings(asked) : nackQueue' = nackQueue \o listed
      BY <2>4
    <3>2. PICK listed \in Listings(asked) : nackQueue' = nackQueue \o listed
      BY <3>1
    <3>3. \A i \in 1 .. len : from + i - 1 \in Number
      <4>1. messageNumber <= Len(Posts)
        BY <1>5 DEF Number
      <4>2. \A i \in 1 .. len : from + i - 1 \in 0 .. Len(Posts)
        BY <1>5, <2>7, <2>8, <4>1
      <4>3. QED
        BY <4>2 DEF Number
    <3>4. asked \subseteq Number
      BY <2>10, <3>1, <3>3
    <3>5. nackQueue \in Seq(Number)
      BY <1>1 DEF RdpTypeOK
    <3>6. QED
      BY <3>2, <3>4, <3>5, AskedAre
  <2>16. /\ OnceInv' /\ receivedQueue' \in Seq(Packet)
         /\ \A i \in DOMAIN receivedQueue' : Here(receivedQueue'[i].num, base', slots')
         /\ \A i \in DOMAIN receivedQueue' :
              (i \in DOMAIN receivedQueue /\ receivedQueue'[i] = receivedQueue[i]) \/ receivedQueue'[i] = p
    BY <1>1, <1>2, <1>4, <2>2, <2>4, <2>13, <2>14, ReceivedNew
  <2>17. RdpTypeOK'
    BY <1>1, <1>2, <1>3, <1>4, <1>6, <1>7, <2>11, <2>12, <2>15, <2>16 DEF RdpTypeOK
  <2>18. PlacesInv'
    <3>1. ASSUME NEW i \in DOMAIN output
          PROVE  Here(output[i].num, base', slots')
      <4>1. output[i] \in Packet
        BY <1>1, EntriesAre
      <4>2. output[i].num \in Nat
        BY <4>1, NumberIs DEF Packet
      <4>3. QED
        BY <1>1, <2>14, <4>2 DEF PlacesInv
    <3>2. QED
      BY <1>2, <2>11, <2>16, <3>1 DEF PlacesInv
  <2>19. PacketsInv'
    BY <1>1, <1>2, <1>3, <1>4, <2>16 DEF PacketsInv
  <2>20. QED
    BY <1>8, <2>16, <2>17, <2>18, <2>19 DEF RdpInv
<1>11. QED
  BY <1>9, <1>10

-----------------------------------------------------------------------------
(* update_W *)

\* Output, in Update_W.
Put(s, p) ==
  IF p.kind \notin Sequenced THEN [s EXCEPT !.out = Append(@, p)]
  ELSE IF p.index >= s.next
  THEN [next |-> p.index + 1, out |-> Append(s.out, p)]
  ELSE s

\* The packets that were put out are here, once each, and in order, and none is
\* among those that q holds after the first k.
PutOut(s, q, k) ==
  /\ s \in [next : Number, out : Seq(Packet)]
  /\ \A i \in DOMAIN s.out : Here(s.out[i].num, base, slots)
  /\ \A i, j \in DOMAIN s.out : s.out[i].num = s.out[j].num => i = j
  /\ \A i \in k + 1 .. Len(q), j \in DOMAIN s.out : q[i].num # s.out[j].num
  /\ \A i \in DOMAIN s.out : s.out[i].kind \in Sequenced => s.out[i].index < s.next
  /\ \A i, j \in DOMAIN s.out :
       i < j /\ s.out[i].kind \in Sequenced /\ s.out[j].kind \in Sequenced =>
         s.out[i].index < s.out[j].index

\* The packets of a queue are here, once each, and have their places.
Queued(q) ==
  /\ q \in Seq(Packet)
  /\ \A i \in DOMAIN q : Here(q[i].num, base, slots) /\ (q[i].kind \in Sequenced => q[i].index < orderingIndex)
  /\ \A i, j \in DOMAIN q : q[i].num = q[j].num => i = j

\* One more packet is put out.
LEMMA AppendPutsOut ==
  ASSUME RdpAssumption, NEW s, NEW t, NEW q, NEW k \in Nat, NEW p,
         Queued(q), PutOut(s, q, k), k + 1 \in DOMAIN q, p = q[k + 1],
         t \in [next : Number, out : Seq(Packet)], t.out = Append(s.out, p), s.next <= t.next,
         p.kind \in Sequenced => s.next <= p.index /\ p.index < t.next
  PROVE  PutOut(t, q, k + 1)
<1>1. s.next \in Nat /\ t.next \in Nat /\ s.out \in Seq(Packet)
  BY NumberIs DEF PutOut
<1>2. PICK n \in Nat : n = Len(s.out) /\ DOMAIN s.out = 1 .. n
  BY <1>1, LenProperties
<1>3. PICK len \in Nat : len = Len(q) /\ DOMAIN q = 1 .. len
  BY LenProperties DEF Queued
<1>4. p \in Packet /\ p.index \in Nat /\ Here(p.num, base, slots)
  <2>1. p \in Packet
    BY <1>3, ElementOfSeq DEF Queued
  <2>2. QED
    BY <2>1, NumberIs DEF Queued, Packet
<1>5. PICK o : o = t.out
  OBVIOUS
<1>6. /\ o \in Seq(Packet) /\ Len(o) = n + 1 /\ o[n + 1] = p
      /\ \A i \in 1 .. n : o[i] = s.out[i]
  BY <1>1, <1>2, <1>4, <1>5, AppendProperties, SMTT(20)
<1>7. DOMAIN o = 1 .. n + 1
  BY <1>6, LenProperties
<1>8. ASSUME NEW i \in DOMAIN o
      PROVE  (i \in 1 .. n /\ o[i] = s.out[i]) \/ (i = n + 1 /\ o[i] = p)
  <2>1. i \in 1 .. n + 1
    BY <1>7
  <2>2. i \in 1 .. n \/ i = n + 1
    BY <2>1
  <2>3. QED
    BY <1>6, <2>2
<1>9. /\ \A i \in 1 .. n : Here(s.out[i].num, base, slots)
      /\ \A i, j \in 1 .. n : s.out[i].num = s.out[j].num => i = j
      /\ \A i \in k + 1 .. len, j \in 1 .. n : q[i].num # s.out[j].num
      /\ \A i \in 1 .. n : s.out[i].kind \in Sequenced => s.out[i].index < s.next
      /\ \A i, j \in 1 .. n :
           i < j /\ s.out[i].kind \in Sequenced /\ s.out[j].kind \in Sequenced =>
             s.out[i].index < s.out[j].index
  BY <1>2, <1>3 DEF PutOut
<1>10. \A i \in 1 .. n : s.out[i].index \in Nat
  <2>1. \A i \in 1 .. n : s.out[i] \in Packet
    BY <1>1, <1>2, ElementOfSeq
  <2>2. QED
    BY <2>1, NumberIs DEF Packet
<1>11. \A j \in 1 .. n : p.num # s.out[j].num
  <2>1. k + 1 \in k + 1 .. len
    BY <1>3
  <2>2. QED
    BY <1>9, <2>1
<1>12. \A i \in DOMAIN o : Here(o[i].num, base, slots)
  BY <1>4, <1>8, <1>9
<1>13. \A i, j \in DOMAIN o : o[i].num = o[j].num => i = j
  BY <1>8, <1>9, <1>11
<1>14. ASSUME NEW i \in k + 2 .. len, NEW j \in DOMAIN o
       PROVE  q[i].num # o[j].num
  <2>1. i \in k + 1 .. len /\ i \in DOMAIN q /\ i # k + 1
    BY <1>3
  <2>2. q[i].num # p.num
    BY <2>1 DEF Queued
  <2>3. QED
    BY <1>8, <1>9, <2>1, <2>2
<1>15. ASSUME NEW i \in DOMAIN o, o[i].kind \in Sequenced
       PROVE  o[i].index < t.next
  <2>1. CASE i \in 1 .. n /\ o[i] = s.out[i]
    <3>1. s.out[i].index < s.next /\ s.out[i].index \in Nat
      BY <1>9, <1>10, <1>15, <2>1
    <3>2. PICK x, y, z : x = s.out[i].index /\ y = s.next /\ z = t.next
      OBVIOUS
    <3>3. x \in Nat /\ y \in Nat /\ z \in Nat /\ x < y /\ y <= z
      BY <1>1, <3>1, <3>2
    <3>4. x < z
      BY <3>3
    <3>5. QED
      BY <2>1, <3>2, <3>4
  <2>2. CASE o[i] = p
    BY <1>15, <2>2
  <2>3. QED
    BY <1>8, <2>1, <2>2
<1>16. ASSUME NEW i \in DOMAIN o, NEW j \in DOMAIN o,
              i < j, o[i].kind \in Sequenced, o[j].kind \in Sequenced
       PROVE  o[i].index < o[j].index
  <2>1. CASE i \in 1 .. n /\ o[i] = s.out[i] /\ j \in 1 .. n /\ o[j] = s.out[j]
    BY <1>9, <1>16, <2>1
  <2>2. CASE i \in 1 .. n /\ o[i] = s.out[i] /\ j = n + 1 /\ o[j] = p
    <3>1. s.out[i].index < s.next /\ s.out[i].index \in Nat
      BY <1>9, <1>10, <1>16, <2>2
    <3>2. s.next <= p.index
      BY <1>16, <2>2
    <3>3. PICK x, y, z : x = s.out[i].index /\ y = s.next /\ z = p.index
      OBVIOUS
    <3>4. x \in Nat /\ y \in Nat /\ z \in Nat /\ x < y /\ y <= z
      BY <1>1, <1>4, <3>1, <3>2, <3>3
    <3>5. x < z
      BY <3>4
    <3>6. o[i].index = x /\ o[j].index = z
      BY <2>2, <3>3
    <3>7. QED
      BY <3>5, <3>6
  <2>3. CASE i = n + 1
    <3>1. j \in 1 .. n + 1
      BY <1>7
    <3>2. QED
      BY <1>16, <2>3, <3>1
  <2>4. QED
    BY <1>8, <2>1, <2>2, <2>3
<1>17. (k + 1) + 1 = k + 2
  OBVIOUS
<1>18. QED
  BY <1>3, <1>5, <1>12, <1>13, <1>14, <1>15, <1>16, <1>17 DEF PutOut

LEMMA PutIs ==
  ASSUME RdpAssumption, RdpTypeOK, NEW s, NEW q, NEW k \in Nat,
         Queued(q), PutOut(s, q, k), k + 1 \in DOMAIN q
  PROVE  PutOut(Put(s, q[k + 1]), q, k + 1)
<1>1. PICK p : p = q[k + 1]
  OBVIOUS
<1>2. s \in [next : Number, out : Seq(Packet)] /\ s.next \in Nat /\ s.next \in Number /\ s.out \in Seq(Packet)
  BY NumberIs DEF PutOut
<1>3. PICK len \in Nat : len = Len(q) /\ DOMAIN q = 1 .. len
  BY LenProperties DEF Queued
<1>4. p \in Packet /\ p.index \in Nat
  <2>1. p \in Packet
    BY <1>1, <1>3, ElementOfSeq DEF Queued
  <2>2. QED
    BY <2>1, NumberIs DEF Packet
<1>5. Append(s.out, p) \in Seq(Packet)
  BY <1>2, <1>4, AppendProperties
<1>6. PICK t : t = Put(s, p)
  OBVIOUS
<1>7. CASE p.kind \notin Sequenced
  <2>1. t = [s EXCEPT !.out = Append(@, p)]
    BY <1>6, <1>7 DEF Put
  <2>2. t \in [next : Number, out : Seq(Packet)] /\ t.out = Append(s.out, p) /\ t.next = s.next
    BY <1>2, <1>5, <2>1
  <2>3. s.next <= t.next
    BY <1>2, <2>2
  <2>4. QED
    BY <1>1, <1>6, <1>7, <2>2, <2>3, AppendPutsOut
<1>8. CASE p.kind \in Sequenced /\ p.index >= s.next
  <2>1. t = [next |-> p.index + 1, out |-> Append(s.out, p)]
    BY <1>6, <1>8 DEF Put
  <2>2. p.index < orderingIndex
    BY <1>1, <1>8 DEF Queued
  <2>3. p.index + 1 \in Number
    <3>1. orderingIndex \in 0 .. Len(Posts) /\ Len(Posts) \in Nat
      BY NumberIs DEF RdpTypeOK, Number
    <3>2. p.index + 1 \in 0 .. Len(Posts)
      BY <1>4, <2>2, <3>1
    <3>3. QED
      BY <3>2 DEF Number
  <2>4. t \in [next : Number, out : Seq(Packet)] /\ t.out = Append(s.out, p) /\ t.next = p.index + 1
    BY <1>5, <2>1, <2>3
  <2>5. s.next <= t.next /\ s.next <= p.index /\ p.index < t.next
    BY <1>2, <1>4, <1>8, <2>4
  <2>6. QED
    BY <1>1, <1>6, <2>4, <2>5, AppendPutsOut
<1>9. CASE p.kind \in Sequenced /\ ~ (p.index >= s.next)
  <2>1. t = s
    BY <1>6, <1>9 DEF Put
  <2>2. \A i \in (k + 1) + 1 .. Len(q) : i \in k + 1 .. Len(q)
    BY <1>3
  <2>3. PutOut(s, q, k + 1)
    BY <2>2 DEF PutOut
  <2>4. QED
    BY <1>1, <1>6, <2>1, <2>3
<1>10. QED
  BY <1>7, <1>8, <1>9

\* f is after, in Update_W, up to k.
IsPut(f, k) ==
  f = [i \in 0 .. k |->
         IF i = 0 THEN [next |-> sequencedIndex, out |-> output]
         ELSE Put(f[i - 1], receivedQueue[i])]

LEMMA PutExists ==
  ASSUME NEW n \in Nat
  PROVE  \E f : IsPut(f, n)
<1> DEFINE missing == {k \in Nat : ~ \E f : IsPut(f, k)}
<1>1. SUFFICES ASSUME missing # {}
               PROVE  FALSE
  OBVIOUS
<1>2. PICK m \in missing : \A k \in missing : m <= k
  BY <1>1, LeastNumber
<1>3. m \in Nat /\ ~ \E f : IsPut(f, m)
  BY <1>2
<1>4. PICK first : first = [next |-> sequencedIndex, out |-> output]
  OBVIOUS
<1>5. CASE m = 0
  <2>1. PICK f : f = [i \in 0 .. 0 |-> first]
    OBVIOUS
  <2>2. f = [i \in 0 .. 0 |-> IF i = 0 THEN first ELSE Put(f[i - 1], receivedQueue[i])]
    BY <2>1
  <2>3. QED
    BY <1>3, <1>4, <1>5, <2>2 DEF IsPut
<1>6. CASE m # 0
  <2>1. m - 1 \in Nat /\ ~ (m <= m - 1)
    BY <1>3, <1>6
  <2>2. m - 1 \notin missing
    BY <1>2, <2>1
  <2>3. PICK f : IsPut(f, m - 1)
    BY <2>1, <2>2
  <2>4. \A i \in 0 .. m - 1 : f[i] = IF i = 0 THEN first ELSE Put(f[i - 1], receivedQueue[i])
    BY <1>4, <2>3 DEF IsPut
  <2>5. PICK g : g = [i \in 0 .. m |-> IF i = m THEN Put(f[m - 1], receivedQueue[m]) ELSE f[i]]
    OBVIOUS
  <2>6. ASSUME NEW i \in 0 .. m
        PROVE  g[i] = IF i = 0 THEN first ELSE Put(g[i - 1], receivedQueue[i])
    <3>1. CASE i = m
      <4>1. m - 1 \in 0 .. m /\ m - 1 # m
        BY <1>3, <2>1
      <4>2. g[m - 1] = f[m - 1]
        BY <2>5, <4>1
      <4>3. g[m] = Put(f[m - 1], receivedQueue[m])
        BY <2>5, <3>1
      <4>4. QED
        BY <1>6, <3>1, <4>2, <4>3
    <3>2. CASE i # m
      <4>1. i \in 0 .. m - 1
        BY <1>3, <3>2
      <4>2. g[i] = f[i]
        BY <2>5, <3>2
      <4>3. CASE i = 0
        BY <2>4, <4>1, <4>2, <4>3
      <4>4. CASE i # 0
        <5>1. i - 1 \in 0 .. m /\ i - 1 # m
          BY <1>3, <4>1, <4>4
        <5>2. g[i - 1] = f[i - 1]
          BY <2>5, <5>1
        <5>3. f[i] = Put(f[i - 1], receivedQueue[i])
          BY <2>4, <4>1, <4>4
        <5>4. QED
          BY <4>2, <4>4, <5>2, <5>3
      <4>5. QED
        BY <4>3, <4>4
    <3>3. QED
      BY <3>1, <3>2
  <2>7. g = [i \in 0 .. m |-> IF i = 0 THEN first ELSE Put(g[i - 1], receivedQueue[i])]
    <3>1. g = [i \in 0 .. m |-> g[i]]
      BY <2>5
    <3>2. QED
      BY <2>6, <3>1, Zenon
  <2>8. IsPut(g, m)
    BY <1>4, <2>7 DEF IsPut
  <2>9. QED
    BY <1>3, <2>8
<1>7. QED
  BY <1>5, <1>6

LEMMA AllPutIs ==
  ASSUME RdpAssumption, RdpTypeOK, PacketsInv, PlacesInv, OnceInv, OrderInv,
         NEW f, IsPut(f, Len(receivedQueue))
  PROVE  PutOut(f[Len(receivedQueue)], receivedQueue, Len(receivedQueue))
<1>1. PICK q : q = receivedQueue
  OBVIOUS
<1>2. q \in Seq(Packet) /\ output \in Seq(Packet) /\ sequencedIndex \in Number
  BY <1>1 DEF RdpTypeOK
<1>3. PICK n \in Nat : n = Len(q) /\ DOMAIN q = 1 .. n
  BY <1>2, LenProperties
<1>4. Queued(q)
  BY <1>1, <1>2 DEF Queued, PacketsInv, PlacesInv, OnceInv, Sound
<1>5. \A i \in 0 .. n : f[i] = IF i = 0 THEN [next |-> sequencedIndex, out |-> output]
                               ELSE Put(f[i - 1], q[i])
  BY <1>1, <1>3 DEF IsPut
<1> DEFINE bad == {i \in 0 .. n : ~ PutOut(f[i], q, i)}
<1>6. bad = {}
  <2>1. SUFFICES ASSUME bad # {}
                 PROVE  FALSE
    OBVIOUS
  <2>2. bad \subseteq Nat
    OBVIOUS
  <2>3. PICK m \in bad : \A k \in bad : m <= k
    BY <2>1, <2>2, LeastNumber
  <2>4. m \in 0 .. n /\ ~ PutOut(f[m], q, m)
    BY <2>3
  <2>5. m # 0
    <3>1. SUFFICES ASSUME m = 0
                   PROVE  PutOut(f[0], q, 0)
      BY <2>4
    <3>2. PICK s : s = [next |-> sequencedIndex, out |-> output]
      OBVIOUS
    <3>3. f[0] = s
      <4>1. 0 \in 0 .. n
        OBVIOUS
      <4>2. QED
        BY <1>5, <3>2, <4>1
    <3>4. s \in [next : Number, out : Seq(Packet)] /\ s.next = sequencedIndex /\ s.out = output
      BY <1>2, <3>2
    <3>5. \A i \in DOMAIN output : Here(output[i].num, base, slots)
      BY DEF PlacesInv
    <3>6. /\ \A i, j \in DOMAIN output : output[i].num = output[j].num => i = j
          /\ \A i \in 0 + 1 .. Len(q), j \in DOMAIN output : q[i].num # output[j].num
      BY <1>1, <1>3 DEF OnceInv
    <3>7. /\ \A i \in DOMAIN output : output[i].kind \in Sequenced => output[i].index < sequencedIndex
          /\ \A i, j \in DOMAIN output :
               i < j /\ output[i].kind \in Sequenced /\ output[j].kind \in Sequenced =>
                 output[i].index < output[j].index
      BY DEF OrderInv
    <3>8. PutOut(s, q, 0)
      BY <3>4, <3>5, <3>6, <3>7 DEF PutOut
    <3>9. QED
      BY <3>3, <3>8
  <2>6. PICK k \in Nat : m = k + 1 /\ k \in 0 .. n /\ k + 1 \in 1 .. n /\ ~ (m <= k) /\ m - 1 = k
    <3>1. m - 1 \in Nat /\ m = (m - 1) + 1 /\ m - 1 \in 0 .. n /\ (m - 1) + 1 \in 1 .. n /\ ~ (m <= m - 1)
      BY <2>4, <2>5
    <3>2. QED
      BY <3>1
  <2>7. k \notin bad
    BY <2>3, <2>6
  <2>8. PutOut(f[k], q, k)
    BY <2>6, <2>7
  <2>9. f[m] = Put(f[k], q[k + 1])
    BY <1>5, <2>4, <2>5, <2>6
  <2>10. PutOut(Put(f[k], q[k + 1]), q, k + 1)
    BY <1>3, <1>4, <2>6, <2>8, PutIs
  <2>11. QED
    BY <2>4, <2>6, <2>9, <2>10
<1>7. n \in 0 .. n
  OBVIOUS
<1>8. PutOut(f[n], q, n)
  BY <1>6, <1>7
<1>9. QED
  BY <1>1, <1>3, <1>8

LEMMA UpdateIs ==
  ASSUME RdpTypeOK, Update_W
  PROVE  \E f : /\ IsPut(f, Len(receivedQueue))
                /\ sequencedIndex' = f[Len(receivedQueue)].next
                /\ output' = f[Len(receivedQueue)].out
<1>1. Len(receivedQueue) \in Nat
  BY LenProperties DEF RdpTypeOK
<1>2. \E f : IsPut(f, Len(receivedQueue))
  BY <1>1, PutExists
<1>3. PICK f : f = CHOOSE g : IsPut(g, Len(receivedQueue))
  OBVIOUS
<1>4. IsPut(f, Len(receivedQueue))
  BY <1>2, <1>3, Zenon
<1>5. /\ sequencedIndex' = f[Len(receivedQueue)].next
      /\ output' = f[Len(receivedQueue)].out
  BY <1>3 DEF Update_W, Put, IsPut
<1>6. QED
  BY <1>4, <1>5

LEMMA UpdateInv ==
  ASSUME RdpAssumption, RdpInv, Update_W
  PROVE  RdpInv'
<1>1. RdpTypeOK /\ CountsInv /\ PacketsInv /\ PlacesInv /\ OnceInv /\ OrderInv /\ RangesInv
  BY DEF RdpInv
<1>2. /\ UNCHANGED <<sendQueue, orderingIndex, messageNumber, resendQueue, acks, nacks>>
      /\ UNCHANGED <<data, feedback, faults, base, slots, arrived>>
      /\ ackQueue' = << >> /\ nackQueue' = << >> /\ receivedQueue' = << >>
      /\ ackRanges' = InsertAll(ackRanges, ackQueue)
      /\ nackRanges' = InsertAll(nackRanges, nackQueue)
  BY DEF Update_W, sender, network
<1>3. PICK f : /\ IsPut(f, Len(receivedQueue))
               /\ sequencedIndex' = f[Len(receivedQueue)].next
               /\ output' = f[Len(receivedQueue)].out
  BY <1>1, UpdateIs
<1>4. PICK s : s = f[Len(receivedQueue)]
  OBVIOUS
<1>5. PutOut(s, receivedQueue, Len(receivedQueue)) /\ sequencedIndex' = s.next /\ output' = s.out
  BY <1>1, <1>3, <1>4, AllPutIs
<1>6. sequencedIndex' \in Number /\ output' \in Seq(Packet)
  BY <1>5 DEF PutOut
<1>7. /\ ackRanges' \in Ranges /\ Apart(ackRanges')
      /\ nackRanges' \in Ranges /\ Apart(nackRanges')
  <2>1. /\ ackRanges \in Ranges /\ nackRanges \in Ranges
        /\ ackQueue \in Seq(Number) /\ nackQueue \in Seq(Number)
        /\ Apart(ackRanges) /\ Apart(nackRanges)
    BY <1>1 DEF RdpTypeOK, RangesInv
  <2>2. QED
    BY <1>2, <2>1, InsertAllApart
<1>8. << >> \in Seq(Number) /\ << >> \in Seq(Packet) /\ DOMAIN << >> = {}
  OBVIOUS
<1>9. RdpTypeOK'
  BY <1>1, <1>2, <1>6, <1>7, <1>8 DEF RdpTypeOK
<1>10. CountsInv'
  BY <1>1, <1>2, CountsStay
<1>11. PacketsInv'
  BY <1>1, <1>2, <1>8 DEF PacketsInv
<1>12. PlacesInv'
  BY <1>1, <1>2, <1>5, <1>8 DEF PlacesInv, PutOut
<1>13. OnceInv'
  <2>1. \A i, j \in DOMAIN output' : output'[i].num = output'[j].num => i = j
    BY <1>5 DEF PutOut
  <2>2. QED
    BY <1>2, <1>8, <2>1 DEF OnceInv
<1>14. OrderInv'
  BY <1>5 DEF PutOut, OrderInv
<1>15. RangesInv'
  BY <1>7 DEF RangesInv
<1>16. QED
  BY <1>9, <1>10, <1>11, <1>12, <1>13, <1>14, <1>15 DEF RdpInv

-----------------------------------------------------------------------------
(* The theorems *)

LEMMA StutterInv ==
  ASSUME RdpInv, UNCHANGED rdp_vars
  PROVE  RdpInv'
<1>1. UNCHANGED <<sendQueue, orderingIndex, messageNumber, resendQueue, acks, nacks, data, feedback, faults>>
  BY DEF rdp_vars, sender, network
<1>2. UNCHANGED <<base, slots, ackQueue, nackQueue, receivedQueue, arrived>>
  BY DEF rdp_vars, reading
<1>3. UNCHANGED <<ackRanges, nackRanges, sequencedIndex, output>>
  BY DEF rdp_vars, writing
<1>4. RdpTypeOK /\ CountsInv /\ PacketsInv /\ PlacesInv /\ OnceInv /\ OrderInv /\ RangesInv
  BY DEF RdpInv
<1>5. RdpTypeOK'
  BY <1>1, <1>2, <1>3, <1>4 DEF RdpTypeOK
<1>6. CountsInv' /\ PacketsInv'
  BY <1>1, <1>2, <1>4, CountsStay, FewerPackets
<1>7. PlacesInv' /\ OnceInv' /\ OrderInv' /\ RangesInv'
  BY <1>2, <1>3, <1>4, PlacesStay, OnceStays, OrderStays, RangesStay
<1>8. QED
  BY <1>5, <1>6, <1>7 DEF RdpInv

LEMMA NextInv ==
  ASSUME RdpAssumption, RdpInv, [RdpNext]_rdp_vars
  PROVE  RdpInv'
<1>1. CASE SendPacket
  BY <1>1, SendPacketInv
<1>2. CASE WriteSome
  BY <1>2, WritePacketsInv DEF WriteSome
<1>3. CASE DeliverAnyData
  BY <1>3, DeliverDataInv DEF DeliverAnyData
<1>4. CASE DeliverAnyFeedback
  BY <1>4, DeliverFeedbackInv DEF DeliverAnyFeedback
<1>5. CASE Lose
  BY <1>5, LoseInv
<1>6. CASE Update_W
  BY <1>6, UpdateInv
<1>7. CASE WriteAcks
  BY <1>7, WriteAcksInv
<1>8. CASE UNCHANGED rdp_vars
  BY <1>8, StutterInv
<1>9. QED
  BY <1>1, <1>2, <1>3, <1>4, <1>5, <1>6, <1>7, <1>8 DEF RdpNext

LEMMA RdpInvAlways == RdpSafeSpec => []RdpInv
<1>1. RdpInit => RdpInv
  BY InitInv, RdpAssumption
<1>2. RdpInv /\ [RdpNext]_rdp_vars => RdpInv'
  BY NextInv, RdpAssumption
<1>3. QED
  BY <1>1, <1>2, PTL DEF RdpSafeSpec

\* A packet is handed out at most once however often it arrives, and those of a
\* sequenced kind only in the order in which they were posted, for any packets,
\* window and number of faults (rdp_receiver.cpp:158-231, 253-289).
THEOREM PacketsComeOnceInOrder == RdpSpec => []OnceInOrder
<1>1. RdpInv => OnceInOrder
  BY InvIsOnceInOrder
<1>2. QED
  BY <1>1, RdpInvAlways, PTL DEF RdpSpec

\* The ranges stay sorted and apart, and one more number in any order adds itself
\* only (rdp_rangelist.hpp:15-99).
THEOREM RangesAreExact == RdpSpec => []RangesExact
<1>1. RdpInv => RangesExact
  BY InvIsRangesExact, RdpAssumption
<1>2. QED
  BY <1>1, RdpInvAlways, PTL DEF RdpSpec

-----------------------------------------------------------------------------
USE QuarkAssumption

(* Blocks *)

LEMMA WholeBlocks ==
  ASSUME NEW a \in Nat, NEW b \in Nat, b > 0, a % b = 0
  PROVE  \E k \in 0 .. a : a = k * b
<1>1. a = b * (a \div b) + (a % b)
  OBVIOUS
<1>2. a \div b \in Nat
  OBVIOUS
<1>3. \A k \in Nat : b * k + 0 = k * b /\ k <= k * b
  OBVIOUS
<1>4. a = (a \div b) * b /\ a \div b <= a
  BY <1>1, <1>2, <1>3
<1> QED
  BY <1>4, <1>2

LEMMA BlocksAreWhole ==
  ASSUME NEW k \in Nat, NEW b \in Nat, b > 0
  PROVE  (k * b) % b = 0 /\ k * b + b = (k + 1) * b /\ k * b \in Nat
  OBVIOUS

\* What writing entry i of array k leaves as it is.
LEMMA EntryWritten ==
  ASSUME NEW A, NEW k \in DOMAIN A, NEW i \in DOMAIN A[k], NEW v, NEW W,
         W = [A EXCEPT ![k][i] = v]
  PROVE  /\ DOMAIN W = DOMAIN A
         /\ \A j \in DOMAIN A : DOMAIN W[j] = DOMAIN A[j]
         /\ W[k][i] = v
         /\ \A j \in DOMAIN A : \A q \in DOMAIN A[j] : j # k \/ q # i => W[j][q] = A[j][q]
  OBVIOUS

-----------------------------------------------------------------------------
(* The invariant *)

LEMMA InitExact == Init => QuarksExact
<1> SUFFICES ASSUME Init PROVE QuarksExact
  OBVIOUS
<1> USE DEF Init, Making, Reading
<1>1. TypeOK
  BY DEF TypeOK
<1>2. CallsKept
  BY DEF CallsKept, Silent
<1>3. ArrayFits /\ ReadersAgree
  BY DEF ArrayFits, ReadersAgree
<1>4. TablesAgree
  BY DEF TablesAgree
<1> QED
  BY <1>1, <1>2, <1>3, <1>4 DEF QuarksExact

LEMMA AskNumberExact ==
  ASSUME QuarksExact, NEW t \in Thread, AskNumber(t)
  PROVE  QuarksExact'
<1> USE DEF AskNumber, tables, At, Go, Making, Reading
<1>1. TypeOK'
  BY DEF QuarksExact, TypeOK
<1>2. CallsKept'
  BY DEF QuarksExact, TypeOK, CallsKept
<1>3. ArrayFits'
  BY DEF QuarksExact, TypeOK, ArrayFits
<1>4. ReadersAgree'
  BY DEF QuarksExact, TypeOK, ReadersAgree
<1>5. TablesAgree'
  BY DEF QuarksExact, TypeOK, TablesAgree
<1> QED
  BY <1>1, <1>2, <1>3, <1>4, <1>5 DEF QuarksExact

LEMMA FindExact ==
  ASSUME QuarksExact, NEW t \in Thread, Find(t)
  PROVE  QuarksExact'
<1> USE DEF Find, Answer, tables, At, Go, Making, Reading
<1>1. TypeOK'
  BY DEF QuarksExact, TypeOK
<1>2. CallsKept'
  <2>1. /\ pc[t] = "lock" /\ lock = None /\ UNCHANGED tables
        /\ \A u \in Thread : u # t => pc'[u] = pc[u] /\ call'[u] = call[u]
    BY DEF QuarksExact, TypeOK
  <2>2. \A u \in Thread : pc[u] \notin Making
    BY <2>1 DEF QuarksExact, CallsKept
  <2>3. CASE pc'[t] = "idle"
    <3>1. call'[t] = Silent /\ lock' = None
      BY <2>3 DEF QuarksExact, TypeOK
    <3> QED
      BY <2>1, <2>2, <2>3, <3>1 DEF QuarksExact, CallsKept
  <2>4. CASE pc'[t] # "idle"
    <3>1. /\ pc'[t] = "grow" /\ lock' = t /\ UNCHANGED call /\ call[t].make
          /\ (IF hashed THEN quark_ht[call[t].str] ELSE 0) = 0
      BY <2>4 DEF QuarksExact, TypeOK
    <3>2. PICK s \in String, make \in BOOLEAN, intern \in BOOLEAN :
            call[t] = AsksNumber(s, make, intern)
      BY <2>1 DEF QuarksExact, CallsKept
    <3>3. call[t].str = s /\ (call[t].make <=> make)
      BY <3>2 DEF AsksNumber
    <3>4. quark_ht[s] = 0
      <4>1. CASE hashed
        BY <3>1, <3>3, <4>1
      <4>2. CASE ~ hashed
        <5>1. quark_seq_id = 0 /\ quark_ht[s] \in Nat
          BY <4>2 DEF QuarksExact, ArrayFits, TypeOK
        <5> QED
          BY <2>2, <5>1 DEF QuarksExact, TablesAgree
      <4> QED
        BY <4>1, <4>2
    <3> HIDE DEF Find, Answer
    <3>5. \A u \in Thread : u # t =>
            /\ pc'[u] \notin Making /\ lock' # u /\ (pc'[u] = "idle" => call'[u] = Silent)
            /\ pc'[u] = "lock" => \E s1 \in String, make1 \in BOOLEAN, intern1 \in BOOLEAN :
                 call'[u] = AsksNumber(s1, make1, intern1)
            /\ pc'[u] \in Reading => \E q \in 1 .. quark_seq_id - 1 : call'[u] = AsksString(q)
      BY <2>1, <2>2, <3>1 DEF QuarksExact, CallsKept
    <3>6. call'[t] = AsksNumber(s, make, intern) /\ make /\ quark_ht'[call'[t].str] = 0
      BY <2>1, <3>1, <3>2, <3>3, <3>4
    <3>7. quark_seq_id' = quark_seq_id
      BY <2>1
    <3>8. \E s1 \in String, make1 \in BOOLEAN, intern1 \in BOOLEAN :
            call'[t] = AsksNumber(s1, make1, intern1) /\ (pc'[t] \in Making => make1)
      BY <3>6
    <3>9. ASSUME NEW u \in Thread
          PROVE  /\ pc'[u] \in Making <=> lock' = u
                 /\ pc'[u] = "idle" => call'[u] = Silent
                 /\ pc'[u] \in {"lock"} \cup Making =>
                      \E s1 \in String, make1 \in BOOLEAN, intern1 \in BOOLEAN :
                        call'[u] = AsksNumber(s1, make1, intern1) /\ (pc'[u] \in Making => make1)
                 /\ pc'[u] \in {"grow", "first", "store"} => quark_ht'[call'[u].str] = 0
                 /\ pc'[u] = "count" => /\ quark_ht'[call'[u].str] = quark_seq_id'
                                        /\ arrays'[quarks'][quark_seq_id'] = call'[u].str
                 /\ pc'[u] \in Reading =>
                      \E q \in 1 .. quark_seq_id' - 1 : call'[u] = AsksString(q)
      <4>1. CASE u = t
        BY <3>1, <3>6, <3>8, <4>1
      <4>2. CASE u # t
        BY <3>5, <3>1, <3>7, <4>2
      <4> QED
        BY <4>1, <4>2
    <3> QED
      BY <3>9 DEF CallsKept
  <2> QED
    BY <2>3, <2>4
<1>3. ArrayFits'
  BY DEF QuarksExact, TypeOK, ArrayFits
<1>4. ReadersAgree'
  BY DEF QuarksExact, TypeOK, ReadersAgree
<1>5. TablesAgree'
  <2>1. \A u \in Thread : pc[u] = "count" => pc'[u] = "count" /\ call'[u] = call[u]
    BY DEF QuarksExact, TypeOK
  <2> QED
    BY <2>1 DEF QuarksExact, TypeOK, TablesAgree
<1> QED
  BY <1>1, <1>2, <1>3, <1>4, <1>5 DEF QuarksExact

\* The thread with the lock is the only one that makes a quark.
LEMMA OnlyMaker ==
  ASSUME QuarksExact, NEW t \in Thread, pc[t] \in Making
  PROVE  /\ lock = t /\ call[t].str \in String
         /\ \A u \in Thread : u # t => pc[u] \notin Making
  BY DEF QuarksExact, TypeOK, CallsKept, AsksNumber

LEMMA FirstExact ==
  ASSUME QuarksExact, NEW t \in Thread, First(t)
  PROVE  QuarksExact'
<1> USE DEF First, At, Go
<1>0. /\ lock = t /\ call[t].str \in String
      /\ \A u \in Thread : u # t => pc[u] \notin Making
  BY OnlyMaker DEF Making
<1>h. quarks > 0 /\ quark_seq_id \in DOMAIN arrays[quarks]
  BY DEF QuarksExact, ArrayFits
<1> USE DEF Making, Reading
<1>t. TypeOK
  BY DEF QuarksExact
<1>1. CASE hashed
  <2>1. TypeOK' /\ ArrayFits'
    BY <1>0, <1>1, <1>h, <1>t DEF QuarksExact, TypeOK, ArrayFits
  <2>2. CallsKept'
    BY <1>0, <1>1, <1>t DEF QuarksExact, TypeOK, CallsKept
  <2>3. ReadersAgree' /\ TablesAgree'
    BY <1>0, <1>1, <1>t DEF QuarksExact, TypeOK, ReadersAgree, TablesAgree
  <2> QED
    BY <2>1, <2>2, <2>3 DEF QuarksExact
<1>2. CASE ~ hashed
  <2>0. quark_seq_id = 0 /\ quark_seq_id' = 1
    BY <1>2, <1>t DEF QuarksExact, ArrayFits, TypeOK
  <2>1. /\ DOMAIN arrays' = DOMAIN arrays
        /\ DOMAIN arrays'[quarks] = DOMAIN arrays[quarks]
    <3>1. quarks \in DOMAIN arrays
      BY <1>h, <1>t DEF TypeOK
    <3>2. arrays' = [arrays EXCEPT ![quarks][quark_seq_id] = None]
      BY <1>2
    <3> HIDE DEF First
    <3> QED
      BY <1>h, <3>1, <3>2, EntryWritten
  <2>2. TypeOK'
    BY <1>2, <1>t, <2>0, <2>1 DEF TypeOK
  <2>3. CallsKept'
    BY <1>0, <1>2, <1>t, <2>0 DEF QuarksExact, TypeOK, CallsKept
  <2>4. \A u \in Thread : pc[u] \notin Reading
    BY <2>0 DEF QuarksExact, CallsKept
  <2>5. ReadersAgree'
    BY <1>t, <2>4 DEF TypeOK, ReadersAgree
  <2>6. \A s \in String : quark_ht[s] = 0
    <3>1. \A u \in Thread : pc[u] # "count"
      BY <1>0
    <3>2. \A s \in String : quark_ht[s] \in Nat
      BY <1>t DEF TypeOK
    <3> HIDE DEF First
    <3> QED
      BY <2>0, <3>1, <3>2 DEF QuarksExact, TablesAgree
  <2>7. TablesAgree'
    BY <1>2, <2>0, <2>6 DEF TablesAgree
  <2>8. ArrayFits'
    <3>1. PICK n \in 1 .. 1 : DOMAIN arrays[quarks] = 0 .. n * QUARK_BLOCK_SIZE - 1
      BY <1>h, <1>t, <2>0 DEF QuarksExact, ArrayFits, TypeOK
    <3>2. DOMAIN arrays'[quarks'] = 0 .. 1 * QUARK_BLOCK_SIZE - 1
      BY <1>2, <2>1, <3>1
    <3> QED
      BY <1>0, <1>2, <1>h, <1>t, <2>0, <3>2 DEF ArrayFits, TypeOK
  <2> QED
    BY <2>2, <2>3, <2>5, <2>7, <2>8 DEF QuarksExact
<1> QED
  BY <1>1, <1>2, <1>t DEF TypeOK

LEMMA StoreExact ==
  ASSUME QuarksExact, NEW t \in Thread, Store(t)
  PROVE  QuarksExact'
<1> USE DEF Store, Hash, At, Go
<1>0. /\ lock = t /\ call[t].str \in String
      /\ \A u \in Thread : u # t => pc[u] \notin Making
  BY OnlyMaker DEF Making
<1>h. quarks > 0 /\ quark_seq_id \in DOMAIN arrays[quarks] /\ quark_seq_id > 0
  BY DEF QuarksExact, ArrayFits
<1> USE DEF Making, Reading
<1>t. TypeOK
  BY DEF QuarksExact
<1>w. /\ DOMAIN arrays' = DOMAIN arrays
      /\ \A j \in DOMAIN arrays : DOMAIN arrays'[j] = DOMAIN arrays[j]
      /\ arrays'[quarks][quark_seq_id] = call[t].str
      /\ \A j \in DOMAIN arrays : \A q \in DOMAIN arrays[j] :
           j # quarks \/ q # quark_seq_id => arrays'[j][q] = arrays[j][q]
  <2>1. quarks \in DOMAIN arrays
    BY <1>h, <1>t DEF TypeOK
  <2>2. arrays' = [arrays EXCEPT ![quarks][quark_seq_id] = call[t].str]
    OBVIOUS
  <2> HIDE DEF Store
  <2> QED
    BY <1>h, <2>1, <2>2, EntryWritten
<1>b. \A q \in 1 .. quark_seq_id - 1 : q \in DOMAIN arrays[quarks]
  BY <1>h, <1>t DEF QuarksExact, ArrayFits, TypeOK
<1>1. TypeOK'
  BY <1>0, <1>h, <1>t, <1>w DEF TypeOK
<1>2. CallsKept'
  BY <1>0, <1>h, <1>t, <1>w DEF QuarksExact, TypeOK, CallsKept
<1>3. ArrayFits'
  BY <1>0, <1>h, <1>t, <1>w DEF QuarksExact, TypeOK, ArrayFits
<1>4. ReadersAgree'
  <2>1. \A u \in Thread : pc'[u] \in Reading => /\ pc[u] = pc'[u] /\ call'[u] = call[u]
                                                /\ call[u].quark \in 1 .. quark_seq_id - 1
    BY <1>0, <1>t DEF QuarksExact, CallsKept, AsksString, TypeOK
  <2> QED
    BY <1>h, <1>t, <1>w, <1>b, <2>1 DEF QuarksExact, TypeOK, ReadersAgree
<1>5. TablesAgree'
  <2>1. \A q \in 1 .. quark_seq_id - 1 : arrays'[quarks][q] = arrays[quarks][q]
    BY <1>h, <1>t, <1>w, <1>b DEF TypeOK
  <2>2. quark_ht[call[t].str] = 0
    BY DEF QuarksExact, CallsKept
  <2>3. \A q \in 1 .. quark_seq_id - 1 : arrays[quarks][q] # call[t].str
    BY <2>2 DEF QuarksExact, TablesAgree
  <2>4. \A q \in 1 .. quark_seq_id' - 1 :
          arrays'[quarks'][q] \in String /\ quark_ht'[arrays'[quarks'][q]] = q
    BY <1>0, <1>t, <2>1, <2>3 DEF QuarksExact, TablesAgree, TypeOK
  <2>5. ASSUME NEW s \in String, quark_ht'[s] # 0, s # call[t].str
        PROVE  quark_ht'[s] < quark_seq_id' /\ arrays'[quarks'][quark_ht'[s]] = s
    <3>1. quark_ht[s] # 0 /\ quark_ht'[s] = quark_ht[s]
      BY <1>t, <2>5 DEF TypeOK
    <3>2. quark_ht[s] < quark_seq_id /\ arrays[quarks][quark_ht[s]] = s
      BY <1>0, <3>1 DEF QuarksExact, TablesAgree
    <3> QED
      BY <1>t, <2>1, <3>1, <3>2 DEF TypeOK
  <2>6. pc'[t] = "count" /\ call'[t] = call[t]
    BY <1>t DEF TypeOK
  <2> QED
    BY <2>4, <2>5, <2>6 DEF TablesAgree
<1> QED
  BY <1>1, <1>2, <1>3, <1>4, <1>5 DEF QuarksExact

LEMMA GrowExact ==
  ASSUME QuarksExact, NEW t \in Thread, Grow(t)
  PROVE  QuarksExact'
<1> USE DEF Grow, At, Go
<1>0. /\ lock = t /\ call[t].str \in String
      /\ \A u \in Thread : u # t => pc[u] \notin Making
  BY OnlyMaker DEF Making
<1> USE DEF Making, Reading
<1>t. TypeOK
  BY DEF QuarksExact
<1>n. quark_seq_id \in Nat /\ quarks \in Nat /\ DOMAIN arrays = 1 .. quarks
  BY <1>t DEF TypeOK
<1>u. quark_seq_id' = quark_seq_id /\ quark_ht' = quark_ht
  OBVIOUS
<1>b. quarks > 0 => \A q \in 0 .. quark_seq_id - 1 : q \in DOMAIN arrays[quarks]
  BY <1>t DEF QuarksExact, ArrayFits, TypeOK
<1>2. CallsKept'
  BY <1>0, <1>t DEF QuarksExact, TypeOK, CallsKept
<1>p. \A u \in Thread : u # t => pc'[u] = pc[u]
  BY <1>t DEF TypeOK
<1>5. CASE quark_seq_id % QUARK_BLOCK_SIZE = 0
  <2>0. /\ quarks' = quarks + 1
        /\ arrays' = [k \in 1 .. quarks + 1 |->
             IF k \in 1 .. quarks THEN arrays[k]
             ELSE [q \in 0 .. quark_seq_id + QUARK_BLOCK_SIZE - 1 |-> Copied(q)]]
    BY <1>5
  <2>1. TypeOK'
    BY <1>t, <2>0 DEF TypeOK
  <2>2. /\ DOMAIN arrays'[quarks'] = 0 .. quark_seq_id + QUARK_BLOCK_SIZE - 1
        /\ \A q \in 0 .. quark_seq_id - 1 : arrays'[quarks'][q] = arrays[quarks][q]
        /\ \A j \in 1 .. quarks : arrays'[j] = arrays[j]
    BY <1>t, <2>0 DEF TypeOK, Copied
  <2>3. ArrayFits'
    <3>0. QUARK_BLOCK_SIZE \in Nat /\ QUARK_BLOCK_SIZE > 0
      OBVIOUS
    <3>1. PICK k \in 0 .. quark_seq_id : quark_seq_id = k * QUARK_BLOCK_SIZE
      <4> HIDE DEF Grow
      <4> QED
        BY <1>5, <1>n, <3>0, WholeBlocks
    <3>2. quark_seq_id + QUARK_BLOCK_SIZE = (k + 1) * QUARK_BLOCK_SIZE
      BY <3>1, BlocksAreWhole
    <3>3. k + 1 \in 1 .. quark_seq_id + 1
      BY <1>t DEF TypeOK
    <3>4. \E n \in 1 .. quark_seq_id' + 1 :
            /\ DOMAIN arrays'[quarks'] = 0 .. n * QUARK_BLOCK_SIZE - 1
            /\ quark_seq_id' <= n * QUARK_BLOCK_SIZE
      <4>1. quark_seq_id <= (k + 1) * QUARK_BLOCK_SIZE
        BY <1>n, <3>0, <3>2
      <4>2. DOMAIN arrays'[quarks'] = 0 .. (k + 1) * QUARK_BLOCK_SIZE - 1
        <5> HIDE DEF Grow
        <5>1. quark_seq_id + QUARK_BLOCK_SIZE - 1 = (k + 1) * QUARK_BLOCK_SIZE - 1
          BY <1>n, <3>0, <3>2, BlocksAreWhole
        <5> QED
          BY <2>2, <5>1
      <4>3. k + 1 \in 1 .. quark_seq_id' + 1
        BY <1>u, <3>3
      <4> HIDE DEF Grow
      <4> QED
        BY <1>u, <4>1, <4>2, <4>3
    <3>5. quarks' > 0 /\ quark_seq_id' \in DOMAIN arrays'[quarks']
      BY <1>t, <2>0, <2>2 DEF TypeOK
    <3>6. /\ hashed' <=> quark_seq_id' > 0
          /\ \A u \in Thread : pc'[u] \notin {"store", "count"}
      <4>1. pc'[t] = "first" /\ UNCHANGED hashed
        BY <1>t DEF TypeOK
      <4> HIDE DEF Grow
      <4> QED
        BY <1>0, <1>p, <1>u, <4>1 DEF QuarksExact, ArrayFits
    <3>7. quarks' \in Nat
      BY <1>n, <2>0
    <3> HIDE DEF Grow
    <3> QED
      BY <3>4, <3>5, <3>6, <3>7 DEF ArrayFits
  <2>4. ReadersAgree'
    <3>1. \A u \in Thread : pc'[u] \in Reading => /\ pc[u] = pc'[u] /\ call'[u] = call[u]
                                                  /\ call[u].quark \in 1 .. quark_seq_id - 1
      BY <1>t DEF QuarksExact, CallsKept, AsksString, TypeOK
    <3>2. ASSUME NEW u \in Thread, pc'[u] \in {"seq_id", "entry"}
          PROVE  /\ strings'[u] \in 1 .. quarks'
                 /\ call'[u].quark \in DOMAIN arrays'[strings'[u]]
                 /\ arrays'[strings'[u]][call'[u].quark] = arrays'[quarks'][call'[u].quark]
      <4>1. /\ strings[u] \in 1 .. quarks /\ call[u].quark \in DOMAIN arrays[strings[u]]
            /\ arrays[strings[u]][call[u].quark] = arrays[quarks][call[u].quark]
        BY <3>1, <3>2 DEF QuarksExact, ReadersAgree
      <4>2. strings'[u] = strings[u] /\ call'[u] = call[u]
        OBVIOUS
      <4>3. arrays'[strings[u]] = arrays[strings[u]] /\ strings[u] \in 1 .. quarks'
        BY <1>n, <2>0, <2>2, <4>1
      <4>4. arrays'[quarks'][call[u].quark] = arrays[quarks][call[u].quark]
        <5> HIDE DEF Grow
        <5>1. call[u].quark \in 0 .. quark_seq_id - 1
          BY <1>n, <3>1, <3>2
        <5> QED
          BY <2>2, <5>1
      <4> QED
        BY <4>1, <4>2, <4>3, <4>4
    <3>3. \A u \in Thread : pc'[u] = "entry" => call'[u].quark < seq_id'[u]
      BY <3>1 DEF QuarksExact, ReadersAgree
    <3> QED
      BY <3>2, <3>3 DEF ReadersAgree
  <2>5. TablesAgree'
    <3>1. \A q \in 1 .. quark_seq_id' - 1 :
            arrays'[quarks'][q] \in String /\ quark_ht'[arrays'[quarks'][q]] = q
      <4> HIDE DEF Grow
      <4>1. ASSUME NEW q \in 1 .. quark_seq_id - 1
            PROVE  arrays'[quarks'][q] = arrays[quarks][q]
        <5>1. q \in 0 .. quark_seq_id - 1
          BY <1>n, <4>1
        <5> QED
          BY <2>2, <5>1
      <4>2. \A q \in 1 .. quark_seq_id - 1 :
              arrays[quarks][q] \in String /\ quark_ht[arrays[quarks][q]] = q
        BY DEF QuarksExact, TablesAgree
      <4> QED
        BY <1>u, <4>1, <4>2
    <3>2. ASSUME NEW s \in String, quark_ht'[s] # 0
          PROVE  quark_ht'[s] < quark_seq_id' /\ arrays'[quarks'][quark_ht'[s]] = s
      <4>1. quark_ht[s] < quark_seq_id /\ arrays[quarks][quark_ht[s]] = s
        BY <1>0, <3>2 DEF QuarksExact, TablesAgree
      <4>2. quark_ht[s] \in 1 .. quark_seq_id - 1
        BY <1>t, <1>u, <3>2, <4>1 DEF TypeOK
      <4>3. quark_ht[s] \in 0 .. quark_seq_id - 1
        BY <1>n, <4>2
      <4> HIDE DEF Grow
      <4> QED
        BY <1>u, <2>2, <4>1, <4>3
    <3> QED
      BY <3>1, <3>2 DEF TablesAgree
  <2> QED
    BY <1>2, <2>1, <2>3, <2>4, <2>5 DEF QuarksExact
<1>6. CASE quark_seq_id % QUARK_BLOCK_SIZE # 0
  <2>0. UNCHANGED <<arrays, quarks>>
    BY <1>6
  <2>1. TypeOK'
    BY <1>t, <2>0 DEF TypeOK
  <2>2. quarks > 0 /\ quark_seq_id \in DOMAIN arrays[quarks]
    <3>1. quark_seq_id # 0
      <4>1. (0 * QUARK_BLOCK_SIZE) % QUARK_BLOCK_SIZE = 0 /\ 0 * QUARK_BLOCK_SIZE = 0
        BY BlocksAreWhole
      <4> QED
        BY <1>6, <4>1
    <3>2. PICK n \in 1 .. quark_seq_id + 1 :
            /\ DOMAIN arrays[quarks] = 0 .. n * QUARK_BLOCK_SIZE - 1
            /\ quark_seq_id <= n * QUARK_BLOCK_SIZE
      BY <1>t, <3>1 DEF QuarksExact, ArrayFits, TypeOK
    <3>3. n * QUARK_BLOCK_SIZE \in Nat /\ (n * QUARK_BLOCK_SIZE) % QUARK_BLOCK_SIZE = 0
      <4>1. n \in Nat /\ QUARK_BLOCK_SIZE \in Nat /\ QUARK_BLOCK_SIZE > 0
        BY <1>n
      <4> HIDE DEF Grow
      <4> QED
        BY <4>1, BlocksAreWhole
    <3>4. quark_seq_id < n * QUARK_BLOCK_SIZE
      BY <1>6, <1>t, <3>2, <3>3 DEF TypeOK
    <3> QED
      BY <1>t, <3>1, <3>2, <3>3, <3>4 DEF QuarksExact, ArrayFits, TypeOK
  <2>3. ArrayFits'
    BY <1>0, <1>p, <1>t, <2>0, <2>2 DEF QuarksExact, ArrayFits, TypeOK
  <2>4. ReadersAgree' /\ TablesAgree'
    BY <1>0, <1>p, <1>t, <2>0 DEF QuarksExact, TypeOK, ReadersAgree, TablesAgree
  <2> QED
    BY <1>2, <2>1, <2>3, <2>4 DEF QuarksExact
<1> QED
  BY <1>5, <1>6

LEMMA CountExact ==
  ASSUME QuarksExact, NEW t \in Thread, Count(t)
  PROVE  QuarksExact'
<1> USE DEF Count, Answer, At, Go
<1>0. /\ lock = t /\ call[t].str \in String
      /\ \A u \in Thread : u # t => pc[u] \notin Making
  BY OnlyMaker DEF Making
<1>h. /\ quarks > 0 /\ quark_seq_id \in DOMAIN arrays[quarks] /\ quark_seq_id > 0
      /\ quark_ht[call[t].str] = quark_seq_id /\ arrays[quarks][quark_seq_id] = call[t].str
  BY DEF QuarksExact, ArrayFits, CallsKept
<1> USE DEF Making, Reading
<1>t. TypeOK
  BY DEF QuarksExact
<1>1. TypeOK'
  BY <1>t DEF TypeOK
<1>2. CallsKept'
  BY <1>0, <1>h, <1>t DEF QuarksExact, TypeOK, CallsKept
<1>3. ArrayFits'
  <2>1. PICK n \in 1 .. quark_seq_id + 1 :
          /\ DOMAIN arrays[quarks] = 0 .. n * QUARK_BLOCK_SIZE - 1
          /\ quark_seq_id <= n * QUARK_BLOCK_SIZE
    BY <1>h DEF QuarksExact, ArrayFits
  <2>2. n * QUARK_BLOCK_SIZE \in Nat
    BY <1>t, BlocksAreWhole DEF TypeOK
  <2>3. quark_seq_id + 1 <= n * QUARK_BLOCK_SIZE
    BY <1>h, <1>t, <2>1, <2>2 DEF TypeOK
  <2> QED
    BY <1>0, <1>h, <1>t, <2>1, <2>3 DEF QuarksExact, ArrayFits, TypeOK
<1>4. ReadersAgree'
  BY <1>t DEF QuarksExact, TypeOK, ReadersAgree
<1>5. TablesAgree'
  BY <1>0, <1>h, <1>t DEF QuarksExact, TypeOK, TablesAgree
<1> QED
  BY <1>1, <1>2, <1>3, <1>4, <1>5 DEF QuarksExact

LEMMA AskStringExact ==
  ASSUME QuarksExact, NEW t \in Thread, AskString(t)
  PROVE  QuarksExact'
<1> USE DEF AskString, tables, At, Go, Making, Reading
<1>1. TypeOK' /\ ArrayFits'
  BY DEF QuarksExact, TypeOK, ArrayFits
<1>2. CallsKept'
  BY DEF QuarksExact, TypeOK, CallsKept
<1>3. ReadersAgree' /\ TablesAgree'
  BY DEF QuarksExact, TypeOK, ReadersAgree, TablesAgree
<1> QED
  BY <1>1, <1>2, <1>3 DEF QuarksExact

LEMMA ReadArrayExact ==
  ASSUME QuarksExact, NEW t \in Thread, ReadArray(t)
  PROVE  QuarksExact'
<1> USE DEF ReadArray, tables, At, Go, Making, Reading
<1>1. TypeOK' /\ ArrayFits'
  BY DEF QuarksExact, TypeOK, ArrayFits
<1>2. CallsKept'
  BY DEF QuarksExact, TypeOK, CallsKept
<1>3. TablesAgree'
  BY DEF QuarksExact, TypeOK, TablesAgree
<1>4. ReadersAgree'
  <2>1. quarks \in 1 .. quarks /\ call[t].quark \in DOMAIN arrays[quarks]
    <3>1. PICK q \in 1 .. quark_seq_id - 1 : call[t] = AsksString(q)
      BY DEF QuarksExact, CallsKept
    <3>2. q \in DOMAIN arrays[quarks] /\ quarks > 0
      BY DEF QuarksExact, ArrayFits, TypeOK
    <3> QED
      BY <3>1, <3>2 DEF QuarksExact, TypeOK, AsksString
  <2> QED
    BY <2>1 DEF QuarksExact, TypeOK, ReadersAgree
<1> QED
  BY <1>1, <1>2, <1>3, <1>4 DEF QuarksExact

LEMMA ReadCountExact ==
  ASSUME QuarksExact, NEW t \in Thread, ReadCount(t)
  PROVE  QuarksExact'
<1> USE DEF ReadCount, tables, At, Go, Making, Reading
<1>1. TypeOK' /\ ArrayFits'
  BY DEF QuarksExact, TypeOK, ArrayFits
<1>2. CallsKept'
  BY DEF QuarksExact, TypeOK, CallsKept
<1>3. TablesAgree'
  BY DEF QuarksExact, TypeOK, TablesAgree
<1>4. ReadersAgree'
  <2>1. call[t].quark < quark_seq_id
    BY DEF QuarksExact, CallsKept, AsksString, TypeOK
  <2> QED
    BY <2>1 DEF QuarksExact, TypeOK, ReadersAgree
<1> QED
  BY <1>1, <1>2, <1>3, <1>4 DEF QuarksExact

LEMMA ReadEntryExact ==
  ASSUME QuarksExact, NEW t \in Thread, ReadEntry(t)
  PROVE  QuarksExact'
<1> USE DEF ReadEntry, Answer, tables, At, Go, Making, Reading
<1>1. TypeOK' /\ ArrayFits'
  BY DEF QuarksExact, TypeOK, ArrayFits
<1>2. CallsKept'
  BY DEF QuarksExact, TypeOK, CallsKept
<1>3. ReadersAgree' /\ TablesAgree'
  BY DEF QuarksExact, TypeOK, ReadersAgree, TablesAgree
<1> QED
  BY <1>1, <1>2, <1>3 DEF QuarksExact

LEMMA StepExact == QuarksExact /\ [Next]_vars => QuarksExact'
<1> SUFFICES ASSUME QuarksExact, [Next]_vars PROVE QuarksExact'
  OBVIOUS
<1>1. ASSUME NEW t \in Thread, Step(t) PROVE QuarksExact'
  BY <1>1, AskNumberExact, FindExact, GrowExact, FirstExact, StoreExact, CountExact,
     AskStringExact, ReadArrayExact, ReadCountExact, ReadEntryExact DEF Step
<1>2. CASE UNCHANGED vars
  BY <1>2 DEF vars, tables, QuarksExact, TypeOK, CallsKept, ArrayFits, ReadersAgree, TablesAgree
<1> QED
  BY <1>1, <1>2 DEF Next

\* The table, the array and the readers without a lock agree, for any number
\* of threads and strings and any size of the blocks.
THEOREM Exact == Spec => []QuarksExact
  BY InitExact, StepExact, PTL DEF Spec

-----------------------------------------------------------------------------
(* The promise *)

LEMMA NamesEmpty ==
  ASSUME quark_seq_id \in {0, 1}
  PROVE  names = << >>
  BY DEF names

LEMMA NamesAre ==
  ASSUME QuarksExact, quark_seq_id > 0
  PROVE  /\ names \in Seq(String) /\ Len(names) = quark_seq_id - 1
         /\ \A q \in 1 .. quark_seq_id - 1 : names[q] = arrays[quarks][q]
<1>1. quark_seq_id - 1 \in Nat
  BY DEF QuarksExact, TypeOK
<1>2. names \in [1 .. quark_seq_id - 1 -> String]
  BY DEF QuarksExact, TablesAgree, names
<1>3. names \in Seq(String)
  BY <1>1, <1>2, SeqDef
<1>4. Len(names) = quark_seq_id - 1
  BY <1>1, <1>2, <1>3, LenProperties
<1> QED
  BY <1>3, <1>4 DEF names

\* While the thread with the lock grows the array, makes the table and stores
\* the string, the names stay as they are.
LEMMA NamesStay ==
  ASSUME QuarksExact, NEW t \in Thread, Grow(t) \/ First(t) \/ Store(t)
  PROVE  UNCHANGED <<names, call, result>>
<1>t. TypeOK
  BY DEF QuarksExact
<1>1. CASE Grow(t)
  <2>1. ASSUME NEW q \in 1 .. quark_seq_id - 1
        PROVE  arrays'[quarks'][q] = arrays[quarks][q]
    <3>1. CASE UNCHANGED <<arrays, quarks>>
      BY <3>1
    <3>2. CASE /\ quarks' = quarks + 1
               /\ arrays' = [k \in 1 .. quarks + 1 |->
                    IF k \in 1 .. quarks THEN arrays[k]
                    ELSE [i \in 0 .. quark_seq_id + QUARK_BLOCK_SIZE - 1 |-> Copied(i)]]
      <4>1. /\ quarks + 1 \in 1 .. quarks + 1 /\ quarks + 1 \notin 1 .. quarks
            /\ q \in 0 .. quark_seq_id + QUARK_BLOCK_SIZE - 1 /\ q < quark_seq_id
        BY <1>t DEF TypeOK
      <4> QED
        BY <3>2, <4>1 DEF Copied
    <3> QED
      BY <1>1, <3>1, <3>2 DEF Grow
  <2> QED
    BY <1>1, <2>1 DEF Grow, names
<1>2. CASE First(t)
  <2>1. CASE hashed
    BY <1>2, <2>1 DEF First, names
  <2>2. CASE ~ hashed
    <3>1. quark_seq_id = 0 /\ quark_seq_id' = 1
      BY <1>2, <1>t, <2>2 DEF First, TypeOK, QuarksExact, ArrayFits
    <3>2. names' = names
      BY <3>1 DEF names
    <3> QED
      BY <1>2, <3>2 DEF First
  <2> QED
    BY <1>t, <2>1, <2>2 DEF TypeOK
<1>3. CASE Store(t)
  <2>1. quarks \in DOMAIN arrays /\ quark_seq_id \in DOMAIN arrays[quarks]
    BY <1>3, <1>t DEF Store, At, QuarksExact, ArrayFits, TypeOK
  <2>2. \A q \in 1 .. quark_seq_id - 1 : q \in DOMAIN arrays[quarks]
    BY <1>t, <2>1 DEF QuarksExact, ArrayFits, TypeOK
  <2>3. \A q \in 1 .. quark_seq_id - 1 : arrays'[quarks'][q] = arrays[quarks][q]
    <3>1. arrays' = [arrays EXCEPT ![quarks][quark_seq_id] = call[t].str] /\ quarks' = quarks
      BY <1>3 DEF Store
    <3>2. quark_seq_id \notin 1 .. quark_seq_id - 1
      BY <1>t DEF TypeOK
    <3> QED
      BY <2>1, <2>2, <3>1, <3>2, EntryWritten
  <2> QED
    BY <1>3, <2>3 DEF Store, names
<1> QED
  BY <1>1, <1>2, <1>3

LEMMA AsksMap ==
  ASSUME QuarksExact, NEW t \in Thread, AskNumber(t) \/ AskString(t)
  PROVE  Interned!Ask(t)
<1>1. call[t] = Interned!Silent
  BY DEF QuarksExact, CallsKept, AskNumber, AskString, At, Silent, Interned!Silent
<1>2. names' = names
  BY DEF AskNumber, AskString, tables, names
<1>3. CASE AskNumber(t)
  <2>1. PICK s \in String, make \in BOOLEAN, intern \in BOOLEAN :
          call' = [call EXCEPT ![t] = AsksNumber(s, make, intern)]
    BY <1>3 DEF AskNumber
  <2>2. AsksNumber(s, make, intern) \in Interned!Calls(Len(names))
    <3>1. AsksNumber(s, make, intern) = Interned!AsksNumber(s, make, intern)
      BY DEF AsksNumber, Interned!AsksNumber
    <3> QED
      BY <3>1, SMTT(30) DEF Interned!Calls
  <2> QED
    BY <1>1, <1>2, <1>3, <2>1, <2>2 DEF AskNumber, Interned!Ask
<1>4. CASE AskString(t)
  <2>1. PICK q \in 1 .. quark_seq_id - 1 : call' = [call EXCEPT ![t] = AsksString(q)]
    BY <1>4 DEF AskString
  <2>2. q \in 1 .. Len(names)
    BY <2>1, NamesAre DEF QuarksExact, TypeOK
  <2>3. AsksString(q) \in Interned!Calls(Len(names))
    BY <2>2 DEF AsksString, Interned!Calls, Interned!AsksString
  <2> QED
    BY <1>1, <1>2, <1>4, <2>1, <2>3 DEF AskString, Interned!Ask
<1> QED
  BY <1>3, <1>4

LEMMA FindMaps ==
  ASSUME QuarksExact, NEW t \in Thread, Find(t)
  PROVE  Interned!Old(t) \/ Interned!Not(t) \/ UNCHANGED <<names, call, result>>
<1> DEFINE q == IF hashed THEN quark_ht[call[t].str] ELSE 0
<1>0. names' = names
  BY DEF Find, tables, names
<1>t. TypeOK
  BY DEF QuarksExact
<1>c. /\ call[t].op = "number" /\ call[t].str \in String
      /\ \A u \in Thread : pc[u] # "count"
  BY <1>t DEF QuarksExact, CallsKept, Find, At, AsksNumber, Making, TypeOK
<1>1. CASE q # 0
  <2>1. /\ hashed /\ q \in 1 .. quark_seq_id - 1 /\ arrays[quarks][q] = call[t].str
    BY <1>1, <1>c, <1>t DEF QuarksExact, TablesAgree, TypeOK
  <2>2. q \in 1 .. Len(names) /\ names[q] = arrays[quarks][q]
    BY <1>t, <2>1, NamesAre DEF TypeOK
  <2>3. /\ call' = [call EXCEPT ![t] = Silent]
        /\ result' = [result EXCEPT ![t] = IF call[t].intern THEN arrays[quarks][q] ELSE q]
    BY <1>1 DEF Find, Answer
  <2> HIDE DEF q
  <2> QED
    BY <1>0, <1>c, <2>1, <2>2, <2>3 DEF Interned!Old, Interned!Answer, Silent, Interned!Silent
<1>2. CASE q = 0 /\ ~ call[t].make
  <2>1. \A i \in 1 .. Len(names) : names[i] # call[t].str
    <3>1. CASE quark_seq_id > 0
      <4>1. quark_ht[call[t].str] = 0
        BY <1>2, <3>1 DEF QuarksExact, ArrayFits
      <4>2. ASSUME NEW i \in 1 .. Len(names)
            PROVE  names[i] # call[t].str
        <5>1. i \in 1 .. quark_seq_id - 1 /\ names[i] = arrays[quarks][i] /\ i # 0
          BY <1>t, <3>1, NamesAre DEF TypeOK
        <5>2. quark_ht[arrays[quarks][i]] = i
          BY <5>1 DEF QuarksExact, TablesAgree
        <5> QED
          BY <4>1, <5>1, <5>2
      <4> QED
        BY <4>2
    <3>2. CASE quark_seq_id = 0
      BY <3>2, NamesEmpty
    <3> QED
      BY <1>t, <3>1, <3>2 DEF TypeOK
  <2>2. /\ call' = [call EXCEPT ![t] = Silent]
        /\ result' = [result EXCEPT ![t] = IF call[t].intern THEN None ELSE 0]
    BY <1>2 DEF Find, Answer
  <2> QED
    BY <1>0, <1>2, <1>c, <2>1, <2>2
    DEF Interned!Not, Interned!Unknown, Interned!Answer, Silent, Interned!Silent
<1>3. CASE q = 0 /\ call[t].make
  BY <1>0, <1>3 DEF Find
<1> QED
  BY <1>1, <1>2, <1>3

LEMMA CountMaps ==
  ASSUME QuarksExact, NEW t \in Thread, Count(t)
  PROVE  Interned!New(t)
<1>t. TypeOK
  BY DEF QuarksExact
<1>c. call[t].op = "number" /\ call[t].str \in String /\ call[t].make
  <2>1. PICK s \in String, make \in BOOLEAN, intern \in BOOLEAN :
          call[t] = AsksNumber(s, make, intern) /\ make
    <3>1. pc[t] = "count" /\ pc[t] \in Making
      BY DEF Count, At, Making
    <3> QED
      BY <3>1, Zenon DEF QuarksExact, CallsKept
  <2>2. call[t].op = "number" /\ call[t].str = s
    BY <2>1 DEF AsksNumber
  <2>3. call[t].make
    <3>1. call[t] = AsksNumber(s, TRUE, intern)
      BY <2>1, Zenon
    <3>2. call[t].make = TRUE
      BY <3>1 DEF AsksNumber
    <3> QED
      BY <3>2, Zenon
  <2> QED
    BY <2>1, <2>2, <2>3
<1>h. /\ quark_seq_id > 0 /\ quark_ht[call[t].str] = quark_seq_id
      /\ arrays[quarks][quark_seq_id] = call[t].str
      /\ call[t].op = "number" /\ call[t].str \in String /\ call[t].make
  BY <1>c DEF QuarksExact, ArrayFits, CallsKept, Count, At
<1>n. /\ names \in Seq(String) /\ Len(names) = quark_seq_id - 1
      /\ \A q \in 1 .. quark_seq_id - 1 : names[q] = arrays[quarks][q]
  BY <1>h, NamesAre
<1>1. Interned!Unknown(t)
  <2>1. ASSUME NEW q \in 1 .. quark_seq_id - 1
        PROVE  names[q] # call[t].str
    <3>1. quark_ht[names[q]] = q /\ q # quark_seq_id
      <4>1. names[q] = arrays[quarks][q]
        BY <1>n
      <4>2. quark_ht[arrays[quarks][q]] = q
        BY DEF QuarksExact, TablesAgree
      <4>3. q # quark_seq_id
        BY <1>t DEF TypeOK
      <4> QED
        BY <4>1, <4>2, <4>3
    <3> QED
      BY <1>h, <3>1
  <2> QED
    BY <1>n, <2>1 DEF Interned!Unknown
<1>2. names' = Append(names, call[t].str)
  <2>1. /\ quark_seq_id' - 1 = quark_seq_id /\ quark_seq_id \in Nat
        /\ arrays' = arrays /\ quarks' = quarks
    BY <1>t DEF Count, TypeOK
  <2>2. names' = [q \in 1 .. quark_seq_id |-> arrays[quarks][q]]
    BY <2>1 DEF names
  <2>3. Append(names, call[t].str) =
          [q \in 1 .. quark_seq_id |-> IF q = quark_seq_id THEN call[t].str ELSE names[q]]
    BY <1>h, <1>n, <2>1, AppendProperties
  <2> QED
    BY <1>h, <1>n, <2>1, <2>2, <2>3
<1>3. /\ call' = [call EXCEPT ![t] = Silent]
      /\ result' = [result EXCEPT ![t] = IF call[t].intern THEN call[t].str ELSE Len(names) + 1]
  <2>1. Len(names) + 1 = quark_seq_id
    BY <1>n, <1>t DEF TypeOK
  <2> QED
    BY <1>h, <2>1 DEF Count, Answer
<1> QED
  BY <1>h, <1>1, <1>2, <1>3 DEF Interned!New, Interned!Answer, Silent, Interned!Silent

LEMMA ReadEntryMaps ==
  ASSUME QuarksExact, NEW t \in Thread, ReadEntry(t)
  PROVE  Interned!Tell(t)
<1>1. PICK q \in 1 .. quark_seq_id - 1 : call[t] = AsksString(q)
  BY DEF QuarksExact, CallsKept, ReadEntry, At, Reading
<1>2. call[t].op = "string" /\ call[t].quark = q
  BY <1>1 DEF AsksString
<1>3. arrays[strings[t]][q] = arrays[quarks][q] /\ q < seq_id[t]
  BY <1>2 DEF QuarksExact, ReadersAgree, ReadEntry, At
<1>4. names[q] = arrays[quarks][q] /\ names' = names
  BY <1>1 DEF names, ReadEntry, tables
<1> QED
  BY <1>2, <1>3, <1>4
  DEF ReadEntry, Answer, Interned!Tell, Interned!Answer, Silent, Interned!Silent

LEMMA StepImplements ==
  QuarksExact /\ [Next]_vars => [Interned!Next]_(Interned!vars)
<1> SUFFICES ASSUME QuarksExact, [Next]_vars
             PROVE  Interned!Next \/ UNCHANGED Interned!vars
  OBVIOUS
<1>1. ASSUME NEW t \in Thread, ReadArray(t) \/ ReadCount(t)
      PROVE  UNCHANGED <<names, call, result>>
  BY <1>1 DEF ReadArray, ReadCount, tables, names
<1>2. ASSUME NEW t \in Thread, Step(t)
      PROVE  Interned!Next \/ UNCHANGED Interned!vars
  BY <1>1, <1>2, NamesStay, AsksMap, FindMaps, CountMaps, ReadEntryMaps
  DEF Step, Interned!Next, Interned!vars
<1>3. CASE UNCHANGED vars
  BY <1>3 DEF vars, tables, names, Interned!vars
<1> QED
  BY <1>2, <1>3 DEF Next

\* Quarks implement Intern: numbers and strings are those of one sequence,
\* which whoever looks without the lock sees as those do who hold it.
THEOREM QuarkImplementsIntern == Spec => Implements
<1>1. Init => Interned!Init
  BY NamesEmpty DEF Init, Interned!Init, Silent, Interned!Silent
<1> QED
  BY <1>1, InitExact, StepExact, StepImplements, PTL DEF Spec, Implements, Interned!Spec
=============================================================================
