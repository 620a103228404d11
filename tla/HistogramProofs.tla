-------------------------- MODULE HistogramProofs --------------------------
(***************************************************************************)
(* Theorems about the latency histogram, for every size of the ring and    *)
(* every sequence of samples.                                              *)
(***************************************************************************)
EXTENDS HistogramProperties, DataLemmas, FunctionTheorems

-----------------------------------------------------------------------------
(* The same samples in another order *)

\* t is s in another order.
Shuffled(s, t) ==
  \E f \in Bijection(DOMAIN s, DOMAIN t) : \A i \in DOMAIN s : s[i] = t[f[i]]

\* How many elements of s are in V.
CountIn(s, V) == Cardinality({i \in DOMAIN s : s[i] \in V})

\* There are n numbers from 1 to n.
LEMMA UpTo ==
  ASSUME NEW n \in Nat
  PROVE  IsFiniteSet(1 .. n) /\ Cardinality(1 .. n) = n
BY FS_Interval

\* The order does not matter to what is in a sequence, and how often.
LEMMA ShuffledAlike ==
  ASSUME NEW s \in Seq(Nat), NEW t \in Seq(Nat), Shuffled(s, t)
  PROVE  /\ Len(s) = Len(t) /\ Range(s) = Range(t)
         /\ \A V : CountIn(s, V) = CountIn(t, V)
<1>1. PICK f \in Bijection(DOMAIN s, DOMAIN t) : \A i \in DOMAIN s : s[i] = t[f[i]]
  BY DEF Shuffled
<1>2. /\ f \in [DOMAIN s -> DOMAIN t]
      /\ \A i, j \in DOMAIN s : f[i] = f[j] => i = j
      /\ \A j \in DOMAIN t : \E i \in DOMAIN s : f[i] = j
  BY <1>1 DEF Bijection, Injection, Surjection, IsInjective
<1>3. /\ DOMAIN s = 1 .. Len(s) /\ DOMAIN t = 1 .. Len(t)
      /\ Len(s) \in Nat /\ Len(t) \in Nat
  OBVIOUS
<1>4. ASSUME NEW V PROVE CountIn(s, V) = CountIn(t, V)
  <2> DEFINE A == {i \in DOMAIN s : s[i] \in V}
             B == {j \in DOMAIN t : t[j] \in V}
             g == [i \in A |-> f[i]]
  <2>1. g \in [A -> B]
    BY <1>1, <1>2
  <2>2. \A i, j \in A : g[i] = g[j] => i = j
    BY <1>2
  <2>3. \A j \in B : \E i \in A : g[i] = j
    <3> SUFFICES ASSUME NEW j \in B PROVE \E i \in A : g[i] = j
      OBVIOUS
    <3>1. PICK i \in DOMAIN s : f[i] = j
      BY <1>2
    <3>2. i \in A
      BY <1>1, <3>1
    <3> QED
      BY <3>1, <3>2
  <2>4. IsFiniteSet(A)
    <3>1. A \in SUBSET (1 .. Len(s)) /\ IsFiniteSet(1 .. Len(s))
      BY <1>3, FS_Interval
    <3> HIDE DEF A
    <3> QED
      BY <3>1, FS_Subset
  <2> HIDE DEF A, B, g
  <2>5. g \in Bijection(A, B)
    BY <2>1, <2>2, <2>3 DEF Bijection, Injection, Surjection, IsInjective
  <2>6. Cardinality(A) = Cardinality(B)
    BY <2>4, <2>5, FS_Bijection DEF ExistsBijection
  <2> QED
    BY <2>6 DEF CountIn, A, B
<1>5. Len(s) = Len(t)
  <2>1. CountIn(s, Nat) = Len(s)
    <3>1. {i \in DOMAIN s : s[i] \in Nat} = 1 .. Len(s)
      BY <1>3
    <3> QED
      BY <1>3, <3>1, UpTo DEF CountIn
  <2>2. CountIn(t, Nat) = Len(t)
    <3>1. {i \in DOMAIN t : t[i] \in Nat} = 1 .. Len(t)
      BY <1>3
    <3> QED
      BY <1>3, <3>1, UpTo DEF CountIn
  <2> QED
    BY <1>4, <2>1, <2>2
<1>6. Range(s) = Range(t)
  BY <1>1, <1>2 DEF Range
<1> QED
  BY <1>4, <1>5, <1>6

\* Occurrences and AtMost count elements.
LEMMA CountsAre ==
  ASSUME NEW s \in Seq(Nat), NEW x \in Nat
  PROVE  /\ Occurrences(s, x) = CountIn(s, {x})
         /\ AtMost(s, x) = CountIn(s, {y \in Nat : y <= x})
<1>1. \A i \in DOMAIN s : s[i] \in Nat
  OBVIOUS
<1>2. {i \in DOMAIN s : s[i] = x} = {i \in DOMAIN s : s[i] \in {x}}
  OBVIOUS
<1>3. {i \in DOMAIN s : s[i] <= x} = {i \in DOMAIN s : s[i] \in {y \in Nat : y <= x}}
  BY <1>1
<1> QED
  BY <1>2, <1>3 DEF Occurrences, AtMost, CountIn

\* So percentiles do not depend on the order.
LEMMA ShuffledPercentiles ==
  ASSUME NEW s \in Seq(Nat), NEW t \in Seq(Nat), Shuffled(s, t), NEW p
  PROVE  Percentile(s, p) = Percentile(t, p)
<1>1. /\ Len(s) = Len(t) /\ Range(s) = Range(t)
      /\ \A V : CountIn(s, V) = CountIn(t, V)
  BY ShuffledAlike
<1>2. Range(s) \subseteq Nat
  BY DEF Range
<1>3. \A x \in Range(s) : AtMost(s, x) = AtMost(t, x)
  BY <1>1, <1>2, CountsAre
<1>4. {x \in Range(s) : 100 * AtMost(s, x) >= p * Len(s)}
        = {x \in Range(t) : 100 * AtMost(t, x) >= p * Len(t)}
  BY <1>1, <1>3
<1> QED
  BY <1>4 DEF Percentile

-----------------------------------------------------------------------------
(* Sorting *)

\* Every place of the sorted sequence is taken by an element of which there are
\* fewer below than the place says, and enough that are not above.
LEMMA SortedIs ==
  ASSUME NEW s \in Seq(Nat), NEW i \in 1 .. Len(s)
  PROVE  LET x == Sorted(s)[i]
         IN  /\ x \in Range(s) /\ x \in Nat
             /\ Below(s, x) \in Nat /\ AtMost(s, x) \in Nat
             /\ Below(s, x) < i /\ i <= AtMost(s, x)
<1> DEFINE n == Len(s)
           D == 1 .. n
           R == {p \in D \X D : s[p[1]] < s[p[2]] \/ (s[p[1]] = s[p[2]] /\ p[1] < p[2])}
<1>1. n \in Nat /\ DOMAIN s = D /\ \A j \in D : s[j] \in Nat /\ j \in Nat
  OBVIOUS
<1>2. IsFiniteSet(D) /\ Cardinality(D) = n
  BY <1>1, UpTo
<1>3. \A j, k \in D : <<j, k>> \in R <=> s[j] < s[k] \/ (s[j] = s[k] /\ j < k)
  OBVIOUS
<1> HIDE DEF R, D, n
<1>4. Orders(R, D)
  <2>1. \A j \in D : <<j, j>> \notin R
    BY <1>1, <1>3
  <2>2. \A j, k, l \in D : <<j, k>> \in R /\ <<k, l>> \in R => <<j, l>> \in R
    BY <1>1, <1>3
  <2>3. \A j, k \in D : j = k \/ <<j, k>> \in R \/ <<k, j>> \in R
    <3> SUFFICES ASSUME NEW j \in D, NEW k \in D
                 PROVE  j = k \/ <<j, k>> \in R \/ <<k, j>> \in R
      OBVIOUS
    <3>1. s[j] \in Nat /\ s[k] \in Nat /\ j \in Nat /\ k \in Nat
      BY <1>1
    <3>2. s[j] < s[k] \/ s[k] < s[j] \/ (s[j] = s[k] /\ (j < k \/ k < j \/ j = k))
      BY <3>1
    <3> QED
      BY <1>3, <3>2
  <2> QED
    BY <2>1, <2>2, <2>3 DEF Orders
<1>5. PICK a \in D : Preceding(a, D, R) = i - 1
  <2>1. i - 1 \in 0 .. Cardinality(D) - 1
    BY <1>1, <1>2 DEF n
  <2> QED
    BY <1>2, <1>4, <2>1, RanksAreTaken
<1> DEFINE x == s[a]
           less == {j \in D : s[j] < x}
           before == {j \in D : <<j, a>> \in R}
           most == {j \in D : s[j] <= x}
<1>6. /\ less \in SUBSET before /\ before \cup {a} \in SUBSET most /\ most \in SUBSET D
      /\ a \notin before
  <2>1. \A j \in D : s[j] \in Nat /\ j \in Nat /\ x \in Nat /\ a \in D
    BY <1>1
  <2>2. \A j \in D : s[j] < x => <<j, a>> \in R
    BY <1>3
  <2>3. \A j \in D : <<j, a>> \in R => s[j] <= x
    BY <1>3, <2>1
  <2>4. <<a, a>> \notin R /\ x <= x
    BY <1>3, <2>1
  <2> HIDE DEF x
  <2>5. less \in SUBSET before /\ most \in SUBSET D /\ a \notin before
    BY <2>2, <2>4
  <2>6. before \cup {a} \in SUBSET most
    BY <2>3, <2>4 DEF x
  <2> QED
    BY <2>5, <2>6
<1> HIDE DEF less, before, most
<1>7. IsFiniteSet(most) /\ IsFiniteSet(before) /\ Cardinality(before) \in Nat
      /\ IsFiniteSet(before \cup {a})
  <2>1. IsFiniteSet(most)
    BY <1>2, <1>6, FS_Subset
  <2>2. IsFiniteSet(before \cup {a})
    BY <1>6, <2>1, FS_Subset
  <2>3. before \in SUBSET (before \cup {a})
    OBVIOUS
  <2>4. IsFiniteSet(before)
    BY <2>2, <2>3, FS_Subset
  <2> QED
    BY <2>1, <2>2, <2>4, FS_CardinalityType
<1>8. Cardinality(before) = i - 1
  BY <1>5 DEF Preceding, before
<1>9. Cardinality(less) <= i - 1 /\ Cardinality(less) \in Nat
  BY <1>6, <1>7, <1>8, FS_Subset, FS_CardinalityType
<1>10. i <= Cardinality(most) /\ Cardinality(most) \in Nat
  <2>1. Cardinality(before \cup {a}) = Cardinality(before) + 1
    BY <1>6, <1>7, FS_AddElement
  <2>2. Cardinality(before \cup {a}) <= Cardinality(most)
    BY <1>6, <1>7, FS_Subset
  <2> QED
    BY <1>7, <1>8, <2>1, <2>2, FS_CardinalityType
<1>11. /\ x \in Range(s) /\ Below(s, x) < i /\ i <= AtMost(s, x)
  BY <1>1, <1>9, <1>10 DEF Range, Below, AtMost, less, most
<1> DEFINE y == CHOOSE z \in Range(s) : Below(s, z) < i /\ i <= AtMost(s, z)
<1>12. y \in Range(s) /\ Below(s, y) < i /\ i <= AtMost(s, y)
  BY <1>11
<1>13. Sorted(s)[i] = y
  BY <1>1 DEF Sorted, InOrder, D, n
<1> HIDE DEF y
<1>14. y \in Nat
  BY <1>1, <1>12 DEF Range
<1>15. Below(s, y) \in Nat /\ AtMost(s, y) \in Nat
  <2>1. {j \in D : s[j] < y} \in SUBSET D /\ {j \in D : s[j] <= y} \in SUBSET D
    OBVIOUS
  <2> QED
    BY <1>1, <1>2, <2>1, FS_Subset, FS_CardinalityType DEF Below, AtMost
<1> QED
  BY <1>12, <1>13, <1>14, <1>15

\* The rank of a percentile is a place in the sorted samples, the first that p
\* percent of them do not come after.
LEMMA RankIs ==
  ASSUME NEW p \in Percents, NEW n \in Nat \ {0}
  PROVE  /\ Rank(p, n) \in 1 .. n
         /\ p * n <= 100 * Rank(p, n) /\ 100 * (Rank(p, n) - 1) < p * n
<1> DEFINE a == p * n
           r == (a + 99) \div 100
<1>1. a \in Nat /\ 0 < a /\ a <= 100 * n
  <2>1. p = 50 \/ p = 95 \/ p = 99
    BY DEF Percents
  <2> QED
    BY <2>1
<1> HIDE DEF a
<1>2. r \in Nat /\ a <= 100 * r /\ 100 * (r - 1) < a
  BY <1>1
<1>3. r \in 1 .. n
  BY <1>1, <1>2
<1> QED
  BY <1>2, <1>3 DEF Rank, a

\* What the code answers for a percentile is the nearest-rank percentile.
LEMMA NearestRank ==
  ASSUME NEW s \in Seq(Nat), s # <<>>, NEW p \in Percents
  PROVE  /\ Sorted(s)[Rank(p, Len(s))] = Percentile(s, p)
         /\ Percentile(s, p) \in Nat
<1> DEFINE n == Len(s)
           r == Rank(p, n)
           x == Sorted(s)[r]
           Enough == {y \in Range(s) : 100 * AtMost(s, y) >= p * n}
<1>1. n \in Nat \ {0} /\ DOMAIN s = 1 .. n /\ \A i \in 1 .. n : s[i] \in Nat
  OBVIOUS
<1>2. p \in Nat /\ p * n \in Nat
  <2>1. p = 50 \/ p = 95 \/ p = 99
    BY DEF Percents
  <2> HIDE DEF n
  <2> QED
    BY <1>1, <2>1
<1>3. r \in 1 .. n /\ p * n <= 100 * r /\ 100 * (r - 1) < p * n
  BY <1>1, RankIs
<1>4. /\ x \in Range(s) /\ x \in Nat
      /\ Below(s, x) \in Nat /\ AtMost(s, x) \in Nat
      /\ Below(s, x) < r /\ r <= AtMost(s, x)
  BY <1>3, SortedIs
<1> HIDE DEF x, r
<1>5. x \in Enough
  BY <1>1, <1>2, <1>3, <1>4
<1>6. ASSUME NEW y \in Enough PROVE x <= y
  <2>1. y \in Range(s) /\ y \in Nat /\ 100 * AtMost(s, y) >= p * n
    <3>1. Range(s) \subseteq Nat
      BY <1>1 DEF Range
    <3> QED
      BY <3>1
  <2>2. ASSUME y < x PROVE FALSE
    <3> DEFINE A == {i \in 1 .. n : s[i] <= y}
               B == {i \in 1 .. n : s[i] < x}
    <3>1. A \in SUBSET B /\ B \in SUBSET (1 .. n)
      BY <1>1, <1>4, <2>1, <2>2
    <3>2. AtMost(s, y) = Cardinality(A) /\ Below(s, x) = Cardinality(B)
      BY <1>1 DEF AtMost, Below
    <3> HIDE DEF A, B, n
    <3>3. IsFiniteSet(B)
      BY <1>1, <3>1, UpTo, FS_Subset
    <3>4. Cardinality(A) <= Cardinality(B) /\ Cardinality(A) \in Nat
      BY <3>1, <3>3, FS_Subset, FS_CardinalityType
    <3> QED
      BY <1>1, <1>2, <1>3, <1>4, <2>1, <3>2, <3>4
  <2> QED
    BY <1>4, <2>1, <2>2
<1>7. Enough \subseteq Nat
  BY <1>1 DEF Range
<1> HIDE DEF Enough
<1>8. Min(Enough) \in Enough /\ Min(Enough) <= x
  BY <1>5, <1>7, MinOfNats
<1>9. Min(Enough) = x
  <2>1. x <= Min(Enough) /\ Min(Enough) \in Nat
    BY <1>6, <1>7, <1>8
  <2> QED
    BY <1>4, <1>8, <2>1
<1> QED
  BY <1>4, <1>9 DEF Percentile, Enough, x, r, n

-----------------------------------------------------------------------------
(* The ring *)

\* The first of the last RingSize of n samples.
Oldest(n) == IF n <= RingSize THEN 1 ELSE n - RingSize + 1

\* The ring and the samples recorded.
RingState ==
  LET n == Len(recorded)
  IN  /\ head <= n /\ count = IF n < RingSize THEN n ELSE RingSize
      /\ n < RingSize => head = n
      /\ \A i \in 0 .. head - 1 : samples[i] = recorded[n - head + 1 + i]
      /\ n >= RingSize =>
           \A i \in head .. RingSize - 1 :
             samples[i] = recorded[n - head - RingSize + 1 + i]

\* The copy that Percentiles works on has the samples of one moment, and its answer
\* is computed from them.
CopyState ==
  /\ reader = "idle" => copied = 0
  /\ reader # "idle" => Shuffled(snapshot, Window(copied))
  /\ reader = "answered" =>
       answer = IF snapshot = <<>> THEN ZeroPercentiles
                ELSE [p \in Percents |-> Sorted(snapshot)[Rank(p, Len(snapshot))]]

\* What is in a window of the samples r.
LEMMA WindowIs ==
  ASSUME NEW r \in Seq(Nat), NEW n \in 0 .. Len(r)
  PROVE  LET window == SubSeq(r, Max({0, n - RingSize}) + 1, n)
         IN  /\ window \in Seq(Nat) /\ Oldest(n) \in Nat \ {0}
             /\ Len(window) = n - Oldest(n) + 1
             /\ window = [i \in 1 .. n - Oldest(n) + 1 |-> r[Oldest(n) + i - 1]]
<1> DEFINE o == Oldest(n)
           window == SubSeq(r, Max({0, n - RingSize}) + 1, n)
<1>1. RingSize \in Nat \ {0} /\ n \in Nat /\ Len(r) \in Nat
  BY HistogramAssumption
<1>2. o \in Nat \ {0} /\ n - o + 1 \in Nat /\ o <= n + 1
  BY <1>1 DEF Oldest
<1>3. Max({0, n - RingSize}) + 1 = o
  <2> DEFINE m == IF n <= RingSize THEN 0 ELSE n - RingSize
  <2>1. m \in {0, n - RingSize} /\ m \in Int /\ \A y \in {0, n - RingSize} : y <= m
    BY <1>1
  <2>2. \A z \in {0, n - RingSize} : (\A y \in {0, n - RingSize} : y <= z) => z = m
    BY <1>1, <2>1
  <2> HIDE DEF m
  <2>3. Max({0, n - RingSize}) = m
    BY <2>1, <2>2 DEF Max
  <2> QED
    BY <1>1, <2>3 DEF m, Oldest
<1>4. window = SubSeq(r, o, n)
  BY <1>3
<1> HIDE DEF o, window
<1>5. SubSeq(r, o, n) = [i \in 1 .. n - o + 1 |-> r[o + i - 1]]
  BY <1>1, <1>2
<1>6. \A i \in 1 .. n - o + 1 : r[o + i - 1] \in Nat
  BY <1>1, <1>2
<1>7. window \in Seq(Nat) /\ Len(window) = n - o + 1
  BY <1>2, <1>4, <1>5, <1>6
<1> QED
  BY <1>2, <1>4, <1>5, <1>7 DEF o, window

\* The ring holds the latest samples, from some place on.
LEMMA RingShuffled ==
  ASSUME TypeOK, RingState
  PROVE  LET ring == [i \in 1 .. count |-> samples[i - 1]]
         IN  ring \in Seq(Nat) /\ Shuffled(ring, Window(Len(recorded)))
<1> DEFINE ring == [i \in 1 .. count |-> samples[i - 1]]
           n == Len(recorded)
           o == Oldest(n)
           w == Window(n)
           R == RingSize
           at(i) == IF i <= head THEN n - head + i ELSE n - head - R + i
           f == [i \in 1 .. count |-> at(i) - o + 1]
<1>1. /\ R \in Nat \ {0} /\ n \in Nat /\ head \in Nat /\ head < R /\ count \in Nat
      /\ count <= R /\ samples \in [0 .. R - 1 -> Nat]
  BY HistogramAssumption DEF TypeOK, Positions
<1>2. /\ head <= n /\ count = (IF n < R THEN n ELSE R) /\ (n < R => head = n)
      /\ \A i \in 0 .. head - 1 : samples[i] = recorded[n - head + 1 + i]
      /\ n >= R => \A i \in head .. R - 1 : samples[i] = recorded[n - head - R + 1 + i]
  BY DEF RingState
<1>3. o = IF n <= R THEN 1 ELSE n - R + 1
  BY DEF Oldest
<1>4. /\ w \in Seq(Nat) /\ Len(w) = n - o + 1
      /\ w = [i \in 1 .. n - o + 1 |-> recorded[o + i - 1]]
  <2>1. recorded \in Seq(Nat) /\ n \in 0 .. n
    BY <1>1 DEF TypeOK
  <2> QED
    BY <2>1, WindowIs DEF Window
<1> HIDE DEF n, o, w, R, ring
<1>5. count = n - o + 1
  BY <1>1, <1>2, <1>3
<1>6. DOMAIN w = 1 .. count
  BY <1>4, <1>5
<1>7. ASSUME NEW i \in 1 .. count
      PROVE  /\ samples[i - 1] \in Nat /\ samples[i - 1] = recorded[at(i)]
             /\ at(i) - o + 1 \in 1 .. count
  <2>1. samples[i - 1] \in Nat
    <3>1. i - 1 \in 0 .. R - 1
      BY <1>1
    <3> QED
      BY <1>1, <3>1
  <2>2. CASE i <= head
    <3>1. i - 1 \in 0 .. head - 1 /\ n - head + 1 + (i - 1) = n - head + i
      BY <1>1, <2>2
    <3>2. samples[i - 1] = recorded[at(i)]
      BY <1>2, <2>2, <3>1
    <3>3. at(i) - o + 1 \in 1 .. count
      BY <1>1, <1>2, <1>3, <2>2
    <3> QED
      BY <2>1, <3>2, <3>3
  <2>3. CASE ~ (i <= head)
    <3>1. n >= R /\ i - 1 \in head .. R - 1 /\ n - head - R + 1 + (i - 1) = n - head - R + i
      BY <1>1, <1>2, <2>3
    <3>2. samples[i - 1] = recorded[at(i)]
      BY <1>2, <2>3, <3>1
    <3>3. at(i) - o + 1 \in 1 .. count
      BY <1>1, <1>2, <1>3, <2>3, <3>1
    <3> QED
      BY <2>1, <3>2, <3>3
  <2> QED
    BY <2>2, <2>3
<1>8. ring \in Seq(Nat) /\ DOMAIN ring = 1 .. count
      /\ \A i \in 1 .. count : ring[i] = samples[i - 1]
  <2>1. \A i \in 1 .. count : samples[i - 1] \in Nat
    BY <1>7
  <2> QED
    BY <1>1, <2>1 DEF ring
<1>9. \A i \in 1 .. count : ring[i] = w[f[i]]
  <2> SUFFICES ASSUME NEW i \in 1 .. count PROVE ring[i] = w[f[i]]
    OBVIOUS
  <2>1. f[i] = at(i) - o + 1 /\ f[i] \in 1 .. n - o + 1
    BY <1>5, <1>7
  <2>2. o + f[i] - 1 = at(i)
    BY <1>1, <1>3, <2>1
  <2>3. w[f[i]] = recorded[o + f[i] - 1]
    <3> HIDE DEF f
    <3> QED
      BY <1>4, <2>1
  <2> QED
    BY <1>7, <1>8, <2>2, <2>3
<1>10. \A i, j \in 1 .. count : f[i] = f[j] => i = j
  <2> SUFFICES ASSUME NEW i \in 1 .. count, NEW j \in 1 .. count, f[i] = f[j]
               PROVE  i = j
    OBVIOUS
  <2>1. at(i) - o + 1 = at(j) - o + 1
    OBVIOUS
  <2> QED
    BY <1>1, <1>2, <1>3, <2>1
<1>11. ASSUME NEW j \in 1 .. count
       PROVE  \E i \in 1 .. count : f[i] = j
  <2> DEFINE i == IF o + j - 1 > n - head THEN o + j - 1 - n + head
                                          ELSE o + j - 1 - n + head + R
  <2>1. i \in 1 .. count /\ at(i) - o + 1 = j
    BY <1>1, <1>2, <1>3
  <2>2. f[i] = j
    <3> HIDE DEF i
    <3> QED
      BY <2>1
  <2> QED
    BY <2>1, <2>2
<1>12. f \in Bijection(1 .. count, 1 .. count)
  <2>1. f \in [1 .. count -> 1 .. count]
    BY <1>7
  <2> HIDE DEF f
  <2> QED
    BY <1>10, <1>11, <2>1 DEF Bijection, Injection, Surjection, IsInjective
<1> HIDE DEF f
<1>13. Shuffled(ring, w)
  BY <1>6, <1>8, <1>9, <1>12 DEF Shuffled
<1> QED
  BY <1>8, <1>13 DEF ring, w, n

\* The next place in the ring.
LEMMA NextHeadIs ==
  ASSUME TypeOK
  PROVE  NextHead(head) = IF head + 1 = RingSize THEN 0 ELSE head + 1
<1>1. RingSize \in Nat \ {0} /\ head \in Nat /\ head < RingSize
  BY HistogramAssumption DEF TypeOK, Positions
<1>2. \A r \in Nat \ {0} : r % r = 0 /\ \A a \in Nat : a < r => a % r = a
  OBVIOUS
<1>3. CASE head + 1 = RingSize
  BY <1>1, <1>2, <1>3 DEF NextHead
<1>4. CASE head + 1 # RingSize
  <2>1. head + 1 \in Nat /\ head + 1 < RingSize
    BY <1>1, <1>4
  <2> QED
    BY <1>1, <1>2, <1>4, <2>1 DEF NextHead
<1> QED
  BY <1>3, <1>4

-----------------------------------------------------------------------------
(* The inductive invariant *)

Measuring == TypeOK /\ RingState /\ CopyState

\* It holds at the start.
LEMMA MeasuringInit == Init => Measuring
<1> SUFFICES ASSUME Init PROVE Measuring
  OBVIOUS
<1>1. RingSize \in Nat \ {0}
  BY HistogramAssumption
<1>2. /\ samples = [i \in Positions |-> 0] /\ head = 0 /\ count = 0
      /\ snapshot = <<>> /\ answer = ZeroPercentiles /\ reader = "idle"
      /\ recorded = <<>> /\ copied = 0
  BY DEF Init
<1>3. Len(recorded) = 0 /\ Len(snapshot) = 0
      /\ recorded \in Seq(Nat) /\ snapshot \in Seq(Nat)
  BY <1>2
<1>4. head \in Positions /\ samples \in [Positions -> Nat]
  BY <1>1, <1>2 DEF Positions
<1>5. answer \in [Percents -> Nat]
  BY <1>2 DEF ZeroPercentiles
<1>6. TypeOK
  BY <1>1, <1>2, <1>3, <1>4, <1>5 DEF TypeOK
<1>7. RingState
  BY <1>1, <1>2, <1>3 DEF RingState
<1>8. CopyState
  BY <1>2 DEF CopyState
<1> QED
  BY <1>6, <1>7, <1>8 DEF Measuring

\* A sample is recorded at the head of the ring.
LEMMA RecordKeeps ==
  ASSUME Measuring, NEW d \in Durations, Record(d)
  PROVE  Measuring'
<1> DEFINE n == Len(recorded)
           R == RingSize
           x == Milliseconds(d)
<1>1. /\ R \in Nat \ {0} /\ n \in Nat /\ head \in 0 .. R - 1 /\ head \in Nat
      /\ count \in 0 .. R /\ samples \in [0 .. R - 1 -> Nat] /\ recorded \in Seq(Nat)
      /\ copied \in 0 .. n
  BY HistogramAssumption DEF Measuring, TypeOK, Positions
<1>2. x \in Nat
  <2>1. d \in Nat
    BY HistogramAssumption
  <2> QED
    BY <2>1 DEF Milliseconds
<1> HIDE DEF x, R
<1>3. /\ samples' = [samples EXCEPT ![head] = x]
      /\ head' = IF head + 1 = R THEN 0 ELSE head + 1
      /\ count' = IF count < R THEN count + 1 ELSE count
      /\ recorded' = Append(recorded, x)
      /\ snapshot' = snapshot /\ answer' = answer /\ reader' = reader /\ copied' = copied
  BY NextHeadIs DEF Record, x, R, Measuring
<1>4. /\ recorded' \in Seq(Nat) /\ Len(recorded') = n + 1 /\ recorded'[n + 1] = x
      /\ \A i \in 1 .. n : recorded'[i] = recorded[i]
  BY <1>1, <1>2, <1>3
<1>5. /\ samples' \in [0 .. R - 1 -> Nat] /\ samples'[head] = x
      /\ \A i \in 0 .. R - 1 : i # head => samples'[i] = samples[i]
  BY <1>1, <1>2, <1>3
<1>6. head' \in 0 .. R - 1 /\ count' \in 0 .. R
  BY <1>1, <1>3
<1>7. TypeOK'
  <2>1. copied' \in 0 .. Len(recorded')
    BY <1>1, <1>3, <1>4
  <2> QED
    BY <1>3, <1>4, <1>5, <1>6, <2>1 DEF Measuring, TypeOK, Positions, R
<1>8. RingState'
  <2> HIDE DEF n
  <2>1. /\ head <= n /\ count = (IF n < R THEN n ELSE R) /\ (n < R => head = n)
        /\ \A i \in 0 .. head - 1 : samples[i] = recorded[n - head + 1 + i]
        /\ n >= R => \A i \in head .. R - 1 : samples[i] = recorded[n - head - R + 1 + i]
    BY DEF Measuring, RingState, R, n
  <2>2. /\ head' <= n + 1 /\ count' = (IF n + 1 < R THEN n + 1 ELSE R)
        /\ (n + 1 < R => head' = n + 1)
    BY <1>1, <1>3, <2>1
  <2>3. ASSUME NEW i \in 0 .. head - 1
        PROVE  samples'[i] = recorded'[n - head + 1 + i]
    <3>1. i \in 0 .. R - 1 /\ i # head /\ n - head + 1 + i \in 1 .. n
      BY <1>1, <2>1
    <3> QED
      BY <1>4, <1>5, <2>1, <3>1
  <2>4. samples'[head] = recorded'[n + 1]
    BY <1>4, <1>5
  <2>5. CASE head + 1 = R
    <3>1. head' = 0 /\ n + 1 >= R
      BY <1>1, <1>3, <2>1, <2>5
    <3>2. ASSUME NEW i \in 0 .. R - 1
          PROVE  samples'[i] = recorded'[(n + 1) - 0 - R + 1 + i]
      <4>1. (n + 1) - 0 - R + 1 + i = n - head + 1 + i
        BY <1>1, <2>5
      <4>2. i \in 0 .. head - 1 \/ i = head
        BY <1>1, <2>5
      <4>3. n - head + 1 + head = n + 1
        BY <1>1
      <4> QED
        BY <2>3, <2>4, <4>1, <4>2, <4>3
    <3> QED
      BY <1>1, <1>4, <2>2, <3>1, <3>2 DEF RingState, R
  <2>6. CASE head + 1 # R
    <3>1. head' = head + 1
      BY <1>3, <2>6
    <3>2. ASSUME NEW i \in 0 .. (head + 1) - 1
          PROVE  samples'[i] = recorded'[(n + 1) - (head + 1) + 1 + i]
      <4>1. (n + 1) - (head + 1) + 1 + i = n - head + 1 + i
        BY <1>1
      <4>2. i \in 0 .. head - 1 \/ i = head
        BY <1>1
      <4>3. n - head + 1 + head = n + 1
        BY <1>1
      <4> QED
        BY <2>3, <2>4, <4>1, <4>2, <4>3
    <3>3. ASSUME n + 1 >= R, NEW i \in head + 1 .. R - 1
          PROVE  samples'[i] = recorded'[(n + 1) - (head + 1) - R + 1 + i]
      <4>1. n >= R
        BY <1>1, <2>1, <2>6, <3>3
      <4>2. i \in head .. R - 1 /\ i \in 0 .. R - 1 /\ i # head
        BY <1>1
      <4>3. (n + 1) - (head + 1) - R + 1 + i = n - head - R + 1 + i
            /\ n - head - R + 1 + i \in 1 .. n
        BY <1>1, <2>1, <4>1, <4>2
      <4>4. samples[i] = recorded[n - head - R + 1 + i]
        BY <2>1, <4>1, <4>2
      <4> QED
        BY <1>4, <1>5, <4>2, <4>3, <4>4
    <3> QED
      BY <1>4, <2>2, <3>1, <3>2, <3>3 DEF RingState, R
  <2> QED
    BY <2>5, <2>6
<1>9. CopyState'
  <2>1. Window(copied)' = Window(copied)
    <3> DEFINE o == Oldest(copied)
    <3>1. /\ Window(copied) = [i \in 1 .. copied - o + 1 |-> recorded[o + i - 1]]
          /\ o \in Nat \ {0}
      BY <1>1, WindowIs DEF Window
    <3>2. Window(copied)' = [i \in 1 .. copied - o + 1 |-> recorded'[o + i - 1]]
      <4>1. recorded' \in Seq(Nat) /\ copied \in 0 .. Len(recorded')
        BY <1>1, <1>4
      <4>2. SubSeq(recorded', Max({0, copied - RingSize}) + 1, copied)
              = [i \in 1 .. copied - o + 1 |-> recorded'[o + i - 1]]
        BY <4>1, WindowIs
      <4> QED
        BY <1>3, <4>2 DEF Window
    <3>3. \A i \in 1 .. copied - o + 1 : recorded'[o + i - 1] = recorded[o + i - 1]
      <4> HIDE DEF o
      <4>1. \A i \in 1 .. copied - o + 1 : o + i - 1 \in 1 .. n
        BY <1>1, <3>1
      <4> QED
        BY <1>4, <4>1
    <3> HIDE DEF o
    <3> QED
      BY <3>1, <3>2, <3>3
  <2> QED
    BY <1>3, <2>1 DEF Measuring, CopyState
<1> QED
  BY <1>7, <1>8, <1>9 DEF Measuring

\* The copy that Percentiles makes under the lock is the ring.
LEMMA SnapshotKeeps ==
  ASSUME Measuring, Snapshot
  PROVE  Measuring'
<1>1. /\ snapshot' = [i \in 1 .. count |-> samples[i - 1]]
      /\ reader' = "copied" /\ copied' = Len(recorded)
      /\ samples' = samples /\ head' = head /\ count' = count
      /\ answer' = answer /\ recorded' = recorded
  BY DEF Snapshot
<1>2. snapshot' \in Seq(Nat) /\ Shuffled(snapshot', Window(Len(recorded)))
  BY <1>1, RingShuffled DEF Measuring
<1>3. recorded \in Seq(Nat) /\ Len(recorded) \in Nat /\ count \in 0 .. RingSize
  BY DEF Measuring, TypeOK
<1>4. Len(snapshot') = count
  BY <1>1, <1>3
<1>5. TypeOK'
  <2>1. count <= RingSize /\ Len(recorded) \in 0 .. Len(recorded)
    BY <1>3, HistogramAssumption
  <2> QED
    BY <1>1, <1>2, <1>4, <2>1 DEF Measuring, TypeOK
<1>6. RingState'
  BY <1>1 DEF Measuring, RingState
<1>7. Window(copied)' = Window(Len(recorded))
  BY <1>1 DEF Window
<1>8. CopyState'
  BY <1>1, <1>2, <1>7 DEF CopyState
<1> QED
  BY <1>5, <1>6, <1>8 DEF Measuring

\* The answer is computed on the copy.
LEMMA AnswerKeeps ==
  ASSUME Measuring, Answer
  PROVE  Measuring'
<1> DEFINE sorted == [p \in Percents |-> Sorted(snapshot)[Rank(p, Len(snapshot))]]
<1>1. /\ answer' = IF snapshot = <<>> THEN ZeroPercentiles ELSE sorted
      /\ reader = "copied" /\ reader' = "answered"
      /\ samples' = samples /\ head' = head /\ count' = count
      /\ snapshot' = snapshot /\ recorded' = recorded /\ copied' = copied
  BY DEF Answer
<1>2. answer' \in [Percents -> Nat]
  <2>1. CASE snapshot = <<>>
    BY <1>1, <2>1 DEF ZeroPercentiles
  <2>2. CASE snapshot # <<>>
    <3>1. \A p \in Percents : Sorted(snapshot)[Rank(p, Len(snapshot))] \in Nat
      BY <2>2, NearestRank DEF Measuring, TypeOK
    <3> QED
      BY <1>1, <2>2, <3>1
  <2> QED
    BY <2>1, <2>2
<1>3. TypeOK' /\ RingState'
  BY <1>1, <1>2 DEF Measuring, TypeOK, RingState
<1>4. Window(copied)' = Window(copied)
  BY <1>1 DEF Window
<1>5. CopyState'
  <2>1. Shuffled(snapshot, Window(copied))
    BY <1>1 DEF Measuring, CopyState
  <2> HIDE DEF sorted
  <2>2. answer' = (IF snapshot' = <<>> THEN ZeroPercentiles ELSE sorted')
    BY <1>1 DEF sorted
  <2> QED
    BY <1>1, <1>4, <2>1, <2>2 DEF CopyState, sorted
<1> QED
  BY <1>3, <1>5 DEF Measuring

\* Every step keeps it.
LEMMA MeasuringStep == Measuring /\ [Next]_vars => Measuring'
<1> SUFFICES ASSUME Measuring, [Next]_vars PROVE Measuring'
  OBVIOUS
<1>1. CASE \E d \in Durations : Record(d)
  BY <1>1, RecordKeeps
<1>2. CASE Snapshot
  BY <1>2, SnapshotKeeps
<1>3. CASE Answer
  BY <1>3, AnswerKeeps
<1>4. CASE UNCHANGED vars
  <2>1. /\ samples' = samples /\ head' = head /\ count' = count
        /\ snapshot' = snapshot /\ answer' = answer /\ reader' = reader
        /\ recorded' = recorded /\ copied' = copied
    BY <1>4 DEF vars
  <2>2. Window(copied)' = Window(copied)
    BY <2>1 DEF Window
  <2> QED
    BY <2>1, <2>2 DEF Measuring, TypeOK, RingState, CopyState
<1> QED
  BY <1>1, <1>2, <1>3, <1>4 DEF Next

-----------------------------------------------------------------------------
(* The theorems *)

\* The indices stay in the ring, the copy is no longer than the ring, and every rank
\* is a position of the copy, whatever the size of the ring.
THEOREM TypeCorrect == Spec => []TypeOK
<1>1. Measuring => TypeOK
  BY DEF Measuring
<1> QED
  BY <1>1, MeasuringInit, MeasuringStep, PTL DEF Spec

\* The ring holds exactly the last RingSize samples, before and after it wraps.
THEOREM RingStaysLatest == Spec => []RingHoldsLatest
<1>1. ASSUME Measuring PROVE RingHoldsLatest
  <2> DEFINE ring == [i \in 1 .. count |-> samples[i - 1]]
             window == Window(Len(recorded))
  <2>1. ring \in Seq(Nat) /\ Shuffled(ring, window)
    BY <1>1, RingShuffled DEF Measuring
  <2>2. window \in Seq(Nat)
    <3>1. recorded \in Seq(Nat) /\ Len(recorded) \in 0 .. Len(recorded)
      BY <1>1 DEF Measuring, TypeOK
    <3> QED
      BY <3>1, WindowIs DEF Window
  <2> HIDE DEF ring, window
  <2>3. \A x \in Range(ring) \cup Range(window) : x \in Nat
    BY <2>1, <2>2 DEF Range
  <2>4. \A x \in Range(ring) \cup Range(window) :
          Occurrences(ring, x) = Occurrences(window, x)
    <3> SUFFICES ASSUME NEW x \in Range(ring) \cup Range(window)
                 PROVE  Occurrences(ring, x) = Occurrences(window, x)
      OBVIOUS
    <3>1. x \in Nat
      BY <2>3
    <3>2. Occurrences(ring, x) = CountIn(ring, {x})
      BY <2>1, <3>1, CountsAre
    <3>3. Occurrences(window, x) = CountIn(window, {x})
      BY <2>2, <3>1, CountsAre
    <3>4. CountIn(ring, {x}) = CountIn(window, {x})
      BY <2>1, <2>2, ShuffledAlike
    <3> QED
      BY <3>2, <3>3, <3>4
  <2> QED
    BY <2>4 DEF RingHoldsLatest, ring, window
<1> QED
  BY <1>1, MeasuringInit, MeasuringStep, PTL DEF Spec

\* What GET /metrics reports are the nearest-rank percentiles of the samples that
\* were in the ring at one moment of the call.
THEOREM PercentilesAreOfAMoment == Spec => []PercentilesOfAMoment
<1>1. ASSUME Measuring PROVE PercentilesOfAMoment
  <2> SUFFICES ASSUME reader = "answered"
               PROVE  IF copied = 0 THEN answer = ZeroPercentiles
                      ELSE \A p \in Percents : answer[p] = Percentile(Window(copied), p)
    BY DEF PercentilesOfAMoment
  <2>1. /\ Shuffled(snapshot, Window(copied))
        /\ answer = IF snapshot = <<>> THEN ZeroPercentiles
                    ELSE [p \in Percents |-> Sorted(snapshot)[Rank(p, Len(snapshot))]]
        /\ snapshot \in Seq(Nat) /\ recorded \in Seq(Nat) /\ copied \in 0 .. Len(recorded)
    BY <1>1 DEF Measuring, CopyState, TypeOK
  <2>2. /\ Window(copied) \in Seq(Nat)
        /\ Len(Window(copied)) = copied - Oldest(copied) + 1
    BY <2>1, WindowIs DEF Window
  <2>3. Len(snapshot) = Len(Window(copied))
    BY <2>1, <2>2, ShuffledAlike
  <2>4. copied = 0 <=> snapshot = <<>>
    <3>1. RingSize \in Nat \ {0} /\ copied \in Nat
      BY <2>1, HistogramAssumption
    <3>2. copied = 0 <=> copied - Oldest(copied) + 1 = 0
      BY <3>1 DEF Oldest
    <3>3. snapshot = <<>> <=> Len(snapshot) = 0
      BY <2>1
    <3> QED
      BY <2>2, <2>3, <3>2, <3>3
  <2>5. ASSUME snapshot # <<>>, NEW p \in Percents
        PROVE  answer[p] = Percentile(Window(copied), p)
    <3>1. answer[p] = Sorted(snapshot)[Rank(p, Len(snapshot))]
      BY <2>1, <2>5
    <3>2. answer[p] = Percentile(snapshot, p)
      BY <2>1, <2>5, <3>1, NearestRank
    <3> QED
      BY <2>1, <2>2, <3>2, ShuffledPercentiles
  <2> QED
    BY <2>1, <2>4, <2>5
<1> QED
  BY <1>1, MeasuringInit, MeasuringStep, PTL DEF Spec
=============================================================================
