--------------------------- MODULE LoadTestProofs ---------------------------
(***************************************************************************)
(* Theorems about LoadTest, for keys of any length over any alphabet.      *)
(***************************************************************************)
EXTENDS LoadTestProperties, DataLemmas

-----------------------------------------------------------------------------
(* Keys *)

\* The order of the keys, as a relation.
KeyOrder == {p \in Keys \X Keys : Before(p[1], p[2])}

\* A key is a sequence of letters.
LEMMA KeyType ==
  ASSUME NEW k \in Keys
  PROVE  /\ k \in Seq(1 .. Letters) /\ Len(k) = KeyLength /\ DOMAIN k = 1 .. KeyLength
         /\ \A i \in 1 .. KeyLength : k[i] \in 1 .. Letters
         /\ KeyLength \in Nat \ {0} /\ Letters \in Nat \ {0}
<1>1. KeyLength \in Nat \ {0} /\ Letters \in Nat \ {0}
  BY LoadTestAssumption
<1>2. k \in [1 .. KeyLength -> 1 .. Letters]
  BY DEF Keys
<1>3. k \in Seq(1 .. Letters)
  BY <1>1, <1>2
<1>4. Len(k) = KeyLength
  BY <1>1, <1>2, <1>3
<1> QED
  BY <1>1, <1>2, <1>3, <1>4

\* Keys with the same letters are the same.
LEMMA KeysEqual ==
  ASSUME NEW s \in Keys, NEW t \in Keys, \A i \in 1 .. KeyLength : s[i] = t[i]
  PROVE  s = t
<1>1. s = [i \in 1 .. KeyLength |-> s[i]] /\ t = [i \in 1 .. KeyLength |-> t[i]]
  BY DEF Keys
<1>2. [i \in 1 .. KeyLength |-> s[i]] = [i \in 1 .. KeyLength |-> t[i]]
  OBVIOUS
<1> QED
  BY <1>1, <1>2

\* There are finitely many keys: each is a set of pairs of a position and a letter.
LEMMA KeysFinite == IsFiniteSet(Keys)
<1> DEFINE Pairs == (1 .. KeyLength) \X (1 .. Letters)
           Graph(k) == {<<i, k[i]>> : i \in 1 .. KeyLength}
           key == [g \in SUBSET Pairs |->
                    IF \E k \in Keys : Graph(k) = g THEN CHOOSE k \in Keys : Graph(k) = g
                    ELSE [i \in 1 .. KeyLength |-> 1]]
<1>1. IsFiniteSet(SUBSET Pairs)
  <2>1. IsFiniteSet(1 .. KeyLength) /\ IsFiniteSet(1 .. Letters)
    BY LoadTestAssumption, FS_Interval
  <2> QED
    BY <2>1, FS_Product, FS_SUBSET
<1>2. \A k \in Keys : Graph(k) \in SUBSET Pairs
  BY KeyType
<1>3. \A j, k \in Keys : Graph(j) = Graph(k) => j = k
  <2> SUFFICES ASSUME NEW j \in Keys, NEW k \in Keys, Graph(j) = Graph(k) PROVE j = k
    OBVIOUS
  <2>1. ASSUME NEW i \in 1 .. KeyLength PROVE j[i] = k[i]
    <3>1. <<i, j[i]>> \in Graph(j)
      OBVIOUS
    <3>2. PICK n \in 1 .. KeyLength : <<i, j[i]>> = <<n, k[n]>>
      BY <3>1
    <3> QED
      BY <3>2
  <2> QED
    BY <2>1, KeysEqual
<1>4. [i \in 1 .. KeyLength |-> 1] \in Keys
  BY LoadTestAssumption DEF Keys
<1>5. \A k \in Keys : key[Graph(k)] = k
  <2> SUFFICES ASSUME NEW k \in Keys PROVE key[Graph(k)] = k
    OBVIOUS
  <2> DEFINE found == CHOOSE j \in Keys : Graph(j) = Graph(k)
  <2>1. found \in Keys /\ Graph(found) = Graph(k)
    OBVIOUS
  <2>2. found = k
    BY <1>3, <2>1
  <2>3. key[Graph(k)] = found
    BY <1>2
  <2> QED
    BY <2>2, <2>3
<1>6. key \in [SUBSET Pairs -> Keys]
  <2> SUFFICES ASSUME NEW g \in SUBSET Pairs PROVE key[g] \in Keys
    OBVIOUS
  <2>1. CASE \E k \in Keys : Graph(k) = g
    BY <2>1
  <2>2. CASE ~ \E k \in Keys : Graph(k) = g
    BY <2>2, <1>4
  <2> QED
    BY <2>1, <2>2
<1>7. key \in Surjection(SUBSET Pairs, Keys)
  <2> HIDE DEF Pairs, Graph, key
  <2> QED
    BY <1>2, <1>5, <1>6 DEF Surjection
<1> QED
  <2> HIDE DEF Pairs, Graph, key
  <2> QED
    BY <1>1, <1>7, FS_Surjection

\* Of two keys that differ, the first letter that does decides.
LEMMA FirstDifference ==
  ASSUME NEW s \in Keys, NEW t \in Keys, s # t
  PROVE  \E i \in 1 .. KeyLength : s[i] # t[i] /\ \A j \in 1 .. i - 1 : s[j] = t[j]
<1> DEFINE D == {i \in 1 .. KeyLength : s[i] # t[i]}
<1>1. D # {}
  BY KeysEqual
<1>2. PICK i \in D : \A j \in D : i <= j
  <2>1. D \subseteq Nat
    BY LoadTestAssumption
  <2> QED
    BY <1>1, <2>1, LeastElement
<1>3. i \in 1 .. KeyLength /\ KeyLength \in Nat
  BY LoadTestAssumption
<1>4. ASSUME NEW j \in 1 .. i - 1 PROVE s[j] = t[j]
  BY <1>2, <1>3, <1>4
<1> QED
  BY <1>2, <1>4

\* Keys have one length.
LEMMA KeyBefore ==
  ASSUME NEW s \in Keys, NEW t \in Keys
  PROVE  Before(s, t) <=>
           \E i \in 1 .. KeyLength : s[i] < t[i] /\ \A j \in 1 .. i - 1 : s[j] = t[j]
<1>1. /\ Len(s) = KeyLength /\ Len(t) = KeyLength /\ KeyLength \in Nat
      /\ DOMAIN s = 1 .. KeyLength /\ DOMAIN t = 1 .. KeyLength
  BY KeyType
<1>2. ~ (Len(s) < Len(t)) /\ DOMAIN s \cap DOMAIN t = 1 .. KeyLength
  BY <1>1
<1> QED
  BY <1>2 DEF Before

\* Go's order of strings orders the keys.
LEMMA KeyOrderOrders ==
  ASSUME NEW S, S \subseteq Keys
  PROVE  Orders(KeyOrder, S)
<1>1. \A x, y \in S : <<x, y>> \in KeyOrder <=> Before(x, y)
  BY DEF KeyOrder
<1>2. ASSUME NEW x \in S PROVE ~ Before(x, x)
  BY KeyBefore, KeyType
<1>3. ASSUME NEW x \in S, NEW y \in S, NEW z \in S, Before(x, y), Before(y, z)
      PROVE  Before(x, z)
  <2>1. x \in Keys /\ y \in Keys /\ z \in Keys /\ KeyLength \in Nat
    BY LoadTestAssumption
  <2>2. PICK i \in 1 .. KeyLength : x[i] < y[i] /\ \A j \in 1 .. i - 1 : x[j] = y[j]
    BY <1>3, <2>1, KeyBefore
  <2>3. PICK n \in 1 .. KeyLength : y[n] < z[n] /\ \A j \in 1 .. n - 1 : y[j] = z[j]
    BY <1>3, <2>1, KeyBefore
  <2>4. \A j \in 1 .. KeyLength : x[j] \in Nat /\ y[j] \in Nat /\ z[j] \in Nat
    <3>1. \A j \in 1 .. KeyLength :
            x[j] \in 1 .. Letters /\ y[j] \in 1 .. Letters /\ z[j] \in 1 .. Letters
      BY <2>1, KeyType
    <3> QED
      BY <3>1, LoadTestAssumption
  <2> DEFINE m == IF i <= n THEN i ELSE n
  <2>5. m \in 1 .. KeyLength /\ x[m] < z[m] /\ \A j \in 1 .. m - 1 : x[j] = z[j]
    BY <2>1, <2>2, <2>3, <2>4
  <2> QED
    BY <2>1, <2>5, KeyBefore
<1>4. ASSUME NEW x \in S, NEW y \in S, x # y
      PROVE  Before(x, y) \/ Before(y, x)
  <2>1. x \in Keys /\ y \in Keys
    OBVIOUS
  <2>2. PICK i \in 1 .. KeyLength : x[i] # y[i] /\ \A j \in 1 .. i - 1 : x[j] = y[j]
    BY <1>4, <2>1, FirstDifference
  <2>3. x[i] < y[i] \/ y[i] < x[i]
    <3>1. x[i] \in 1 .. Letters /\ y[i] \in 1 .. Letters /\ Letters \in Nat
      BY <2>1, KeyType
    <3> QED
      BY <2>2, <3>1
  <2> QED
    BY <2>1, <2>2, <2>3, KeyBefore
<1> QED
  BY <1>1, <1>2, <1>3, <1>4 DEF Orders

\* nextKey of a key comes right after it: no key is between them.
LEMMA NextKeyIsNext ==
  ASSUME NEW s \in Keys, NEW k \in Keys
  PROVE  /\ NextKey(s) \in Seq(1 .. Letters)
         /\ Before(k, NextKey(s)) <=> ~ Before(s, k)
<1> DEFINE raisable == {i \in DOMAIN s : s[i] < Letters}
           t == NextKey(s)
<1>1. /\ s \in Seq(1 .. Letters) /\ Len(s) = KeyLength /\ DOMAIN s = 1 .. KeyLength
      /\ k \in Seq(1 .. Letters) /\ Len(k) = KeyLength /\ DOMAIN k = 1 .. KeyLength
      /\ \A i \in 1 .. KeyLength : s[i] \in 1 .. Letters /\ k[i] \in 1 .. Letters
      /\ KeyLength \in Nat \ {0} /\ Letters \in Nat \ {0}
  BY KeyType
<1>2. CASE raisable = {}
  <2>1. t = Append(s, 1)
    BY <1>2 DEF NextKey
  <2>2. /\ t \in Seq(1 .. Letters) /\ Len(t) = KeyLength + 1 /\ DOMAIN t = 1 .. KeyLength + 1
        /\ \A i \in 1 .. KeyLength : t[i] = s[i]
    <3>1. 1 \in 1 .. Letters
      BY <1>1
    <3> QED
      BY <1>1, <2>1, <3>1, AppendKeeps
  <2>3. \A i \in 1 .. KeyLength : s[i] = Letters /\ k[i] <= s[i]
    <3> SUFFICES ASSUME NEW i \in 1 .. KeyLength PROVE s[i] = Letters /\ k[i] <= s[i]
      OBVIOUS
    <3>1. ~ (s[i] < Letters)
      BY <1>1, <1>2
    <3>2. s[i] \in 1 .. Letters /\ k[i] \in 1 .. Letters /\ Letters \in Nat
      BY <1>1
    <3> QED
      BY <3>1, <3>2
  <2>4. ~ Before(s, k)
    <3> SUFFICES ASSUME NEW i \in 1 .. KeyLength PROVE ~ (s[i] < k[i])
      BY KeyBefore
    <3>1. s[i] \in Nat /\ k[i] \in Nat /\ k[i] <= s[i]
      BY <1>1, <2>3
    <3> QED
      BY <3>1
  <2>5. Before(k, t)
    <3>1. CASE k = s
      BY <1>1, <2>2, <3>1 DEF Before
    <3>2. CASE k # s
      <4>1. PICK i \in 1 .. KeyLength : k[i] # s[i] /\ \A j \in 1 .. i - 1 : k[j] = s[j]
        BY <3>2, FirstDifference
      <4>2. k[i] < t[i]
        <5>1. k[i] \in Nat /\ s[i] \in Nat /\ k[i] <= s[i] /\ k[i] # s[i] /\ t[i] = s[i]
          BY <1>1, <2>2, <2>3, <4>1
        <5> QED
          BY <5>1
      <4>3. i \in DOMAIN k \cap DOMAIN t /\ \A j \in 1 .. i - 1 : k[j] = t[j]
        BY <1>1, <2>2, <4>1
      <4> QED
        BY <4>2, <4>3 DEF Before
    <3> QED
      BY <3>1, <3>2
  <2> QED
    BY <2>2, <2>4, <2>5
<1>3. CASE raisable # {}
  <2> DEFINE m == Max(raisable)
  <2>1. m \in 1 .. KeyLength /\ s[m] < Letters /\ \A i \in raisable : i <= m
    <3>1. raisable \subseteq Nat /\ KeyLength \in Nat /\ \A i \in raisable : i <= KeyLength
      BY <1>1
    <3>2. m \in raisable /\ \A i \in raisable : i <= m
      BY <1>3, <3>1, MaxOfNats
    <3> QED
      BY <1>1, <3>2
  <2>2. \A i \in m + 1 .. KeyLength : s[i] = Letters
    <3> SUFFICES ASSUME NEW i \in m + 1 .. KeyLength PROVE s[i] = Letters
      OBVIOUS
    <3>1. i \in 1 .. KeyLength /\ ~ (i <= m)
      BY <1>1, <2>1
    <3>2. i \notin raisable
      BY <2>1, <3>1
    <3> QED
      BY <1>1, <3>1, <3>2
  <2>3. t = Append(SubSeq(s, 1, m - 1), s[m] + 1)
    BY <1>3 DEF NextKey
  <2> HIDE DEF m, t, raisable
  <2>4. /\ t \in Seq(1 .. Letters) /\ Len(t) = m /\ DOMAIN t = 1 .. m
        /\ \A i \in 1 .. m - 1 : t[i] = s[i]
        /\ t[m] = s[m] + 1
    <3> DEFINE u == SubSeq(s, 1, m - 1)
    <3>1. /\ u \in Seq(1 .. Letters) /\ Len(u) = m - 1
          /\ \A i \in 1 .. m - 1 : u[i] = s[i]
      BY <1>1, <2>1
    <3>2. s[m] + 1 \in 1 .. Letters
      BY <1>1, <2>1
    <3>3. t = Append(u, s[m] + 1)
      BY <2>3
    <3> HIDE DEF u
    <3>4. t \in Seq(1 .. Letters) /\ Len(t) = (m - 1) + 1
      BY <3>1, <3>2, <3>3
    <3>5. Len(t) = m
      BY <2>1, <3>4
    <3> QED
      BY <2>1, <3>1, <3>2, <3>3, <3>4, <3>5
  <2>5. ASSUME Before(k, t), Before(s, k)
        PROVE  FALSE
    <3>1. PICK i \in 1 .. KeyLength : s[i] < k[i] /\ \A j \in 1 .. i - 1 : s[j] = k[j]
      BY <2>5, KeyBefore
    <3>2. i <= m
      <4> SUFFICES ASSUME i > m PROVE FALSE
        BY <2>1
      <4>1. i \in m + 1 .. KeyLength
        BY <2>1
      <4>2. s[i] = Letters /\ k[i] \in 1 .. Letters /\ Letters \in Nat
        BY <1>1, <2>2, <4>1
      <4> QED
        BY <3>1, <4>2
    <3>3. PICK n \in 1 .. m : k[n] < t[n] /\ \A j \in 1 .. n - 1 : k[j] = t[j]
      <4>1. ~ (Len(k) < Len(t))
        BY <1>1, <2>1, <2>4
      <4> QED
        BY <2>4, <2>5, <4>1 DEF Before
    <3>4. n \in 1 .. KeyLength
      BY <1>1, <2>1
    <3>5. s[i] \in Nat /\ k[i] \in Nat /\ s[n] \in Nat /\ k[n] \in Nat
      BY <1>1, <3>4
    <3>6. CASE n < i
      BY <2>1, <2>4, <3>1, <3>2, <3>3, <3>5, <3>6
    <3>7. CASE n >= i
      BY <2>1, <2>4, <3>1, <3>2, <3>3, <3>5, <3>7
    <3> QED
      BY <2>1, <3>6, <3>7
  <2>6. ASSUME ~ Before(s, k)
        PROVE  Before(k, t)
    <3>1. s[m] \in Nat /\ t[m] > s[m]
      BY <1>1, <2>1, <2>4
    <3>2. ASSUME NEW i \in 1 .. m, k[i] < t[i], \A j \in 1 .. i - 1 : k[j] = s[j]
          PROVE  Before(k, t)
      <4>1. \A j \in 1 .. i - 1 : k[j] = t[j]
        BY <2>1, <2>4, <3>2
      <4>2. i \in DOMAIN k \cap DOMAIN t
        BY <1>1, <2>1, <2>4
      <4> QED
        BY <3>2, <4>1, <4>2 DEF Before
    <3>3. CASE k = s
      BY <2>1, <3>1, <3>2, <3>3
    <3>4. CASE k # s
      <4>1. Before(k, s)
        BY <2>6, <3>4, KeyOrderOrders DEF Orders, KeyOrder
      <4>2. PICK i \in 1 .. KeyLength : k[i] < s[i] /\ \A j \in 1 .. i - 1 : k[j] = s[j]
        BY <4>1, KeyBefore
      <4>3. CASE i < m
        BY <2>1, <2>4, <3>2, <4>2, <4>3
      <4>4. CASE i >= m
        <5>1. m \in Int /\ i \in Int /\ k[m] \in Int /\ s[m] \in Int /\ t[m] \in Int
          BY <1>1, <2>1, <2>4
        <5>2. k[m] <= s[m]
          BY <2>1, <4>2, <4>4, <5>1
        <5>3. m \in 1 .. m /\ \A j \in 1 .. m - 1 : k[j] = s[j]
          BY <2>1, <4>2, <4>4
        <5>4. k[m] < t[m]
          BY <3>1, <5>1, <5>2
        <5> QED
          BY <3>2, <5>3, <5>4
      <4> QED
        BY <2>1, <4>3, <4>4
    <3> QED
      BY <3>3, <3>4
  <2> QED
    BY <2>4, <2>5, <2>6 DEF t
<1> QED
  BY <1>2, <1>3

-----------------------------------------------------------------------------
(* What a SCAN lists *)

\* sort.Strings: every key once, and before those that come after it.
LEMMA SortedIs ==
  ASSUME NEW S, S \subseteq Keys
  PROVE  /\ Cardinality(S) \in Nat /\ Sorted(S) \in [1 .. Cardinality(S) -> S]
         /\ \A i \in 1 .. Cardinality(S) : Preceding(Sorted(S)[i], S, KeyOrder) = i - 1
         /\ \A k \in S : /\ Preceding(k, S, KeyOrder) \in 0 .. Cardinality(S) - 1
                         /\ Sorted(S)[Preceding(k, S, KeyOrder) + 1] = k
<1> DEFINE n == Cardinality(S)
           R(k) == Preceding(k, S, KeyOrder)
<1>1. IsFiniteSet(S) /\ n \in Nat /\ Orders(KeyOrder, S)
  BY KeysFinite, KeyOrderOrders, FS_Subset, FS_CardinalityType
<1>2. \A k \in S : Cardinality({j \in S : Before(j, k)}) = R(k)
  <2> SUFFICES ASSUME NEW k \in S PROVE Cardinality({j \in S : Before(j, k)}) = R(k)
    OBVIOUS
  <2>1. {j \in S : Before(j, k)} = {j \in S : <<j, k>> \in KeyOrder}
    BY DEF KeyOrder
  <2> QED
    BY <2>1 DEF Preceding
<1>3. ASSUME NEW i \in 1 .. n
      PROVE  Sorted(S)[i] \in S /\ R(Sorted(S)[i]) = i - 1
  <2>1. i - 1 \in 0 .. n - 1
    BY <1>1
  <2>2. \E k \in S : R(k) = i - 1
    BY <1>1, <2>1, RanksAreTaken
  <2>3. Sorted(S)[i] = CHOOSE k \in S : Cardinality({j \in S : Before(j, k)}) = i - 1
    BY DEF Sorted
  <2> HIDE DEF R
  <2> QED
    BY <1>2, <2>2, <2>3
<1>4. Sorted(S) \in [1 .. n -> S]
  BY <1>3 DEF Sorted
<1>5. ASSUME NEW k \in S
      PROVE  R(k) \in 0 .. n - 1 /\ Sorted(S)[R(k) + 1] = k
  <2>1. R(k) \in 0 .. n - 1
    BY <1>1, RanksGrow
  <2>2. R(k) + 1 \in 1 .. n /\ (R(k) + 1) - 1 = R(k)
    BY <1>1, <2>1
  <2>3. Sorted(S)[R(k) + 1] \in S /\ R(Sorted(S)[R(k) + 1]) = R(k)
    BY <1>3, <2>2
  <2> QED
    BY <1>1, <2>1, <2>3, RanksGrow
<1> QED
  BY <1>1, <1>3, <1>4, <1>5

\* A SCAN lists the known keys of the range it names, and no other: the keys of the
\* map between from and the end that boundedRange computes are those it has picked.
LEMMA BoundedRangeIsExact ==
  ASSUME NEW from \in Keys
  PROVE  LET l == BoundedRange(from)
         IN  /\ l \in Scan /\ Len(l.keys) <= RangeLimit
             /\ Range(l.keys) = RangeKeys(l.from, l.to)
             /\ \A i \in 1 .. Len(l.keys) - 1 : Before(l.keys[i], l.keys[i + 1])
<1> DEFINE S == {k \in Known : NotBefore(k, from)}
           n == Cardinality(S)
           sorted == Sorted(S)
           R(k) == Preceding(k, S, KeyOrder)
           m == Min({RangeLimit, Len(sorted)})
           keys == Candidates(from)
           last == IF keys = <<>> THEN from ELSE Last(keys)
           to == NextKey(last)
<1>1. S \subseteq Keys
  BY DEF Known
<1>2. /\ n \in Nat /\ sorted \in [1 .. n -> S]
      /\ \A i \in 1 .. n : R(sorted[i]) = i - 1
      /\ \A k \in S : R(k) \in 0 .. n - 1 /\ sorted[R(k) + 1] = k
  BY <1>1, SortedIs
<1>3. Orders(KeyOrder, S) /\ IsFiniteSet(S)
  BY <1>1, KeyOrderOrders, KeysFinite, FS_Subset
<1>4. \A x, y \in S : Before(x, y) <=> R(x) < R(y)
  <2> HIDE DEF S
  <2>1. \A x, y \in S : <<x, y>> \in KeyOrder <=> R(x) < R(y)
    BY <1>3, RanksGrow
  <2>2. \A x, y \in S : <<x, y>> \in KeyOrder <=> Before(x, y)
    BY <1>1 DEF KeyOrder
  <2> HIDE DEF R
  <2> QED
    BY <2>1, <2>2
<1>5. keys = SubSeq(sorted, 1, m)
  BY DEF Candidates
<1> HIDE DEF S, sorted, R, keys
<1>6. sorted \in Seq(S) /\ Len(sorted) = n
  BY <1>2
<1>7. m \in Nat /\ m <= RangeLimit /\ m <= n /\ (n # 0 => m # 0)
  <2>1. RangeLimit \in Nat \ {0}
    BY LoadTestAssumption
  <2>2. {RangeLimit, Len(sorted)} \subseteq Nat
    BY <1>2, <1>6, <2>1
  <2>3. m \in {RangeLimit, Len(sorted)} /\ \A y \in {RangeLimit, Len(sorted)} : m <= y
    BY <2>2, MinOfNats
  <2> HIDE DEF m
  <2> QED
    BY <1>2, <1>6, <2>1, <2>3
<1> HIDE DEF m, n
<1>8. /\ keys \in Seq(S) /\ Len(keys) = m /\ DOMAIN keys = 1 .. m
      /\ \A i \in 1 .. m : keys[i] = sorted[i] /\ keys[i] \in S /\ R(keys[i]) = i - 1
  <2>1. /\ keys \in Seq(S) /\ Len(keys) = m
        /\ \A i \in 1 .. m : keys[i] = sorted[i] /\ i \in 1 .. n
    BY <1>2, <1>5, <1>6, <1>7
  <2> QED
    BY <1>2, <2>1
<1>9. Range(keys) = {k \in S : R(k) < m}
  <2>1. Range(keys) = {keys[i] : i \in 1 .. m}
    BY <1>8 DEF Range
  <2>2. ASSUME NEW i \in 1 .. m PROVE keys[i] \in S /\ R(keys[i]) < m
    BY <1>7, <1>8
  <2>3. ASSUME NEW k \in S, R(k) < m PROVE \E i \in 1 .. m : keys[i] = k
    <3>1. R(k) + 1 \in 1 .. m
      BY <1>2, <1>7, <2>3
    <3> QED
      BY <1>2, <1>8, <3>1
  <2> QED
    BY <2>1, <2>2, <2>3
<1>10. last \in Keys /\ \A k \in S : R(k) < m <=> ~ Before(last, k)
  <2>1. CASE m = 0
    <3>1. keys = <<>> /\ n = 0
      BY <1>7, <1>8, <2>1
    <3>2. S = {}
      BY <1>2, <3>1
    <3> QED
      BY <3>1, <3>2
  <2>2. CASE m # 0
    <3>1. keys # <<>> /\ last = keys[m] /\ m \in 1 .. m
      BY <1>7, <1>8, <2>2 DEF Last
    <3>2. last \in S /\ R(last) = m - 1
      BY <1>8, <3>1
    <3>3. ASSUME NEW k \in S PROVE R(k) < m <=> ~ (R(last) < R(k))
      <4>1. R(k) \in Nat
        BY <1>2
      <4> QED
        BY <1>7, <3>2, <4>1
    <3> QED
      BY <1>1, <1>4, <3>2, <3>3
  <2> QED
    BY <2>1, <2>2
<1>11. to \in Seq(1 .. Letters) /\ \A k \in S : Before(k, to) <=> ~ Before(last, k)
  BY <1>1, <1>10, NextKeyIsNext
<1>12. RangeKeys(from, to) = {k \in S : Before(k, to)}
  BY DEF RangeKeys, S
<1>13. \A i \in 1 .. m - 1 : Before(keys[i], keys[i + 1])
  <2> SUFFICES ASSUME NEW i \in 1 .. m - 1 PROVE Before(keys[i], keys[i + 1])
    OBVIOUS
  <2>1. i \in 1 .. m /\ i + 1 \in 1 .. m
    BY <1>7
  <2>2. R(keys[i]) = i - 1 /\ R(keys[i + 1]) = (i + 1) - 1 /\ keys[i] \in S /\ keys[i + 1] \in S
    BY <1>8, <2>1
  <2>3. i - 1 < (i + 1) - 1
    BY <2>1
  <2> QED
    BY <1>4, <2>2, <2>3
<1>14. BoundedRange(from) = [method |-> "SCAN", from |-> from, to |-> to, keys |-> keys]
  BY DEF BoundedRange, ScanLine, keys
<1>15. keys \in Seq(Keys)
  BY <1>1, <1>8
<1> HIDE DEF to, last
<1> DEFINE l == BoundedRange(from)
<1>16. l.from = from /\ l.to = to /\ l.keys = keys /\ l \in Scan
  BY <1>11, <1>14, <1>15 DEF Scan
<1>17. Range(keys) = RangeKeys(from, to)
  BY <1>9, <1>10, <1>11, <1>12
<1> HIDE DEF l
<1>18. /\ l \in Scan /\ Len(l.keys) <= RangeLimit
       /\ Range(l.keys) = RangeKeys(l.from, l.to)
       /\ \A i \in 1 .. Len(l.keys) - 1 : Before(l.keys[i], l.keys[i + 1])
  BY <1>7, <1>8, <1>13, <1>16, <1>17
<1> QED
  BY <1>18 DEF l

-----------------------------------------------------------------------------
(* The inductive invariant *)

\* What a client sees of the store.
Visible(k) == IF store[k] = Deleted THEN Absent ELSE store[k]

HasMethod(methods) == line # NoLine /\ line.method \in methods

\* The generator is one line ahead of the store, and for a GET it has written down
\* what its map holds.
OneLineAhead ==
  /\ client # "waiting" =>
       \A k \in Keys :
         state[k] = IF HasMethod({"PUT"}) /\ k = line.key THEN line.value
                    ELSE IF HasMethod({"DELETE"}) /\ k = line.key THEN Absent
                    ELSE Visible(k)
  /\ HasMethod({"GET"}) =>
       line.expected = IF state[line.key] = Absent THEN NotFound ELSE state[line.key]

\* Before reset.sh there is no line; the client stops at a GET.
ClientIsAt ==
  /\ client = "waiting" => line = NoLine /\ \A k \in Keys : state[k] = Absent
  /\ client = "stopped" => HasMethod({"GET"})

Invariant == TypeOK /\ OneLineAhead /\ ClientIsAt /\ StopsAtTombstones /\ ScanIsExact

\* What a line of each method is.
LEMMA LineTypes ==
  ASSUME TypeOK, line # NoLine
  PROVE  /\ line.method \in {"GET", "PUT", "DELETE", "SCAN"}
         /\ line.method = "GET" => line.key \in Keys /\ line.expected \in Values \cup {NotFound}
         /\ line.method = "PUT" => line.key \in Keys /\ line.value \in Values
         /\ line.method = "DELETE" => line.key \in Keys
BY DEF TypeOK, Line, Scan

\* A line is emitted when there is none.
LEMMA Emitted ==
  ASSUME Invariant, NEW l \in Line \cup Scan, Emit(l)
  PROVE  /\ line = NoLine /\ line' = l /\ line' # NoLine
         /\ client = "running" /\ client' = client /\ store' = store
         /\ \A k \in Keys : state[k] = Visible(k) /\ Visible(k)' = Visible(k)
BY NoLineAssumption DEF Emit, Invariant, OneLineAhead, HasMethod, Visible

\* The generator writes its next line.
LEMMA GenerateStep == ASSUME Invariant, Generate PROVE Invariant'
<1> USE DEF Invariant
<1>0. /\ state \in [Keys -> Values \cup {Absent}] /\ NotFound \notin Values
      /\ \A k \in Known : k \in Keys /\ state[k] \in Values
  BY LoadTestAssumption DEF TypeOK, Known
<1>1. ASSUME NEW k \in Keys, Emit(GetLine(k, IF state[k] = Absent THEN NotFound ELSE state[k])),
             state' = state
      PROVE  Invariant'
  <2> DEFINE l == GetLine(k, IF state[k] = Absent THEN NotFound ELSE state[k])
  <2>1. l \in Line /\ l.method = "GET" /\ l.key = k /\ l \notin Scan
        /\ l.expected = IF state[k] = Absent THEN NotFound ELSE state[k]
    BY <1>0 DEF GetLine, Line, Scan
  <2>2. /\ line' = l /\ line' # NoLine
        /\ client = "running" /\ client' = client /\ store' = store
        /\ \A j \in Keys : state[j] = Visible(j) /\ Visible(j)' = Visible(j)
    BY <1>1, <2>1, Emitted
  <2> HIDE DEF l
  <2>3. OneLineAhead'
    BY <1>1, <2>1, <2>2 DEF OneLineAhead, HasMethod
  <2>4. TypeOK' /\ ClientIsAt' /\ StopsAtTombstones' /\ ScanIsExact'
    BY <1>1, <2>1, <2>2 DEF TypeOK, ClientIsAt, StopsAtTombstones, ScanIsExact
  <2> QED
    BY <2>3, <2>4
<1>2. CASE GenNotFound
  BY <1>1, <1>2 DEF GenNotFound, Unknown, Known
<1>3. CASE GenGet
  BY <1>1, <1>3 DEF GenGet, Known
<1>4. CASE GenPut
  <2>1. PICK k \in Keys, v \in Values : Emit(PutLine(k, v)) /\ state' = [state EXCEPT ![k] = v]
    BY <1>4 DEF GenPut, AfterPut
  <2> DEFINE l == PutLine(k, v)
  <2>2. l \in Line /\ l.method = "PUT" /\ l.key = k /\ l.value = v /\ l \notin Scan
    BY DEF PutLine, Line, Scan
  <2>3. /\ line' = l /\ line' # NoLine
        /\ client = "running" /\ client' = client /\ store' = store
        /\ \A j \in Keys : state[j] = Visible(j) /\ Visible(j)' = Visible(j)
    BY <2>1, <2>2, Emitted
  <2> HIDE DEF l
  <2>4. state' \in [Keys -> Values \cup {Absent}]
    BY <1>0, <2>1
  <2>5. OneLineAhead'
    BY <1>0, <2>1, <2>2, <2>3 DEF OneLineAhead, HasMethod
  <2>6. TypeOK' /\ ClientIsAt' /\ StopsAtTombstones' /\ ScanIsExact'
    BY <2>2, <2>3, <2>4 DEF TypeOK, ClientIsAt, StopsAtTombstones, ScanIsExact
  <2> QED
    BY <2>5, <2>6
<1>5. CASE GenDelete
  <2>1. PICK k \in Known : Emit(DeleteLine(k)) /\ state' = [state EXCEPT ![k] = Absent]
    BY <1>5 DEF GenDelete, WithoutKey
  <2> DEFINE l == DeleteLine(k)
  <2>2. l \in Line /\ l.method = "DELETE" /\ l.key = k /\ l \notin Scan /\ k \in Keys
    BY <1>0 DEF DeleteLine, Line, Scan
  <2>3. /\ line' = l /\ line' # NoLine
        /\ client = "running" /\ client' = client /\ store' = store
        /\ \A j \in Keys : state[j] = Visible(j) /\ Visible(j)' = Visible(j)
    BY <2>1, <2>2, Emitted
  <2> HIDE DEF l
  <2>4. state' \in [Keys -> Values \cup {Absent}]
    BY <1>0, <2>1
  <2>5. OneLineAhead'
    BY <1>0, <2>1, <2>2, <2>3 DEF OneLineAhead, HasMethod
  <2>6. TypeOK' /\ ClientIsAt' /\ StopsAtTombstones' /\ ScanIsExact'
    BY <2>2, <2>3, <2>4 DEF TypeOK, ClientIsAt, StopsAtTombstones, ScanIsExact
  <2> QED
    BY <2>5, <2>6
<1>6. CASE GenScan
  <2>1. PICK from \in Keys :
          IF Known = {} THEN \E to \in Keys : Emit(ScanLine(from, to, <<>>))
                        ELSE Emit(BoundedRange(from))
    BY <1>6 DEF GenScan
  <2>2. state' = state
    BY <1>6 DEF GenScan
  <2>3. ASSUME NEW l \in Scan, Emit(l), Len(l.keys) <= RangeLimit,
               Range(l.keys) = RangeKeys(l.from, l.to),
               \A i \in 1 .. Len(l.keys) - 1 : Before(l.keys[i], l.keys[i + 1])
        PROVE  Invariant'
    <3>1. /\ line' = l /\ line' # NoLine /\ l.method = "SCAN"
          /\ client = "running" /\ client' = client /\ store' = store
          /\ \A j \in Keys : state[j] = Visible(j) /\ Visible(j)' = Visible(j)
      BY <2>3, Emitted DEF Scan
    <3>2. OneLineAhead'
      BY <2>2, <3>1 DEF OneLineAhead, HasMethod
    <3>3. TypeOK' /\ ClientIsAt' /\ StopsAtTombstones'
      BY <2>2, <2>3, <3>1 DEF TypeOK, ClientIsAt, StopsAtTombstones
    <3>4. RangeKeys(l.from, l.to)' = RangeKeys(l.from, l.to)
      BY <2>2 DEF RangeKeys, Known
    <3>5. ScanIsExact'
      BY <2>2, <2>3, <3>1, <3>4 DEF ScanIsExact, RangeKeys, Known
    <3> QED
      BY <3>2, <3>3, <3>5
  <2>4. CASE Known = {}
    <3>1. PICK to \in Keys : Emit(ScanLine(from, to, <<>>))
      BY <2>1, <2>4
    <3> DEFINE l == ScanLine(from, to, <<>>)
    <3>2. l \in Scan /\ l.keys = <<>>
      BY KeyType DEF Scan, ScanLine
    <3>3. Len(l.keys) <= RangeLimit /\ Range(l.keys) = {} /\ 1 .. Len(l.keys) - 1 = {}
      BY <3>2, LoadTestAssumption DEF Range
    <3>4. RangeKeys(l.from, l.to) = {}
      BY <2>4 DEF RangeKeys
    <3> HIDE DEF l
    <3> QED
      BY <2>3, <3>1, <3>2, <3>3, <3>4 DEF l
  <2>5. CASE Known # {}
    BY <2>1, <2>3, <2>5, BoundedRangeIsExact
  <2> QED
    BY <2>4, <2>5
<1> QED
  BY <1>2, <1>3, <1>4, <1>5, <1>6 DEF Generate

\* The client replays a line: it gets the answer the generator wrote down, unless
\* the key has a tombstone.
LEMMA ReplayStep == ASSUME Invariant, Replay PROVE Invariant'
<1> USE DEF Invariant
<1>0. /\ store \in [Keys -> Values \cup {Deleted, Absent}]
      /\ state \in [Keys -> Values \cup {Absent}]
      /\ Absent \notin Values /\ Deleted \notin Values /\ NotFound \notin Values
      /\ line # NoLine /\ client # "waiting"
  BY LoadTestAssumption
     DEF TypeOK, Replay, ClientGet, ClientPut, ClientDelete, ClientScan, ClientIsAt
<1>1. ASSUME line' = NoLine, UNCHANGED <<state, client>>, client = "running",
             store' \in [Keys -> Values \cup {Deleted, Absent}],
             \A k \in Keys : state[k] = Visible(k)'
      PROVE  Invariant'
  <2>1. TypeOK'
    BY <1>1, NoLineAssumption DEF TypeOK
  <2>2. OneLineAhead' /\ ClientIsAt' /\ StopsAtTombstones' /\ ScanIsExact'
    BY <1>1 DEF OneLineAhead, HasMethod, ClientIsAt, StopsAtTombstones, ScanIsExact
  <2> QED
    BY <2>1, <2>2
<1>2. client = "stopped" => line.method = "GET"
  BY DEF ClientIsAt, HasMethod
<1>3. client \in {"running", "stopped"}
  BY <1>0 DEF TypeOK
<1>4. CASE ClientGet
  <2> DEFINE k == line.key
  <2>1. k \in Keys /\ line.method = "GET" /\ client = "running" /\ store' = store
    BY <1>0, <1>4, LineTypes DEF ClientGet
  <2>2. \A j \in Keys : state[j] = Visible(j) /\ Visible(j)' = Visible(j)
    BY <1>0, <2>1 DEF OneLineAhead, HasMethod, Visible
  <2>3. line.expected = IF state[k] = Absent THEN NotFound ELSE state[k]
    BY <1>0, <2>1 DEF OneLineAhead, HasMethod
  <2>4. CASE Accepts(GetAnswer(StoreReply(k)), line.expected)
    <3>1. line' = NoLine /\ UNCHANGED <<state, client>>
      BY <1>4, <2>4 DEF ClientGet, NextLine
    <3> QED
      BY <1>0, <1>1, <2>1, <2>2, <3>1
  <2>5. CASE ~ Accepts(GetAnswer(StoreReply(k)), line.expected)
    <3>1. client' = "stopped" /\ UNCHANGED <<state, line>>
      BY <1>4, <2>5 DEF ClientGet
    <3>2. store[k] = Deleted /\ line.expected = NotFound
      <4>1. CASE store[k] \in Values
        <5>1. state[k] = store[k] /\ line.expected = store[k] /\ line.expected # NotFound
          BY <1>0, <2>1, <2>2, <2>3, <4>1 DEF Visible
        <5>2. StoreReply(k) = [status |-> "found", key |-> k, content |-> store[k]]
          BY <1>0, <4>1 DEF StoreReply
        <5>3. GetAnswer(StoreReply(k)) = Answer(200, store[k])
          BY <5>2 DEF GetAnswer
        <5> QED
          BY <2>5, <5>1, <5>3 DEF Accepts, Answer
      <4>2. CASE store[k] = Absent /\ store[k] # Deleted
        <5>1. state[k] = Absent /\ line.expected = NotFound
          BY <2>1, <2>2, <2>3, <4>2 DEF Visible
        <5>2. StoreReply(k) = [status |-> "notfound", key |-> k]
          BY <4>2 DEF StoreReply
        <5>3. GetAnswer(StoreReply(k)) = Answer(404, Empty)
          BY <5>2 DEF GetAnswer
        <5> QED
          BY <2>5, <5>1, <5>3 DEF Accepts, Answer
      <4>3. CASE store[k] = Deleted
        BY <2>1, <2>2, <2>3, <4>3 DEF Visible
      <4> QED
        BY <1>0, <2>1, <4>1, <4>2, <4>3
    <3>3. TypeOK' /\ OneLineAhead'
      BY <1>0, <2>1, <2>2, <2>3, <3>1 DEF TypeOK, OneLineAhead, HasMethod, Visible
    <3>4. ClientIsAt' /\ StopsAtTombstones' /\ ScanIsExact'
      BY <1>0, <2>1, <3>1, <3>2 DEF ClientIsAt, HasMethod, StopsAtTombstones, ScanIsExact
    <3> QED
      BY <3>3, <3>4
  <2> QED
    BY <2>4, <2>5
<1>5. CASE ClientPut
  <2>1. /\ line.method = "PUT" /\ line.key \in Keys /\ line.value \in Values
        /\ store' = [store EXCEPT ![line.key] = line.value]
        /\ line' = NoLine /\ UNCHANGED <<state, client>>
    BY <1>0, <1>5, LineTypes DEF ClientPut, NextLine
  <2>2. \A k \in Keys : state[k] = Visible(k)'
    BY <1>0, <2>1 DEF OneLineAhead, HasMethod, Visible
  <2> QED
    BY <1>0, <1>1, <1>2, <1>3, <2>1, <2>2
<1>6. CASE ClientDelete
  <2>1. /\ line.method = "DELETE" /\ line.key \in Keys
        /\ store' = [store EXCEPT ![line.key] = Deleted]
        /\ line' = NoLine /\ UNCHANGED <<state, client>>
    BY <1>0, <1>6, LineTypes DEF ClientDelete, NextLine
  <2>2. \A k \in Keys : state[k] = Visible(k)'
    BY <1>0, <2>1 DEF OneLineAhead, HasMethod, Visible
  <2> QED
    BY <1>0, <1>1, <1>2, <1>3, <2>1, <2>2
<1>7. CASE ClientScan
  <2>1. /\ line.method = "SCAN" /\ store' = store
        /\ line' = NoLine /\ UNCHANGED <<state, client>>
    BY <1>7 DEF ClientScan, NextLine
  <2>2. \A k \in Keys : state[k] = Visible(k)'
    BY <1>0, <2>1 DEF OneLineAhead, HasMethod, Visible
  <2> QED
    BY <1>0, <1>1, <1>2, <1>3, <2>1, <2>2
<1> QED
  BY <1>4, <1>5, <1>6, <1>7 DEF Replay

\* The invariant is inductive.
LEMMA InvariantStep == Invariant /\ [Next]_vars => Invariant'
<1> SUFFICES ASSUME Invariant, [Next]_vars PROVE Invariant'
  OBVIOUS
<1> USE DEF Invariant
<1>1. CASE Reset
  <2>1. /\ client = "waiting" /\ client' = "running" /\ line = NoLine
        /\ store' = [k \in Keys |-> Absent] /\ UNCHANGED <<state, line>>
        /\ \A k \in Keys : state[k] = Absent
    BY <1>1 DEF Reset, EmptyStore, ClientIsAt
  <2>2. \A k \in Keys : Visible(k)' = Absent
    BY <2>1 DEF Visible
  <2> QED
    BY <2>1, <2>2, NoLineAssumption
       DEF TypeOK, OneLineAhead, HasMethod, ClientIsAt, StopsAtTombstones, ScanIsExact
<1>2. CASE Forget
  <2>1. PICK k \in Keys : store[k] = Deleted /\ store' = [store EXCEPT ![k] = Absent]
    BY <1>2 DEF Forget
  <2>2. client = "running" /\ UNCHANGED <<state, line, client>>
    BY <1>2 DEF Forget
  <2>3. \A j \in Keys : Visible(j)' = Visible(j)
    BY <2>1 DEF Visible, TypeOK
  <2>4. TypeOK' /\ OneLineAhead'
    BY <2>1, <2>2, <2>3 DEF TypeOK, OneLineAhead, HasMethod
  <2>5. ClientIsAt' /\ StopsAtTombstones' /\ ScanIsExact'
    BY <2>2 DEF ClientIsAt, StopsAtTombstones, ScanIsExact, RangeKeys, Known
  <2> QED
    BY <2>4, <2>5
<1>3. CASE UNCHANGED vars
  BY <1>3 DEF vars, TypeOK, OneLineAhead, HasMethod, Visible, ClientIsAt, StopsAtTombstones,
     ScanIsExact, RangeKeys, Known
<1> QED
  BY <1>1, <1>2, <1>3, GenerateStep, ReplayStep DEF Next

\* It holds before reset.sh, whatever an earlier test has left.
LEMMA InvariantInit == Init => Invariant
<1> SUFFICES ASSUME Init PROVE Invariant
  OBVIOUS
<1>1. /\ state = [k \in Keys |-> Absent] /\ line = NoLine /\ client = "waiting"
      /\ NoLine \notin Scan
  BY NoLineAssumption DEF Init
<1>2. store \in [Keys -> Values \cup {Deleted, Absent}]
  BY DEF Init
<1>3. TypeOK
  BY <1>1, <1>2 DEF TypeOK
<1>4. OneLineAhead /\ ClientIsAt /\ StopsAtTombstones /\ ScanIsExact
  BY <1>1 DEF OneLineAhead, HasMethod, ClientIsAt, StopsAtTombstones, ScanIsExact
<1> QED
  BY <1>3, <1>4 DEF Invariant

\* The generator writes lines the client can read.
THEOREM TypeCorrect == Spec => []TypeOK
<1>1. Invariant => TypeOK
  BY DEF Invariant
<1> QED
  BY <1>1, InvariantInit, InvariantStep, PTL DEF Spec

\* Between two lines the generator's map is what the server holds, although a
\* compaction may drop a tombstone at any moment (gen/main.go:65-205).
THEOREM GeneratorStaysInStep == Spec => []GeneratorAgrees
<1>1. Invariant => GeneratorAgrees
  BY DEF Invariant, GeneratorAgrees, OneLineAhead, HasMethod, Visible
<1> QED
  BY <1>1, InvariantInit, InvariantStep, PTL DEF Spec

\* The client stops for one reason only: it expects 404 for a key whose tombstone
\* the server still has (client/main.go:158-210, get_value.go:86).
THEOREM OnlyTombstonesStop == Spec => []StopsAtTombstones
<1>1. Invariant => StopsAtTombstones
  BY DEF Invariant
<1> QED
  BY <1>1, InvariantInit, InvariantStep, PTL DEF Spec

\* A SCAN lists, in order, the known keys of the range it names and no other,
\* whatever the alphabet, the length of the keys and the limit
\* (gen/main.go:248-298).
THEOREM ScansAreExact == Spec => []ScanIsExact
<1>1. Invariant => ScanIsExact
  BY DEF Invariant
<1> QED
  BY <1>1, InvariantInit, InvariantStep, PTL DEF Spec
=============================================================================
