----------------------------- MODULE DataLemmas -----------------------------
(***************************************************************************)
(* Facts about the operators the models are built from: extrema of sets of *)
(* numbers, positions in a sorted set, and sequences.                      *)
(***************************************************************************)
EXTENDS Integers, SequencesExt, FiniteSetTheorems, TLAPS

\* Every nonempty set of natural numbers has a least element.
LEMMA LeastElement ==
  ASSUME NEW T, T \subseteq Nat, T # {}
  PROVE  \E x \in T : \A y \in T : x <= y
<1>1. PICK x \in T : \A y \in T : ~ (<<y, x>> \in OpToRel(<, Nat))
  BY WFMin, NatLessThanWellFounded, Zenon
<1>2. ASSUME NEW y \in T PROVE x <= y
  <2>1. x \in Nat /\ y \in Nat
    OBVIOUS
  <2>2. y < x => <<y, x>> \in OpToRel(<, Nat)
    BY <2>1, Zenon DEF OpToRel
  <2>3. ~ (y < x)
    BY <1>1, <2>2, Zenon
  <2> QED
    BY <2>1, <2>3
<1> QED
  BY <1>2

\* Max and Min are what their names say.
LEMMA MinOfNats ==
  ASSUME NEW T, T \subseteq Nat, T # {}
  PROVE  Min(T) \in T /\ \A y \in T : Min(T) <= y
BY LeastElement DEF Min

\* The greatest element of a bounded set of naturals.
LEMMA MaxOfNats ==
  ASSUME NEW T, T \subseteq Nat, T # {}, NEW b \in Nat, \A y \in T : y <= b
  PROVE  Max(T) \in T /\ \A y \in T : y <= Max(T)
<1> DEFINE Bounds == {m \in Nat : \A y \in T : y <= m}
<1>1. PICK m \in Bounds : \A n \in Bounds : m <= n
  BY LeastElement
<1>2. m \in T
  <2> SUFFICES ASSUME m \notin T PROVE FALSE
    OBVIOUS
  <2>1. \A y \in T : y <= m - 1
    BY <1>1
  <2>2. PICK y \in T : y \in Nat /\ y <= m - 1
    BY <2>1
  <2>3. m - 1 \in Nat /\ m \in Nat
    BY <1>1, <2>2
  <2>4. m - 1 \in Bounds
    BY <2>1, <2>3
  <2> QED
    BY <1>1, <2>3, <2>4
<1> QED
  BY <1>1, <1>2 DEF Max

\* A sequence of natural numbers is bounded.
LEMMA SequenceBounded ==
  ASSUME NEW s \in Seq(Nat)
  PROVE  \E b \in Nat : \A y \in Range(s) : y <= b
<1> DEFINE BoundedUpTo(n) == \E b \in Nat : \A i \in 1 .. n : s[i] <= b
           Unbounded == {n \in 0 .. Len(s) : ~ BoundedUpTo(n)}
<1>0. Len(s) \in Nat /\ \A i \in 1 .. Len(s) : s[i] \in Nat
  OBVIOUS
<1>1. BoundedUpTo(0)
  BY 0 \in Nat
<1>2. ASSUME NEW n \in 1 .. Len(s), BoundedUpTo(n - 1)
      PROVE  BoundedUpTo(n)
  <2>1. PICK b \in Nat : \A i \in 1 .. n - 1 : s[i] <= b
    BY <1>2
  <2>2. s[n] \in Nat /\ n \in Nat
    BY <1>0
  <2>3. b + s[n] \in Nat
    BY <2>2
  <2>4. ASSUME NEW i \in 1 .. n PROVE s[i] <= b + s[n]
    <3>1. CASE i = n
      BY <2>2, <3>1
    <3>2. CASE i # n
      <4>1. i \in 1 .. n - 1 /\ s[i] \in Nat
        BY <1>0, <3>2
      <4> QED
        BY <2>1, <2>2, <4>1
    <3> QED
      BY <3>1, <3>2
  <2> QED
    BY <2>3, <2>4
<1> HIDE DEF BoundedUpTo
<1>3. Unbounded = {}
  <2> SUFFICES ASSUME Unbounded # {} PROVE FALSE
    OBVIOUS
  <2>1. Unbounded \subseteq Nat
    BY <1>0
  <2>2. PICK n \in Unbounded : \A m \in Unbounded : n <= m
    BY <2>1, LeastElement
  <2>3. n \in 0 .. Len(s) /\ ~ BoundedUpTo(n) /\ n # 0
    BY <1>1
  <2>4. n \in 1 .. Len(s) /\ n - 1 \in 0 .. Len(s) /\ ~ (n <= n - 1)
    BY <1>0, <2>3
  <2>5. ~ BoundedUpTo(n - 1)
    BY <1>2, <2>3, <2>4
  <2> QED
    BY <2>2, <2>4, <2>5
<1>4. BoundedUpTo(Len(s))
  BY <1>0, <1>3
<1> QED
  BY <1>0, <1>4 DEF BoundedUpTo, Range

\* The greatest ID of a list, or 0, is a number no ID of the list exceeds.
LEMMA MaxOfRange ==
  ASSUME NEW s \in Seq(Nat)
  PROVE  /\ Max(Range(s) \cup {0}) \in Nat
         /\ \A y \in Range(s) : y <= Max(Range(s) \cup {0})
<1> DEFINE T == Range(s) \cup {0}
<1>1. T \subseteq Nat /\ T # {}
  BY DEF Range
<1>2. PICK b \in Nat : \A y \in T : y <= b
  BY SequenceBounded
<1> HIDE DEF T
<1>3. Max(T) \in T /\ \A y \in T : y <= Max(T)
  BY <1>1, <1>2, MaxOfNats
<1> QED
  BY <1>1, <1>3 DEF T

\* Reverse keeps the type and the elements of a sequence.
LEMMA ReverseKeeps ==
  ASSUME NEW S, NEW s \in Seq(S)
  PROVE  Reverse(s) \in Seq(S) /\ Range(Reverse(s)) = Range(s)
<1>1. /\ Reverse(s) = [i \in 1 .. Len(s) |-> s[(Len(s) - i) + 1]]
      /\ Len(s) \in Nat /\ DOMAIN s = 1 .. Len(s)
  BY DEF Reverse
<1>2. \A i \in 1 .. Len(s) : (Len(s) - i) + 1 \in 1 .. Len(s)
  BY <1>1
<1>3. \A i \in 1 .. Len(s) : s[i] \in S
  OBVIOUS
<1>4. Reverse(s) \in [1 .. Len(s) -> S]
  BY <1>1, <1>2, <1>3
<1>5. Reverse(s) \in Seq(S)
  BY <1>1, <1>4
<1>6. Range(Reverse(s)) \subseteq Range(s)
  BY <1>1, <1>2 DEF Range
<1>7. ASSUME NEW i \in DOMAIN s
      PROVE  s[i] \in Range(Reverse(s))
  <2>1. /\ (Len(s) - i) + 1 \in 1 .. Len(s)
        /\ (Len(s) - ((Len(s) - i) + 1)) + 1 = i
    BY <1>1
  <2>2. Reverse(s)[(Len(s) - i) + 1] = s[i]
    BY <1>1, <2>1
  <2> QED
    BY <1>1, <2>1, <2>2 DEF Range
<1> QED
  BY <1>5, <1>6, <1>7 DEF Range

\* Reverse undoes itself.
LEMMA ReverseTwice ==
  ASSUME NEW S, NEW s \in Seq(S)
  PROVE  Reverse(Reverse(s)) = s
<1> DEFINE r == Reverse(s)
           n == Len(s)
<1>1. n \in Nat /\ DOMAIN s = 1 .. n /\ s = [i \in 1 .. n |-> s[i]]
  OBVIOUS
<1>2. r = [i \in 1 .. n |-> s[(n - i) + 1]]
  BY DEF Reverse
<1>3. r \in Seq(S) /\ DOMAIN r = 1 .. n
  BY <1>2, ReverseKeeps
<1>4. Len(r) = n
  BY <1>1, <1>3
<1>5. Reverse(r) = [i \in 1 .. n |-> r[(n - i) + 1]]
  BY <1>4 DEF Reverse
<1> HIDE DEF r, n
<1>6. \A i \in 1 .. n : (n - i) + 1 \in 1 .. n /\ (n - ((n - i) + 1)) + 1 = i
  BY <1>1
<1>7. \A i \in 1 .. n : r[(n - i) + 1] = s[i]
  BY <1>2, <1>6
<1> QED
  BY <1>1, <1>5, <1>7 DEF r

\* The elements of a concatenation, of an extended sequence and of a tail.
LEMMA ConcatRange ==
  ASSUME NEW S, NEW s \in Seq(S), NEW t \in Seq(S)
  PROVE  s \o t \in Seq(S) /\ Range(s \o t) = Range(s) \cup Range(t)
<1>1. /\ s \o t \in Seq(S) /\ Len(s \o t) = Len(s) + Len(t)
      /\ \A i \in 1 .. Len(s) : (s \o t)[i] = s[i]
      /\ \A i \in 1 .. Len(t) : (s \o t)[Len(s) + i] = t[i]
  OBVIOUS
<1>2. Range(s \o t) \subseteq Range(s) \cup Range(t)
  <2> SUFFICES ASSUME NEW x \in Range(s \o t)
               PROVE  x \in Range(s) \cup Range(t)
    OBVIOUS
  <2>1. PICK i \in 1 .. Len(s) + Len(t) : x = (s \o t)[i]
    BY <1>1 DEF Range
  <2>2. CASE i <= Len(s)
    BY <1>1, <2>1, <2>2 DEF Range
  <2>3. CASE i > Len(s)
    <3>1. i - Len(s) \in 1 .. Len(t) /\ Len(s) + (i - Len(s)) = i
      BY <2>1, <2>3
    <3> QED
      BY <1>1, <2>1, <3>1 DEF Range
  <2> QED
    BY <2>1, <2>2, <2>3
<1>3. Range(s) \subseteq Range(s \o t)
  BY <1>1 DEF Range
<1>4. Range(t) \subseteq Range(s \o t)
  <2> SUFFICES ASSUME NEW i \in 1 .. Len(t) PROVE t[i] \in Range(s \o t)
    BY DEF Range
  <2>1. Len(s) + i \in 1 .. Len(s \o t)
    BY <1>1
  <2> QED
    BY <1>1, <2>1 DEF Range
<1> QED
  BY <1>1, <1>2, <1>3, <1>4

\* Append adds one element, which is the last.
LEMMA AppendKeeps ==
  ASSUME NEW S, NEW s \in Seq(S), NEW x \in S
  PROVE  /\ Append(s, x) \in Seq(S)
         /\ Len(Append(s, x)) = Len(s) + 1
         /\ \A i \in 1 .. Len(s) : Append(s, x)[i] = s[i]
         /\ Last(Append(s, x)) = x
         /\ Range(Append(s, x)) = Range(s) \cup {x}
<1>1. /\ Append(s, x) \in Seq(S) /\ Len(Append(s, x)) = Len(s) + 1
      /\ \A i \in 1 .. Len(s) : Append(s, x)[i] = s[i]
      /\ Append(s, x)[Len(s) + 1] = x
  OBVIOUS
<1>2. Range(Append(s, x)) = Range(s) \cup {x}
  BY <1>1 DEF Range
<1> QED
  BY <1>1, <1>2 DEF Last

\* Head and Tail of a sequence that is not empty.
LEMMA TailKeeps ==
  ASSUME NEW S, NEW s \in Seq(S), s # <<>>
  PROVE  /\ Head(s) \in Range(s) /\ Tail(s) \in Seq(S)
         /\ Range(Tail(s)) \subseteq Range(s)
<1>1. /\ Tail(s) \in Seq(S) /\ Len(Tail(s)) = Len(s) - 1
      /\ \A i \in 1 .. Len(Tail(s)) : Tail(s)[i] = s[i + 1]
      /\ Len(s) \in Nat /\ Len(s) # 0 /\ DOMAIN s = 1 .. Len(s)
  OBVIOUS
<1>2. Head(s) = s[1] /\ 1 \in DOMAIN s
  BY <1>1
<1>3. \A i \in 1 .. Len(Tail(s)) : i + 1 \in DOMAIN s
  BY <1>1
<1> QED
  BY <1>1, <1>2, <1>3 DEF Range

-----------------------------------------------------------------------------
(* Sorted sets *)

\* How many elements of S come before x in the order R.
Preceding(x, S, R) == Cardinality({y \in S : <<y, x>> \in R})

\* A strict total order on the elements of S.
Orders(R, S) ==
  /\ \A x \in S : <<x, x>> \notin R
  /\ \A x, y, z \in S : <<x, y>> \in R /\ <<y, z>> \in R => <<x, z>> \in R
  /\ \A x, y \in S : x = y \/ <<x, y>> \in R \/ <<y, x>> \in R

\* The ranks grow with the order, and an element comes before more of a larger set.
LEMMA RanksGrow ==
  ASSUME NEW S, IsFiniteSet(S), NEW R, Orders(R, S)
  PROVE  /\ \A x \in S : Preceding(x, S, R) \in 0 .. Cardinality(S) - 1
         /\ \A x, y \in S : <<x, y>> \in R <=> Preceding(x, S, R) < Preceding(y, S, R)
         /\ \A x, y \in S : Preceding(x, S, R) = Preceding(y, S, R) => x = y
<1> DEFINE Below(x) == {y \in S : <<y, x>> \in R}
<1>1. /\ Cardinality(S) \in Nat
      /\ \A x \in S : IsFiniteSet(Below(x)) /\ Cardinality(Below(x)) \in Nat
  <2>1. \A x \in S : Below(x) \in SUBSET S
    OBVIOUS
  <2> QED
    BY <2>1, FS_Subset, FS_CardinalityType
<1>2. ASSUME NEW x \in S PROVE Cardinality(Below(x)) < Cardinality(S)
  <2>1. Below(x) \in SUBSET S /\ x \in S /\ x \notin Below(x)
    BY DEF Orders
  <2>2. Cardinality(Below(x)) <= Cardinality(S) /\ Cardinality(S) # Cardinality(Below(x))
    BY <2>1, FS_Subset
  <2> QED
    BY <1>1, <2>2
<1>3. ASSUME NEW x \in S, NEW y \in S, <<x, y>> \in R
      PROVE  Cardinality(Below(x)) < Cardinality(Below(y))
  <2>1. Below(x) \in SUBSET Below(y) /\ x \in Below(y) /\ x \notin Below(x)
    BY <1>3 DEF Orders
  <2>2. /\ Cardinality(Below(x)) <= Cardinality(Below(y))
        /\ Cardinality(Below(y)) # Cardinality(Below(x))
    BY <1>1, <2>1, FS_Subset
  <2> QED
    BY <1>1, <2>2
<1>4. ASSUME NEW x \in S, NEW y \in S
      PROVE  x = y \/ <<x, y>> \in R \/ <<y, x>> \in R
  BY DEF Orders
<1>5. \A x \in S : Preceding(x, S, R) = Cardinality(Below(x))
  BY DEF Preceding
<1> HIDE DEF Below
<1>6. \A x \in S : Preceding(x, S, R) \in 0 .. Cardinality(S) - 1
  BY <1>1, <1>2, <1>5
<1>7. ASSUME NEW x \in S, NEW y \in S
      PROVE  /\ <<x, y>> \in R <=> Preceding(x, S, R) < Preceding(y, S, R)
             /\ Preceding(x, S, R) = Preceding(y, S, R) => x = y
  <2>1. Cardinality(Below(x)) \in Nat /\ Cardinality(Below(y)) \in Nat
    BY <1>1
  <2>2. /\ <<x, y>> \in R => Cardinality(Below(x)) < Cardinality(Below(y))
        /\ <<y, x>> \in R => Cardinality(Below(y)) < Cardinality(Below(x))
        /\ x = y \/ <<x, y>> \in R \/ <<y, x>> \in R
    BY <1>3, <1>4
  <2> QED
    BY <1>5, <2>1, <2>2
<1> QED
  BY <1>6, <1>7

\* Every rank is that of an element.
LEMMA RanksAreTaken ==
  ASSUME NEW S, IsFiniteSet(S), NEW R, Orders(R, S),
         NEW i \in 0 .. Cardinality(S) - 1
  PROVE  \E x \in S : Preceding(x, S, R) = i
<1> SUFFICES ASSUME \A x \in S : Preceding(x, S, R) # i PROVE FALSE
  OBVIOUS
<1> DEFINE n == Cardinality(S)
           Others == (0 .. n - 1) \ {i}
           rank == [x \in S |-> Preceding(x, S, R)]
<1>1. n \in Nat /\ i \in 0 .. n - 1
  BY FS_CardinalityType
<1>2. IsFiniteSet(0 .. n - 1) /\ Cardinality(0 .. n - 1) = n
  <2>1. 0 \in Int /\ n - 1 \in Int
    BY <1>1
  <2>2. IsFiniteSet(0 .. n - 1) /\ Cardinality(0 .. n - 1) = IF 0 > n - 1 THEN 0 ELSE (n - 1) - 0 + 1
    BY <2>1, FS_Interval
  <2> QED
    BY <1>1, <2>2
<1>3. IsFiniteSet(Others) /\ Cardinality(Others) = n - 1
  <2> HIDE DEF n
  <2> QED
    BY <1>1, <1>2, FS_RemoveElement
<1>4. rank \in [S -> Others]
  BY RanksGrow
<1>5. PICK x, y \in S : x # y /\ rank[x] = rank[y]
  <2>1. Cardinality(Others) < Cardinality(S)
    BY <1>1, <1>3
  <2> HIDE DEF Others, rank
  <2> QED
    BY <1>3, <1>4, <2>1, FS_PigeonHole
<1> QED
  BY <1>5, RanksGrow

-----------------------------------------------------------------------------
(* Sets of numbers in order *)

\* A set that is enumerated without repetition has as many elements as numbers
\* were used.
LEMMA Enumerated ==
  ASSUME NEW n \in Nat, NEW S, NEW f \in [1 .. n -> S],
         \A i, j \in 1 .. n : f[i] = f[j] => i = j,
         \A x \in S : \E i \in 1 .. n : f[i] = x
  PROVE  IsFiniteSet(S) /\ Cardinality(S) = n
<1>1. f \in Surjection(1 .. n, S)
  BY DEF Surjection
<1>2. IsFiniteSet(1 .. n) /\ Cardinality(1 .. n) = n
  BY FS_Interval
<1>3. IsFiniteSet(S) /\ Cardinality(S) <= n /\ Cardinality(S) \in Nat
  BY <1>1, <1>2, FS_Surjection, FS_CardinalityType
<1>4. ~ (Cardinality(S) < n)
  <2> SUFFICES ASSUME Cardinality(S) < n PROVE FALSE
    OBVIOUS
  <2>1. \E i, j \in 1 .. n : i # j /\ f[i] = f[j]
    BY <1>2, <1>3, FS_PigeonHole
  <2> QED
    BY <2>1
<1> QED
  BY <1>3, <1>4

\* How many elements of S are less than x.
NumberBelow(x, S) == Cardinality({y \in S : y < x})

\* It is the rank of x in the order of the numbers.
LEMMA NumberBelowIsRank ==
  ASSUME NEW S, S \subseteq Nat
  PROVE  LET R == {p \in Nat \X Nat : p[1] < p[2]}
         IN  /\ Orders(R, S)
             /\ \A x \in S : Preceding(x, S, R) = NumberBelow(x, S)
             /\ \A x, z \in S : <<x, z>> \in R <=> x < z
<1> DEFINE R == {p \in Nat \X Nat : p[1] < p[2]}
<1>1. Orders(R, S)
  <2>1. \A x, y \in S : <<x, y>> \in R <=> x < y
    OBVIOUS
  <2>2. \A x \in S : x \in Nat
    OBVIOUS
  <2> HIDE DEF R
  <2> QED
    BY <2>1, <2>2 DEF Orders
<1>2. ASSUME NEW x \in S PROVE Preceding(x, S, R) = NumberBelow(x, S)
  <2>1. {y \in S : y < x} = {y \in S : <<y, x>> \in R}
    OBVIOUS
  <2> QED
    BY <2>1 DEF Preceding, NumberBelow
<1>3. \A x, z \in S : <<x, z>> \in R <=> x < z
  OBVIOUS
<1> HIDE DEF R
<1>4. Orders(R, S) /\ (\A x \in S : Preceding(x, S, R) = NumberBelow(x, S))
      /\ \A x, z \in S : <<x, z>> \in R <=> x < z
  BY <1>1, <1>2, <1>3
<1> QED
  BY <1>4 DEF R

\* It tells the elements of S apart and is smaller for smaller ones; it takes every
\* value less than the size of S.
LEMMA NumbersBelow ==
  ASSUME NEW S, S \subseteq Nat, IsFiniteSet(S)
  PROVE  /\ \A x \in S : NumberBelow(x, S) \in 0 .. Cardinality(S) - 1
         /\ \A x, z \in S : x < z <=> NumberBelow(x, S) < NumberBelow(z, S)
         /\ \A x, z \in S : NumberBelow(x, S) = NumberBelow(z, S) => x = z
         /\ \A i \in 0 .. Cardinality(S) - 1 : \E x \in S : NumberBelow(x, S) = i
<1>1. PICK R :
        /\ Orders(R, S)
        /\ \A x \in S : Preceding(x, S, R) = NumberBelow(x, S)
        /\ \A x, z \in S : <<x, z>> \in R <=> x < z
  BY NumberBelowIsRank
<1>2. ASSUME NEW i \in 0 .. Cardinality(S) - 1
      PROVE  \E x \in S : NumberBelow(x, S) = i
  <2>1. PICK x \in S : Preceding(x, S, R) = i
    BY <1>1, RanksAreTaken
  <2> QED
    BY <1>1, <2>1
<1>3. /\ \A x \in S : Preceding(x, S, R) \in 0 .. Cardinality(S) - 1
      /\ \A x, z \in S : <<x, z>> \in R <=> Preceding(x, S, R) < Preceding(z, S, R)
      /\ \A x, z \in S : Preceding(x, S, R) = Preceding(z, S, R) => x = z
  BY <1>1, RanksGrow
<1>4. \A x \in S : NumberBelow(x, S) \in 0 .. Cardinality(S) - 1
  BY <1>1, <1>3
<1>5. ASSUME NEW x \in S, NEW z \in S
      PROVE  /\ x < z <=> NumberBelow(x, S) < NumberBelow(z, S)
             /\ NumberBelow(x, S) = NumberBelow(z, S) => x = z
  <2>1. Preceding(x, S, R) = NumberBelow(x, S) /\ Preceding(z, S, R) = NumberBelow(z, S)
    BY <1>1
  <2>2. <<x, z>> \in R <=> x < z
    BY <1>1
  <2>3. /\ <<x, z>> \in R <=> Preceding(x, S, R) < Preceding(z, S, R)
        /\ Preceding(x, S, R) = Preceding(z, S, R) => x = z
    BY <1>3
  <2> QED
    BY <2>1, <2>2, <2>3, Zenon
<1> QED
  BY <1>2, <1>4, <1>5

\* Only an element of S adds to the number of those below the numbers after it.
LEMMA NumberBelowNext ==
  ASSUME NEW S, S \subseteq Nat, IsFiniteSet(S), NEW x \in Int
  PROVE  /\ NumberBelow(x, S) \in Nat
         /\ NumberBelow(x + 1, S) = NumberBelow(x, S) + (IF x \in S THEN 1 ELSE 0)
<1> DEFINE less == {y \in S : y < x}
<1>1. IsFiniteSet(less) /\ x \notin less /\ Cardinality(less) \in Nat
  <2>1. less \in SUBSET S /\ ~ (x < x)
    OBVIOUS
  <2>2. IsFiniteSet(less)
    BY <2>1, FS_Subset
  <2> QED
    BY <2>1, <2>2, FS_CardinalityType
<1>2. {y \in S : y < x + 1} = IF x \in S THEN less \cup {x} ELSE less
  <2>1. \A y \in S : y < x + 1 <=> (y < x \/ y = x)
    OBVIOUS
  <2> QED
    BY <2>1
<1>3. NumberBelow(x, S) = Cardinality(less)
  BY DEF NumberBelow
<1> HIDE DEF less
<1>4. Cardinality(less \cup {x}) = Cardinality(less) + 1
  BY <1>1, FS_AddElement
<1> QED
  BY <1>1, <1>2, <1>3, <1>4 DEF NumberBelow
=============================================================================
