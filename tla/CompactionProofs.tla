-------------------------- MODULE CompactionProofs --------------------------
(***************************************************************************)
(* Theorems about the merge of compact(), for any number of SSTables of    *)
(* any size.                                                               *)
(***************************************************************************)
EXTENDS CompactionProperties, DataLemmas

-----------------------------------------------------------------------------
(* SSTable files *)

\* What is read from a file is a table, and only of keys that JSON keeps.
LEMMA FileType ==
  ASSUME NEW file \in Files
  PROVE  file \in Table /\ \A k \in Keys : file[k] # NoEntry => DecodedKey(k) = k
<1>1. PICK table \in Table : file = ReadBack(table)
  BY DEF Files
<1> DEFINE Hits(k) == {j \in Keys : DecodedKey(j) = k /\ table[j] # NoEntry}
<1>2. file = [k \in Keys |-> IF Hits(k) = {} THEN NoEntry
                             ELSE Decoded(table[Min(Hits(k))])]
  BY <1>1 DEF ReadBack
<1>3. ASSUME NEW k \in Keys, Hits(k) # {}
      PROVE  Decoded(table[Min(Hits(k))]) \in Slot /\ DecodedKey(k) = k
  <2>1. Hits(k) \subseteq Nat
    BY KeysAssumption
  <2>2. Min(Hits(k)) \in Hits(k)
    BY <1>3, <2>1, MinOfNats
  <2>3. table[Min(Hits(k))] \in Slot
    BY <2>2 DEF Table
  <2>4. Decoded(table[Min(Hits(k))]) \in Slot
    BY <2>3, RoundTripAssumption DEF Decoded, Slot, Entry
  <2>5. DecodedKey(k) = k
    BY <2>2, KeyRoundTripAssumption DEF DecodedKey
  <2> QED
    BY <2>4, <2>5
<1> QED
  BY <1>2, <1>3 DEF Table, Slot

-----------------------------------------------------------------------------
(* The entries of an SSTable *)

\* The keys that an SSTable has an entry for.
Occupied(table) == {k \in Keys : table[k] # NoEntry}

\* Keys are numbers, and there are finitely many of them in any set.
LEMMA KeySets ==
  ASSUME NEW S, S \subseteq Keys
  PROVE  S \subseteq Nat /\ IsFiniteSet(S) /\ Cardinality(S) \in Nat
BY KeysAssumption, FS_Subset, FS_CardinalityType

\* An element of an SSTable file.
LEMMA ContentsElement ==
  ASSUME NEW s \in Contents
  PROVE  /\ Len(s) \in Nat /\ DOMAIN s = 1 .. Len(s)
         /\ \A p \in 1 .. Len(s) : /\ s[p] = [key |-> s[p].key, entry |-> s[p].entry]
                                  /\ s[p].key \in Keys /\ s[p].entry \in Entry
<1> DEFINE R == [key : Keys, entry : Entry]
<1>1. s \in Seq(R)
  BY DEF Contents
<1>2. \A e \in R : e = [key |-> e.key, entry |-> e.entry] /\ e.key \in Keys /\ e.entry \in Entry
  OBVIOUS
<1> HIDE DEF R
<1>3. Len(s) \in Nat /\ DOMAIN s = 1 .. Len(s) /\ \A p \in 1 .. Len(s) : s[p] \in R
  BY <1>1
<1> QED
  BY <1>2, <1>3

\* newSSTable's sort: an entry for every key that has one, in key order.
LEMMA EntriesAre ==
  ASSUME NEW table \in Table
  PROVE  LET E == Entries(table)
         IN  /\ E \in Contents /\ Len(E) = Cardinality(Occupied(table))
             /\ \A p \in 1 .. Len(E) :
                  /\ E[p].key \in Occupied(table) /\ E[p].entry = table[E[p].key]
                  /\ NumberBelow(E[p].key, Occupied(table)) = p - 1
             /\ \A p, q \in 1 .. Len(E) : p < q => E[p].key < E[q].key
             /\ \A k \in Occupied(table) : \E p \in 1 .. Len(E) : E[p].key = k
<1> DEFINE E == Entries(table)
           S == Occupied(table)
           n == Cardinality(S)
           Upto(k) == Cardinality({j \in Keys : table[j] # NoEntry /\ j <= k})
           Kth(i) == CHOOSE k \in Keys : table[k] # NoEntry /\ Upto(k) = i
<1>1. S \subseteq Keys /\ S \subseteq Nat /\ IsFiniteSet(S) /\ n \in Nat
  BY KeySets DEF Occupied
<1>2. ASSUME NEW k \in S PROVE Upto(k) = NumberBelow(k, S) + 1
  <2>1. \A j \in S : j <= k <=> j < k + 1
    BY <1>1
  <2>2. {j \in Keys : table[j] # NoEntry /\ j <= k} = {j \in S : j < k + 1}
    BY <2>1 DEF Occupied
  <2>3. Upto(k) = NumberBelow(k + 1, S)
    BY <2>2 DEF NumberBelow
  <2>4. k \in Int
    BY <1>1
  <2> HIDE DEF Upto, S
  <2> QED
    BY <1>1, <2>3, <2>4, NumberBelowNext
<1>3. ASSUME NEW i \in 1 .. n
      PROVE  Kth(i) \in S /\ NumberBelow(Kth(i), S) = i - 1
  <2>1. i - 1 \in 0 .. n - 1
    BY <1>1
  <2>2. PICK k \in S : NumberBelow(k, S) = i - 1
    <3> HIDE DEF S
    <3> QED
      BY <1>1, <2>1, NumbersBelow
  <2>3. k \in Keys /\ table[k] # NoEntry /\ Upto(k) = i
    BY <1>2, <2>2 DEF Occupied
  <2> HIDE DEF Upto
  <2>4. Kth(i) \in Keys /\ table[Kth(i)] # NoEntry /\ Upto(Kth(i)) = i
    BY <2>3
  <2> HIDE DEF Kth
  <2>5. Kth(i) \in S
    BY <2>4 DEF Occupied
  <2>6. NumberBelow(Kth(i), S) \in Nat
    <3>1. \A m \in S : m \in Int
      BY <1>1
    <3> HIDE DEF S
    <3> QED
      BY <1>1, <2>5, <3>1, NumberBelowNext
  <2>7. NumberBelow(Kth(i), S) + 1 = i
    BY <1>2, <2>4, <2>5
  <2> HIDE DEF S
  <2> QED
    BY <2>5, <2>6, <2>7
<1>4. E = [i \in 1 .. n |-> [key |-> Kth(i), entry |-> table[Kth(i)]]]
  BY DEF Entries, Occupied
<1> HIDE DEF Kth, Upto, E, n
<1>5. ASSUME NEW i \in 1 .. n
      PROVE  /\ E[i] \in [key : Keys, entry : Entry]
             /\ E[i].key \in S /\ E[i].entry = table[E[i].key]
             /\ NumberBelow(E[i].key, S) = i - 1
  <2>1. E[i] = [key |-> Kth(i), entry |-> table[Kth(i)]] /\ Kth(i) \in S
    BY <1>3, <1>4
  <2>2. Kth(i) \in Keys /\ table[Kth(i)] \in Entry
    BY <2>1 DEF Occupied, Table, Slot
  <2> QED
    BY <1>3, <2>1, <2>2
<1>6. E \in Contents /\ Len(E) = n
  <2>1. E \in [1 .. n -> [key : Keys, entry : Entry]]
    BY <1>4, <1>5
  <2> DEFINE R == [key : Keys, entry : Entry]
  <2>2. E \in [1 .. n -> R]
    BY <2>1
  <2> HIDE DEF R
  <2>3. E \in Seq(R) /\ Len(E) = n
    BY <1>1, <2>2
  <2> QED
    BY <2>3 DEF R, Contents
<1>7. ASSUME NEW p \in 1 .. n, NEW q \in 1 .. n, p < q
      PROVE  E[p].key < E[q].key
  <2>1. NumberBelow(E[p].key, S) < NumberBelow(E[q].key, S)
    BY <1>1, <1>5, <1>7
  <2> HIDE DEF S
  <2> QED
    BY <1>1, <1>5, <2>1, NumbersBelow
<1>8. ASSUME NEW k \in S
      PROVE  \E p \in 1 .. n : E[p].key = k
  <2>1. NumberBelow(k, S) \in 0 .. n - 1
    <3> HIDE DEF S
    <3> QED
      BY <1>1, NumbersBelow DEF n
  <2>2. NumberBelow(k, S) + 1 \in 1 .. n
    BY <1>1, <2>1
  <2> DEFINE p == NumberBelow(k, S) + 1
  <2>3. E[p].key \in S /\ NumberBelow(E[p].key, S) = NumberBelow(k, S)
    BY <1>5, <2>1, <2>2
  <2>4. E[p].key = k
    <3> HIDE DEF S, p
    <3> QED
      BY <1>1, <2>3, NumbersBelow
  <2> QED
    BY <2>2, <2>4
<1>9. /\ E \in Contents /\ Len(E) = Cardinality(S)
      /\ \A p \in 1 .. Len(E) :
           /\ E[p].key \in S /\ E[p].entry = table[E[p].key]
           /\ NumberBelow(E[p].key, S) = p - 1
      /\ \A p, q \in 1 .. Len(E) : p < q => E[p].key < E[q].key
      /\ \A k \in S : \E p \in 1 .. Len(E) : E[p].key = k
  <2> HIDE DEF S
  <2> QED
    BY <1>5, <1>6, <1>7, <1>8 DEF n
<1> QED
  BY <1>9 DEF E

-----------------------------------------------------------------------------
(* The heap *)

E(i) == Entries(tables[i])

HeapAt(items, i) == \E x \in items : x.sstableIndex = i

\* The heap holds, of some of the SSTables, the entry that the iterator is at.
Holds(items, at) ==
  \A x \in items :
    LET i == x.sstableIndex
    IN  i \in DOMAIN tables /\ at[i] \in 1 .. Len(E(i)) /\ x = ItemAt(i, at[i])

\* What is not in the heap and not to come has been passed: no SSTable has an entry
\* for a key after this one that an iterator has gone by.
Passed(items, at, key) ==
  \A i \in DOMAIN tables : \A p \in 1 .. Len(E(i)) :
    (HeapAt(items, i) => p < at[i]) => E(i)[p].key <= key

AtLeast(items, key) == \A x \in items : key <= x.key

\* What the entries of the merged SSTables are.
LEMMA TableEntries ==
  ASSUME TypeOK, NEW i \in DOMAIN tables
  PROVE  /\ tables[i] \in Table /\ E(i) \in Contents /\ Len(E(i)) \in Nat
         /\ DOMAIN E(i) = 1 .. Len(E(i)) /\ i \in Nat \ {0}
         /\ \A p \in 1 .. Len(E(i)) :
              /\ E(i)[p].key \in Keys /\ E(i)[p].key \in Nat
              /\ E(i)[p].entry \in Entry /\ E(i)[p].entry = tables[i][E(i)[p].key]
         /\ \A p, q \in 1 .. Len(E(i)) : p < q => E(i)[p].key < E(i)[q].key
         /\ \A k \in Keys : tables[i][k] # NoEntry
                              => \E p \in 1 .. Len(E(i)) : E(i)[p].key = k
<1>1. tables[i] \in Table /\ i \in Nat \ {0}
  BY FileType DEF TypeOK
<1>2. E(i) \in Contents /\ \A p \in 1 .. Len(E(i)) :
        E(i)[p].key \in Occupied(tables[i]) /\ E(i)[p].entry = tables[i][E(i)[p].key]
  BY <1>1, EntriesAre DEF E
<1>3. /\ \A p, q \in 1 .. Len(E(i)) : p < q => E(i)[p].key < E(i)[q].key
      /\ \A k \in Occupied(tables[i]) : \E p \in 1 .. Len(E(i)) : E(i)[p].key = k
  BY <1>1, EntriesAre DEF E
<1>4. Len(E(i)) \in Nat /\ DOMAIN E(i) = 1 .. Len(E(i))
  BY <1>2 DEF Contents
<1>5. \A p \in 1 .. Len(E(i)) : E(i)[p].key \in Keys /\ E(i)[p].entry \in Entry
  BY <1>2, ContentsElement
<1> QED
  BY <1>1, <1>2, <1>3, <1>4, <1>5, KeysAssumption DEF Occupied

\* What the items in the heap are.
LEMMA HeapItem ==
  ASSUME TypeOK, NEW items, NEW at, Holds(items, at), NEW x \in items
  PROVE  LET i == x.sstableIndex
         IN  /\ i \in DOMAIN tables /\ i \in Nat \ {0} /\ at[i] \in 1 .. Len(E(i))
             /\ x.key = E(i)[at[i]].key /\ x.key \in Keys /\ x.key \in Nat
             /\ x.entry = tables[i][x.key] /\ x.entry \in Entry
             /\ x \in Item /\ x = [sstableIndex |-> i, key |-> x.key, entry |-> x.entry]
<1> DEFINE i == x.sstableIndex
<1>1. i \in DOMAIN tables /\ at[i] \in 1 .. Len(E(i)) /\ x = ItemAt(i, at[i])
  BY DEF Holds
<1>2. x = [sstableIndex |-> i, key |-> E(i)[at[i]].key, entry |-> E(i)[at[i]].entry]
  BY <1>1 DEF ItemAt, E
<1> HIDE DEF i
<1>3. x.key = E(i)[at[i]].key /\ x.entry = E(i)[at[i]].entry
  BY <1>2
<1> QED
  BY <1>1, <1>2, <1>3, TableEntries DEF Item, i

\* heap.Pop returns an item with the least key, of the newest SSTable that has it.
LEMMA LeastIs ==
  ASSUME TypeOK, NEW items, NEW at, Holds(items, at), items # {}
  PROVE  LET x == Least(items)
         IN  /\ x \in items /\ AtLeast(items, x.key)
             /\ \A y \in items : y.key = x.key => x.sstableIndex <= y.sstableIndex
<1> DEFINE keys == {y.key : y \in items}
<1>1. \A y \in items : y.key \in Nat /\ y.sstableIndex \in Nat
  BY HeapItem
<1>2. PICK k \in keys : \A j \in keys : k <= j
  <2>1. keys \subseteq Nat /\ keys # {}
    BY <1>1
  <2> HIDE DEF keys
  <2> QED
    BY <2>1, LeastElement
<1> DEFINE indices == {y.sstableIndex : y \in {z \in items : z.key = k}}
<1>3. PICK i \in indices : \A j \in indices : i <= j
  <2>1. indices \subseteq Nat /\ indices # {}
    BY <1>1, <1>2
  <2> HIDE DEF indices
  <2> QED
    BY <2>1, LeastElement
<1>4. PICK x \in items : x.key = k /\ x.sstableIndex = i
  BY <1>3
<1>5. \A y \in items \ {x} : Less(x, y)
  <2> SUFFICES ASSUME NEW y \in items \ {x} PROVE Less(x, y)
    OBVIOUS
  <2>1. x.key <= y.key
    BY <1>2, <1>4
  <2>2. CASE x.key = y.key
    <3>1. x.sstableIndex <= y.sstableIndex
      BY <1>3, <1>4, <2>2
    <3>2. x.sstableIndex # y.sstableIndex
      BY DEF Holds
    <3> QED
      BY <1>1, <2>2, <3>1, <3>2 DEF Less
  <2>3. CASE x.key # y.key
    BY <1>1, <2>1, <2>3 DEF Less
  <2> QED
    BY <2>2, <2>3
<1> DEFINE l == Least(items)
<1>6. l \in items /\ \A y \in items \ {l} : Less(l, y)
  BY <1>5 DEF Least
<1> HIDE DEF l
<1>7. ASSUME NEW y \in items
      PROVE  l.key <= y.key /\ (y.key = l.key => l.sstableIndex <= y.sstableIndex)
  <2>1. CASE y = l
    BY <1>1, <1>6, <2>1
  <2>2. CASE y # l
    BY <1>1, <1>6, <2>2 DEF Less
  <2> QED
    BY <2>1, <2>2
<1> QED
  BY <1>6, <1>7 DEF l, AtLeast

\* When an item with the least key is taken out and its iterator moves on, the heap
\* stays what it is, and what is left has the same key or a greater one.
LEMMA AdvanceKeeps ==
  ASSUME TypeOK, Holds(h, index), NEW x \in h, AtLeast(h, x.key), Passed(h, index, x.key),
         h' = Advanced(x), AdvanceIterator(x)
  PROVE  /\ Holds(h', index') /\ AtLeast(h', x.key) /\ Passed(h', index', x.key)
         /\ index' \in [DOMAIN tables -> Nat]
         /\ \A i \in DOMAIN tables : index'[i] = 1 \/ index'[i] \in 1 .. Len(E(i))
<1> DEFINE i == x.sstableIndex
           rest == h \ {x}
<1>1. /\ i \in DOMAIN tables /\ index[i] \in 1 .. Len(E(i)) /\ Len(E(i)) \in Nat
      /\ x.key = E(i)[index[i]].key /\ x.key \in Nat
      /\ \A p, q \in 1 .. Len(E(i)) : p < q => E(i)[p].key < E(i)[q].key
      /\ \A p \in 1 .. Len(E(i)) : E(i)[p].key \in Nat
      /\ \A y \in h : y.key \in Nat
  BY HeapItem, TableEntries
<1>2. \A y \in rest : y.sstableIndex # i
  BY DEF Holds
<1>3. /\ index \in [DOMAIN tables -> Nat]
      /\ \A j \in DOMAIN tables : index[j] = 1 \/ index[j] \in 1 .. Len(E(j))
  BY TableEntries DEF TypeOK, E
<1>4. \A j \in DOMAIN tables \ {i} : HeapAt(rest, j) <=> HeapAt(h, j)
  BY DEF HeapAt
<1>5. ~ HeapAt(rest, i)
  BY <1>2 DEF HeapAt
<1>6. ASSUME NEW p \in 1 .. Len(E(i)), p <= index[i]
      PROVE  E(i)[p].key <= x.key
  BY <1>1, <1>6
<1>7. CASE HasNext(i)
  <2> DEFINE y == ItemAt(i, index[i] + 1)
  <2>1. h' = rest \cup {y} /\ index' = [index EXCEPT ![i] = @ + 1]
    BY <1>7 DEF Advanced, AdvanceIterator
  <2>2. index[i] + 1 \in 1 .. Len(E(i)) /\ index'[i] = index[i] + 1
    BY <1>1, <1>3, <1>7, <2>1 DEF HasNext, E
  <2>3. y.sstableIndex = i /\ y.key = E(i)[index[i] + 1].key /\ x.key < y.key
    BY <1>1, <2>2 DEF ItemAt, E
  <2>4. \A j \in DOMAIN tables \ {i} : index'[j] = index[j]
    BY <1>3, <2>1
  <2>5. Holds(h', index')
    BY <1>1, <1>2, <2>1, <2>2, <2>3, <2>4 DEF Holds
  <2>6. AtLeast(h', x.key)
    BY <1>1, <2>1, <2>3, TableEntries, <2>2 DEF AtLeast
  <2>7. Passed(h', index', x.key)
    <3> SUFFICES ASSUME NEW j \in DOMAIN tables, NEW p \in 1 .. Len(E(j)),
                        HeapAt(h', j) => p < index'[j]
                 PROVE  E(j)[p].key <= x.key
      BY DEF Passed
    <3>1. CASE j = i
      <4>1. HeapAt(h', i)
        BY <2>1, <2>3 DEF HeapAt
      <4>2. p <= index[i]
        BY <1>1, <2>2, <3>1, <4>1
      <4> QED
        BY <1>6, <3>1, <4>2
    <3>2. CASE j # i
      <4>1. HeapAt(h, j) => HeapAt(h', j)
        BY <1>4, <2>1, <3>2 DEF HeapAt
      <4> QED
        BY <2>4, <3>2, <4>1 DEF Passed
    <3> QED
      BY <3>1, <3>2
  <2> HIDE DEF y, rest
  <2>8. index' \in [DOMAIN tables -> Nat]
    BY <1>1, <1>3, <2>1
  <2>9. \A j \in DOMAIN tables : index'[j] = 1 \/ index'[j] \in 1 .. Len(E(j))
    BY <1>3, <2>2, <2>4
  <2> QED
    BY <2>5, <2>6, <2>7, <2>8, <2>9
<1>8. CASE ~ HasNext(i)
  <2>1. h' = rest /\ index' = index
    BY <1>8 DEF Advanced, AdvanceIterator
  <2>2. Holds(h', index') /\ AtLeast(h', x.key)
    BY <2>1 DEF Holds, AtLeast
  <2>3. Passed(h', index', x.key)
    <3> SUFFICES ASSUME NEW j \in DOMAIN tables, NEW p \in 1 .. Len(E(j)),
                        HeapAt(h', j) => p < index'[j]
                 PROVE  E(j)[p].key <= x.key
      BY DEF Passed
    <3>1. CASE j = i
      <4>1. p <= index[i]
        BY <1>1, <1>8, <3>1 DEF HasNext, E
      <4> QED
        BY <1>6, <3>1, <4>1
    <3>2. CASE j # i
      BY <1>4, <2>1, <3>2 DEF Passed
    <3> QED
      BY <3>1, <3>2
  <2> QED
    BY <1>3, <2>1, <2>2, <2>3
<1> QED
  BY <1>7, <1>8

-----------------------------------------------------------------------------
(* The newest entry of a key *)

Holders(k) == {i \in DOMAIN tables : tables[i][k] # NoEntry}

\* What a lookup in the merged SSTables finds.
NewestEntry(k) == IF Holders(k) = {} THEN NoEntry ELSE tables[Min(Holders(k))][k]

\* The keys that the merge keeps.
LiveKeys == {k \in Keys : NewestEntry(k) \notin {NoEntry, Deleted}}

\* The newest SSTable that has an entry of a key decides.
LEMMA NewestIs ==
  ASSUME TypeOK, NEW k, NEW i \in Holders(k), \A j \in Holders(k) : i <= j
  PROVE  NewestEntry(k) = tables[i][k]
<1>1. Holders(k) \subseteq Nat
  BY DEF Holders, TypeOK
<1>2. Min(Holders(k)) \in Holders(k) /\ Min(Holders(k)) <= i
  BY <1>1, MinOfNats
<1>3. Min(Holders(k)) = i
  BY <1>1, <1>2
<1> QED
  BY <1>3 DEF NewestEntry

\* A key that the merge keeps is in an SSTable.
LEMMA LiveIsHeld ==
  ASSUME TypeOK, NEW k \in LiveKeys
  PROVE  \E i \in DOMAIN tables : \E p \in 1 .. Len(E(i)) : E(i)[p].key = k
<1>1. Holders(k) # {} /\ k \in Keys
  BY DEF LiveKeys, NewestEntry
<1>2. PICK i \in DOMAIN tables : tables[i][k] # NoEntry
  BY <1>1 DEF Holders
<1> QED
  BY <1>1, <1>2, TableEntries

\* The item that heap.Pop returns has the newest entry of its key, and there is no
\* key between it and the one before.
LEMMA PoppedIsNewest ==
  ASSUME TypeOK, h # {}, Holds(h, index), NEW key \in Int, Passed(h, index, key),
         AtLeast(h, key + 1)
  PROVE  LET x == Least(h)
         IN  /\ x.entry = NewestEntry(x.key)
             /\ \A k \in LiveKeys : k <= key \/ x.key <= k
<1> DEFINE x == Least(h)
<1>1. /\ x \in h /\ AtLeast(h, x.key)
      /\ \A y \in h : y.key = x.key => x.sstableIndex <= y.sstableIndex
  BY LeastIs
<1> HIDE DEF x
<1>2. /\ x.sstableIndex \in DOMAIN tables /\ x.sstableIndex \in Nat
      /\ x.key \in Keys /\ x.key \in Nat
      /\ x.entry = tables[x.sstableIndex][x.key] /\ x.entry \in Entry
  BY <1>1, HeapItem
<1>3. ASSUME NEW j \in DOMAIN tables, NEW p \in 1 .. Len(E(j)), key < E(j)[p].key
      PROVE  \E y \in h : y.sstableIndex = j /\ y.key <= E(j)[p].key
  <2>1. E(j)[p].key \in Nat /\ Len(E(j)) \in Nat
        /\ \A q \in 1 .. Len(E(j)) : q < p => E(j)[q].key < E(j)[p].key
    BY TableEntries
  <2>2. HeapAt(h, j) /\ ~ (p < index[j])
    BY <1>3, <2>1 DEF Passed
  <2>3. PICK y \in h : y.sstableIndex = j
    BY <2>2 DEF HeapAt
  <2>4. y.key = E(j)[index[j]].key /\ index[j] \in 1 .. Len(E(j)) /\ y.key \in Nat
    BY <2>3, HeapItem
  <2>5. index[j] < p \/ index[j] = p
    BY <2>1, <2>2, <2>4
  <2> QED
    BY <2>1, <2>3, <2>4, <2>5
<1>4. key < x.key
  BY <1>1, <1>2 DEF AtLeast
<1>5. ASSUME NEW j \in Holders(x.key) PROVE x.sstableIndex <= j
  <2>1. PICK p \in 1 .. Len(E(j)) : E(j)[p].key = x.key
    BY <1>2, <1>5, TableEntries DEF Holders
  <2>2. PICK y \in h : y.sstableIndex = j /\ y.key <= x.key
    BY <1>3, <1>4, <1>5, <2>1 DEF Holders
  <2>3. y.key = x.key
    <3>1. y.key \in Nat
      BY HeapItem
    <3> QED
      BY <1>1, <1>2, <2>2, <3>1 DEF AtLeast
  <2> QED
    BY <1>1, <2>2, <2>3
<1>6. x.entry = NewestEntry(x.key)
  <2>1. x.sstableIndex \in Holders(x.key)
    BY <1>2, EntriesAssumption DEF Holders, Entry
  <2> QED
    BY <1>2, <1>5, <2>1, NewestIs
<1>7. ASSUME NEW k \in LiveKeys, key < k PROVE x.key <= k
  <2>0. PICK j \in DOMAIN tables : \E p \in 1 .. Len(E(j)) : E(j)[p].key = k
    BY LiveIsHeld
  <2>1. PICK p \in 1 .. Len(E(j)) : E(j)[p].key = k
    BY <2>0
  <2>2. PICK y \in h : y.key <= k
    BY <1>3, <1>7, <2>1
  <2>3. y.key \in Nat /\ k \in Nat /\ x.key <= y.key
    BY <1>1, HeapItem, KeysAssumption DEF LiveKeys, AtLeast
  <2> QED
    BY <1>2, <2>2, <2>3
<1>8. \A k \in LiveKeys : k <= key \/ x.key <= k
  <2>1. \A k \in LiveKeys : k \in Int
    BY KeysAssumption DEF LiveKeys
  <2> QED
    BY <1>7, <2>1
<1> QED
  BY <1>6, <1>8 DEF x

-----------------------------------------------------------------------------
(* The inductive invariant of the loops *)

\* The heap holds the entries that the iterators are at, all that is not in it and
\* not to come has been passed, and the popped item has the newest entry of its key.
HeapState ==
  /\ pc = "load" => /\ h = {} /\ item = NoItem
                    /\ newSSTable = <<>> /\ saved = <<>>
                    /\ index = [i \in DOMAIN tables |-> 1]
  /\ pc \in {"pop", "drain"} => Holds(h, index) /\ Passed(h, index, item.key)
  /\ pc = "pop" => AtLeast(h, item.key + 1)
  /\ pc = "drain" => /\ AtLeast(h, item.key)
                     /\ item \in Item /\ item.entry = NewestEntry(item.key)

\* What is said of SSTables that do not change does not change.
LEMMA TablesStay ==
  ASSUME tables' = tables
  PROVE  /\ Item' = Item /\ LiveKeys' = LiveKeys
         /\ \A k : NewestEntry(k)' = NewestEntry(k)
BY DEF Item, LiveKeys, NewestEntry, Holders

\* The key of an item, and of the one before the first round.
LEMMA ItemKey ==
  ASSUME TypeOK
  PROVE  /\ item.key \in Int /\ -1 <= item.key
         /\ item.key = -1 \/ item.key \in Keys
<1>1. \A x \in Item : x.key \in Keys
  BY DEF Item
<1>2. NoItem.key = -1
  BY DEF NoItem
<1>3. item \in Item \/ item = NoItem
  BY DEF TypeOK
<1>4. item.key = -1 \/ item.key \in Keys
  BY <1>1, <1>2, <1>3
<1>5. CASE item.key = -1
  BY <1>5
<1>6. CASE item.key \in Keys
  <2>1. item.key \in Nat
    BY <1>6, KeysAssumption
  <2> QED
    BY <1>6, <2>1
<1> QED
  BY <1>4, <1>5, <1>6

\* Load puts the first entry of every SSTable that has one in the heap.
LEMMA LoadHeap ==
  ASSUME TypeOK, HeapState, Load
  PROVE  TypeOK' /\ HeapState'
<1>1. h' = {ItemAt(i, 1) : i \in {j \in DOMAIN tables : Entries(tables[j]) # <<>>}}
  BY DEF Load
<1>2. /\ pc = "load" /\ pc' = "pop"
      /\ tables' = tables /\ index' = index /\ item' = item
      /\ newSSTable' = newSSTable /\ saved' = saved
  BY DEF Load
<1>3. index = [i \in DOMAIN tables |-> 1] /\ item = NoItem
  BY <1>2 DEF HeapState
<1>4. ASSUME NEW i \in DOMAIN tables, E(i) # <<>>
      PROVE  index[i] \in 1 .. Len(E(i)) /\ ItemAt(i, 1).sstableIndex = i
             /\ ItemAt(i, 1) = ItemAt(i, index[i])
  <2>1. E(i) \in Contents
    BY TableEntries
  <2>2. Len(E(i)) \in Nat /\ Len(E(i)) # 0
    BY <1>4, <2>1 DEF Contents
  <2> QED
    BY <1>3, <2>2 DEF ItemAt
<1>5. Holds(h', index)
  BY <1>1, <1>4 DEF Holds, E
<1>6. Passed(h', index, item.key)
  <2> SUFFICES ASSUME NEW i \in DOMAIN tables, NEW p \in 1 .. Len(E(i)),
                      HeapAt(h', i) => p < index[i]
               PROVE  FALSE
    BY DEF Passed
  <2>1. E(i) # <<>>
    BY TableEntries
  <2>2. ItemAt(i, 1) \in h'
    BY <1>1, <2>1 DEF E
  <2>3. HeapAt(h', i)
    BY <1>4, <2>1, <2>2 DEF HeapAt
  <2>4. Len(E(i)) \in Nat
    BY TableEntries
  <2> QED
    BY <1>3, <2>3, <2>4
<1>7. AtLeast(h', item.key + 1) /\ h' \subseteq Item
  <2>1. \A x \in h' : x \in Item /\ x.key \in Nat
    BY <1>5, HeapItem
  <2>2. item.key = -1
    BY <1>3 DEF NoItem
  <2> QED
    BY <2>1, <2>2 DEF AtLeast
<1>8. TypeOK'
  BY <1>2, <1>7, TablesStay DEF TypeOK
<1> QED
  BY <1>2, <1>5, <1>6, <1>7, <1>8
     DEF HeapState, Holds, Passed, AtLeast, E, ItemAt

\* A round begins with the least item of the heap.
LEMMA PopHeap ==
  ASSUME TypeOK, HeapState, Pop
  PROVE  /\ TypeOK' /\ HeapState'
         /\ item.key < item'.key /\ item'.key \in Keys
         /\ \A k \in LiveKeys : k <= item.key \/ item'.key <= k
<1> DEFINE x == Least(h)
<1>1. /\ pc = "pop" /\ h # {} /\ h' = Advanced(x) /\ AdvanceIterator(x) /\ item' = x
      /\ pc' = "drain"
      /\ tables' = tables /\ newSSTable' = newSSTable /\ saved' = saved
  BY DEF Pop
<1>2. Holds(h, index) /\ Passed(h, index, item.key) /\ AtLeast(h, item.key + 1)
  BY <1>1 DEF HeapState
<1>3. item.key \in Int
  BY ItemKey
<1>4. /\ x \in h /\ AtLeast(h, x.key)
      /\ x.entry = NewestEntry(x.key)
      /\ \A k \in LiveKeys : k <= item.key \/ x.key <= k
  BY <1>1, <1>2, <1>3, LeastIs, PoppedIsNewest
<1> HIDE DEF x
<1>5. x \in Item /\ x.key \in Keys /\ x.key \in Nat
  BY <1>2, <1>4, HeapItem
<1>6. item.key < x.key
  BY <1>2, <1>3, <1>4, <1>5 DEF AtLeast
<1>7. Passed(h, index, x.key)
  <2>1. \A i \in DOMAIN tables : \A p \in 1 .. Len(E(i)) : E(i)[p].key \in Nat
    BY TableEntries
  <2> QED
    BY <1>2, <1>3, <1>5, <1>6, <2>1 DEF Passed
<1>8. /\ Holds(h', index') /\ AtLeast(h', x.key) /\ Passed(h', index', x.key)
      /\ index' \in [DOMAIN tables -> Nat]
      /\ \A i \in DOMAIN tables : index'[i] = 1 \/ index'[i] \in 1 .. Len(E(i))
  BY <1>1, <1>2, <1>4, <1>7, AdvanceKeeps
<1>9. h' \subseteq Item
  BY <1>8, HeapItem
<1>10. TypeOK'
  BY <1>1, <1>5, <1>8, <1>9, TablesStay, TableEntries DEF TypeOK, E
<1>11. HeapState'
  <2>1. Item' = Item /\ NewestEntry(x.key)' = NewestEntry(x'.key)
    BY <1>1, TablesStay
  <2>2. pc' = "drain" /\ item' = x /\ tables' = tables
    BY <1>1
  <2> QED
    BY <1>4, <1>5, <1>8, <2>2, TablesStay
       DEF HeapState, Holds, Passed, AtLeast, E, ItemAt, HeapAt
<1> QED
  BY <1>1, <1>4, <1>5, <1>6, <1>10, <1>11

\* The drain takes out an item with the key of the popped one.
LEMMA DrainHeap ==
  ASSUME TypeOK, HeapState, Drain
  PROVE  TypeOK' /\ HeapState'
<1> DEFINE x == Least(h)
<1>1. /\ pc = "drain" /\ h # {} /\ h' = Advanced(x) /\ AdvanceIterator(x)
      /\ x.key = item.key /\ pc' = pc
      /\ tables' = tables /\ item' = item
      /\ newSSTable' = newSSTable /\ saved' = saved
  BY DEF Drain, SameKey
<1>2. /\ Holds(h, index) /\ Passed(h, index, item.key) /\ AtLeast(h, item.key)
      /\ item \in Item /\ item.entry = NewestEntry(item.key)
  BY <1>1 DEF HeapState
<1>3. x \in h
  BY <1>1, <1>2, LeastIs
<1> HIDE DEF x
<1>4. /\ Holds(h', index') /\ AtLeast(h', x.key) /\ Passed(h', index', x.key)
      /\ index' \in [DOMAIN tables -> Nat]
      /\ \A i \in DOMAIN tables : index'[i] = 1 \/ index'[i] \in 1 .. Len(E(i))
  BY <1>1, <1>2, <1>3, AdvanceKeeps
<1>5. h' \subseteq Item
  BY <1>4, HeapItem
<1>6. TypeOK'
  BY <1>1, <1>4, <1>5, TablesStay, TableEntries DEF TypeOK, E
<1>7. HeapState'
  BY <1>1, <1>2, <1>4, TablesStay
     DEF HeapState, Holds, Passed, AtLeast, E, ItemAt, HeapAt
<1> QED
  BY <1>6, <1>7

\* When the drain ends only greater keys are left.
LEMMA KeepHeap ==
  ASSUME TypeOK, HeapState, Keep
  PROVE  HeapState'
<1>1. /\ pc = "drain" /\ (h # {} => Least(h).key # item.key) /\ pc' = "pop"
      /\ tables' = tables /\ index' = index /\ h' = h /\ item' = item
  BY DEF Keep, SameKey
<1>2. Holds(h, index) /\ Passed(h, index, item.key) /\ AtLeast(h, item.key)
  BY <1>1 DEF HeapState
<1>3. AtLeast(h, item.key + 1)
  <2> SUFFICES ASSUME NEW y \in h PROVE item.key + 1 <= y.key
    BY DEF AtLeast
  <2> DEFINE x == Least(h)
  <2>1. x \in h /\ AtLeast(h, x.key) /\ x.key # item.key
    BY <1>1, <1>2, LeastIs
  <2> HIDE DEF x
  <2>2. item.key <= x.key /\ x.key <= y.key
    BY <1>2, <2>1 DEF AtLeast
  <2>3. x.key \in Nat /\ y.key \in Nat /\ item.key \in Int
    BY <1>2, <2>1, HeapItem, ItemKey
  <2> QED
    BY <2>1, <2>2, <2>3
<1> QED
  BY <1>1, <1>2, <1>3, TablesStay
     DEF HeapState, Holds, Passed, AtLeast, E, ItemAt, HeapAt

\* The heap holds the least entry of every SSTable that has not been passed.
LEMMA HeapStateImplies ==
  ASSUME TypeOK, HeapState
  PROVE  HeapIsFrontier
<1> SUFFICES ASSUME pc = "pop" PROVE HeapIsFrontier
  BY DEF HeapIsFrontier
<1> DEFINE left == {j \in DOMAIN tables : Unmerged(j) # {}}
<1>1. Holds(h, index) /\ Passed(h, index, item.key) /\ AtLeast(h, item.key + 1)
  BY DEF HeapState
<1>2. item.key \in Int
  BY ItemKey
<1>3. ASSUME NEW i \in DOMAIN tables
      PROVE  /\ Unmerged(i) \subseteq 1 .. Len(E(i)) /\ Unmerged(i) \subseteq Nat
             /\ \A p \in 1 .. Len(E(i)) : p \in Unmerged(i) <=> item.key < E(i)[p].key
             /\ \A p \in 1 .. Len(E(i)) : E(i)[p].key \in Nat
  BY <1>2, <1>3, TableEntries DEF Unmerged, E
<1>4. ASSUME NEW i \in left
      PROVE  \E x \in h : x.sstableIndex = i
  <2>1. PICK p \in 1 .. Len(E(i)) : item.key < E(i)[p].key
    BY <1>3
  <2>2. ~ (E(i)[p].key <= item.key)
    BY <1>2, <1>3, <2>1
  <2> QED
    BY <1>1, <2>2 DEF Passed, HeapAt
<1>5. ASSUME NEW x \in h
      PROVE  /\ x.sstableIndex \in left
             /\ x = ItemAt(x.sstableIndex, Min(Unmerged(x.sstableIndex)))
  <2> DEFINE i == x.sstableIndex
  <2>0. x = ItemAt(i, index[i])
    BY <1>1 DEF Holds
  <2>1. /\ i \in DOMAIN tables /\ index[i] \in 1 .. Len(E(i)) /\ x.key = E(i)[index[i]].key
        /\ x.key \in Nat /\ x = ItemAt(i, index[i])
    BY <1>1, <2>0, HeapItem
  <2>2. HeapAt(h, i)
    BY DEF HeapAt
  <2> HIDE DEF i
  <2>3. item.key < E(i)[index[i]].key
    BY <1>1, <1>2, <2>1 DEF AtLeast
  <2>4. index[i] \in Unmerged(i)
    BY <1>3, <2>1, <2>3
  <2>5. ASSUME NEW p \in Unmerged(i) PROVE index[i] <= p
    <3>1. p \in 1 .. Len(E(i)) /\ item.key < E(i)[p].key /\ E(i)[p].key \in Nat
      BY <1>3, <2>1
    <3>2. ~ (p < index[i])
      BY <1>1, <1>2, <2>1, <3>1 DEF Passed
    <3> QED
      BY <2>1, <3>1, <3>2, TableEntries
  <2>6. Min(Unmerged(i)) = index[i]
    <3>1. Min(Unmerged(i)) \in Unmerged(i) /\ Min(Unmerged(i)) <= index[i]
      BY <1>3, <2>1, <2>4, MinOfNats
    <3> QED
      BY <1>3, <2>1, <2>4, <2>5, <3>1
  <2> QED
    BY <2>1, <2>4, <2>6 DEF i
<1>6. \A x, y \in h : x.sstableIndex = y.sstableIndex => x = y
  BY <1>1 DEF Holds
<1>7. h = {ItemAt(i, Min(Unmerged(i))) : i \in left}
  <2> HIDE DEF left
  <2> QED
    BY <1>4, <1>5, <1>6
<1> QED
  BY <1>7 DEF HeapIsFrontier

-----------------------------------------------------------------------------
(* The output *)

\* The number of entries in n full SSTables.
InFull(n) == n * MaxMemtableEntries

\* Every entry is the newest of a key that the merge keeps, at the place that the
\* number of kept keys below gives it.
Placed(entries, c, written) ==
  \A p \in 1 .. Len(entries) :
    LET k == entries[p].key
    IN  /\ k \in LiveKeys
        /\ NumberBelow(k, LiveKeys) = InFull(c - 1) + p - 1
        /\ entries[p].entry = IF written THEN Decoded(NewestEntry(k))
                                         ELSE NewestEntry(k)

\* The SSTables saved so far are full, and as many keys are in the output as the
\* merge has passed of those that it keeps.
OutputState ==
  /\ \A c \in 1 .. Len(saved) :
       /\ Placed(saved[c], c, TRUE)
       /\ Len(saved[c]) \in 1 .. MaxMemtableEntries
       /\ pc # "done" \/ c # Len(saved) => Len(saved[c]) = MaxMemtableEntries
  /\ Placed(newSSTable, Len(saved) + 1, FALSE)
  /\ Len(newSSTable) < MaxMemtableEntries
  /\ pc \in {"load", "pop"} =>
       NumberBelow(item.key + 1, LiveKeys) = InFull(Len(saved)) + Len(newSSTable)
  /\ pc = "drain" =>
       NumberBelow(item.key, LiveKeys) = InFull(Len(saved)) + Len(newSSTable)
  /\ pc = "done" =>
       /\ newSSTable = <<>>
       /\ Cardinality(LiveKeys) =
            IF saved = <<>> THEN 0
            ELSE InFull(Len(saved) - 1) + Len(saved[Len(saved)])

\* Counting by full SSTables.
LEMMA FullCounts ==
  /\ MaxMemtableEntries \in Nat \ {0} /\ InFull(0) = 0
  /\ \A n \in Nat : InFull(n) \in Nat /\ InFull(n + 1) = InFull(n) + MaxMemtableEntries
  /\ \A m, n \in Nat : m <= n => InFull(m) <= InFull(n)
<1>1. MaxMemtableEntries \in Nat \ {0}
  BY CompactionAssumption
<1>2. \A m \in Nat, n \in Nat, x \in Nat : m <= n => m * x <= n * x
  <2> SUFFICES ASSUME NEW m \in Nat, NEW n \in Nat, NEW x \in Nat, m <= n
               PROVE  m * x <= n * x
    OBVIOUS
  <2>1. n - m \in Nat /\ (n - m) * x \in Nat
    OBVIOUS
  <2>2. n * x = m * x + (n - m) * x
    OBVIOUS
  <2> QED
    BY <2>1, <2>2
<1>3. \A n \in Nat, x \in Nat : n * x \in Nat /\ (n + 1) * x = n * x + x /\ 0 * x = 0
  OBVIOUS
<1> QED
  BY <1>1, <1>2, <1>3 DEF InFull

\* What the keys that the merge keeps are, and their newest entries: JSON keeps
\* these keys too.
LEMMA LiveKeysAre ==
  ASSUME TypeOK
  PROVE  /\ LiveKeys \subseteq Keys /\ LiveKeys \subseteq Nat /\ IsFiniteSet(LiveKeys)
         /\ \A k \in LiveKeys : NewestEntry(k) \in Values /\ DecodedKey(k) = k
<1>1. LiveKeys \subseteq Keys
  BY DEF LiveKeys
<1>2. ASSUME NEW k \in LiveKeys PROVE NewestEntry(k) \in Values /\ DecodedKey(k) = k
  <2>1. k \in Keys /\ NewestEntry(k) # NoEntry /\ NewestEntry(k) # Deleted
    BY DEF LiveKeys
  <2>2. Holders(k) # {} /\ NewestEntry(k) = tables[Min(Holders(k))][k]
    BY <2>1 DEF NewestEntry
  <2>3. Holders(k) \subseteq Nat /\ Holders(k) \subseteq DOMAIN tables
    BY DEF Holders, TypeOK
  <2>4. Min(Holders(k)) \in DOMAIN tables
    BY <2>2, <2>3, MinOfNats
  <2>5. tables[Min(Holders(k))] \in Files
    BY <2>4 DEF TypeOK
  <2>6. tables[Min(Holders(k))] \in [Keys -> Slot] /\ DecodedKey(k) = k
    BY <2>1, <2>2, <2>5, FileType DEF Table
  <2>7. NewestEntry(k) \in Slot
    BY <2>1, <2>2, <2>6
  <2> QED
    BY <2>1, <2>6, <2>7 DEF Slot, Entry
<1> QED
  BY <1>1, <1>2, KeySets

\* A file has the entries that were written, their keys and entries decoded.
LEMMA WrittenIs ==
  ASSUME NEW entries \in Contents
  PROVE  /\ Written(entries) \in Contents /\ Len(Written(entries)) = Len(entries)
         /\ \A p \in 1 .. Len(entries) :
              /\ Written(entries)[p].key = DecodedKey(entries[p].key)
              /\ Written(entries)[p].entry = Decoded(entries[p].entry)
<1> DEFINE R == [key : Keys, entry : Entry]
           n == Len(entries)
           w == Written(entries)
           K(p) == DecodedKey(entries[p].key)
           D(p) == Decoded(entries[p].entry)
<1>1. n \in Nat /\ DOMAIN entries = 1 .. n /\ \A p \in 1 .. n :
        entries[p].key \in Keys /\ entries[p].entry \in Entry
  BY ContentsElement
<1>2. \A p \in 1 .. n : K(p) \in Keys /\ D(p) \in Entry
  BY <1>1, KeyRoundTripAssumption, RoundTripAssumption DEF DecodedKey, Decoded, Entry
<1>3. w = [p \in 1 .. n |-> [key |-> K(p), entry |-> D(p)]]
  BY <1>1 DEF Written
<1> HIDE DEF w, K, D, n
<1>4. w \in [1 .. n -> R]
  BY <1>2, <1>3
<1>5. \A p \in 1 .. n : w[p].key = K(p) /\ w[p].entry = D(p)
  BY <1>3
<1> HIDE DEF R
<1>6. w \in Seq(R) /\ Len(w) = n
  BY <1>1, <1>4
<1> QED
  BY <1>5, <1>6 DEF Contents, n, w, R, K, D

\* Writing a well placed SSTable decodes its entries in place.
LEMMA WrittenPlaced ==
  ASSUME TypeOK, NEW entries \in Contents, NEW c, Placed(entries, c, FALSE)
  PROVE  Placed(Written(entries), c, TRUE)
<1>1. \A p \in 1 .. Len(entries) :
        /\ entries[p].key \in LiveKeys
        /\ NumberBelow(entries[p].key, LiveKeys) = InFull(c - 1) + p - 1
        /\ entries[p].entry = NewestEntry(entries[p].key)
  BY DEF Placed
<1> QED
  BY <1>1, WrittenIs, LiveKeysAre DEF Placed

\* The empty SSTable is well placed.
LEMMA NothingPlaced == \A c, written : Placed(<<>>, c, written)
BY DEF Placed

\* An SSTable is appended to those saved.
LEMMA SavedGrows ==
  ASSUME TypeOK, NEW entries \in Contents, NEW s, s = Append(saved, entries)
  PROVE  /\ s \in Seq(Contents) /\ Len(saved) \in Nat /\ Len(s) = Len(saved) + 1
         /\ s # <<>> /\ s[Len(s)] = entries
         /\ \A c \in 1 .. Len(saved) : s[c] = saved[c]
<1>1. saved \in Seq(Contents) /\ Len(saved) \in Nat
  BY DEF TypeOK
<1>2. /\ s \in Seq(Contents) /\ Len(s) = Len(saved) + 1 /\ s[Len(saved) + 1] = entries
      /\ \A c \in 1 .. Len(saved) : s[c] = saved[c]
  BY <1>1
<1> QED
  BY <1>1, <1>2

\* No step but those that fill and save SSTables disturbs the output.
LEMMA OutputUnchanged ==
  ASSUME OutputState, tables' = tables, saved' = saved, newSSTable' = newSSTable,
         pc # "done", pc' # "done",
         pc' \in {"load", "pop"} =>
           NumberBelow(item'.key + 1, LiveKeys) = InFull(Len(saved)) + Len(newSSTable),
         pc' = "drain" =>
           NumberBelow(item'.key, LiveKeys) = InFull(Len(saved)) + Len(newSSTable)
  PROVE  OutputState'
<1>1. LiveKeys' = LiveKeys /\ \A k : NewestEntry(k)' = NewestEntry(k)
  BY TablesStay
<1>2. \A c \in 1 .. Len(saved) : Placed(saved[c], c, TRUE)'
  BY <1>1 DEF OutputState, Placed
<1>3. Placed(newSSTable, Len(saved) + 1, FALSE)'
  BY <1>1 DEF OutputState, Placed
<1> QED
  BY <1>1, <1>2, <1>3 DEF OutputState

\* The next kept key is the one of the popped item, or comes after it.
LEMMA PopOutput ==
  ASSUME TypeOK, HeapState, OutputState, Pop
  PROVE  OutputState'
<1>1. /\ pc = "pop" /\ pc' = "drain"
      /\ tables' = tables /\ saved' = saved /\ newSSTable' = newSSTable
  BY DEF Pop
<1>2. /\ item.key \in Int /\ item.key < item'.key /\ item'.key \in Nat
      /\ \A k \in LiveKeys : k <= item.key \/ item'.key <= k
      /\ LiveKeys \subseteq Nat
  BY PopHeap, ItemKey, LiveKeysAre, KeysAssumption
<1>3. \A k \in LiveKeys : k < item.key + 1 <=> k < item'.key
  BY <1>2
<1>4. NumberBelow(item.key + 1, LiveKeys) = NumberBelow(item'.key, LiveKeys)
  BY <1>3 DEF NumberBelow
<1>5. NumberBelow(item'.key, LiveKeys) = InFull(Len(saved)) + Len(newSSTable)
  BY <1>1, <1>4 DEF OutputState
<1> QED
  BY <1>1, <1>5, OutputUnchanged

\* The entry of the popped item, unless it is a tombstone, is the next one.
LEMMA KeepOutput ==
  ASSUME TypeOK, HeapState, OutputState, Keep
  PROVE  TypeOK' /\ OutputState'
<1> DEFINE k == item.key
           M == MaxMemtableEntries
           e == [key |-> k, entry |-> item.entry]
           more == Append(newSSTable, e)
           n == Len(newSSTable)
<1>1. /\ pc = "drain" /\ pc' = "pop"
      /\ tables' = tables /\ index' = index /\ h' = h /\ item' = item
  BY DEF Keep
<1>2. item \in Item /\ item.entry = NewestEntry(k)
  BY <1>1 DEF HeapState
<1>3. k \in Keys /\ k \in Nat /\ item.entry \in Entry /\ item.entry # NoEntry
  BY <1>2, KeysAssumption, EntriesAssumption DEF Item, Entry
<1>4. /\ LiveKeys \subseteq Nat /\ IsFiniteSet(LiveKeys)
      /\ NumberBelow(k, LiveKeys) \in Nat
      /\ NumberBelow(k + 1, LiveKeys)
           = NumberBelow(k, LiveKeys) + (IF k \in LiveKeys THEN 1 ELSE 0)
  BY <1>3, LiveKeysAre, NumberBelowNext
<1>5. NumberBelow(k, LiveKeys) = InFull(Len(saved)) + n /\ n < M
  BY <1>1 DEF OutputState
<1>6. n \in Nat /\ Len(saved) \in Nat /\ M \in Nat \ {0} /\ InFull(Len(saved)) \in Nat
      /\ newSSTable \in Contents
      /\ InFull(Len(saved) + 1) = InFull(Len(saved)) + M
  <2>1. newSSTable \in Contents /\ saved \in Seq(Contents)
    BY DEF TypeOK
  <2>2. n \in Nat /\ Len(saved) \in Nat
    BY <2>1, ContentsElement
  <2> QED
    BY <2>1, <2>2, FullCounts
<1>7. CASE item.entry = Deleted
  <2>1. k \notin LiveKeys
    BY <1>2, <1>7 DEF LiveKeys
  <2>2. ~ IsFull(newSSTable)
    BY <1>5, <1>6 DEF IsFull
  <2>3. saved' = saved /\ newSSTable' = newSSTable
    BY <1>7, <2>2 DEF Keep
  <2>4. NumberBelow(item'.key + 1, LiveKeys) = InFull(Len(saved)) + n
    BY <1>1, <1>4, <1>5, <1>6, <2>1
  <2>5. OutputState'
    BY <1>1, <2>3, <2>4, OutputUnchanged
  <2>6. TypeOK'
    BY <1>1, <2>3, TablesStay DEF TypeOK
  <2> QED
    BY <2>5, <2>6
<1>8. CASE item.entry # Deleted
  <2>1. k \in LiveKeys
    BY <1>2, <1>3, <1>8 DEF LiveKeys
  <2>2. NumberBelow(k + 1, LiveKeys) = InFull(Len(saved)) + n + 1
    BY <1>4, <1>5, <1>6, <2>1
  <2>3. /\ more \in Contents /\ Len(more) = n + 1 /\ more[n + 1] = e
        /\ \A p \in 1 .. n : more[p] = newSSTable[p]
    <3>1. e \in [key : Keys, entry : Entry]
      BY <1>3
    <3> HIDE DEF e
    <3> QED
      BY <1>6, <3>1 DEF Contents
  <2>4. Placed(more, Len(saved) + 1, FALSE)
    <3> SUFFICES ASSUME NEW p \in 1 .. n + 1
                 PROVE  /\ more[p].key \in LiveKeys
                        /\ NumberBelow(more[p].key, LiveKeys) = InFull(Len(saved)) + p - 1
                        /\ more[p].entry = NewestEntry(more[p].key)
      BY <1>6, <2>3 DEF Placed
    <3>1. CASE p = n + 1
      <4>1. more[p].key = k /\ more[p].entry = item.entry
        BY <2>3, <3>1
      <4> QED
        BY <1>2, <1>5, <1>6, <2>1, <3>1, <4>1
    <3>2. CASE p # n + 1
      <4>1. p \in 1 .. n
        BY <1>6, <3>2
      <4>2. Len(saved) + 1 - 1 = Len(saved) /\ more[p] = newSSTable[p]
        BY <1>6, <2>3, <4>1
      <4>3. Placed(newSSTable, Len(saved) + 1, FALSE)
        BY DEF OutputState
      <4> HIDE DEF more
      <4> QED
        BY <4>1, <4>2, <4>3 DEF Placed
    <3> QED
      BY <3>1, <3>2
  <2> HIDE DEF more, e
  <2>5. CASE IsFull(more)
    <3>1. saved' = Append(saved, Written(more)) /\ newSSTable' = <<>>
      BY <1>8, <2>5 DEF Keep, more, e
    <3>2. n + 1 = M
      BY <2>3, <2>5 DEF IsFull
    <3>3. Placed(Written(more), Len(saved) + 1, TRUE) /\ Written(more) \in Contents
          /\ Len(Written(more)) = M
      BY <2>3, <2>4, <3>2, WrittenIs, WrittenPlaced
    <3>4. /\ saved' \in Seq(Contents) /\ Len(saved') = Len(saved) + 1
          /\ saved'[Len(saved')] = Written(more)
          /\ \A c \in 1 .. Len(saved) : saved'[c] = saved[c]
      BY <3>1, <3>3, SavedGrows
    <3>5. ASSUME NEW c \in 1 .. Len(saved')
          PROVE  Placed(saved'[c], c, TRUE) /\ Len(saved'[c]) = M
      <4>1. c \in 1 .. Len(saved) \/ c = Len(saved) + 1
        BY <1>6, <3>4
      <4>2. CASE c \in 1 .. Len(saved)
        BY <1>1, <3>4, <4>2 DEF OutputState
      <4> QED
        BY <3>3, <3>4, <4>1, <4>2
    <3>6. NumberBelow(k + 1, LiveKeys) = InFull(Len(saved'))
      BY <1>6, <2>2, <3>2, <3>4
    <3>7. LiveKeys' = LiveKeys /\ \A j : NewestEntry(j)' = NewestEntry(j)
      BY <1>1, TablesStay
    <3>8. /\ \A c \in 1 .. Len(saved') : Placed(saved[c], c, TRUE)'
          /\ Placed(newSSTable, Len(saved) + 1, FALSE)'
      BY <3>1, <3>5, <3>7, NothingPlaced DEF Placed
    <3>9. Len(newSSTable') = 0 /\ newSSTable' \in Contents
      BY <3>1 DEF Contents
    <3>10. OutputState'
      <4>1. NumberBelow(item'.key + 1, LiveKeys') = InFull(Len(saved')) + Len(newSSTable')
        BY <1>1, <1>6, <3>4, <3>6, <3>7, <3>9, FullCounts
      <4>2. Len(newSSTable') < M /\ \A c \in 1 .. Len(saved') : Len(saved'[c]) \in 1 .. M
        <5>1. 0 < M /\ M \in 1 .. M
          BY <1>6
        <5> HIDE DEF M
        <5> QED
          BY <3>5, <3>9, <5>1
      <4> QED
        BY <1>1, <3>5, <3>8, <4>1, <4>2 DEF OutputState
    <3>11. TypeOK'
      BY <1>1, <3>4, <3>9, TablesStay DEF TypeOK
    <3> QED
      BY <3>10, <3>11
  <2>6. CASE ~ IsFull(more)
    <3>1. saved' = saved /\ newSSTable' = more
      BY <1>8, <2>6 DEF Keep, more, e
    <3>2. n + 1 < M
      BY <1>5, <1>6, <2>3, <2>6 DEF IsFull
    <3>3. LiveKeys' = LiveKeys /\ \A j : NewestEntry(j)' = NewestEntry(j)
      BY <1>1, TablesStay
    <3>4. \A c \in 1 .. Len(saved') : Placed(saved[c], c, TRUE)'
      BY <3>1, <3>3 DEF Placed, OutputState
    <3>5. Placed(newSSTable, Len(saved) + 1, FALSE)'
      BY <2>4, <3>1, <3>3 DEF Placed
    <3>6. NumberBelow(k + 1, LiveKeys) = InFull(Len(saved)) + (n + 1)
      BY <1>6, <2>2
    <3>7. OutputState'
      BY <1>1, <2>3, <3>1, <3>2, <3>3, <3>4, <3>5, <3>6 DEF OutputState
    <3>8. TypeOK'
      BY <1>1, <2>3, <3>1, TablesStay DEF TypeOK
    <3> QED
      BY <3>7, <3>8
  <2> QED
    BY <2>5, <2>6
<1> QED
  BY <1>7, <1>8

\* When the heap is empty every kept key has been passed.
LEMMA AllPassed ==
  ASSUME TypeOK, HeapState, pc = "pop", h = {}
  PROVE  NumberBelow(item.key + 1, LiveKeys) = Cardinality(LiveKeys)
<1>1. Passed(h, index, item.key) /\ item.key \in Int
  BY ItemKey DEF HeapState
<1>2. ASSUME NEW k \in LiveKeys PROVE k < item.key + 1
  <2>1. PICK i \in DOMAIN tables : \E p \in 1 .. Len(E(i)) : E(i)[p].key = k
    BY LiveIsHeld
  <2>2. PICK p \in 1 .. Len(E(i)) : E(i)[p].key = k
    BY <2>1
  <2>3. ~ HeapAt(h, i)
    BY DEF HeapAt
  <2>4. k <= item.key /\ k \in Nat
    BY <1>1, <2>2, <2>3, TableEntries DEF Passed
  <2> QED
    BY <1>1, <2>4
<1>3. {k \in LiveKeys : k < item.key + 1} = LiveKeys
  BY <1>2
<1> QED
  BY <1>3 DEF NumberBelow

\* What is left is saved as the last SSTable.
LEMMA FinishOutput ==
  ASSUME TypeOK, HeapState, OutputState, Finish
  PROVE  TypeOK' /\ HeapState' /\ OutputState'
<1> DEFINE n == Len(newSSTable)
           M == MaxMemtableEntries
<1>1. /\ pc = "pop" /\ h = {} /\ pc' = "done" /\ newSSTable' = <<>>
      /\ tables' = tables /\ index' = index /\ h' = h /\ item' = item
  BY DEF Finish
<1>2. /\ newSSTable \in Contents /\ n \in Nat /\ Len(saved) \in Nat /\ M \in Nat \ {0}
      /\ InFull(Len(saved)) \in Nat /\ n < M
  <2>1. newSSTable \in Contents /\ saved \in Seq(Contents)
    BY DEF TypeOK
  <2>2. n \in Nat /\ Len(saved) \in Nat
    BY <2>1, ContentsElement
  <2> QED
    BY <2>1, <2>2, FullCounts DEF OutputState
<1>3. Cardinality(LiveKeys) = InFull(Len(saved)) + n
  BY <1>1, AllPassed DEF OutputState
<1>4. LiveKeys' = LiveKeys /\ \A k : NewestEntry(k)' = NewestEntry(k)
  BY <1>1, TablesStay
<1>5. Len(newSSTable') = 0 /\ newSSTable' \in Contents
  BY <1>1 DEF Contents
<1>6. Placed(newSSTable, Len(saved) + 1, FALSE)' /\ Len(newSSTable') < M
  BY <1>1, <1>2, <1>5, NothingPlaced DEF Placed
<1>7. HeapState'
  BY <1>1 DEF HeapState
<1>8. CASE newSSTable = <<>>
  <2>1. saved' = saved /\ n = 0
    BY <1>8 DEF Finish
  <2>2. \A c \in 1 .. Len(saved') : /\ Placed(saved[c], c, TRUE)'
                                    /\ Len(saved'[c]) = M
    BY <1>1, <1>4, <2>1 DEF Placed, OutputState
  <2>3. Cardinality(LiveKeys') =
          IF saved' = <<>> THEN 0
          ELSE InFull(Len(saved') - 1) + Len(saved'[Len(saved')])
    <3>1. CASE saved = <<>>
      <4>1. Len(saved) = 0
        BY <3>1
      <4> QED
        BY <1>3, <1>4, <2>1, <3>1, <4>1, FullCounts
    <3>2. CASE saved # <<>>
      <4>1. Len(saved) - 1 \in Nat /\ Len(saved) \in 1 .. Len(saved)
        BY <3>2 DEF TypeOK
      <4>2. Len(saved'[Len(saved')]) = M
        BY <2>1, <2>2, <4>1
      <4>3. InFull(Len(saved)) = InFull(Len(saved) - 1) + M
        <5>1. (Len(saved) - 1) + 1 = Len(saved)
          BY <4>1
        <5> QED
          BY <4>1, <5>1, FullCounts
      <4> QED
        BY <1>2, <1>3, <1>4, <2>1, <3>2, <4>2, <4>3
    <3> QED
      BY <3>1, <3>2
  <2>4. \A c \in 1 .. Len(saved') : Len(saved'[c]) \in 1 .. M
    <3>1. M \in 1 .. M
      BY <1>2
    <3> QED
      BY <2>2, <3>1
  <2>5. OutputState'
    BY <1>1, <1>6, <2>2, <2>3, <2>4 DEF OutputState
  <2>6. TypeOK'
    BY <1>1, <1>5, <2>1, TablesStay DEF TypeOK
  <2> QED
    BY <1>7, <2>5, <2>6
<1>9. CASE newSSTable # <<>>
  <2>1. saved' = Append(saved, Written(newSSTable)) /\ n # 0
    <3>1. n # 0
      BY <1>2, <1>9 DEF Contents
    <3> QED
      BY <1>9, <3>1 DEF Finish
  <2>2. /\ Placed(Written(newSSTable), Len(saved) + 1, TRUE)
        /\ Written(newSSTable) \in Contents /\ Len(Written(newSSTable)) = n
    BY <1>2, WrittenIs, WrittenPlaced DEF OutputState
  <2>3. /\ saved' \in Seq(Contents) /\ Len(saved') = Len(saved) + 1
        /\ saved'[Len(saved')] = Written(newSSTable) /\ saved' # <<>>
        /\ \A c \in 1 .. Len(saved) : saved'[c] = saved[c]
    BY <2>1, <2>2, SavedGrows
  <2>4. ASSUME NEW c \in 1 .. Len(saved')
        PROVE  /\ Placed(saved'[c], c, TRUE) /\ Len(saved'[c]) \in 1 .. M
               /\ c # Len(saved') => Len(saved'[c]) = M
    <3>1. c \in 1 .. Len(saved) \/ c = Len(saved) + 1
      BY <1>2, <2>3
    <3>2. CASE c \in 1 .. Len(saved)
      BY <1>1, <2>3, <3>2 DEF OutputState
    <3>3. CASE c = Len(saved) + 1
      <4>1. n \in 1 .. M
        BY <1>2, <2>1
      <4> QED
        BY <2>2, <2>3, <3>3, <4>1
    <3> QED
      BY <3>1, <3>2, <3>3
  <2>5. \A c \in 1 .. Len(saved') : Placed(saved[c], c, TRUE)'
    BY <1>4, <2>4 DEF Placed
  <2>6. Cardinality(LiveKeys') = InFull(Len(saved') - 1) + Len(saved'[Len(saved')])
    <3>1. Len(saved') - 1 = Len(saved)
      BY <1>2, <2>3
    <3> QED
      BY <1>3, <1>4, <2>2, <2>3, <3>1
  <2>7. OutputState'
    BY <1>1, <1>6, <2>3, <2>4, <2>5, <2>6 DEF OutputState
  <2>8. TypeOK'
    BY <1>1, <1>5, <2>3, TablesStay DEF TypeOK
  <2> QED
    BY <1>7, <2>7, <2>8
<1> QED
  BY <1>8, <1>9

-----------------------------------------------------------------------------
(* The theorems *)

\* The inductive invariant.
Merging == TypeOK /\ HeapState /\ OutputState

\* It holds at the start.
LEMMA MergingInit == Init => Merging
<1> SUFFICES ASSUME Init PROVE Merging
  OBVIOUS
<1>1. PICK n \in 0 .. MaxSSTables : tables \in [1 .. n -> Files]
  BY DEF Init
<1>2. tables \in Seq(Files)
  BY <1>1, CompactionAssumption
<1>3. /\ index = [i \in DOMAIN tables |-> 1] /\ h = {} /\ item = NoItem
      /\ newSSTable = <<>> /\ saved = <<>> /\ pc = "load"
  BY DEF Init
<1>4. newSSTable \in Contents /\ saved \in Seq(Contents)
  BY <1>3 DEF Contents
<1>5. TypeOK
  BY <1>2, <1>3, <1>4 DEF TypeOK
<1>6. HeapState
  BY <1>3 DEF HeapState
<1>7. NumberBelow(item.key + 1, LiveKeys) = 0
  <2>1. item.key = -1
    BY <1>3 DEF NoItem
  <2>2. \A k \in LiveKeys : ~ (k < item.key + 1)
    BY <1>5, <2>1, LiveKeysAre
  <2>3. {k \in LiveKeys : k < item.key + 1} = {}
    BY <2>2
  <2> QED
    BY <2>3, FS_EmptySet DEF NumberBelow
<1>8. OutputState
  <2>1. Len(saved) = 0 /\ Len(newSSTable) = 0 /\ pc = "load"
    BY <1>3
  <2>2. InFull(Len(saved)) + Len(newSSTable) = 0 /\ Len(newSSTable) < MaxMemtableEntries
    BY <2>1, FullCounts
  <2>3. Placed(newSSTable, Len(saved) + 1, FALSE) /\ ~ \E c \in 1 .. Len(saved) : TRUE
    BY <2>1 DEF Placed
  <2> QED
    BY <1>7, <2>1, <2>2, <2>3 DEF OutputState
<1> QED
  BY <1>5, <1>6, <1>8 DEF Merging

\* Every step keeps it.
LEMMA MergingStep == Merging /\ [Next]_vars => Merging'
<1> SUFFICES ASSUME Merging, [Next]_vars PROVE Merging'
  OBVIOUS
<1> USE DEF Merging
<1>1. CASE Load
  <2>1. TypeOK' /\ HeapState'
    BY <1>1, LoadHeap
  <2>2. OutputState'
    BY <1>1, OutputUnchanged DEF Load, OutputState
  <2> QED
    BY <2>1, <2>2
<1>2. CASE Pop
  BY <1>2, PopHeap, PopOutput
<1>3. CASE Drain
  <2>1. TypeOK' /\ HeapState'
    BY <1>3, DrainHeap
  <2>2. OutputState'
    BY <1>3, OutputUnchanged DEF Drain, OutputState
  <2> QED
    BY <2>1, <2>2
<1>4. CASE Keep
  BY <1>4, KeepHeap, KeepOutput
<1>5. CASE Finish
  BY <1>5, FinishOutput
<1>6. CASE UNCHANGED vars
  <2>1. /\ tables' = tables /\ index' = index /\ h' = h /\ item' = item
        /\ newSSTable' = newSSTable /\ saved' = saved /\ pc' = pc
    BY <1>6 DEF vars
  <2>2. TypeOK'
    BY <2>1, TablesStay DEF TypeOK
  <2>3. HeapState'
    BY <2>1, TablesStay DEF HeapState, Holds, Passed, AtLeast, E, ItemAt, HeapAt
  <2>4. OutputState'
    <3>1. LiveKeys' = LiveKeys /\ \A k : NewestEntry(k)' = NewestEntry(k)
      BY <2>1, TablesStay
    <3>2. \A c \in 1 .. Len(saved') : Placed(saved[c], c, TRUE)'
      BY <2>1, <3>1 DEF Placed, OutputState
    <3>3. Placed(newSSTable, Len(saved) + 1, FALSE)'
      BY <2>1, <3>1 DEF Placed, OutputState
    <3> QED
      BY <2>1, <3>1, <3>2, <3>3 DEF OutputState
  <2> QED
    BY <2>2, <2>3, <2>4
<1> QED
  BY <1>1, <1>2, <1>3, <1>4, <1>5, <1>6 DEF Next

\* Iterators, heap and output hold what the code can put there, whatever the number
\* of the SSTables and their size.
THEOREM TypeCorrect == Spec => []TypeOK
<1>1. Merging => TypeOK
  BY DEF Merging
<1> QED
  BY <1>1, MergingInit, MergingStep, PTL DEF Spec

\* At the start of a round the heap holds the least entry of every SSTable that the
\* merge has not passed, and nothing else.
THEOREM HeapStaysFrontier == Spec => []HeapIsFrontier
<1>1. Merging => HeapIsFrontier
  BY HeapStateImplies DEF Merging
<1> QED
  BY <1>1, MergingInit, MergingStep, PTL DEF Spec

\* Where an entry is in the output says how many kept keys are below its key.
LEMMA Places ==
  ASSUME Merging, NEW c \in DOMAIN Append(saved, newSSTable),
         NEW p \in DOMAIN Append(saved, newSSTable)[c]
  PROVE  LET e == Append(saved, newSSTable)[c][p]
         IN  /\ c \in Nat \ {0} /\ p \in 1 .. MaxMemtableEntries
             /\ e.key \in LiveKeys /\ e.entry \in Values
             /\ NumberBelow(e.key, LiveKeys) = InFull(c - 1) + p - 1
<1> DEFINE output == Append(saved, newSSTable)
           M == MaxMemtableEntries
<1>1. /\ saved \in Seq(Contents) /\ newSSTable \in Contents /\ Len(saved) \in Nat
      /\ M \in Nat \ {0} /\ Len(newSSTable) \in Nat
  <2>1. saved \in Seq(Contents) /\ newSSTable \in Contents
    BY DEF Merging, TypeOK
  <2> QED
    BY <2>1, ContentsElement, CompactionAssumption
<1>2. /\ output \in Seq(Contents) /\ Len(output) = Len(saved) + 1
      /\ output[Len(saved) + 1] = newSSTable
      /\ \A i \in 1 .. Len(saved) : output[i] = saved[i]
  BY <1>1
<1>3. c \in 1 .. Len(saved) \/ c = Len(saved) + 1
  BY <1>1, <1>2
<1>4. ASSUME NEW e, e \in Entry, NEW k \in LiveKeys,
             e = NewestEntry(k) \/ e = Decoded(NewestEntry(k))
      PROVE  e \in Values
  <2>1. NewestEntry(k) \in Values
    BY LiveKeysAre DEF Merging
  <2> QED
    BY <1>4, <2>1, RoundTripAssumption DEF Decoded
<1>5. CASE c \in 1 .. Len(saved)
  <2>1. /\ Placed(saved[c], c, TRUE) /\ Len(saved[c]) \in 1 .. M /\ saved[c] \in Contents
        /\ output[c] = saved[c]
    <3>1. Placed(saved[c], c, TRUE) /\ Len(saved[c]) \in 1 .. M
      BY <1>5 DEF Merging, OutputState
    <3>2. saved[c] \in Contents /\ output[c] = saved[c]
      <4> HIDE DEF output
      <4> QED
        BY <1>1, <1>2, <1>5
    <3> QED
      BY <3>1, <3>2
  <2> DEFINE s == saved[c]
  <2>2. Len(s) \in Nat /\ DOMAIN s = 1 .. Len(s) /\ p \in DOMAIN s
    BY <2>1, ContentsElement
  <2>3. p \in 1 .. Len(s) /\ s[p].entry \in Entry
    BY <2>1, <2>2, ContentsElement
  <2>4. p \in 1 .. M
    <3>1. Len(s) \in 1 .. M
      BY <2>1
    <3> HIDE DEF s, M
    <3> QED
      BY <1>1, <2>3, <3>1
  <2>5. /\ s[p].key \in LiveKeys /\ s[p].entry = Decoded(NewestEntry(s[p].key))
        /\ NumberBelow(s[p].key, LiveKeys) = InFull(c - 1) + p - 1
    BY <2>1, <2>3 DEF Placed
  <2>6. s[p].entry \in Values
    BY <1>4, <2>3, <2>5
  <2> QED
    BY <1>1, <1>5, <2>1, <2>4, <2>5, <2>6
<1>6. CASE c = Len(saved) + 1
  <2>1. /\ Placed(newSSTable, c, FALSE) /\ Len(newSSTable) < M /\ output[c] = newSSTable
    BY <1>2, <1>6 DEF Merging, OutputState
  <2> DEFINE s == newSSTable
  <2>2. Len(s) \in Nat /\ DOMAIN s = 1 .. Len(s) /\ p \in DOMAIN s
    BY <1>1, <2>1, ContentsElement
  <2>3. p \in 1 .. Len(s) /\ s[p].entry \in Entry
    BY <1>1, <2>2, ContentsElement
  <2>4. p \in 1 .. M
    <3>1. Len(s) < M
      BY <2>1
    <3> HIDE DEF s, M
    <3> QED
      BY <1>1, <2>2, <2>3, <3>1
  <2>5. /\ s[p].key \in LiveKeys /\ s[p].entry = NewestEntry(s[p].key)
        /\ NumberBelow(s[p].key, LiveKeys) = InFull(c - 1) + p - 1
    BY <2>1, <2>3 DEF Placed
  <2>6. s[p].entry \in Values
    BY <1>4, <2>3, <2>5
  <2> QED
    BY <1>1, <1>6, <2>1, <2>4, <2>5, <2>6
<1> QED
  BY <1>3, <1>5, <1>6

\* The output is in key order with one entry per key, within an SSTable and from one
\* to the next, and holds no tombstone.
THEOREM OutputStaysSorted == Spec => []OutputSorted
<1> DEFINE output == Append(saved, newSSTable)
<1>1. ASSUME Merging PROVE OutputSorted
  <2> SUFFICES ASSUME NEW c \in DOMAIN output, NEW p \in DOMAIN output[c]
               PROVE  /\ output[c][p].entry # Deleted
                      /\ \A d \in DOMAIN output : \A q \in DOMAIN output[d] :
                           c < d \/ (c = d /\ p < q)
                             => output[c][p].key < output[d][q].key
    BY DEF OutputSorted
  <2>1. output[c][p].entry \in Values
    BY <1>1, Places
  <2>2. ASSUME NEW d \in DOMAIN output, NEW q \in DOMAIN output[d],
               c < d \/ (c = d /\ p < q)
        PROVE  output[c][p].key < output[d][q].key
    <3> DEFINE j == output[c][p].key
               k == output[d][q].key
    <3>1. /\ c \in Nat \ {0} /\ p \in 1 .. MaxMemtableEntries /\ j \in LiveKeys
          /\ NumberBelow(j, LiveKeys) = InFull(c - 1) + p - 1
      BY <1>1, Places
    <3>2. /\ d \in Nat \ {0} /\ q \in 1 .. MaxMemtableEntries /\ k \in LiveKeys
          /\ NumberBelow(k, LiveKeys) = InFull(d - 1) + q - 1
      BY <1>1, Places
    <3> HIDE DEF j, k, output
    <3>3. InFull(c - 1) \in Nat /\ InFull(d - 1) \in Nat /\ MaxMemtableEntries \in Nat
      <4>1. c - 1 \in Nat /\ d - 1 \in Nat
        BY <3>1, <3>2
      <4> QED
        BY <4>1, FullCounts
    <3>4. c < d => InFull(c - 1) + MaxMemtableEntries <= InFull(d - 1)
      <4>1. c - 1 \in Nat /\ (c - 1) + 1 = c /\ d - 1 \in Nat /\ c \in Nat
            /\ (c < d => c <= d - 1)
        BY <3>1, <3>2
      <4>2. InFull(c) = InFull(c - 1) + MaxMemtableEntries
        BY <4>1, FullCounts
      <4> QED
        BY <4>1, <4>2, FullCounts
    <3>5. NumberBelow(j, LiveKeys) < NumberBelow(k, LiveKeys)
      BY <2>2, <3>1, <3>2, <3>3, <3>4
    <3>6. j < k
      BY <1>1, <3>1, <3>2, <3>5, LiveKeysAre, NumbersBelow DEF Merging
    <3> QED
      BY <3>6 DEF j, k
  <2> QED
    BY <2>1, <2>2, EntriesAssumption
<1> QED
  BY <1>1, MergingInit, MergingStep, PTL DEF Spec

-----------------------------------------------------------------------------
(* The result of the merge is the one LSMTreeStore uses *)

\* Numbers in increasing order that are all the numbers of a set.
LEMMA IncreasingNumbers ==
  ASSUME NEW S, S \subseteq Nat, NEW n \in Nat, NEW f \in [1 .. n -> S],
         \A p, q \in 1 .. n : p < q => f[p] < f[q],
         \A x \in S : \E p \in 1 .. n : f[p] = x
  PROVE  /\ IsFiniteSet(S) /\ Cardinality(S) = n
         /\ \A p \in 1 .. n : NumberBelow(f[p], S) = p - 1
<1>1. \A p, q \in 1 .. n : f[p] \in Nat /\ (f[p] < f[q] <=> p < q)
  <2> SUFFICES ASSUME NEW p \in 1 .. n, NEW q \in 1 .. n
               PROVE  f[p] \in Nat /\ (f[p] < f[q] <=> p < q)
    OBVIOUS
  <2>1. f[p] \in Nat /\ f[q] \in Nat /\ p \in Nat /\ q \in Nat
    <3>1. f[p] \in S /\ f[q] \in S
      OBVIOUS
    <3>2. f[p] \in Nat /\ f[q] \in Nat
      BY <3>1
    <3>3. p \in Nat /\ q \in Nat
      OBVIOUS
    <3> QED
      BY <3>2, <3>3
  <2>2. p < q \/ p = q \/ q < p
    BY <2>1
  <2> QED
    BY <2>1, <2>2
<1>2. \A p, q \in 1 .. n : f[p] = f[q] => p = q
  BY <1>1
<1>3. IsFiniteSet(S) /\ Cardinality(S) = n
  BY <1>2, Enumerated
<1>4. ASSUME NEW p \in 1 .. n PROVE NumberBelow(f[p], S) = p - 1
  <2> DEFINE T == {x \in S : x < f[p]}
             g == [q \in 1 .. p - 1 |-> f[q]]
  <2>1. p - 1 \in Nat /\ \A q \in 1 .. p - 1 : q \in 1 .. n /\ q < p
    OBVIOUS
  <2>2. g \in [1 .. p - 1 -> T]
    BY <1>1, <2>1
  <2>3. \A q, r \in 1 .. p - 1 : g[q] = g[r] => q = r
    BY <1>2, <2>1
  <2>4. ASSUME NEW x \in T PROVE \E q \in 1 .. p - 1 : g[q] = x
    <3>1. PICK q \in 1 .. n : f[q] = x
      OBVIOUS
    <3>2. q < p
      BY <1>1, <3>1
    <3>3. q \in 1 .. p - 1
      BY <3>2
    <3> QED
      BY <3>1, <3>3
  <2> HIDE DEF g, T
  <2>5. Cardinality(T) = p - 1
    BY <2>1, <2>2, <2>3, <2>4, Enumerated
  <2> QED
    BY <2>5 DEF NumberBelow, T
<1> QED
  BY <1>3, <1>4

\* A lookup in the SSTables finds the newest entry.
LEMMA StoreFinds ==
  ASSUME TypeOK, NEW k \in Keys
  PROVE  Store!TablesEntry([manifest |-> <<>>, tables |-> tables],
                           [i \in DOMAIN tables |-> i], k) = NewestEntry(k)
<1> DEFINE d == [manifest |-> <<>>, tables |-> tables]
           ids == [i \in DOMAIN tables |-> i]
           hits == {i \in DOMAIN ids : Store!Contents(d, ids[i])[k] # NoEntry}
<1>1. ASSUME NEW i \in DOMAIN tables
      PROVE  ids[i] = i /\ Store!Contents(d, i) = tables[i]
  <2>1. tables[i] # [j \in {-1} |-> NoEntry]
    <3>1. tables[i] \in [Keys -> Slot]
      BY FileType DEF TypeOK, Table
    <3>2. -1 \notin Keys
      BY KeysAssumption
    <3> QED
      BY <3>1, <3>2
  <2>2. Store!Readable(d, i)
    BY <2>1 DEF Store!Readable
  <2> QED
    BY <2>2 DEF Store!Contents
<1>2. hits = Holders(k)
  BY <1>1 DEF Holders
<1>3. Store!TablesEntry(d, ids, k) =
        IF hits = {} THEN NoEntry ELSE Store!Contents(d, ids[Min(hits)])[k]
  <2>1. Store!Min(hits) = Min(hits)
    BY DEF Store!Min, Min
  <2>2. Store!TablesEntry(d, ids, k) =
          IF hits = {} THEN NoEntry ELSE Store!Contents(d, ids[Store!Min(hits)])[k]
    BY DEF Store!TablesEntry
  <2> QED
    BY <2>1, <2>2
<1>4. Holders(k) # {} => Min(Holders(k)) \in DOMAIN tables
  <2>1. Holders(k) \subseteq Nat /\ Holders(k) \subseteq DOMAIN tables
    BY DEF Holders, TypeOK
  <2> QED
    BY <2>1, MinOfNats
<1> HIDE DEF hits
<1> QED
  BY <1>1, <1>2, <1>3, <1>4 DEF NewestEntry

\* So it is the same keys that both keep.
LEMMA StoreKeeps == TypeOK => Store!Live = LiveKeys
BY StoreFinds DEF Store!Live, LiveKeys


\* LSMTreeStore counts, numbers and decodes in the same way.
LEMMA StoreCounts ==
  ASSUME TypeOK
  PROVE  /\ Store!ChunkCount
              = (Cardinality(LiveKeys) + MaxMemtableEntries - 1) \div MaxMemtableEntries
         /\ \A k : Store!ChunkOf(k)
              = (NumberBelow(k, LiveKeys) \div MaxMemtableEntries) + 1
         /\ \A e : Store!Decoded(e) = Decoded(e)
<1>1. \A S : Store!Cardinality(S) = Cardinality(S)
  BY DEF Store!Cardinality, Cardinality
<1>2. Store!ChunkCount
        = (Cardinality(LiveKeys) + MaxMemtableEntries - 1) \div MaxMemtableEntries
  BY <1>1, StoreKeeps DEF Store!ChunkCount
<1>3. \A k : Store!ChunkOf(k) = (NumberBelow(k, LiveKeys) \div MaxMemtableEntries) + 1
  BY <1>1, StoreKeeps DEF Store!ChunkOf, NumberBelow
<1>4. \A e : Store!Decoded(e) = Decoded(e)
  BY DEF Store!Decoded, Decoded
<1> QED
  BY <1>2, <1>3, <1>4

\* What a quotient is.
LEMMA Quotients ==
  ASSUME NEW n \in Nat
  PROVE  /\ n \div MaxMemtableEntries \in Nat
         /\ InFull(n \div MaxMemtableEntries) <= n
         /\ n < InFull(n \div MaxMemtableEntries) + MaxMemtableEntries
         /\ \A q \in Nat : InFull(q) <= n /\ n < InFull(q) + MaxMemtableEntries
                             => n \div MaxMemtableEntries = q
<1> DEFINE m == MaxMemtableEntries
           d == n \div m
<1>1. m \in Nat \ {0}
  BY CompactionAssumption
<1>2. d \in Nat /\ d * m <= n /\ n < d * m + m
  <2> HIDE DEF m
  <2> QED
    BY <1>1
<1>3. InFull(d) <= n /\ n < InFull(d) + m
  BY <1>2 DEF InFull
<1> HIDE DEF d, m
<1>4. ASSUME NEW q \in Nat, InFull(q) <= n, n < InFull(q) + m
      PROVE  d = q
  <2>1. /\ InFull(q) \in Nat /\ InFull(d) \in Nat
        /\ InFull(q + 1) = InFull(q) + m /\ InFull(d + 1) = InFull(d) + m
    BY <1>2, FullCounts DEF m
  <2>2. ~ (q < d)
    <3> SUFFICES ASSUME q < d PROVE FALSE
      OBVIOUS
    <3>1. q + 1 \in Nat /\ q + 1 <= d
      BY <1>2
    <3>2. InFull(q + 1) <= InFull(d)
      BY <1>2, <3>1, FullCounts
    <3> QED
      BY <1>1, <1>3, <1>4, <2>1, <3>2
  <2>3. ~ (d < q)
    <3> SUFFICES ASSUME d < q PROVE FALSE
      OBVIOUS
    <3>1. d + 1 \in Nat /\ d + 1 <= q
      BY <1>2
    <3>2. InFull(d + 1) <= InFull(q)
      BY <3>1, FullCounts
    <3> QED
      BY <1>1, <1>3, <1>4, <2>1, <3>2
  <2> QED
    BY <1>2, <2>2, <2>3
<1> QED
  BY <1>2, <1>3, <1>4 DEF d, m

\* As many SSTables are saved as LSMTreeStore says.
LEMMA AllSaved ==
  ASSUME Merging, pc = "done"
  PROVE  Store!ChunkCount = Len(saved)
<1> DEFINE M == MaxMemtableEntries
           n == Len(saved)
           T == Cardinality(LiveKeys)
<1>1. M \in Nat \ {0} /\ n \in Nat /\ T \in Nat
  BY CompactionAssumption, LiveKeysAre, FS_CardinalityType DEF Merging, TypeOK
<1>2. T = IF saved = <<>> THEN 0 ELSE InFull(n - 1) + Len(saved[n])
  BY DEF Merging, OutputState
<1>3. Store!ChunkCount = (T + M - 1) \div M
  BY StoreCounts DEF Merging
<1>4. InFull(n) <= T + M - 1 /\ T + M - 1 < InFull(n) + M
  <2>1. CASE saved = <<>>
    <3>1. n = 0
      BY <2>1
    <3>2. T = 0
      BY <1>2, <2>1
    <3>3. InFull(n) = 0
      BY <3>1, FullCounts
    <3> HIDE DEF n, T, M
    <3> QED
      BY <1>1, <3>2, <3>3
  <2>2. CASE saved # <<>>
    <3>1. n \in 1 .. n
      BY <1>1, <2>2 DEF Merging, TypeOK
    <3>2. Len(saved[n]) \in 1 .. M
      BY <3>1 DEF Merging, OutputState
    <3>3. n - 1 \in Nat /\ (n - 1) + 1 = n
      BY <3>1
    <3>4. InFull(n - 1) \in Nat /\ InFull(n) = InFull(n - 1) + M
      BY <3>3, FullCounts
    <3> HIDE DEF n, M, T
    <3> QED
      BY <1>1, <1>2, <2>2, <3>2, <3>4
  <2> QED
    BY <2>1, <2>2
<1>5. T + M - 1 \in Nat
  BY <1>1
<1> HIDE DEF n, T
<1> QED
  BY <1>1, <1>3, <1>4, <1>5, Quotients DEF n

\* Every SSTable has the keys that LSMTreeStore gives it, in order.
LEMMA SavedKeys ==
  ASSUME Merging, pc = "done", NEW c \in 1 .. Len(saved)
  PROVE  LET S == {k \in LiveKeys : Store!ChunkOf(k) = c}
             n == Len(saved[c])
         IN  /\ n \in Nat /\ IsFiniteSet(S) /\ Cardinality(S) = n
             /\ \A p \in 1 .. n : /\ saved[c][p].key \in S
                                  /\ NumberBelow(saved[c][p].key, S) = p - 1
<1> DEFINE S == {k \in LiveKeys : Store!ChunkOf(k) = c}
           s == saved[c]
           n == Len(s)
           M == MaxMemtableEntries
           f == [p \in 1 .. n |-> s[p].key]
           place(k) == NumberBelow(k, LiveKeys)
<1>1. /\ LiveKeys \subseteq Nat /\ IsFiniteSet(LiveKeys)
      /\ M \in Nat \ {0} /\ Len(saved) \in Nat /\ s \in Contents /\ n \in 1 .. M
      /\ c # Len(saved) => n = M
  <2>1. saved \in Seq(Contents) /\ LiveKeys \subseteq Nat /\ IsFiniteSet(LiveKeys)
    BY LiveKeysAre DEF Merging, TypeOK
  <2>2. n \in 1 .. M /\ (c # Len(saved) => n = M)
    BY DEF Merging, OutputState
  <2> HIDE DEF n
  <2> QED
    BY <2>1, <2>2, CompactionAssumption
<1>2. c \in Nat /\ c - 1 \in Nat /\ InFull(c - 1) \in Nat
  <2>1. c \in Nat /\ c - 1 \in Nat
    BY <1>1
  <2> QED
    BY <2>1, FullCounts
<1>3. \A k \in LiveKeys : Store!ChunkOf(k) = (place(k) \div M) + 1 /\ place(k) \in Nat
                          /\ place(k) < Cardinality(LiveKeys)
  <2>1. Cardinality(LiveKeys) \in Nat
    BY <1>1, FS_CardinalityType
  <2>2. \A k \in LiveKeys : place(k) \in 0 .. Cardinality(LiveKeys) - 1
    BY <1>1, NumbersBelow
  <2>3. \A k : Store!ChunkOf(k) = (place(k) \div M) + 1
    BY StoreCounts DEF Merging
  <2> HIDE DEF place, M
  <2> QED
    BY <2>1, <2>2, <2>3
<1> HIDE DEF place, n, M
<1>4. ASSUME NEW p \in 1 .. n
      PROVE  s[p].key \in S /\ place(s[p].key) = InFull(c - 1) + p - 1
  <2> DEFINE k == s[p].key
  <2>1. k \in LiveKeys /\ place(k) = InFull(c - 1) + p - 1
    BY DEF Merging, OutputState, Placed, place, n
  <2> HIDE DEF k, s
  <2>2. InFull(c - 1) <= place(k) /\ place(k) < InFull(c - 1) + M
    BY <1>1, <1>2, <2>1
  <2>3. place(k) \div M = c - 1
    BY <1>2, <1>3, <2>1, <2>2, Quotients DEF M
  <2>4. Store!ChunkOf(k) = c
    BY <1>2, <1>3, <2>1, <2>3
  <2> QED
    BY <2>1, <2>4 DEF k
<1>5. ASSUME NEW k \in S
      PROVE  \E p \in 1 .. n : s[p].key = k
  <2> DEFINE p == place(k) - InFull(c - 1) + 1
  <2>1. k \in LiveKeys /\ place(k) \in Nat /\ place(k) \div M = c - 1
    <3>1. k \in LiveKeys /\ Store!ChunkOf(k) = c
      OBVIOUS
    <3>2. place(k) \div M \in Nat /\ place(k) \in Nat
      BY <1>3, <3>1, Quotients DEF M
    <3> QED
      BY <1>2, <1>3, <3>1, <3>2
  <2>2. InFull(c - 1) <= place(k) /\ place(k) < InFull(c - 1) + M
    BY <2>1, Quotients DEF M
  <2>3. p \in 1 .. n
    <3>1. CASE c # Len(saved)
      BY <1>1, <1>2, <2>1, <2>2, <3>1
    <3>2. CASE c = Len(saved)
      <4>1. Cardinality(LiveKeys) = InFull(c - 1) + n
        <5>1. saved # <<>>
          BY <1>1
        <5> QED
          BY <3>2, <5>1 DEF Merging, OutputState, n
      <4> QED
        BY <1>1, <1>2, <1>3, <2>1, <2>2, <4>1
    <3> QED
      BY <3>1, <3>2
  <2> DEFINE j == s[p].key
  <2>4. j \in LiveKeys /\ place(j) = InFull(c - 1) + p - 1
    BY <1>4, <2>3
  <2>5. InFull(c - 1) + p - 1 = place(k)
    BY <1>2, <2>1
  <2> HIDE DEF j, p
  <2>6. j = k
    BY <1>1, <2>1, <2>4, <2>5, NumbersBelow DEF place
  <2> QED
    BY <2>3, <2>6 DEF j
<1>6. ASSUME NEW p \in 1 .. n, NEW q \in 1 .. n, p < q
      PROVE  s[p].key < s[q].key
  <2> DEFINE j == s[p].key
             k == s[q].key
  <2>1. /\ j \in LiveKeys /\ k \in LiveKeys
        /\ place(j) = InFull(c - 1) + p - 1 /\ place(k) = InFull(c - 1) + q - 1
    BY <1>4
  <2> HIDE DEF j, k
  <2>2. place(j) < place(k)
    BY <1>1, <1>2, <1>6, <2>1
  <2>3. j < k
    BY <1>1, <2>1, <2>2, NumbersBelow DEF place
  <2> QED
    BY <2>3 DEF j, k
<1>7. S \subseteq Nat /\ n \in Nat
  <2>1. S \subseteq LiveKeys
    OBVIOUS
  <2> HIDE DEF S
  <2>2. S \subseteq Nat
    BY <1>1, <2>1
  <2>3. n \in Nat
    BY <1>1
  <2> QED
    BY <2>2, <2>3
<1> HIDE DEF S, s
<1>8. f \in [1 .. n -> S] /\ \A p \in 1 .. n : f[p] = s[p].key
  BY <1>4
<1> HIDE DEF f
<1>9. /\ IsFiniteSet(S) /\ Cardinality(S) = n
      /\ \A p \in 1 .. n : NumberBelow(f[p], S) = p - 1
  <2>1. \A p, q \in 1 .. n : p < q => f[p] < f[q]
    BY <1>6, <1>8
  <2>2. \A k \in S : \E p \in 1 .. n : f[p] = k
    BY <1>5, <1>8
  <2> QED
    BY <1>7, <1>8, <2>1, <2>2, IncreasingNumbers
<1>10. \A p \in 1 .. n : s[p].key \in S /\ NumberBelow(s[p].key, S) = p - 1
  BY <1>4, <1>8, <1>9
<1> QED
  BY <1>7, <1>9, <1>10 DEF S, s, n

\* The table that LSMTreeStore gives the c-th SSTable.
LEMMA ChunkIs ==
  ASSUME TypeOK, NEW c
  PROVE  LET table == Store!Chunk(c)
             S == {k \in LiveKeys : Store!ChunkOf(k) = c}
         IN  /\ table \in Table /\ Occupied(table) = S
             /\ \A k \in S : table[k] = Decoded(NewestEntry(k))
<1> DEFINE table == Store!Chunk(c)
           S == {k \in LiveKeys : Store!ChunkOf(k) = c}
<1>1. /\ LiveKeys \subseteq Keys /\ LiveKeys \subseteq Nat
      /\ \A k \in LiveKeys : NewestEntry(k) \in Values /\ DecodedKey(k) = k
  BY LiveKeysAre
<1>2. \A k \in LiveKeys : Decoded(NewestEntry(k)) \in Values
  BY <1>1, RoundTripAssumption DEF Decoded
<1>3. table = [k \in Keys |-> IF k \in S THEN Decoded(NewestEntry(k)) ELSE NoEntry]
  <2> DEFINE source == [k \in Keys |-> IF k \in S THEN NewestEntry(k) ELSE NoEntry]
             Hits(k) == {j \in Keys : Store!DecodedKey(j) = k /\ source[j] # NoEntry}
  <2>1. table = Store!ReadBack(
                  [k \in Keys |->
                    IF k \in Store!Live /\ Store!ChunkOf(k) = c
                      THEN Store!TablesEntry([manifest |-> <<>>, tables |-> tables],
                                             [i \in DOMAIN tables |-> i], k)
                      ELSE NoEntry])
    BY DEF Store!Chunk
  <2>2. \A k \in Keys : k \in Store!Live /\ Store!ChunkOf(k) = c <=> k \in S
    BY StoreKeeps
  <2> HIDE DEF table, S
  <2>3. table = Store!ReadBack(source)
    BY <2>1, <2>2, StoreFinds
  <2>4. S \subseteq LiveKeys
    BY DEF S
  <2>5. \A k \in Keys : Store!DecodedKey(k) = DecodedKey(k)
    BY DEF Store!DecodedKey, DecodedKey
  <2>6. ASSUME NEW k \in Keys
        PROVE  Hits(k) = IF k \in S THEN {k} ELSE {}
    BY <1>1, <2>4, <2>5, EntriesAssumption
  <2>7. table = [k \in Keys |-> IF Hits(k) = {} THEN NoEntry
                                ELSE Store!Decoded(source[Store!Min(Hits(k))])]
    BY <2>3 DEF Store!ReadBack
  <2>8. ASSUME NEW k \in S
        PROVE  Store!Min({k}) = k /\ Store!Decoded(source[k]) = Decoded(NewestEntry(k))
    <3>1. k \in Nat /\ k \in Keys
      BY <1>1, <2>4
    <3>2. Store!Min({k}) = k
      BY <3>1 DEF Store!Min
    <3>3. source[k] = NewestEntry(k)
      BY <3>1
    <3> QED
      BY <3>2, <3>3, StoreCounts
  <2> HIDE DEF Hits, source
  <2> QED
    BY <2>6, <2>7, <2>8
<1>4. S \subseteq LiveKeys
  OBVIOUS
<1> HIDE DEF table, S
<1>5. \A k \in S : table[k] = Decoded(NewestEntry(k)) /\ table[k] \in Values
  BY <1>1, <1>2, <1>3, <1>4
<1>6. \A k \in Keys \ S : table[k] = NoEntry
  BY <1>3
<1>7. table \in Table
  BY <1>3, <1>5, <1>6 DEF Table, Slot, Entry
<1>8. Occupied(table) = S
  BY <1>1, <1>4, <1>5, <1>6, EntriesAssumption DEF Occupied
<1> QED
  BY <1>5, <1>7, <1>8 DEF table, S

\* Every SSTable has the entries that LSMTreeStore gives it.
LEMMA SavedEntries ==
  ASSUME Merging, pc = "done", NEW c \in 1 .. Len(saved)
  PROVE  saved[c] = Entries(Store!Chunk(c))
<1> DEFINE table == Store!Chunk(c)
           S == {k \in LiveKeys : Store!ChunkOf(k) = c}
           s == saved[c]
           n == Len(s)
           t == Entries(table)
<1>1. /\ table \in Table /\ Occupied(table) = S
      /\ \A k \in S : table[k] = Decoded(NewestEntry(k))
  BY ChunkIs DEF Merging
<1>2. /\ n \in Nat /\ IsFiniteSet(S) /\ Cardinality(S) = n
      /\ \A p \in 1 .. n : s[p].key \in S /\ NumberBelow(s[p].key, S) = p - 1
  BY SavedKeys
<1>3. s \in Contents /\ \A p \in 1 .. n : s[p].entry = Decoded(NewestEntry(s[p].key))
  <2>1. saved \in Seq(Contents) /\ Placed(s, c, TRUE)
    BY DEF Merging, TypeOK, OutputState
  <2>2. \A p \in 1 .. n : s[p].entry = Decoded(NewestEntry(s[p].key))
    BY <2>1 DEF Placed
  <2>3. s \in Contents
    BY <2>1
  <2> QED
    BY <2>2, <2>3
<1>4. S \subseteq Nat
  <2>1. S \subseteq LiveKeys /\ LiveKeys \subseteq Nat
    BY LiveKeysAre DEF Merging
  <2> HIDE DEF S
  <2> QED
    BY <2>1
<1> HIDE DEF table, S
<1>5. /\ t \in Contents /\ Len(t) = n
      /\ \A p \in 1 .. n : /\ t[p].key \in S /\ t[p].entry = table[t[p].key]
                           /\ NumberBelow(t[p].key, S) = p - 1
  BY <1>1, <1>2, EntriesAre
<1> HIDE DEF s, t, n
<1>6. ASSUME NEW p \in 1 .. n PROVE s[p] = t[p]
  <2>1. s[p].key = t[p].key
    <3>1. /\ s[p].key \in S /\ t[p].key \in S
          /\ NumberBelow(s[p].key, S) = NumberBelow(t[p].key, S)
      BY <1>2, <1>5 DEF n
    <3>2. \A x, z \in S : NumberBelow(x, S) = NumberBelow(z, S) => x = z
      BY <1>2, <1>4, NumbersBelow
    <3> QED
      BY <3>1, <3>2
  <2>2. s[p].entry = t[p].entry
    BY <1>1, <1>3, <1>5, <2>1
  <2>3. s[p] = [key |-> s[p].key, entry |-> s[p].entry]
    BY <1>3, ContentsElement DEF n
  <2>4. t[p] = [key |-> t[p].key, entry |-> t[p].entry]
    BY <1>5, ContentsElement
  <2> QED
    BY <2>1, <2>2, <2>3, <2>4
<1>7. s \in Seq([key : Keys, entry : Entry]) /\ t \in Seq([key : Keys, entry : Entry])
  BY <1>3, <1>5 DEF Contents
<1>8. s = t
  <2> DEFINE R == [key : Keys, entry : Entry]
  <2>1. s \in Seq(R) /\ t \in Seq(R)
    BY <1>7
  <2> HIDE DEF R
  <2>2. /\ s = [p \in 1 .. n |-> s[p]] /\ t = [p \in 1 .. n |-> t[p]]
    BY <1>5, <2>1 DEF n
  <2> QED
    BY <1>6, <2>2
<1> QED
  BY <1>8 DEF s, t, table

\* When it is done the merge has saved what LSMTreeStore says a compaction saves:
\* the newest entry of every key, without the tombstones, in key order, in SSTables
\* that are full but the last.
THEOREM MergeIsCorrect == Spec => []MergeCorrect
<1>1. ASSUME Merging PROVE MergeCorrect
  <2> SUFFICES ASSUME pc = "done"
               PROVE  saved = [c \in 1 .. Store!ChunkCount |-> Entries(Store!Chunk(c))]
    BY DEF MergeCorrect
  <2>1. saved \in Seq(Contents)
    BY <1>1 DEF Merging, TypeOK
  <2>2. saved = [c \in 1 .. Len(saved) |-> saved[c]]
    BY <2>1
  <2>3. \A c \in 1 .. Len(saved) : saved[c] = Entries(Store!Chunk(c))
    BY <1>1, SavedEntries
  <2>4. Store!ChunkCount = Len(saved)
    BY <1>1, AllSaved
  <2> QED
    BY <2>2, <2>3, <2>4
<1> QED
  BY <1>1, MergingInit, MergingStep, PTL DEF Spec
=============================================================================
