-------------------------- MODULE KHashTableProofs --------------------------
(***************************************************************************)
(* The index structure of KHashTable is sound, and the table implements    *)
(* KDict, for every set of keys, every hash function and every size.       *)
(***************************************************************************)
EXTENDS KHashTable, FiniteSetTheorems, WellFoundedInduction, TLAPS

------------------------------------------------------------------------------
(* Arithmetic of the probe sequence and of the load limit *)

\* hash & (size - 1) is a slot of the table.
LEMMA StartInRange ==
    ASSUME NEW h \in Nat, NEW n \in Nat \ {0}
    PROVE  StartingIndex(h, n) \in 0..(n - 1)
BY DEF StartingIndex

\* From any start the probe sequence stays in the table, meets every slot, and
\* meets it once.
LEMMA ProbeIsPermutation ==
    ASSUME NEW n \in Nat, NEW start \in 0..(n - 1)
    PROVE  /\ \A i \in 0..(n - 1) : Probe(start, i, n) \in 0..(n - 1)
           /\ \A x \in 0..(n - 1) : \E i \in 0..(n - 1) : Probe(start, i, n) = x
           /\ \A i, k \in 0..(n - 1) : Probe(start, i, n) = Probe(start, k, n) => i = k
<1>1. \A i \in 0..(n - 1) : Probe(start, i, n) \in 0..(n - 1)
  BY DEF Probe
<1>2. ASSUME NEW x \in 0..(n - 1)
      PROVE  \E i \in 0..(n - 1) : Probe(start, i, n) = x
  <2>1. CASE x >= start
    <3>1. x - start \in 0..(n - 1) /\ Probe(start, x - start, n) = x
      BY <2>1 DEF Probe
    <3>2. QED BY <3>1
  <2>2. CASE x < start
    <3>1. x - start + n \in 0..(n - 1) /\ Probe(start, x - start + n, n) = x
      BY <2>2 DEF Probe
    <3>2. QED BY <3>1
  <2>3. QED BY <2>1, <2>2
<1>3. \A i, k \in 0..(n - 1) : Probe(start, i, n) = Probe(start, k, n) => i = k
  BY DEF Probe
<1>4. QED BY <1>1, <1>2, <1>3

\* The load limit is below the size of the table, and doubling the table
\* raises it.
LEMMA LoadLimitFacts ==
    /\ LoadLimit(0) = 0
    /\ \A n \in Nat \ {0} :
        /\ LoadLimit(n) \in Nat
        /\ LoadLimit(n) < n
        /\ LoadLimit(2 * n) > LoadLimit(n)
    /\ LoadLimit(InitialSize) > 0
BY SizeAssumption DEF LoadLimit

\* A nonempty set of numbers has a least element, which Least returns.
LEMMA LeastInSet ==
    ASSUME NEW S \in SUBSET Nat, S # {}
    PROVE  Least(S) \in S /\ \A x \in S : Least(S) <= x
<1>1. PICK m \in S : \A y \in S : ~(<<y, m>> \in OpToRel(<, Nat))
  BY NatLessThanWellFounded, WFMin
<1>2. \A y \in S : y \in Nat /\ ~(y < m)
  BY <1>1, Zenon DEF OpToRel
<1>3. \A y \in S : m <= y
  BY <1>2
<1>4. QED BY <1>3 DEF Least

------------------------------------------------------------------------------
(* KH_InsertSlot *)

\* Fewer pairs than slots leave a free slot: used slots hold distinct indexes.
LEMMA FreeSlotExists ==
    ASSUME NEW n \in Nat, NEW c \in Nat, c < n,
           NEW s \in [0..(n - 1) -> 0..HashEmpty],
           SlotsInUse(s, c, n)
    PROVE  \E x \in 0..(n - 1) : IsFree(s[x])
<1> SUFFICES ASSUME \A x \in 0..(n - 1) : ~IsFree(s[x])
             PROVE  FALSE
  OBVIOUS
<1>1. s \in [0..(n - 1) -> 0..(c - 1)]
  BY DEF SlotsInUse
<1>2. IsFiniteSet(0..(n - 1)) /\ Cardinality(0..(n - 1)) = n
  BY FS_Interval
<1>3. IsFiniteSet(0..(c - 1)) /\ Cardinality(0..(c - 1)) = c
  <2>1. 0 \in Int /\ c - 1 \in Int /\ (0 > c - 1 => c = 0)
    OBVIOUS
  <2>2. /\ IsFiniteSet(0..(c - 1))
        /\ Cardinality(0..(c - 1)) = IF 0 > c - 1 THEN 0 ELSE (c - 1) - 0 + 1
    BY <2>1, FS_Interval, Zenon
  <2>3. QED BY <2>1, <2>2
<1>4. \E x, y \in 0..(n - 1) : x # y /\ s[x] = s[y]
  BY <1>1, <1>2, <1>3, FS_PigeonHole, ZenonT(30)
<1>5. QED BY <1>4 DEF SlotsInUse

\* The slot KH_InsertSlot writes: the first free one of the probe sequence.
LEMMA FirstFreeIsFree ==
    ASSUME NEW n \in Nat, NEW start \in 0..(n - 1),
           NEW s \in [0..(n - 1) -> 0..HashEmpty],
           \E x \in 0..(n - 1) : IsFree(s[x])
    PROVE  LET d == FirstFree(s, start, n)
           IN  /\ d \in 0..(n - 1)
               /\ IsFree(s[Probe(start, d, n)])
               /\ Reaches(s, start, d, n)
<1> DEFINE d == FirstFree(s, start, n)
<1>1. FreeOffsets(s, start, n) # {} /\ FreeOffsets(s, start, n) \in SUBSET Nat
  <2>1. PICK x \in 0..(n - 1) : IsFree(s[x])
    OBVIOUS
  <2>2. PICK i \in 0..(n - 1) : Probe(start, i, n) = x
    BY ProbeIsPermutation
  <2>3. i \in FreeOffsets(s, start, n)
    BY <2>1, <2>2 DEF FreeOffsets
  <2>4. QED BY <2>3, SMTT(30) DEF FreeOffsets
<1>2. d \in FreeOffsets(s, start, n) /\ \A x \in FreeOffsets(s, start, n) : d <= x
  BY <1>1, LeastInSet DEF FirstFree
<1>3. d \in 0..(n - 1) /\ IsFree(s[Probe(start, d, n)])
  BY <1>2 DEF FreeOffsets
<1>4. ASSUME NEW x \in 0..(d - 1)
      PROVE  s[Probe(start, x, n)] # KH_HASH_EMPTY
  <2>1. x \in 0..(n - 1) /\ ~(d <= x)
    BY <1>3, SMTT(30)
  <2>2. ~IsFree(s[Probe(start, x, n)])
    BY <1>2, <2>1 DEF FreeOffsets
  <2>3. QED BY <2>2 DEF IsFree
<1>5. QED BY <1>3, <1>4 DEF Reaches

\* Adding the index of a new key keeps the index structure sound.
LEMMA InsertSlotSound ==
    ASSUME NEW n \in 1..MaxAlloced, NEW c \in Nat, c < n,
           NEW s \in [0..(n - 1) -> 0..HashEmpty],
           NEW p, NEW q, NEW k \in Keys,
           SlotsIndexPairs(s, p, c, n),
           \A i \in 0..(c - 1) : p[i].key # k,
           \A i \in 0..(c - 1) : q[i].key = p[i].key,
           q[c].key = k
    PROVE  LET t == KH_InsertSlot(s, n, Hash[k], c)
           IN  t \in [0..(n - 1) -> 0..HashEmpty] /\ SlotsIndexPairs(t, q, c + 1, n)
<1> DEFINE start == StartingIndex(Hash[k], n)
           d == FirstFree(s, start, n)
           at == Probe(start, d, n)
           t == KH_InsertSlot(s, n, Hash[k], c)
<1>0. n \in Nat /\ n # 0 /\ n < HashEmpty - 1 /\ HashEmpty \in Nat
  BY BoundAssumption
<1>1. start \in 0..(n - 1)
  BY <1>0, KeyAssumption, StartInRange
<1>2. \E x \in 0..(n - 1) : IsFree(s[x])
  BY <1>0, FreeSlotExists DEF SlotsIndexPairs
<1>3. d \in 0..(n - 1) /\ IsFree(s[at]) /\ Reaches(s, start, d, n)
  BY <1>0, <1>1, <1>2, FirstFreeIsFree
<1>4. at \in 0..(n - 1)
  BY <1>0, <1>1, <1>3, ProbeIsPermutation
<1>5. t = [s EXCEPT ![at] = c]
  BY DEF KH_InsertSlot
<1>6. t \in [0..(n - 1) -> 0..HashEmpty]
  BY <1>0, <1>4, <1>5
<1>7. t[at] = c /\ \A x \in 0..(n - 1) : x # at => t[x] = s[x]
  BY <1>4, <1>5
<1>8. ~IsFree(c)
  BY <1>0 DEF IsFree, KH_HASH_EMPTY, KH_HASH_DELETED
<1>9. DistinctKeys(q, c + 1)
  BY SMTT(30) DEF SlotsIndexPairs, DistinctKeys
<1>10. SlotsInUse(t, c + 1, n)
  <2>1. SlotsInUse(s, c, n)
    BY DEF SlotsIndexPairs
  <2>2. ASSUME NEW x \in 0..(n - 1)
        PROVE  \/ IsFree(t[x])
               \/ t[x] \in 0..c /\ \A y \in 0..(n - 1) : t[y] = t[x] => y = x
    <3>0. \A y \in 0..(n - 1) : y # at => t[y] # c
      BY <1>0, <1>7, <1>8, <2>1, SMTT(30) DEF SlotsInUse
    <3>1. CASE x = at
      BY <1>7, <3>0, <3>1, SMTT(30)
    <3>2. CASE x # at
      BY <1>7, <2>1, <3>0, <3>2, SMTT(30) DEF SlotsInUse
    <3>3. QED BY <3>1, <3>2
  <2>3. QED BY <2>2 DEF SlotsInUse
<1>11. ASSUME NEW a \in 0..c
       PROVE  LET from == StartingIndex(Hash[q[a].key], n)
              IN  \E i \in 0..(n - 1) : t[Probe(from, i, n)] = a /\ Reaches(t, from, i, n)
  <2> DEFINE from == StartingIndex(Hash[q[a].key], n)
  <2>0. q[a].key \in Keys /\ from \in 0..(n - 1)
    <3>1. a \in 0..((c + 1) - 1)
      OBVIOUS
    <3>2. q[a].key \in Keys
      BY <1>9, <3>1 DEF DistinctKeys
    <3>3. Hash[q[a].key] \in Nat
      BY <3>2, KeyAssumption
    <3>4. QED BY <1>0, <3>2, <3>3, StartInRange
  <2>1. ASSUME NEW i \in 0..(n - 1), Reaches(s, from, i, n)
        PROVE  Reaches(t, from, i, n)
    <3>1. SUFFICES ASSUME NEW x \in 0..(i - 1)
                   PROVE  t[Probe(from, x, n)] # KH_HASH_EMPTY
      BY DEF Reaches
    <3>2. s[Probe(from, x, n)] # KH_HASH_EMPTY /\ Probe(from, x, n) \in 0..(n - 1)
      <4>1. x \in 0..(n - 1)
        BY <1>0
      <4>2. Probe(from, x, n) \in 0..(n - 1)
        BY <1>0, <2>0, <4>1, ProbeIsPermutation
      <4>3. QED BY <2>1, <4>2 DEF Reaches
    <3>3. QED BY <1>7, <1>8, <3>2 DEF IsFree
  <2>2. CASE a = c
    BY <1>3, <1>7, <2>1, <2>2
  <2>3. CASE a # c
    <3>1. a \in 0..(c - 1) /\ q[a].key = p[a].key
      BY <2>3
    <3>2. PICK i \in 0..(n - 1) : s[Probe(from, i, n)] = a /\ Reaches(s, from, i, n)
      BY <3>1 DEF SlotsIndexPairs, Reachable
    <3>3. Probe(from, i, n) \in 0..(n - 1) /\ ~IsFree(a)
      <4>1. Probe(from, i, n) \in 0..(n - 1)
        BY <1>0, <2>0, ProbeIsPermutation
      <4>2. QED BY <1>0, <3>1, <4>1 DEF IsFree, KH_HASH_EMPTY, KH_HASH_DELETED
    <3>4. t[Probe(from, i, n)] = a
      BY <1>3, <1>7, <3>2, <3>3, SMTT(30)
    <3>5. QED BY <2>1, <3>2, <3>4
  <2>4. QED BY <2>2, <2>3
<1>12. Reachable(t, q, c + 1, n)
  BY <1>11, SMTT(30) DEF Reachable
<1>13. QED BY <1>6, <1>9, <1>10, <1>12 DEF SlotsIndexPairs

------------------------------------------------------------------------------
(* KH_DictLookupIndex and KH_DictRemove *)

\* An index into pairs is neither of the two special slot values.
LEMMA IndexIsNotFree ==
    ASSUME NEW a \in Nat, a < MaxAlloced
    PROVE  ~IsFree(a)
BY BoundAssumption DEF IsFree, KH_HASH_EMPTY, KH_HASH_DELETED

\* A lookup finds the pair with the key if there is one, and only then.
LEMMA LookupSound ==
    ASSUME TypeOK, IndexSound, NEW k \in Keys
    PROVE  LET index == KH_DictLookupIndex(k)
           IN  \/ /\ index = KH_NOT_FOUND
                  /\ \A a \in 0..(data_count - 1) : pairs[a].key # k
               \/ index \in 0..(data_count - 1) /\ pairs[index].key = k
<1> DEFINE n == data_alloced
           start == StartingIndex(Hash[k], n)
           index == KH_DictLookupIndex(k)
<1>1. /\ n \in Nat /\ n <= MaxAlloced /\ data_count \in Nat /\ data_count <= n
      /\ Hash[k] \in Nat
      /\ SlotsInUse(slots, data_count, n) /\ Reachable(slots, pairs, data_count, n)
  BY KeyAssumption, BoundAssumption DEF TypeOK, IndexSound, SlotsIndexPairs
<1>2. ASSUME NEW a \in 0..(data_count - 1), pairs[a].key = k
      PROVE  Hits(k) # {}
  <2>1. PICK i \in 0..(n - 1) : slots[Probe(start, i, n)] = a /\ Reaches(slots, start, i, n)
    BY <1>1, <1>2 DEF Reachable
  <2>2. ~IsFree(a)
    BY <1>1, IndexIsNotFree, BoundAssumption
  <2>3. i \in Hits(k)
    BY <1>2, <2>1, <2>2 DEF Hits
  <2>4. QED BY <2>3
<1>3. ASSUME Hits(k) # {}
      PROVE  index \in 0..(data_count - 1) /\ pairs[index].key = k
  <2> DEFINE i == Least(Hits(k))
  <2>1. Hits(k) \in SUBSET Nat
    BY <1>1 DEF Hits
  <2>2. i \in Hits(k)
    BY <1>3, <2>1, LeastInSet
  <2>3. index = slots[Probe(start, i, n)]
    BY <1>3, SMTT(30) DEF KH_DictLookupIndex
  <2>4. i \in 0..(n - 1) /\ ~IsFree(index) /\ pairs[index].key = k
    BY <2>2, <2>3, ZenonT(30) DEF Hits
  <2>5. Probe(start, i, n) \in 0..(n - 1)
    <3>1. start \in 0..(n - 1)
      BY <1>1, <2>4, StartInRange
    <3>2. QED BY <1>1, <2>4, <3>1, ProbeIsPermutation
  <2>6. QED BY <1>1, <2>3, <2>4, <2>5 DEF SlotsInUse
<1>4. CASE Hits(k) = {}
  <2>1. index = KH_NOT_FOUND
    BY <1>4 DEF KH_DictLookupIndex
  <2>2. QED BY <1>2, <1>4, <2>1
<1>5. QED BY <1>3, <1>4

\* The two special results of a lookup cannot be confused.
LEMMA NotFoundIsNoIndex == KH_NOT_FOUND \notin Nat
BY DEF KH_NOT_FOUND

\* Removing a pair keeps the index structure sound: the pairs after it move
\* down by one, and its slot becomes a tombstone that searches pass over.
LEMMA RemoveSound ==
    ASSUME TypeOK, IndexSound, NEW index \in 0..(data_count - 1)
    PROVE  /\ RemovedSlots(index) \in [0..(data_alloced - 1) -> 0..HashEmpty]
           /\ SlotsIndexPairs(RemovedSlots(index), RemovedPairs(index), data_count - 1, data_alloced)
<1> DEFINE n == data_alloced
           s == slots
           t == RemovedSlots(index)
           q == RemovedPairs(index)
           up(a) == IF a < index THEN a ELSE a + 1
<1>1. /\ n \in Nat /\ n <= MaxAlloced /\ data_count \in Nat /\ data_count <= n
      /\ s \in [0..(n - 1) -> 0..HashEmpty]
      /\ HashEmpty \in Nat /\ MaxAlloced \in Nat /\ MaxAlloced < HashEmpty - 1
      /\ DistinctKeys(pairs, data_count)
      /\ SlotsInUse(s, data_count, n)
      /\ Reachable(s, pairs, data_count, n)
  BY BoundAssumption DEF TypeOK, IndexSound, SlotsIndexPairs
<1>2. \A a \in 0..(data_count - 2) :
          up(a) \in 0..(data_count - 1) /\ up(a) # index /\ q[a] = pairs[up(a)]
  BY <1>1 DEF RemovedPairs
<1>3. ASSUME NEW x \in 0..(n - 1)
      PROVE  /\ IsFree(s[x]) => t[x] = s[x]
             /\ ~IsFree(s[x]) => s[x] \in 0..(data_count - 1)
             /\ ~IsFree(s[x]) /\ s[x] < index => t[x] = s[x]
             /\ ~IsFree(s[x]) /\ s[x] = index => t[x] = KH_HASH_DELETED
             /\ ~IsFree(s[x]) /\ s[x] > index => t[x] = s[x] - 1
             /\ ~IsFree(s[x]) => s[x] < index \/ s[x] = index \/ s[x] > index
  <2>1. ~IsFree(s[x]) => s[x] \in 0..(data_count - 1)
    BY <1>1 DEF SlotsInUse
  <2>2. t[x] = IF IsFree(s[x]) THEN s[x]
               ELSE IF s[x] > index THEN s[x] - 1
               ELSE IF s[x] = index THEN KH_HASH_DELETED ELSE s[x]
    BY <1>1 DEF RemovedSlots
  <2>3. QED BY <1>1, <2>1, <2>2, SMTT(30)
<1>4. t \in [0..(n - 1) -> 0..HashEmpty]
  <2>1. ASSUME NEW x \in 0..(n - 1)
        PROVE  t[x] \in 0..HashEmpty
    <3>1. s[x] \in 0..HashEmpty /\ KH_HASH_DELETED \in 0..HashEmpty
      BY <1>1 DEF KH_HASH_DELETED
    <3>2. CASE IsFree(s[x])
      BY <1>3, <3>1, <3>2
    <3>3. CASE ~IsFree(s[x])
      <4>1. s[x] \in 0..(data_count - 1) /\ s[x] <= HashEmpty
        BY <1>1, <1>3, <3>3
      <4>2. t[x] = s[x] \/ t[x] = KH_HASH_DELETED \/ (s[x] > index /\ t[x] = s[x] - 1)
        BY <1>3, <3>3
      <4> HIDE DEF t
      <4>3. s[x] \in Nat /\ index \in Nat /\ HashEmpty \in Nat
        BY <1>1, <4>1
      <4>4. s[x] > index => s[x] - 1 \in 0..HashEmpty
        BY <4>1, <4>3
      <4>5. QED BY <3>1, <4>1, <4>2, <4>3, <4>4
    <3>4. QED BY <3>2, <3>3
  <2>2. QED BY <2>1 DEF RemovedSlots
<1>5. DistinctKeys(q, data_count - 1)
  <2>1. ASSUME NEW a \in 0..(data_count - 2)
        PROVE  /\ q[a].key \in Keys
               /\ \A b \in 0..(data_count - 2) : q[a].key = q[b].key => a = b
    <3>1. pairs[up(a)].key \in Keys /\ q[a] = pairs[up(a)]
      BY <1>1, <1>2 DEF DistinctKeys
    <3>2. ASSUME NEW b \in 0..(data_count - 2), q[a].key = q[b].key
          PROVE  a = b
      <4>1. /\ up(b) \in 0..(data_count - 1) /\ q[b] = pairs[up(b)]
            /\ up(a) \in 0..(data_count - 1)
        BY <1>2
      <4>2. pairs[up(a)].key = pairs[up(b)].key
        BY <3>1, <3>2, <4>1
      <4>3. up(a) = up(b)
        BY <1>1, <4>1, <4>2 DEF DistinctKeys
      <4>4. QED BY <1>1, <4>3
    <3>3. QED BY <3>1, <3>2
  <2>2. (data_count - 1) - 1 = data_count - 2
    BY <1>1
  <2>3. QED BY <2>1, <2>2 DEF DistinctKeys
<1>6. SlotsInUse(t, data_count - 1, n)
  <2>1. ASSUME NEW x \in 0..(n - 1), ~IsFree(t[x])
        PROVE  /\ t[x] \in 0..((data_count - 1) - 1)
               /\ \A y \in 0..(n - 1) : t[y] = t[x] => y = x
    <3>1. ~IsFree(s[x]) /\ s[x] # index
      <4>1. IsFree(KH_HASH_DELETED)
        BY DEF IsFree
      <4>2. QED BY <1>3, <2>1, <4>1
    <3>2. t[x] \in 0..((data_count - 1) - 1) /\ s[x] = up(t[x])
      <4>1. s[x] \in 0..(data_count - 1)
        BY <1>3, <3>1
      <4>2. (s[x] < index /\ t[x] = s[x]) \/ (s[x] > index /\ t[x] = s[x] - 1)
        BY <1>3, <3>1
      <4>3. CASE s[x] < index /\ t[x] = s[x]
        BY <1>1, <4>1, <4>3
      <4>4. CASE s[x] > index /\ t[x] = s[x] - 1
        <5>1. t[x] \in 0..((data_count - 1) - 1) /\ ~(t[x] < index) /\ s[x] = t[x] + 1
          BY <1>1, <4>1, <4>4, SMTT(30)
        <5>2. QED BY <5>1
      <4>5. QED BY <4>2, <4>3, <4>4
    <3>3. ASSUME NEW y \in 0..(n - 1), t[y] = t[x]
          PROVE  s[y] = s[x]
      <4>0. IsFree(KH_HASH_DELETED)
        BY DEF IsFree
      <4>1. ~IsFree(s[y]) /\ s[y] # index
        BY <1>3, <2>1, <3>3, <4>0
      <4>2. s[y] = up(t[y])
        <5>1. s[y] \in 0..(data_count - 1)
          BY <1>3, <4>1
        <5>2. (s[y] < index /\ t[y] = s[y]) \/ (s[y] > index /\ t[y] = s[y] - 1)
          BY <1>3, <4>1
        <5>3. CASE s[y] < index /\ t[y] = s[y]
          BY <5>3
        <5>4. CASE s[y] > index /\ t[y] = s[y] - 1
          <6>1. ~(t[y] < index) /\ s[y] = t[y] + 1
            BY <1>1, <5>1, <5>4, SMTT(30)
          <6>2. QED BY <6>1
        <5>5. QED BY <5>2, <5>3, <5>4
      <4>3. QED BY <3>2, <3>3, <4>2
    <3>4. QED BY <1>1, <3>1, <3>2, <3>3 DEF SlotsInUse
  <2>2. QED BY <2>1 DEF SlotsInUse
<1>7. ASSUME NEW a \in 0..((data_count - 1) - 1)
      PROVE  LET start == StartingIndex(Hash[q[a].key], n)
             IN  \E i \in 0..(n - 1) : t[Probe(start, i, n)] = a /\ Reaches(t, start, i, n)
  <2> DEFINE start == StartingIndex(Hash[q[a].key], n)
  <2>1. up(a) \in 0..(data_count - 1) /\ up(a) # index /\ q[a].key = pairs[up(a)].key
    BY <1>1, <1>2, SMTT(30)
  <2>2. PICK i \in 0..(n - 1) : s[Probe(start, i, n)] = up(a) /\ Reaches(s, start, i, n)
    BY <1>1, <2>1 DEF Reachable
  <2>3. start \in 0..(n - 1)
    <3>1. q[a].key \in Keys
      BY <1>1, <2>1 DEF DistinctKeys
    <3>2. Hash[q[a].key] \in Nat /\ n \in Nat \ {0}
      BY <1>1, <3>1, KeyAssumption
    <3>3. QED BY <3>2, StartInRange
  <2>4. \A x \in 0..i : Probe(start, x, n) \in 0..(n - 1)
    <3>1. \A x \in 0..(n - 1) : Probe(start, x, n) \in 0..(n - 1)
      BY <1>1, <2>3, ProbeIsPermutation
    <3>2. \A x \in 0..i : x \in 0..(n - 1)
      BY <1>1
    <3>3. QED BY <3>1, <3>2
  <2>5. ~IsFree(up(a))
    <3>1. up(a) \in Nat /\ up(a) < MaxAlloced
      BY <1>1, <2>1
    <3>2. QED BY <3>1, IndexIsNotFree
  <2>6. t[Probe(start, i, n)] = a
    <3>1. Probe(start, i, n) \in 0..(n - 1)
      BY <1>1, <2>4
    <3>2. CASE a < index
      BY <1>3, <2>2, <2>5, <3>1, <3>2
    <3>3. CASE a >= index
      <4>1. up(a) = a + 1 /\ a + 1 > index
        BY <1>1, <3>3
      <4>2. QED BY <1>3, <2>2, <2>5, <3>1, <4>1
    <3>4. QED BY <1>1, <3>2, <3>3
  <2>7. ASSUME NEW x \in 0..(i - 1)
        PROVE  t[Probe(start, x, n)] # KH_HASH_EMPTY
    <3> DEFINE y == Probe(start, x, n)
    <3>1. y \in 0..(n - 1) /\ s[y] # KH_HASH_EMPTY
      <4>1. x \in 0..i
        BY <1>1
      <4>2. QED BY <2>2, <2>4, <4>1 DEF Reaches
    <3>2. CASE IsFree(s[y])
      BY <1>3, <3>1, <3>2
    <3>3. CASE ~IsFree(s[y])
      <4>1. s[y] \in 0..(data_count - 1)
        BY <1>3, <3>1, <3>3
      <4>2. \/ t[y] = s[y] \/ t[y] = KH_HASH_DELETED \/ t[y] = s[y] - 1
        BY <1>3, <3>1, <3>3
      <4>3. QED BY <1>1, <4>1, <4>2, SMTT(30) DEF KH_HASH_EMPTY, KH_HASH_DELETED
    <3>4. QED BY <3>2, <3>3
  <2>8. QED BY <2>6, <2>7 DEF Reaches
<1>8. Reachable(t, q, data_count - 1, n)
  BY <1>7 DEF Reachable
<1>9. QED BY <1>4, <1>5, <1>6, <1>8 DEF SlotsIndexPairs

------------------------------------------------------------------------------
(* The inductive invariant *)

\* IndexSound alone is not inductive: that growing copies exactly the live
\* pairs needs NoStalePairCopied and Dense, and the copy needs CopySound.
IInv == TypeOK /\ IndexSound /\ NoStalePairCopied /\ CopySound /\ Dense

\* An empty table is sound.
LEMMA EmptySound ==
    ASSUME NEW s, NEW p, NEW n \in Nat,
           \A x \in 0..(n - 1) : IsFree(s[x])
    PROVE  SlotsIndexPairs(s, p, 0, n)
BY DEF SlotsIndexPairs, DistinctKeys, SlotsInUse, Reachable

\* Soundness depends on the keys of the pairs only.
LEMMA KeysDecide ==
    ASSUME NEW s, NEW p, NEW q, NEW c \in Nat, NEW n \in Nat,
           SlotsIndexPairs(s, p, c, n),
           \A i \in 0..(c - 1) : q[i].key = p[i].key
    PROVE  SlotsIndexPairs(s, q, c, n)
<1>1. DistinctKeys(q, c)
  BY DEF SlotsIndexPairs, DistinctKeys
<1>2. Reachable(s, q, c, n)
  BY DEF SlotsIndexPairs, Reachable
<1>3. QED BY <1>1, <1>2 DEF SlotsIndexPairs

\* The table starts sound.
LEMMA InitSound == Init => IInv
<1> SUFFICES ASSUME Init PROVE IInv
  OBVIOUS
<1>1. TypeOK
  BY BoundAssumption DEF Init, TypeOK, NoArray, Pairs, NullPair, Pair
<1>2. SlotsIndexPairs(slots, pairs, 0, 0)
  BY EmptySound
<1>3. IndexSound /\ CopySound /\ Dense
  BY <1>2 DEF Init, IndexSound, CopySound, Dense
<1>4. NoStalePairCopied
  BY LoadLimitFacts DEF Init, NoStalePairCopied
<1>5. QED BY <1>1, <1>3, <1>4 DEF IInv

\* Results and the count of live blobs do not matter to it.
LEMMA FrameSound ==
    ASSUME IInv, UNCHANGED <<dictVars, resizeVars, pc>>, live' \in Int
    PROVE  IInv'
BY DEF IInv, TypeOK, IndexSound, NoStalePairCopied, CopySound, Dense, NewSize,
       dictVars, resizeVars

\* KH_DictInsert when the table does not grow.
LEMMA InsertSound ==
    ASSUME IInv, NEW k \in Keys, NEW v \in Values, KH_DictInsert(k, v)
    PROVE  IInv'
<1> DEFINE n == data_alloced
           c == data_count
<1>1. /\ pc = "idle" /\ pc' = "idle" /\ c < LoadLimit(n)
      /\ pairs' = [pairs EXCEPT ![c] = Pair(k, v)]
      /\ slots' = KH_InsertSlot(slots, n, Hash[k], c)
      /\ data_count' = c + 1 /\ data_alloced' = n
      /\ UNCHANGED <<arg, new_slots, new_pairs, j>>
      /\ live' = live + 2
  <2>1. c \in Nat /\ LoadLimit(n) \in Int
    BY LoadLimitFacts DEF IInv, TypeOK, LoadLimit
  <2>2. QED BY <2>1 DEF KH_DictInsert, Inserts, Grows, resizeVars
<1>2. /\ n \in 1..MaxAlloced /\ n \in Nat /\ c \in Nat /\ c < n /\ c + 1 <= LoadLimit(n)
      /\ LoadLimit(n) \in Nat /\ LoadLimit(n) < n
  <2>1. n \in 0..MaxAlloced /\ MaxAlloced \in Nat /\ c \in Nat
    BY BoundAssumption DEF IInv, TypeOK
  <2>2. n # 0
    BY <1>1, <2>1, LoadLimitFacts
  <2>3. LoadLimit(n) \in Nat /\ LoadLimit(n) < n
    BY <2>1, <2>2, LoadLimitFacts
  <2>4. QED BY <1>1, <2>1, <2>2, <2>3
<1>3. \A a \in 0..(c - 1) : pairs[a].key # k
  <2>1. KH_DictLookupIndex(k) = KH_NOT_FOUND
    BY DEF KH_DictInsert, Inserts
  <2>2. KH_NOT_FOUND \notin 0..(c - 1)
    BY <1>2, NotFoundIsNoIndex
  <2>3. QED BY <2>1, <2>2, LookupSound DEF IInv
<1>4. /\ pairs' \in [0..(n - 1) -> Pairs]
      /\ pairs'[c] = Pair(k, v)
      /\ \A i \in 0..(n - 1) : i # c => pairs'[i] = pairs[i]
  BY <1>1, <1>2 DEF IInv, TypeOK, Pairs, Pair
<1>5. /\ slots' \in [0..(n - 1) -> 0..HashEmpty]
      /\ SlotsIndexPairs(slots', pairs', c + 1, n)
  <2>1. slots \in [0..(n - 1) -> 0..HashEmpty] /\ SlotsIndexPairs(slots, pairs, c, n)
    BY DEF IInv, TypeOK, IndexSound
  <2>2. pairs'[c].key = k /\ \A i \in 0..(c - 1) : pairs'[i].key = pairs[i].key
    BY <1>2, <1>4 DEF Pair
  <2>3. QED BY <1>1, <1>2, <1>3, <2>1, <2>2, InsertSlotSound
<1>6. TypeOK'
  <2>1. live' \in Int
    BY <1>1 DEF IInv, TypeOK
  <2>2. data_count' \in 0..data_alloced' /\ j' \in 0..data_count' /\ data_alloced' \in 0..MaxAlloced
    BY <1>1, <1>2 DEF IInv, TypeOK
  <2>3. QED BY <1>1, <1>4, <1>5, <2>1, <2>2 DEF IInv, TypeOK
<1>7. IndexSound' /\ CopySound'
  BY <1>1, <1>5 DEF IndexSound, CopySound
<1>8. NoStalePairCopied'
  <2>1. \A i \in LoadLimit(n)..(n - 1) : pairs'[i] = NullPair
    BY <1>2, <1>4 DEF IInv, NoStalePairCopied
  <2>2. QED BY <1>1, <1>2, <2>1 DEF NoStalePairCopied
<1>9. Dense'
  <2>1. \A i \in 0..c : pairs'[i].value \in Values
    BY <1>2, <1>4 DEF IInv, Dense, Pair
  <2>2. QED BY <1>1, <1>2, <2>1 DEF Dense
<1>10. QED BY <1>6, <1>7, <1>8, <1>9 DEF IInv

\* Facts about the sizes that every step uses.
LEMMA Sizes ==
    ASSUME IInv
    PROVE  /\ data_alloced \in Nat /\ data_alloced <= MaxAlloced
           /\ MaxAlloced \in Nat /\ MaxAlloced < HashEmpty - 1 /\ HashEmpty \in Nat
           /\ data_count \in Nat /\ data_count <= data_alloced
           /\ LoadLimit(data_alloced) \in Nat /\ LoadLimit(data_alloced) <= data_alloced
           /\ data_alloced # 0 => LoadLimit(data_alloced) < data_alloced
           /\ data_count <= LoadLimit(data_alloced)
           /\ NewSize \in Nat /\ NewSize > data_alloced
           /\ LoadLimit(NewSize) \in Nat /\ LoadLimit(NewSize) < NewSize
           /\ LoadLimit(NewSize) > LoadLimit(data_alloced)
<1>1. /\ data_alloced \in Nat /\ data_alloced <= MaxAlloced
      /\ MaxAlloced \in Nat /\ MaxAlloced < HashEmpty - 1 /\ HashEmpty \in Nat
      /\ data_count \in Nat /\ data_count <= data_alloced
      /\ data_count <= LoadLimit(data_alloced)
  BY BoundAssumption DEF IInv, TypeOK, NoStalePairCopied
<1>2. CASE data_alloced = 0
  <2>1. NewSize = InitialSize /\ InitialSize \in Nat \ {0}
    BY <1>2, SizeAssumption DEF NewSize
  <2>2. QED BY <1>1, <1>2, <2>1, LoadLimitFacts
<1>3. CASE data_alloced # 0
  <2>1. NewSize = 2 * data_alloced /\ NewSize \in Nat \ {0} /\ NewSize > data_alloced
    BY <1>1, <1>3 DEF NewSize
  <2>2. data_alloced \in Nat \ {0}
    BY <1>1, <1>3
  <2>3. QED BY <1>1, <2>1, <2>2, LoadLimitFacts
<1>4. QED BY <1>2, <1>3

\* KH_ResizeDict up to its copy loop.
LEMMA ResizeSound ==
    ASSUME IInv, NEW k \in Keys, NEW v \in Values, KH_ResizeDict(k, v)
    PROVE  IInv'
<1>1. /\ pc = "idle" /\ pc' = "rehash" /\ arg' = Pair(k, v) /\ j' = 0
      /\ data_count >= LoadLimit(data_alloced)
      /\ UNCHANGED <<slots, pairs, data_count, data_alloced>>
      /\ new_slots' = [i \in 0..(NewSize - 1) |-> KH_HASH_EMPTY]
      /\ new_pairs' = [i \in 0..(NewSize - 1) |-> NullPair]
      /\ NewSize <= MaxAlloced
      /\ live' = live + 2
      /\ KH_DictLookupIndex(k) = KH_NOT_FOUND
  BY DEF KH_ResizeDict, Inserts, Grows, dictVars
<1>2. NewSize' = NewSize
  BY <1>1 DEF NewSize
<1>3. TypeOK'
  <2>1. new_slots' \in [0..(NewSize - 1) -> 0..HashEmpty]
    BY <1>1, Sizes DEF KH_HASH_EMPTY
  <2>2. new_pairs' \in [0..(NewSize - 1) -> Pairs]
    BY <1>1 DEF NullPair, Pair, Pairs
  <2>3. arg' \in Pairs /\ live' \in Int /\ j' \in 0..data_count'
    BY <1>1, Sizes DEF Pair, Pairs, IInv, TypeOK
  <2>4. QED BY <1>1, <1>2, <2>1, <2>2, <2>3 DEF IInv, TypeOK
<1>4. IndexSound'
  <2>1. \A x \in 0..(NewSize - 1) : IsFree(new_slots'[x])
    BY <1>1 DEF IsFree
  <2>2. SlotsIndexPairs(new_slots', new_pairs', 0, NewSize)
    BY <2>1, Sizes, EmptySound
  <2>3. QED BY <1>1, <1>2, <2>2 DEF IInv, IndexSound
<1>5. NoStalePairCopied'
  BY <1>1, Sizes, SMTT(30) DEF IInv, NoStalePairCopied
<1>6. CopySound'
  <2>1. \A a \in 0..(data_count - 1) : pairs[a].key # k
    <3>1. KH_NOT_FOUND \notin 0..(data_count - 1)
      BY Sizes, NotFoundIsNoIndex
    <3>2. QED BY <1>1, <3>1, LookupSound DEF IInv
  <2>2. \A i \in 0..(NewSize - 1) : new_pairs'[i] = IF i < j' THEN pairs'[i] ELSE NullPair
    BY <1>1
  <2>3. QED BY <1>1, <1>2, <2>1, <2>2 DEF CopySound, Pair
<1>7. Dense'
  BY <1>1 DEF IInv, Dense
<1>8. QED BY <1>3, <1>4, <1>5, <1>6, <1>7 DEF IInv

\* One turn of the copy loop copies a live pair.
LEMMA RehashSound ==
    ASSUME IInv, RehashPair
    PROVE  IInv'
<1>1. /\ pc = "rehash" /\ pc' = "rehash" /\ j' = j + 1
      /\ UNCHANGED <<slots, pairs, data_count, data_alloced, arg, live>>
      /\ new_pairs' = [new_pairs EXCEPT ![j] = pairs[j]]
      /\ new_slots' = KH_InsertSlot(new_slots, NewSize, Hash[pairs[j].key], j)
      /\ j < data_alloced /\ pairs[j].key # NoBlob
  BY DEF RehashPair, CopyStops, dictVars
<1>2. NewSize' = NewSize
  BY <1>1 DEF NewSize
<1>3. j \in 0..(data_count - 1)
  <2>1. j \in 0..data_count /\ data_count = LoadLimit(data_alloced)
    BY <1>1 DEF IInv, TypeOK, NoStalePairCopied
  <2>2. j # data_count
    <3>1. SUFFICES ASSUME j = data_count PROVE FALSE
      OBVIOUS
    <3>2. j \in LoadLimit(data_alloced)..(data_alloced - 1)
      BY <1>1, <2>1, <3>1, Sizes
    <3>3. pairs[j] = NullPair
      BY <3>2 DEF IInv, NoStalePairCopied
    <3>4. QED BY <1>1, <3>3 DEF NullPair, Pair
  <2>3. QED BY <2>1, <2>2, Sizes
<1>4. j \in Nat /\ j < NewSize /\ NewSize \in 1..MaxAlloced /\ NewSize \in Nat
  BY <1>1, <1>3, Sizes, SMTT(30) DEF IInv, TypeOK
<1>5. pairs[j].key \in Keys /\ \A i \in 0..(j - 1) : pairs[i].key # pairs[j].key
  <2>1. \A i \in 0..(j - 1) : i \in 0..(data_count - 1) /\ i # j
    BY <1>3, Sizes
  <2>2. QED BY <1>3, <2>1 DEF IInv, IndexSound, SlotsIndexPairs, DistinctKeys
<1>6. /\ new_pairs' \in [0..(NewSize - 1) -> Pairs]
      /\ \A i \in 0..(NewSize - 1) : new_pairs'[i] = IF i < j + 1 THEN pairs[i] ELSE NullPair
  <2>1. /\ new_pairs \in [0..(NewSize - 1) -> Pairs]
        /\ \A i \in 0..(NewSize - 1) : new_pairs[i] = IF i < j THEN pairs[i] ELSE NullPair
    BY <1>1 DEF IInv, TypeOK, CopySound
  <2>2. pairs[j] \in Pairs
    BY <1>1, <1>4, Sizes DEF IInv, TypeOK
  <2>3. new_pairs' \in [0..(NewSize - 1) -> Pairs]
    BY <1>1, <2>1, <2>2
  <2>4. QED BY <1>1, <1>4, <2>1, <2>3
<1>7. /\ new_slots' \in [0..(NewSize - 1) -> 0..HashEmpty]
      /\ SlotsIndexPairs(new_slots', new_pairs', j + 1, NewSize)
  <2>1. /\ new_slots \in [0..(NewSize - 1) -> 0..HashEmpty]
        /\ SlotsIndexPairs(new_slots, new_pairs, j, NewSize)
    BY <1>1 DEF IInv, TypeOK, IndexSound
  <2>2. \A i \in 0..(j - 1) : i \in 0..(NewSize - 1) /\ i < j /\ i < j + 1
    BY <1>4
  <2>3. \A i \in 0..(j - 1) : new_pairs[i].key = pairs[i].key
    BY <1>1, <2>2 DEF IInv, CopySound
  <2>4. \A i \in 0..(j - 1) : new_pairs'[i].key = new_pairs[i].key
    BY <1>6, <2>2, <2>3
  <2>5. new_pairs'[j].key = pairs[j].key
    BY <1>4, <1>6
  <2>6. \A i \in 0..(j - 1) : new_pairs[i].key # pairs[j].key
    BY <1>5, <2>3
  <2>7. QED BY <1>1, <1>4, <1>5, <2>1, <2>4, <2>5, <2>6, InsertSlotSound
<1>8. TypeOK'
  <2>1. j' \in 0..data_count'
    BY <1>1, <1>3, Sizes
  <2>2. QED BY <1>1, <1>2, <1>6, <1>7, <2>1, SMTT(30) DEF IInv, TypeOK
<1>9. IndexSound' /\ Dense'
  BY <1>1, <1>2, <1>7 DEF IInv, IndexSound, Dense
<1>10. NoStalePairCopied'
  BY <1>1, <1>3, Sizes DEF IInv, NoStalePairCopied
<1>11. CopySound'
  BY <1>1, <1>2, <1>6 DEF IInv, CopySound
<1>12. QED BY <1>8, <1>9, <1>10, <1>11 DEF IInv

\* The copy loop stops exactly when every pair has been copied.
LEMMA CopyComplete ==
    ASSUME IInv, pc = "rehash", CopyStops
    PROVE  j = data_count
<1>1. j \in 0..data_count /\ data_count <= data_alloced
  BY Sizes DEF IInv, TypeOK
<1>2. CASE j < data_count
  <2>1. j \in 0..(data_count - 1) /\ j < data_alloced
    BY <1>1, <1>2, Sizes
  <2>2. pairs[j].key \in Keys /\ pairs[j].value \in Values
    BY <2>1 DEF IInv, Dense, IndexSound, SlotsIndexPairs, DistinctKeys
  <2>3. QED BY <2>1, <2>2, KeyAssumption DEF CopyStops
<1>3. QED BY <1>1, <1>2, Sizes

\* The new arrays replace the old ones and the new pair is added.
LEMMA RehashDoneSound ==
    ASSUME IInv, RehashDone
    PROVE  IInv'
<1>1. /\ pc = "rehash" /\ pc' = "idle" /\ j' = 0 /\ CopyStops
      /\ pairs' = [new_pairs EXCEPT ![j] = arg]
      /\ slots' = KH_InsertSlot(new_slots, NewSize, Hash[arg.key], j)
      /\ data_alloced' = NewSize /\ data_count' = j + 1
      /\ arg' = NullPair /\ live' = live
  BY DEF RehashDone
<1>2. j = data_count /\ j \in Nat /\ j < NewSize /\ j + 1 <= LoadLimit(NewSize)
  BY <1>1, CopyComplete, Sizes
<1>3. NewSize \in 1..MaxAlloced /\ NewSize \in Nat
  BY <1>1, Sizes DEF IInv, TypeOK
<1>4. /\ arg \in Pairs /\ arg.key \in Keys /\ arg.value \in Values
      /\ \A i \in 0..(j - 1) : pairs[i].key # arg.key
      /\ new_pairs \in [0..(NewSize - 1) -> Pairs]
      /\ \A i \in 0..(NewSize - 1) : new_pairs[i] = IF i < j THEN pairs[i] ELSE NullPair
      /\ new_slots \in [0..(NewSize - 1) -> 0..HashEmpty]
      /\ SlotsIndexPairs(new_slots, new_pairs, j, NewSize)
  BY <1>1, <1>2 DEF IInv, TypeOK, CopySound, IndexSound
<1>5. /\ pairs' \in [0..(NewSize - 1) -> Pairs]
      /\ pairs'[j] = arg
      /\ \A i \in 0..(NewSize - 1) : i # j => pairs'[i] = new_pairs[i]
  BY <1>1, <1>2, <1>3, <1>4
<1>6. /\ slots' \in [0..(NewSize - 1) -> 0..HashEmpty]
      /\ SlotsIndexPairs(slots', pairs', j + 1, NewSize)
  <2>1. \A i \in 0..(j - 1) : i \in 0..(NewSize - 1) /\ i < j /\ i # j
    BY <1>2, <1>3
  <2>2. \A i \in 0..(j - 1) : new_pairs[i].key # arg.key
    BY <1>4, <2>1
  <2>3. \A i \in 0..(j - 1) : pairs'[i].key = new_pairs[i].key
    BY <1>5, <2>1
  <2>4. j \in Nat /\ j < NewSize
    BY <1>2
  <2>5. pairs'[j].key = arg.key
    BY <1>5
  <2>6. QED BY <1>1, <1>3, <1>4, <2>2, <2>3, <2>4, <2>5, InsertSlotSound, ZenonT(30)
<1>7. TypeOK'
  <2>1. data_count' \in 0..data_alloced' /\ data_alloced' \in 0..MaxAlloced /\ j' \in 0..data_count'
    BY <1>1, <1>2, <1>3
  <2>2. arg' \in Pairs /\ live' \in Int
    BY <1>1 DEF NullPair, Pair, Pairs, IInv, TypeOK
  <2>3. QED BY <1>1, <1>5, <1>6, <2>1, <2>2 DEF TypeOK
<1>8. IndexSound' /\ CopySound'
  BY <1>1, <1>6 DEF IndexSound, CopySound
<1>9. NoStalePairCopied'
  <2>1. ASSUME NEW i \in LoadLimit(NewSize)..(NewSize - 1)
        PROVE  pairs'[i] = NullPair
    <3>1. i \in 0..(NewSize - 1) /\ i # j /\ ~(i < j)
      BY <1>2, Sizes
    <3>2. QED BY <1>4, <1>5, <3>1
  <2>2. QED BY <1>1, <1>2, <2>1 DEF NoStalePairCopied
<1>10. Dense'
  <2>1. ASSUME NEW i \in 0..j
        PROVE  pairs'[i].value \in Values
    <3>1. CASE i = j
      BY <1>4, <1>5, <3>1
    <3>2. CASE i # j
      <4>1. i \in 0..(data_count - 1) /\ i \in 0..(NewSize - 1) /\ i < j
        BY <1>2, <1>3, <3>2
      <4>2. pairs'[i] = pairs[i]
        BY <1>4, <1>5, <3>2, <4>1
      <4>3. QED BY <4>1, <4>2 DEF IInv, Dense
    <3>3. QED BY <3>1, <3>2
  <2>2. QED BY <1>1, <1>2, <2>1 DEF Dense
<1>11. QED BY <1>7, <1>8, <1>9, <1>10 DEF IInv

\* What a successful lookup returns.
LEMMA FoundIndex ==
    ASSUME IInv, NEW k \in Keys, KH_DictLookupIndex(k) # KH_NOT_FOUND
    PROVE  /\ KH_DictLookupIndex(k) \in 0..(data_count - 1)
           /\ KH_DictLookupIndex(k) \in 0..(data_alloced - 1)
           /\ pairs[KH_DictLookupIndex(k)].key = k
<1>1. KH_DictLookupIndex(k) \in 0..(data_count - 1) /\ pairs[KH_DictLookupIndex(k)].key = k
  BY LookupSound DEF IInv
<1>2. QED BY <1>1, Sizes

\* KH_DictChange.
LEMMA ChangeSound ==
    ASSUME IInv, NEW k \in Keys, NEW v \in Values, KH_DictChange(k, v)
    PROVE  IInv'
<1> DEFINE index == KH_DictLookupIndex(k)
<1>1. /\ pc = "idle" /\ pc' = "idle"
      /\ pairs' = [pairs EXCEPT ![index] = Pair(pairs[index].key, v)]
      /\ UNCHANGED <<slots, data_count, data_alloced, arg, new_slots, new_pairs, j>>
      /\ live' = live
      /\ index # KH_NOT_FOUND
  BY DEF KH_DictChange, resizeVars
<1>2. index \in 0..(data_count - 1) /\ index \in 0..(data_alloced - 1)
  BY <1>1, FoundIndex
<1>3. /\ pairs' \in [0..(data_alloced - 1) -> Pairs]
      /\ pairs'[index].value = v
      /\ pairs'[index].key = pairs[index].key
      /\ \A i \in 0..(data_alloced - 1) : i # index => pairs'[i] = pairs[i]
  <2>1. pairs \in [0..(data_alloced - 1) -> Pairs] /\ pairs[index] \in Pairs
    BY <1>2 DEF IInv, TypeOK
  <2>2. Pair(pairs[index].key, v) \in Pairs
    BY <2>1 DEF Pairs, Pair
  <2>3. pairs' \in [0..(data_alloced - 1) -> Pairs]
    BY <1>1, <2>1, <2>2
  <2>4. pairs'[index] = Pair(pairs[index].key, v)
    BY <1>1, <1>2, <2>1
  <2>5. QED BY <1>1, <2>1, <2>3, <2>4 DEF Pair
<1>4. \A i \in 0..(data_count - 1) : i \in 0..(data_alloced - 1)
  BY Sizes
<1>5. TypeOK'
  BY <1>1, <1>3 DEF IInv, TypeOK
<1>6. IndexSound' /\ CopySound'
  <2>1. \A i \in 0..(data_count - 1) : pairs'[i].key = pairs[i].key
    BY <1>3, <1>4
  <2>2. SlotsIndexPairs(slots, pairs', data_count, data_alloced)
    BY <2>1, Sizes, KeysDecide DEF IInv, IndexSound
  <2>3. QED BY <1>1, <2>2 DEF IndexSound, CopySound
<1>7. NoStalePairCopied'
  <2>1. \A i \in LoadLimit(data_alloced)..(data_alloced - 1) : pairs'[i] = pairs[i]
    BY <1>2, <1>3, Sizes, SMTT(30)
  <2>2. QED BY <1>1, <2>1 DEF IInv, NoStalePairCopied
<1>8. Dense'
  <2>1. \A i \in 0..(data_count - 1) : pairs'[i].value \in Values
    BY <1>3, <1>4 DEF IInv, Dense
  <2>2. QED BY <1>1, <2>1 DEF Dense
<1>9. QED BY <1>5, <1>6, <1>7, <1>8 DEF IInv

\* KH_DictRemove.
LEMMA DeleteSound ==
    ASSUME IInv, NEW k \in Keys, KH_DictDelete(k)
    PROVE  IInv'
<1> DEFINE index == KH_DictLookupIndex(k)
<1>1. /\ pc = "idle" /\ pc' = "idle"
      /\ pairs' = RemovedPairs(index) /\ slots' = RemovedSlots(index)
      /\ data_count' = data_count - 1 /\ data_alloced' = data_alloced
      /\ UNCHANGED <<arg, new_slots, new_pairs, j>>
      /\ live' = live - 2
      /\ index # KH_NOT_FOUND
  BY DEF KH_DictDelete, resizeVars
<1>2. index \in 0..(data_count - 1)
  BY <1>1, FoundIndex
<1>3. /\ slots' \in [0..(data_alloced - 1) -> 0..HashEmpty]
      /\ SlotsIndexPairs(slots', pairs', data_count - 1, data_alloced)
  BY <1>1, <1>2, RemoveSound DEF IInv
<1>4. \A i \in 0..(data_alloced - 1) :
         pairs'[i] = IF index <= i /\ i + 1 < data_count THEN pairs[i + 1] ELSE pairs[i]
  BY <1>1 DEF RemovedPairs
<1>5. TypeOK'
  <2>1. ASSUME NEW i \in 0..(data_alloced - 1)
        PROVE  pairs'[i] \in Pairs
    <3>1. CASE index <= i /\ i + 1 < data_count
      <4>1. i + 1 \in 0..(data_alloced - 1)
        BY <3>1, Sizes
      <4>2. QED BY <1>4, <3>1, <4>1 DEF IInv, TypeOK
    <3>2. CASE ~(index <= i /\ i + 1 < data_count)
      BY <1>4, <3>2 DEF IInv, TypeOK
    <3>3. QED BY <3>1, <3>2
  <2>2. pairs' \in [0..(data_alloced - 1) -> Pairs]
    BY <1>1, <2>1 DEF RemovedPairs
  <2>3. data_count' \in 0..data_alloced' /\ live' \in Int
    BY <1>1, <1>2, Sizes DEF IInv, TypeOK
  <2>4. j' = 0 /\ j' \in 0..data_count'
    BY <1>1, <1>2, Sizes DEF IInv, TypeOK
  <2>5. QED BY <1>1, <1>3, <2>2, <2>3, <2>4, Sizes DEF IInv, TypeOK
<1>6. IndexSound' /\ CopySound'
  BY <1>1, <1>3 DEF IndexSound, CopySound
<1>7. NoStalePairCopied'
  <2>1. ASSUME NEW i \in LoadLimit(data_alloced)..(data_alloced - 1)
        PROVE  pairs'[i] = NullPair
    <3>1. i \in 0..(data_alloced - 1) /\ ~(i + 1 < data_count)
      BY Sizes
    <3>2. QED BY <1>4, <3>1 DEF IInv, NoStalePairCopied
  <2>2. QED BY <1>1, <2>1, Sizes DEF NoStalePairCopied
<1>8. Dense'
  <2>1. ASSUME NEW i \in 0..((data_count - 1) - 1)
        PROVE  pairs'[i].value \in Values
    <3>1. i \in 0..(data_alloced - 1) /\ i \in 0..(data_count - 1) /\ i + 1 \in 0..(data_count - 1)
      BY Sizes
    <3>2. QED BY <1>4, <3>1 DEF IInv, Dense
  <2>2. QED BY <1>1, <2>1 DEF Dense
<1>9. QED BY <1>5, <1>6, <1>7, <1>8 DEF IInv

\* KH_ReleaseDict.
LEMMA ReleaseSound ==
    ASSUME IInv, KH_ReleaseDict
    PROVE  IInv'
<1>1. /\ pc = "idle" /\ pc' = "none"
      /\ slots' = NoArray /\ pairs' = NoArray /\ data_count' = 0 /\ data_alloced' = 0
      /\ live' = live - 2 * data_count
      /\ UNCHANGED <<arg, new_slots, new_pairs, j>>
  BY DEF KH_ReleaseDict, resizeVars
<1>2. live' \in Int
  BY <1>1, Sizes DEF IInv, TypeOK
<1>3. TypeOK'
  <2>1. NoArray \in [0..(0 - 1) -> 0..HashEmpty] /\ NoArray \in [0..(0 - 1) -> Pairs]
    BY DEF NoArray
  <2>2. data_alloced' \in 0..MaxAlloced /\ data_count' \in 0..data_alloced' /\ j' = 0 /\ j' \in 0..data_count'
    BY <1>1, Sizes DEF IInv, TypeOK
  <2>3. QED BY <1>1, <1>2, <2>1, <2>2 DEF IInv, TypeOK
<1>4. IndexSound' /\ CopySound' /\ Dense'
  <2>1. SlotsIndexPairs(slots', pairs', 0, 0)
    BY EmptySound
  <2>2. QED BY <1>1, <2>1 DEF IndexSound, CopySound, Dense
<1>5. NoStalePairCopied'
  BY <1>1, LoadLimitFacts DEF NoStalePairCopied
<1>6. QED BY <1>3, <1>4, <1>5 DEF IInv

\* The calls that change neither the table nor the locals of a resize.
ReadOnly ==
    \/ \E k \in Keys : KH_DictDeleteMissing(k) \/ KH_DictGet(k) \/ KH_DictHas(k)
    \/ \E k \in Keys, v \in Values : KH_ResizeDictFails(k, v)
    \/ \E i \in 0..data_count : KH_DictKeyIter(i) \/ KH_DictValueIter(i)
    \/ KH_DictLen

LEMMA ReadOnlySound ==
    ASSUME IInv, ReadOnly
    PROVE  IInv'
<1>1. UNCHANGED <<dictVars, resizeVars, pc>>
  BY DEF ReadOnly, KH_DictDeleteMissing, KH_DictGet, KH_DictHas, KH_ResizeDictFails,
         KH_DictKeyIter, KH_DictValueIter, KH_DictLen
<1>2. live' = live \/ live' = live + 2
  BY DEF ReadOnly, KH_DictDeleteMissing, KH_DictGet, KH_DictHas, KH_ResizeDictFails,
         KH_DictKeyIter, KH_DictValueIter, KH_DictLen
<1>3. live' \in Int
  BY <1>2 DEF IInv, TypeOK
<1>4. QED BY <1>1, <1>3, FrameSound

\* KH_CreateDict.
LEMMA CreateSound ==
    ASSUME IInv, KH_CreateDict
    PROVE  IInv'
BY DEF KH_CreateDict, IInv, TypeOK, IndexSound, NoStalePairCopied, CopySound, Dense,
       dictVars, resizeVars

\* Every step keeps the invariant.
LEMMA NextSound ==
    ASSUME IInv, [Next]_vars
    PROVE  IInv'
<1>1. CASE KH_CreateDict
  BY <1>1, CreateSound
<1>2. CASE KH_ReleaseDict
  BY <1>2, ReleaseSound
<1>3. ASSUME NEW k \in Keys, NEW v \in Values, KH_DictSet(k, v)
      PROVE  IInv'
  <2>1. CASE KH_DictChange(k, v)
    BY <2>1, ChangeSound
  <2>2. CASE KH_DictInsert(k, v)
    BY <2>2, InsertSound
  <2>3. CASE KH_ResizeDict(k, v)
    BY <2>3, ResizeSound
  <2>4. CASE KH_ResizeDictFails(k, v)
    BY <2>4, ReadOnlySound DEF ReadOnly
  <2>5. QED BY <1>3, <2>1, <2>2, <2>3, <2>4 DEF KH_DictSet
<1>4. CASE RehashPair
  BY <1>4, RehashSound
<1>5. CASE RehashDone
  BY <1>5, RehashDoneSound
<1>6. ASSUME NEW k \in Keys, KH_DictDelete(k)
      PROVE  IInv'
  BY <1>6, DeleteSound
<1>7. CASE ReadOnly
  BY <1>7, ReadOnlySound
<1>8. CASE UNCHANGED vars
  <2>1. live' \in Int /\ UNCHANGED <<dictVars, resizeVars, pc>>
    BY <1>8 DEF vars, dictVars, resizeVars, IInv, TypeOK
  <2>2. QED BY <2>1, FrameSound
<1>9. QED BY <1>1, <1>2, <1>3, <1>4, <1>5, <1>6, <1>7, <1>8 DEF Next, ReadOnly

\* Whatever is set, deleted and grown, the slots index exactly the pairs, every
\* pair can be reached, and growing copies every pair and no stale one.
THEOREM TableSound == Spec => [](TypeOK /\ IndexSound /\ NoStalePairCopied /\ CopySound)
<1>1. Init => IInv
  BY InitSound
<1>2. IInv /\ [Next]_vars => IInv'
  BY NextSound
<1>3. IInv => TypeOK /\ IndexSound /\ NoStalePairCopied /\ CopySound
  BY DEF IInv
<1>4. QED BY <1>1, <1>2, <1>3, PTL DEF Spec

\* No pair at or above the load limit is ever used, so the copy loop of
\* KH_ResizeDict, which a NULL pair ends, copies no pair that was removed.
THEOREM NoStalePair == Spec => []NoStalePairCopied
BY TableSound, PTL

\* KH_DictSet with a new key: the blobs of the pair are the table's, unless the
\* resize fails.
LEMMA SetOwnsBlobs ==
    ASSUME IInv, NEW k \in Keys, NEW v \in Values, KH_DictSet(k, v), Unowned' # Unowned
    PROVE  Unowned' = Unowned + 2 /\ ret' = <<"Set", k, FALSE>>
<1>1. live \in Int /\ data_count \in Int
  BY DEF IInv, TypeOK
<1>2. ASSUME KH_DictChange(k, v) PROVE FALSE
  BY <1>2 DEF KH_DictChange, Unowned
<1>3. ASSUME KH_DictInsert(k, v) PROVE FALSE
  BY <1>1, <1>3 DEF KH_DictInsert, Inserts, Unowned
<1>4. ASSUME KH_ResizeDict(k, v) PROVE FALSE
  BY <1>1, <1>4 DEF KH_ResizeDict, Inserts, Unowned, dictVars
<1>5. ASSUME KH_ResizeDictFails(k, v)
      PROVE  Unowned' = Unowned + 2 /\ ret' = <<"Set", k, FALSE>>
  BY <1>1, <1>5 DEF KH_ResizeDictFails, Inserts, Unowned, dictVars
<1>6. QED BY <1>2, <1>3, <1>4, <1>5 DEF KH_DictSet

\* No call loses a blob or frees one twice, except a set whose resize fails,
\* which reports it and leaks the two blobs it was given.
THEOREM NoBlobLost == Spec => BlobsOwned
<1>1. Init => IInv
  BY InitSound
<1>2. IInv /\ [Next]_vars => IInv'
  BY NextSound
<1>3. ASSUME IInv, [Next]_vars
      PROVE  Unowned' # Unowned => /\ Unowned' = Unowned + 2
                                   /\ \E k \in Keys : ret' = <<"Set", k, FALSE>>
  <2>1. live \in Int /\ data_count \in Int
    BY <1>3 DEF IInv, TypeOK
  <2>2. CASE KH_CreateDict
    BY <2>2 DEF KH_CreateDict, Unowned, dictVars
  <2>3. CASE KH_ReleaseDict
    BY <2>1, <2>3 DEF KH_ReleaseDict, Unowned
  <2>4. CASE \E k \in Keys, v \in Values : KH_DictSet(k, v)
    BY <1>3, <2>4, SetOwnsBlobs
  <2>5. CASE RehashPair
    BY <2>5 DEF RehashPair, Unowned, dictVars
  <2>6. CASE RehashDone
    BY <1>3, <2>1, <2>6, CopyComplete DEF RehashDone, Unowned
  <2>7. CASE \E k \in Keys : KH_DictDelete(k)
    BY <2>1, <2>7 DEF KH_DictDelete, Unowned
  <2>8. CASE \/ \E k \in Keys : KH_DictDeleteMissing(k) \/ KH_DictGet(k) \/ KH_DictHas(k)
             \/ \E i \in 0..data_count : KH_DictKeyIter(i) \/ KH_DictValueIter(i)
             \/ KH_DictLen
    BY <2>8 DEF KH_DictDeleteMissing, KH_DictGet, KH_DictHas, KH_DictKeyIter,
                KH_DictValueIter, KH_DictLen, Unowned, dictVars
  <2>9. CASE UNCHANGED vars
    BY <2>9 DEF vars, Unowned
  <2>10. QED
    BY <1>3, <2>2, <2>3, <2>4, <2>5, <2>6, <2>7, <2>8, <2>9 DEF Next
<1>4. QED BY <1>1, <1>2, <1>3, PTL DEF Spec, BlobsOwned

\* The while (1) of KH_InsertSlot always meets a free slot.
THEOREM InsertTerminates == Spec => []SlotLeft
<1>1. Init => IInv
  BY InitSound
<1>2. IInv /\ [Next]_vars => IInv'
  BY NextSound
<1>3. ASSUME IInv PROVE SlotLeft
  <2>1. ASSUME data_alloced > 0
        PROVE  \E x \in 0..(data_alloced - 1) : IsFree(slots[x])
    <3>1. data_count < data_alloced /\ data_alloced \in Nat /\ data_count \in Nat
      BY <1>3, <2>1, Sizes
    <3>2. slots \in [0..(data_alloced - 1) -> 0..HashEmpty] /\ SlotsInUse(slots, data_count, data_alloced)
      BY <1>3 DEF IInv, TypeOK, IndexSound, SlotsIndexPairs
    <3>3. QED BY <3>1, <3>2, FreeSlotExists
  <2>2. ASSUME pc = "rehash"
        PROVE  \E x \in 0..(NewSize - 1) : IsFree(new_slots[x])
    <3>1. j < NewSize /\ j \in Nat /\ NewSize \in Nat
      BY <1>3, Sizes DEF IInv, TypeOK
    <3>2. new_slots \in [0..(NewSize - 1) -> 0..HashEmpty] /\ SlotsInUse(new_slots, j, NewSize)
      BY <1>3, <2>2 DEF IInv, TypeOK, IndexSound, SlotsIndexPairs
    <3>3. QED BY <3>1, <3>2, FreeSlotExists
  <2>3. QED BY <2>1, <2>2 DEF SlotLeft
<1>4. QED BY <1>1, <1>2, <1>3, PTL DEF Spec
==============================================================================
