------------------------- MODULE KHashTableRefines -------------------------
(***************************************************************************)
(* Every step of the hash table is a step of the insertion-ordered map, or *)
(* leaves the map as it is.                                                *)
(***************************************************************************)
EXTENDS KHashTableProofs, SequenceTheorems

\* The first c entries of an array of pairs, as a sequence.
LEMMA PairsAsSequence ==
    ASSUME NEW c \in Nat, NEW p, \A i \in 0..(c - 1) : p[i] \in Pairs
    PROVE  LET d == [i \in 1..c |-> p[i - 1]]
           IN  d \in Seq(Pairs) /\ Len(d) = c /\ \A i \in 1..c : d[i] = p[i - 1]
<1> DEFINE d == [i \in 1..c |-> p[i - 1]]
<1>1. ASSUME NEW i \in 1..c
      PROVE  p[i - 1] \in Pairs
  <2>1. i - 1 \in 0..(c - 1)
    OBVIOUS
  <2>2. QED BY <2>1
<1>2. d \in [1..c -> Pairs]
  BY <1>1
<1>3. d \in Seq(Pairs)
  BY <1>2, SeqDef
<1>4. Len(d) = c
  BY <1>2, <1>3, LenProperties
<1>5. QED BY <1>3, <1>4

\* The abstract state as a sequence.
LEMMA ContentsFacts ==
    ASSUME IInv
    PROVE  /\ Contents \in Seq(Pairs)
           /\ Len(Contents) = data_count
           /\ \A i \in 1..data_count : Contents[i] = pairs[i - 1]
<1>1. data_count \in Nat /\ \A i \in 0..(data_count - 1) : i \in 0..(data_alloced - 1)
  BY Sizes
<1>2. \A i \in 0..(data_count - 1) : pairs[i] \in Pairs
  BY <1>1 DEF IInv, TypeOK
<1>3. QED BY <1>1, <1>2, PairsAsSequence DEF Contents

\* A key is in the map iff the table has a pair with it.
LEMMA ContainsFacts ==
    ASSUME IInv, NEW k \in Keys
    PROVE  Abstract!Contains(Contents, k) <=> \E a \in 0..(data_count - 1) : pairs[a].key = k
<1>1. ASSUME NEW i \in 1..data_count, Contents[i].key = k
      PROVE  \E a \in 0..(data_count - 1) : pairs[a].key = k
  <2>1. i - 1 \in 0..(data_count - 1) /\ pairs[i - 1].key = k
    BY <1>1, ContentsFacts, Sizes, SMTT(30)
  <2>2. QED BY <2>1
<1>2. ASSUME NEW a \in 0..(data_count - 1), pairs[a].key = k
      PROVE  \E i \in 1..data_count : Contents[i].key = k
  <2>1. a + 1 \in 1..data_count /\ (a + 1) - 1 = a
    BY Sizes
  <2>2. Contents[a + 1].key = k
    BY <1>2, <2>1, ContentsFacts
  <2>3. QED BY <2>1, <2>2
<1>3. QED BY <1>1, <1>2, ContentsFacts DEF Abstract!Contains

\* A lookup that fails says the key is not in the map.
LEMMA NotFoundMeans ==
    ASSUME IInv, NEW k \in Keys, KH_DictLookupIndex(k) = KH_NOT_FOUND
    PROVE  ~Abstract!Contains(Contents, k)
<1>1. KH_NOT_FOUND \notin 0..(data_count - 1)
  BY Sizes, NotFoundIsNoIndex
<1>2. \A a \in 0..(data_count - 1) : pairs[a].key # k
  BY <1>1, LookupSound DEF IInv
<1>3. QED BY <1>2, ContainsFacts

\* A lookup that succeeds returns the key's place in the map.
LEMMA FoundMeans ==
    ASSUME IInv, NEW k \in Keys, KH_DictLookupIndex(k) # KH_NOT_FOUND
    PROVE  /\ Abstract!Contains(Contents, k)
           /\ Abstract!IndexIn(Contents, k) = KH_DictLookupIndex(k) + 1
           /\ KH_DictLookupIndex(k) + 1 \in 1..data_count
<1> DEFINE a == KH_DictLookupIndex(k)
<1>1. a \in 0..(data_count - 1) /\ pairs[a].key = k
  BY FoundIndex
<1>2. Abstract!Contains(Contents, k)
  BY <1>1, ContainsFacts
<1> HIDE DEF a
<1>3. a + 1 \in 1..data_count /\ (a + 1) - 1 = a
  BY <1>1, Sizes
<1>4. Contents[a + 1].key = k
  BY <1>1, <1>3, ContentsFacts
<1>5. ASSUME NEW i \in 1..data_count, Contents[i].key = k
      PROVE  i = a + 1
  <2>1. i - 1 \in 0..(data_count - 1) /\ pairs[i - 1].key = k
    BY <1>5, ContentsFacts, Sizes, SMTT(30)
  <2>2. i - 1 = a
    BY <1>1, <2>1 DEF IInv, IndexSound, SlotsIndexPairs, DistinctKeys
  <2>3. QED BY <2>2, Sizes
<1>6. Abstract!IndexIn(Contents, k) = a + 1
  BY <1>3, <1>4, <1>5, ContentsFacts DEF Abstract!IndexIn
<1>7. QED BY <1>2, <1>3, <1>6 DEF a

\* An index of a pair is an index of the array.
LEMMA WithinArray ==
    ASSUME NEW c \in Nat, NEW n \in Nat, c <= n
    PROVE  \A i \in 0..(c - 1) : i \in 0..(n - 1)
OBVIOUS

\* The map after a step, from the pairs after it.
LEMMA ContentsNext ==
    ASSUME IInv, IInv', NEW d \in Seq(Pairs),
           Len(d) = data_count',
           \A i \in 1..data_count' : d[i] = pairs'[i - 1]
    PROVE  Contents' = d
<1>1. data_count' \in Nat /\ data_count' <= data_alloced' /\ data_alloced' \in Nat
  <2>1. MaxAlloced \in Nat /\ data_alloced' \in 0..MaxAlloced /\ data_count' \in 0..data_alloced'
    BY BoundAssumption DEF IInv, TypeOK
  <2>2. QED BY <2>1
<1>2. \A i \in 0..(data_count' - 1) : i \in 0..(data_alloced' - 1)
  BY <1>1, WithinArray
<1>3. \A i \in 0..(data_count' - 1) : pairs'[i] \in Pairs
  BY <1>2 DEF IInv, TypeOK
<1>4. /\ Contents' \in Seq(Pairs)
      /\ Len(Contents') = data_count'
      /\ \A i \in 1..data_count' : Contents'[i] = pairs'[i - 1]
  BY <1>1, <1>3, PairsAsSequence DEF Contents
<1>5. QED BY <1>4, SeqEqual

\* Appending a pair.
LEMMA AppendFacts ==
    ASSUME NEW d \in Seq(Pairs), NEW e \in Pairs
    PROVE  /\ Append(d, e) \in Seq(Pairs)
           /\ Len(Append(d, e)) = Len(d) + 1
           /\ \A i \in 1..(Len(d) + 1) : Append(d, e)[i] = IF i = Len(d) + 1 THEN e ELSE d[i]
BY AppendProperties

\* Adding a new key, with or without growing.
LEMMA AddsPair ==
    ASSUME IInv, IInv', NEW k \in Keys, NEW v \in Values,
           ~Abstract!Contains(Contents, k),
           data_count' = data_count + 1,
           pairs'[data_count] = Pair(k, v),
           \A i \in 0..(data_count - 1) : pairs'[i] = pairs[i]
    PROVE  Contents' = Abstract!Put(Contents, k, v)
<1> DEFINE d == Append(Contents, Pair(k, v))
<1>1. Pair(k, v) \in Pairs
  BY DEF Pair, Pairs
<1>2. /\ d \in Seq(Pairs) /\ Len(d) = data_count'
      /\ \A i \in 1..data_count' : d[i] = IF i = data_count + 1 THEN Pair(k, v) ELSE Contents[i]
  BY <1>1, ContentsFacts, AppendFacts
<1>3. ASSUME NEW i \in 1..data_count'
      PROVE  d[i] = pairs'[i - 1]
  <2>1. CASE i = data_count + 1
    BY <1>2, <2>1, Sizes, SMTT(30)
  <2>2. CASE i # data_count + 1
    <3>1. i \in 1..data_count /\ i - 1 \in 0..(data_count - 1)
      BY <2>2, Sizes
    <3>2. QED BY <1>2, <2>2, <3>1, ContentsFacts
  <2>3. QED BY <2>1, <2>2
<1>4. Contents' = d
  BY <1>2, <1>3, ContentsNext
<1>5. QED BY <1>4 DEF Abstract!Put, Abstract!Pair, Pair

\* KH_DictInsert appends.
LEMMA InsertRefines ==
    ASSUME IInv, IInv', NEW k \in Keys, NEW v \in Values, KH_DictInsert(k, v)
    PROVE  Abstract!Set(k, v)
<1>1. /\ pc = "idle" /\ pc' = "idle" /\ data_count' = data_count + 1
      /\ pairs' = [pairs EXCEPT ![data_count] = Pair(k, v)]
      /\ data_alloced' = data_alloced
      /\ ret' = <<"Set", k, TRUE>>
      /\ KH_DictLookupIndex(k) = KH_NOT_FOUND
  BY DEF KH_DictInsert, Inserts
<1>2. data_count \in 0..(data_alloced - 1)
  BY <1>1, Sizes DEF IInv, TypeOK
<1>3. /\ pairs'[data_count] = Pair(k, v)
      /\ \A i \in 0..(data_count - 1) : pairs'[i] = pairs[i]
  BY <1>1, <1>2, Sizes DEF IInv, TypeOK
<1>4. Contents' = Abstract!Put(Contents, k, v)
  BY <1>1, <1>3, NotFoundMeans, AddsPair
<1>5. QED BY <1>1, <1>4 DEF Abstract!Set

\* The end of a resize appends the pair that caused it.
LEMMA RehashDoneRefines ==
    ASSUME IInv, IInv', RehashDone
    PROVE  Abstract!Set(arg.key, arg.value) /\ arg.key \in Keys /\ arg.value \in Values
<1>1. /\ pc = "rehash" /\ pc' = "idle" /\ CopyStops
      /\ pairs' = [new_pairs EXCEPT ![j] = arg]
      /\ data_count' = j + 1
      /\ ret' = <<"Set", arg.key, TRUE>>
  BY DEF RehashDone
<1>2. j = data_count /\ j \in Nat /\ j < NewSize /\ NewSize \in Nat
  BY <1>1, CopyComplete, Sizes
<1>3. /\ arg.key \in Keys /\ arg.value \in Values /\ arg = Pair(arg.key, arg.value)
      /\ new_pairs \in [0..(NewSize - 1) -> Pairs]
      /\ \A i \in 0..(NewSize - 1) : new_pairs[i] = IF i < j THEN pairs[i] ELSE NullPair
      /\ \A i \in 0..(data_count - 1) : pairs[i].key # arg.key
  BY <1>1 DEF IInv, TypeOK, CopySound, Pairs, Pair
<1>4. pairs'[data_count] = Pair(arg.key, arg.value)
  BY <1>1, <1>2, <1>3
<1>5. ASSUME NEW i \in 0..(data_count - 1)
      PROVE  pairs'[i] = pairs[i]
  <2>1. i \in 0..(NewSize - 1) /\ i < j /\ i # j
    BY <1>2
  <2>2. QED BY <1>1, <1>3, <2>1
<1>6. ~Abstract!Contains(Contents, arg.key)
  BY <1>3, ContainsFacts
<1>7. Contents' = Abstract!Put(Contents, arg.key, arg.value)
  BY <1>1, <1>2, <1>3, <1>4, <1>5, <1>6, AddsPair
<1>8. QED BY <1>1, <1>3, <1>7 DEF Abstract!Set

\* KH_DictChange overwrites in place.
LEMMA ChangeRefines ==
    ASSUME IInv, IInv', NEW k \in Keys, NEW v \in Values, KH_DictChange(k, v)
    PROVE  Abstract!Set(k, v)
<1> DEFINE index == KH_DictLookupIndex(k)
           d == [Contents EXCEPT ![index + 1] = Pair(k, v)]
<1>1. /\ pc = "idle" /\ pc' = "idle" /\ data_count' = data_count
      /\ pairs' = [pairs EXCEPT ![index] = Pair(pairs[index].key, v)]
      /\ ret' = <<"Set", k, TRUE>>
      /\ index # KH_NOT_FOUND
  BY DEF KH_DictChange
<1>2. /\ index \in 0..(data_count - 1) /\ index \in 0..(data_alloced - 1)
      /\ pairs[index].key = k
  BY <1>1, FoundIndex
<1>3. /\ Abstract!Contains(Contents, k)
      /\ Abstract!IndexIn(Contents, k) = index + 1
      /\ index + 1 \in 1..data_count
  BY <1>1, FoundMeans
<1> HIDE DEF index
<1>4. Pair(k, v) \in Pairs
  BY DEF Pair, Pairs
<1>5. /\ d \in Seq(Pairs) /\ Len(d) = data_count
      /\ \A i \in 1..data_count : d[i] = IF i = index + 1 THEN Pair(k, v) ELSE Contents[i]
  BY <1>3, <1>4, ContentsFacts, ExceptSeq
<1>6. ASSUME NEW i \in 1..data_count
      PROVE  d[i] = pairs'[i - 1]
  <2>1. i - 1 \in 0..(data_alloced - 1) /\ Contents[i] = pairs[i - 1]
    BY ContentsFacts, Sizes, SMTT(30)
  <2>2. pairs \in [0..(data_alloced - 1) -> Pairs]
    BY DEF IInv, TypeOK
  <2>3. pairs'[i - 1] = IF i - 1 = index THEN Pair(k, v) ELSE pairs[i - 1]
    BY <1>1, <1>2, <2>1, <2>2
  <2>4. i - 1 = index <=> i = index + 1
    BY <1>2, Sizes
  <2>5. QED BY <1>5, <2>1, <2>3, <2>4
<1>7. Contents' = d
  BY <1>1, <1>5, <1>6, ContentsNext
<1>8. Contents' = Abstract!Put(Contents, k, v)
  BY <1>3, <1>7 DEF Abstract!Put, Abstract!Pair, Pair
<1>9. QED BY <1>1, <1>8 DEF Abstract!Set

\* KH_DictRemove closes the gap.
LEMMA DeleteRefines ==
    ASSUME IInv, IInv', NEW k \in Keys, KH_DictDelete(k)
    PROVE  Abstract!Delete(k)
<1> DEFINE index == KH_DictLookupIndex(k)
           d == [i \in 1..(Len(Contents) - 1) |->
                    IF i < index + 1 THEN Contents[i] ELSE Contents[i + 1]]
<1>1. /\ pc = "idle" /\ pc' = "idle" /\ data_count' = data_count - 1
      /\ pairs' = RemovedPairs(index)
      /\ ret' = <<"Delete", k, TRUE>>
      /\ index # KH_NOT_FOUND
  BY DEF KH_DictDelete
<1>2. /\ index \in 0..(data_count - 1) /\ index \in 0..(data_alloced - 1)
      /\ pairs[index].key = k
  BY <1>1, FoundIndex
<1>3. /\ Abstract!Contains(Contents, k)
      /\ Abstract!IndexIn(Contents, k) = index + 1
      /\ index + 1 \in 1..data_count
  BY <1>1, FoundMeans
<1> HIDE DEF index
<1>4. /\ data_count - 1 \in Nat /\ Len(Contents) - 1 = data_count - 1
  BY <1>2, ContentsFacts, Sizes, SMTT(30)
<1>5. d \in Seq(Pairs) /\ Len(d) = data_count - 1
  <2>1. ASSUME NEW i \in 1..(data_count - 1)
        PROVE  (IF i < index + 1 THEN Contents[i] ELSE Contents[i + 1]) \in Pairs
    <3>1. i \in 1..Len(Contents) /\ i + 1 \in 1..Len(Contents)
      BY <1>4, ContentsFacts, Sizes, SMTT(30)
    <3>2. Contents[i] \in Pairs /\ Contents[i + 1] \in Pairs
      BY <3>1, ContentsFacts, ElementOfSeq
    <3>3. QED BY <3>2
  <2>2. d \in [1..(data_count - 1) -> Pairs]
    BY <1>4, <2>1
  <2>3. d \in Seq(Pairs)
    BY <1>4, <2>2, SeqDef
  <2>4. QED BY <1>4, <2>2, <2>3, LenProperties
<1>6. ASSUME NEW i \in 1..data_count'
      PROVE  d[i] = pairs'[i - 1]
  <2>1. i \in 1..(Len(Contents) - 1)
    BY <1>1, <1>4
  <2>2. d[i] = IF i < index + 1 THEN Contents[i] ELSE Contents[i + 1]
    BY <2>1
  <2>3. Contents[i] = pairs[i - 1] /\ Contents[i + 1] = pairs[i]
    <3>1. i \in 1..data_count /\ i + 1 \in 1..data_count /\ (i + 1) - 1 = i
      BY <1>1, Sizes
    <3>2. QED BY <3>1, ContentsFacts
  <2>4. pairs'[i - 1] = IF index <= i - 1 THEN pairs[i] ELSE pairs[i - 1]
    <3>1. i - 1 \in 0..(data_alloced - 1) /\ (i - 1) + 1 < data_count /\ (i - 1) + 1 = i
      BY <1>1, Sizes
    <3>2. QED BY <1>1, <3>1 DEF RemovedPairs
  <2>5. index <= i - 1 <=> ~(i < index + 1)
    BY <1>1, <1>2, Sizes
  <2>6. QED BY <2>2, <2>3, <2>4, <2>5
<1>7. Contents' = d
  BY <1>1, <1>5, <1>6, ContentsNext
<1>8. Contents' = Abstract!Drop(Contents, k)
  BY <1>3, <1>7 DEF Abstract!Drop
<1>9. QED BY <1>1, <1>3, <1>8 DEF Abstract!Delete

\* The queries answer from the map.
LEMMA ReadOnlyRefines ==
    ASSUME IInv, ReadOnly
    PROVE  Abstract!Next
<1>1. Contents' = Contents /\ (pc # "none")' = (pc # "none")
  BY DEF ReadOnly, KH_DictDeleteMissing, KH_DictGet, KH_DictHas, KH_ResizeDictFails, Inserts,
         KH_DictKeyIter, KH_DictValueIter, KH_DictLen, Contents, dictVars
<1>2. ASSUME NEW k \in Keys, KH_DictDeleteMissing(k)
      PROVE  Abstract!Delete(k)
  <2>1. ~Abstract!Contains(Contents, k)
    BY <1>2, NotFoundMeans DEF KH_DictDeleteMissing
  <2>2. Abstract!Contains(Contents, k) = FALSE
    BY <2>1 DEF Abstract!Contains
  <2>3. Abstract!Drop(Contents, k) = Contents
    BY <2>1 DEF Abstract!Drop
  <2>4. QED BY <1>1, <1>2, <2>2, <2>3 DEF KH_DictDeleteMissing, Abstract!Delete
<1>3. ASSUME NEW k \in Keys, NEW v \in Values, KH_ResizeDictFails(k, v)
      PROVE  Abstract!SetFails(k)
  <2>1. ~Abstract!Contains(Contents, k)
    BY <1>3, NotFoundMeans DEF KH_ResizeDictFails, Inserts
  <2>2. QED BY <1>1, <1>3, <2>1 DEF KH_ResizeDictFails, Inserts, Abstract!SetFails
<1>4. ASSUME NEW k \in Keys, KH_DictHas(k)
      PROVE  Abstract!Query(<<"Has", k, Abstract!Contains(Contents, k)>>)
  <2>1. (KH_DictLookupIndex(k) # KH_NOT_FOUND) = Abstract!Contains(Contents, k)
    BY NotFoundMeans, FoundMeans DEF Abstract!Contains
  <2>2. QED BY <1>1, <1>4, <2>1 DEF KH_DictHas, Abstract!Query
<1>5. ASSUME NEW k \in Keys, KH_DictGet(k)
      PROVE  Abstract!Query(<<"Get", k, Abstract!Lookup(Contents, k)>>)
  <2> DEFINE index == KH_DictLookupIndex(k)
  <2>1. CASE index = KH_NOT_FOUND
    <3>1. Abstract!Lookup(Contents, k) = NoBlob
      BY <2>1, NotFoundMeans DEF Abstract!Lookup
    <3>2. QED BY <1>1, <1>5, <2>1, <3>1 DEF KH_DictGet, Abstract!Query
  <2>2. CASE index # KH_NOT_FOUND
    <3>1. /\ Abstract!Contains(Contents, k) /\ Abstract!IndexIn(Contents, k) = index + 1
          /\ index + 1 \in 1..data_count /\ (index + 1) - 1 = index
      BY <2>2, FoundMeans, FoundIndex, Sizes
    <3>2. Abstract!Lookup(Contents, k) = pairs[index].value
      BY <3>1, ContentsFacts DEF Abstract!Lookup
    <3>3. QED BY <1>1, <1>5, <2>2, <3>2 DEF KH_DictGet, Abstract!Query
  <2>3. QED BY <2>1, <2>2
<1>6. ASSUME KH_DictLen
      PROVE  Abstract!Query(<<"Len", 0, Len(Contents)>>)
  BY <1>1, <1>6, ContentsFacts DEF KH_DictLen, Abstract!Query
<1>7. ASSUME NEW n \in 0..data_count, KH_DictKeyIter(n) \/ KH_DictValueIter(n)
      PROVE  Abstract!Next
  <2>1. CASE n = data_count
    <3>1. \/ Abstract!Query(<<"KeyIter", Len(Contents), NoBlob>>)
          \/ Abstract!Query(<<"ValueIter", Len(Contents), NoBlob>>)
      BY <1>1, <1>7, <2>1, ContentsFacts, Sizes, SMTT(30)
         DEF KH_DictKeyIter, KH_DictValueIter, Abstract!Query
    <3>2. QED BY <3>1 DEF Abstract!Next
  <2>2. CASE n # data_count
    <3>1. /\ n < data_count /\ n + 1 \in 1..Len(Contents) /\ (n + 1) - 1 = n
          /\ n + 1 \in 1..data_count
      BY <2>2, ContentsFacts, Sizes, SMTT(30)
    <3>2. Contents[n + 1] = pairs[n]
      BY <3>1, ContentsFacts
    <3>3. \/ Abstract!Query(<<"KeyIter", (n + 1) - 1, Contents[n + 1].key>>)
          \/ Abstract!Query(<<"ValueIter", (n + 1) - 1, Contents[n + 1].value>>)
      BY <1>1, <1>7, <3>1, <3>2 DEF KH_DictKeyIter, KH_DictValueIter, Abstract!Query
    <3>4. QED BY <3>1, <3>3 DEF Abstract!Next
  <2>3. QED BY <2>1, <2>2
<1>8. QED BY <1>2, <1>3, <1>4, <1>5, <1>6, <1>7 DEF ReadOnly, Abstract!Next

\* The steps that leave the map alone.
LEMMA SilentRefines ==
    ASSUME IInv, RehashPair \/ (\E k \in Keys, v \in Values : KH_ResizeDict(k, v)) \/ UNCHANGED vars
    PROVE  UNCHANGED <<Contents, pc # "none", ret>>
<1>1. /\ UNCHANGED <<pairs, data_count, ret>>
      /\ (pc # "none")' = (pc # "none")
  BY DEF RehashPair, KH_ResizeDict, Inserts, dictVars, vars
<1>2. Contents' = Contents
  BY <1>1 DEF Contents
<1>3. QED BY <1>1, <1>2

\* KH_CreateDict and KH_ReleaseDict give an empty map.
LEMMA LifetimeRefines ==
    ASSUME IInv, IInv', KH_CreateDict \/ KH_ReleaseDict
    PROVE  Abstract!Create \/ Abstract!Release
<1>1. data_count' = 0
  <2>1. CASE KH_CreateDict
    <3>1. data_alloced = 0 /\ UNCHANGED dictVars
      BY <2>1 DEF KH_CreateDict, IInv, Dense
    <3>2. QED BY <3>1, Sizes DEF dictVars
  <2>2. CASE KH_ReleaseDict
    BY <2>2 DEF KH_ReleaseDict
  <2>3. QED BY <2>1, <2>2
<1>2. Contents' = << >>
  <2>1. << >> \in Seq(Pairs) /\ Len(<< >>) = 0
    BY EmptySeq
  <2>2. \A i \in 1..0 : FALSE
    OBVIOUS
  <2>3. \A i \in 1..data_count' : << >>[i] = pairs'[i - 1]
    BY <1>1, <2>2
  <2>4. Len(<< >>) = data_count'
    BY <1>1, <2>1
  <2>5. QED BY <2>1, <2>3, <2>4, ContentsNext
<1>3. QED BY <1>2 DEF KH_CreateDict, KH_ReleaseDict, Abstract!Create, Abstract!Release

\* Every step of the table is a step of the map or leaves it as it is.
LEMMA StepRefines ==
    ASSUME IInv, [Next]_vars
    PROVE  [Abstract!Next]_(Abstract!vars)
<1>1. IInv'
  BY NextSound
<1>2. CASE KH_CreateDict \/ KH_ReleaseDict
  BY <1>1, <1>2, LifetimeRefines DEF Abstract!Next
<1>3. ASSUME NEW k \in Keys, NEW v \in Values, KH_DictSet(k, v)
      PROVE  [Abstract!Next]_(Abstract!vars)
  <2>1. CASE KH_DictChange(k, v)
    BY <1>1, <2>1, ChangeRefines DEF Abstract!Next
  <2>2. CASE KH_DictInsert(k, v)
    BY <1>1, <2>2, InsertRefines DEF Abstract!Next
  <2>3. CASE KH_ResizeDict(k, v)
    BY <2>3, SilentRefines DEF Abstract!vars
  <2>4. CASE KH_ResizeDictFails(k, v)
    BY <2>4, ReadOnlyRefines DEF ReadOnly
  <2>5. QED BY <1>3, <2>1, <2>2, <2>3, <2>4 DEF KH_DictSet
<1>4. CASE RehashPair
  BY <1>4, SilentRefines DEF Abstract!vars
<1>5. CASE RehashDone
  BY <1>1, <1>5, RehashDoneRefines DEF Abstract!Next
<1>6. ASSUME NEW k \in Keys, KH_DictDelete(k)
      PROVE  Abstract!Next
  BY <1>1, <1>6, DeleteRefines DEF Abstract!Next
<1>7. CASE ReadOnly
  BY <1>7, ReadOnlyRefines
<1>8. CASE UNCHANGED vars
  BY <1>8, SilentRefines DEF Abstract!vars
<1>9. QED BY <1>2, <1>3, <1>4, <1>5, <1>6, <1>7, <1>8 DEF Next, ReadOnly

\* The hash table implements the insertion-ordered map, for every hash
\* function, every set of keys and every initial size.
THEOREM TableImplementsKDict == Spec => ImplementsKDict
<1>1. Init => IInv
  BY InitSound
<1>2. IInv /\ [Next]_vars => IInv'
  BY NextSound
<1>3. ASSUME Init PROVE Abstract!Init
  <2>1. IInv /\ data_count = 0 /\ pc = "none" /\ ret = <<"none">>
    BY <1>3, InitSound DEF Init
  <2>2. Contents \in Seq(Pairs) /\ Len(Contents) = 0
    BY <2>1, ContentsFacts
  <2>3. Contents = << >>
    BY <2>2, EmptySeq
  <2>4. QED BY <2>1, <2>3 DEF Abstract!Init
<1>4. IInv /\ [Next]_vars => [Abstract!Next]_(Abstract!vars)
  BY StepRefines
<1>5. QED BY <1>1, <1>2, <1>3, <1>4, PTL DEF Spec, ImplementsKDict, Abstract!Spec
==============================================================================
