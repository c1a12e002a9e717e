----------------------------- MODULE KHashTable -----------------------------
(***************************************************************************)
(* jni/hashtable.h: an open-addressing hash table of blobs that keeps the  *)
(* insertion order.  pairs holds the pairs densely in insertion order;     *)
(* slots maps a probe position to an index into pairs, or to KH_HASH_EMPTY *)
(* or KH_HASH_DELETED.  The table is created without arrays; the first     *)
(* insertion allocates InitialSize slots and a full table doubles.         *)
(*                                                                         *)
(* Every exposed function is one action, except that an insertion that     *)
(* grows the table copies one pair per step (pc = "rehash"); the library   *)
(* is single-threaded, so no other call starts until the copy is complete. *)
(***************************************************************************)
EXTENDS Integers

CONSTANTS Keys,         \* key blobs (equal iff KH_BlobEqual)
          Values,       \* value blobs
          NoBlob,       \* the NULL pointer
          Hash,         \* Hash[k]: the DJB2 hash stored in the blob
          InitialSize,  \* slots of the first allocation (8 in the code)
          HashEmpty,    \* the slot value KH_HASH_EMPTY (0xffffffff)
          MaxAlloced,   \* a larger array never fits in memory
          ResizeFails,  \* may malloc fail in KH_ResizeDict?
          MaxBlobs      \* bound: live blobs after which failing sets stop

ASSUME KeyAssumption == Hash \in [Keys -> Nat] /\ NoBlob \notin Keys /\ NoBlob \notin Values
ASSUME SizeAssumption ==
    /\ InitialSize \in Nat
    /\ InitialSize >= 2
    /\ \E e \in 1..InitialSize : InitialSize = 2^e
ASSUME BoundAssumption ==
    /\ HashEmpty \in Nat
    /\ MaxAlloced \in Nat
    /\ MaxAlloced < HashEmpty - 1
    /\ MaxBlobs \in Nat
ASSUME FaultAssumption == ResizeFails \in BOOLEAN

VARIABLES slots, pairs, data_count, data_alloced,   \* the KH_Dict
          pc,                   \* "none": no dict; "idle": between calls; "rehash"
          arg,                  \* the pair KH_DictInsert is adding while it resizes
          new_slots, new_pairs, j,                  \* locals of KH_ResizeDict
          live,                 \* blobs that are allocated and not freed
          ret                   \* result of the last call

dictVars == <<slots, pairs, data_count, data_alloced>>
resizeVars == <<arg, new_slots, new_pairs, j>>
vars == <<slots, pairs, data_count, data_alloced, pc, arg, new_slots, new_pairs, j, live, ret>>

KH_HASH_EMPTY == HashEmpty
KH_HASH_DELETED == HashEmpty - 1
KH_NOT_FOUND == -1

Pair(k, v) == [key |-> k, value |-> v]
NullPair == Pair(NoBlob, NoBlob)
NoArray == [i \in {} |-> NoBlob]

------------------------------------------------------------------------------
(* The probe sequence *)

\* hash & (size - 1), for a size that is a power of two
StartingIndex(h, n) == h % n

\* (start + i) & (n - 1) for start, i < n
Probe(start, i, n) == IF start + i < n THEN start + i ELSE start + i - n

IsFree(s) == s = KH_HASH_EMPTY \/ s = KH_HASH_DELETED

\* The offsets from start at which KH_InsertSlot may stop.
FreeOffsets(s, start, n) == {i \in 0..(n - 1) : IsFree(s[Probe(start, i, n)])}

Least(S) == CHOOSE i \in S : \A x \in S : i <= x

FirstFree(s, start, n) == Least(FreeOffsets(s, start, n))

InsertSlotIgnoresHash(s, n, h, index) ==
    [s EXCEPT ![Probe(0, FirstFree(s, 0, n), n)] = index]

KH_InsertSlot(s, n, h, index) ==
    LET start == StartingIndex(h, n)
    IN  [s EXCEPT ![Probe(start, FirstFree(s, start, n), n)] = index]

\* No never-used slot among the first i probes: the search gets that far.
Reaches(s, start, i, n) == \A x \in 0..(i - 1) : s[Probe(start, x, n)] # KH_HASH_EMPTY

\* The offsets at which the search for k would report a hit.
Hits(k) ==
    {i \in 0..(data_alloced - 1) :
        LET start == StartingIndex(Hash[k], data_alloced)
            slot  == slots[Probe(start, i, data_alloced)]
        IN  /\ ~IsFree(slot)
            /\ pairs[slot].key = k
            /\ Reaches(slots, start, i, data_alloced)}

KH_DictLookupIndex(k) ==
    LET hits == Hits(k)
    IN  IF hits = {} THEN KH_NOT_FOUND
        ELSE slots[Probe(StartingIndex(Hash[k], data_alloced), Least(hits), data_alloced)]

\* (n >> 1) + (n >> 3): the number of pairs at which the table grows
LoadLimitFull(n) == n
LoadLimit(n) == n \div 2 + n \div 8

------------------------------------------------------------------------------
Init ==
    /\ slots = NoArray /\ pairs = NoArray /\ data_count = 0 /\ data_alloced = 0
    /\ pc = "none" /\ arg = NullPair
    /\ new_slots = NoArray /\ new_pairs = NoArray /\ j = 0
    /\ live = 0 /\ ret = <<"none">>

KH_CreateDict ==
    /\ pc = "none" /\ pc' = "idle"
    /\ ret' = <<"Create">>
    /\ UNCHANGED <<dictVars, resizeVars, live>>

KH_ReleaseDict ==
    /\ pc = "idle" /\ pc' = "none"
    /\ slots' = NoArray /\ pairs' = NoArray /\ data_count' = 0 /\ data_alloced' = 0
    /\ live' = live - 2 * data_count
    /\ ret' = <<"Release">>
    /\ UNCHANGED resizeVars

\* KH_DictSet, key present: KH_DictChange frees the old value, then the new
\* key blob is freed.
ChangeKeepsOldBlob(k, v) ==
    LET index == KH_DictLookupIndex(k)
    IN  /\ pc = "idle"
        /\ index # KH_NOT_FOUND
        /\ pairs' = [pairs EXCEPT ![index] = Pair(pairs[index].key, v)]
        /\ live' = live + 1
        /\ ret' = <<"Set", k, TRUE>>
        /\ UNCHANGED <<slots, data_count, data_alloced, pc, resizeVars>>

KH_DictChange(k, v) ==
    LET index == KH_DictLookupIndex(k)
    IN  /\ pc = "idle"
        /\ index # KH_NOT_FOUND
        /\ pairs' = [pairs EXCEPT ![index] = Pair(pairs[index].key, v)]
        /\ ret' = <<"Set", k, TRUE>>
        /\ UNCHANGED <<slots, data_count, data_alloced, pc, resizeVars, live>>

\* KH_DictSet, key absent: the guard of KH_DictInsert, and whether it grows.
Inserts(k) == pc = "idle" /\ KH_DictLookupIndex(k) = KH_NOT_FOUND
GrowsLate == data_alloced = 0 \/ data_count > LoadLimit(data_alloced)
Grows == data_count >= LoadLimit(data_alloced)

KH_DictInsert(k, v) ==
    /\ ~Grows
    /\ Inserts(k)
    /\ pairs' = [pairs EXCEPT ![data_count] = Pair(k, v)]
    /\ slots' = KH_InsertSlot(slots, data_alloced, Hash[k], data_count)
    /\ data_count' = data_count + 1
    /\ live' = live + 2
    /\ ret' = <<"Set", k, TRUE>>
    /\ UNCHANGED <<data_alloced, pc, resizeVars>>

NewSize == IF data_alloced = 0 THEN InitialSize ELSE 2 * data_alloced

\* KH_ResizeDict cannot allocate: KH_DictInsert returns false at once, and the
\* key and the value blob it was given are neither stored nor freed.
ResizeFailsSilently(k, v) ==
    /\ Grows
    /\ ResizeFails \/ NewSize > MaxAlloced
    /\ live + 2 <= MaxBlobs
    /\ Inserts(k)
    /\ live' = live + 2
    /\ ret' = <<"Set", k, TRUE>>
    /\ UNCHANGED <<dictVars, pc, resizeVars>>

KH_ResizeDictFails(k, v) ==
    /\ Grows
    /\ ResizeFails \/ NewSize > MaxAlloced
    /\ live + 2 <= MaxBlobs
    /\ Inserts(k)
    /\ live' = live + 2
    /\ ret' = <<"Set", k, FALSE>>
    /\ UNCHANGED <<dictVars, pc, resizeVars>>

\* KH_ResizeDict up to its copy loop: the new arrays, all empty.
KH_ResizeDict(k, v) ==
    /\ Grows
    /\ NewSize <= MaxAlloced
    /\ Inserts(k)
    /\ pc' = "rehash"
    /\ arg' = Pair(k, v)
    /\ new_slots' = [i \in 0..(NewSize - 1) |-> KH_HASH_EMPTY]
    /\ new_pairs' = [i \in 0..(NewSize - 1) |-> NullPair]
    /\ j' = 0
    /\ live' = live + 2
    /\ UNCHANGED <<dictVars, ret>>

\* The copy loop stops at the first pair with a NULL key or value.
CopyStops == j < data_alloced => pairs[j].key = NoBlob \/ pairs[j].value = NoBlob

\* One turn of the copy loop.
RehashPair ==
    /\ pc = "rehash"
    /\ ~CopyStops
    /\ new_pairs' = [new_pairs EXCEPT ![j] = pairs[j]]
    /\ new_slots' = KH_InsertSlot(new_slots, NewSize, Hash[pairs[j].key], j)
    /\ j' = j + 1
    /\ UNCHANGED <<dictVars, pc, arg, live, ret>>

\* The end of KH_ResizeDict (the new arrays replace the old ones, data_count
\* becomes j) and the rest of KH_DictInsert.
RehashDone ==
    /\ pc = "rehash"
    /\ CopyStops
    /\ pairs' = [new_pairs EXCEPT ![j] = arg]
    /\ slots' = KH_InsertSlot(new_slots, NewSize, Hash[arg.key], j)
    /\ data_alloced' = NewSize
    /\ data_count' = j + 1
    /\ pc' = "idle"
    /\ arg' = NullPair /\ new_slots' = NoArray /\ new_pairs' = NoArray /\ j' = 0
    /\ ret' = <<"Set", arg.key, TRUE>>
    /\ UNCHANGED live

\* KH_DictRemove: the pairs after index move down (the last one is left behind
\* as a stale copy), and every slot is renumbered or marked deleted.
RemovedPairsSwap(index) == [pairs EXCEPT ![index] = pairs[data_count - 1]]

RemovedPairs(index) ==
    [i \in 0..(data_alloced - 1) |->
        IF index <= i /\ i + 1 < data_count THEN pairs[i + 1] ELSE pairs[i]]

RemovedSlotsEmpty(index) ==
    [i \in 0..(data_alloced - 1) |->
        IF IsFree(slots[i])     THEN slots[i]
        ELSE IF slots[i] > index THEN slots[i] - 1
        ELSE IF slots[i] = index THEN KH_HASH_EMPTY
        ELSE slots[i]]

RemovedSlots(index) ==
    [i \in 0..(data_alloced - 1) |->
        IF IsFree(slots[i])     THEN slots[i]
        ELSE IF slots[i] > index THEN slots[i] - 1
        ELSE IF slots[i] = index THEN KH_HASH_DELETED
        ELSE slots[i]]

KH_DictDelete(k) ==
    LET index == KH_DictLookupIndex(k)
    IN  /\ pc = "idle"
        /\ index # KH_NOT_FOUND
        /\ pairs' = RemovedPairs(index)
        /\ slots' = RemovedSlots(index)
        /\ data_count' = data_count - 1
        /\ live' = live - 2
        /\ ret' = <<"Delete", k, TRUE>>
        /\ UNCHANGED <<data_alloced, pc, resizeVars>>

KH_DictDeleteMissing(k) ==
    /\ pc = "idle"
    /\ KH_DictLookupIndex(k) = KH_NOT_FOUND
    /\ ret' = <<"Delete", k, FALSE>>
    /\ UNCHANGED <<dictVars, pc, resizeVars, live>>

\* The functions that only read; the key blob they are given is freed.
KH_DictGet(k) ==
    LET index == KH_DictLookupIndex(k)
    IN  /\ pc = "idle"
        /\ ret' = <<"Get", k, IF index = KH_NOT_FOUND THEN NoBlob ELSE pairs[index].value>>
        /\ UNCHANGED <<dictVars, pc, resizeVars, live>>

KH_DictHas(k) ==
    /\ pc = "idle"
    /\ ret' = <<"Has", k, KH_DictLookupIndex(k) # KH_NOT_FOUND>>
    /\ UNCHANGED <<dictVars, pc, resizeVars, live>>

KH_DictKeyIter(i) ==
    /\ pc = "idle"
    /\ ret' = <<"KeyIter", i, IF i < data_count THEN pairs[i].key ELSE NoBlob>>
    /\ UNCHANGED <<dictVars, pc, resizeVars, live>>

KH_DictValueIter(i) ==
    /\ pc = "idle"
    /\ ret' = <<"ValueIter", i, IF i < data_count THEN pairs[i].value ELSE NoBlob>>
    /\ UNCHANGED <<dictVars, pc, resizeVars, live>>

KH_DictLen ==
    /\ pc = "idle"
    /\ ret' = <<"Len", 0, data_count>>
    /\ UNCHANGED <<dictVars, pc, resizeVars, live>>

KH_DictSet(k, v) ==
    \/ KH_DictChange(k, v)
    \/ KH_DictInsert(k, v)
    \/ KH_ResizeDict(k, v)
    \/ KH_ResizeDictFails(k, v)

Next ==
    \/ KH_CreateDict
    \/ KH_ReleaseDict
    \/ \E k \in Keys, v \in Values : KH_DictSet(k, v)
    \/ RehashPair
    \/ RehashDone
    \/ \E k \in Keys : KH_DictDelete(k) \/ KH_DictDeleteMissing(k) \/ KH_DictGet(k) \/ KH_DictHas(k)
    \/ \E i \in 0..data_count : KH_DictKeyIter(i) \/ KH_DictValueIter(i)
    \/ KH_DictLen

Spec == Init /\ [][Next]_vars

------------------------------------------------------------------------------
(* Properties *)

Pairs == [key : Keys \cup {NoBlob}, value : Values \cup {NoBlob}]

\* Type correctness of the KH_Dict and of KH_ResizeDict's locals.
TypeOK ==
    /\ pc \in {"none", "idle", "rehash"}
    /\ data_alloced \in 0..MaxAlloced
    /\ data_count \in 0..data_alloced
    /\ slots \in [0..(data_alloced - 1) -> 0..HashEmpty]
    /\ pairs \in [0..(data_alloced - 1) -> Pairs]
    /\ live \in Int
    /\ arg \in Pairs
    /\ j \in 0..data_count
    /\ pc # "rehash" => j = 0
    /\ pc = "rehash" => /\ new_slots \in [0..(NewSize - 1) -> 0..HashEmpty]
                       /\ new_pairs \in [0..(NewSize - 1) -> Pairs]
                       /\ NewSize <= MaxAlloced

\* The first c pairs of p have keys, and no key twice.
DistinctKeys(p, c) ==
    \A a \in 0..(c - 1) :
        /\ p[a].key \in Keys
        /\ \A b \in 0..(c - 1) : p[a].key = p[b].key => a = b

\* Every used slot holds the index of one of the c pairs, and no index twice.
SlotsInUse(s, c, n) ==
    \A x \in 0..(n - 1) :
        \/ IsFree(s[x])
        \/ s[x] \in 0..(c - 1) /\ \A y \in 0..(n - 1) : s[y] = s[x] => y = x

\* Following the probe sequence of its key, the search reaches each pair
\* before it reaches a slot that was never used.
Reachable(s, p, c, n) ==
    \A a \in 0..(c - 1) :
        LET start == StartingIndex(Hash[p[a].key], n)
        IN  \E i \in 0..(n - 1) : s[Probe(start, i, n)] = a /\ Reaches(s, start, i, n)

SlotsIndexPairs(s, p, c, n) ==
    DistinctKeys(p, c) /\ SlotsInUse(s, c, n) /\ Reachable(s, p, c, n)

\* The index structure of KH_DictLookupIndex is sound between any two calls,
\* whatever was inserted, deleted (tombstones included) and rehashed, and it
\* is sound for the part already copied while KH_ResizeDict runs.
IndexSound ==
    /\ SlotsIndexPairs(slots, pairs, data_count, data_alloced)
    /\ pc = "rehash" => SlotsIndexPairs(new_slots, new_pairs, j, NewSize)

\* KH_InsertSlot loops until it meets a free slot and has no other exit
\* (while (1)): there is always one, even with every other slot a tombstone.
SlotLeft ==
    /\ data_alloced > 0 => \E x \in 0..(data_alloced - 1) : IsFree(slots[x])
    /\ pc = "rehash" => \E x \in 0..(NewSize - 1) : IsFree(new_slots[x])

\* KH_DictRemove leaves a copy of freed pointers at pairs[data_count], and the
\* copy loop of KH_ResizeDict is bounded by NULL pairs, not by data_count.  It
\* never copies a stale pair, because no pair at or above the load limit was
\* ever used and the table grows exactly when data_count reaches that limit.
NoStalePairCopied ==
    /\ data_count <= LoadLimit(data_alloced)
    /\ \A i \in LoadLimit(data_alloced)..(data_alloced - 1) : pairs[i] = NullPair
    /\ pc = "rehash" => data_count = LoadLimit(data_alloced) /\ j <= data_count

\* While KH_ResizeDict copies: the first j pairs are there in order and the
\* rest is empty, and the key that caused the resize is not in the table yet,
\* so that adding it at the end cannot store it twice.
CopySound ==
    pc = "rehash" =>
        /\ \A i \in 0..(NewSize - 1) : new_pairs[i] = IF i < j THEN pairs[i] ELSE NullPair
        /\ arg.key \in Keys /\ arg.value \in Values
        /\ \A i \in 0..(data_count - 1) : pairs[i].key # arg.key

\* No pair has a NULL value, and a released or unallocated table has no pairs.
Dense ==
    /\ \A i \in 0..(data_count - 1) : pairs[i].value \in Values
    /\ pc = "none" => data_alloced = 0

\* "Exposed hash table functions never make internal copies of KH_Blob's, but
\* they will always free them if they aren't used longer term": blobs other than
\* those of the pairs stored and of the one being inserted are only ever left
\* behind by a set whose resize fails.
Unowned == live - (2 * data_count + IF pc = "rehash" THEN 2 ELSE 0)
BlobsOwned ==
    [][ Unowned' # Unowned =>
          /\ Unowned' = Unowned + 2
          /\ \E k \in Keys : ret' = <<"Set", k, FALSE>> ]_vars

\* The table implements the insertion-ordered map of KDict.
Contents == [i \in 1..data_count |-> pairs[i - 1]]
Abstract == INSTANCE KDict WITH dict <- Contents, made <- (pc # "none")
ImplementsKDict == Abstract!Spec
==============================================================================
