------------------------------ MODULE KDictOps ------------------------------
(***************************************************************************)
(* Insertion-ordered dictionaries as values: a sequence of pairs with      *)
(* distinct keys.  This is what a KH_Dict of jni/hashtable.h stands for    *)
(* (KHashTable implements KDict, which is built from these operators).     *)
(***************************************************************************)
EXTENDS Integers, Sequences

CONSTANT NoBlob   \* the NULL KH_Blob pointer

Pair(k, v) == [key |-> k, value |-> v]

Contains(d, k) == \E i \in 1..Len(d) : d[i].key = k

IndexIn(d, k) == CHOOSE i \in 1..Len(d) : d[i].key = k

\* The value of k, or the NULL blob.
Lookup(d, k) == IF Contains(d, k) THEN d[IndexIn(d, k)].value ELSE NoBlob

\* Overwriting keeps the key's place; a new key goes to the end.
Put(d, k, v) ==
    IF Contains(d, k) THEN [d EXCEPT ![IndexIn(d, k)] = Pair(k, v)]
                      ELSE Append(d, Pair(k, v))

\* Deleting keeps the order of the pairs that remain.
Drop(d, k) ==
    IF Contains(d, k)
    THEN [i \in 1..(Len(d) - 1) |-> IF i < IndexIn(d, k) THEN d[i] ELSE d[i + 1]]
    ELSE d

\* What may be left of a dictionary if pairs are lost: any of them, in their order.
Parts(d) ==
    UNION {{[n \in 1..m |-> d[from[n]]] :
               from \in {f \in [1..m -> 1..Len(d)] : \A a, b \in 1..m : a < b => f[a] < f[b]}}
           : m \in 0..Len(d)}
==============================================================================
