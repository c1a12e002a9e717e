------------------------------- MODULE KDict -------------------------------
(***************************************************************************)
(* What jni/hashtable.h promises: a map from blobs to blobs that remembers *)
(* the order in which its keys were first inserted.  The dictionary is a   *)
(* sequence of pairs with distinct keys; ret is the result of the last     *)
(* call, <<operation, argument, result>>.                                  *)
(***************************************************************************)
EXTENDS KDictOps

CONSTANTS Keys,     \* key blobs
          Values    \* value blobs

VARIABLES dict,     \* the pairs, in order of insertion
          made,     \* has KH_CreateDict returned a dictionary?
          ret       \* result of the last call

vars == <<dict, made, ret>>

------------------------------------------------------------------------------
Init == dict = << >> /\ made = FALSE /\ ret = <<"none">>

Create == ~made /\ made' = TRUE /\ dict' = << >> /\ ret' = <<"Create">>

Release == made /\ made' = FALSE /\ dict' = << >> /\ ret' = <<"Release">>

Set(k, v) ==
    /\ made
    /\ ret' = <<"Set", k, TRUE>>
    /\ dict' = Put(dict, k, v)
    /\ UNCHANGED made

\* Only a new key can need memory that is not there.
SetFails(k) ==
    /\ made
    /\ ret' = <<"Set", k, FALSE>>
    /\ ~Contains(dict, k)
    /\ UNCHANGED <<dict, made>>

Delete(k) ==
    /\ made
    /\ ret' = <<"Delete", k, Contains(dict, k)>>
    /\ dict' = Drop(dict, k)
    /\ UNCHANGED made

Query(r) == made /\ ret' = r /\ UNCHANGED <<dict, made>>

Next ==
    \/ Create
    \/ Release
    \/ \E k \in Keys, v \in Values : Set(k, v)
    \/ \E k \in Keys : \/ SetFails(k)
                       \/ Delete(k)
                       \/ Query(<<"Get", k, Lookup(dict, k)>>)
                       \/ Query(<<"Has", k, Contains(dict, k)>>)
    \/ Query(<<"Len", 0, Len(dict)>>)
    \/ \E i \in 1..Len(dict) : \/ Query(<<"KeyIter", i - 1, dict[i].key>>)
                               \/ Query(<<"ValueIter", i - 1, dict[i].value>>)
    \/ Query(<<"KeyIter", Len(dict), NoBlob>>)
    \/ Query(<<"ValueIter", Len(dict), NoBlob>>)

Spec == Init /\ [][Next]_vars
==============================================================================
