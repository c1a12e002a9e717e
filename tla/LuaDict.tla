---------------------------------- MODULE LuaDict ----------------------------------
(***************************************************************************)
(* What a Lua table promises (the manual's words on tables and next): a    *)
(* set of keys that have a value.  A traversal gives each key that has one *)
(* once, as long as the script only assigns to fields that exist, and      *)
(* never fails.                                                            *)
(***************************************************************************)
CONSTANTS Keys
VARIABLES dict, going, seen
vars == <<dict, going, seen>>

Init == dict = {} /\ going = FALSE /\ seen = {}

(* An assignment to a field that does not exist ends a traversal, even one *)
(* of nil; to one that exists it may remove the field.                     *)
Ended == going' = FALSE /\ seen' = {}
Stays == UNCHANGED <<going, seen>>
Assign(old, new) == \E k \in Keys \ old : new \in {old, old \cup {k}} /\ Ended
Remove(old, new) == \E k \in old : new = old \ {k} /\ Stays

Begin(old, new) == new = old /\ going' = TRUE /\ seen' = {}
Step(old, new)  == new = old /\ going /\ going' /\ \E k \in old \ seen : seen' = seen \cup {k}
End(old, new)   == new = old /\ going /\ old \subseteq seen /\ Ended

Next ==
  LET old == dict  new == dict'
  IN  Begin(old, new) \/ Step(old, new) \/ End(old, new) \/ Remove(old, new) \/ Assign(old, new)
Spec == Init /\ [][Next]_vars
================================================================================
