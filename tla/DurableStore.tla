---------------------------- MODULE DurableStore ----------------------------
(***************************************************************************)
(* What the registry and the database promise the Lua scripts: two ordered *)
(* maps, one that lives as long as the process and one that survives it.   *)
(* A change of the database takes effect in memory first; then either the  *)
(* whole map reaches the disk in one step and the call returns true, or    *)
(* nothing reaches it and the call returns false.  A process that dies     *)
(* comes back with what is on disk; if MayForget, with a part of it, and   *)
(* the next change that is saved makes the loss last.                      *)
(***************************************************************************)
EXTENDS KDictOps

CONSTANTS Blobs,      \* the strings a script may store
          MayForget,  \* may a new process miss pairs that are on disk?
          Nil,        \* the Lua value nil
          Idle        \* no call is being served

VARIABLES registry,   \* the volatile map
          mem,        \* the database as the scripts see it, once they have looked
          awake,      \* has this process looked at the database?
          disk,       \* the database as the next process will find it
          pending,    \* <<operation, key>> of the change that is not saved yet
          ret         \* result of the last call

vars == <<registry, mem, awake, disk, pending, ret>>

------------------------------------------------------------------------------
Init ==
    /\ registry = << >> /\ mem = << >> /\ awake = FALSE /\ disk = << >>
    /\ pending = Idle
    /\ ret = <<"none">>

Return(r) == pending = Idle /\ ret' = r

RegSet(k, v) ==
    /\ Return(<<"knRegSet", k, TRUE>>)
    /\ registry' = Put(registry, k, v)
    /\ UNCHANGED <<mem, awake, disk, pending>>

RegDelete(k) ==
    /\ Return(<<"knRegDelete", k, Nil>>)
    /\ registry' = Drop(registry, k)
    /\ UNCHANGED <<mem, awake, disk, pending>>

\* What a call finds in the database.
Recalled ==
    IF awake THEN {mem} ELSE IF MayForget THEN Parts(disk) ELSE {disk}

Change(op, k, d) ==
    /\ pending = Idle
    /\ mem' = d /\ awake' = TRUE
    /\ pending' = <<op, k>>
    /\ UNCHANGED <<registry, disk, ret>>

Saved ==
    /\ pending # Idle
    /\ disk' = mem
    /\ ret' = Append(pending, TRUE)
    /\ pending' = Idle
    /\ UNCHANGED <<registry, mem, awake>>

NotSaved ==
    /\ pending # Idle
    /\ ret' = Append(pending, FALSE)
    /\ pending' = Idle
    /\ UNCHANGED <<registry, mem, awake, disk>>

Query(r) == Return(r) /\ UNCHANGED <<registry, mem, awake, disk, pending>>

Look(d, r) ==
    /\ Return(r)
    /\ mem' = d /\ awake' = TRUE
    /\ UNCHANGED <<registry, disk, pending>>

\* The registry and the changes that were not saved are gone.
Restart ==
    /\ registry' = << >>
    /\ mem' = << >> /\ awake' = FALSE
    /\ pending' = Idle
    /\ ret' = <<"restart">>
    /\ UNCHANGED disk

Found(d, k) == IF Contains(d, k) THEN Lookup(d, k) ELSE Nil

RegistryCall ==
    \/ \E k \in Blobs, v \in Blobs : RegSet(k, v)
    \/ \E k \in Blobs : \/ RegDelete(k)
                        \/ Query(<<"knRegSet", k, FALSE>>)
                        \/ Query(<<"knRegGet", k, Found(registry, k)>>)
                        \/ Query(<<"knRegHas", k, Contains(registry, k)>>)
    \/ Query(<<"knRegKeys", Nil, [i \in 1..Len(registry) |-> registry[i].key]>>)
    \/ Query(<<"knRegCount", Nil, Len(registry)>>)
    \/ Query(<<"rejected", Nil, Nil>>)

DatabaseCall(d) ==
    \/ \E k \in Blobs, v \in Blobs : Change("knDbSet", k, Put(d, k, v))
    \/ \E k \in Blobs : \/ Change("knDbDelete", k, Drop(d, k))
                        \/ Look(d, <<"knDbSet", k, FALSE>>)
                        \/ Look(d, <<"knDbGet", k, Found(d, k)>>)
                        \/ Look(d, <<"knDbHas", k, Contains(d, k)>>)

Next ==
    \/ RegistryCall
    \/ \E d \in Recalled : DatabaseCall(d)
    \/ Saved \/ NotSaved \/ Restart

Spec == Init /\ [][Next]_vars
==============================================================================
