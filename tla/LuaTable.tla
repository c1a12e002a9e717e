---------------------------------- MODULE LuaTable ----------------------------------
(***************************************************************************)
(* Lua tables (src/jni/lua/ltable.c): an array part and a chained          *)
(* scatter table with Brent's variation, which a rehash sizes anew.        *)
(*                                                                         *)
(*   t.array      the values of 1..sizearray                               *)
(*   t.node       the nodes [key, dead, val, next]; next is an index, 0    *)
(*                for NULL; <<>> is dummynode                              *)
(*   t.lastfree   all nodes from here on are in use                        *)
(*   it, seen     the key that the script's traversal (next) has reached,  *)
(*                Start before the first and Nil without one, and the keys *)
(*                that it was given                                        *)
(* Keys are <<type, n>>, the type "n" (numbers), "s" (strings) or "o"      *)
(* (other objects).  A value is TRUE, or FALSE for nil.  A key that was    *)
(* collected may be inserted again: a new object at the same address.      *)
(***************************************************************************)
EXTENDS Integers, Sequences, FiniteSets

CONSTANTS Keys, HashOf,     \* the keys and the hash of each
          MaxArray          \* bound: elements that a constructor makes room for

ASSUME KeysAssumption == \A k \in Keys : k[1] \in {"n", "s", "o"} /\ k[2] \in Nat /\ HashOf[k] \in Nat

VARIABLES t, it, seen
vars == <<t, it, seen>>

Nil   == <<"nil", 0>>
Start == <<"start", 0>>
Free == [key |-> Nil, dead |-> FALSE, val |-> FALSE, next |-> 0]
Is(nd, k) == nd.key = k /\ ~nd.dead         \* luaO_rawequalObj
iscollectable(k) == k[1] \in {"s", "o"}
MaxOf(S) == CHOOSE x \in S : \A y \in S : y <= x
--------------------------------------------------------------------------------
sizearray(h) == Len(h.array)
sizenode(h) == IF h.node = <<>> THEN 1 ELSE Len(h.node)
hashmod(h, n) == 1 + (n % (IF sizenode(h) = 1 THEN 1 ELSE sizenode(h) - 1))
hashpow2(h, n) == 1 + (n % sizenode(h))
mainposition(h, k) ==
  CASE k = <<"n", 0>> -> 1
    [] k # <<"n", 0>> /\ k[1] = "s" -> hashpow2(h, HashOf[k])
    [] OTHER -> hashmod(h, HashOf[k])
arrayindex(k) == IF k[1] = "n" THEN k[2] ELSE -1

RECURSIVE Chain(_, _), FindFrom(_, _, _)
Chain(h, i) == IF i = 0 THEN <<>> ELSE <<i>> \o Chain(h, h.node[i].next)
FindFrom(h, i, k) == IF i = 0 THEN 0 ELSE IF Is(h.node[i], k) THEN i ELSE FindFrom(h, h.node[i].next, k)
Find(h, k) == IF h.node = <<>> THEN 0 ELSE FindFrom(h, mainposition(h, k), k)

InArray(h, k) == arrayindex(k) \in 1..sizearray(h)
Exists(h, k) == InArray(h, k) \/ Find(h, k) # 0
luaH_get(h, k) ==
  IF InArray(h, k) THEN h.array[k[2]] ELSE LET i == Find(h, k) IN i # 0 /\ h.node[i].val
Store(h, k, v) ==
  IF InArray(h, k) THEN [h EXCEPT !.array[k[2]] = v] ELSE [h EXCEPT !.node[Find(h, k)].val = v]
--------------------------------------------------------------------------------
(* The sizes: nums[i] keys are between 2^(i-1) and 2^i. *)
Ints(h, k) == {i \in 1..sizearray(h) : h.array[i]}
              \cup {arrayindex(h.node[i].key) : i \in {j \in DOMAIN h.node : h.node[j].val}} \cup {arrayindex(k)}
Used(h) == Cardinality({i \in 1..sizearray(h) : h.array[i]}) + Cardinality({i \in DOMAIN h.node : h.node[i].val})

RECURSIVE sizes(_, _, _, _)
HalfFullIsEnough(ints, all, twotoi, best) ==
  LET a == Cardinality(ints \cap 1..twotoi)
      n == IF ints \cap (twotoi \div 2 + 1)..twotoi # {} /\ a >= twotoi \div 2 THEN <<twotoi, a>> ELSE best
  IN  IF twotoi \div 2 >= all THEN best ELSE IF a = all THEN n ELSE sizes(ints, all, 2 * twotoi, n)

computesizes(ints, all, twotoi, best) ==
  LET a == Cardinality(ints \cap 1..twotoi)
      n == IF ints \cap (twotoi \div 2 + 1)..twotoi # {} /\ a > twotoi \div 2 THEN <<twotoi, a>> ELSE best
  IN  IF twotoi \div 2 >= all THEN best ELSE IF a = all THEN n ELSE sizes(ints, all, 2 * twotoi, n)
sizes(ints, all, twotoi, best) == computesizes(ints, all, twotoi, best)

RECURSIVE ceilpow2(_)
ceilpow2(n) == IF n <= 1 THEN n ELSE 2 * ceilpow2((n + 1) \div 2)
--------------------------------------------------------------------------------
(* Insertion *)
getfreepos(h) == {i \in 1..(h.lastfree - 1) : h.node[i].key = Nil}

(* The colliding node is not in its main position: it goes to n. *)
MoveCollider(h, mp, n) ==
  LET chain == Chain(h, mainposition(h, h.node[mp].key))
      prev == CHOOSE i \in {chain[j] : j \in DOMAIN chain} : h.node[i].next = mp
  IN  [h EXCEPT !.node = [@ EXCEPT ![prev].next = n, ![n] = h.node[mp], ![mp] = Free]]
LinkBehind(h, mp, n) ==
  [h EXCEPT !.node = [@ EXCEPT ![n].next = h.node[mp].next, ![mp].next = n]]
Key(h, i, k) == [h EXCEPT !.node[i].key = k, !.node[i].dead = FALSE]

RECURSIVE newkey(_, _), Reinsert(_, _)
luaH_set(h, k) == IF Exists(h, k) THEN h ELSE newkey(h, k)

Reinsert(h, ks) == IF ks = <<>> THEN h ELSE Reinsert(Store(luaH_set(h, Head(ks)), Head(ks), TRUE), Tail(ks))

resize(h, nasize, nhsize) ==
  LET size == ceilpow2(nhsize)
      array == <<>> \o [i \in 1..nasize |-> i <= sizearray(h) /\ h.array[i]]
      last  == [j \in 1..Len(h.node) |-> h.node[Len(h.node) + 1 - j]]
      Full(nd) == nd.val
      slice == SelectSeq([i \in 1..sizearray(h) |-> <<"n", i>>], LAMBDA k : k[2] > nasize /\ h.array[k[2]])
      hash  == SelectSeq(last, Full)
  IN  Reinsert([array |-> array, node |-> <<>> \o [i \in 1..size |-> Free], lastfree |-> size + 1],
               slice \o [i \in DOMAIN hash |-> hash[i].key])
luaH_resizearray(h, n) == resize(h, n, Len(h.node))

rehash(h, k) ==
  LET ints == Ints(h, k) \ ({-1, 0})
      size == sizes(ints, Cardinality(ints), 1, <<0, 0>>)
  IN  resize(h, size[1], Used(h) + 1 - size[2])

newkey(h, k) ==
  LET mp == mainposition(h, k)
      taken == IF h.node = <<>> THEN TRUE ELSE h.node[mp].val
      n == MaxOf(getfreepos(h))
      g == [h EXCEPT !.lastfree = n]
  IN CASE ~taken -> Key(h, mp, k)
       [] taken /\ getfreepos(h) = {} -> luaH_set(rehash(h, k), k)
       [] OTHER -> IF mainposition(h, h.node[mp].key) # mp THEN Key(MoveCollider(g, mp, n), mp, k)
                   ELSE Key(LinkBehind(g, mp, n), n, k)
--------------------------------------------------------------------------------
(* Traversal.  A key that died since it was given can still be found. *)
Numbered(h, i) == sizearray(h) + i
IgnoresDead(h, k) ==
  CASE k = Start -> {0}
    [] k # Start /\ InArray(h, k) -> {k[2]}
    [] OTHER -> {Numbered(h, i) : i \in {Find(h, k)} \ {0}}

findindex(h, k) ==
  LET chain == IF h.node = <<>> THEN <<>> ELSE Chain(h, mainposition(h, k))
      match == {j \in DOMAIN chain : h.node[chain[j]].key = k}
  IN CASE k = Start -> {0}
       [] k # Start /\ InArray(h, k) -> {k[2]}
       [] OTHER -> IF match = {} THEN {}
                   ELSE {Numbered(h, chain[CHOOSE j \in match : \A m \in match : j <= m])}

KeyAt(h, i) == IF i <= sizearray(h) THEN <<"n", i>> ELSE h.node[i - sizearray(h)].key
ValAt(h, i) == IF i <= sizearray(h) THEN h.array[i] ELSE h.node[i - sizearray(h)].val
After(h, i) == {j \in (i + 1)..(sizearray(h) + Len(h.node)) : ValAt(h, j)}

(* A key that is not found is an error, "invalid key to 'next'". *)
luaH_next ==
  /\ it # Nil /\ UNCHANGED t
  /\ LET found == findindex(t, it)
         rest == After(t, CHOOSE i \in found : TRUE)
         k == KeyAt(t, CHOOSE i \in rest : \A j \in rest : i <= j)
     IN  CASE found = {} -> it' = Nil /\ seen' = {Nil}
           [] found # {} /\ rest = {} -> it' = Nil /\ seen' = {}
           [] OTHER -> it' = k /\ seen' = seen \cup {k}
Begin == it' = Start /\ seen' = {} /\ UNCHANGED t
--------------------------------------------------------------------------------
(* The length *)
Num(h, i) == <<"n", i>> \in Keys /\ luaH_get(h, <<"n", i>>)

RECURSIVE between(_, _, _), unbound(_, _, _)
StopsEarly(h, i, j) ==
  LET m == (i + j) \div 2 IN IF j - i <= 2 THEN i ELSE IF Num(h, m) THEN between(h, m, j) ELSE between(h, i, m)

binsearch(h, i, j) ==
  LET m == (i + j) \div 2 IN IF j - i <= 1 THEN i ELSE IF Num(h, m) THEN between(h, m, j) ELSE between(h, i, m)
between(h, i, j) == binsearch(h, i, j)

unbound_search(h, i, j) == IF Num(h, j) THEN unbound(h, j, 2 * j) ELSE binsearch(h, i, j)
unbound(h, i, j) == unbound_search(h, i, j)

luaH_getn(h) ==
  LET j == sizearray(h)
  IN CASE j > 0 /\ (IF j > 0 THEN ~h.array[j] ELSE FALSE) -> binsearch(h, 0, j)
       [] h.node = <<>> /\ (j = 0 \/ (IF j > 0 THEN h.array[j] ELSE TRUE)) -> j
       [] OTHER -> unbound_search(h, j, j + 1)
--------------------------------------------------------------------------------
(* An assignment to a field that does not exist ends a traversal: what it  *)
(* would give is undefined.                                                *)
Ends(k) == IF luaH_get(t, k) THEN UNCHANGED <<it, seen>> ELSE it' = Nil /\ seen' = {}
Assign(k) == \E s \in {luaH_set(t, k)} : t' = Store(s, k, TRUE) /\ Ends(k)
Clear(k)  == \E s \in {luaH_set(t, k)} : t' = Store(s, k, FALSE) /\ Ends(k)

(* The collector marks the keys of empty nodes (removeentry, lgc.c:62). *)
Collect ==
  /\ t' = [t EXCEPT !.node = [i \in DOMAIN @ |-> [@[i] EXCEPT !.dead = @ \/ (~t.node[i].val /\ iscollectable(t.node[i].key))]]]
  /\ UNCHANGED <<it, seen>>

(* OP_SETLIST makes room for the items of a constructor. *)
MakeRoom ==
  \E n \in 1..MaxArray : it = Nil /\ n > sizearray(t) /\ t' = luaH_resizearray(t, n) /\ UNCHANGED <<it, seen>>

Init ==     \* luaH_new
  /\ \E a \in 0..MaxArray, n \in 0..2 :
       t = [array |-> [i \in 1..a |-> FALSE], node |-> [i \in 1..ceilpow2(n) |-> Free], lastfree |-> ceilpow2(n) + 1]
  /\ it = Nil /\ seen = {}

Next ==
  \/ \E k \in Keys : Assign(k) \/ Clear(k)
  \/ Collect \/ MakeRoom \/ Begin \/ luaH_next

Spec == Init /\ [][Next]_vars
--------------------------------------------------------------------------------
Contents(h) == {k \in Keys : luaH_get(h, k)}

(* A table is a dictionary whatever the order of insertions, removals,     *)
(* collections and rehashes, and next gives each of its keys once          *)
(* (ltable.c:171).                                                         *)
Dict == INSTANCE LuaDict WITH dict <- Contents(t), going <- it # Nil
IsADictionary == Dict!Spec

(* The length of a table is a border of it, wherever its elements are.     *)
LengthIsBorder ==
  LET n == luaH_getn(t) IN (n = 0 \/ Num(t, n)) /\ ~Num(t, n + 1)

(* An insertion that sizes the array part anew leaves the largest power of *)
(* two of which more than half is in use, and all of that in it.           *)
Half(h, n) == 2 * Cardinality({i \in 1..n : Num(h, i)}) > n
Powers == {1, 2, 4, 8, 16}
SizesAreBest ==
  [][ sizearray(t') # sizearray(t) /\ Contents(t') # Contents(t) =>
        sizearray(t') = MaxOf({0} \cup {n \in Powers : Half(t', n)}) ]_vars
================================================================================
