----------------------------- MODULE LuaCallsProofs -----------------------------
(***************************************************************************)
(* Theorems about LuaCalls: the counts of nested C calls are right in      *)
(* every thread, which bounds the C stack; a coroutine's status is what it *)
(* is; and a protected call leaves its thread as it found it.              *)
(*                                                                         *)
(* The lemmas speak of threads H, a C stack c and levels l, not of the     *)
(* variables: one action of the model calls several operators, each of     *)
(* which takes a state with the invariant to another.                      *)
(***************************************************************************)
EXTENDS LuaCalls, FiniteSetTheorems, WellFoundedInduction, TLAPS

--------------------------------------------------------------------------------
(* The invariant *)

Codes == {"ERRERR", "ERRRUN", "ERRMEM"}
Old == [nCcalls : Nat, ci : Nat, top : Nat, errfunc : BOOLEAN]
Acts ==
  [k : {"host", "call", "resume", "raise", "handler"}, t : Threads]
    \cup [k : {"exec"}, t : Threads, n : Nat \ {0}]
    \cup [k : {"cfun"}, t : Threads, f : CFunctions, at : {"start", "done", "failed"}, co : Threads]
    \cup [k : {"pcall"}, t : Threads, old : Old]
    \cup [k : {"throw"}, t : Threads, code : Codes]

CallInfo == [kind : {"host", "lua", "C"}, base : Nat]
lua_State ==
  [status : {"ok", "yield"} \cup Codes, ci : Seq(CallInfo), sizeci : Nat, nCcalls : Int, baseCcalls : Int,
   errfunc : BOOLEAN, open : SUBSET Nat, left : {0, 1} \cup Results,
   life : {"none", "fresh", "started", "finished"}]

(* A frame takes two positions of the stack, only Lua functions have open  *)
(* upvalues, and a thread that has yielded did so from a C function that a *)
(* Lua function called, with Lua functions below.                          *)
ThreadOK(T) ==
  /\ T \in lua_State /\ Len(T.ci) >= 1
  /\ \A p \in DOMAIN T.ci : T.ci[p].base = 2 * p - 1
  /\ \A x \in T.open : \E p \in DOMAIN T.ci : x = 2 * p - 1 /\ T.ci[p].kind = "lua"
  /\ T.status = "yield" =>
       /\ Len(T.ci) >= 3 /\ T.ci[Len(T.ci)].kind = "C"
       /\ \A p \in 2..(Len(T.ci) - 1) : T.ci[p].kind = "lua"

(* What may lie on what: a thread is on the C stack in one piece, on top   *)
(* of the resume() that resumed it.                                        *)
Fits(c, i) ==
  LET a == c[i]
      b == c[i - 1]
  IN  /\ a.k # "host"
      /\ a.k # "resume" => a.t = b.t
      /\ a.k = "resume" =>
           /\ b.k = "cfun" /\ b.f = "resume" /\ b.at = "done" /\ b.co = a.t
           /\ a.t # Main /\ \A j \in 1..(i - 1) : c[j].t # a.t
      /\ a.k = "exec" => b.k \in {"call", "resume"}
      /\ a.k = "cfun" => b.k \in {"call", "exec"}
      /\ b.k = "cfun" /\ b.f = "resume" => a.k \in {"resume", "raise", "handler", "throw"}

Count(c, i) == Cardinality({j \in 1..i : c[j].k \in {"call", "resume"}})
Limit == MaxCCalls + Slack

(* l[i] is how many frames the activations of the thread up to i account   *)
(* for.                                                                    *)
Level(c, l, i) == l[i] = (IF c[i].k = "resume" THEN 1 ELSE l[i - 1]) + Width(c[i])

Saved(c, l, i) ==
  c[i].k = "pcall" =>
    /\ c[i].old.ci = l[i] /\ c[i].old.top = 2 * l[i] /\ c[i].old.nCcalls = Count(c, i)

(* How a thread that is on the C stack agrees with an activation of it,    *)
(* and with its last one.                                                  *)
Agrees(T, c, l, i) ==
  /\ T.life = "started"
  /\ T.status = "ok" => /\ l[i] <= Len(T.ci)
                        /\ \A p \in (l[i] - Width(c[i]) + 1)..l[i] : T.ci[p].kind = KindOf(c[i])
  /\ T.status # "ok" => T.status = "yield" /\ c[Len(c)].k = "resume" /\ c[Len(c)].t = c[i].t
  /\ c[i].k = "resume" => T.baseCcalls = Count(c, i)

IsLast(c, i) == \A j \in (i + 1)..Len(c) : c[j].t # c[i].t
AgreesAtLast(T, c, l, i) ==
  IsLast(c, i) => T.nCcalls = Count(c, i) /\ (T.status = "ok" => Len(T.ci) = l[i])

(* A coroutine that is not on the C stack.  If results always fit on the   *)
(* stack of the resumer, a coroutine that has finished keeps none, but for *)
(* the one whose results are being transferred.                            *)
ResultsFit == \A n \in Results \cup {1} : n < MaxCStack
OnStack(c, t) == \E i \in DOMAIN c : c[i].t = t
OffOK(T, exempt) ==
  /\ T.status = "ok" => Len(T.ci) = 1
  /\ T.life = "started" <=> T.status = "yield"
  /\ T.life \in {"none", "fresh"} => T.status = "ok"
  /\ T.life = "fresh" => T.left # 0
  /\ exempt => T.life \notin {"none", "fresh"}
  /\ T.life = "finished" /\ T.status = "ok" /\ ResultsFit /\ ~exempt => T.left = 0

Bounded(c, i) == c[i].k \in {"pcall", "resume"} => Count(c, i) < Limit
TopBounded(c) ==
  Count(c, Len(c)) <= Limit /\ (c[Len(c)].k \notin {"throw", "call"} => Count(c, Len(c)) < Limit)

Threaded(H) ==
  H \in [Threads -> lua_State] /\ (\A t \in Threads : ThreadOK(H[t])) /\ H[Main].baseCcalls = 0
Stacked(c) ==
  c \in Seq(Acts) /\ Len(c) >= 1 /\ c[1] = A("host", Main) /\ \A i \in 2..Len(c) : Fits(c, i)
Leveled(c, l) ==
  /\ l \in Seq(Nat) /\ Len(l) = Len(c) /\ l[1] = 1
  /\ \A i \in 1..Len(c) : l[i] >= 1
  /\ \A i \in 2..Len(c) : Level(c, l, i)
  /\ \A i, j \in 1..Len(c) : i <= j /\ c[i].t = c[j].t => l[i] <= l[j]
Remembered(c, l) == \A i \in 1..Len(c) : Saved(c, l, i) /\ Bounded(c, i)
Agreed(H, c, l) ==
  \A i \in 1..Len(c) : Agrees(H[c[i].t], c, l, i) /\ AgreesAtLast(H[c[i].t], c, l, i)
Suspended(H, c, X) == \A t \in Threads : ~OnStack(c, t) => OffOK(H[t], t \in X)

Good(H, c, l, X) ==
  /\ Threaded(H) /\ Stacked(c) /\ Leveled(c, l) /\ Remembered(c, l)
  /\ Agreed(H, c, l) /\ Suspended(H, c, X) /\ TopBounded(c)

Exempt(c) ==
  LET a == c[Len(c)]
  IN  IF a.k = "cfun" /\ a.f = "resume" /\ a.at = "done" THEN {a.co} ELSE {}

Fine(H, c, X) == \E l : Good(H, c, l, X)
CallsInv == Fine(th, cs, Exempt(cs))

--------------------------------------------------------------------------------
(* Counting *)

LEMMA LargestInSet ==
  ASSUME NEW n \in Nat, NEW S \in SUBSET (1..n), S # {}
  PROVE  \E k \in S : \A m \in S : m <= k
<1> DEFINE D == {d \in Nat : \E k \in S : k = n - d}
<1>1. PICK k \in S : TRUE
  OBVIOUS
<1>2. n - k \in Nat /\ k = n - (n - k)
  BY <1>1
<1>3. D # {} /\ D \in SUBSET Nat
  BY <1>1, <1>2
<1>4. PICK d \in D : \A e \in D : ~(<<e, d>> \in OpToRel(<, Nat))
  BY <1>3, WFMin, NatLessThanWellFounded, Zenon
<1>5. n - d \in S /\ d \in Nat
  BY <1>4, Zenon
<1>6. ASSUME NEW m \in S PROVE m <= n - d
  <2>1. n - m \in D
    OBVIOUS
  <2>2. ~(n - m < d)
    BY <1>4, <1>5, <2>1 DEF OpToRel
  <2>3. QED BY <1>5, <2>2
<1>7. QED BY <1>5, <1>6

LEMMA CountFinite ==
  ASSUME NEW c, NEW i \in Nat
  PROVE  IsFiniteSet({j \in 1..i : c[j].k \in {"call", "resume"}}) /\ Count(c, i) \in Nat
<1>1. IsFiniteSet(1..i)
  BY FS_Interval
<1>2. IsFiniteSet({j \in 1..i : c[j].k \in {"call", "resume"}})
  BY <1>1, FS_Subset
<1>3. QED BY <1>2, FS_CardinalityType DEF Count

LEMMA CountNext ==
  ASSUME NEW c, NEW i \in Nat
  PROVE  Count(c, i + 1) = Count(c, i) + (IF c[i + 1].k \in {"call", "resume"} THEN 1 ELSE 0)
<1> DEFINE S == {j \in 1..i : c[j].k \in {"call", "resume"}}
           R == {j \in 1..(i + 1) : c[j].k \in {"call", "resume"}}
<1>1. IsFiniteSet(S) /\ Count(c, i) \in Nat
  BY CountFinite
<1>2. CASE c[i + 1].k \in {"call", "resume"}
  <2>1. R = S \cup {i + 1} /\ i + 1 \notin S
    BY <1>2
  <2>2. Cardinality(R) = Cardinality(S) + 1
    BY <1>1, <2>1, FS_AddElement
  <2>3. QED BY <1>2, <2>2 DEF Count
<1>3. CASE c[i + 1].k \notin {"call", "resume"}
  <2>1. \A j \in 1..(i + 1) : j = i + 1 \/ j \in 1..i
    OBVIOUS
  <2>2. 1..i \subseteq 1..(i + 1)
    OBVIOUS
  <2>3. R = S
    BY <1>3, <2>1, <2>2, Zenon
  <2>4. Count(c, i + 1) = Count(c, i)
    BY <2>3, Zenon DEF Count
  <2>5. Count(c, i) + 0 = Count(c, i)
    BY <1>1
  <2>6. QED BY <1>3, <2>4, <2>5
<1>4. QED BY <1>2, <1>3

\* The count depends on what is below only, and grows with the stack.
LEMMA CountPrefix ==
  ASSUME NEW c, NEW d, NEW i \in Nat, \A j \in 1..i : c[j].k = d[j].k
  PROVE  Count(c, i) = Count(d, i)
<1>1. {j \in 1..i : c[j].k \in {"call", "resume"}} = {j \in 1..i : d[j].k \in {"call", "resume"}}
  OBVIOUS
<1>2. QED BY <1>1 DEF Count

LEMMA CountGrows ==
  ASSUME NEW c, NEW i \in Nat, NEW j \in Nat, i <= j
  PROVE  Count(c, i) <= Count(c, j)
<1>1. {m \in 1..i : c[m].k \in {"call", "resume"}} \subseteq {m \in 1..j : c[m].k \in {"call", "resume"}}
  OBVIOUS
<1>2. QED BY <1>1, CountFinite, FS_Subset DEF Count

--------------------------------------------------------------------------------
(* The C stack *)

Kinds7 == {"host", "call", "resume", "raise", "handler", "exec", "cfun", "pcall", "throw"}

LEMMA ActType ==
  ASSUME NEW a \in Acts
  PROVE  /\ a.t \in Threads /\ a.k \in Kinds7 /\ Width(a) \in Nat
         /\ a.k = "exec" => a.n \in Nat /\ a.n >= 1 /\ a = Exec(a.t, a.n)
         /\ a.k = "cfun" => a.f \in CFunctions /\ a.at \in {"start", "done", "failed"} /\ a.co \in Threads
         /\ a.k = "pcall" => a.old \in Old
         /\ a.k = "throw" => a.code \in Codes
BY DEF Acts, Kinds7, Width, Exec

LEMMA NewAct ==
  ASSUME NEW t \in Threads
  PROVE  /\ \A k \in {"host", "call", "resume", "raise", "handler"} : A(k, t) \in Acts
         /\ \A n \in Nat \ {0} : Exec(t, n) \in Acts
         /\ \A f \in CFunctions : CFun(t, f) \in Acts
         /\ \A old \in Old : [k |-> "pcall", t |-> t, old |-> old] \in Acts
         /\ \A code \in Codes : [k |-> "throw", t |-> t, code |-> code] \in Acts
BY DEF Acts, A, Exec, CFun

WithAt(a, x)  == [a EXCEPT !.at = x]
WithCo(a, co) == [a EXCEPT !.co = co]

LEMMA CFunAct ==
  ASSUME NEW a \in Acts, a.k = "cfun"
  PROVE  /\ \A x \in {"start", "done", "failed"} :
              LET b == WithAt(a, x)
              IN  b \in Acts /\ b.k = a.k /\ b.t = a.t /\ b.f = a.f /\ b.at = x /\ b.co = a.co
         /\ \A co \in Threads :
              LET b == WithCo(a, co)
              IN  b \in Acts /\ b.k = a.k /\ b.t = a.t /\ b.f = a.f /\ b.at = a.at /\ b.co = co
<1>1. a \in [k : {"cfun"}, t : Threads, f : CFunctions, at : {"start", "done", "failed"}, co : Threads]
  BY DEF Acts
<1>2. QED BY <1>1 DEF Acts, WithAt, WithCo

\* The activations of a thread lie on one another.
LEMMA InOnePiece ==
  ASSUME NEW c, Stacked(c), NEW m \in 1..Len(c), NEW i \in 1..m, c[i].t = c[m].t
  PROVE  \A j \in i..m : c[j].t = c[i].t
<1> DEFINE S == {j \in 1..m : i <= j /\ c[j].t # c[i].t}
<1>1. Len(c) \in Nat
  BY DEF Stacked
<1>2. SUFFICES ASSUME S # {} PROVE FALSE
  BY <1>1
<1>3. PICK j \in S : \A x \in S : x <= j
  <2>1. S \in SUBSET (1..m) /\ m \in Nat
    BY <1>1
  <2> HIDE DEF S
  <2>2. QED BY <1>2, <2>1, LargestInSet
<1>4. j < m /\ j + 1 \in 2..Len(c) /\ j + 1 \in 1..m /\ i <= j + 1 /\ j + 1 \notin S
  BY <1>1, <1>3
<1>5. c[j + 1].t = c[i].t /\ c[j].t # c[i].t
  BY <1>3, <1>4
<1>6. Fits(c, j + 1) /\ (j + 1) - 1 = j
  BY <1>1, <1>4 DEF Stacked
<1>7. c[j + 1].k = "resume"
  BY <1>5, <1>6 DEF Fits
<1>8. \A x \in 1..j : c[x].t # c[j + 1].t
  BY <1>6, <1>7 DEF Fits
<1>9. QED BY <1>1, <1>3, <1>5, <1>8

--------------------------------------------------------------------------------
(* Replacing what a thread has on top of the C stack *)

\* The thread kept its first n frames.
Kept(T, U, n) ==
  /\ U.status = "ok" /\ T.baseCcalls = U.baseCcalls
  /\ \A p \in 1..n : T.ci[p].kind = U.ci[p].kind

\* The activation m fits on top of the others, and accounts for the last frames of T.
OnTop(T, d, k, m) ==
  /\ Fits(d, m) /\ Level(d, k, m) /\ k[m] >= 1 /\ Saved(d, k, m) /\ Bounded(d, m)
  /\ d[m].k = "resume" => T.baseCcalls = Count(d, m)
  /\ \A p \in (k[m] - Width(d[m]) + 1)..k[m] : T.ci[p].kind = KindOf(d[m])

Replaces(H, c, l, t, T, d, k, q) ==
  /\ d \in Seq(Acts) /\ k \in Seq(Nat) /\ Len(k) = Len(d) /\ Len(d) \in {q, q + 1}
  /\ \A j \in 1..q : d[j] = c[j] /\ k[j] = l[j]
  /\ d[Len(d)].t = t /\ \A j \in (q + 1)..Len(c) : c[j].t = t
  /\ c[Len(c)].t = t \/ c[Len(c)].k # "resume"
  /\ ThreadOK(T) /\ T.status = "ok" /\ T.life = "started" /\ (t = Main => T.baseCcalls = 0)
  /\ \A j \in 1..q : c[j].t = t => Kept(T, H[t], l[j]) /\ l[j] <= k[Len(d)]
  /\ Len(d) = q + 1 => OnTop(T, d, k, q + 1)
  /\ T.nCcalls = Count(d, Len(d)) /\ Len(T.ci) = k[Len(d)]
  /\ TopBounded(d)

Prefix(s, q) == SubSeq(s, 1, q)

LEMMA ReplacePrefix ==
  ASSUME NEW c, NEW l, NEW d, NEW k, NEW q \in Nat,
         \A j \in 1..q : d[j] = c[j] /\ k[j] = l[j]
  PROVE  \A i \in 1..q : /\ Count(d, i) = Count(c, i)
                         /\ Saved(c, l, i) => Saved(d, k, i)
                         /\ Bounded(c, i) => Bounded(d, i)
                         /\ i # 1 /\ Fits(c, i) => Fits(d, i)
                         /\ i # 1 /\ Level(c, l, i) => Level(d, k, i)
<1> TAKE i \in 1..q
<1>1. d[i] = c[i] /\ k[i] = l[i] /\ i \in Nat /\ \A j \in 1..i : d[j] = c[j]
  OBVIOUS
<1>2. Count(d, i) = Count(c, i)
  BY <1>1, CountPrefix
<1>3. i # 1 => i - 1 \in 1..q /\ d[i - 1] = c[i - 1] /\ k[i - 1] = l[i - 1]
  OBVIOUS
<1>4. \A j \in 1..(i - 1) : d[j] = c[j]
  BY <1>1
<1>5. i # 1 /\ Fits(c, i) => Fits(d, i)
  BY <1>1, <1>3, <1>4 DEF Fits
<1>6. QED BY <1>1, <1>2, <1>3, <1>5 DEF Saved, Bounded, Level

LEMMA ReplaceStack ==
  ASSUME NEW H, NEW c, NEW l, NEW X, Good(H, c, l, X), NEW t \in Threads, NEW T, NEW d, NEW k,
         NEW q \in 1..Len(c), Replaces(H, c, l, t, T, d, k, q)
  PROVE  Stacked(d) /\ Leveled(d, k) /\ Remembered(d, k)
<1> DEFINE m == Len(d)
<1>1. /\ d \in Seq(Acts) /\ k \in Seq(Nat) /\ Len(k) = m /\ m \in {q, q + 1} /\ m \in Nat
      /\ \A j \in 1..q : d[j] = c[j] /\ k[j] = l[j]
      /\ m = q + 1 => OnTop(T, d, k, q + 1)
      /\ d[m].t = t /\ \A j \in 1..q : c[j].t = t => l[j] <= k[m]
  BY DEF Replaces
<1>2. Stacked(c) /\ Leveled(c, l) /\ Remembered(c, l) /\ Len(c) \in Nat /\ Len(c) >= 1
  BY DEF Good, Stacked
<1>3. q \in Nat /\ 1 \in 1..q /\ \A i \in 1..m : i \in 1..q \/ (i = m /\ m = q + 1)
  <2>1. q \in Nat /\ 1 \in 1..q
    BY <1>2
  <2>2. m = q \/ m = q + 1
    BY <1>1
  <2> HIDE DEF m
  <2>3. \A i \in 1..m : i \in 1..q \/ (i = m /\ m = q + 1)
    BY <2>1, <2>2
  <2>4. QED BY <2>1, <2>3 DEF m
<1>4. \A i \in 1..q : /\ Saved(d, k, i) /\ Bounded(d, i) /\ k[i] >= 1 /\ k[i] = l[i] /\ d[i] = c[i]
                      /\ i # 1 => Fits(d, i) /\ Level(d, k, i)
  <2>0. \A j \in 1..q : d[j] = c[j] /\ k[j] = l[j]
    BY <1>1
  <2>3. \A i \in 1..q : /\ Saved(c, l, i) => Saved(d, k, i)
                        /\ Bounded(c, i) => Bounded(d, i)
                        /\ i # 1 /\ Fits(c, i) => Fits(d, i)
                        /\ i # 1 /\ Level(c, l, i) => Level(d, k, i)
    <3>1. q \in Nat
      BY <1>3
    <3>2. QED BY <2>0, <3>1, ReplacePrefix
  <2> TAKE i \in 1..q
  <2>1. i \in 1..Len(c) /\ (i # 1 => i \in 2..Len(c)) /\ k[i] = l[i] /\ d[i] = c[i]
    BY <1>1, <1>2
  <2>2. /\ Saved(c, l, i) /\ Bounded(c, i) /\ l[i] >= 1
        /\ i # 1 => Fits(c, i) /\ Level(c, l, i)
    BY <1>2, <2>1 DEF Stacked, Leveled, Remembered
  <2>5. QED BY <2>1, <2>2, <2>3
<1>5. \A i \in 1..m : Saved(d, k, i) /\ Bounded(d, i) /\ k[i] >= 1 /\ (i # 1 => Fits(d, i) /\ Level(d, k, i))
  BY <1>1, <1>3, <1>4 DEF OnTop
<1>6. \A i \in 2..m : i \in 1..m /\ i # 1
  BY <1>1
<1>7. Stacked(d)
  BY <1>1, <1>2, <1>3, <1>5, <1>6 DEF Stacked
<1>8. ASSUME NEW i \in 1..m, NEW j \in 1..m, i <= j, d[i].t = d[j].t PROVE k[i] <= k[j]
  <2>1. CASE j \in 1..q
    <3>1. i \in 1..q /\ i \in 1..Len(c) /\ j \in 1..Len(c)
      BY <1>2, <1>3, <1>8, <2>1
    <3>2. QED BY <1>2, <1>4, <1>8, <2>1, <3>1 DEF Leveled
  <2>2. CASE j = m /\ m = q + 1
    <3>1. CASE i = j
      <4>1. k[j] \in Nat
        BY <1>1
      <4>2. QED BY <3>1, <4>1
    <3>2. CASE i # j
      BY <1>1, <1>3, <1>4, <1>8, <2>2, <3>2
    <3>3. QED BY <3>1, <3>2
  <2>3. QED BY <1>3, <2>1, <2>2
<1>9. k[1] = 1
  BY <1>2, <1>3, <1>4 DEF Leveled
<1>10. Leveled(d, k)
  BY <1>1, <1>5, <1>6, <1>8, <1>9 DEF Leveled
<1>11. Remembered(d, k)
  BY <1>5 DEF Remembered
<1>12. QED BY <1>7, <1>10, <1>11

\* A thread that stays on the C stack below what is replaced is running.
LEMMA ReplaceOk ==
  ASSUME NEW H, NEW c, NEW l, NEW X, Good(H, c, l, X), NEW t \in Threads, NEW T, NEW d, NEW k,
         NEW q \in 1..Len(c), Replaces(H, c, l, t, T, d, k, q), NEW i \in 1..q, c[i].t # t
  PROVE  H[c[i].t].status = "ok"
<1>1. c[Len(c)].t = t \/ c[Len(c)].k # "resume"
  BY DEF Replaces
<1>2. i \in 1..Len(c)
  BY DEF Good, Stacked
<1>3. Agrees(H[c[i].t], c, l, i)
  BY <1>2 DEF Good, Agreed
<1>4. QED BY <1>1, <1>3 DEF Agrees

LEMMA ReplaceAgreed ==
  ASSUME NEW H, NEW c, NEW l, NEW X, Good(H, c, l, X), NEW t \in Threads, NEW T, NEW d, NEW k,
         NEW q \in 1..Len(c), Replaces(H, c, l, t, T, d, k, q)
  PROVE  Agreed([H EXCEPT ![t] = T], d, k)
<1> DEFINE m == Len(d)
           G == [H EXCEPT ![t] = T]
<1>1. /\ m \in {q, q + 1} /\ d[m].t = t /\ T.status = "ok" /\ T.life = "started"
      /\ \A j \in 1..q : d[j] = c[j] /\ k[j] = l[j]
      /\ \A j \in (q + 1)..Len(c) : c[j].t = t
      /\ m = q + 1 => OnTop(T, d, k, q + 1)
      /\ T.nCcalls = Count(d, m) /\ Len(T.ci) = k[m] /\ k \in Seq(Nat) /\ Len(k) = m
      /\ \A j \in 1..q : c[j].t = t => Kept(T, H[t], l[j]) /\ l[j] <= k[m]
  BY DEF Replaces
<1>2. /\ Len(c) \in Nat /\ c \in Seq(Acts) /\ DOMAIN H = Threads /\ q \in Nat /\ m \in Nat
      /\ \A i \in 1..Len(c) : Agrees(H[c[i].t], c, l, i) /\ AgreesAtLast(H[c[i].t], c, l, i)
  <2>1. Stacked(c) /\ Threaded(H) /\ Agreed(H, c, l)
    BY DEF Good
  <2>2. QED BY <1>1, <2>1 DEF Stacked, Threaded, Agreed
<1>3. \A i \in 1..q : i \in 1..Len(c)
  BY <1>2
<1>4. \A i \in 1..q : Count(d, i) = Count(c, i)
  <2> TAKE i \in 1..q
  <2>1. i \in Nat /\ \A j \in 1..i : c[j].k = d[j].k
    BY <1>1, <1>2, SMTT(30)
  <2>2. QED BY <2>1, CountPrefix
<1>5. ASSUME NEW i \in 1..q, d[i].t # t
      PROVE  Agrees(G[d[i].t], d, k, i) /\ AgreesAtLast(G[d[i].t], d, k, i)
  <2> DEFINE U == H[c[i].t]
  <2>1. d[i] = c[i] /\ k[i] = l[i] /\ c[i].t # t /\ G[d[i].t] = U
    BY <1>1, <1>2, <1>5
  <2>2. U.status = "ok"
    BY <2>1, ReplaceOk
  <2>3. Agrees(U, c, l, i) /\ AgreesAtLast(U, c, l, i) /\ Count(d, i) = Count(c, i)
    BY <1>2, <1>3, <1>4
  <2>4. Agrees(U, d, k, i)
    BY <2>1, <2>2, <2>3 DEF Agrees
  <2>5. ASSUME IsLast(d, i) PROVE IsLast(c, i)
    <3>1. \A j \in (i + 1)..Len(c) : j \in (q + 1)..Len(c) \/ (j \in 1..q /\ j \in (i + 1)..m)
      BY <1>1, <1>2
    <3>2. \A j \in (i + 1)..m : d[j].t # d[i].t
      BY <2>5 DEF IsLast
    <3>3. \A j \in (i + 1)..Len(c) : c[j].t # c[i].t
      BY <1>1, <2>1, <3>1, <3>2
    <3>4. QED BY <3>3 DEF IsLast
  <2>6. AgreesAtLast(U, d, k, i)
    BY <2>1, <2>2, <2>3, <2>5 DEF AgreesAtLast
  <2>7. QED BY <2>1, <2>4, <2>6
<1>6. ASSUME NEW i \in 1..m, d[i].t = t
      PROVE  Agrees(T, d, k, i) /\ AgreesAtLast(T, d, k, i)
  <2>1. AgreesAtLast(T, d, k, i)
    <3>1. IsLast(d, i) => ~(m \in (i + 1)..m)
      BY <1>1, <1>6 DEF IsLast
    <3>2. IsLast(d, i) => i = m
      BY <1>2, <3>1
    <3>3. QED BY <1>1, <3>2 DEF AgreesAtLast
  <2>2. CASE i \in 1..q
    <3>1. d[i] = c[i] /\ k[i] = l[i] /\ Kept(T, H[t], l[i]) /\ l[i] <= k[m] /\ H[c[i].t] = H[t]
      BY <1>1, <1>6, <2>2
    <3>2. Agrees(H[t], c, l, i) /\ Count(d, i) = Count(c, i)
      BY <1>2, <1>3, <1>4, <2>2, <3>1
    <3>3. H[t].status = "ok" /\ T.baseCcalls = H[t].baseCcalls
      BY <3>1 DEF Kept
    <3>4. \A p \in (k[i] - Width(d[i]) + 1)..k[i] : p \in 1..l[i]
      <4>1. l[i] \in Nat /\ Width(c[i]) \in Nat /\ l[i] >= Width(c[i])
        <5>1. Leveled(c, l) /\ Stacked(c)
          BY DEF Good
        <5>2. /\ l[i] \in Nat /\ c[i] \in Acts /\ l[1] = 1 /\ c[1] = A("host", Main)
              /\ i # 1 => Level(c, l, i) /\ l[i - 1] \in Nat
          <6>1. i \in 1..Len(c) /\ (i # 1 => i \in 2..Len(c) /\ i - 1 \in 1..Len(c))
            BY <1>2, <2>2
          <6>2. QED BY <5>1, <6>1, SMTT(30) DEF Leveled, Stacked
        <5>3. Width(c[i]) \in Nat
          BY <5>2, ActType
        <5>4. CASE i = 1
          BY <5>2, <5>3, <5>4 DEF Width, A
        <5>5. CASE i # 1
          BY <5>2, <5>3, <5>5 DEF Level
        <5>6. QED BY <5>2, <5>3, <5>4, <5>5
      <4>2. QED BY <3>1, <4>1
    <3>5. \A p \in (k[i] - Width(d[i]) + 1)..k[i] : T.ci[p].kind = KindOf(d[i])
      <4>1. \A p \in (l[i] - Width(c[i]) + 1)..l[i] : H[t].ci[p].kind = KindOf(c[i])
        BY <3>2, <3>3 DEF Agrees
      <4>2. \A p \in 1..l[i] : T.ci[p].kind = H[t].ci[p].kind
        BY <3>1 DEF Kept
      <4>3. QED BY <3>1, <3>4, <4>1, <4>2
    <3>6. QED BY <1>1, <2>1, <3>1, <3>2, <3>3, <3>5 DEF Agrees
  <2>3. CASE i = m /\ m = q + 1
    <3>1. OnTop(T, d, k, i) /\ k[i] \in Nat
      BY <1>1, <2>3
    <3>2. k[i] <= Len(T.ci)
      BY <1>1, <2>3, <3>1
    <3>3. QED BY <1>1, <2>1, <3>1, <3>2 DEF Agrees, OnTop
  <2>4. QED BY <1>1, <1>2, <2>2, <2>3
<1>7. \A i \in 1..m : d[i].t # t => i \in 1..q
  BY <1>1, <1>2
<1>8. G[t] = T
  BY <1>2
<1>9. \A i \in 1..m : Agrees(G[d[i].t], d, k, i) /\ AgreesAtLast(G[d[i].t], d, k, i)
  BY <1>5, <1>6, <1>7, <1>8
<1>10. QED BY <1>9 DEF Agreed

LEMMA ReplaceKeeps ==
  ASSUME NEW H, NEW c, NEW l, NEW X, Good(H, c, l, X), NEW t \in Threads, NEW T, NEW d, NEW k,
         NEW q \in 1..Len(c), Replaces(H, c, l, t, T, d, k, q)
  PROVE  Good([H EXCEPT ![t] = T], d, k, X)
<1> DEFINE G == [H EXCEPT ![t] = T]
<1>1. /\ d[Len(d)].t = t /\ ThreadOK(T) /\ TopBounded(d) /\ d \in Seq(Acts) /\ Len(d) \in {q, q + 1}
      /\ \A j \in 1..q : d[j] = c[j]
      /\ \A j \in (q + 1)..Len(c) : c[j].t = t
      /\ t = Main => T.baseCcalls = 0
  BY DEF Replaces
<1>2. Threaded(H) /\ Suspended(H, c, X) /\ Stacked(c)
  BY DEF Good
<1>3. Threaded(G)
  <2>1. T \in lua_State
    BY <1>1 DEF ThreadOK
  <2>2. QED BY <1>1, <1>2, <2>1 DEF Threaded
<1>4. Suspended(G, d, X)
  <2>1. ASSUME NEW u \in Threads, ~OnStack(d, u) PROVE OffOK(G[u], u \in X)
    <3>1. Len(d) \in DOMAIN d /\ DOMAIN d = 1..Len(d) /\ DOMAIN c = 1..Len(c) /\ Len(c) \in Nat
      BY <1>1, <1>2 DEF Stacked
    <3>2. u # t
      BY <1>1, <2>1, <3>1, Zenon DEF OnStack
    <3>3. \A j \in 1..q : j \in DOMAIN d
      <4> DEFINE e == Len(d)
      <4>1. DOMAIN d = 1..e /\ e \in {q, q + 1}
        BY ONLY <1>1, <3>1
      <4>2. q \in Nat
        BY ONLY <3>1, q \in 1..Len(c)
      <4> HIDE DEF e
      <4>3. \A j \in 1..q : j \in 1..e
        BY ONLY <4>1, <4>2
      <4>4. QED BY ONLY <4>1, <4>3, ZenonT(30)
    <3>4. ASSUME NEW j \in 1..Len(c) PROVE c[j].t # u
      <4>1. CASE j \in 1..q
        <5>1. d[j].t # u
          BY <2>1, <3>3, <4>1, Zenon DEF OnStack
        <5>2. d[j] = c[j]
          BY <1>1, <4>1
        <5>3. QED BY <5>1, <5>2
      <4>2. CASE j \in (q + 1)..Len(c)
        BY <1>1, <3>2, <4>2
      <4>3. QED BY <3>1, <4>1, <4>2
    <3>5. ~OnStack(c, u)
      BY <3>1, <3>4 DEF OnStack
    <3>6. G[u] = H[u]
      BY <1>2, <3>2 DEF Threaded
    <3>7. QED BY <1>2, <3>5, <3>6 DEF Suspended
  <2>2. QED BY <2>1 DEF Suspended
<1>5. QED BY <1>1, <1>3, <1>4, ReplaceStack, ReplaceAgreed DEF Good

--------------------------------------------------------------------------------
(* What the thread on top may do *)

\* The activation on top, and its thread.
LEMMA TopFacts ==
  ASSUME NEW H, NEW c, NEW l, NEW X, Good(H, c, l, X), NEW n, n = Len(c), NEW T, T = H[c[n].t]
  PROVE  /\ n \in Nat /\ n >= 1 /\ c \in Seq(Acts) /\ c[n] \in Acts /\ c[n].t \in Threads
         /\ l \in Seq(Nat) /\ Len(l) = n /\ l[n] \in Nat /\ l[n] >= 1 /\ Count(c, n) \in Nat
         /\ H \in [Threads -> lua_State] /\ ThreadOK(T) /\ T.life = "started"
         /\ T.nCcalls = Count(c, n)
         /\ c[n].k # "resume" => T.status = "ok"
         /\ T.status = "ok" =>
              /\ Len(T.ci) = l[n]
              /\ \A p \in (l[n] - Width(c[n]) + 1)..l[n] : T.ci[p].kind = KindOf(c[n])
         /\ c[n].t = Main => T.baseCcalls = 0
<1>1. Threaded(H) /\ Stacked(c) /\ Leveled(c, l) /\ Agreed(H, c, l)
  BY DEF Good
<1>2. n \in Nat /\ n >= 1 /\ c \in Seq(Acts) /\ l \in Seq(Nat) /\ Len(l) = n /\ n \in 1..n
  BY <1>1 DEF Stacked, Leveled
<1>3. c[n] \in Acts /\ c[n].t \in Threads
  BY <1>2, ActType
<1>4. l[n] \in Nat /\ l[n] >= 1
  BY <1>1, <1>2 DEF Leveled
<1>5. Agrees(T, c, l, n) /\ AgreesAtLast(T, c, l, n)
  BY <1>1, <1>2 DEF Agreed
<1>6. IsLast(c, n)
  BY <1>2 DEF IsLast
<1>7. T.nCcalls = Count(c, n) /\ (T.status = "ok" => Len(T.ci) = l[n])
  BY <1>5, <1>6 DEF AgreesAtLast
<1>8. /\ T.life = "started"
      /\ c[n].k # "resume" => T.status = "ok"
      /\ T.status = "ok" =>
           \A p \in (l[n] - Width(c[n]) + 1)..l[n] : T.ci[p].kind = KindOf(c[n])
  BY <1>5 DEF Agrees
<1>9. Count(c, n) \in Nat
  BY <1>2, CountFinite
<1>10. H \in [Threads -> lua_State] /\ ThreadOK(T) /\ (c[n].t = Main => T.baseCcalls = 0)
  BY <1>1, <1>3 DEF Threaded
<1>11. QED BY <1>2, <1>3, <1>4, <1>7, <1>8, <1>9, <1>10

\* T is U with other frames from the n-th on, still running.
Continues(T, U, n) ==
  /\ ThreadOK(T) /\ T.status = "ok" /\ T.life = "started" /\ T.baseCcalls = U.baseCcalls
  /\ Len(T.ci) >= n /\ \A p \in 1..n : T.ci[p].kind = U.ci[p].kind

\* The activations from the q-th on are gone.
LEMMA CutKeeps ==
  ASSUME NEW H, NEW c, NEW l, NEW X, Good(H, c, l, X), NEW q \in 1..Len(c), NEW t \in Threads, NEW T,
         c[Len(c)].t = t, c[q].t = t, H[t].status = "ok",
         Continues(T, H[t], l[q]), Len(T.ci) = l[q], T.nCcalls = Count(c, q),
         q = Len(c) \/ Count(c, q) < Limit
  PROVE  Good([H EXCEPT ![t] = T], Prefix(c, q), Prefix(l, q), X)
<1> DEFINE d == Prefix(c, q)
           k == Prefix(l, q)
<1>1. /\ Stacked(c) /\ Leveled(c, l) /\ TopBounded(c) /\ c \in Seq(Acts) /\ l \in Seq(Nat)
      /\ Len(l) = Len(c) /\ Len(c) \in Nat /\ Len(c) >= 1 /\ q \in Nat
  BY DEF Good, Stacked, Leveled
<1>2. d \in Seq(Acts) /\ k \in Seq(Nat) /\ Len(d) = q /\ Len(k) = q
  BY <1>1 DEF Prefix
<1>3. \A j \in 1..q : d[j] = c[j] /\ k[j] = l[j]
  BY <1>1 DEF Prefix
<1>4. \A j \in (q + 1)..Len(c) : c[j].t = t
  <2>1. \A j \in q..Len(c) : c[j].t = c[q].t
    BY <1>1, InOnePiece, SMTT(30)
  <2>2. QED BY <1>1, <2>1
<1>5. \A j \in 1..q : c[j].t = t => Kept(T, H[t], l[j]) /\ l[j] <= k[Len(d)]
  <2> SUFFICES ASSUME NEW j \in 1..q, c[j].t = t PROVE Kept(T, H[t], l[j]) /\ l[j] <= l[q]
    BY <1>2, <1>3
  <2>1. j \in 1..Len(c) /\ q \in 1..Len(c) /\ j <= q
    BY <1>1
  <2>2. l[j] <= l[q]
    BY <1>1, <2>1 DEF Leveled
  <2>3. l[j] \in Nat /\ l[q] \in Nat
    BY <1>1, <2>1
  <2>4. QED BY <2>2, <2>3 DEF Continues, Kept
<1>6. Count(d, q) = Count(c, q) /\ Count(c, q) \in Nat
  BY <1>1, <1>3, CountPrefix, CountFinite
<1>7. TopBounded(d)
  <2>1. CASE q = Len(c)
    BY <1>1, <1>2, <1>3, <1>6, <2>1 DEF TopBounded
  <2>2. CASE Count(c, q) < Limit
    <3>1. Limit \in Nat
      BY BoundsAssumption, SMTT(30) DEF Limit
    <3>2. QED BY <1>2, <1>6, <2>2, <3>1 DEF TopBounded
  <2>3. QED BY <2>1, <2>2
<1>8. t = Main => T.baseCcalls = 0
  BY DEF Continues, Good, Threaded
<1>9. T.nCcalls = Count(d, Len(d)) /\ Len(T.ci) = k[Len(d)] /\ d[Len(d)].t = t
  BY <1>1, <1>2, <1>3, <1>6
<1>10. Len(d) \in {q, q + 1} /\ Len(d) # q + 1 /\ Len(k) = Len(d)
  BY <1>1, <1>2
<1>11. Replaces(H, c, l, t, T, d, k, q)
  BY <1>2, <1>3, <1>4, <1>5, <1>7, <1>8, <1>9, <1>10, Zenon DEF Replaces, Continues
<1>12. QED BY <1>11, ReplaceKeeps, Zenon

\* Nothing is pushed or popped, and the frames are as many and of the same kinds.
LEMMA StayKeeps ==
  ASSUME NEW H, NEW c, NEW l, NEW X, Good(H, c, l, X), NEW t, t = c[Len(c)].t, NEW T,
         H[t].status = "ok", Continues(T, H[t], Len(H[t].ci)), Len(T.ci) = Len(H[t].ci),
         T.nCcalls = H[t].nCcalls
  PROVE  Good([H EXCEPT ![t] = T], c, l, X)
<1> DEFINE n == Len(c)
<1>1. /\ n \in Nat /\ n >= 1 /\ c \in Seq(Acts) /\ l \in Seq(Nat) /\ Len(l) = n /\ t \in Threads
      /\ T.nCcalls = Count(c, n) /\ Len(H[t].ci) = l[n]
  BY TopFacts
<1>2. n \in 1..Len(c) /\ Prefix(c, n) = c /\ Prefix(l, n) = l
  BY <1>1 DEF Prefix
<1>3. Good([H EXCEPT ![t] = T], Prefix(c, n), Prefix(l, n), X)
  BY <1>1, <1>2, CutKeeps
<1>4. QED BY <1>2, <1>3

\* What may be pushed on b, but for a resume.
MayLie(a, b) ==
  /\ a.t = b.t /\ a.k \notin {"host", "resume"}
  /\ a.k = "exec" => b.k \in {"call", "resume"}
  /\ a.k = "cfun" => b.k \in {"call", "exec"}
  /\ b.k = "cfun" /\ b.f = "resume" => a.k \in {"raise", "handler", "throw"}

\* T is U when a has been pushed.
Pushed(T, U, a) ==
  /\ Continues(T, U, Len(U.ci)) /\ Len(T.ci) = Len(U.ci) + Width(a)
  /\ \A p \in (Len(U.ci) + 1)..Len(T.ci) : T.ci[p].kind = KindOf(a)
  /\ T.nCcalls = U.nCcalls + (IF a.k = "call" THEN 1 ELSE 0)
  /\ T.nCcalls <= Limit /\ (a.k \notin {"throw", "call"} => T.nCcalls < Limit)
  /\ a.k = "pcall" =>
       a.old.ci = Len(U.ci) /\ a.old.top = 2 * Len(U.ci) /\ a.old.nCcalls = U.nCcalls

LEMMA PushKeeps ==
  ASSUME NEW H, NEW c, NEW l, NEW X, Good(H, c, l, X), NEW t, t = c[Len(c)].t, NEW T,
         NEW a \in Acts, MayLie(a, c[Len(c)]), H[t].status = "ok", Pushed(T, H[t], a)
  PROVE  Good([H EXCEPT ![t] = T], Append(c, a), Append(l, Len(T.ci)), X)
<1> DEFINE n == Len(c)
           U == H[t]
           d == Append(c, a)
           k == Append(l, Len(T.ci))
<1>1. /\ n \in Nat /\ n >= 1 /\ c \in Seq(Acts) /\ l \in Seq(Nat) /\ Len(l) = n /\ t \in Threads
      /\ U.nCcalls = Count(c, n) /\ Len(U.ci) = l[n] /\ l[n] \in Nat /\ l[n] >= 1 /\ Count(c, n) \in Nat
      /\ t = Main => U.baseCcalls = 0
  BY TopFacts
<1>2. Width(a) \in Nat /\ Limit \in Nat
  BY ActType, BoundsAssumption, SMTT(30) DEF Limit
<1>3. Len(T.ci) = l[n] + Width(a) /\ Len(T.ci) \in Nat /\ Len(T.ci) >= l[n] /\ Len(T.ci) >= 1
  BY <1>1, <1>2, SMTT(30) DEF Pushed
<1>4. /\ d \in Seq(Acts) /\ k \in Seq(Nat) /\ Len(d) = n + 1 /\ Len(k) = n + 1
      /\ d[n + 1] = a /\ k[n + 1] = Len(T.ci)
      /\ \A j \in 1..n : d[j] = c[j] /\ k[j] = l[j]
  BY ONLY <1>1, <1>3
<1> HIDE DEF d, k
<1>5. Count(d, n + 1) = T.nCcalls
  <2>1. Count(d, n) = Count(c, n)
    BY ONLY <1>1, <1>4, CountPrefix, ZenonT(30)
  <2>2. a.k # "resume" /\ T.nCcalls = U.nCcalls + (IF a.k = "call" THEN 1 ELSE 0)
    BY DEF MayLie, Pushed
  <2>3. Count(d, n + 1) = Count(d, n) + (IF d[n + 1].k \in {"call", "resume"} THEN 1 ELSE 0)
    BY ONLY <1>1, CountNext
  <2>4. d[n + 1] = a /\ U.nCcalls = Count(c, n)
    BY ONLY <1>1, <1>4
  <2>5. QED BY ONLY <2>1, <2>2, <2>3, <2>4
<1>6. \A j \in 1..n : c[j].t = t => Kept(T, U, l[j]) /\ l[j] <= k[Len(d)]
  <2> SUFFICES ASSUME NEW j \in 1..n, c[j].t = t PROVE Kept(T, U, l[j]) /\ l[j] <= l[n]
    BY <1>1, <1>3, <1>4
  <2>1. l[j] <= l[n]
    BY <1>1 DEF Good, Leveled
  <2>2. l[j] \in Nat
    BY ONLY <1>1
  <2>3. QED BY <1>1, <2>1, <2>2, SMTT(30) DEF Pushed, Continues, Kept
<1>7. OnTop(T, d, k, n + 1)
  <2>1. (n + 1) - 1 = n /\ n \in 1..n /\ d[(n + 1) - 1] = c[n] /\ k[(n + 1) - 1] = l[n] /\ d[n + 1] = a
    <3>1. (n + 1) - 1 = n /\ n \in 1..n
      BY ONLY <1>1
    <3>2. d[n] = c[n] /\ k[n] = l[n] /\ d[n + 1] = a
      BY <1>4, <3>1, Zenon
    <3>3. QED BY <3>1, <3>2, Zenon
  <2>2. Fits(d, n + 1)
    BY <2>1 DEF Fits, MayLie
  <2>3. Level(d, k, n + 1)
    <3>1. k[n + 1] = l[n] + Width(a)
      BY ONLY <1>3, <1>4
    <3>2. d[n + 1].k # "resume"
      BY <2>1 DEF MayLie
    <3>3. QED BY <2>1, <3>1, <3>2, Zenon DEF Level
  <2>4. Saved(d, k, n + 1)
    <3>1. a.k = "pcall" => Width(a) = 0
      BY DEF Width
    <3>2. a.k = "pcall" => T.nCcalls = U.nCcalls
      BY <1>1 DEF Pushed
    <3>3. QED BY <1>1, <1>3, <1>4, <1>5, <3>1, <3>2, SMTT(30) DEF Saved, Pushed
  <2>5. Bounded(d, n + 1)
    BY <1>4, <1>5 DEF Bounded, Pushed, MayLie
  <2>6. a.k # "resume"
    BY DEF MayLie
  <2>7. \A p \in (k[n + 1] - Width(d[n + 1]) + 1)..k[n + 1] : T.ci[p].kind = KindOf(d[n + 1])
    <3>1. Len(T.ci) - Width(a) = l[n]
      BY ONLY <1>1, <1>2, <1>3
    <3>2. QED BY <1>1, <1>4, <3>1 DEF Pushed
  <2>8. QED BY ONLY <1>3, <1>4, <2>2, <2>3, <2>4, <2>5, <2>6, <2>7 DEF OnTop
<1>8. TopBounded(d)
  BY <1>4, <1>5 DEF TopBounded, Pushed
<1>9. t = Main => T.baseCcalls = 0
  BY <1>1 DEF Pushed, Continues
<1>10. /\ T.nCcalls = Count(d, Len(d)) /\ Len(T.ci) = k[Len(d)] /\ d[Len(d)].t = t
       /\ Len(d) \in {n, n + 1} /\ Len(k) = Len(d)
       /\ \A j \in (n + 1)..Len(c) : c[j].t = t
       /\ n \in 1..Len(c)
  BY <1>1, <1>4, <1>5 DEF MayLie
<1>11. Replaces(H, c, l, t, T, d, k, n)
  BY <1>4, <1>6, <1>7, <1>8, <1>9, <1>10, Zenon DEF Replaces, Continues, Pushed
<1>12. QED BY <1>1, <1>10, <1>11, ReplaceKeeps, Zenon DEF d, k

\* The activation on top takes another form.
LEMMA TopKeeps ==
  ASSUME NEW H, NEW c, NEW l, NEW X, Good(H, c, l, X), NEW n, n = Len(c), NEW t, t = c[n].t, NEW T,
         NEW b \in Acts, b.t = t, b.k = c[n].k, b.k \in {"exec", "cfun"}, NEW m \in Nat,
         m = Len(H[t].ci) - Width(c[n]), Continues(T, H[t], m), Len(T.ci) = m + Width(b),
         \A p \in (m + 1)..Len(T.ci) : T.ci[p].kind = KindOf(b), T.nCcalls = H[t].nCcalls
  PROVE  Good([H EXCEPT ![t] = T], [c EXCEPT ![n] = b], [l EXCEPT ![n] = Len(T.ci)], X)
<1> DEFINE U == H[t]
           d == [c EXCEPT ![n] = b]
           k == [l EXCEPT ![n] = Len(T.ci)]
           q == n - 1
<1>1. /\ n \in Nat /\ n >= 1 /\ c \in Seq(Acts) /\ l \in Seq(Nat) /\ Len(l) = n /\ t \in Threads
      /\ U.nCcalls = Count(c, n) /\ Len(U.ci) = l[n] /\ l[n] \in Nat /\ Count(c, n) \in Nat
      /\ t = Main => U.baseCcalls = 0
      /\ c[n] \in Acts
  BY TopFacts, SMTT(30)
<1>2. Stacked(c) /\ Leveled(c, l) /\ TopBounded(c)
  BY DEF Good
<1>3. n # 1
  BY <1>2 DEF Stacked, A
<1>4. n \in 2..Len(c) /\ q \in 1..Len(c) /\ q \in Nat /\ n = q + 1 /\ n \in 1..Len(c)
  BY <1>1, <1>3, SMTT(30)
<1>5. Fits(c, n) /\ Level(c, l, n) /\ l[q] \in Nat /\ l[q] >= 1
  BY ONLY <1>1, <1>2, <1>4, SMTT(30) DEF Stacked, Leveled
<1>6. Width(b) \in Nat /\ Width(c[n]) \in Nat
  BY ONLY <1>1, ActType
<1>7. m = l[q] /\ c[q].t = t /\ Len(T.ci) \in Nat /\ Len(T.ci) >= l[q]
  <2>1. c[n].k # "resume" /\ n - 1 = q
    BY SMTT(30)
  <2>2. c[q].t = t
    BY <1>5, <2>1 DEF Fits
  <2>3. l[n] = l[q] + Width(c[n])
    BY ONLY <1>5, <2>1 DEF Level
  <2>4. Len(U.ci) = l[n] /\ l[n] \in Nat
    BY ONLY <1>1
  <2>5. l[q] \in Nat /\ Width(c[n]) \in Nat /\ Width(b) \in Nat
    BY ONLY <1>5, <1>6
  <2> HIDE DEF q
  <2>6. m = l[q]
    BY <2>3, <2>4, <2>5, SMTT(30)
  <2>7. Len(T.ci) \in Nat /\ Len(T.ci) >= l[q]
    BY <2>5, <2>6
  <2>8. QED BY ONLY <2>2, <2>6, <2>7 DEF q
<1>8. /\ d \in Seq(Acts) /\ k \in Seq(Nat) /\ Len(d) = n /\ Len(k) = n /\ d[n] = b /\ k[n] = Len(T.ci)
      /\ \A j \in 1..q : d[j] = c[j] /\ k[j] = l[j]
  BY <1>1, <1>4, <1>7, SMTT(30)
<1> HIDE DEF d, k
<1>9. Count(d, n) = Count(c, n)
  <2>1. \A j \in 1..n : j \in 1..q \/ j = n
    BY ONLY <1>1
  <2>2. \A j \in 1..n : d[j].k = c[j].k
    BY <1>8, <2>1, SMTT(30)
  <2>3. n \in Nat
    BY ONLY <1>1
  <2>4. QED BY ONLY <2>2, <2>3, CountPrefix
<1>10. \A j \in 1..q : c[j].t = t => Kept(T, U, l[j]) /\ l[j] <= k[Len(d)]
  <2> SUFFICES ASSUME NEW j \in 1..q, c[j].t = t PROVE Kept(T, U, l[j]) /\ l[j] <= l[q]
    <3>1. k[Len(d)] = Len(T.ci) /\ \A j \in 1..q : l[j] \in Nat
      BY ONLY <1>1, <1>4, <1>8
    <3>2. Len(T.ci) \in Nat /\ l[q] \in Nat /\ Len(T.ci) >= l[q]
      BY ONLY <1>5, <1>7
    <3>3. QED BY <3>1, <3>2, SMTT(30)
  <2>1. j \in 1..Len(c) /\ q \in 1..Len(c) /\ j <= q
    BY ONLY <1>4
  <2>2. l[j] <= l[q] /\ l[j] \in Nat
    <3>1. l[j] \in Nat
      BY ONLY <1>1, <2>1, SMTT(30)
    <3>2. \A i, r \in 1..Len(c) : i <= r /\ c[i].t = c[r].t => l[i] <= l[r]
      BY ONLY <1>2 DEF Leveled
    <3>3. c[j].t = c[q].t
      BY <1>7, SMTT(30)
    <3>4. QED BY ONLY <2>1, <3>1, <3>2, <3>3
  <2>3. U.status = "ok"
    <3>1. c[n].k # "resume"
      OBVIOUS
    <3>2. QED BY <3>1, TopFacts, SMTT(30)
  <2>4. m = l[q] /\ l[q] \in Nat
    BY ONLY <1>5, <1>7
  <2> HIDE DEF q, U
  <2>5. Kept(T, U, l[j])
    <3>1. T.baseCcalls = U.baseCcalls /\ \A p \in 1..m : T.ci[p].kind = U.ci[p].kind
      BY DEF Continues, U
    <3>2. \A p \in 1..l[j] : p \in 1..m
      BY ONLY <2>2, <2>4
    <3>3. QED BY <2>3, <3>1, <3>2, Zenon DEF Kept
  <2>6. QED BY ONLY <2>2, <2>5, SMTT(30) DEF q, U
<1>11. OnTop(T, d, k, n)
  <2>1. d[n] = b /\ d[n - 1] = c[n - 1] /\ k[n - 1] = l[n - 1]
    BY ONLY <1>4, <1>8, SMTT(30)
  <2>2. Fits(d, n)
    BY <1>5, <2>1, SMTT(30) DEF Fits
  <2>3. Level(d, k, n) /\ k[n] >= 1
    BY <1>4, <1>5, <1>7, <1>8, SMTT(30) DEF Level
  <2>4. Saved(d, k, n) /\ Bounded(d, n) /\ d[n].k # "resume"
    BY <2>1 DEF Saved, Bounded
  <2>5. \A p \in (k[n] - Width(d[n]) + 1)..k[n] : T.ci[p].kind = KindOf(d[n])
    <3>1. Len(T.ci) - Width(b) = m
      BY <1>6
    <3>2. QED BY <1>8, <3>1
  <2>6. QED BY <2>2, <2>3, <2>4, <2>5, ZenonT(30) DEF OnTop
<1>12. TopBounded(d)
  BY <1>2, <1>8, <1>9 DEF TopBounded
<1>13. t = Main => T.baseCcalls = 0
  BY <1>1 DEF Continues
<1>14. /\ T.nCcalls = Count(d, Len(d)) /\ Len(T.ci) = k[Len(d)] /\ d[Len(d)].t = t
       /\ Len(d) \in {q, q + 1} /\ Len(k) = Len(d) /\ n = q + 1
       /\ \A j \in (q + 1)..Len(c) : c[j].t = t
  BY <1>1, <1>4, <1>8, <1>9
<1>15. Replaces(H, c, l, t, T, d, k, q)
  BY <1>8, <1>10, <1>11, <1>12, <1>13, <1>14, Zenon DEF Replaces, Continues
<1>16. QED BY <1>1, <1>4, <1>15, ReplaceKeeps, ZenonT(30) DEF d, k

--------------------------------------------------------------------------------
(* A thread leaves the C stack, or changes beside it *)

LEMMA PrefixStack ==
  ASSUME NEW H, NEW c, NEW l, NEW X, Good(H, c, l, X), NEW q \in 1..Len(c)
  PROVE  /\ Stacked(Prefix(c, q)) /\ Leveled(Prefix(c, q), Prefix(l, q))
         /\ Remembered(Prefix(c, q), Prefix(l, q))
         /\ Prefix(c, q) \in Seq(Acts) /\ Prefix(l, q) \in Seq(Nat)
         /\ Len(Prefix(c, q)) = q /\ Len(Prefix(l, q)) = q /\ q \in Nat
         /\ \A j \in 1..q : /\ Prefix(c, q)[j] = c[j] /\ Prefix(l, q)[j] = l[j]
                            /\ Count(Prefix(c, q), j) = Count(c, j) /\ j \in 1..Len(c)
<1> DEFINE d == Prefix(c, q)
           k == Prefix(l, q)
<1>1. /\ Stacked(c) /\ Leveled(c, l) /\ Remembered(c, l) /\ c \in Seq(Acts) /\ l \in Seq(Nat)
      /\ Len(l) = Len(c) /\ Len(c) \in Nat /\ Len(c) >= 1 /\ q \in Nat /\ 1 \in 1..q
  BY DEF Good, Stacked, Leveled
<1>2. d \in Seq(Acts) /\ k \in Seq(Nat) /\ Len(d) = q /\ Len(k) = q
  BY <1>1 DEF Prefix
<1>3. \A j \in 1..q : d[j] = c[j] /\ k[j] = l[j]
  BY <1>1 DEF Prefix
<1>4. \A i \in 1..q : /\ Count(d, i) = Count(c, i)
                      /\ Saved(c, l, i) => Saved(d, k, i)
                      /\ Bounded(c, i) => Bounded(d, i)
                      /\ i # 1 /\ Fits(c, i) => Fits(d, i)
                      /\ i # 1 /\ Level(c, l, i) => Level(d, k, i)
  <2>1. q \in Nat
    BY <1>1
  <2>2. QED BY ONLY <1>3, <2>1, ReplacePrefix
<1>5. \A i \in 1..q : i \in 1..Len(c) /\ (i # 1 => i \in 2..Len(c))
  BY <1>1
<1>6. \A i \in 1..q : Saved(d, k, i) /\ Bounded(d, i) /\ k[i] >= 1
  BY <1>1, <1>3, <1>4, <1>5 DEF Remembered, Leveled
<1>7. \A i \in 2..q : Fits(d, i) /\ Level(d, k, i)
  <2> TAKE i \in 2..q
  <2>1. i \in 1..q /\ i # 1 /\ i \in 2..Len(c)
    BY <1>1
  <2>2. Fits(c, i) /\ Level(c, l, i)
    BY <1>1, <2>1 DEF Stacked, Leveled
  <2>3. QED BY <1>4, <2>1, <2>2
<1>8. d[1] = A("host", Main) /\ k[1] = 1
  BY <1>1, <1>3 DEF Stacked, Leveled
<1>9. \A i, j \in 1..q : i <= j /\ d[i].t = d[j].t => k[i] <= k[j]
  BY <1>1, <1>3, <1>5 DEF Leveled
<1>10. Stacked(d)
  BY <1>1, <1>2, <1>7, <1>8 DEF Stacked
<1>11. Leveled(d, k)
  BY <1>2, <1>6, <1>7, <1>8, <1>9 DEF Leveled
<1>12. Remembered(d, k)
  BY <1>2, <1>6 DEF Remembered
<1>13. QED BY <1>1, <1>2, <1>3, <1>4, <1>5, <1>10, <1>11, <1>12

\* The threads below t stay as they are when the part of t is cut to the q-th.
LEMMA BelowAgrees ==
  ASSUME NEW H, NEW c, NEW l, NEW X, Good(H, c, l, X), NEW q \in 1..Len(c), NEW t, t = c[Len(c)].t,
         \A j \in (q + 1)..Len(c) : c[j].t = t,
         NEW i \in 1..q, c[i].t # t
  PROVE  /\ Agrees(H[c[i].t], Prefix(c, q), Prefix(l, q), i)
         /\ AgreesAtLast(H[c[i].t], Prefix(c, q), Prefix(l, q), i)
<1> DEFINE U == H[c[i].t]
           d == Prefix(c, q)
           k == Prefix(l, q)
<1>1. /\ q \in Nat /\ Len(d) = q /\ \A j \in 1..q : d[j] = c[j] /\ k[j] = l[j]
      /\ Count(d, i) = Count(c, i) /\ i \in 1..Len(c) /\ Len(c) \in Nat
  <2>1. /\ q \in Nat /\ Len(d) = q
        /\ \A j \in 1..q : d[j] = c[j] /\ k[j] = l[j] /\ Count(d, j) = Count(c, j) /\ j \in 1..Len(c)
    BY PrefixStack
  <2>2. Len(c) \in Nat
    BY DEF Good, Stacked
  <2>3. QED BY <2>1, <2>2
<1>2. Agrees(U, c, l, i) /\ AgreesAtLast(U, c, l, i)
  BY <1>1 DEF Good, Agreed
<1>3. U.status = "ok"
  BY <1>2 DEF Agrees
<1>4. d[i] = c[i] /\ k[i] = l[i]
  BY <1>1
<1>5. Agrees(U, d, k, i)
  BY <1>1, <1>2, <1>3, <1>4 DEF Agrees
<1>6. ASSUME IsLast(d, i) PROVE IsLast(c, i)
  <2>1. \A j \in (i + 1)..Len(c) : j \in (q + 1)..Len(c) \/ (j \in 1..q /\ j \in (i + 1)..q)
    BY <1>1
  <2>2. \A j \in (i + 1)..q : d[j].t # d[i].t
    BY <1>1, <1>6 DEF IsLast
  <2>3. \A j \in (i + 1)..Len(c) : c[j].t # c[i].t
    BY <1>1, <1>4, <2>1, <2>2
  <2>4. QED BY <2>3 DEF IsLast
<1>7. AgreesAtLast(U, d, k, i)
  BY <1>1, <1>2, <1>4, <1>6 DEF AgreesAtLast
<1>8. QED BY <1>5, <1>7

\* Who is on the C stack when the part of t is cut.
LEMMA CutOnStack ==
  ASSUME NEW c, c \in Seq(Acts), NEW q \in 1..Len(c), NEW t,
         \A j \in (q + 1)..Len(c) : c[j].t = t, NEW u, u # t, ~OnStack(Prefix(c, q), u)
  PROVE  ~OnStack(c, u)
<1> DEFINE d == Prefix(c, q)
<1>1. /\ DOMAIN d = 1..q /\ DOMAIN c = 1..Len(c) /\ Len(c) \in Nat /\ q \in Nat
      /\ \A j \in 1..q : d[j] = c[j]
  BY DEF Prefix
<1>2. \A j \in 1..q : c[j].t # u
  BY <1>1 DEF OnStack
<1>3. \A j \in 1..Len(c) : j \in 1..q \/ j \in (q + 1)..Len(c)
  BY <1>1
<1>4. \A j \in 1..Len(c) : c[j].t # u
  BY <1>2, <1>3
<1>5. QED BY <1>1, <1>4 DEF OnStack

LEMMA LeaveKeeps ==
  ASSUME NEW H, NEW c, NEW l, NEW X, Good(H, c, l, X), NEW r \in 2..Len(c), c[r].k = "resume",
         NEW t, t = c[r].t, t = c[Len(c)].t, NEW T, ThreadOK(T), NEW Y, OffOK(T, t \in Y),
         \A u \in Threads \ {t} : u \in X <=> u \in Y
  PROVE  Good([H EXCEPT ![t] = T], Prefix(c, r - 1), Prefix(l, r - 1), Y)
<1> DEFINE q == r - 1
           d == Prefix(c, q)
           k == Prefix(l, q)
           G == [H EXCEPT ![t] = T]
<1>1. Threaded(H) /\ Stacked(c) /\ Suspended(H, c, X) /\ Remembered(c, l)
  BY DEF Good
<1>2. /\ q \in 1..Len(c) /\ q \in Nat /\ r = q + 1 /\ r \in 1..Len(c) /\ Len(c) \in Nat /\ c \in Seq(Acts)
      /\ Len(c) \in 1..Len(c)
  BY <1>1 DEF Stacked
<1>3. t \in Threads /\ t # Main /\ \A j \in 1..q : c[j].t # t
  <2>1. Fits(c, r)
    BY <1>1 DEF Stacked
  <2>2. c[r] \in Acts
    BY <1>2
  <2>3. QED BY <1>2, <2>1, <2>2, ActType DEF Fits
<1>4. \A j \in (q + 1)..Len(c) : c[j].t = t
  <2>1. \A j \in r..Len(c) : c[j].t = c[r].t
    <3>1. r \in 1..Len(c) /\ c[r].t = c[Len(c)].t
      BY <1>2
    <3>2. QED BY <1>1, <1>2, <3>1, InOnePiece
  <2>2. QED BY <1>2, <2>1
<1>5. /\ Stacked(d) /\ Leveled(d, k) /\ Remembered(d, k) /\ Len(d) = q
      /\ \A j \in 1..q : d[j] = c[j] /\ Count(d, j) = Count(c, j)
  BY <1>2, PrefixStack
<1>6. Threaded(G)
  <2>1. T \in lua_State
    BY DEF ThreadOK
  <2>2. QED BY <1>1, <1>3, <2>1 DEF Threaded
<1>7. Agreed(G, d, k)
  <2>1. ASSUME NEW i \in 1..q PROVE Agrees(G[d[i].t], d, k, i) /\ AgreesAtLast(G[d[i].t], d, k, i)
    <3>1. d[i] = c[i] /\ c[i].t # t
      BY <1>3, <1>5
    <3>2. Agrees(H[c[i].t], d, k, i) /\ AgreesAtLast(H[c[i].t], d, k, i)
      BY <1>2, <1>4, <3>1, BelowAgrees
    <3>3. c[i].t \in Threads
      <4>1. c[i] \in Acts
        BY <1>2
      <4>2. QED BY <4>1, ActType
    <3>4. G[d[i].t] = H[c[i].t]
      BY <1>1, <3>1, <3>3 DEF Threaded
    <3>5. QED BY <3>2, <3>4
  <2>2. QED BY <1>5, <2>1 DEF Agreed
<1>8. Suspended(G, d, Y)
  <2>1. ASSUME NEW u \in Threads, ~OnStack(d, u) PROVE OffOK(G[u], u \in Y)
    <3>1. CASE u = t
      <4>1. G[t] = T
        BY <1>1, <1>3 DEF Threaded
      <4>2. QED BY <3>1, <4>1
    <3>2. CASE u # t
      <4>1. ~OnStack(c, u)
        BY <1>2, <1>4, <2>1, <3>2, CutOnStack
      <4>2. OffOK(H[u], u \in X)
        BY <1>1, <4>1 DEF Suspended
      <4>3. G[u] = H[u]
        BY <1>1, <3>2 DEF Threaded
      <4>4. (u \in X) = (u \in Y)
        BY <3>2
      <4>5. QED BY <4>2, <4>3, <4>4 DEF OffOK
    <3>3. QED BY <3>1, <3>2
  <2>2. QED BY <2>1 DEF Suspended
<1>9. TopBounded(d)
  <2>1. Count(c, r) < Limit
    BY <1>1, <1>2 DEF Remembered, Bounded
  <2>2. Count(c, q) <= Count(c, r) /\ Count(c, q) \in Nat /\ Count(c, r) \in Nat /\ Limit \in Nat
    <3>1. Limit \in Nat
      BY BoundsAssumption DEF Limit
    <3>2. q \in Nat /\ r \in Nat /\ q <= r
      BY <1>2
    <3>3. QED BY <3>1, <3>2, CountGrows, CountFinite
  <2>3. Count(d, Len(d)) < Limit /\ Count(d, Len(d)) <= Limit
    <3>1. q \in 1..q
      BY <1>2
    <3>2. Count(d, Len(d)) = Count(c, q)
      BY <1>5, <3>1
    <3>3. QED BY <2>1, <2>2, <3>2
  <2>4. QED BY <2>3 DEF TopBounded
<1>10. QED BY <1>5, <1>6, <1>7, <1>8, <1>9 DEF Good

\* A thread changes what the C stack does not tell.
LEMMA AsideKeeps ==
  ASSUME NEW H, NEW c, NEW l, NEW X, Good(H, c, l, X), NEW co \in Threads, NEW T, ThreadOK(T),
         T.baseCcalls = H[co].baseCcalls,
         OnStack(c, co) => /\ T.status = H[co].status /\ T.ci = H[co].ci /\ T.nCcalls = H[co].nCcalls
                           /\ T.life = H[co].life,
         NEW Y, ~OnStack(c, co) => OffOK(T, co \in Y),
         \A u \in Threads \ {co} : u \in X <=> u \in Y
  PROVE  Good([H EXCEPT ![co] = T], c, l, Y)
<1> DEFINE G == [H EXCEPT ![co] = T]
<1>1. Threaded(H) /\ Stacked(c) /\ Agreed(H, c, l) /\ Suspended(H, c, X)
  BY DEF Good
<1>2. G[co] = T /\ \A u \in Threads \ {co} : G[u] = H[u]
  BY <1>1 DEF Threaded
<1>3. Threaded(G)
  <2>1. T \in lua_State
    BY DEF ThreadOK
  <2>2. QED BY <1>1, <2>1 DEF Threaded
<1>4. Agreed(G, c, l)
  <2>1. ASSUME NEW i \in 1..Len(c) PROVE Agrees(G[c[i].t], c, l, i) /\ AgreesAtLast(G[c[i].t], c, l, i)
    <3>1. Agrees(H[c[i].t], c, l, i) /\ AgreesAtLast(H[c[i].t], c, l, i)
      BY <1>1 DEF Agreed
    <3>2. c[i].t \in Threads
      <4>1. c[i] \in Acts
        BY <1>1 DEF Stacked
      <4>2. QED BY <4>1, ActType
    <3>3. CASE c[i].t # co
      BY <1>2, <3>1, <3>2, <3>3
    <3>4. CASE c[i].t = co
      <4>1. OnStack(c, co)
        BY <1>1, <3>4 DEF OnStack, Stacked
      <4>2. Agrees(T, c, l, i)
        BY <3>1, <3>4, <4>1 DEF Agrees
      <4>3. AgreesAtLast(T, c, l, i)
        BY <3>1, <3>4, <4>1 DEF AgreesAtLast
      <4>4. QED BY <1>2, <3>4, <4>2, <4>3
    <3>5. QED BY <3>3, <3>4
  <2>2. QED BY <2>1 DEF Agreed
<1>5. Suspended(G, c, Y)
  <2>1. ASSUME NEW u \in Threads, ~OnStack(c, u) PROVE OffOK(G[u], u \in Y)
    <3>1. CASE u = co
      BY <1>2, <2>1, <3>1
    <3>2. CASE u # co
      <4>1. OffOK(H[u], u \in X)
        BY <1>1, <2>1 DEF Suspended
      <4>2. G[u] = H[u] /\ (u \in X) = (u \in Y)
        BY <1>2, <3>2
      <4>3. QED BY <4>1, <4>2 DEF OffOK
    <3>3. QED BY <3>1, <3>2
  <2>2. QED BY <2>1 DEF Suspended
<1>6. QED BY <1>3, <1>4, <1>5 DEF Good

\* A thread of the C stack was resumed, unless it is the main one.
LEMMA Resumed ==
  ASSUME NEW H, NEW c, NEW l, NEW X, Good(H, c, l, X), NEW i \in 1..Len(c)
  PROVE  \E r \in 0..i :
           /\ r = 0 => H[c[i].t].baseCcalls = 0
           /\ r > 0 => c[r].k = "resume" /\ c[r].t = c[i].t /\ H[c[i].t].baseCcalls = Count(c, r)
<1> DEFINE t == c[i].t
           S == {j \in Nat : j \in 1..i /\ c[j].t = t}
<1>1. Threaded(H) /\ Stacked(c) /\ Agreed(H, c, l) /\ Len(c) \in Nat
  BY DEF Good, Stacked
<1>2. S # {} /\ S \in SUBSET Nat
  <2>1. i \in S
    BY <1>1
  <2>2. QED BY <2>1
<1>3. PICK r \in S : \A j \in S : ~(<<j, r>> \in OpToRel(<, Nat))
  BY <1>2, WFMin, NatLessThanWellFounded, Zenon
<1>4. r \in 1..i /\ c[r].t = t /\ r \in 1..Len(c)
  <2>1. r \in S
    BY <1>3, Zenon
  <2>2. r \in 1..i /\ c[r].t = t
    BY <2>1
  <2>3. QED BY <1>1, <2>2
<1>5. \A j \in S : ~(j < r)
  BY <1>3 DEF OpToRel
<1>6. CASE r = 1
  <2>1. t = Main
    BY <1>1, <1>4, <1>6 DEF Stacked, A
  <2>2. H[t].baseCcalls = 0
    BY <1>1, <2>1 DEF Threaded
  <2>3. 0 \in 0..i
    BY <1>1
  <2>4. QED BY <2>2, <2>3
<1>7. CASE r # 1
  <2>1. r \in 2..Len(c) /\ r - 1 \in 1..i /\ r - 1 < r /\ r - 1 \in Nat
    BY <1>1, <1>4, <1>7
  <2>2. c[r - 1].t # t
    BY <1>5, <2>1
  <2>3. Fits(c, r)
    BY <1>1, <2>1 DEF Stacked
  <2>4. c[r].k = "resume"
    BY <1>4, <2>2, <2>3 DEF Fits
  <2>5. H[t].baseCcalls = Count(c, r)
    BY <1>1, <1>4, <2>4 DEF Agreed, Agrees
  <2>6. r \in 0..i /\ r > 0
    BY <1>1, <2>1
  <2>7. QED BY <1>4, <2>4, <2>5, <2>6
<1>8. QED BY <1>6, <1>7

\* lua_yield between the resume of a coroutine and its C function.
LEMMA YieldKeeps ==
  ASSUME NEW H, NEW c, NEW l, NEW X, Good(H, c, l, X), NEW n, n = Len(c), NEW t, t = c[n].t,
         c[n].k = "cfun", H[t].nCcalls <= H[t].baseCcalls, NEW T, T = [H[t] EXCEPT !.status = "yield"]
  PROVE  /\ n - 2 \in 1..n /\ c[n - 2].k = "resume"
         /\ Good([H EXCEPT ![t] = T], Prefix(c, n - 2), Prefix(l, n - 2), X)
<1> DEFINE U == H[t]
           q == n - 2
           d == Prefix(c, q)
           k == Prefix(l, q)
           G == [H EXCEPT ![t] = T]
<1> HIDE DEF d, k, G
<1>1. /\ n \in Nat /\ n >= 1 /\ c \in Seq(Acts) /\ c[n] \in Acts /\ t \in Threads
      /\ l \in Seq(Nat) /\ Len(l) = n /\ l[n] \in Nat /\ Count(c, n) \in Nat
      /\ H \in [Threads -> lua_State] /\ ThreadOK(U) /\ U.life = "started"
      /\ U.nCcalls = Count(c, n) /\ U.status = "ok" /\ Len(U.ci) = l[n]
  BY TopFacts
<1>2. Threaded(H) /\ Stacked(c) /\ Leveled(c, l) /\ Agreed(H, c, l) /\ Suspended(H, c, X) /\ TopBounded(c)
  BY DEF Good
<1>3. PICK r \in 0..n : /\ r = 0 => U.baseCcalls = 0
                        /\ r > 0 => c[r].k = "resume" /\ c[r].t = t /\ U.baseCcalls = Count(c, r)
  <2>1. n \in 1..Len(c)
    BY <1>1
  <2>2. QED BY <2>1, Resumed
<1>4. ASSUME NEW m \in 1..n, r < m, c[m].k = "call" PROVE FALSE
  <2>1. m \in Nat /\ m - 1 \in Nat /\ r \in Nat /\ (m - 1) + 1 = m /\ r <= m - 1 /\ m <= n
    BY ONLY <1>1, <1>4
  <2>2. Count(c, m) = Count(c, m - 1) + 1
    BY ONLY <1>4, <2>1, CountNext
  <2>3. Count(c, r) <= Count(c, m - 1) /\ Count(c, m) <= Count(c, n)
    BY ONLY <1>1, <2>1, CountGrows
  <2>4. Count(c, r) \in Nat /\ Count(c, m - 1) \in Nat /\ Count(c, m) \in Nat
    BY ONLY <2>1, CountFinite
  <2>5. U.baseCcalls <= Count(c, m - 1)
    BY ONLY <1>3, <2>1, <2>3, <2>4
  <2>6. U.baseCcalls \in Int
    BY ONLY <1>1 DEF ThreadOK, lua_State
  <2>7. QED BY <1>1, <2>2, <2>3, <2>4, <2>5, <2>6, SMTT(30)
<1>5. n # 1 /\ r # n
  BY <1>2, <1>3, <1>1 DEF Stacked, A
<1>6. n \in 2..Len(c) /\ n - 1 \in 1..n /\ n - 1 \in Nat
  BY <1>1, <1>5
<1>7. Fits(c, n) /\ c[n - 1].k \in {"call", "exec"} /\ c[n - 1].t = t
  BY <1>2, <1>6 DEF Stacked, Fits
<1>8. r # n - 1
  BY ONLY <1>3, <1>6, <1>7
<1>9. r < n - 1
  BY ONLY <1>1, <1>3, <1>5, <1>8
<1>10. c[n - 1].k = "exec"
  BY ONLY <1>4, <1>6, <1>7, <1>9
<1>11. n - 1 # 1
  BY ONLY <1>2, <1>10 DEF Stacked, A
<1>12. n - 1 \in 2..Len(c) /\ (n - 1) - 1 = q /\ q \in 1..n /\ q \in Nat /\ q \in 1..Len(c) /\ q <= n
  BY ONLY <1>1, <1>6, <1>11, SMTT(30)
<1>13. Fits(c, n - 1) /\ c[q].k \in {"call", "resume"} /\ c[q].t = t
  <2>1. Fits(c, n - 1)
    BY ONLY <1>2, <1>12 DEF Stacked
  <2>2. QED BY ONLY <1>7, <1>10, <1>12, <2>1 DEF Fits
<1>14. c[q].k = "resume"
  <2>1. SUFFICES ASSUME c[q].k = "call" PROVE FALSE
    BY <1>13
  <2>2. r # q
    BY ONLY <1>3, <1>12, <2>1
  <2>3. r < q
    BY ONLY <1>1, <1>3, <1>9, <1>12, <2>2
  <2>4. QED BY ONLY <1>4, <1>12, <2>1, <2>3
<1>15. Count(c, n) = Count(c, q)
  <2>1. Count(c, q + 1) = Count(c, q) + 0 /\ q + 1 = n - 1
    <3>1. q + 1 = n - 1
      BY ONLY <1>1
    <3>2. c[q + 1].k = "exec"
      BY ONLY <1>10, <3>1
    <3>3. QED BY ONLY <1>12, <3>1, <3>2, CountNext
  <2>2. Count(c, (n - 1) + 1) = Count(c, n - 1) + 0 /\ (n - 1) + 1 = n
    <3>1. (n - 1) + 1 = n
      BY ONLY <1>1
    <3>2. c[(n - 1) + 1].k = "cfun"
      BY <3>1
    <3>3. QED BY ONLY <1>6, <3>1, <3>2, CountNext
  <2>3. Count(c, q) \in Nat
    BY ONLY <1>12, CountFinite
  <2>4. QED BY ONLY <2>1, <2>2, <2>3
\* Its frames are the host's, the Lua functions of the luaV_execute and the C function.
<1>16. DEFINE w == c[n - 1].n
<1>17. w \in Nat /\ w >= 1 /\ l[q] = 1 /\ l[n - 1] = 1 + w /\ l[n] = 2 + w
  <2>1. Level(c, l, n) /\ Level(c, l, n - 1)
    BY ONLY <1>2, <1>6, <1>12 DEF Leveled
  <2>2. w \in Nat /\ w >= 1
    <3>1. c[n - 1] \in Acts
      BY ONLY <1>1, <1>6
    <3>2. QED BY ONLY <1>10, <3>1, ActType
  <2>3. l[q] = 1
    <3>1. q # 1
      BY ONLY <1>2, <1>14 DEF Stacked, A
    <3>2. q \in 2..Len(c)
      BY <1>12, <3>1
    <3>3. Level(c, l, q)
      BY ONLY <1>2, <3>2 DEF Leveled
    <3>4. QED BY ONLY <1>14, <3>3 DEF Level, Width
  <2>4. l[n - 1] = l[q] + w
    BY ONLY <1>10, <1>12, <2>1 DEF Level, Width
  <2>5. l[n] = l[n - 1] + 1
    BY <2>1 DEF Level, Width
  <2>6. QED BY ONLY <2>2, <2>3, <2>4, <2>5
<1>18. ThreadOK(T)
  <2>1. U.ci[l[n]].kind = "C"
    <3>1. Agrees(U, c, l, n)
      BY <1>1, <1>2 DEF Agreed
    <3>2. l[n] \in (l[n] - 1 + 1)..l[n]
      BY ONLY <1>1
    <3>3. QED BY <1>1, <3>1, <3>2 DEF Agrees, Width, KindOf
  <2>2. \A p \in 2..(1 + w) : U.ci[p].kind = "lua"
    <3>1. Agrees(H[c[n - 1].t], c, l, n - 1)
      BY ONLY <1>1, <1>2, <1>6 DEF Agreed
    <3>2. Width(c[n - 1]) = w /\ KindOf(c[n - 1]) = "lua"
      BY ONLY <1>10 DEF Width, KindOf
    <3>3. \A p \in (l[n - 1] - w + 1)..l[n - 1] : U.ci[p].kind = "lua"
      BY ONLY <1>1, <1>7, <3>1, <3>2 DEF Agrees
    <3>4. (l[n - 1] - w + 1)..l[n - 1] = 2..(1 + w)
      <4> HIDE DEF w
      <4>1. QED BY ONLY <1>17
    <3>5. QED BY <3>3, <3>4, Zenon
  <2>3. /\ T.ci = U.ci /\ T.open = U.open /\ T \in lua_State /\ U \in lua_State
    BY <1>1, ZenonT(30) DEF ThreadOK, lua_State
  <2>4. Len(U.ci) = 2 + w
    BY ONLY <1>1, <1>17
  <2>5. Len(U.ci) >= 3 /\ U.ci[Len(U.ci)].kind = "C" /\ \A p \in 2..(Len(U.ci) - 1) : U.ci[p].kind = "lua"
    <3> HIDE DEF w, U
    <3>1. Len(U.ci) = l[n] /\ l[n] = 2 + w /\ w \in Nat /\ w >= 1 /\ Len(U.ci) - 1 = 1 + w
      BY ONLY <1>1, <1>17
    <3>2. U.ci[Len(U.ci)].kind = "C"
      BY ONLY <2>1, <3>1
    <3>3. \A p \in 2..(Len(U.ci) - 1) : U.ci[p].kind = "lua"
      <4>1. SUFFICES ASSUME NEW p \in 2..(Len(U.ci) - 1) PROVE U.ci[p].kind = "lua"
        OBVIOUS
      <4>2. p \in 2..(1 + w)
        BY ONLY <3>1
      <4>3. QED BY ONLY <2>2, <4>2
    <3>4. QED BY ONLY <3>1, <3>2, <3>3
  <2>6. /\ \A p \in DOMAIN U.ci : U.ci[p].base = 2 * p - 1
        /\ \A y \in U.open : \E p \in DOMAIN U.ci : y = 2 * p - 1 /\ U.ci[p].kind = "lua"
        /\ Len(U.ci) >= 1
    BY ONLY <1>1, SMTT(30) DEF ThreadOK
  <2>7. QED
    <3> HIDE DEF U
    <3>1. /\ T \in lua_State /\ Len(T.ci) >= 1
          /\ \A p \in DOMAIN T.ci : T.ci[p].base = 2 * p - 1
          /\ \A x \in T.open : \E p \in DOMAIN T.ci : x = 2 * p - 1 /\ T.ci[p].kind = "lua"
      BY ONLY <2>3, <2>6, Zenon
    <3>2. /\ Len(T.ci) >= 3 /\ T.ci[Len(T.ci)].kind = "C"
          /\ \A p \in 2..(Len(T.ci) - 1) : T.ci[p].kind = "lua"
      BY ONLY <2>3, <2>5, Zenon
    <3>3. QED BY ONLY <3>1, <3>2, Zenon DEF ThreadOK
<1>19. T.status = "yield" /\ T.life = "started" /\ T.baseCcalls = U.baseCcalls /\ T.nCcalls = U.nCcalls
  BY <1>1 DEF ThreadOK, lua_State
<1>20. \A j \in (q + 1)..Len(c) : c[j].t = t
  <2>1. \A j \in (q + 1)..Len(c) : j = n \/ j = n - 1
    BY ONLY <1>1, n = Len(c)
  <2>2. QED BY <1>7, <2>1
<1>21. /\ Stacked(d) /\ Leveled(d, k) /\ Remembered(d, k) /\ Len(d) = q /\ q \in 1..q
       /\ \A j \in 1..q : /\ d[j] = c[j] /\ k[j] = l[j] /\ Count(d, j) = Count(c, j)
                          /\ j \in 1..Len(c)
  <2>1. q \in 1..q
    BY ONLY <1>12
  <2>2. q \in 1..Len(c)
    BY ONLY <1>12
  <2>3. /\ Stacked(d) /\ Leveled(d, k) /\ Remembered(d, k) /\ Len(d) = q
        /\ \A j \in 1..q : /\ d[j] = c[j] /\ k[j] = l[j] /\ Count(d, j) = Count(c, j)
                           /\ j \in 1..Len(c)
    <3>1. Good(H, c, l, X)
      OBVIOUS
    <3> HIDE DEF q
    <3>2. QED BY ONLY <2>2, <3>1, PrefixStack DEF d, k
  <2>4. QED BY ONLY <2>1, <2>3
<1>22. G[t] = T /\ \A u \in Threads \ {t} : G[u] = H[u]
  BY ONLY <1>1 DEF G
<1>23. Threaded(G)
  <2>1. T \in lua_State
    BY ONLY <1>18 DEF ThreadOK
  <2>2. G \in [Threads -> lua_State]
    BY ONLY <1>1, <2>1 DEF G
  <2>3. \A u \in Threads : ThreadOK(G[u])
    BY ONLY <1>2, <1>18, <1>22 DEF Threaded
  <2>4. G[Main].baseCcalls = 0
    BY ONLY <1>2, <1>19, <1>22, ThreadsAssumption DEF Threaded
  <2>5. QED BY ONLY <2>2, <2>3, <2>4 DEF Threaded
<1>24. Agreed(G, d, k)
  <2>1. ASSUME NEW i \in 1..q PROVE Agrees(G[d[i].t], d, k, i) /\ AgreesAtLast(G[d[i].t], d, k, i)
    <3>1. d[i] = c[i] /\ k[i] = l[i] /\ i \in 1..Len(c) /\ Count(d, i) = Count(c, i)
      BY ONLY <1>21
    <3>2. c[i].t \in Threads
      <4>1. c[i] \in Acts
        BY ONLY <1>1, <3>1
      <4>2. QED BY ONLY <4>1, ActType
    <3>3. CASE c[i].t # t
      <4>1. Agrees(H[c[i].t], d, k, i) /\ AgreesAtLast(H[c[i].t], d, k, i)
        BY <1>12, <1>20, <3>3, BelowAgrees DEF d, k
      <4>2. QED BY ONLY <1>22, <3>1, <3>2, <3>3, <4>1
    <3>4. CASE c[i].t = t
      <4>1. G[d[i].t] = T
        BY ONLY <1>22, <3>1, <3>4
      <4>2. Agrees(U, c, l, i)
        BY ONLY <1>2, <3>1, <3>4 DEF Agreed
      <4>3. d[Len(d)] = c[q]
        BY ONLY <1>21
      <4>4. Agrees(T, d, k, i)
        BY ONLY <1>13, <1>14, <1>19, <3>1, <3>4, <4>2, <4>3 DEF Agrees
      <4>5. IsLast(d, i) => i = q
        <5>1. IsLast(d, i) => ~(q \in (i + 1)..Len(d))
          BY ONLY <1>13, <3>1, <3>4, <4>3, <1>21 DEF IsLast
        <5>2. QED BY ONLY <1>12, <1>21, <5>1
      <4>6. AgreesAtLast(T, d, k, i)
        BY ONLY <1>1, <1>15, <1>19, <3>1, <4>5 DEF AgreesAtLast
      <4>7. QED BY ONLY <4>1, <4>4, <4>6
    <3>5. QED BY ONLY <3>3, <3>4
  <2>2. QED BY ONLY <1>21, <2>1 DEF Agreed
<1>25. Suspended(G, d, X)
  <2>1. ASSUME NEW u \in Threads, ~OnStack(d, u) PROVE OffOK(G[u], u \in X)
    <3>1. u # t
      <4>1. DOMAIN d = 1..Len(d)
        BY ONLY <1>21 DEF Stacked
      <4>2. q \in DOMAIN d /\ d[q].t = t
        BY ONLY <1>13, <1>21, <4>1
      <4>3. QED BY <2>1, <4>2, Zenon DEF OnStack
    <3>2. ~OnStack(c, u)
      BY <1>1, <1>12, <1>20, <2>1, <3>1, CutOnStack DEF d
    <3>3. G[u] = H[u]
      BY ONLY <1>22, <3>1
    <3>4. QED BY ONLY <1>2, <3>2, <3>3 DEF Suspended
  <2>2. QED BY ONLY <2>1 DEF Suspended
<1>26. TopBounded(d)
  <2>1. Count(c, n) < Limit /\ Limit \in Nat
    BY <1>2, BoundsAssumption, SMTT(30) DEF TopBounded, Limit
  <2>2. Count(d, Len(d)) = Count(c, n)
    BY ONLY <1>15, <1>21
  <2>3. Count(d, Len(d)) < Limit /\ Count(d, Len(d)) <= Limit
    BY ONLY <1>1, <2>1, <2>2
  <2>4. QED BY ONLY <2>3 DEF TopBounded
<1>27. Good(G, d, k, X)
  BY ONLY <1>21, <1>23, <1>24, <1>25, <1>26 DEF Good
<1>28. QED BY ONLY <1>12, <1>14, <1>27 DEF G, d, k

--------------------------------------------------------------------------------
(* Threads and states *)

LEMMA SameFrames ==
  ASSUME NEW T, ThreadOK(T), NEW U \in lua_State, U.ci = T.ci, U.open \subseteq T.open,
         U.status = "yield" => T.status = "yield"
  PROVE  ThreadOK(U)
BY DEF ThreadOK

LEMMA CutFrames ==
  ASSUME NEW T, ThreadOK(T), NEW n \in 1..Len(T.ci), NEW U \in lua_State, U.ci = SubSeq(T.ci, 1, n),
         U.status # "yield", \A x \in U.open : x \in T.open /\ x < 2 * n
  PROVE  ThreadOK(U) /\ Len(U.ci) = n /\ \A p \in 1..n : U.ci[p].kind = T.ci[p].kind
<1>1. T \in lua_State /\ T.ci \in Seq(CallInfo) /\ Len(T.ci) \in Nat /\ n \in Nat /\ n >= 1
  BY SMTT(30) DEF ThreadOK, lua_State
<1>2. Len(U.ci) = n /\ DOMAIN U.ci = 1..n /\ DOMAIN T.ci = 1..Len(T.ci) /\ \A p \in 1..n : U.ci[p] = T.ci[p]
  BY <1>1
<1>3. \A p \in DOMAIN U.ci : U.ci[p].base = 2 * p - 1
  BY <1>1, <1>2, SMTT(30) DEF ThreadOK
<1>4. \A x \in U.open : \E p \in DOMAIN U.ci : x = 2 * p - 1 /\ U.ci[p].kind = "lua"
  <2> TAKE x \in U.open
  <2>1. x \in T.open /\ x < 2 * n
    OBVIOUS
  <2>2. PICK p \in DOMAIN T.ci : x = 2 * p - 1 /\ T.ci[p].kind = "lua"
    BY <2>1 DEF ThreadOK
  <2>3. p \in 1..n
    BY <1>1, <1>2, <2>1, <2>2
  <2>4. QED BY <1>2, <2>2, <2>3
<1>5. QED BY <1>1, <1>2, <1>3, <1>4 DEF ThreadOK

LEMMA EnterFrame ==
  ASSUME NEW T, ThreadOK(T), T.status = "ok", NEW kind \in {"lua", "C"}, NEW U, U = Enter(T, kind)
  PROVE  /\ ThreadOK(U) /\ U.status = "ok" /\ U.life = T.life /\ U.baseCcalls = T.baseCcalls
         /\ U.nCcalls = T.nCcalls /\ Len(U.ci) = Len(T.ci) + 1 /\ U.ci[Len(U.ci)].kind = kind
         /\ \A p \in 1..Len(T.ci) : U.ci[p].kind = T.ci[p].kind
         /\ U.open = T.open
<1> DEFINE x == [kind |-> kind, base |-> NextBase(T)]
           n == Len(T.ci)
<1>1. T \in lua_State /\ T.ci \in Seq(CallInfo) /\ n \in Nat /\ n >= 1 /\ DOMAIN T.ci = 1..n
  BY DEF ThreadOK, lua_State
<1>2. NextBase(T) = 2 * (n + 1) - 1
  <2>1. T.ci[n].base = 2 * n - 1
    <3>1. n \in DOMAIN T.ci
      BY <1>1
    <3>2. \A p \in DOMAIN T.ci : T.ci[p].base = 2 * p - 1
      BY DEF ThreadOK
    <3> HIDE DEF n
    <3>3. QED BY <3>1, <3>2
  <2>2. NextBase(T) = T.ci[n].base + 2
    BY DEF NextBase, Frame
  <2>3. QED BY <1>1, <2>1, <2>2
<1>3. x \in CallInfo /\ x.base = 2 * (n + 1) - 1 /\ x.kind = kind
  BY <1>1, <1>2 DEF CallInfo
<1>4. U.ci = Append(T.ci, x) /\ U \in lua_State /\ U.status = T.status /\ U.life = T.life
      /\ U.baseCcalls = T.baseCcalls /\ U.nCcalls = T.nCcalls /\ U.open = T.open
  <2>1. U = [T EXCEPT !.ci = Append(@, x)]
    BY DEF Enter
  <2>2. Append(T.ci, x) \in Seq(CallInfo)
    BY <1>1, <1>3
  <2> HIDE DEF x
  <2>3. QED BY <1>1, <2>1, <2>2 DEF lua_State
<1>5. /\ Len(U.ci) = n + 1 /\ U.ci[n + 1] = x /\ \A p \in 1..n : U.ci[p] = T.ci[p]
  BY <1>1, <1>3, <1>4
<1>6. DOMAIN U.ci = 1..(n + 1)
  BY <1>1, <1>3, <1>4
<1>7. \A p \in DOMAIN U.ci : U.ci[p].base = 2 * p - 1
  <2>1. \A p \in 1..(n + 1) : p \in 1..n \/ p = n + 1
    BY <1>1
  <2>2. \A p \in 1..n : T.ci[p].base = 2 * p - 1
    BY <1>1 DEF ThreadOK
  <2>3. QED BY <1>3, <1>5, <1>6, <2>1, <2>2
<1>8. \A y \in U.open : \E p \in DOMAIN U.ci : y = 2 * p - 1 /\ U.ci[p].kind = "lua"
  <2> TAKE y \in U.open
  <2>1. PICK p \in 1..n : y = 2 * p - 1 /\ T.ci[p].kind = "lua"
    BY <1>1, <1>4, ZenonT(30) DEF ThreadOK
  <2>2. p \in DOMAIN U.ci /\ U.ci[p].kind = "lua"
    BY <1>1, <1>5, <1>6, <2>1, SMTT(30)
  <2>3. QED BY <2>1, <2>2
<1>9. ThreadOK(U)
  BY <1>1, <1>4, <1>5, <1>7, <1>8 DEF ThreadOK
<1>10. QED BY <1>1, <1>3, <1>4, <1>5, <1>9

St(H, c) == [th |-> H, cs |-> c]
Throw(t, code) == [k |-> "throw", t |-> t, code |-> code]
Sized(T, z) == [T EXCEPT !.sizeci = z]

LEMMA StOps ==
  ASSUME NEW H, NEW c
  PROVE  /\ St(H, c).th = H /\ St(H, c).cs = c
         /\ \A a : Push(St(H, c), a) = St(H, Append(c, a))
         /\ Pop(St(H, c)) = St(H, Prefix(c, Len(c) - 1))
         /\ \A t : luaG_runerror(St(H, c), t) = St(H, Append(c, A("raise", t)))
         /\ \A t, code : luaD_throw(St(H, c), t, code) = St(H, Append(c, Throw(t, code)))
<1>1. \A a : Push(St(H, c), a) = St(H, Append(c, a))
  BY SMTT(30) DEF Push, St
<1>2. QED BY <1>1, SMTT(30) DEF St, Pop, Prefix, luaG_runerror, luaD_throw, Throw

LEMMA SizedOK ==
  ASSUME NEW T, ThreadOK(T), NEW z \in Nat
  PROVE  /\ ThreadOK(Sized(T, z)) /\ Sized(T, z).status = T.status /\ Sized(T, z).life = T.life
         /\ Sized(T, z).baseCcalls = T.baseCcalls /\ Sized(T, z).nCcalls = T.nCcalls
         /\ Sized(T, z).ci = T.ci /\ Sized(T, z).open = T.open
<1>1. T \in lua_State
  BY DEF ThreadOK
<1>2. /\ Sized(T, z) \in lua_State /\ Sized(T, z).status = T.status /\ Sized(T, z).life = T.life
      /\ Sized(T, z).baseCcalls = T.baseCcalls /\ Sized(T, z).nCcalls = T.nCcalls
      /\ Sized(T, z).ci = T.ci /\ Sized(T, z).open = T.open
  BY <1>1 DEF Sized, lua_State
<1>3. QED BY <1>2, SameFrames

LEMMA EnterFull ==
  ASSUME NEW s, NEW t, NEW kind, NEW a, NEW T, T = s.th[t],
         Len(T.ci) = T.sizeci, T.sizeci > MaxCalls, ~(T.sizeci <= MaxCalls)
  PROVE  EnterCI(s, t, kind, a) = luaD_throw(s, t, "ERRERR")
BY DEF EnterCI

LEMMA EnterOverflow ==
  ASSUME NEW s, NEW t, NEW kind, NEW a, NEW T, T = s.th[t],
         Len(T.ci) = T.sizeci, ~(T.sizeci > MaxCalls), T.sizeci <= MaxCalls, 2 * T.sizeci > MaxCalls
  PROVE  EnterCI(s, t, kind, a) = luaG_runerror([s EXCEPT !.th[t].sizeci = 2 * @], t)
BY DEF EnterCI

LEMMA EnterRoom ==
  ASSUME NEW s, NEW t, NEW kind, NEW a, NEW T, T = s.th[t], Len(T.ci) # T.sizeci
  PROVE  EnterCI(s, t, kind, a) = Push([s EXCEPT !.th[t] = Enter(@, kind)], a)
BY DEF EnterCI

LEMMA EnterCases ==
  ASSUME NEW H \in [Threads -> lua_State], NEW c, NEW t \in Threads, NEW kind, NEW a
  PROVE  \/ EnterCI(St(H, c), t, kind, a) = St(H, Append(c, Throw(t, "ERRERR")))
         \/ \E z \in Nat : EnterCI(St(H, c), t, kind, a)
                            = St([H EXCEPT ![t] = Sized(H[t], z)], Append(c, A("raise", t)))
         \/ \E z \in Nat : EnterCI(St(H, c), t, kind, a)
                            = St([H EXCEPT ![t] = Enter(Sized(H[t], z), kind)], Append(c, a))
<1> DEFINE T == H[t]
           s == St(H, c)
           full == Len(T.ci) = T.sizeci
           grown == [s EXCEPT !.th[t].sizeci = 2 * @]
<1>1. T \in lua_State /\ T.sizeci \in Nat /\ 2 * T.sizeci \in Nat
  <2>1. T \in lua_State
    OBVIOUS
  <2>2. T.sizeci \in Nat
    BY <2>1 DEF lua_State
  <2>3. QED BY <2>1, <2>2
<1>2. s.th = H /\ s.cs = c
  BY DEF St
<1>3. grown = St([H EXCEPT ![t] = Sized(T, 2 * T.sizeci)], c)
  BY DEF St, Sized
<1>4. H = [H EXCEPT ![t] = Sized(T, T.sizeci)]
  <2>1. Sized(T, T.sizeci) = T
    BY <1>1 DEF Sized, lua_State
  <2>2. QED BY <2>1
<1>5. CASE full /\ T.sizeci > MaxCalls
  <2>1. EnterCI(s, t, kind, a) = luaD_throw(s, t, "ERRERR")
    <3>1. ~(T.sizeci <= MaxCalls)
      BY <1>1, <1>5, BoundsAssumption, SMTT(30)
    <3> HIDE DEF s
    <3>2. QED BY <1>2, <1>5, <3>1, EnterFull
  <2>2. luaD_throw(s, t, "ERRERR") = St(H, Append(c, Throw(t, "ERRERR")))
    BY SMTT(30) DEF luaD_throw, Push, St, Throw
  <2>3. QED BY <2>1, <2>2
<1>6. CASE full /\ T.sizeci <= MaxCalls /\ 2 * T.sizeci > MaxCalls
  <2>1. ~(full /\ T.sizeci > MaxCalls)
    BY <1>1, <1>6, BoundsAssumption, SMTT(30)
  <2>2. EnterCI(s, t, kind, a) = luaG_runerror(grown, t)
    <3>1. ~(T.sizeci > MaxCalls)
      BY <1>6, <2>1
    <3> HIDE DEF s
    <3>2. QED BY <1>2, <1>6, <3>1, EnterOverflow
  <2>3. luaG_runerror(grown, t) = St([H EXCEPT ![t] = Sized(T, 2 * T.sizeci)], Append(c, A("raise", t)))
    BY ONLY <1>3, StOps
  <2>4. QED BY <1>1, <2>2, <2>3
<1>7. ASSUME NEW z \in Nat, NEW g, g = St([H EXCEPT ![t] = Sized(T, z)], c)
      PROVE  Push([g EXCEPT !.th[t] = Enter(@, kind)], a)
               = St([H EXCEPT ![t] = Enter(Sized(T, z), kind)], Append(c, a))
  <2>1. g.th = [H EXCEPT ![t] = Sized(T, z)] /\ g.cs = c
    BY <1>7 DEF St
  <2>2. g.th[t] = Sized(T, z)
    BY <2>1
  <2>3. [[H EXCEPT ![t] = Sized(T, z)] EXCEPT ![t] = Enter(Sized(T, z), kind)]
          = [H EXCEPT ![t] = Enter(Sized(T, z), kind)]
    BY Zenon
  <2>4. \A G, x : [St(G, c) EXCEPT !.th[t] = x] = St([G EXCEPT ![t] = x], c)
    BY DEF St
  <2>5. [g EXCEPT !.th[t] = Enter(g.th[t], kind)] = St([H EXCEPT ![t] = Enter(Sized(T, z), kind)], c)
    <3>1. [g EXCEPT !.th[t] = Enter(g.th[t], kind)] = [g EXCEPT !.th[t] = Enter(Sized(T, z), kind)]
      BY ONLY <2>2
    <3>2. [g EXCEPT !.th[t] = Enter(Sized(T, z), kind)]
            = St([[H EXCEPT ![t] = Sized(T, z)] EXCEPT ![t] = Enter(Sized(T, z), kind)], c)
      BY ONLY <1>7, <2>4, Zenon
    <3>3. QED BY ONLY <2>3, <3>1, <3>2
  <2>6. QED BY <2>5, StOps
<1>8. CASE full /\ ~(T.sizeci > MaxCalls) /\ ~(2 * T.sizeci > MaxCalls)
  <2>1. EnterCI(s, t, kind, a) = Push([grown EXCEPT !.th[t] = Enter(@, kind)], a)
    <3> HIDE DEF s
    <3>1. s.th[t] = T /\ Len(T.ci) = T.sizeci /\ ~(T.sizeci > MaxCalls) /\ ~(2 * T.sizeci > MaxCalls)
      BY <1>2, <1>8
    <3> HIDE DEF T
    <3>2. PICK g : g = grown
      OBVIOUS
    <3>3. EnterCI(s, t, kind, a) = Push([g EXCEPT !.th[t] = Enter(@, kind)], a)
      BY <3>1, <3>2 DEF EnterCI
    <3>4. QED BY <3>2, <3>3
  <2> HIDE DEF grown
  <2>2. QED BY <1>1, <1>3, <1>7, <2>1
<1>9. CASE ~full
  <2>1. EnterCI(s, t, kind, a) = Push([s EXCEPT !.th[t] = Enter(@, kind)], a)
    <3> HIDE DEF s
    <3>1. QED BY <1>2, <1>9, EnterRoom
  <2>2. s = St([H EXCEPT ![t] = Sized(T, T.sizeci)], c)
    BY <1>4
  <2>3. Push([s EXCEPT !.th[t] = Enter(@, kind)], a)
          = St([H EXCEPT ![t] = Enter(Sized(T, T.sizeci), kind)], Append(c, a))
    <3> HIDE DEF s, T
    <3>1. QED BY <1>1, <1>7, <2>2
  <2>4. EnterCI(s, t, kind, a) = St([H EXCEPT ![t] = Enter(Sized(T, T.sizeci), kind)], Append(c, a))
    BY <2>1, <2>3
  <2>5. QED BY <1>1, <2>4
<1>10. (T.sizeci > MaxCalls) \/ (T.sizeci <= MaxCalls /\ ~(T.sizeci > MaxCalls))
  BY <1>1, BoundsAssumption
<1>11. QED BY <1>5, <1>6, <1>8, <1>9, <1>10
--------------------------------------------------------------------------------
(* The operators of the model, on states *)

\* No results are about to be transferred.
Sound(s, X) == Fine(s.th, s.cs, X) /\ Exempt(s.cs) = {}

LEMMA SoundSt ==
  ASSUME NEW H, NEW c, NEW X
  PROVE  Sound(St(H, c), X) <=> Fine(H, c, X) /\ Exempt(c) = {}
BY StOps DEF Sound

LEMMA PushedExempt ==
  ASSUME NEW c, c \in Seq(Acts), NEW a \in Acts, ~(a.k = "cfun" /\ a.at = "done")
  PROVE  Exempt(Append(c, a)) = {}
<1>1. Append(c, a)[Len(Append(c, a))] = a
  OBVIOUS
<1>2. QED BY <1>1 DEF Exempt

\* An activation without frames is pushed; the frames of the thread stay.
LEMMA BareKeeps ==
  ASSUME NEW H, NEW c, NEW l, NEW X, Good(H, c, l, X), NEW t, t = c[Len(c)].t, H[t].status = "ok",
         NEW T, ThreadOK(T), T.status = "ok", T.life = "started", T.baseCcalls = H[t].baseCcalls,
         T.ci = H[t].ci, NEW a \in Acts, a.k \notin {"exec", "cfun"}, MayLie(a, c[Len(c)]),
         T.nCcalls = H[t].nCcalls + (IF a.k = "call" THEN 1 ELSE 0),
         T.nCcalls <= Limit, a.k \notin {"throw", "call"} => T.nCcalls < Limit,
         a.k = "pcall" => /\ a.old.ci = Len(T.ci) /\ a.old.top = 2 * Len(T.ci)
                          /\ a.old.nCcalls = H[t].nCcalls
  PROVE  Good([H EXCEPT ![t] = T], Append(c, a), Append(l, Len(T.ci)), X)
<1>1. Width(a) = 0
  BY DEF Width
<1>2. Len(T.ci) \in Nat /\ \A p \in (Len(T.ci) + 1)..Len(T.ci) : FALSE
  <2>1. Len(T.ci) \in Nat
    BY SMTT(30) DEF ThreadOK, lua_State
  <2>2. QED BY <2>1, SMTT(30)
<1>3. Pushed(T, H[t], a)
  BY <1>1, <1>2 DEF Pushed, Continues
<1>4. QED BY <1>3, PushKeeps

LEMMA SameThread ==
  ASSUME NEW H, NEW c, NEW l, NEW X, Good(H, c, l, X), NEW t \in Threads
  PROVE  [H EXCEPT ![t] = H[t]] = H
BY DEF Good, Threaded

LEMMA RaiseKeeps ==
  ASSUME NEW H, NEW c, NEW l, NEW X, Good(H, c, l, X), NEW t, t = c[Len(c)].t, H[t].status = "ok",
         H[t].nCcalls < Limit
  PROVE  Sound(luaG_runerror(St(H, c), t), X)
<1>1. t \in Threads /\ ThreadOK(H[t]) /\ H[t].life = "started" /\ H[t].nCcalls \in Nat
  BY TopFacts
<1> DEFINE a == A("raise", t)
<1>2. a \in Acts /\ a.t = t /\ a.k = "raise"
  BY <1>1, NewAct DEF A
<1>3. MayLie(a, c[Len(c)])
  BY <1>2 DEF MayLie
<1> HIDE DEF a
<1>4. Limit \in Nat
  BY BoundsAssumption DEF Limit
<1>5. Good([H EXCEPT ![t] = H[t]], Append(c, a), Append(l, Len(H[t].ci)), X)
  BY <1>1, <1>2, <1>3, <1>4, BareKeeps, SMTT(30)
<1>6. Fine(H, Append(c, a), X)
  BY <1>1, <1>5, SameThread DEF Fine
<1>7. Exempt(Append(c, a)) = {}
  BY <1>2, TopFacts, PushedExempt
<1>8. QED BY <1>6, <1>7, StOps, SoundSt DEF a

LEMMA ThrowKeeps ==
  ASSUME NEW H, NEW c, NEW l, NEW X, Good(H, c, l, X), NEW t, t = c[Len(c)].t, H[t].status = "ok",
         NEW code \in Codes
  PROVE  Sound(luaD_throw(St(H, c), t, code), X)
<1>1. t \in Threads /\ ThreadOK(H[t]) /\ H[t].life = "started" /\ H[t].nCcalls \in Nat /\ H[t].nCcalls <= Limit
  <2>1. H[t].nCcalls = Count(c, Len(c)) /\ Count(c, Len(c)) <= Limit
    BY TopFacts DEF Good, TopBounded
  <2>2. QED BY <2>1, TopFacts
<1> DEFINE a == Throw(t, code)
<1>2. a \in Acts /\ a.t = t /\ a.k = "throw"
  BY <1>1, NewAct DEF Throw
<1>3. MayLie(a, c[Len(c)])
  BY <1>2 DEF MayLie
<1> HIDE DEF a
<1>5. Good([H EXCEPT ![t] = H[t]], Append(c, a), Append(l, Len(H[t].ci)), X)
  BY <1>1, <1>2, <1>3, BareKeeps
<1>6. Fine(H, Append(c, a), X)
  BY <1>1, <1>5, SameThread DEF Fine
<1>7. Exempt(Append(c, a)) = {}
  BY <1>2, TopFacts, PushedExempt
<1>8. QED BY <1>6, <1>7, StOps, SoundSt DEF a

\* The state after a thread has changed and an activation has been pushed.
Grown(H, c, t, T, a) == St([H EXCEPT ![t] = T], Append(c, a))

\* U with one more frame, of the given kind.
Entered(T, U, kind) ==
  /\ ThreadOK(T) /\ T.status = "ok" /\ T.life = "started" /\ T.baseCcalls = U.baseCcalls
  /\ T.nCcalls = U.nCcalls /\ Len(T.ci) = Len(U.ci) + 1 /\ T.ci[Len(T.ci)].kind = kind
  /\ \A p \in 1..Len(U.ci) : T.ci[p].kind = U.ci[p].kind
  /\ T.open = U.open

LEMMA EnterOrFail ==
  ASSUME NEW H, NEW c, NEW l, NEW X, Good(H, c, l, X), NEW t, t = c[Len(c)].t, H[t].status = "ok",
         H[t].nCcalls < Limit, NEW kind \in {"lua", "C"}, NEW a
  PROVE  LET R == EnterCI(St(H, c), t, kind, a)
         IN  \/ Sound(R, X) /\ R.cs[Len(R.cs)].k \in {"raise", "throw"}
             \/ \E T : Entered(T, H[t], kind) /\ R = Grown(H, c, t, T, a)
<1> DEFINE R == EnterCI(St(H, c), t, kind, a)
           U == H[t]
           Failed == Sound(R, X) /\ R.cs[Len(R.cs)].k \in {"raise", "throw"}
<1>1. /\ t \in Threads /\ H \in [Threads -> lua_State] /\ ThreadOK(U) /\ U.life = "started"
      /\ U.nCcalls \in Nat /\ c \in Seq(Acts)
  BY TopFacts
<1>2. Limit \in Nat
  BY BoundsAssumption DEF Limit
<1>3. ASSUME R = St(H, Append(c, Throw(t, "ERRERR"))) PROVE Failed
  <2>1. Sound(luaD_throw(St(H, c), t, "ERRERR"), X)
    BY ThrowKeeps DEF Codes
  <2> HIDE DEF R
  <2>2. R.cs = Append(c, Throw(t, "ERRERR"))
    BY ONLY <1>3, StOps
  <2>3. R.cs[Len(R.cs)] = Throw(t, "ERRERR")
    BY <1>1, <2>2
  <2>4. Throw(t, "ERRERR").k = "throw"
    BY DEF Throw
  <2>5. Sound(R, X)
    BY <1>3, <2>1, StOps
  <2>6. QED BY <2>3, <2>4, <2>5
<1>4. ASSUME NEW z \in Nat, R = St([H EXCEPT ![t] = Sized(U, z)], Append(c, A("raise", t)))
      PROVE  Failed
  <2> DEFINE b == A("raise", t)
             V == Sized(U, z)
  <2>1. b \in Acts /\ b.k = "raise" /\ b.t = t
    BY <1>1, NewAct DEF A
  <2>2. MayLie(b, c[Len(c)])
    BY <2>1 DEF MayLie
  <2>3. /\ ThreadOK(V) /\ V.status = "ok" /\ V.life = "started"
        /\ V.baseCcalls = U.baseCcalls /\ V.nCcalls = U.nCcalls /\ V.ci = U.ci
    BY <1>1, SizedOK, ZenonT(30)
  <2> HIDE DEF b, V
  <2>4. Good([H EXCEPT ![t] = V], Append(c, b), Append(l, Len(V.ci)), X)
    <3>1. V.nCcalls = U.nCcalls + 0 /\ V.nCcalls <= Limit /\ V.nCcalls < Limit
      BY <1>1, <1>2, <2>3
    <3>2. QED BY <2>1, <2>2, <2>3, <3>1, BareKeeps
  <2>5. Fine([H EXCEPT ![t] = V], Append(c, b), X)
    BY <2>4 DEF Fine
  <2>6. Exempt(Append(c, b)) = {}
    BY <2>1, TopFacts, PushedExempt
  <2>7. R = St([H EXCEPT ![t] = V], Append(c, b))
    BY <1>4 DEF b, V
  <2>8. R.cs[Len(R.cs)] = b
    <3> HIDE DEF R
    <3>1. R.cs = Append(c, b)
      BY ONLY <2>7, StOps
    <3>2. QED BY <1>1, <2>1, <3>1
  <2>9. QED BY <2>1, <2>5, <2>6, <2>7, <2>8, SoundSt
<1>5. ASSUME NEW z \in Nat, R = St([H EXCEPT ![t] = Enter(Sized(U, z), kind)], Append(c, a))
      PROVE  \E T : Entered(T, U, kind) /\ R = St([H EXCEPT ![t] = T], Append(c, a))
  <2> DEFINE V == Sized(U, z)
             T == Enter(V, kind)
  <2>1. /\ ThreadOK(V) /\ V.status = "ok" /\ V.life = "started" /\ V.open = U.open
        /\ V.baseCcalls = U.baseCcalls /\ V.nCcalls = U.nCcalls /\ V.ci = U.ci
    BY <1>1, SizedOK, ZenonT(30)
  <2>2. /\ ThreadOK(T) /\ T.status = "ok" /\ T.life = V.life /\ T.baseCcalls = V.baseCcalls
        /\ T.nCcalls = V.nCcalls /\ Len(T.ci) = Len(V.ci) + 1 /\ T.ci[Len(T.ci)].kind = kind
        /\ \A p \in 1..Len(V.ci) : T.ci[p].kind = V.ci[p].kind
        /\ T.open = V.open
    <3>1. kind \in {"lua", "C"} /\ ThreadOK(V) /\ V.status = "ok"
      BY <2>1
    <3> HIDE DEF V
    <3>2. QED BY ONLY <3>1, EnterFrame, SMTT(30)
  <2> HIDE DEF V, T, U
  <2>3. Entered(T, U, kind)
    BY <2>1, <2>2 DEF Entered
  <2>4. R = St([H EXCEPT ![t] = T], Append(c, a))
    BY <1>5 DEF T, V
  <2>5. QED BY <2>3, <2>4
<1>6. \/ R = St(H, Append(c, Throw(t, "ERRERR")))
      \/ \E z \in Nat : R = St([H EXCEPT ![t] = Sized(U, z)], Append(c, A("raise", t)))
      \/ \E z \in Nat : R = St([H EXCEPT ![t] = Enter(Sized(U, z), kind)], Append(c, a))
  <2>1. t \in Threads /\ H \in [Threads -> lua_State]
    BY <1>1
  <2>2. QED BY ONLY <2>1, EnterCases
<1>7. Failed \/ \E T : Entered(T, U, kind) /\ R = St([H EXCEPT ![t] = T], Append(c, a))
  <2> HIDE DEF Failed, U
  <2>1. QED BY <1>3, <1>4, <1>5, <1>6, ZenonT(30)
<1>8. QED BY <1>7 DEF Grown

LEMMA EnterKeeps ==
  ASSUME NEW H, NEW c, NEW l, NEW X, Good(H, c, l, X), NEW t, t = c[Len(c)].t, H[t].status = "ok",
         H[t].nCcalls < Limit, NEW kind, NEW a \in Acts, MayLie(a, c[Len(c)]),
         \/ kind = "lua" /\ a = Exec(t, 1)
         \/ kind = "C" /\ a.k = "cfun" /\ a.at = "start"
  PROVE  Sound(EnterCI(St(H, c), t, kind, a), X)
<1> DEFINE U == H[t]
           R == EnterCI(St(H, c), t, kind, a)
<1>1. t \in Threads /\ ThreadOK(U) /\ U.nCcalls \in Nat /\ Len(U.ci) \in Nat
  <2>1. t \in Threads /\ ThreadOK(U) /\ U.nCcalls \in Nat
    BY TopFacts
  <2>2. QED BY <2>1 DEF ThreadOK, lua_State
<1>2. Limit \in Nat
  BY BoundsAssumption, SMTT(30) DEF Limit
<1>3. kind \in {"lua", "C"} /\ Width(a) = 1 /\ KindOf(a) = kind /\ a.k \notin {"call", "throw", "pcall"}
  BY DEF Width, KindOf, Exec
<1>4. ASSUME NEW T, Entered(T, U, kind), R = Grown(H, c, t, T, a)
      PROVE  Sound(R, X)
  <2>1. Len(T.ci) = Len(U.ci) + 1 /\ Len(T.ci) >= Len(U.ci)
    <3> HIDE DEF U
    <3>1. QED BY <1>1, <1>4, SMTT(30) DEF Entered
  <2>2. \A p \in (Len(U.ci) + 1)..Len(T.ci) : p = Len(T.ci)
    BY <1>1, <2>1, SMTT(30)
  <2>3. Continues(T, U, Len(U.ci))
    BY <1>4, <2>1, SMTT(30) DEF Continues, Entered
  <2>4. T.nCcalls = U.nCcalls + 0 /\ T.nCcalls <= Limit /\ T.nCcalls < Limit
    BY <1>1, <1>2, <1>4, SMTT(30) DEF Entered
  <2>5. Pushed(T, U, a)
    <3>1. T.ci[Len(T.ci)].kind = kind
      BY <1>4 DEF Entered
    <3> HIDE DEF U
    <3>2. QED BY <1>3, <2>1, <2>2, <2>3, <2>4, <3>1 DEF Pushed
  <2>6. Good([H EXCEPT ![t] = T], Append(c, a), Append(l, Len(T.ci)), X)
    BY <2>5, PushKeeps
  <2>7. Fine([H EXCEPT ![t] = T], Append(c, a), X)
    BY <2>6 DEF Fine
  <2>8. ~(a.k = "cfun" /\ a.at = "done")
    BY DEF Exec
  <2>9. Exempt(Append(c, a)) = {}
    BY <2>8, TopFacts, PushedExempt
  <2>10. QED BY <1>4, <2>7, <2>9, SoundSt DEF Grown
<1>5. Sound(R, X) \/ \E T : Entered(T, U, kind) /\ R = Grown(H, c, t, T, a)
  <2>1. kind \in {"lua", "C"}
    BY <1>3
  <2>2. QED BY <2>1, EnterOrFail
<1>6. Sound(R, X)
  <2> HIDE DEF R, U
  <2>1. QED BY <1>4, <1>5
<1>7. QED BY <1>6

Callees == {"lua"} \cup CFunctions

LEMMA PrecallKeeps ==
  ASSUME NEW H, NEW c, NEW l, NEW X, Good(H, c, l, X), NEW t, t = c[Len(c)].t, H[t].status = "ok",
         H[t].nCcalls < Limit, NEW callee \in Callees,
         c[Len(c)].k \in (IF callee = "lua" THEN {"call", "resume"} ELSE {"call", "exec"})
  PROVE  Sound(luaD_precall(St(H, c), t, callee), X)
<1>1. t \in Threads
  BY TopFacts
<1>2. CASE callee = "lua"
  <2>1. Exec(t, 1) \in Acts
    BY <1>1, NewAct
  <2>2. MayLie(Exec(t, 1), c[Len(c)])
    BY <1>2 DEF MayLie, Exec
  <2>3. Sound(EnterCI(St(H, c), t, "lua", Exec(t, 1)), X)
    BY <2>1, <2>2, EnterKeeps
  <2>4. QED BY <1>2, <2>3 DEF luaD_precall
<1>3. CASE callee # "lua"
  <2>1. CFun(t, callee) \in Acts
    BY <1>1, <1>3, NewAct DEF Callees
  <2>2. MayLie(CFun(t, callee), c[Len(c)]) /\ CFun(t, callee).k = "cfun" /\ CFun(t, callee).at = "start"
    BY <1>3 DEF MayLie, CFun
  <2>3. Sound(EnterCI(St(H, c), t, "C", CFun(t, callee)), X)
    BY <2>1, <2>2, EnterKeeps
  <2>4. QED BY <1>3, <2>3 DEF luaD_precall
<1>4. QED BY <1>2, <1>3

\* luaD_call counts the call, then refuses it or makes it.
Called(T) == [T EXCEPT !.nCcalls = T.nCcalls + 1]

Counting(s, t, n) == Push([s EXCEPT !.th[t].nCcalls = n], A("call", t))

LEMMA CallCases ==
  ASSUME NEW s, NEW t, NEW callee, NEW n \in Nat, n = s.th[t].nCcalls + 1,
         NEW g, g = Counting(s, t, n)
  PROVE  /\ n = MaxCCalls => luaD_call(s, t, callee) = luaG_runerror(g, t)
         /\ n # MaxCCalls /\ n >= Limit => luaD_call(s, t, callee) = luaD_throw(g, t, "ERRERR")
         /\ n # MaxCCalls /\ ~(n >= Limit) => luaD_call(s, t, callee) = luaD_precall(g, t, callee)
<1>1. Limit \in Nat /\ MaxCCalls \in Nat /\ Limit > MaxCCalls
  BY BoundsAssumption DEF Limit
<1>2. CASE n = MaxCCalls
  <2>1. ~(n >= MaxCCalls + Slack)
    BY <1>1, <1>2 DEF Limit
  <2>2. luaD_call(s, t, callee) = luaG_runerror(g, t)
    BY <1>2, <2>1 DEF luaD_call, Counting
  <2>3. QED BY <1>2, <2>2
<1>3. CASE n # MaxCCalls /\ n >= Limit
  <2>1. luaD_call(s, t, callee) = luaD_throw(g, t, "ERRERR")
    BY <1>3 DEF luaD_call, Counting, Limit
  <2>2. QED BY <1>3, <2>1
<1>4. CASE n # MaxCCalls /\ ~(n >= Limit)
  <2>1. luaD_call(s, t, callee) = luaD_precall(g, t, callee)
    BY <1>4 DEF luaD_call, Counting, Limit
  <2>2. QED BY <1>4, <2>1
<1>5. QED BY <1>2, <1>3, <1>4

LEMMA CalledOK ==
  ASSUME NEW T, ThreadOK(T), T.nCcalls \in Nat
  PROVE  /\ ThreadOK(Called(T)) /\ Called(T).status = T.status /\ Called(T).life = T.life
         /\ Called(T).baseCcalls = T.baseCcalls /\ Called(T).nCcalls = T.nCcalls + 1
         /\ Called(T).ci = T.ci
<1>1. T \in lua_State /\ T.nCcalls + 1 \in Int
  BY DEF ThreadOK
<1>2. /\ Called(T) \in lua_State /\ Called(T).status = T.status /\ Called(T).life = T.life
      /\ Called(T).baseCcalls = T.baseCcalls /\ Called(T).nCcalls = T.nCcalls + 1
      /\ Called(T).ci = T.ci /\ Called(T).open = T.open
  BY <1>1 DEF Called, lua_State
<1>3. QED BY <1>2, SameFrames

LEMMA CallKeeps ==
  ASSUME NEW H, NEW c, NEW l, NEW X, Good(H, c, l, X), NEW t, t = c[Len(c)].t, H[t].status = "ok",
         H[t].nCcalls < Limit, ~(c[Len(c)].k = "cfun" /\ c[Len(c)].f = "resume"), NEW callee \in Callees
  PROVE  Sound(luaD_call(St(H, c), t, callee), X)
<1> DEFINE U == H[t]
           V == Called(U)
           G == [H EXCEPT ![t] = V]
           a == A("call", t)
           d == Append(c, a)
           k == Append(l, Len(V.ci))
           g == St(G, d)
           n == U.nCcalls + 1
           R == luaD_call(St(H, c), t, callee)
<1>1. /\ t \in Threads /\ ThreadOK(U) /\ U.life = "started" /\ U.nCcalls \in Nat /\ c \in Seq(Acts)
      /\ H \in [Threads -> lua_State]
  BY TopFacts
<1>2. /\ ThreadOK(V) /\ V.status = "ok" /\ V.life = "started" /\ V.baseCcalls = U.baseCcalls
      /\ V.nCcalls = n /\ V.ci = U.ci
  BY <1>1, CalledOK
<1>3. a \in Acts /\ a.k = "call" /\ a.t = t
  BY <1>1, NewAct DEF A
<1>4. MayLie(a, c[Len(c)])
  BY <1>3 DEF MayLie
<1>5. Limit \in Nat /\ MaxCCalls \in Nat /\ Limit > MaxCCalls /\ n \in Nat /\ n <= Limit
  <2>1. Limit \in Nat /\ MaxCCalls \in Nat /\ Limit > MaxCCalls
    BY BoundsAssumption DEF Limit
  <2>2. U.nCcalls \in Nat /\ U.nCcalls < Limit
    BY <1>1
  <2> HIDE DEF U
  <2>3. QED BY <2>1, <2>2
<1>6. Good(G, d, k, X)
  <2> HIDE DEF V, a, n
  <2>1. V.nCcalls = U.nCcalls + 1 /\ V.nCcalls <= Limit
    BY <1>2, <1>5 DEF n
  <2>2. QED BY <1>2, <1>3, <1>4, <2>1, BareKeeps
<1>7. /\ d[Len(d)] = a /\ t = d[Len(d)].t /\ G[t] = V /\ d[Len(d)].k = "call"
  <2> HIDE DEF a, V
  <2>1. Len(d) = Len(c) + 1 /\ d[Len(c) + 1] = a
    BY <1>1, <1>3
  <2>2. G[t] = V
    BY <1>1
  <2>3. QED BY <1>3, <2>1, <2>2
<1>8. /\ n = MaxCCalls => R = luaG_runerror(g, t)
      /\ n # MaxCCalls /\ n >= Limit => R = luaD_throw(g, t, "ERRERR")
      /\ n # MaxCCalls /\ ~(n >= Limit) => R = luaD_precall(g, t, callee)
  <2>1. St(H, c).th[t].nCcalls + 1 = n
    BY StOps
  <2>2. [St(H, c) EXCEPT !.th[t].nCcalls = n] = St(G, c)
    BY DEF St, Called
  <2>3. Push([St(H, c) EXCEPT !.th[t].nCcalls = n], A("call", t)) = g
    BY <2>2, StOps
  <2>4. n \in Nat
    BY <1>5
  <2> HIDE DEF n, g
  <2>5. g = Counting(St(H, c), t, n)
    BY <2>3 DEF Counting
  <2>6. QED BY ONLY <2>1, <2>4, <2>5, CallCases
<1>9. CASE n = MaxCCalls
  <2> HIDE DEF G, d, k, n, V
  <2>1. G[t].status = "ok" /\ G[t].nCcalls < Limit
    BY <1>2, <1>5, <1>7, <1>9
  <2>2. Sound(luaG_runerror(g, t), X)
    BY <1>6, <1>7, <2>1, RaiseKeeps
  <2>3. QED BY <1>8, <1>9, <2>2
<1>10. CASE n # MaxCCalls /\ n >= Limit
  <2> HIDE DEF G, d, k, n, V
  <2>1. G[t].status = "ok" /\ "ERRERR" \in Codes
    BY <1>2, <1>7 DEF Codes
  <2>2. Sound(luaD_throw(g, t, "ERRERR"), X)
    BY <1>6, <1>7, <2>1, ThrowKeeps
  <2>3. QED BY <1>8, <1>10, <2>2
<1>11. CASE n # MaxCCalls /\ ~(n >= Limit)
  <2> HIDE DEF G, d, k, n, V
  <2>1. G[t].status = "ok" /\ G[t].nCcalls < Limit
    BY <1>2, <1>5, <1>7, <1>11
  <2>2. Sound(luaD_precall(g, t, callee), X)
    BY <1>6, <1>7, <2>1, PrecallKeeps
  <2>3. QED BY <1>8, <1>11, <2>2
<1>12. QED BY <1>9, <1>10, <1>11

Saving(T) ==
  [nCcalls |-> T.nCcalls, ci |-> Len(T.ci), top |-> NextBase(T) - 1, errfunc |-> T.errfunc]

LEMMA PcallKeeps ==
  ASSUME NEW H, NEW c, NEW l, NEW X, Good(H, c, l, X), NEW t, t = c[Len(c)].t, H[t].status = "ok",
         H[t].nCcalls < Limit, ~(c[Len(c)].k = "cfun" /\ c[Len(c)].f = "resume"), NEW callee \in Callees,
         NEW ef \in BOOLEAN
  PROVE  Sound(luaD_pcall(St(H, c), t, callee, ef), X)
<1> DEFINE U == H[t]
           V == [U EXCEPT !.errfunc = ef]
           G == [H EXCEPT ![t] = V]
           a == [k |-> "pcall", t |-> t, old |-> Saving(U)]
           d == Append(c, a)
           k == Append(l, Len(V.ci))
<1>1. /\ t \in Threads /\ ThreadOK(U) /\ U.life = "started" /\ U.nCcalls \in Nat /\ c \in Seq(Acts)
      /\ H \in [Threads -> lua_State]
  BY TopFacts
<1>2. /\ ThreadOK(V) /\ V.status = "ok" /\ V.life = "started" /\ V.baseCcalls = U.baseCcalls
      /\ V.nCcalls = U.nCcalls /\ V.ci = U.ci
  <2>1. U \in lua_State
    BY <1>1, SMTT(30) DEF ThreadOK
  <2>2. /\ V \in lua_State /\ V.status = "ok" /\ V.life = "started" /\ V.baseCcalls = U.baseCcalls
        /\ V.nCcalls = U.nCcalls /\ V.ci = U.ci /\ V.open = U.open
    BY <1>1, <2>1 DEF lua_State
  <2> HIDE DEF V
  <2>3. QED BY <1>1, <2>2, SameFrames, SMTT(30)
<1>3. NextBase(U) - 1 = 2 * Len(U.ci) /\ Len(U.ci) \in Nat
  <2>1. Len(U.ci) \in Nat /\ Len(U.ci) >= 1 /\ DOMAIN U.ci = 1..Len(U.ci)
    BY <1>1 DEF ThreadOK, lua_State
  <2>2. Len(U.ci) \in DOMAIN U.ci
    BY <2>1, SMTT(30)
  <2>3. U.ci[Len(U.ci)].base = 2 * Len(U.ci) - 1
    BY <1>1, <2>2 DEF ThreadOK
  <2>4. NextBase(U) = U.ci[Len(U.ci)].base + 2
    BY DEF NextBase, Frame
  <2> HIDE DEF U
  <2>5. QED BY <2>1, <2>3, <2>4, SMTT(30)
<1>4. /\ Saving(U) \in Old /\ Saving(U).ci = Len(U.ci) /\ Saving(U).top = 2 * Len(U.ci)
      /\ Saving(U).nCcalls = U.nCcalls
  <2>1. U.errfunc \in BOOLEAN
    BY <1>1 DEF ThreadOK, lua_State
  <2>2. 2 * Len(U.ci) \in Nat
    BY <1>3, SMTT(30)
  <2> HIDE DEF U
  <2>3. QED BY <1>1, <1>3, <2>1, <2>2, SMTT(30) DEF Saving, Old
<1>5. a \in Acts /\ a.k = "pcall" /\ a.t = t /\ a.old = Saving(U)
  <2>1. a \in Acts
    BY <1>1, <1>4, NewAct
  <2>2. QED BY <2>1
<1>6. MayLie(a, c[Len(c)])
  BY <1>5, SMTT(30) DEF MayLie
<1>7. Limit \in Nat
  BY BoundsAssumption, SMTT(30) DEF Limit
<1>8. Good(G, d, k, X)
  <2> HIDE DEF V, a, U
  <2>1. V.nCcalls = U.nCcalls + 0 /\ V.nCcalls <= Limit /\ V.nCcalls < Limit
    BY <1>1, <1>2, <1>7 DEF U
  <2>2. a.old.ci = Len(V.ci) /\ a.old.top = 2 * Len(V.ci) /\ a.old.nCcalls = U.nCcalls
    BY <1>2, <1>4, <1>5
  <2>3. QED BY <1>2, <1>5, <1>6, <2>1, <2>2, BareKeeps DEF U
<1>9. /\ t = d[Len(d)].t /\ G[t] = V /\ d[Len(d)].k = "pcall"
  <2> HIDE DEF a, V
  <2>1. Len(d) = Len(c) + 1 /\ d[Len(c) + 1] = a
    BY <1>1, <1>5
  <2>2. G[t] = V
    BY <1>1
  <2>3. QED BY <1>5, <2>1, <2>2
<1>10. luaD_pcall(St(H, c), t, callee, ef) = luaD_call(St(G, d), t, callee)
  <2>1. [St(H, c) EXCEPT !.th[t].errfunc = ef] = St(G, c)
    BY DEF St
  <2>2. Push(St(G, c), a) = St(G, d)
    BY StOps
  <2>3. St(H, c).th[t] = U
    BY StOps, SMTT(30)
  <2>4. luaD_pcall(St(H, c), t, callee, ef) =
          luaD_call(Push([St(H, c) EXCEPT !.th[t].errfunc = ef], [k |-> "pcall", t |-> t, old |-> Saving(St(H, c).th[t])]), t, callee)
    BY DEF luaD_pcall, Saving
  <2>5. QED BY <2>1, <2>2, <2>3, <2>4
<1>11. Sound(luaD_call(St(G, d), t, callee), X)
  <2> HIDE DEF G, d, k, V
  <2>1. G[t].status = "ok" /\ G[t].nCcalls < Limit
    BY <1>2, <1>9
  <2>2. QED BY <1>8, <1>9, <2>1, CallKeeps
<1>12. QED BY <1>10, <1>11

--------------------------------------------------------------------------------
(* Returns *)

\* T is U without its frames from the n-th on.
Returned(T, U, n) ==
  /\ ThreadOK(T) /\ T.status = "ok" /\ T.life = U.life /\ T.baseCcalls = U.baseCcalls
  /\ Len(T.ci) = n /\ \A p \in 1..n : T.ci[p].kind = U.ci[p].kind

LEMMA PoscallOK ==
  ASSUME NEW U, ThreadOK(U), U.status = "ok", Len(U.ci) >= 2,
         NEW V, V = luaF_close(U, Frame(U).base) \/ (V = U /\ U.ci[Len(U.ci)].kind = "C")
  PROVE  Returned(luaD_poscall(V), U, Len(U.ci) - 1) /\ luaD_poscall(V).nCcalls = U.nCcalls
<1> DEFINE T == luaD_poscall(V)
           n == Len(U.ci)
<1>1. U \in lua_State /\ U.ci \in Seq(CallInfo) /\ n \in Nat /\ n - 1 \in 1..n /\ DOMAIN U.ci = 1..n
      /\ U.open \in SUBSET Nat
  BY DEF ThreadOK, lua_State
<1>2. Frame(U).base = 2 * n - 1
  <2>1. n \in DOMAIN U.ci
    BY <1>1
  <2>2. QED BY <2>1 DEF ThreadOK, Frame
<1>3. /\ V \in lua_State /\ V.ci = U.ci /\ V.status = U.status /\ V.life = U.life
      /\ V.baseCcalls = U.baseCcalls /\ V.nCcalls = U.nCcalls
      /\ \/ V.open = U.open /\ U.ci[n].kind = "C"
         \/ V.open = {p \in U.open : p < Frame(U).base}
  <2>1. CASE V = U /\ U.ci[n].kind = "C"
    BY <1>1, <2>1
  <2>2. CASE V = luaF_close(U, Frame(U).base)
    BY <1>1, <2>2 DEF luaF_close, lua_State
  <2>3. QED BY <2>1, <2>2
<1>4. /\ T \in lua_State /\ T.ci = SubSeq(U.ci, 1, n - 1) /\ T.status = "ok" /\ T.life = U.life
      /\ T.baseCcalls = U.baseCcalls /\ T.nCcalls = U.nCcalls /\ T.open = V.open
  <2>1. SubSeq(U.ci, 1, n - 1) \in Seq(CallInfo)
    BY <1>1
  <2>2. T = [V EXCEPT !.ci = SubSeq(U.ci, 1, n - 1)]
    BY <1>3 DEF luaD_poscall
  <2> HIDE DEF T, n
  <2>3. QED BY <1>3, <2>1, <2>2 DEF lua_State
<1>5. \A x \in T.open : x \in U.open /\ x < 2 * (n - 1)
  <2> SUFFICES ASSUME NEW x \in V.open PROVE x \in U.open /\ x < 2 * (n - 1)
    BY <1>4
  <2>1. x \in U.open
    BY <1>3
  <2>2. PICK p \in DOMAIN U.ci : x = 2 * p - 1 /\ U.ci[p].kind = "lua"
    BY <2>1 DEF ThreadOK
  <2>3. p # n
    <3>1. CASE V.open = U.open /\ U.ci[n].kind = "C"
      BY <2>2, <3>1
    <3>2. CASE V.open = {y \in U.open : y < Frame(U).base}
      <4>1. x < 2 * n - 1
        BY <1>2, <1>3, <3>2
      <4> HIDE DEF n
      <4>2. QED BY <1>1, <2>2, <4>1
    <3>3. QED BY <1>3, <3>1, <3>2
  <2> HIDE DEF n
  <2>4. QED BY <1>1, <2>1, <2>2, <2>3
<1>6. T.status # "yield"
  BY <1>4
<1> HIDE DEF T
<1>7. ThreadOK(T) /\ Len(T.ci) = n - 1 /\ \A p \in 1..(n - 1) : T.ci[p].kind = U.ci[p].kind
  BY <1>1, <1>4, <1>5, <1>6, CutFrames, ZenonT(30)
<1>8. QED BY <1>4, <1>7 DEF Returned, T

LEMMA RecoverOK ==
  ASSUME NEW U, ThreadOK(U), U.status = "ok", NEW old \in Old, old.ci \in 1..Len(U.ci), old.top = 2 * old.ci
  PROVE  /\ Returned(Recover(U, old), U, old.ci) /\ Recover(U, old).nCcalls = old.nCcalls
         /\ Recover(U, old).errfunc = old.errfunc
         /\ \A p \in Recover(U, old).open : p < old.top
<1> DEFINE V == luaF_close(U, old.top)
           W == [V EXCEPT !.nCcalls = old.nCcalls, !.ci = SubSeq(@, 1, old.ci), !.errfunc = old.errfunc]
           T == Recover(U, old)
<1>1. U \in lua_State /\ U.ci \in Seq(CallInfo) /\ U.open \in SUBSET Nat /\ U.sizeci \in Nat
      /\ MaxCalls \in Nat /\ Len(U.ci) \in Nat
  BY BoundsAssumption, SMTT(30) DEF ThreadOK, lua_State
<1>2. old.nCcalls \in Int /\ old.errfunc \in BOOLEAN /\ old.ci \in Nat
  BY DEF Old
<1>3. V \in lua_State /\ V = [U EXCEPT !.open = {p \in U.open : p < old.top}]
  BY <1>1 DEF luaF_close, lua_State
<1>4. SubSeq(U.ci, 1, old.ci) \in Seq(CallInfo)
  BY <1>1
<1>5. /\ W \in lua_State /\ W.ci = SubSeq(U.ci, 1, old.ci) /\ W.status = "ok" /\ W.life = U.life
      /\ W.baseCcalls = U.baseCcalls /\ W.nCcalls = old.nCcalls /\ W.errfunc = old.errfunc
      /\ W.open = {p \in U.open : p < old.top} /\ W.sizeci = U.sizeci
  <2>1. /\ V.ci = U.ci /\ V.status = U.status /\ V.life = U.life /\ V.baseCcalls = U.baseCcalls
        /\ V.open = {p \in U.open : p < old.top} /\ V.sizeci = U.sizeci
    BY <1>1, <1>3 DEF lua_State
  <2>2. W = [V EXCEPT !.nCcalls = old.nCcalls, !.ci = SubSeq(U.ci, 1, old.ci), !.errfunc = old.errfunc]
    BY <2>1
  <2> HIDE DEF V, W
  <2>3. QED BY <1>2, <1>3, <1>4, <2>1, <2>2, Zenon DEF lua_State
<1>6. PICK z \in Nat : T = Sized(W, z)
  <2>1. T = restore_stack_limit(W)
    BY DEF Recover
  <2> HIDE DEF W, T
  <2>2. T = [W EXCEPT !.sizeci = IF W.sizeci > MaxCalls /\ Len(W.ci) < MaxCalls THEN MaxCalls ELSE W.sizeci]
    BY <2>1 DEF restore_stack_limit
  <2>3. QED BY <1>1, <1>5, <2>2 DEF Sized
<1> HIDE DEF W, T
<1>7. /\ T \in lua_State /\ T.ci = SubSeq(U.ci, 1, old.ci) /\ T.status = "ok" /\ T.life = U.life
      /\ T.baseCcalls = U.baseCcalls /\ T.nCcalls = old.nCcalls /\ T.errfunc = old.errfunc
      /\ T.open = {p \in U.open : p < old.top}
  BY <1>5, <1>6 DEF Sized, lua_State
<1>8. /\ ThreadOK(T) /\ Len(T.ci) = old.ci /\ \A p \in 1..old.ci : T.ci[p].kind = U.ci[p].kind
  <2>1. \A x \in T.open : x \in U.open /\ x < 2 * old.ci
    BY <1>7
  <2>2. T.status # "yield"
    BY <1>7
  <2>3. QED BY <1>7, <2>1, <2>2, CutFrames, ZenonT(30)
<1>9. QED BY <1>7, <1>8 DEF Returned, T

\* The activation on top is popped; what lies below goes on.
LEMMA PopKeeps ==
  ASSUME NEW H, NEW c, NEW l, NEW X, Good(H, c, l, X), NEW n, n = Len(c), NEW t, t = c[n].t,
         c[n].k \in {"call", "pcall", "exec", "cfun", "raise", "handler"}, NEW T,
         Returned(T, H[t], Len(H[t].ci) - Width(c[n])),
         T.nCcalls = H[t].nCcalls - (IF c[n].k = "call" THEN 1 ELSE 0)
  PROVE  /\ n - 1 \in 1..n /\ c[n - 1].t = t
         /\ Good([H EXCEPT ![t] = T], Prefix(c, n - 1), Prefix(l, n - 1), X)
         /\ c[n].k \notin {"raise", "handler"} => Exempt(Prefix(c, n - 1)) = {}
<1> DEFINE U == H[t]
           q == n - 1
<1>1. /\ n \in Nat /\ n >= 1 /\ c \in Seq(Acts) /\ c[n] \in Acts /\ t \in Threads
      /\ l \in Seq(Nat) /\ Len(l) = n /\ l[n] \in Nat /\ Count(c, n) \in Nat
      /\ U.life = "started" /\ U.nCcalls = Count(c, n) /\ U.status = "ok" /\ Len(U.ci) = l[n]
  BY TopFacts
<1>2. Stacked(c) /\ Leveled(c, l) /\ TopBounded(c)
  BY DEF Good
<1>3. n # 1
  BY <1>2 DEF Stacked, A
<1>4. n \in 2..Len(c) /\ q \in 1..n /\ q \in Nat /\ n = q + 1 /\ q \in 1..Len(c) /\ q # Len(c)
  BY <1>1, <1>3
<1>5. Fits(c, n) /\ Level(c, l, n)
  BY <1>2, <1>4 DEF Stacked, Leveled
<1>6. c[q].t = t /\ (c[n].k \notin {"raise", "handler"} => ~(c[q].k = "cfun" /\ c[q].f = "resume"))
  BY <1>5 DEF Fits
<1>7. Len(U.ci) - Width(c[n]) = l[q]
  <2>0. c[n].k # "resume" /\ n - 1 = q
    OBVIOUS
  <2>1. l[n] = l[q] + Width(c[n])
    BY <1>5, <2>0 DEF Level
  <2>2. l[q] \in Nat /\ Width(c[n]) \in Nat
    <3>1. l[q] \in Nat
      BY <1>1, <1>4, SMTT(30)
    <3>2. Width(c[n]) \in Nat
      BY <1>1, ActType
    <3>3. QED BY <3>1, <3>2
  <2>3. Len(U.ci) = l[n]
    BY <1>1
  <2> HIDE DEF q, U
  <2>4. (l[q] + Width(c[n])) - Width(c[n]) = l[q]
    BY <2>2
  <2>5. QED BY <2>1, <2>3, <2>4
<1>8. Count(c, n) = Count(c, q) + (IF c[n].k = "call" THEN 1 ELSE 0) /\ Count(c, q) \in Nat
  <2>1. Count(c, q + 1) = Count(c, q) + (IF c[q + 1].k \in {"call", "resume"} THEN 1 ELSE 0)
    BY <1>4, CountNext
  <2>2. Count(c, q) \in Nat
    BY <1>4, CountFinite
  <2> HIDE DEF q
  <2>3. QED BY <1>4, <2>1, <2>2
<1>9. T.nCcalls = Count(c, q) /\ Count(c, q) < Limit
  <2>1. Limit \in Nat /\ Count(c, n) <= Limit /\ (c[n].k # "call" => Count(c, n) < Limit)
    BY <1>2, BoundsAssumption DEF TopBounded, Limit
  <2>2. T.nCcalls = Count(c, n) - (IF c[n].k = "call" THEN 1 ELSE 0)
    BY <1>1
  <2> HIDE DEF q
  <2>3. QED BY <1>1, <1>8, <2>1, <2>2
<1>10. Continues(T, U, l[q]) /\ Len(T.ci) = l[q]
  <2>1. l[q] \in Nat
    BY <1>1, <1>4, SMTT(30)
  <2>2. QED BY <1>1, <1>7, <2>1 DEF Returned, Continues
<1>11. Good([H EXCEPT ![t] = T], Prefix(c, q), Prefix(l, q), X)
  <2>1. c[Len(c)].t = t /\ c[q].t = t /\ H[t].status = "ok" /\ t \in Threads
    BY <1>1, <1>6
  <2>2. q \in 1..Len(c) /\ Count(c, q) < Limit /\ T.nCcalls = Count(c, q)
    BY <1>4, <1>9
  <2>3. Continues(T, H[t], l[q]) /\ Len(T.ci) = l[q] /\ Good(H, c, l, X)
    BY <1>10
  <2> HIDE DEF q
  <2>4. QED BY ONLY <2>1, <2>2, <2>3, CutKeeps
<1>12. c[n].k \notin {"raise", "handler"} => Exempt(Prefix(c, q)) = {}
  <2>1. Len(Prefix(c, q)) = q /\ Prefix(c, q)[q] = c[q]
    BY <1>1, <1>4 DEF Prefix
  <2>2. QED BY <1>6, <2>1 DEF Exempt
<1>13. QED BY <1>4, <1>6, <1>11, <1>12

--------------------------------------------------------------------------------
(* The steps *)

LEMMA Ended ==
  ASSUME NEW s, Sound(s, {}), Becomes(s)
  PROVE  CallsInv'
BY DEF Sound, Becomes, CallsInv

LEMMA Begun ==
  ASSUME CallsInv
  PROVE  /\ \E l : Good(th, cs, l, Exempt(cs))
         /\ ~(TopA.k = "cfun" /\ TopA.f = "resume" /\ TopA.at = "done") => Exempt(cs) = {}
BY DEF CallsInv, Fine, Exempt, TopA

LEMMA Top ==
  ASSUME NEW l, NEW X, Good(th, cs, l, X)
  PROVE  /\ Len(cs) \in Nat /\ Len(cs) >= 1 /\ cs \in Seq(Acts) /\ TopA \in Acts /\ Me \in Threads
         /\ TopA = cs[Len(cs)] /\ Me = cs[Len(cs)].t /\ Me = TopA.t /\ Now = St(th, cs)
         /\ th \in [Threads -> lua_State] /\ ThreadOK(th[Me]) /\ th[Me] \in lua_State
         /\ th[Me].life = "started" /\ th[Me].nCcalls \in Nat /\ th[Me].nCcalls <= Limit
         /\ TopA.k # "resume" => th[Me].status = "ok"
         /\ TopA.k \notin {"throw", "call"} => th[Me].nCcalls < Limit
         /\ [th EXCEPT ![Me] = th[Me]] = th
         /\ Len(th[Me].ci) \in Nat /\ Len(th[Me].ci) >= 1
<1>1. /\ Len(cs) \in Nat /\ Len(cs) >= 1 /\ cs \in Seq(Acts) /\ cs[Len(cs)] \in Acts
      /\ cs[Len(cs)].t \in Threads
      /\ th \in [Threads -> lua_State] /\ ThreadOK(th[cs[Len(cs)].t])
      /\ th[cs[Len(cs)].t].life = "started" /\ th[cs[Len(cs)].t].nCcalls = Count(cs, Len(cs))
      /\ Count(cs, Len(cs)) \in Nat
      /\ cs[Len(cs)].k # "resume" => th[cs[Len(cs)].t].status = "ok"
  BY TopFacts, SMTT(30)
<1>2. TopA = cs[Len(cs)] /\ Me = cs[Len(cs)].t
  BY DEF TopA, Me
<1>3. /\ Count(cs, Len(cs)) <= Limit
      /\ cs[Len(cs)].k \notin {"throw", "call"} => Count(cs, Len(cs)) < Limit
  BY DEF Good, TopBounded
<1>4. Now = St(th, cs)
  BY SMTT(30) DEF Now, St
<1>5. th[Me] \in lua_State /\ Len(th[Me].ci) \in Nat /\ Len(th[Me].ci) >= 1
  BY <1>1, <1>2 DEF ThreadOK, lua_State
<1>6. [th EXCEPT ![Me] = th[Me]] = th
  BY <1>1
<1>7. QED BY <1>1, <1>2, <1>3, <1>4, <1>5, <1>6

\* The activation on top returns nothing but the count of calls or the error function.
LEMMA SameReturned ==
  ASSUME NEW U, ThreadOK(U), U.status = "ok", NEW T \in lua_State, T.status = "ok", T.life = U.life,
         T.baseCcalls = U.baseCcalls, T.ci = U.ci, T.open = U.open
  PROVE  Returned(T, U, Len(U.ci) - 0)
<1>1. Len(U.ci) \in Nat
  BY DEF ThreadOK, lua_State
<1>2. Len(U.ci) - 0 = Len(U.ci)
  BY <1>1
<1>3. ThreadOK(T)
  BY SameFrames
<1>4. QED BY <1>2, <1>3 DEF Returned

LEMMA CallDoneKeeps == ASSUME CallsInv, CallDone PROVE CallsInv'
<1>1. TopA.k = "call" /\ Becomes(Pop([Now EXCEPT !.th[Me].nCcalls = @ - 1]))
  BY DEF CallDone, Active
<1>2. PICK l : Good(th, cs, l, {})
  BY <1>1, Begun
<1> DEFINE T == [th[Me] EXCEPT !.nCcalls = th[Me].nCcalls - 1]
           G == [th EXCEPT ![Me] = T]
           n == Len(cs)
<1>3. /\ TopA = cs[n] /\ Me = cs[n].t /\ Now = St(th, cs) /\ ThreadOK(th[Me]) /\ th[Me] \in lua_State
      /\ th[Me].nCcalls \in Nat /\ th[Me].status = "ok" /\ cs[n].k = "call"
  BY <1>1, <1>2, Top
<1>4. /\ T \in lua_State /\ T.status = "ok" /\ T.life = th[Me].life /\ T.baseCcalls = th[Me].baseCcalls
      /\ T.ci = th[Me].ci /\ T.open = th[Me].open /\ T.nCcalls = th[Me].nCcalls - 1
  BY <1>3, SMTT(30) DEF lua_State
<1>5. Returned(T, th[Me], Len(th[Me].ci) - Width(cs[n]))
  <2>1. Width(cs[n]) = 0
    BY <1>3 DEF Width
  <2> HIDE DEF T
  <2>2. QED BY <1>3, <1>4, <2>1, SameReturned
<1>6. Sound(St(G, Prefix(cs, n - 1)), {})
  <2>1. /\ Good([th EXCEPT ![Me] = T], Prefix(cs, n - 1), Prefix(l, n - 1), {})
        /\ cs[n].k \notin {"raise", "handler"} => Exempt(Prefix(cs, n - 1)) = {}
    <3> HIDE DEF T
    <3>1. QED BY <1>2, <1>3, <1>4, <1>5, PopKeeps
  <2>2. QED BY <1>3, <2>1, SoundSt DEF Fine
<1>7. Pop([Now EXCEPT !.th[Me].nCcalls = @ - 1]) = St(G, Prefix(cs, n - 1))
  <2>1. [Now EXCEPT !.th[Me].nCcalls = @ - 1] = St(G, cs)
    BY DEF Now, St
  <2>2. QED BY <2>1, StOps
<1>8. QED BY <1>1, <1>6, <1>7, Ended

LEMMA PcallDoneKeeps == ASSUME CallsInv, PcallDone PROVE CallsInv'
<1>1. TopA.k = "pcall" /\ Becomes(Pop([Now EXCEPT !.th[Me].errfunc = TopA.old.errfunc]))
  BY DEF PcallDone, Active
<1>2. PICK l : Good(th, cs, l, {})
  BY <1>1, Begun
<1> DEFINE T == [th[Me] EXCEPT !.errfunc = TopA.old.errfunc]
           G == [th EXCEPT ![Me] = T]
           n == Len(cs)
<1>3. /\ TopA = cs[n] /\ Me = cs[n].t /\ Now = St(th, cs) /\ ThreadOK(th[Me]) /\ th[Me] \in lua_State
      /\ th[Me].nCcalls \in Nat /\ th[Me].status = "ok" /\ cs[n].k = "pcall" /\ TopA \in Acts
  BY <1>1, <1>2, Top
<1>4. /\ T \in lua_State /\ T.status = "ok" /\ T.life = th[Me].life /\ T.baseCcalls = th[Me].baseCcalls
      /\ T.ci = th[Me].ci /\ T.open = th[Me].open /\ T.nCcalls = th[Me].nCcalls
  <2>1. TopA.old.errfunc \in BOOLEAN
    BY <1>1, <1>3, ActType DEF Old
  <2>2. QED BY <1>3, <2>1 DEF lua_State
<1>5. Returned(T, th[Me], Len(th[Me].ci) - Width(cs[n]))
  <2>1. Width(cs[n]) = 0
    BY <1>3 DEF Width
  <2> HIDE DEF T
  <2>2. QED BY <1>3, <1>4, <2>1, SameReturned
<1>6. Sound(St(G, Prefix(cs, n - 1)), {})
  <2>1. /\ Good([th EXCEPT ![Me] = T], Prefix(cs, n - 1), Prefix(l, n - 1), {})
        /\ cs[n].k \notin {"raise", "handler"} => Exempt(Prefix(cs, n - 1)) = {}
    <3> HIDE DEF T
    <3>1. T.nCcalls = th[Me].nCcalls - 0
      BY <1>3, <1>4
    <3>2. QED BY <1>2, <1>3, <1>5, <3>1, PopKeeps, SMTT(30)
  <2>2. QED BY <1>3, <2>1, SoundSt DEF Fine
<1>7. Pop([Now EXCEPT !.th[Me].errfunc = TopA.old.errfunc]) = St(G, Prefix(cs, n - 1))
  <2>1. [Now EXCEPT !.th[Me].errfunc = TopA.old.errfunc] = St(G, cs)
    BY DEF Now, St
  <2>2. QED BY <2>1, StOps
<1>8. QED BY <1>1, <1>6, <1>7, Ended

\* The message has been handled, or there is no handler.
LEMMA RaisedKeeps ==
  ASSUME NEW l, Good(th, cs, l, {}), TopA.k \in {"raise", "handler"}
  PROVE  /\ Good(th, Prefix(cs, Len(cs) - 1), Prefix(l, Len(cs) - 1), {})
         /\ Pop(Now) = St(th, Prefix(cs, Len(cs) - 1))
         /\ Len(cs) - 1 \in 1..Len(cs) /\ Len(Prefix(cs, Len(cs) - 1)) = Len(cs) - 1
         /\ Me = Prefix(cs, Len(cs) - 1)[Len(cs) - 1].t
<1> DEFINE n == Len(cs)
<1>1. /\ TopA = cs[n] /\ Me = cs[n].t /\ Now = St(th, cs) /\ ThreadOK(th[Me]) /\ th[Me] \in lua_State
      /\ th[Me].nCcalls \in Nat /\ th[Me].status = "ok" /\ n \in Nat /\ cs \in Seq(Acts)
      /\ [th EXCEPT ![Me] = th[Me]] = th
  BY Top
<1>2. Returned(th[Me], th[Me], Len(th[Me].ci) - Width(cs[n]))
  <2>1. Width(cs[n]) = 0
    BY <1>1 DEF Width
  <2>2. QED BY <1>1, <2>1, SameReturned
<1>3. /\ n - 1 \in 1..n /\ cs[n - 1].t = Me
      /\ Good([th EXCEPT ![Me] = th[Me]], Prefix(cs, n - 1), Prefix(l, n - 1), {})
  <2>1. th[Me].nCcalls = th[Me].nCcalls - 0 /\ cs[n].k \in {"raise", "handler"}
    BY <1>1
  <2>2. QED BY <1>1, <1>2, <2>1, PopKeeps
<1>4. Pop(Now) = St(th, Prefix(cs, n - 1))
  BY <1>1, StOps
<1>5. Len(Prefix(cs, n - 1)) = n - 1 /\ Prefix(cs, n - 1)[n - 1] = cs[n - 1]
  BY <1>1, <1>3 DEF Prefix
<1>6. QED BY <1>1, <1>3, <1>4, <1>5

LEMMA HandlerDoneKeeps == ASSUME CallsInv, HandlerDone PROVE CallsInv'
<1>1. TopA.k = "handler" /\ Becomes(luaD_throw(Pop(Now), Me, "ERRRUN"))
  BY DEF HandlerDone, Active
<1>2. PICK l : Good(th, cs, l, {})
  BY <1>1, Begun
<1> DEFINE d == Prefix(cs, Len(cs) - 1)
<1>3. th[Me].status = "ok" /\ "ERRRUN" \in Codes
  BY <1>1, <1>2, Top DEF Codes
<1>4. Good(th, d, Prefix(l, Len(cs) - 1), {}) /\ Pop(Now) = St(th, d) /\ Me = d[Len(d)].t
  BY <1>1, <1>2, RaisedKeeps
<1> HIDE DEF d
<1>5. Sound(luaD_throw(St(th, d), Me, "ERRRUN"), {})
  BY <1>3, <1>4, ThrowKeeps
<1>6. QED BY <1>1, <1>4, <1>5, Ended

LEMMA ErrorMsgKeeps == ASSUME CallsInv, ErrorMsg PROVE CallsInv'
<1>1. TopA.k = "raise"
  BY DEF ErrorMsg, Active
<1>2. PICK l : Good(th, cs, l, {})
  BY <1>1, Begun
<1> DEFINE d == Prefix(cs, Len(cs) - 1)
           k == Prefix(l, Len(cs) - 1)
<1>3. /\ th[Me].status = "ok" /\ "ERRRUN" \in Codes /\ th[Me].nCcalls < Limit /\ th[Me].nCcalls \in Nat
      /\ th[Me].life = "started" /\ ThreadOK(th[Me]) /\ Me \in Threads
      /\ [th EXCEPT ![Me] = th[Me]] = th
  BY <1>1, <1>2, Top DEF Codes
<1>4. Good(th, d, k, {}) /\ Pop(Now) = St(th, d) /\ Me = d[Len(d)].t
  BY <1>1, <1>2, RaisedKeeps
<1> HIDE DEF d, k
<1>5. CASE th[Me].errfunc
  <2> DEFINE a == A("handler", Me)
             e == Append(d, a)
             j == Append(k, Len(th[Me].ci))
  <2>1. a \in Acts /\ a.k = "handler" /\ a.t = Me
    BY <1>3, NewAct DEF A
  <2>2. MayLie(a, d[Len(d)])
    BY <1>4, <2>1 DEF MayLie
  <2>3. d \in Seq(Acts) /\ Limit \in Nat
    BY <1>4, TopFacts, BoundsAssumption, SMTT(30) DEF Limit
  <2>4. Good([th EXCEPT ![Me] = th[Me]], e, j, {})
    <3> HIDE DEF a
    <3>1. th[Me].nCcalls = th[Me].nCcalls + 0 /\ th[Me].nCcalls <= Limit
      BY <1>3, <2>3
    <3>2. QED BY <1>3, <1>4, <2>1, <2>2, <3>1, BareKeeps
  <2>5. e[Len(e)] = a
    BY <2>1, <2>3
  <2>6. Push(Pop(Now), a) = St(th, e)
    BY <1>4, StOps
  <2>7. Good(th, e, j, {}) /\ Me = e[Len(e)].t /\ e[Len(e)].k = "handler" /\ "lua" \in Callees
    BY <1>3, <2>1, <2>4, <2>5 DEF Callees
  <2> HIDE DEF e, j
  <2>8. Sound(luaD_call(St(th, e), Me, "lua"), {})
    BY <1>3, <2>7, CallKeeps
  <2>9. Becomes(luaD_call(Push(Pop(Now), a), Me, "lua"))
    BY <1>5 DEF ErrorMsg
  <2>10. QED BY <2>6, <2>8, <2>9, Ended
<1>6. CASE ~th[Me].errfunc
  <2>1. Sound(luaD_throw(St(th, d), Me, "ERRRUN"), {})
    BY <1>3, <1>4, ThrowKeeps
  <2>2. Becomes(luaD_throw(Pop(Now), Me, "ERRRUN"))
    BY <1>6 DEF ErrorMsg
  <2>3. QED BY <1>4, <2>1, <2>2, Ended
<1>7. QED BY <1>5, <1>6

\* A C function goes on to its next part.
LEMMA CFunKeeps ==
  ASSUME NEW H, NEW c, NEW l, NEW X, Good(H, c, l, X), NEW n, n = Len(c), c[n].k = "cfun",
         NEW b \in Acts, b.k = "cfun", b.t = c[n].t
  PROVE  Good(H, [c EXCEPT ![n] = b], [l EXCEPT ![n] = Len(H[c[n].t].ci)], X)
<1> DEFINE t == c[n].t
           U == H[t]
           m == Len(U.ci) - 1
<1>1. /\ n \in Nat /\ n >= 1 /\ c \in Seq(Acts) /\ c[n] \in Acts /\ t \in Threads
      /\ l \in Seq(Nat) /\ Len(l) = n /\ l[n] \in Nat /\ ThreadOK(U)
      /\ U.life = "started" /\ U.status = "ok" /\ Len(U.ci) = l[n]
      /\ \A p \in (l[n] - Width(c[n]) + 1)..l[n] : U.ci[p].kind = KindOf(c[n])
  BY TopFacts, SMTT(30)
<1>2. Width(c[n]) = 1 /\ Width(b) = 1 /\ KindOf(c[n]) = "C" /\ KindOf(b) = "C"
  BY DEF Width, KindOf
<1>3. Len(U.ci) \in Nat /\ Len(U.ci) >= 1 /\ m \in Nat /\ Len(U.ci) = m + 1 /\ Len(U.ci) >= m
  <2>1. Len(U.ci) \in Nat /\ Len(U.ci) >= 1
    BY <1>1 DEF ThreadOK, lua_State
  <2> HIDE DEF U
  <2>2. QED BY <2>1
<1>4. Continues(U, U, m) /\ Len(U.ci) = m + Width(b) /\ m = Len(U.ci) - Width(c[n])
  BY <1>1, <1>2, <1>3 DEF Continues
<1>5. \A p \in (m + 1)..Len(U.ci) : U.ci[p].kind = KindOf(b)
  <2>1. \A p \in (l[n] - 1 + 1)..l[n] : U.ci[p].kind = "C"
    BY <1>1, <1>2
  <2>2. QED BY <1>1, <1>2, <2>1
<1>6. Good([H EXCEPT ![t] = U], [c EXCEPT ![n] = b], [l EXCEPT ![n] = Len(U.ci)], X)
  <2>1. b.k \in {"exec", "cfun"} /\ b.k = c[n].k /\ b.t = t
    OBVIOUS
  <2>2. H[t] = U /\ n = Len(c) /\ t = c[n].t
    OBVIOUS
  <2> HIDE DEF m, U, t
  <2>3. QED BY <1>3, <1>4, <1>5, <2>1, <2>2, TopKeeps
<1>7. [H EXCEPT ![t] = U] = H
  BY <1>1, SameThread
<1>8. QED BY <1>6, <1>7

SetTop(c, b) == [c EXCEPT ![Len(c)] = b]

LEMMA SetTopKeeps ==
  ASSUME NEW H, NEW c, NEW l, NEW X, Good(H, c, l, X), c[Len(c)].k = "cfun",
         NEW b \in Acts, b.k = "cfun", b.t = c[Len(c)].t
  PROVE  /\ Fine(H, SetTop(c, b), X) /\ SetTop(c, b) \in Seq(Acts) /\ Len(SetTop(c, b)) = Len(c)
         /\ SetTop(c, b)[Len(c)] = b
<1>1. Len(c) \in Nat /\ Len(c) >= 1 /\ c \in Seq(Acts)
  BY TopFacts
<1>2. Good(H, [c EXCEPT ![Len(c)] = b], [l EXCEPT ![Len(c)] = Len(H[c[Len(c)].t].ci)], X)
  BY CFunKeeps
<1>3. Fine(H, SetTop(c, b), X)
  BY <1>2 DEF Fine, SetTop
<1>4. QED BY <1>1, <1>3 DEF SetTop

LEMMA AtKeeps ==
  ASSUME NEW H, NEW c, NEW l, NEW X, Good(H, c, l, X), NEW a, a = c[Len(c)], a.k = "cfun",
         NEW x \in {"start", "done", "failed"}, NEW b, b = WithAt(a, x)
  PROVE  /\ Fine(H, SetTop(c, b), X) /\ SetTop(c, b) \in Seq(Acts) /\ Len(SetTop(c, b)) = Len(c)
         /\ SetTop(c, b)[Len(c)] = b
         /\ b \in Acts /\ b.k = "cfun" /\ b.t = a.t /\ b.f = a.f /\ b.at = x /\ b.co = a.co
<1>1. a \in Acts
  BY TopFacts
<1>2. b \in Acts /\ b.k = "cfun" /\ b.t = a.t /\ b.f = a.f /\ b.at = x /\ b.co = a.co
  BY <1>1, CFunAct
<1>3. QED BY <1>2, SetTopKeeps

LEMMA JumpTarget ==
  ASSUME NEW l, NEW X, Good(th, cs, l, X), Targets(Me) # {}, TopA.k = "throw"
  PROVE  LET at == ErrorJmp(Me)
         IN  /\ at \in 2..(Len(cs) - 1) /\ cs[at].t = Me /\ cs[at].k \in {"pcall", "resume"}
             /\ \A i \in (at + 1)..Len(cs) : ~(cs[i].k \in {"pcall", "resume"} /\ cs[i].t = Me)
<1> DEFINE n == Len(cs)
           S == Targets(Me)
           at == ErrorJmp(Me)
<1>1. n \in Nat /\ n >= 1 /\ cs \in Seq(Acts) /\ TopA = cs[n] /\ DOMAIN cs = 1..n
  BY Top
<1>2. S \in SUBSET (1..n) /\ \A i \in 1..n : i \in S <=> cs[i].k \in {"pcall", "resume"} /\ cs[i].t = Me
  BY <1>1 DEF Targets
<1>3. \E i \in S : \A j \in S : j <= i
  <2> HIDE DEF S, n
  <2>1. QED BY <1>1, <1>2, LargestInSet DEF S
<1>4. at \in S /\ \A j \in S : j <= at
  <2>1. at = CHOOSE i \in S : \A j \in S : j <= i
    BY DEF ErrorJmp
  <2> HIDE DEF at, S
  <2>2. QED BY <1>3, <2>1
<1> HIDE DEF at, S
<1>5. at \in 1..n /\ cs[at].k \in {"pcall", "resume"} /\ cs[at].t = Me
  BY <1>2, <1>4
<1>6. at # n
  BY <1>1, <1>5, Zenon
<1>7. at # 1
  <2>1. cs[1].k = "host"
    BY DEF Good, Stacked, A
  <2>2. QED BY <1>5, <2>1
<1>8. \A i \in (at + 1)..n : ~(cs[i].k \in {"pcall", "resume"} /\ cs[i].t = Me)
  <2> SUFFICES ASSUME NEW i \in (at + 1)..n, i \in S PROVE FALSE
    BY <1>1, <1>2, <1>5
  <2>1. i <= at /\ i >= at + 1 /\ at \in Nat /\ i \in Nat
    BY <1>1, <1>4, <1>5
  <2>2. QED BY <2>1
<1>9. QED BY <1>1, <1>5, <1>6, <1>7, <1>8 DEF at

\* What a thread that dies in a coroutine becomes.
LEMMA DeadOK ==
  ASSUME NEW U, ThreadOK(U), U.nCcalls \in Nat, NEW code \in Codes,
         NEW T, T = [U EXCEPT !.status = code, !.nCcalls = U.nCcalls - 1, !.life = "finished"]
  PROVE  ThreadOK(T) /\ OffOK(T, FALSE)
<1>1. U \in lua_State
  BY DEF ThreadOK
<1>2. code # "ok" /\ code # "yield"
  BY DEF Codes
<1>3. /\ T \in lua_State /\ T.ci = U.ci /\ T.open = U.open /\ T.status = code /\ T.life = "finished"
  <2>1. U.nCcalls - 1 \in Int
    OBVIOUS
  <2>2. QED BY <1>1, <2>1 DEF lua_State
<1>4. ThreadOK(T)
  BY <1>2, <1>3, SameFrames
<1>5. QED BY <1>2, <1>3, <1>4 DEF OffOK

\* What a protected call promises of its thread.
AsFound(T, old) ==
  /\ T.nCcalls = old.nCcalls /\ Len(T.ci) = old.ci /\ T.errfunc = old.errfunc
  /\ \A p \in T.open : p < old.top

LEMMA LandPcall ==
  ASSUME NEW l, Good(th, cs, l, {}), TopA.k = "throw", NEW at \in 2..(Len(cs) - 1), cs[at].t = Me,
         cs[at].k = "pcall", NEW T, T = Recover(th[Me], cs[at].old)
  PROVE  /\ Good([th EXCEPT ![Me] = T], Prefix(cs, at - 1), Prefix(l, at - 1), {})
         /\ ~(cs[at - 1].k = "cfun" /\ cs[at - 1].f = "resume")
         /\ AsFound(T, cs[at].old)
<1> DEFINE n == Len(cs)
           q == at - 1
           U == th[Me]
           old == cs[at].old
<1>1. /\ n \in Nat /\ n >= 1 /\ cs \in Seq(Acts) /\ TopA = cs[n] /\ Me = cs[n].t /\ Me \in Threads
      /\ ThreadOK(U) /\ U.status = "ok" /\ U.life = "started" /\ Len(U.ci) \in Nat
  BY Top
<1>2. Stacked(cs) /\ Leveled(cs, l) /\ Remembered(cs, l)
  BY DEF Good
<1>3. at \in 1..n /\ q \in 1..n /\ q \in Nat /\ q + 1 = at /\ at \in Nat /\ n \in 1..n /\ at <= n
  BY <1>1
<1>4. Fits(cs, at) /\ Level(cs, l, at) /\ Saved(cs, l, at) /\ Bounded(cs, at)
  BY <1>1, <1>2, <1>3, SMTT(30) DEF Stacked, Leveled, Remembered
<1>5. cs[q].t = Me /\ ~(cs[q].k = "cfun" /\ cs[q].f = "resume")
  BY <1>4 DEF Fits
<1>6. l[q] \in Nat /\ l[at] \in Nat /\ l[at] >= 1 /\ l[at] <= l[n] /\ l[n] = Len(U.ci)
  <2>1. l \in Seq(Nat) /\ Len(l) = n
    BY <1>2 DEF Leveled
  <2>2. l[q] \in Nat /\ l[at] \in Nat
    BY <1>3, <2>1, SMTT(30)
  <2>3. l[at] >= 1 /\ l[at] <= l[n]
    BY <1>1, <1>2, <1>3 DEF Leveled
  <2>4. Len(U.ci) = l[n]
    <3>1. th[cs[n].t].status = "ok"
      BY <1>1
    <3>2. Len(th[cs[n].t].ci) = l[n]
      BY <3>1, TopFacts
    <3>3. QED BY <1>1, <3>2
  <2>5. QED BY <2>2, <2>3, <2>4
<1>7. l[at] = l[q]
  <2>1. Width(cs[at]) = 0 /\ cs[at].k # "resume" /\ at - 1 = q
    BY DEF Width
  <2>2. l[at] = l[q] + 0
    BY <1>4, <2>1 DEF Level
  <2>3. QED BY <1>6, <2>2
<1>8. /\ old \in Old /\ old.ci = l[at] /\ old.top = 2 * old.ci /\ old.nCcalls = Count(cs, at)
  <2>1. cs[at] \in Acts
    BY <1>1, <1>3
  <2>2. old \in Old
    BY <2>1, ActType
  <2>3. QED BY <1>4, <2>2 DEF Saved
<1>9. old.ci \in 1..Len(U.ci)
  <2> HIDE DEF old, U
  <2>1. QED BY <1>6, <1>8
<1>10. /\ Returned(T, U, old.ci) /\ T.nCcalls = old.nCcalls /\ T.errfunc = old.errfunc
       /\ \A p \in T.open : p < old.top
  <2> HIDE DEF old, U
  <2>1. QED BY <1>1, <1>8, <1>9, RecoverOK DEF old, U
<1>11. Count(cs, at) = Count(cs, q) /\ Count(cs, q) < Limit
  <2>1. Count(cs, q + 1) = Count(cs, q) + (IF cs[q + 1].k \in {"call", "resume"} THEN 1 ELSE 0)
    BY <1>3, CountNext
  <2>2. cs[q + 1].k = "pcall"
    BY <1>3
  <2>3. Count(cs, q) \in Nat
    BY <1>3, CountFinite
  <2>4. Count(cs, at) < Limit
    BY <1>4 DEF Bounded
  <2>5. Count(cs, at) = Count(cs, q) + 0
    BY <1>3, <2>1, <2>2, SMTT(30)
  <2> HIDE DEF q
  <2>6. QED BY <2>3, <2>4, <2>5
<1>12. Continues(T, U, l[q]) /\ Len(T.ci) = l[q] /\ T.nCcalls = Count(cs, q)
  <2>1. old.ci = l[q]
    BY <1>7, <1>8
  <2>2. T.nCcalls = Count(cs, q)
    BY <1>8, <1>10, <1>11
  <2> HIDE DEF old, U, q
  <2>3. ThreadOK(T) /\ T.status = "ok" /\ T.life = "started" /\ T.baseCcalls = U.baseCcalls /\ Len(T.ci) = l[q]
    BY ONLY <1>1, <1>10, <2>1 DEF Returned
  <2>4. \A p \in 1..l[q] : T.ci[p].kind = U.ci[p].kind
    BY ONLY <1>10, <2>1 DEF Returned
  <2>5. Len(T.ci) >= l[q]
    BY ONLY <1>6, <2>3
  <2>6. QED BY ONLY <2>2, <2>3, <2>4, <2>5, ZenonT(30) DEF Continues
<1>13. Good([th EXCEPT ![Me] = T], Prefix(cs, q), Prefix(l, q), {})
  <2>1. cs[Len(cs)].t = Me /\ cs[q].t = Me /\ th[Me].status = "ok" /\ Me \in Threads /\ q \in 1..Len(cs)
    BY <1>1, <1>3, <1>5
  <2>2. Continues(T, th[Me], l[q]) /\ Good(th, cs, l, {})
    BY <1>12
  <2> HIDE DEF q
  <2>3. QED BY ONLY <2>1, <2>2, <1>11, <1>12, CutKeeps
<1>14. AsFound(T, old)
  BY <1>10 DEF AsFound, Returned
<1>15. QED BY <1>5, <1>13, <1>14

LEMMA LandResume ==
  ASSUME NEW l, Good(th, cs, l, {}), TopA.k = "throw", NEW at \in 2..(Len(cs) - 1), cs[at].t = Me,
         cs[at].k = "resume",
         NEW T, T = [th[Me] EXCEPT !.status = TopA.code, !.nCcalls = @ - 1, !.life = "finished"]
  PROVE  /\ Good([th EXCEPT ![Me] = T], Prefix(cs, at - 1), Prefix(l, at - 1), {})
         /\ cs[at - 1].k = "cfun"
<1>1. /\ Len(cs) \in Nat /\ cs \in Seq(Acts) /\ TopA \in Acts /\ TopA = cs[Len(cs)] /\ Me = cs[Len(cs)].t
      /\ ThreadOK(th[Me]) /\ th[Me].nCcalls \in Nat
  BY Top
<1>2. at \in 2..Len(cs) /\ TopA.code \in Codes
  BY <1>1, ActType, SMTT(30)
<1>3. ThreadOK(T) /\ OffOK(T, FALSE)
  BY <1>1, <1>2, DeadOK, Zenon
<1>4. OffOK(T, Me \in {})
  BY <1>3 DEF OffOK
<1>5. Good([th EXCEPT ![Me] = T], Prefix(cs, at - 1), Prefix(l, at - 1), {})
  BY <1>1, <1>2, <1>3, <1>4, LeaveKeeps, SMTT(30)
<1>6. Fits(cs, at)
  BY <1>2 DEF Good, Stacked
<1>7. QED BY <1>5, <1>6 DEF Fits

LEMMA LandKeeps == ASSUME CallsInv, Land PROVE CallsInv'
<1> DEFINE at == ErrorJmp(Me)
           a == cs[at]
           cut == Prefix(cs, at - 1)
           dead == [th[Me] EXCEPT !.status = TopA.code, !.nCcalls = @ - 1, !.life = "finished"]
           T == IF a.k = "pcall" THEN Recover(th[Me], a.old) ELSE dead
           G == [th EXCEPT ![Me] = T]
<1>1. TopA.k = "throw" /\ Targets(Me) # {}
  BY DEF Land, Active
<1>2. th' = G
  BY DEF Land
<1>3. cs' = IF Len(cut) > 0 /\ cut[Len(cut)].k = "cfun" THEN [cut EXCEPT ![Len(cut)].at = "failed"] ELSE cut
  BY DEF Land, Prefix
<1>4. PICK l : Good(th, cs, l, {})
  BY <1>1, Begun
<1>5. at \in 2..(Len(cs) - 1) /\ cs[at].t = Me /\ cs[at].k \in {"pcall", "resume"}
  BY <1>1, <1>4, JumpTarget
<1>6. Good(G, cut, Prefix(l, at - 1), {}) /\ ~(cs[at - 1].k # "cfun" /\ cs[at].k = "resume")
  <2>1. CASE cs[at].k = "pcall"
    <3>1. T = Recover(th[Me], cs[at].old)
      BY <2>1
    <3>2. Good([th EXCEPT ![Me] = T], Prefix(cs, at - 1), Prefix(l, at - 1), {})
      <4> HIDE DEF at, T
      <4>1. QED BY <1>1, <1>4, <1>5, <2>1, <3>1, LandPcall
    <3>3. QED BY <2>1, <3>2
  <2>2. CASE cs[at].k = "resume"
    <3>1. T = dead
      BY <2>2
    <3>2. Good([th EXCEPT ![Me] = T], Prefix(cs, at - 1), Prefix(l, at - 1), {}) /\ cs[at - 1].k = "cfun"
      <4> HIDE DEF at, T
      <4>1. QED BY <1>1, <1>4, <1>5, <2>2, <3>1, LandResume
    <3>3. QED BY <3>2
  <2>3. QED BY <1>5, <2>1, <2>2
<1>7. Len(cut) = at - 1 /\ Len(cut) > 0 /\ Len(cut) \in Nat
  <2>1. Len(cs) \in Nat
    BY <1>4, Top
  <2> HIDE DEF at
  <2>2. QED BY <1>5, <2>1 DEF Prefix
<1> HIDE DEF G, cut
<1>8. CASE cut[Len(cut)].k = "cfun"
  <2> DEFINE b == WithAt(cut[Len(cut)], "failed")
             d == SetTop(cut, b)
  <2>1. Fine(G, d, {}) /\ d[Len(d)] = b /\ b.at = "failed"
    <3>1. cut[Len(cut)] = cut[Len(cut)] /\ "failed" \in {"start", "done", "failed"}
      OBVIOUS
    <3>2. QED BY <1>6, <1>8, <3>1, AtKeeps
  <2>2. cs' = d
    BY <1>3, <1>7, <1>8 DEF SetTop, WithAt
  <2> HIDE DEF d, b
  <2>3. Exempt(d) = {}
    BY <2>1 DEF Exempt
  <2>4. QED BY <1>2, <2>1, <2>2, <2>3 DEF CallsInv
<1>9. CASE cut[Len(cut)].k # "cfun"
  <2>1. Exempt(cut) = {}
    BY <1>9 DEF Exempt
  <2>2. cs' = cut
    BY <1>3, <1>9
  <2>3. QED BY <1>2, <1>6, <2>1, <2>2 DEF CallsInv, Fine
<1>10. QED BY <1>8, <1>9

--------------------------------------------------------------------------------
(* A Lua function runs *)

\* The frames of the function on top, above those of what is below.
LEMMA FramesOnTop ==
  ASSUME NEW l, NEW X, Good(th, cs, l, X), TopA.k \in {"exec", "cfun"}
  PROVE  LET U == th[Me]
             m == Len(U.ci) - Width(TopA)
         IN  /\ m \in Nat /\ m >= 1 /\ Len(U.ci) = m + Width(TopA)
             /\ \A p \in (m + 1)..Len(U.ci) : U.ci[p].kind = KindOf(TopA)
<1> DEFINE U == th[Me]
           n == Len(cs)
           w == Width(TopA)
           m == Len(U.ci) - w
<1>1. /\ n \in Nat /\ n >= 1 /\ TopA = cs[n] /\ Me = cs[n].t /\ U.status = "ok" /\ TopA \in Acts
      /\ Len(U.ci) \in Nat
  BY Top
<1>2. Stacked(cs) /\ Leveled(cs, l)
  BY DEF Good
<1>3. n # 1
  BY <1>1, <1>2 DEF Stacked, A
<1>4. n \in 2..Len(cs) /\ n - 1 \in 1..Len(cs) /\ n \in 1..Len(cs)
  <2>1. n \in Nat /\ n >= 1 /\ n # 1
    BY <1>1, <1>3
  <2> HIDE DEF n
  <2>2. n \in 2..n /\ n - 1 \in 1..n /\ n \in 1..n
    BY <2>1
  <2>3. QED BY <2>2 DEF n
<1>5. Level(cs, l, n) /\ l[n - 1] \in Nat /\ l[n - 1] >= 1 /\ l[n] \in Nat
  BY <1>2, <1>4, SMTT(30) DEF Leveled
<1>6. w \in Nat
  BY <1>1, ActType
<1>7. l[n] = l[n - 1] + w
  <2>1. cs[n].k # "resume"
    BY <1>1
  <2>2. QED BY <1>1, <1>5, <2>1 DEF Level
<1>8. /\ Len(U.ci) = l[n]
      /\ \A p \in (l[n] - w + 1)..l[n] : U.ci[p].kind = KindOf(TopA)
  <2>1. th[cs[n].t].status = "ok"
    BY <1>1
  <2>2. /\ Len(th[cs[n].t].ci) = l[n]
        /\ \A p \in (l[n] - Width(cs[n]) + 1)..l[n] : th[cs[n].t].ci[p].kind = KindOf(cs[n])
    BY <2>1, TopFacts
  <2>3. QED BY <1>1, <2>2
<1> HIDE DEF w, U, n
<1>9. m = l[n - 1]
  BY <1>5, <1>6, <1>7, <1>8
<1>10. Len(U.ci) = m + w
  BY <1>5, <1>6, <1>7, <1>8, <1>9
<1>11. \A p \in (m + 1)..Len(U.ci) : U.ci[p].kind = KindOf(TopA)
  BY <1>8
<1>12. QED BY <1>5, <1>9, <1>10, <1>11 DEF w, U

LEMMA Running ==
  ASSUME CallsInv, TopA.k \in {"exec", "cfun"}, ~(TopA.k = "cfun" /\ TopA.f = "resume" /\ TopA.at = "done")
  PROVE  \E l : Good(th, cs, l, {}) /\ th[Me].status = "ok" /\ th[Me].nCcalls < Limit
<1>1. PICK l : Good(th, cs, l, {})
  BY Begun
<1>2. QED BY <1>1, Top

\* luaV_execute goes on with z frames, of which those that it had below m are the same.
LEMMA ExecKeeps ==
  ASSUME NEW l, NEW X, Good(th, cs, l, X), TopA.k = "exec", NEW z \in Nat \ {0}, NEW T,
         LET m == Len(th[Me].ci) - Width(TopA)
         IN  /\ Continues(T, th[Me], m) /\ Len(T.ci) = m + z
             /\ \A p \in (m + 1)..Len(T.ci) : T.ci[p].kind = "lua",
         T.nCcalls = th[Me].nCcalls
  PROVE  Sound(St([th EXCEPT ![Me] = T], SetTop(cs, Exec(Me, z))), X)
<1> DEFINE m == Len(th[Me].ci) - Width(TopA)
           n == Len(cs)
           b == Exec(Me, z)
<1>1. /\ TopA = cs[n] /\ Me = cs[n].t /\ Me \in Threads /\ n \in Nat /\ n >= 1 /\ cs \in Seq(Acts)
  BY Top
<1>2. m \in Nat
  BY FramesOnTop
<1>3. b \in Acts /\ b.t = Me /\ b.k = "exec" /\ Width(b) = z /\ KindOf(b) = "lua"
  <2>1. b \in Acts
    BY <1>1, NewAct
  <2>2. QED BY <2>1 DEF Exec, Width, KindOf
<1>4. /\ m = Len(th[Me].ci) - Width(cs[n]) /\ Continues(T, th[Me], m) /\ Len(T.ci) = m + Width(b)
      /\ \A p \in (m + 1)..Len(T.ci) : T.ci[p].kind = KindOf(b)
  BY <1>1, <1>3
<1>5. b.k = cs[n].k /\ b.k \in {"exec", "cfun"} /\ b.t = Me
  BY <1>1, <1>3, SMTT(30)
<1> HIDE DEF b, m, n
<1>6. Good([th EXCEPT ![Me] = T], [cs EXCEPT ![n] = b], [l EXCEPT ![n] = Len(T.ci)], X)
  BY <1>1, <1>2, <1>3, <1>4, <1>5, TopKeeps DEF n
<1>7. Fine([th EXCEPT ![Me] = T], SetTop(cs, b), X)
  BY <1>6 DEF Fine, SetTop, n
<1>8. Exempt(SetTop(cs, b)) = {}
  <2>1. SetTop(cs, b)[Len(SetTop(cs, b))] = b
    BY <1>1, <1>3 DEF SetTop, n
  <2>2. QED BY <1>3, <2>1 DEF Exempt
<1>9. QED BY <1>7, <1>8, SoundSt DEF b

LEMMA PopChanged ==
  ASSUME NEW S, NEW c \in Seq(S), Len(c) >= 1, NEW a \in S, NEW b \in S
  PROVE  LET e == [Append(c, a) EXCEPT ![Len(c)] = b]
         IN  Prefix(e, Len(e) - 1) = SetTop(c, b)
<1> DEFINE n == Len(c)
           d == Append(c, a)
           e == [d EXCEPT ![n] = b]
<1>1. n \in Nat /\ n >= 1 /\ d \in Seq(S) /\ Len(d) = n + 1 /\ \A j \in 1..n : d[j] = c[j]
  OBVIOUS
<1>2. e \in Seq(S) /\ Len(e) = n + 1 /\ \A j \in 1..n : e[j] = IF j = n THEN b ELSE c[j]
  <2> HIDE DEF d, n
  <2>1. n \in 1..Len(d)
    BY <1>1
  <2>2. QED BY <1>1, <2>1
<1>3. Len(e) - 1 = n
  BY <1>1, <1>2
<1> HIDE DEF e
<1>4. Prefix(e, n) \in Seq(S) /\ Len(Prefix(e, n)) = n /\ \A j \in 1..n : Prefix(e, n)[j] = e[j]
  <2> HIDE DEF n
  <2>1. n \in 1..Len(e)
    BY <1>1, <1>2
  <2>2. QED BY <1>1, <1>2, <2>1 DEF Prefix
<1>5. /\ SetTop(c, b) \in Seq(S) /\ Len(SetTop(c, b)) = n
      /\ \A j \in 1..n : SetTop(c, b)[j] = IF j = n THEN b ELSE c[j]
  BY <1>1 DEF SetTop
<1>6. Prefix(e, n) = SetTop(c, b)
  <2> HIDE DEF n
  <2>1. \A j \in 1..n : Prefix(e, n)[j] = SetTop(c, b)[j]
    BY <1>2, <1>4, <1>5
  <2>2. QED BY <1>1, <1>4, <1>5, <2>1, SMTT(30)
<1>7. QED BY <1>3, <1>6 DEF e

LEMMA OpCallKeeps == ASSUME CallsInv, OpCall PROVE CallsInv'
<1> DEFINE a == A("exec", Me)
           s == EnterCI(Now, Me, "lua", a)
           U == th[Me]
           n == Len(cs)
           k == TopA.n
<1>1. TopA.k = "exec"
  BY DEF OpCall, Runs, Active
<1>2. Becomes(IF s.cs[Len(s.cs)].k = "exec" THEN Pop([s EXCEPT !.cs[n].n = @ + 1]) ELSE s)
  BY DEF OpCall
<1>3. PICK l : Good(th, cs, l, {}) /\ U.status = "ok" /\ U.nCcalls < Limit
  BY <1>1, Running
<1>4. /\ Me = cs[n].t /\ Now = St(th, cs) /\ TopA = cs[n] /\ cs \in Seq(Acts) /\ n \in Nat /\ n >= 1
      /\ TopA \in Acts /\ Me \in Threads
  BY <1>3, Top
<1>5. k \in Nat /\ k >= 1 /\ TopA = Exec(Me, k) /\ Width(TopA) = k
  <2>1. k \in Nat /\ k >= 1 /\ TopA = Exec(TopA.t, k)
    BY <1>1, <1>4, ActType
  <2>2. QED BY <1>1, <2>1 DEF Me, Width
<1>6. \/ Sound(s, {}) /\ s.cs[Len(s.cs)].k \in {"raise", "throw"}
      \/ \E T : Entered(T, U, "lua") /\ s = Grown(th, cs, Me, T, a)
  <2> HIDE DEF a
  <2>1. QED BY <1>3, <1>4, EnterOrFail
<1>7. CASE Sound(s, {}) /\ s.cs[Len(s.cs)].k \in {"raise", "throw"}
  <2>1. Becomes(s)
    BY <1>2, <1>7
  <2>2. QED BY <1>7, <2>1, Ended
<1>8. ASSUME NEW T, Entered(T, U, "lua"), s = Grown(th, cs, Me, T, a) PROVE CallsInv'
  <2> DEFINE G == [th EXCEPT ![Me] = T]
             b == Exec(Me, k + 1)
             e == [Append(cs, a) EXCEPT ![n] = b]
  <2>1. s = St(G, Append(cs, a))
    BY <1>8 DEF Grown
  <2>2. s.cs[Len(s.cs)].k = "exec"
    <3>1. s.cs = Append(cs, a)
      <4> HIDE DEF s, G, a
      <4>1. QED BY <2>1 DEF St
    <3>2. Append(cs, a)[Len(Append(cs, a))] = a
      BY <1>4
    <3>3. a.k = "exec"
      BY DEF A
    <3> HIDE DEF s, a
    <3>4. QED BY <3>1, <3>2, <3>3
  <2>3. [s EXCEPT !.cs[n].n = s.cs[n].n + 1] = St(G, e)
    <3>1. Append(cs, a)[n] = Exec(Me, k)
      BY <1>4, <1>5
    <3>2. [Exec(Me, k) EXCEPT !.n = k + 1] = b /\ Exec(Me, k).n = k
      BY DEF Exec
    <3>3. s.cs = Append(cs, a) /\ s = [th |-> G, cs |-> Append(cs, a)]
      <4> HIDE DEF s, G, a
      <4>1. QED BY <2>1 DEF St
    <3>4. [s EXCEPT !.cs = [Append(cs, a) EXCEPT ![n] = [Exec(Me, k) EXCEPT !.n = k + 1]]] = St(G, e)
      <4>1. [Append(cs, a) EXCEPT ![n] = [Exec(Me, k) EXCEPT !.n = k + 1]] = e
        BY <3>2
      <4> HIDE DEF s, G, a, b, e
      <4>2. [s EXCEPT !.cs = e] = St(G, e)
        BY <3>3 DEF St
      <4>3. QED BY <4>1, <4>2
    <3> HIDE DEF s, G, a, b
    <3>5. QED BY <3>1, <3>2, <3>3, <3>4
  <2>4. Pop(St(G, e)) = St(G, SetTop(cs, b))
    <3>1. cs \in Seq(Acts \cup {a, b}) /\ Len(cs) >= 1
      BY <1>4
    <3>2. Prefix(e, Len(e) - 1) = SetTop(cs, b)
      <4> HIDE DEF a, b
      <4>1. a \in Acts \cup {a, b} /\ b \in Acts \cup {a, b}
        OBVIOUS
      <4>2. QED BY <3>1, <4>1, PopChanged
    <3>3. Pop(St(G, e)) = St(G, Prefix(e, Len(e) - 1))
      BY StOps
    <3>4. QED BY <3>2, <3>3
  <2>5. Sound(St(G, SetTop(cs, b)), {})
    <3> DEFINE m == Len(U.ci) - Width(TopA)
    <3>1. m \in Nat /\ Len(U.ci) = m + k /\ \A p \in (m + 1)..Len(U.ci) : U.ci[p].kind = "lua"
      <4>1. KindOf(TopA) = "lua"
        BY <1>1 DEF KindOf
      <4>2. QED BY <1>1, <1>3, <1>5, <4>1, FramesOnTop
    <3>2. Len(T.ci) = Len(U.ci) + 1 /\ T.ci[Len(T.ci)].kind = "lua"
          /\ \A p \in 1..Len(U.ci) : T.ci[p].kind = U.ci[p].kind
      BY <1>8 DEF Entered
    <3> HIDE DEF m, U
    <3>3. Len(T.ci) = m + (k + 1) /\ Len(T.ci) >= m /\ m <= Len(U.ci)
      BY <1>5, <3>1, <3>2
    <3>4. Continues(T, U, m)
      BY <1>8, <3>1, <3>2, <3>3 DEF Continues, Entered
    <3>5. \A p \in (m + 1)..Len(T.ci) : T.ci[p].kind = "lua"
      <4>1. \A p \in (m + 1)..Len(T.ci) : p = Len(T.ci) \/ (p \in (m + 1)..Len(U.ci) /\ p \in 1..Len(U.ci))
        BY <1>5, <3>1, <3>2
      <4>2. QED BY <3>1, <3>2, <4>1
    <3>6. T.nCcalls = th[Me].nCcalls /\ k + 1 \in Nat \ {0}
      BY <1>5, <1>8 DEF Entered, U
    <3>7. QED BY <1>1, <1>3, <3>3, <3>4, <3>5, <3>6, ExecKeeps DEF m, U
  <2>6. Becomes(St(G, SetTop(cs, b)))
    <3>1. Becomes(Pop([s EXCEPT !.cs[n].n = @ + 1]))
      BY <1>2, <2>2
    <3> HIDE DEF s, G, b, e
    <3>2. QED BY <2>3, <2>4, <3>1
  <2>7. QED BY <2>5, <2>6, Ended
<1>9. QED BY <1>6, <1>7, <1>8

LEMMA OpCallCKeeps == ASSUME CallsInv, OpCallC PROVE CallsInv'
<1>1. PICK f \in CFunctions : TopA.k = "exec" /\ Becomes(luaD_precall(Now, Me, f))
  BY DEF OpCallC, Runs, Active
<1>2. PICK l : Good(th, cs, l, {}) /\ th[Me].status = "ok" /\ th[Me].nCcalls < Limit
  BY <1>1, Running
<1>3. Me = cs[Len(cs)].t /\ Now = St(th, cs) /\ TopA = cs[Len(cs)]
  BY <1>2, Top
<1>4. f \in Callees /\ f # "lua" /\ cs[Len(cs)].k \in {"call", "exec"}
  BY <1>1, <1>3 DEF Callees, CFunctions
<1>5. cs[Len(cs)].k \in (IF f = "lua" THEN {"call", "resume"} ELSE {"call", "exec"})
  BY <1>4
<1>6. Sound(luaD_precall(St(th, cs), Me, f), {})
  BY ONLY <1>2, <1>3, <1>4, <1>5, PrecallKeeps
<1>7. QED BY <1>1, <1>3, <1>6, Ended

LEMMA OpMetaKeeps == ASSUME CallsInv, OpMeta PROVE CallsInv'
<1>1. TopA.k = "exec" /\ Becomes(luaD_call(Now, Me, "lua"))
  BY DEF OpMeta, Runs, Active
<1>2. PICK l : Good(th, cs, l, {}) /\ th[Me].status = "ok" /\ th[Me].nCcalls < Limit
  BY <1>1, Running
<1>3. Me = cs[Len(cs)].t /\ Now = St(th, cs) /\ TopA = cs[Len(cs)]
  BY <1>2, Top
<1>4. ~(cs[Len(cs)].k = "cfun" /\ cs[Len(cs)].f = "resume") /\ "lua" \in Callees
  BY <1>1, <1>3 DEF Callees
<1>5. Sound(luaD_call(St(th, cs), Me, "lua"), {})
  BY ONLY <1>2, <1>3, <1>4, CallKeeps
<1>6. QED BY <1>1, <1>3, <1>5, Ended

LEMMA FaultKeeps ==
  ASSUME CallsInv, TopA.k \in {"exec", "cfun"}, Exempt(cs) = {}, Becomes(luaG_runerror(Now, Me))
  PROVE  CallsInv'
<1>1. PICK l : Good(th, cs, l, {})
  BY Begun
<1>2. Me = cs[Len(cs)].t /\ Now = St(th, cs) /\ th[Me].status = "ok" /\ th[Me].nCcalls < Limit
  BY <1>1, Top
<1>3. Sound(luaG_runerror(St(th, cs), Me), {})
  BY ONLY <1>1, <1>2, RaiseKeeps
<1>4. QED BY <1>2, <1>3, Ended

LEMMA OpFaultKeeps == ASSUME CallsInv, OpFault PROVE CallsInv'
<1>1. TopA.k = "exec" /\ Becomes(luaG_runerror(Now, Me))
  BY DEF OpFault, Active
<1>2. QED BY <1>1, Begun, FaultKeeps

LEMMA ErrorKeeps == ASSUME CallsInv, Error PROVE CallsInv'
<1>1. TopA.k = "cfun" /\ TopA.f = "error" /\ Becomes(luaG_runerror(Now, Me))
  BY DEF Error, In, Active
<1>2. QED BY <1>1, Begun, FaultKeeps

LEMMA OpClosureKeeps == ASSUME CallsInv, OpClosure PROVE CallsInv'
<1> DEFINE U == th[Me]
           T == [U EXCEPT !.open = U.open \cup {Frame(U).base}]
           G == [th EXCEPT ![Me] = T]
<1>1. TopA.k = "exec" /\ Becomes([Now EXCEPT !.th[Me].open = @ \cup {Frame(th[Me]).base}])
  BY DEF OpClosure, Active
<1>2. PICK l : Good(th, cs, l, {}) /\ U.status = "ok"
  BY <1>1, Running
<1>3. /\ Me = cs[Len(cs)].t /\ Now = St(th, cs) /\ TopA = cs[Len(cs)] /\ TopA \in Acts
      /\ ThreadOK(U) /\ U \in lua_State /\ U.life = "started" /\ Len(U.ci) \in Nat /\ Len(U.ci) >= 1
  BY <1>2, Top
<1>4. U.ci[Len(U.ci)].kind = "lua"
  <2>1. KindOf(TopA) = "lua" /\ Width(TopA) \in Nat /\ Width(TopA) >= 1
    BY <1>1, <1>3, ActType DEF KindOf, Width
  <2>2. \A p \in (Len(U.ci) - Width(TopA) + 1)..Len(U.ci) : U.ci[p].kind = KindOf(TopA)
    BY <1>1, <1>2, FramesOnTop
  <2> HIDE DEF U
  <2>3. Len(U.ci) \in (Len(U.ci) - Width(TopA) + 1)..Len(U.ci)
    BY <1>3, <2>1
  <2>4. QED BY <2>1, <2>2, <2>3
<1>5. Frame(U).base = 2 * Len(U.ci) - 1 /\ Frame(U).base \in Nat
  <2>1. Len(U.ci) \in DOMAIN U.ci
    BY <1>3, SMTT(30) DEF lua_State
  <2>2. Frame(U).base = 2 * Len(U.ci) - 1
    BY <1>3, <2>1, SMTT(30) DEF ThreadOK, Frame
  <2> HIDE DEF U
  <2>3. QED BY <1>3, <2>2
<1>6. /\ T \in lua_State /\ T.ci = U.ci /\ T.status = "ok" /\ T.life = "started" /\ T.nCcalls = U.nCcalls
      /\ T.baseCcalls = U.baseCcalls /\ T.open = U.open \cup {Frame(U).base}
  BY <1>2, <1>3, <1>5, SMTT(30) DEF lua_State
<1>7. ThreadOK(T)
  <2>1. \A x \in T.open : \E p \in DOMAIN T.ci : x = 2 * p - 1 /\ T.ci[p].kind = "lua"
    <3>1. Len(U.ci) \in DOMAIN U.ci
      BY <1>3 DEF lua_State
    <3>2. \A x \in U.open : \E p \in DOMAIN U.ci : x = 2 * p - 1 /\ U.ci[p].kind = "lua"
      BY <1>3 DEF ThreadOK
    <3> HIDE DEF T, U
    <3>3. QED BY <1>4, <1>5, <1>6, <3>1, <3>2
  <2> HIDE DEF T
  <2>2. QED BY <1>3, <1>6, <2>1 DEF ThreadOK
<1>8. Good(G, cs, l, {})
  <2>1. Continues(T, U, Len(U.ci)) /\ Len(T.ci) = Len(U.ci)
    <3> HIDE DEF T, U
    <3>1. QED BY <1>3, <1>6, <1>7 DEF Continues
  <2>2. Good(th, cs, l, {}) /\ Me = cs[Len(cs)].t /\ th[Me].status = "ok"
        /\ Continues(T, th[Me], Len(th[Me].ci)) /\ Len(T.ci) = Len(th[Me].ci)
        /\ T.nCcalls = th[Me].nCcalls
    BY <1>2, <1>3, <1>6, <2>1
  <2> HIDE DEF T
  <2>3. QED BY ONLY <2>2, StayKeeps
<1>9. Sound(St(G, cs), {})
  BY <1>1, <1>8, Begun, SoundSt DEF Fine
<1>10. [Now EXCEPT !.th[Me].open = @ \cup {Frame(th[Me]).base}] = St(G, cs)
  BY DEF Now, St
<1>11. QED BY <1>1, <1>9, <1>10, Ended

\* luaV_execute is on top: its frames are those of Lua functions.
LEMMA ExecTop ==
  ASSUME NEW l, NEW X, Good(th, cs, l, X), TopA.k = "exec"
  PROVE  LET U == th[Me]
             k == TopA.n
             m == Len(U.ci) - k
         IN  /\ k \in Nat /\ k >= 1 /\ TopA = Exec(Me, k) /\ Width(TopA) = k
             /\ m \in Nat /\ m >= 1 /\ Len(U.ci) = m + k
             /\ \A p \in (m + 1)..Len(U.ci) : U.ci[p].kind = "lua"
<1>1. TopA \in Acts /\ Me = TopA.t
  BY Top
<1>2. TopA.n \in Nat /\ TopA.n >= 1 /\ TopA = Exec(Me, TopA.n) /\ Width(TopA) = TopA.n /\ KindOf(TopA) = "lua"
  BY <1>1, ActType DEF Width, KindOf
<1>3. LET U == th[Me]
          m == Len(U.ci) - Width(TopA)
      IN  /\ m \in Nat /\ m >= 1 /\ Len(U.ci) = m + Width(TopA)
          /\ \A p \in (m + 1)..Len(U.ci) : U.ci[p].kind = KindOf(TopA)
  BY FramesOnTop
<1>4. QED BY <1>2, <1>3

LEMMA OpReturnKeeps == ASSUME CallsInv, OpReturn PROVE CallsInv'
<1> DEFINE U == th[Me]
           V == luaF_close(U, Frame(U).base)
           T == luaD_poscall(V)
           G == [th EXCEPT ![Me] = T]
           n == Len(cs)
           k == TopA.n
           m == Len(U.ci) - k
<1>1. TopA.k = "exec"
  BY DEF OpReturn, Active
<1>2. Becomes(IF k = 1 THEN Pop(St(G, cs)) ELSE [St(G, cs) EXCEPT !.cs[n].n = @ - 1])
  <2>1. [Now EXCEPT !.th[Me] = T] = St(G, cs)
    BY DEF Now, St
  <2>2. QED BY <2>1 DEF OpReturn
<1>3. PICK l : Good(th, cs, l, {}) /\ U.status = "ok"
  BY <1>1, Running
<1>4. /\ Me = cs[n].t /\ TopA = cs[n] /\ n \in Nat /\ n >= 1 /\ cs \in Seq(Acts)
      /\ ThreadOK(U) /\ U.life = "started" /\ U.nCcalls \in Nat
  BY <1>3, Top
<1>5. /\ k \in Nat /\ k >= 1 /\ TopA = Exec(Me, k) /\ Width(TopA) = k
      /\ m \in Nat /\ m >= 1 /\ Len(U.ci) = m + k
      /\ \A p \in (m + 1)..Len(U.ci) : U.ci[p].kind = "lua"
  BY <1>1, <1>3, ExecTop
<1>6. Returned(T, U, Len(U.ci) - 1) /\ T.nCcalls = U.nCcalls
  <2>1. Len(U.ci) >= 2
    <3> HIDE DEF m, U, k
    <3>1. QED BY <1>5
  <2> HIDE DEF U
  <2>2. QED BY <1>3, <1>4, <2>1, PoscallOK DEF V, T
<1> HIDE DEF T
<1>7. CASE k = 1
  <2>1. /\ Good(G, Prefix(cs, n - 1), Prefix(l, n - 1), {})
        /\ Exempt(Prefix(cs, n - 1)) = {}
    <3>1. Returned(T, th[Me], Len(th[Me].ci) - Width(cs[n])) /\ cs[n].k = "exec"
      BY <1>1, <1>4, <1>5, <1>6, <1>7
    <3>2. T.nCcalls = th[Me].nCcalls - 0
      BY <1>4, <1>6
    <3>3. T.nCcalls = th[Me].nCcalls - (IF cs[n].k = "call" THEN 1 ELSE 0)
      BY <3>1, <3>2
    <3>4. cs[n].k \in {"call", "pcall", "exec", "cfun", "raise", "handler"}
          /\ cs[n].k \notin {"raise", "handler"}
      BY <3>1
    <3>5. QED BY <1>3, <1>4, <3>1, <3>3, <3>4, PopKeeps, SMTT(30)
  <2>2. Sound(St(G, Prefix(cs, n - 1)), {})
    BY <2>1, SoundSt DEF Fine
  <2>3. Pop(St(G, cs)) = St(G, Prefix(cs, n - 1))
    BY StOps
  <2>4. QED BY <1>2, <1>7, <2>2, <2>3, Ended
<1>8. CASE k # 1
  <2> DEFINE z == k - 1
             b == Exec(Me, z)
  <2>1. Sound(St(G, SetTop(cs, b)), {})
    <3>1. Len(T.ci) = Len(U.ci) - 1 /\ (\A p \in 1..(Len(U.ci) - 1) : T.ci[p].kind = U.ci[p].kind)
          /\ ThreadOK(T) /\ T.status = "ok" /\ T.life = "started" /\ T.baseCcalls = U.baseCcalls
      BY <1>4, <1>6 DEF Returned
    <3>2. T.nCcalls = th[Me].nCcalls /\ m = Len(th[Me].ci) - Width(TopA)
      BY <1>5, <1>6
    <3> HIDE DEF m, U, k
    <3>3. z \in Nat \ {0} /\ Len(T.ci) = m + z /\ Len(T.ci) >= m /\ m <= Len(U.ci) - 1
      BY <1>5, <1>8, <3>1
    <3>4. Continues(T, U, m)
      <4>1. \A p \in 1..m : p \in 1..(Len(U.ci) - 1)
        BY <1>5, <3>3
      <4>2. QED BY <3>1, <3>3, <4>1 DEF Continues
    <3>5. \A p \in (m + 1)..Len(T.ci) : T.ci[p].kind = "lua"
      <4>1. \A p \in (m + 1)..Len(T.ci) : p \in (m + 1)..Len(U.ci) /\ p \in 1..(Len(U.ci) - 1)
        BY <1>5, <3>1, <3>3
      <4>2. QED BY <1>5, <3>1, <4>1
    <3> HIDE DEF z
    <3>6. QED BY <1>1, <1>3, <3>2, <3>3, <3>4, <3>5, ExecKeeps DEF U
  <2>2. [St(G, cs) EXCEPT !.cs[n].n = @ - 1] = St(G, SetTop(cs, b))
    <3>1. cs[n] = Exec(Me, k)
      BY <1>4, <1>5
    <3>2. [cs[n] EXCEPT !.n = cs[n].n - 1] = b
      BY <3>1 DEF Exec
    <3>3. [St(G, cs) EXCEPT !.cs[n].n = @ - 1] = St(G, [cs EXCEPT ![n] = [cs[n] EXCEPT !.n = cs[n].n - 1]])
      BY DEF St
    <3>4. QED BY <3>2, <3>3 DEF SetTop
  <2>3. QED BY <1>2, <1>8, <2>1, <2>2, Ended
<1>9. QED BY <1>7, <1>8

LEMMA OpTailCallKeeps == ASSUME CallsInv, OpTailCall PROVE CallsInv'
<1> DEFINE a == A("exec", Me)
           s == EnterCI(Now, Me, "lua", a)
           U == th[Me]
           n == Len(cs)
           base == Frame(U).base
<1>1. TopA.k = "exec"
  BY DEF OpTailCall, Active
<1>2. Becomes(IF s.cs[Len(s.cs)].k = "exec"
              THEN Pop([s EXCEPT !.th[Me] = luaD_poscall(luaF_close(@, base))]) ELSE s)
  BY DEF OpTailCall
<1>3. PICK l : Good(th, cs, l, {}) /\ U.status = "ok" /\ U.nCcalls < Limit
  BY <1>1, Running
<1>4. /\ Me = cs[n].t /\ Now = St(th, cs) /\ TopA = cs[n] /\ cs \in Seq(Acts) /\ n \in Nat /\ n >= 1
      /\ Me \in Threads /\ ThreadOK(U) /\ U.life = "started" /\ th \in [Threads -> lua_State]
      /\ Len(U.ci) \in Nat /\ Len(U.ci) >= 1
  BY <1>3, Top
<1>6. \/ Sound(s, {}) /\ s.cs[Len(s.cs)].k \in {"raise", "throw"}
      \/ \E T : Entered(T, U, "lua") /\ s = Grown(th, cs, Me, T, a)
  <2> HIDE DEF a
  <2>1. QED BY <1>3, <1>4, EnterOrFail, SMTT(30)
<1>7. CASE Sound(s, {}) /\ s.cs[Len(s.cs)].k \in {"raise", "throw"}
  <2>1. Becomes(s)
    BY <1>2, <1>7
  <2>2. QED BY <1>7, <2>1, Ended
<1>8. ASSUME NEW T, Entered(T, U, "lua"), s = Grown(th, cs, Me, T, a) PROVE CallsInv'
  <2> DEFINE V == luaD_poscall(luaF_close(T, base))
             G == [th EXCEPT ![Me] = T]
             K == [th EXCEPT ![Me] = V]
  <2>1. s = St(G, Append(cs, a))
    BY <1>8 DEF Grown
  <2>2. s.cs = Append(cs, a) /\ s.th = G /\ s = [th |-> G, cs |-> Append(cs, a)]
    <3> HIDE DEF s, G, a
    <3>1. QED BY <2>1 DEF St
  <2>3. s.cs[Len(s.cs)].k = "exec"
    <3>2. Append(cs, a)[Len(Append(cs, a))] = a
      BY <1>4
    <3>3. a.k = "exec"
      BY DEF A
    <3> HIDE DEF s, a
    <3>4. QED BY <2>2, <3>2, <3>3
  <2>4. [s EXCEPT !.th[Me] = luaD_poscall(luaF_close(@, base))] = St(K, Append(cs, a))
    <3>1. G[Me] = T
      BY <1>4
    <3>2. [G EXCEPT ![Me] = V] = K
      BY <1>4
    <3> HIDE DEF base, a
    <3>3. [G EXCEPT ![Me] = luaD_poscall(luaF_close(G[Me], base))] = K
      BY <3>1, <3>2
    <3> HIDE DEF G, K, s
    <3>4. [St(G, Append(cs, a)) EXCEPT !.th[Me] = luaD_poscall(luaF_close(@, base))] = St(K, Append(cs, a))
      BY <3>3, SMTT(30) DEF St
    <3>5. QED BY <2>1, <3>4
  <2>5. Pop(St(K, Append(cs, a))) = St(K, cs)
    <3>1. Prefix(Append(cs, a), Len(Append(cs, a)) - 1) = cs
      <4>1. a = a /\ cs \in Seq(Acts \cup {a})
        BY <1>4
      <4> HIDE DEF a
      <4>2. Append(cs, a) \in Seq(Acts \cup {a}) /\ Len(Append(cs, a)) = n + 1
        BY <4>1
      <4>3. Len(Append(cs, a)) - 1 = n
        BY <1>4, <4>2
      <4> HIDE DEF n
      <4>4. Prefix(Append(cs, a), n) = cs
        BY <1>4, <4>1, <4>2 DEF Prefix, n
      <4>5. QED BY <4>3, <4>4
    <3> HIDE DEF K, a
    <3>2. QED BY <3>1, StOps, ZenonT(30)
  <2>6. Becomes(St(K, cs))
    <3>1. Becomes(Pop([s EXCEPT !.th[Me] = luaD_poscall(luaF_close(@, base))]))
      BY <1>2, <2>3
    <3> HIDE DEF s, K, base, a
    <3>2. QED BY <2>4, <2>5, <3>1
  <2>7. /\ ThreadOK(V) /\ V.status = "ok" /\ V.life = "started" /\ V.baseCcalls = U.baseCcalls
        /\ V.nCcalls = U.nCcalls /\ Len(V.ci) = Len(U.ci)
        /\ \A p \in 1..Len(U.ci) : V.ci[p].kind = U.ci[p].kind
    <3>1. /\ ThreadOK(T) /\ T.status = "ok" /\ T.life = "started" /\ T.baseCcalls = U.baseCcalls
          /\ T.nCcalls = U.nCcalls /\ Len(T.ci) = Len(U.ci) + 1
          /\ \A p \in 1..Len(U.ci) : T.ci[p].kind = U.ci[p].kind
      BY <1>8, SMTT(30) DEF Entered
    <3>2. base = 2 * Len(U.ci) - 1
      <4>1. Len(U.ci) \in DOMAIN U.ci
        BY <1>4 DEF ThreadOK, lua_State
      <4>2. QED BY <1>4, <4>1, SMTT(30) DEF ThreadOK, Frame
    <3> HIDE DEF base, U
    <3>3. T \in lua_State
      BY <3>1 DEF ThreadOK
    <3> DEFINE W == luaF_close(T, base)
    <3>4. /\ W \in lua_State /\ W.ci = T.ci /\ W.status = "ok" /\ W.life = T.life
          /\ W.baseCcalls = T.baseCcalls /\ W.nCcalls = T.nCcalls
          /\ W.open = {p \in T.open : p < base}
      BY <3>1, <3>3 DEF luaF_close, lua_State
    <3> HIDE DEF W
    <3>5. V = luaD_poscall(W) /\ T.ci \in Seq(CallInfo) /\ Len(W.ci) - 1 = Len(U.ci)
      BY <1>4, <3>1, <3>3, <3>4 DEF W, lua_State
    <3>6. /\ V \in lua_State /\ V.ci = SubSeq(T.ci, 1, Len(U.ci)) /\ V.status = "ok" /\ V.life = T.life
          /\ V.baseCcalls = T.baseCcalls /\ V.nCcalls = T.nCcalls /\ V.open = W.open
      <4>1. SubSeq(T.ci, 1, Len(U.ci)) \in Seq(CallInfo)
        BY <1>4, <3>1, <3>5
      <4>2. V = [W EXCEPT !.ci = SubSeq(T.ci, 1, Len(U.ci))]
        BY <3>4, <3>5 DEF luaD_poscall
      <4> HIDE DEF V
      <4>3. QED BY <3>4, <4>1, <4>2 DEF lua_State
    <3> HIDE DEF V
    <3>7. \A x \in V.open : x \in T.open /\ x < 2 * Len(U.ci)
      <4>1. T.open \subseteq Nat
        BY <3>3 DEF lua_State
      <4>2. QED BY <1>4, <3>2, <3>4, <3>6, <4>1
    <3>8. Len(U.ci) \in 1..Len(T.ci) /\ V.status # "yield"
      BY <1>4, <3>1, <3>6
    <3>9. ThreadOK(V) /\ Len(V.ci) = Len(U.ci) /\ \A p \in 1..Len(U.ci) : V.ci[p].kind = T.ci[p].kind
      BY <3>1, <3>6, <3>7, <3>8, CutFrames
    <3>10. QED BY <3>1, <3>6, <3>9
  <2>8. Good(K, cs, l, {})
    <3> HIDE DEF V
    <3>1. Continues(V, U, Len(U.ci))
      <4> HIDE DEF U
      <4>1. QED BY <1>4, <2>7 DEF Continues
    <3>2. QED BY <1>3, <1>4, <2>7, <3>1, StayKeeps
  <2>9. Sound(St(K, cs), {})
    BY <1>1, <2>8, Begun, SoundSt DEF Fine
  <2>10. QED BY <2>6, <2>9, Ended
<1>9. QED BY <1>6, <1>7, <1>8

--------------------------------------------------------------------------------
(* C functions *)

\* A C function has a frame of its own, above that of its caller.
LEMMA CFrame ==
  ASSUME NEW H, NEW c, NEW l, NEW X, Good(H, c, l, X), c[Len(c)].k = "cfun", NEW t, t = c[Len(c)].t
  PROVE  /\ ThreadOK(H[t]) /\ H[t].status = "ok" /\ t \in Threads /\ Len(H[t].ci) \in Nat
         /\ Len(H[t].ci) >= 2 /\ H[t].ci[Len(H[t].ci)].kind = "C" /\ H[t].nCcalls \in Nat
<1> DEFINE U == H[t]
           n == Len(c)
<1>1. /\ n \in Nat /\ n >= 1 /\ t \in Threads /\ l[n] \in Nat /\ ThreadOK(U)
      /\ U.status = "ok" /\ Len(U.ci) = l[n] /\ U.nCcalls \in Nat
      /\ \A p \in (l[n] - Width(c[n]) + 1)..l[n] : U.ci[p].kind = KindOf(c[n])
  BY TopFacts
<1>2. Width(c[n]) = 1 /\ KindOf(c[n]) = "C"
  BY DEF Width, KindOf
<1>3. n # 1
  BY DEF Good, Stacked, A
<1>4. n \in 2..Len(c) /\ n - 1 \in 1..Len(c)
  <2> HIDE DEF n
  <2>1. n \in 2..n /\ n - 1 \in 1..n
    BY <1>1, <1>3
  <2>2. QED BY <2>1 DEF n
<1>5. l[n] = l[n - 1] + 1 /\ l[n - 1] >= 1 /\ l[n - 1] \in Nat
  <2>1. Level(c, l, n) /\ l[n - 1] >= 1 /\ l[n - 1] \in Nat
    BY <1>4, SMTT(30) DEF Good, Leveled
  <2>2. QED BY <1>2, <2>1 DEF Level
<1> HIDE DEF U, n
<1>6. l[n] >= 2 /\ l[n] \in (l[n] - 1 + 1)..l[n]
  BY <1>5
<1>7. QED BY <1>1, <1>2, <1>6 DEF U

\* A C function returns to what called it.
LEMMA CReturnKeeps ==
  ASSUME NEW H, NEW c, NEW l, NEW X, Good(H, c, l, X), c[Len(c)].k = "cfun", NEW t, t = c[Len(c)].t
  PROVE  Sound(CReturn(St(H, c), t), X)
<1> DEFINE U == H[t]
           T == luaD_poscall(U)
           G == [H EXCEPT ![t] = T]
           n == Len(c)
<1>1. /\ ThreadOK(U) /\ U.status = "ok" /\ Len(U.ci) >= 2 /\ U.ci[Len(U.ci)].kind = "C" /\ U.nCcalls \in Nat
  BY CFrame
<1>2. Returned(T, U, Len(U.ci) - 1) /\ T.nCcalls = U.nCcalls
  <2> HIDE DEF U
  <2>1. QED BY <1>1, PoscallOK
<1>3. CReturn(St(H, c), t) = St(G, Prefix(c, n - 1))
  <2>1. [St(H, c) EXCEPT !.th[t] = luaD_poscall(@)] = St(G, c)
    BY DEF St
  <2> HIDE DEF G
  <2>2. Pop(St(G, c)) = St(G, Prefix(c, n - 1))
    BY StOps
  <2>3. QED BY <2>1, <2>2 DEF CReturn
<1> HIDE DEF T
<1>4. Good(G, Prefix(c, n - 1), Prefix(l, n - 1), X) /\ Exempt(Prefix(c, n - 1)) = {}
  <2>1. Returned(T, H[t], Len(H[t].ci) - Width(c[n]))
    BY <1>2 DEF Width
  <2>2. T.nCcalls = H[t].nCcalls - 0
    BY <1>1, <1>2
  <2>3. T.nCcalls = H[t].nCcalls - (IF c[n].k = "call" THEN 1 ELSE 0)
    BY <2>2
  <2>4. c[n].k \in {"call", "pcall", "exec", "cfun", "raise", "handler"}
        /\ c[n].k \notin {"raise", "handler"}
    OBVIOUS
  <2>5. QED BY <2>1, <2>3, <2>4, PopKeeps
<1>5. QED BY <1>3, <1>4, SoundSt DEF Fine

LEMMA CallerGoesOn ==
  ASSUME NEW l, Good(th, cs, l, {}), TopA.k = "cfun", Becomes(CReturn(Now, Me))
  PROVE  CallsInv'
<1>1. cs[Len(cs)].k = "cfun" /\ Me = cs[Len(cs)].t /\ Now = St(th, cs)
  BY Top
<1>2. Sound(CReturn(St(th, cs), Me), {})
  BY <1>1, CReturnKeeps
<1>3. QED BY <1>1, <1>2, Ended

LEMMA PCallStarts ==
  ASSUME CallsInv, TopA.k = "cfun", TopA.f # "resume", NEW callee \in Callees, NEW ef \in BOOLEAN,
         Becomes(luaD_pcall(At(Now, "done"), Me, callee, ef))
  PROVE  CallsInv'
<1> DEFINE b == WithAt(TopA, "done")
           d == SetTop(cs, b)
<1>1. PICK l : Good(th, cs, l, {})
  BY Begun
<1>2. /\ TopA = cs[Len(cs)] /\ Me = TopA.t /\ th[Me].status = "ok" /\ th[Me].nCcalls < Limit
      /\ Len(cs) \in Nat
  BY <1>1, Top
<1>3. /\ Fine(th, d, {}) /\ Len(d) = Len(cs) /\ d[Len(cs)] = b
      /\ b.k = "cfun" /\ b.t = TopA.t /\ b.f = TopA.f
  <2>1. "done" \in {"start", "done", "failed"}
    OBVIOUS
  <2>2. QED BY <1>1, <1>2, <2>1, AtKeeps
<1>4. At(Now, "done") = St(th, d)
  BY <1>2, SMTT(30) DEF At, Now, St, SetTop, WithAt
<1> HIDE DEF b, d
<1>5. PICK k : Good(th, d, k, {})
  BY <1>3 DEF Fine
<1>6. Me = d[Len(d)].t /\ ~(d[Len(d)].k = "cfun" /\ d[Len(d)].f = "resume")
  BY <1>2, <1>3
<1>7. Sound(luaD_pcall(St(th, d), Me, callee, ef), {})
  BY <1>2, <1>5, <1>6, PcallKeeps
<1>8. QED BY <1>4, <1>7, Ended

LEMMA PCallKeeps == ASSUME CallsInv, PCall PROVE CallsInv'
<1>1. CASE In("pcall", "start") /\ \E f \in {"lua", "yield"} : Becomes(luaD_pcall(At(Now, "done"), Me, f, FALSE))
  <2>1. PICK f \in {"lua", "yield"} : Becomes(luaD_pcall(At(Now, "done"), Me, f, FALSE))
    BY <1>1, Zenon
  <2>2. TopA.k = "cfun" /\ TopA.f # "resume" /\ f \in Callees
    BY <1>1 DEF In, Active, Callees, CFunctions
  <2>3. QED BY <2>1, <2>2, PCallStarts
<1>2. CASE In("xpcall", "start") /\ Becomes(luaD_pcall(At(Now, "done"), Me, "lua", TRUE))
  <2>1. TopA.k = "cfun" /\ TopA.f # "resume" /\ "lua" \in Callees
    BY <1>2 DEF In, Active, Callees, CFunctions
  <2>2. QED BY <1>2, <2>1, PCallStarts
<1>3. CASE /\ TopA.k = "cfun" /\ TopA.f \in {"pcall", "xpcall"} /\ TopA.at \in {"done", "failed"}
           /\ Becomes(CReturn(Now, Me))
  <2>1. \E l : Good(th, cs, l, {})
    BY <1>3, Begun
  <2>2. QED BY <1>3, <2>1, CallerGoesOn
<1>4. QED BY <1>1, <1>2, <1>3 DEF PCall

\* A thread on the C stack has started, and runs unless the resume on top is its own.
LEMMA OnStackOK ==
  ASSUME NEW H, NEW c, NEW l, NEW X, Good(H, c, l, X), NEW t \in Threads, OnStack(c, t)
  PROVE  /\ H[t].life = "started"
         /\ H[t].status # "ok" => H[t].status = "yield" /\ c[Len(c)].k = "resume" /\ c[Len(c)].t = t
<1>1. PICK i \in DOMAIN c : c[i].t = t
  BY DEF OnStack
<1>2. i \in 1..Len(c)
  BY DEF Good, Stacked
<1>3. Agrees(H[c[i].t], c, l, i)
  BY <1>2 DEF Good, Agreed
<1>4. QED BY <1>1, <1>3 DEF Agrees

LEMMA luaB_cocreateKeeps == ASSUME CallsInv, luaB_cocreate PROVE CallsInv'
<1>1. TopA.k = "cfun" /\ TopA.f = "create"
  BY Zenon DEF luaB_cocreate, In, Active
<1>2. PICK l : Good(th, cs, l, {})
  BY <1>1, Begun
<1>3. /\ TopA = cs[Len(cs)] /\ Me = cs[Len(cs)].t /\ th[Me].status = "ok" /\ Now = St(th, cs)
      /\ th \in [Threads -> lua_State]
  BY <1>1, <1>2, Top
<1>4. ASSUME NEW co \in Threads \ {Main}, th[co].life = "none",
             Becomes(CReturn([Now EXCEPT !.th[co].life = "fresh", !.th[co].left = 1], Me))
      PROVE  CallsInv'
  <2> DEFINE U == th[co]
             T == [U EXCEPT !.life = "fresh", !.left = 1]
             G == [th EXCEPT ![co] = T]
  <2>1. [Now EXCEPT !.th[co].life = "fresh", !.th[co].left = 1] = St(G, cs)
    <3>1. [th EXCEPT ![co] = [th[co] EXCEPT !.life = "fresh"]][co] = [U EXCEPT !.life = "fresh"]
      BY <1>3
    <3>2. [[th EXCEPT ![co].life = "fresh"] EXCEPT ![co].left = 1] = G
      BY <1>3, <3>1
    <3> DEFINE s == [Now EXCEPT !.th[co].life = "fresh"]
               J == [th EXCEPT ![co].life = "fresh"]
    <3>3. s = St(J, cs)
      BY DEF Now, St
    <3>4. [Now EXCEPT !.th[co].life = "fresh", !.th[co].left = 1] = [s EXCEPT !.th[co].left = 1]
      OBVIOUS
    <3> HIDE DEF s, G, U, T, J
    <3>5. [St(J, cs) EXCEPT !.th[co].left = 1] = St([J EXCEPT ![co].left = 1], cs)
      BY DEF St
    <3>6. QED BY <3>2, <3>3, <3>4, <3>5 DEF J
  <2>2. ~OnStack(cs, co)
    BY <1>2, <1>4, OnStackOK
  <2>3. U.status = "ok" /\ Len(U.ci) = 1 /\ ThreadOK(U) /\ U \in lua_State
    <3>1. OffOK(U, co \in {}) /\ ThreadOK(U)
      BY <1>2, <2>2 DEF Good, Suspended, Threaded
    <3>2. QED BY <1>4, <3>1 DEF OffOK, ThreadOK
  <2>4. /\ T \in lua_State /\ T.ci = U.ci /\ T.open = U.open /\ T.status = U.status
        /\ T.baseCcalls = U.baseCcalls /\ T.life = "fresh" /\ T.left = 1
    BY <2>3 DEF lua_State
  <2> HIDE DEF T
  <2>5. ThreadOK(T)
    BY <2>3, <2>4, SameFrames
  <2>6. OffOK(T, co \in {})
    BY <2>3, <2>4 DEF OffOK
  <2>7. Good(G, cs, l, {})
    <3>1. ~OnStack(cs, co) => OffOK(T, co \in {})
      BY <2>6
    <3>2. \A u \in Threads \ {co} : u \in {} <=> u \in {}
      OBVIOUS
    <3>3. T.baseCcalls = th[co].baseCcalls
      BY <2>4
    <3>4. QED BY <1>2, <2>2, <2>5, <3>1, <3>2, <3>3, AsideKeeps
  <2> HIDE DEF G
  <2>8. Sound(CReturn(St(G, cs), Me), {})
    BY <1>1, <1>3, <2>7, CReturnKeeps
  <2>9. QED BY <1>4, <2>1, <2>8, Ended
<1>5. CASE Becomes(luaD_throw(Now, Me, "ERRMEM"))
  <2>1. "ERRMEM" \in Codes
    BY DEF Codes
  <2>2. Sound(luaD_throw(St(th, cs), Me, "ERRMEM"), {})
    BY <1>2, <1>3, <2>1, ThrowKeeps
  <2>3. QED BY <1>3, <1>5, <2>2, Ended
<1>6. QED BY <1>4, <1>5, Zenon DEF luaB_cocreate

--------------------------------------------------------------------------------
(* Resuming a coroutine *)

\* A coroutine that is on the C stack but not on top waits in a resume of its own.
LEMMA NotOnTop ==
  ASSUME NEW H, NEW c, NEW l, NEW X, Good(H, c, l, X), NEW t \in Threads, OnStack(c, t), c[Len(c)].t # t
  PROVE  H[t].life = "started" /\ H[t].status = "ok" /\ Len(H[t].ci) \in Nat /\ Len(H[t].ci) >= 2
<1> DEFINE n == Len(c)
           S == {i \in 1..n : c[i].t = t}
<1>1. /\ n \in Nat /\ n >= 1 /\ c \in Seq(Acts) /\ DOMAIN c = 1..n /\ Stacked(c) /\ Leveled(c, l) /\ Agreed(H, c, l)
      /\ ThreadOK(H[t])
  BY DEF Good, Stacked, Threaded
<1>2. PICK i \in S : \A j \in S : j <= i
  <2>1. S # {}
    BY <1>1 DEF OnStack
  <2>2. S \in SUBSET (1..n)
    OBVIOUS
  <2> HIDE DEF S, n
  <2>3. QED BY <1>1, <2>1, <2>2, LargestInSet
<1>3. i \in 1..n /\ c[i].t = t /\ i # n
  BY <1>2
<1> HIDE DEF n
<1>4. i + 1 \in 2..n /\ (i + 1) - 1 = i /\ i + 1 \in 1..n /\ ~(i + 1 <= i)
  BY <1>1, <1>3
<1>5. c[i + 1].t # t
  BY <1>2, <1>4
<1>6. c[i].k = "cfun"
  <2>1. Fits(c, i + 1)
    BY <1>1, <1>4 DEF Stacked, n
  <2>2. QED BY <1>3, <1>4, <1>5, <2>1 DEF Fits
<1>7. i \in 2..n /\ i - 1 \in 1..n
  <2>1. i # 1
    BY <1>1, <1>6 DEF Stacked, A
  <2>2. QED BY <1>1, <1>3, <2>1
<1>8. l[i] >= 2 /\ l[i] \in Nat
  <2>1. Level(c, l, i) /\ l[i - 1] >= 1 /\ l[i - 1] \in Nat
    BY <1>1, <1>7 DEF Leveled, n
  <2>2. QED BY <1>6, <2>1 DEF Level, Width
<1>9. H[t].life = "started" /\ H[t].status = "ok"
  BY OnStackOK
<1>10. Agrees(H[c[i].t], c, l, i)
  BY <1>1, <1>3 DEF Agreed, n
<1>11. l[i] <= Len(H[t].ci) /\ Len(H[t].ci) \in Nat
  BY <1>1, <1>3, <1>9, <1>10 DEF Agrees, ThreadOK, lua_State
<1>12. QED BY <1>8, <1>9, <1>11

\* resume() of a coroutine is pushed; the thread goes on with its first frame.
LEMMA ResumePush ==
  ASSUME NEW H, NEW c, NEW l, Good(H, c, l, {}), NEW a, a = c[Len(c)], a.k = "cfun", a.f = "resume",
         a.at = "done", NEW co \in Threads, a.co = co, co # Main, ~OnStack(c, co),
         NEW V, ThreadOK(V), V.status = "ok", V.life = "started", V.nCcalls = H[a.t].nCcalls + 1,
         V.baseCcalls = V.nCcalls, Len(V.ci) = 1, V.nCcalls < Limit
  PROVE  Good([H EXCEPT ![co] = V], Append(c, A("resume", co)), Append(l, 1), {})
<1> DEFINE n == Len(c)
           b == A("resume", co)
           d == Append(c, b)
           k == Append(l, 1)
<1>1. /\ n \in Nat /\ n >= 1 /\ c \in Seq(Acts) /\ l \in Seq(Nat) /\ Len(l) = n
      /\ Count(c, n) \in Nat /\ H[a.t].nCcalls = Count(c, n)
  BY TopFacts
<1>2. b \in Acts /\ b.k = "resume" /\ b.t = co /\ Width(b) = 0
  BY NewAct DEF A, Width
<1> HIDE DEF b
<1>3. /\ d \in Seq(Acts) /\ k \in Seq(Nat) /\ Len(k) = Len(d) /\ Len(d) = n + 1
      /\ (\A j \in 1..n : d[j] = c[j] /\ k[j] = l[j]) /\ d[n + 1] = b /\ k[n + 1] = 1
  BY <1>1, <1>2
<1> HIDE DEF d, k
<1>4. Count(d, n + 1) = V.nCcalls /\ V.nCcalls \in Nat
  <2>1. \A j \in 1..n : c[j].k = d[j].k
    BY <1>3
  <2>2. Count(c, n) = Count(d, n)
    BY <1>1, <2>1, CountPrefix
  <2>3. Count(d, n + 1) = Count(d, n) + (IF d[n + 1].k \in {"call", "resume"} THEN 1 ELSE 0)
    BY <1>1, CountNext
  <2>4. d[n + 1].k \in {"call", "resume"}
    BY <1>2, <1>3
  <2>5. Count(d, n + 1) = Count(c, n) + 1
    BY <2>2, <2>3, <2>4
  <2>6. QED BY <1>1, <2>5
<1>5. \A j \in 1..n : c[j].t # co
  <2>1. DOMAIN c = 1..n
    BY <1>1
  <2>2. QED BY <2>1 DEF OnStack
<1>6. OnTop(V, d, k, n + 1)
  <2>1. (n + 1) - 1 = n /\ n \in 1..n
    BY <1>1
  <2>2. d[n] = a
    BY <1>3, <2>1
  <2>3. \A j \in 1..((n + 1) - 1) : d[j].t # co
    BY <1>3, <1>5, <2>1
  <2>4. Fits(d, n + 1)
    BY <1>2, <1>3, <2>1, <2>2, <2>3 DEF Fits
  <2>5. Level(d, k, n + 1) /\ k[n + 1] >= 1 /\ Saved(d, k, n + 1)
    BY <1>2, <1>3 DEF Level, Saved
  <2>6. Bounded(d, n + 1) /\ V.baseCcalls = Count(d, n + 1)
    BY <1>4 DEF Bounded
  <2>7. \A p \in (k[n + 1] - Width(d[n + 1]) + 1)..k[n + 1] : FALSE
    BY <1>2, <1>3
  <2>8. QED BY <2>4, <2>5, <2>6, <2>7 DEF OnTop
<1>7. TopBounded(d)
  <2>1. Limit \in Nat
    BY BoundsAssumption, SMTT(30) DEF Limit
  <2>2. QED BY <1>3, <1>4, <2>1 DEF TopBounded
<1>8. Replaces(H, c, l, co, V, d, k, n)
  <2>1. \A j \in (n + 1)..Len(c) : c[j].t = co
    BY <1>1
  <2>2. c[Len(c)].k # "resume"
    OBVIOUS
  <2>3. d[Len(d)].t = co /\ V.nCcalls = Count(d, Len(d)) /\ Len(V.ci) = k[Len(d)]
    BY <1>2, <1>3, <1>4
  <2>4. \A j \in 1..n : c[j].t = co => Kept(V, H[co], l[j]) /\ l[j] <= k[Len(d)]
    BY <1>5
  <2>5. Len(d) \in {n, n + 1} /\ (Len(d) = n + 1 => OnTop(V, d, k, n + 1))
    BY <1>3, <1>6
  <2>6. ThreadOK(V) /\ V.status = "ok" /\ V.life = "started" /\ (co = Main => V.baseCcalls = 0)
    OBVIOUS
  <2>7. QED BY <1>3, <1>7, <2>1, <2>2, <2>3, <2>4, <2>5, <2>6, Zenon DEF Replaces
<1>9. n \in 1..Len(c)
  BY <1>1
<1> HIDE DEF n
<1>10. Good([H EXCEPT ![co] = V], d, k, {})
  BY ONLY <1>8, <1>9, Good(H, c, l, {}), co \in Threads, ReplaceKeeps
<1>11. QED BY <1>10 DEF d, k, b

\* A coroutine that had yielded goes on: lua_yield returns to its Lua functions.
LEMMA ResumeYielded ==
  ASSUME NEW H, NEW c, NEW l, Good(H, c, l, {}), NEW a, a = c[Len(c)], a.k = "cfun", a.f = "resume",
         a.at = "done", NEW co \in Threads, a.co = co, co # Main, ~OnStack(c, co),
         NEW U, ThreadOK(U), U.status = "yield",
         NEW T, ThreadOK(T), T.status = "ok", T.life = "started", T.nCcalls = H[a.t].nCcalls + 1,
         T.baseCcalls = T.nCcalls, T.ci = SubSeq(U.ci, 1, Len(U.ci) - 1), T.nCcalls < Limit
  PROVE  Sound(St([H EXCEPT ![co] = T], Append(Append(c, A("resume", co)), Exec(co, Len(U.ci) - 2))), {})
<1> DEFINE V == [T EXCEPT !.ci = SubSeq(T.ci, 1, 1), !.open = {}]
           b == A("resume", co)
           d == Append(c, b)
           k == Append(l, 1)
           w == Len(U.ci) - 2
           e == Exec(co, w)
           G == [H EXCEPT ![co] = V]
<1>1. U.ci \in Seq(CallInfo) /\ T \in lua_State /\ T.ci \in Seq(CallInfo)
  BY DEF ThreadOK, lua_State
<1>2. Len(U.ci) \in Nat /\ Len(U.ci) >= 3 /\ \A p \in 2..(Len(U.ci) - 1) : U.ci[p].kind = "lua"
  BY <1>1 DEF ThreadOK
<1>3. /\ Len(T.ci) = Len(U.ci) - 1 /\ Len(T.ci) >= 2 /\ Len(T.ci) \in Nat
      /\ \A p \in 2..Len(T.ci) : T.ci[p].kind = "lua"
  <2>1. Len(U.ci) - 1 \in 1..Len(U.ci)
    BY <1>2
  <2>2. Len(T.ci) = Len(U.ci) - 1 /\ \A p \in 1..(Len(U.ci) - 1) : T.ci[p] = U.ci[p]
    BY <1>1, <2>1
  <2>3. \A p \in 2..Len(T.ci) : p \in 1..(Len(U.ci) - 1) /\ p \in 2..(Len(U.ci) - 1)
    BY <1>2, <2>2
  <2>4. QED BY <1>2, <2>2, <2>3
<1>4. /\ V \in lua_State /\ V.ci = SubSeq(T.ci, 1, 1) /\ V.open = {} /\ V.status = "ok"
      /\ V.life = "started" /\ V.nCcalls = T.nCcalls /\ V.baseCcalls = T.baseCcalls
  <2>1. SubSeq(T.ci, 1, 1) \in Seq(CallInfo)
    BY <1>1, <1>3
  <2>2. QED BY <1>1, <2>1 DEF lua_State
<1> HIDE DEF V
<1>5. ThreadOK(V) /\ Len(V.ci) = 1 /\ \A p \in 1..1 : V.ci[p].kind = T.ci[p].kind
  <2>1. 1 \in 1..Len(T.ci) /\ V.status # "yield" /\ \A x \in V.open : x \in T.open /\ x < 2 * 1
    BY <1>3, <1>4
  <2>2. Len(V.ci) = 1 /\ V.ci = SubSeq(T.ci, 1, 1) /\ V \in lua_State
    BY <1>1, <1>3, <1>4
  <2>3. QED BY ONLY <2>1, <2>2, ThreadOK(T), CutFrames
<1>6. Good(G, d, k, {})
  <2>1. V.nCcalls = H[a.t].nCcalls + 1 /\ V.baseCcalls = V.nCcalls /\ V.nCcalls < Limit
    BY <1>4
  <2>2. QED BY <1>4, <1>5, <2>1, ResumePush, ZenonT(30)
<1>7. d[Len(d)] = b /\ b.t = co /\ b.k = "resume" /\ G[co] = V /\ [G EXCEPT ![co] = T] = [H EXCEPT ![co] = T]
      /\ d \in Seq(Acts)
  <2>1. c \in Seq(Acts) /\ H \in [Threads -> lua_State]
    BY TopFacts
  <2>2. b \in Acts /\ b.t = co /\ b.k = "resume"
    BY NewAct DEF A
  <2> HIDE DEF b
  <2>3. d[Len(d)] = b /\ d \in Seq(Acts)
    BY <2>1, <2>2
  <2>4. G[co] = V /\ [G EXCEPT ![co] = T] = [H EXCEPT ![co] = T]
    BY <2>1
  <2>5. QED BY <2>2, <2>3, <2>4
<1>8. e \in Acts /\ e.t = co /\ e.k = "exec" /\ Width(e) = w /\ KindOf(e) = "lua" /\ w \in Nat /\ w >= 1
  <2>1. w \in Nat /\ w >= 1 /\ w \in Nat \ {0}
    <3>1. \A z \in Nat : z >= 3 => z - 2 \in Nat /\ z - 2 >= 1 /\ z - 2 # 0
      OBVIOUS
    <3>2. Len(U.ci) \in Nat /\ Len(U.ci) >= 3
      BY <1>2
    <3>3. w \in Nat /\ w >= 1 /\ w # 0
      BY ONLY <3>1, <3>2 DEF w
    <3> HIDE DEF w
    <3>4. QED BY <3>3
  <2> HIDE DEF w
  <2>2. e \in Acts
    BY <2>1, NewAct
  <2>3. QED BY <2>1, <2>2 DEF Exec, Width, KindOf
<1> HIDE DEF e, b, d, k, G
<1>9. MayLie(e, d[Len(d)])
  BY <1>7, <1>8 DEF MayLie
<1>10. Pushed(T, V, e)
  <2>1. Len(T.ci) = 1 + w
    BY <1>2, <1>3
  <2> HIDE DEF w
  <2>2. Continues(T, V, 1)
    BY <1>3, <1>4, <1>5 DEF Continues
  <2>3. \A p \in (1 + 1)..Len(T.ci) : T.ci[p].kind = KindOf(e)
    BY <1>3, <1>8
  <2>4. T.nCcalls = V.nCcalls + 0 /\ T.nCcalls <= Limit
    <3>1. T.nCcalls \in Int /\ Limit \in Nat
      <4>1. Limit \in Nat
        BY BoundsAssumption DEF Limit
      <4>2. QED BY <1>1, <4>1 DEF lua_State
    <3>2. QED BY <1>4, <3>1
  <2>5. T.nCcalls = V.nCcalls + (IF e.k = "call" THEN 1 ELSE 0)
    BY <1>8, <2>4
  <2>6. QED BY <1>5, <1>8, <2>1, <2>2, <2>3, <2>4, <2>5 DEF Pushed
<1>11. Good([G EXCEPT ![co] = T], Append(d, e), Append(k, Len(T.ci)), {})
  BY <1>4, <1>6, <1>7, <1>8, <1>9, <1>10, PushKeeps
<1>12. Exempt(Append(d, e)) = {}
  BY <1>7, <1>8, PushedExempt
<1>13. Sound(St([G EXCEPT ![co] = T], Append(d, e)), {})
  BY <1>11, <1>12, SoundSt DEF Fine
<1>14. QED BY <1>7, <1>13 DEF d, e, b


Put(H, t, U) == [H EXCEPT ![t] = U]
Refused(T) ==
  \/ T.status # "yield" /\ (T.status # "ok" \/ Len(T.ci) # 1)
  \/ T.nCcalls >= MaxCCalls

LEMMA AtSt ==
  ASSUME NEW H, NEW c, NEW x
  PROVE  At(St(H, c), x) = St(H, SetTop(c, WithAt(c[Len(c)], x)))
<1>1. At(St(H, c), x) = [St(H, c) EXCEPT !.cs = [c EXCEPT ![Len(c)] = [c[Len(c)] EXCEPT !.at = x]]]
  BY DEF At, St
<1> DEFINE d == SetTop(c, WithAt(c[Len(c)], x))
<1>2. At(St(H, c), x) = [St(H, c) EXCEPT !.cs = d]
  BY <1>1 DEF SetTop, WithAt
<1> HIDE DEF d
<1>3. [St(H, c) EXCEPT !.cs = d] = St(H, d)
  BY DEF St
<1>4. QED BY <1>2, <1>3 DEF d

LEMMA SetTopTwice ==
  ASSUME NEW S, NEW c \in Seq(S), Len(c) >= 1, NEW a \in S, NEW b \in S
  PROVE  /\ SetTop(SetTop(c, a), b) = SetTop(c, b) /\ SetTop(c, a)[Len(SetTop(c, a))] = a
         /\ SetTop(c, a) \in Seq(S) /\ Len(SetTop(c, a)) = Len(c)
<1>1. SetTop(c, a) \in Seq(S) /\ Len(SetTop(c, a)) = Len(c) /\ SetTop(c, a)[Len(c)] = a
  BY DEF SetTop
<1>2. SetTop(SetTop(c, a), b) = [[c EXCEPT ![Len(c)] = a] EXCEPT ![Len(c)] = b]
  BY <1>1 DEF SetTop
<1>3. [[c EXCEPT ![Len(c)] = a] EXCEPT ![Len(c)] = b] = [c EXCEPT ![Len(c)] = b]
  OBVIOUS
<1>4. QED BY <1>1, <1>2, <1>3 DEF SetTop

LEMMA ResumeCases ==
  ASSUME NEW H, NEW c, NEW t, NEW co, NEW T, T = H[co], NEW d, d = SetTop(c, WithAt(c[Len(c)], "done")),
         NEW S, H \in [S -> lua_State], co \in S
  PROVE  /\ Refused(T) =>
              lua_resume(St(H, c), t, co)
                = St(Put(H, co, Refuses(T)), SetTop(c, WithAt(c[Len(c)], "failed")))
         /\ ~Refused(T) /\ T.status = "yield" =>
              lua_resume(St(H, c), t, co)
                = St(Put(H, co, luaD_poscall(Resumes(T))),
                     Append(Append(d, A("resume", co)), Exec(co, Len(T.ci) - 2)))
         /\ ~Refused(T) /\ T.status # "yield" =>
              lua_resume(St(H, c), t, co)
                = luaD_precall(St(Put(H, co, Resumes(T)), Append(d, A("resume", co))), co, "lua")
<1> DEFINE s == St(H, c)
           h == Push([At(s, "done") EXCEPT !.th[co] = Resumes(@)], A("resume", co))
           G == Put(H, co, Resumes(T))
           e == Append(d, A("resume", co))
<1>1. s.th[co] = T
  BY DEF St
<1>2. h = St(G, e)
  <2>1. At(s, "done") = St(H, d)
    BY AtSt
  <2>2. [St(H, d) EXCEPT !.th[co] = Resumes(@)] = St(G, d)
    BY DEF St, Put
  <2> HIDE DEF G, s
  <2>3. h = Push(St(G, d), A("resume", co))
    BY <2>1, <2>2
  <2>4. QED BY <2>3, StOps
<1>3. CASE Refused(T)
  <2>1. lua_resume(s, t, co) = resume_error(s, t, co)
    <3> HIDE DEF s
    <3>1. QED BY <1>1, <1>3 DEF lua_resume, Refused
  <2>2. [s EXCEPT !.th[co] = Refuses(@)] = St(Put(H, co, Refuses(T)), c)
    BY DEF St, Put
  <2> HIDE DEF s
  <2>3. resume_error(s, t, co) = At(St(Put(H, co, Refuses(T)), c), "failed")
    BY <2>2 DEF resume_error
  <2>4. QED BY <1>3, <2>1, <2>3, AtSt DEF s
<1>4. CASE ~Refused(T)
  <2>1. lua_resume(s, t, co) =
          IF T.status = "yield" THEN Push([h EXCEPT !.th[co] = luaD_poscall(@)], Exec(co, Len(T.ci) - 2))
          ELSE luaD_precall(h, co, "lua")
    <3> HIDE DEF s
    <3>1. QED BY <1>1, <1>4 DEF lua_resume, Refused
  <2>2. [St(G, e) EXCEPT !.th[co] = luaD_poscall(@)] = St(Put(H, co, luaD_poscall(Resumes(T))), e)
    <3>1. G[co] = Resumes(T) /\ [G EXCEPT ![co] = luaD_poscall(G[co])] = Put(H, co, luaD_poscall(Resumes(T)))
      BY Zenon DEF Put
    <3> HIDE DEF G, e
    <3>2. [St(G, e) EXCEPT !.th[co] = luaD_poscall(@)] = St([G EXCEPT ![co] = luaD_poscall(G[co])], e)
      BY DEF St
    <3>3. QED BY <3>1, <3>2
  <2> HIDE DEF s, h, G, e
  <2>3. Push([h EXCEPT !.th[co] = luaD_poscall(@)], Exec(co, Len(T.ci) - 2))
          = St(Put(H, co, luaD_poscall(Resumes(T))), Append(e, Exec(co, Len(T.ci) - 2)))
    <3>1. [h EXCEPT !.th[co] = luaD_poscall(@)] = St(Put(H, co, luaD_poscall(Resumes(T))), e)
      BY <1>2, <2>2
    <3> DEFINE x == Exec(co, Len(T.ci) - 2)
               K == Put(H, co, luaD_poscall(Resumes(T)))
    <3>2. Push([h EXCEPT !.th[co] = luaD_poscall(@)], x) = Push(St(K, e), x)
      BY <3>1
    <3> HIDE DEF x, K
    <3>3. Push(St(K, e), x) = St(K, Append(e, x))
      BY StOps
    <3>4. QED BY <3>2, <3>3 DEF x, K
  <2>4. QED BY <1>2, <1>4, <2>1, <2>3 DEF s, G, e
<1>5. QED BY <1>3, <1>4

\* A thread that is suspended is not on the C stack.
LEMMA SuspendedOff ==
  ASSUME NEW H, NEW c, NEW l, Good(H, c, l, {}), NEW co \in Threads, c[Len(c)].t # co, NEW T, T = H[co],
         T.status = "yield" \/ (T.status = "ok" /\ Len(T.ci) = 1)
  PROVE  ~OnStack(c, co) /\ ThreadOK(T) /\ OffOK(T, co \in {})
<1>1. ~OnStack(c, co)
  <2> SUFFICES ASSUME OnStack(c, co) PROVE FALSE
    OBVIOUS
  <2>1. T.status = "ok" /\ Len(T.ci) >= 2 /\ Len(T.ci) \in Nat
    BY NotOnTop
  <2>2. T.status # "yield"
    BY ONLY <2>1
  <2>3. Len(T.ci) # 1
    <3> DEFINE z == Len(T.ci)
    <3>1. z \in Nat /\ z >= 2
      BY ONLY <2>1
    <3> HIDE DEF z
    <3>2. z # 1
      BY ONLY <3>1
    <3>3. QED BY <3>2 DEF z
  <2>4. QED BY <2>2, <2>3
<1>2. ThreadOK(T)
  BY DEF Good, Threaded
<1>3. OffOK(H[co], co \in {})
  BY <1>1, Zenon DEF Good, Suspended
<1>4. QED BY <1>1, <1>2, <1>3

LEMMA ResumeRefused ==
  ASSUME NEW H, NEW c, NEW l, Good(H, c, l, {}), NEW co \in Threads, c[Len(c)].t # co, NEW T, T = H[co],
         T.status = "yield" \/ (T.status = "ok" /\ Len(T.ci) = 1), T.life # "none", NEW c1, NEW l1,
         Good(H, c1, l1, {}), c1[Len(c1)].t # co, Exempt(c1) = {}
  PROVE  Sound(St(Put(H, co, Refuses(T)), c1), {})
<1> DEFINE V == Refuses(T)
           z == IF T.life = "fresh" THEN "finished" ELSE T.life
<1>1. ~OnStack(c1, co) /\ ThreadOK(T) /\ OffOK(T, co \in {})
  BY SuspendedOff
<1>2. z \in {"started", "finished"}
  BY <1>1 DEF ThreadOK, lua_State
<1>3. V = [T EXCEPT !.left = 0, !.life = z] /\ T \in lua_State
  BY <1>1 DEF Refuses, ThreadOK, lua_State
<1> HIDE DEF V
<1>4. /\ V \in lua_State /\ V.status = T.status /\ V.ci = T.ci /\ V.open = T.open /\ V.life = z
      /\ V.left = 0 /\ V.baseCcalls = T.baseCcalls
  <2> HIDE DEF z
  <2>1. QED BY <1>2, <1>3 DEF lua_State
<1>5. ThreadOK(V)
  BY <1>1, <1>4, SameFrames
<1>6. OffOK(V, co \in {})
  BY <1>1, <1>2, <1>4 DEF OffOK
<1>7. Good([H EXCEPT ![co] = V], c1, l1, {})
  <2>1. \A u \in Threads \ {co} : u \in {} <=> u \in {}
    OBVIOUS
  <2>2. V.baseCcalls = H[co].baseCcalls
    BY <1>4
  <2>3. QED BY <1>1, <1>5, <1>6, <2>1, <2>2, AsideKeeps
<1>8. QED BY <1>7, SoundSt DEF Fine, Put, V

\* What resume() makes of the thread.
LEMMA ResumesOK ==
  ASSUME NEW T, ThreadOK(T), T.nCcalls \in Nat, NEW U, U = Resumes(T)
  PROVE  /\ U \in lua_State /\ U.status = "ok" /\ U.life = "started" /\ U.nCcalls = T.nCcalls + 1
         /\ U.baseCcalls = T.nCcalls + 1 /\ U.ci = T.ci /\ U.open = T.open /\ ThreadOK(U)
<1>1. T \in lua_State /\ T.nCcalls + 1 \in Int
  BY DEF ThreadOK
<1>2. /\ U \in lua_State /\ U.status = "ok" /\ U.life = "started" /\ U.nCcalls = T.nCcalls + 1
      /\ U.baseCcalls = T.nCcalls + 1 /\ U.ci = T.ci /\ U.open = T.open
  BY <1>1 DEF Resumes, lua_State
<1>3. ThreadOK(U)
  BY <1>2, SameFrames
<1>4. QED BY <1>2, <1>3

LEMMA ResumeKeeps ==
  ASSUME NEW H, NEW c, NEW l, Good(H, c, l, {}), NEW a, a = c[Len(c)], a.k = "cfun", a.f = "resume",
         NEW co \in Threads, a.co = co, co # Main, a.t # co, NEW T, T = H[co],
         T.status = "yield" \/ (T.status = "ok" /\ Len(T.ci) = 1), T.life # "none",
         T.nCcalls = H[a.t].nCcalls
  PROVE  Sound(lua_resume(St(H, c), a.t, co), {})
<1>1. /\ a \in Acts /\ a.t \in Threads /\ c \in Seq(Acts) /\ Len(c) \in Nat /\ Len(c) >= 1
      /\ H \in [Threads -> lua_State] /\ H[a.t].nCcalls \in Nat
  BY TopFacts
<1>2. ThreadOK(T) /\ OffOK(T, co \in {}) /\ T.nCcalls \in Nat
  BY <1>1, SuspendedOff
<1> DEFINE b == WithAt(a, "done")
           f == WithAt(a, "failed")
           d == SetTop(c, b)
           e == SetTop(c, f)
           r == A("resume", co)
           R == lua_resume(St(H, c), a.t, co)
<1>3. /\ Fine(H, d, {}) /\ d \in Seq(Acts) /\ d[Len(d)] = b /\ b.k = "cfun" /\ b.t = a.t
      /\ b.f = "resume" /\ b.at = "done" /\ b.co = co
  <2>1. "done" \in {"start", "done", "failed"}
    OBVIOUS
  <2>2. QED BY <2>1, AtKeeps
<1>4. /\ Fine(H, e, {}) /\ e[Len(e)] = f /\ f.k = "cfun" /\ f.t = a.t /\ f.at = "failed"
  <2>1. "failed" \in {"start", "done", "failed"}
    OBVIOUS
  <2>2. QED BY <2>1, AtKeeps
<1>5. /\ Refused(T) => R = St(Put(H, co, Refuses(T)), e)
      /\ ~Refused(T) /\ T.status = "yield" =>
           R = St(Put(H, co, luaD_poscall(Resumes(T))), Append(Append(d, r), Exec(co, Len(T.ci) - 2)))
      /\ ~Refused(T) /\ T.status # "yield" =>
           R = luaD_precall(St(Put(H, co, Resumes(T)), Append(d, r)), co, "lua")
  BY <1>1, ResumeCases
<1> HIDE DEF b, f, d, e, R
<1>6. CASE Refused(T)
  <2>1. PICK k : Good(H, e, k, {})
    BY <1>4 DEF Fine
  <2>2. Exempt(e) = {} /\ e[Len(e)].t # co
    BY <1>4 DEF Exempt
  <2>3. Sound(St(Put(H, co, Refuses(T)), e), {})
    BY <2>1, <2>2, ResumeRefused
  <2>4. QED BY <1>5, <1>6, <2>3 DEF R
<1>7. CASE ~Refused(T)
  <2> DEFINE U == Resumes(T)
  <2>1. PICK k : Good(H, d, k, {})
    BY <1>3 DEF Fine
  <2>2. ~OnStack(d, co)
    BY <1>3, <2>1, SuspendedOff
  <2>3. /\ U \in lua_State /\ U.status = "ok" /\ U.life = "started" /\ U.nCcalls = T.nCcalls + 1
        /\ U.baseCcalls = T.nCcalls + 1 /\ U.ci = T.ci /\ U.open = T.open /\ ThreadOK(U)
    BY <1>2, ResumesOK
  <2>4. T.nCcalls + 1 < Limit /\ T.nCcalls + 1 \in Int
    <3>1. T.nCcalls < MaxCCalls
      BY <1>1, <1>2, <1>7, BoundsAssumption, SMTT(30) DEF Refused
    <3>2. QED BY <1>2, <3>1, BoundsAssumption, SMTT(30) DEF Limit
  <2> HIDE DEF U
  <2>5. CASE T.status = "yield"
    <3> DEFINE V == luaD_poscall(U)
               m == Len(T.ci) - 1
    <3>1. T.ci \in Seq(CallInfo) /\ Len(T.ci) \in Nat /\ Len(T.ci) >= 3 /\ T.ci[Len(T.ci)].kind = "C"
      BY <1>2, <2>5 DEF ThreadOK, lua_State
    <3>2. Returned(V, U, Len(U.ci) - 1) /\ V.nCcalls = U.nCcalls
      BY <2>3, <3>1, PoscallOK, SMTT(30)
    <3>3. /\ ThreadOK(V) /\ V.status = "ok" /\ V.life = "started" /\ V.baseCcalls = T.nCcalls + 1
          /\ V.nCcalls = T.nCcalls + 1
      BY <2>3, <3>2 DEF Returned
    <3>4. V.ci = SubSeq(T.ci, 1, Len(T.ci) - 1)
      BY <2>3 DEF luaD_poscall, lua_State
    <3> HIDE DEF V
    <3>5. Sound(St([H EXCEPT ![co] = V], Append(Append(d, r), Exec(co, Len(T.ci) - 2))), {})
      <4>1. V.nCcalls = H[b.t].nCcalls + 1 /\ V.baseCcalls = V.nCcalls /\ V.nCcalls < Limit
        BY <1>3, <2>4, <3>3
      <4>2. QED BY <1>2, <1>3, <2>1, <2>2, <2>5, <3>3, <3>4, <4>1, ResumeYielded, ZenonT(30)
    <3>6. R = St(Put(H, co, luaD_poscall(Resumes(T))), Append(Append(d, r), Exec(co, Len(T.ci) - 2)))
      BY <1>5, <1>7, <2>5
    <3>7. QED BY <3>5, <3>6 DEF R, Put, U, V
  <2>6. CASE T.status # "yield"
    <3>1. Len(U.ci) = 1
      BY <2>3, <2>6
    <3>2. Good([H EXCEPT ![co] = U], Append(d, r), Append(k, 1), {})
      <4>1. U.nCcalls = H[b.t].nCcalls + 1 /\ U.baseCcalls = U.nCcalls /\ U.nCcalls < Limit
        BY <1>3, <2>3, <2>4
      <4>2. QED BY <1>3, <2>1, <2>2, <2>3, <3>1, <4>1, ResumePush
    <3> DEFINE G == [H EXCEPT ![co] = U]
               j == Append(d, r)
    <3>3. G[co] = U
      BY <1>1
    <3>4. j[Len(j)] = r /\ r.k = "resume" /\ r.t = co
      <4>1. r \in Acts /\ r.k = "resume" /\ r.t = co
        BY NewAct DEF A
      <4> HIDE DEF r
      <4>2. QED BY <1>3, <4>1
    <3>5. Good(G, j, Append(k, 1), {}) /\ G[co].status = "ok" /\ G[co].nCcalls < Limit /\ co = j[Len(j)].t
      BY <2>3, <2>4, <3>2, <3>3, <3>4
    <3>6. "lua" \in Callees /\ j[Len(j)].k \in (IF "lua" = "lua" THEN {"call", "resume"} ELSE {"call", "exec"})
      BY <3>4 DEF Callees
    <3> HIDE DEF G, j
    <3>7. Sound(luaD_precall(St(G, j), co, "lua"), {})
      BY ONLY <3>5, <3>6, PrecallKeeps
    <3>8. R = luaD_precall(St(Put(H, co, Resumes(T)), Append(d, r)), co, "lua")
      BY <1>5, <1>7, <2>6
    <3>9. QED BY <3>7, <3>8 DEF R, Put, U, G, j
  <2>7. QED BY <2>5, <2>6
<1>8. QED BY <1>6, <1>7

LEMMA auxresumeKeeps == ASSUME CallsInv, auxresume PROVE CallsInv'
<1>1. TopA.k = "cfun" /\ TopA.f = "resume" /\ TopA.at = "start"
  BY Zenon DEF auxresume, In, Active
<1>2. PICK l : Good(th, cs, l, {})
  BY <1>1, Begun
<1>3. /\ TopA = cs[Len(cs)] /\ Me = cs[Len(cs)].t /\ Now = St(th, cs) /\ TopA \in Acts /\ Me \in Threads
      /\ th \in [Threads -> lua_State] /\ cs \in Seq(Acts) /\ Len(cs) \in Nat /\ Len(cs) >= 1
  BY <1>2, Top
<1>4. CASE Becomes(luaG_runerror(Now, Me))
  <2>1. Exempt(cs) = {}
    BY <1>1, <1>3 DEF Exempt
  <2>2. QED BY <1>1, <1>4, <2>1, FaultKeeps
<1>5. ASSUME NEW co \in Threads \ {Main}, th[co].life # "none",
             LET s == [Now EXCEPT !.cs[Len(cs)].co = co] IN
             Becomes(IF costatus(Me, co) # "suspended" THEN At(s, "failed")
                     ELSE lua_resume([s EXCEPT !.th[co].nCcalls = th[Me].nCcalls], Me, co))
      PROVE  CallsInv'
  <2> DEFINE s == [Now EXCEPT !.cs[Len(cs)].co = co]
             b == WithCo(TopA, co)
             d == SetTop(cs, b)
             U == th[co]
             T == [U EXCEPT !.nCcalls = th[Me].nCcalls]
             G == [th EXCEPT ![co] = T]
  <2>1. s = St(th, d)
    <3>1. s = [St(th, cs) EXCEPT !.cs = [cs EXCEPT ![Len(cs)] = [cs[Len(cs)] EXCEPT !.co = co]]]
      BY DEF Now, St
    <3>2. s = [St(th, cs) EXCEPT !.cs = d]
      BY <1>3, <3>1 DEF SetTop, WithCo
    <3> HIDE DEF d, s
    <3>3. [St(th, cs) EXCEPT !.cs = d] = St(th, d)
      BY DEF St
    <3>4. QED BY <3>2, <3>3
  <2>2. [St(th, d) EXCEPT !.th[co].nCcalls = th[Me].nCcalls] = St(G, d)
    <3> HIDE DEF d
    <3>1. QED BY DEF St
  <2>3. Becomes(IF costatus(Me, co) # "suspended" THEN At(St(th, d), "failed")
                ELSE lua_resume(St(G, d), Me, co))
    <3> HIDE DEF s, d, G
    <3>1. Becomes(IF costatus(Me, co) # "suspended" THEN At(s, "failed")
                  ELSE lua_resume([s EXCEPT !.th[co].nCcalls = th[Me].nCcalls], Me, co))
      BY <1>5 DEF s
    <3>2. QED BY <2>1, <2>2, <3>1
  <2>4. /\ b \in Acts /\ b.k = "cfun" /\ b.t = Me /\ b.f = "resume" /\ b.co = co
    BY <1>1, <1>3, CFunAct
  <2> HIDE DEF b
  <2>5. Fine(th, d, {}) /\ d[Len(d)] = b
    BY <1>1, <1>2, <1>3, <2>4, SetTopKeeps
  <2>6. PICK k : Good(th, d, k, {})
    BY <2>5 DEF Fine
  <2> HIDE DEF d
  <2>7. CASE costatus(Me, co) # "suspended"
    <3> DEFINE f == WithAt(b, "failed")
               e == SetTop(d, f)
    <3>1. Fine(th, e, {}) /\ e[Len(e)] = f /\ f.at = "failed"
      <4>1. "failed" \in {"start", "done", "failed"}
        OBVIOUS
      <4>2. QED BY <2>4, <2>5, <2>6, <4>1, AtKeeps
    <3>2. At(St(th, d), "failed") = St(th, e)
      BY <2>5, AtSt
    <3> HIDE DEF e, f
    <3>3. Exempt(e) = {}
      BY <3>1 DEF Exempt
    <3>4. Sound(St(th, e), {})
      BY <3>1, <3>3, SoundSt
    <3>5. QED BY <2>3, <2>7, <3>2, <3>4, Ended
  <2>8. CASE costatus(Me, co) = "suspended"
    <3>1. Me # co /\ (U.status = "yield" \/ (U.status = "ok" /\ Len(U.ci) = 1))
      <4>1. Len(U.ci) \in Nat /\ Len(U.ci) >= 1 /\ U.status \in {"ok", "yield"} \cup Codes
        <5>1. ThreadOK(U)
          BY <1>2 DEF Good, Threaded
        <5>2. QED BY <5>1 DEF ThreadOK, lua_State
      <4>2. Me # co
        BY <2>8 DEF costatus
      <4>3. U.status # "yield" => U.status = "ok"
        <5>1. U.status \notin {"ok", "yield"} => costatus(Me, co) = "dead"
          BY <4>2 DEF costatus
        <5>2. QED BY <2>8, <5>1
      <4>4. U.status = "ok" => ~(Len(U.ci) > 1)
        BY <2>8, <4>2 DEF costatus
      <4> DEFINE z == Len(U.ci)
      <4>5. z \in Nat /\ z >= 1
        BY <4>1
      <4> HIDE DEF z, U
      <4>6. ~(z > 1) => z = 1
        BY <4>5
      <4>7. QED BY <4>2, <4>3, <4>4, <4>6 DEF z
    <3>2. ~OnStack(d, co) /\ ThreadOK(U) /\ OffOK(U, co \in {})
      BY <2>4, <2>5, <2>6, <3>1, SuspendedOff
    <3>3. /\ T \in lua_State /\ T.status = U.status /\ T.ci = U.ci /\ T.open = U.open /\ T.life = U.life
          /\ T.left = U.left /\ T.baseCcalls = U.baseCcalls /\ T.nCcalls = th[Me].nCcalls
      <4>1. th[Me].nCcalls \in Int /\ U \in lua_State
        BY <1>3 DEF lua_State
      <4> HIDE DEF U
      <4>2. QED BY <4>1 DEF lua_State
    <3> HIDE DEF T
    <3>4. ThreadOK(T)
      BY <3>2, <3>3, SameFrames
    <3>5. OffOK(T, co \in {})
      BY <3>2, <3>3 DEF OffOK
    <3>6. Good(G, d, k, {})
      <4>1. \A u \in Threads \ {co} : u \in {} <=> u \in {}
        OBVIOUS
      <4>2. T.baseCcalls = th[co].baseCcalls
        BY <3>3
      <4>3. QED BY <2>6, <3>2, <3>4, <3>5, <4>1, <4>2, AsideKeeps
    <3>7. G[co] = T /\ G[Me] = th[Me]
      BY <1>3, <3>1
    <3> HIDE DEF G
    <3>8. Sound(lua_resume(St(G, d), b.t, co), {})
      <4>1. T.status = "yield" \/ (T.status = "ok" /\ Len(T.ci) = 1)
        BY <3>1, <3>3
      <4>2. T.life # "none" /\ T.nCcalls = G[b.t].nCcalls /\ b.t # co /\ co # Main
        BY <1>5, <2>4, <3>1, <3>3, <3>7
      <4>3. QED BY <2>4, <2>5, <3>6, <3>7, <4>1, <4>2, ResumeKeeps
    <3>9. Becomes(lua_resume(St(G, d), Me, co))
      BY <2>3, <2>8
    <3>10. QED BY <2>4, <3>8, <3>9, Ended
  <2>9. QED BY <2>7, <2>8
<1>6. QED BY <1>4, <1>5, Zenon DEF auxresume

--------------------------------------------------------------------------------
(* Coming back from a coroutine *)

LEMMA ResumeDoneKeeps == ASSUME CallsInv, ResumeDone PROVE CallsInv'
<1>1. PICK x \in Results : TopA.k = "resume" /\ Becomes(Pop([Now EXCEPT !.th[Me] = Leaves(@, x)]))
  BY DEF ResumeDone, Active
<1>2. PICK l : Good(th, cs, l, {})
  BY <1>1, Begun
<1> DEFINE n == Len(cs)
           t == Me
           U == th[t]
           T == Leaves(U, x)
           G == [th EXCEPT ![t] = T]
           d == Prefix(cs, n - 1)
<1>3. /\ n \in Nat /\ n >= 1 /\ cs \in Seq(Acts) /\ t \in Threads /\ TopA = cs[n] /\ t = cs[n].t
      /\ Now = St(th, cs) /\ ThreadOK(U) /\ U \in lua_State /\ U.life = "started" /\ U.nCcalls \in Nat
  BY <1>2, Top
<1>4. Stacked(cs) /\ Leveled(cs, l) /\ Agreed(th, cs, l)
  BY <1>2 DEF Good
<1>5. n \in 2..n /\ n - 1 \in 1..n /\ n \in 1..n
  <2>1. n # 1
    BY <1>1, <1>3, <1>4 DEF Stacked, A
  <2> HIDE DEF n
  <2>2. QED BY <1>3, <2>1
<1>6. cs[n - 1].k = "cfun" /\ cs[n - 1].f = "resume" /\ cs[n - 1].at = "done" /\ cs[n - 1].co = t
  <2>1. Fits(cs, n)
    BY <1>4, <1>5 DEF Stacked
  <2>2. QED BY <1>1, <1>3, <2>1 DEF Fits
<1>7. U.status = "ok" => Len(U.ci) = 1
  <2>1. Level(cs, l, n)
    BY <1>4, <1>5 DEF Leveled
  <2>2. cs[n].k = "resume" /\ Width(cs[n]) = 0
    BY <1>1, <1>3 DEF Width
  <2>3. l[n] = 1
    BY <2>1, <2>2 DEF Level
  <2>4. U.status = "ok" => Len(U.ci) = l[n]
    BY <1>2, <1>3, TopFacts
  <2>5. QED BY <2>3, <2>4
<1>8. U.status # "ok" => U.status = "yield"
  <2>1. Agrees(th[cs[n].t], cs, l, n)
    BY <1>4, <1>5 DEF Agreed
  <2>2. QED BY <1>3, <2>1 DEF Agrees
<1>9. /\ T \in lua_State /\ T.status = U.status /\ T.ci = U.ci /\ T.open = U.open
      /\ T.life = (IF U.status = "ok" THEN "finished" ELSE "started") /\ T.baseCcalls = U.baseCcalls
  <2> DEFINE z == IF U.status = "ok" THEN "finished" ELSE U.life
             m == U.nCcalls - 1
  <2>1. z \in {"started", "finished"} /\ m \in Int /\ x \in {0, 1} \cup Results
    BY <1>1, <1>3
  <2>2. T = [U EXCEPT !.nCcalls = m, !.life = z, !.left = x]
    BY <1>3 DEF Leaves, lua_State
  <2>3. z = IF U.status = "ok" THEN "finished" ELSE "started"
    BY <1>3
  <2> HIDE DEF z, m, T
  <2>4. QED BY <1>3, <2>1, <2>2, <2>3, ZenonT(30) DEF lua_State
<1> HIDE DEF T
<1>10. ThreadOK(T)
  BY <1>3, <1>9, SameFrames
<1>11. OffOK(T, t \in {t})
  BY <1>7, <1>8, <1>9 DEF OffOK
<1>12. Good(G, d, Prefix(l, n - 1), {t})
  <2> DEFINE X == {}
             Y == {t}
  <2>1. \A u \in Threads \ {t} : u \in X <=> u \in Y
    OBVIOUS
  <2>2. n \in 2..Len(cs) /\ cs[n].k = "resume" /\ t = cs[n].t /\ t = cs[Len(cs)].t
    BY <1>1, <1>3, <1>5
  <2>3. OffOK(T, t \in Y) /\ Good(th, cs, l, X)
    BY <1>2, <1>11
  <2> HIDE DEF n, t, X, Y
  <2>4. Good([th EXCEPT ![t] = T], Prefix(cs, n - 1), Prefix(l, n - 1), Y)
    BY ONLY <1>10, <2>1, <2>2, <2>3, LeaveKeeps
  <2>5. QED BY <2>4 DEF Y
<1>13. Exempt(d) = {t}
  <2>1. Len(d) = n - 1 /\ d[n - 1] = cs[n - 1]
    BY <1>3, <1>5 DEF Prefix
  <2> HIDE DEF d
  <2>2. QED BY <1>6, <2>1 DEF Exempt
<1>14. th' = G /\ cs' = d
  <2>1. [Now EXCEPT !.th[Me] = Leaves(@, x)] = St(G, cs)
    BY DEF Now, St, T
  <2> HIDE DEF G, t
  <2>2. Pop(St(G, cs)) = St(G, d)
    BY StOps
  <2>3. Becomes(St(G, d))
    BY <1>1, <2>1, <2>2
  <2>4. QED BY <2>3 DEF Becomes, St
<1>15. QED BY <1>12, <1>13, <1>14 DEF CallsInv, Fine

LEMMA TransferKeeps == ASSUME CallsInv, Transfer PROVE CallsInv'
<1> DEFINE co == TopA.co
           U == th[co]
           T == [U EXCEPT !.left = 0]
           G == [th EXCEPT ![co] = T]
<1>1. TopA.k = "cfun" /\ TopA.f = "resume"
  BY DEF Transfer, In, Active
<1>2. PICK l : Good(th, cs, l, Exempt(cs))
  BY Begun
<1>3. /\ TopA = cs[Len(cs)] /\ Me = cs[Len(cs)].t /\ Now = St(th, cs) /\ TopA \in Acts /\ Me \in Threads
      /\ th \in [Threads -> lua_State] /\ th[Me].status = "ok" /\ th[Me].nCcalls < Limit
  BY <1>1, <1>2, Top
<1>4. co \in Threads /\ ThreadOK(U) /\ U \in lua_State
  <2>1. co \in Threads
    BY <1>1, <1>3, ActType
  <2>2. QED BY <1>2, <2>1 DEF Good, Threaded, ThreadOK
<1>5. ASSUME TopA.at = "done",
             Becomes(IF U.left + 1 > MaxCStack THEN luaG_runerror(Now, Me)
                     ELSE CReturn([Now EXCEPT !.th[co].left = 0], Me))
      PROVE  CallsInv'
  <2>1. Exempt(cs) = {co}
    BY <1>1, <1>3, <1>5 DEF Exempt
  <2>2. ~OnStack(cs, co) => OffOK(U, co \in {co})
    BY <1>2, <1>4, <2>1 DEF Good, Suspended
  <2>3. \A u \in Threads \ {co} : u \in {co} <=> u \in {}
    OBVIOUS
  <2>4. CASE U.left + 1 > MaxCStack
    <3>1. ~ResultsFit
      <4>1. U.left \in {0, 1} \cup Results /\ MaxCStack \in Nat /\ Results \subseteq Nat
        BY <1>4, BoundsAssumption DEF lua_State
      <4>2. SUFFICES ASSUME ResultsFit PROVE FALSE
        OBVIOUS
      <4>3. 1 < MaxCStack /\ \A x \in Results : x < MaxCStack
        BY <4>2 DEF ResultsFit
      <4> DEFINE z == U.left
      <4>4. z \in Nat /\ z < MaxCStack
        <5>1. CASE z \in {0, 1}
          BY <4>1, <4>3, <5>1
        <5>2. CASE z \in Results
          BY <4>1, <4>3, <5>2
        <5>3. QED BY <4>1, <5>1, <5>2
      <4>5. z + 1 > MaxCStack
        BY <2>4
      <4> HIDE DEF z
      <4>6. QED BY <4>1, <4>4, <4>5
    <3>2. ~OnStack(cs, co) => OffOK(U, co \in {})
      BY <2>2, <3>1 DEF OffOK
    <3>3. Good([th EXCEPT ![co] = U], cs, l, {})
      <4> HIDE DEF co
      <4>1. QED BY <1>2, <1>4, <2>1, <2>3, <3>2, AsideKeeps
    <3>4. Good(th, cs, l, {})
      BY <1>3, <1>4, <3>3
    <3>5. Sound(luaG_runerror(St(th, cs), Me), {})
      BY <1>3, <3>4, RaiseKeeps
    <3>6. QED BY <1>3, <1>5, <2>4, <3>5, Ended
  <2>5. CASE ~(U.left + 1 > MaxCStack)
    <3>1. /\ T \in lua_State /\ T.status = U.status /\ T.ci = U.ci /\ T.open = U.open /\ T.life = U.life
          /\ T.left = 0 /\ T.baseCcalls = U.baseCcalls /\ T.nCcalls = U.nCcalls
      BY <1>4 DEF lua_State
    <3> HIDE DEF T
    <3>2. ThreadOK(T)
      BY <1>4, <3>1, SameFrames
    <3>3. ~OnStack(cs, co) => OffOK(T, co \in {})
      BY <2>2, <3>1 DEF OffOK
    <3>4. Good(G, cs, l, {})
      <4> HIDE DEF co
      <4>1. QED BY <1>2, <1>4, <2>1, <2>3, <3>1, <3>2, <3>3, AsideKeeps
    <3>5. Sound(CReturn(St(G, cs), Me), {})
      <4> HIDE DEF G
      <4>1. QED BY <1>1, <1>3, <3>4, CReturnKeeps
    <3>6. [Now EXCEPT !.th[co].left = 0] = St(G, cs)
      BY DEF Now, St, T
    <3>7. Becomes(CReturn(St(G, cs), Me))
      BY <1>5, <2>5, <3>6
    <3>8. QED BY <3>5, <3>7, Ended
  <2>6. QED BY <2>4, <2>5
<1>6. CASE TopA.at = "failed" /\ (Becomes(CReturn(Now, Me)) \/ Becomes(luaG_runerror(Now, Me)))
  <2>1. Exempt(cs) = {}
    BY <1>3, <1>6 DEF Exempt
  <2>2. CASE Becomes(CReturn(Now, Me))
    BY <1>1, <1>2, <2>1, <2>2, CallerGoesOn
  <2>3. CASE Becomes(luaG_runerror(Now, Me))
    BY <1>1, <2>1, <2>3, FaultKeeps
  <2>4. QED BY <1>6, <2>2, <2>3
<1>7. QED BY <1>5, <1>6 DEF Transfer, In, Active

LEMMA luaB_yieldKeeps == ASSUME CallsInv, luaB_yield PROVE CallsInv'
<1> DEFINE n == Len(cs)
           U == th[Me]
           T == [U EXCEPT !.status = "yield"]
           G == [th EXCEPT ![Me] = T]
<1>1. TopA.k = "cfun" /\ TopA.f = "yield"
  BY DEF luaB_yield, In, Active
<1>2. PICK l : Good(th, cs, l, {})
  BY <1>1, Begun
<1>3. /\ TopA = cs[n] /\ Me = cs[n].t /\ Now = St(th, cs) /\ cs \in Seq(Acts) /\ n \in Nat
      /\ U.nCcalls \in Nat /\ U \in lua_State
  BY <1>2, Top
<1>4. CASE U.nCcalls > U.baseCcalls
  <2>1. Becomes(luaG_runerror(Now, Me)) /\ Exempt(cs) = {}
    BY <1>1, <1>4, Begun DEF luaB_yield
  <2>2. QED BY <1>1, <2>1, FaultKeeps
<1>5. CASE ~(U.nCcalls > U.baseCcalls)
  <2>1. U.nCcalls <= U.baseCcalls
    <3>1. U.baseCcalls \in Int
      BY <1>3 DEF lua_State
    <3> HIDE DEF U
    <3>2. QED BY <1>3, <1>5, <3>1
  <2>2. n - 2 \in 1..n /\ cs[n - 2].k = "resume" /\ Good(G, Prefix(cs, n - 2), Prefix(l, n - 2), {})
    BY <1>1, <1>2, <1>3, <2>1, YieldKeeps
  <2>3. [Now EXCEPT !.th[Me].status = "yield"] = St(G, cs)
    BY DEF Now, St
  <2> HIDE DEF G, U
  <2>4. Pop(Pop(St(G, cs))) = St(G, Prefix(cs, n - 2))
    <3> DEFINE d == Prefix(cs, n - 1)
    <3>1. Pop(St(G, cs)) = St(G, d) /\ Pop(St(G, d)) = St(G, Prefix(d, Len(d) - 1))
      BY StOps
    <3>2. Len(d) = n - 1 /\ Prefix(d, (n - 1) - 1) = Prefix(cs, n - 2)
      <4> HIDE DEF n
      <4>1. n - 1 \in 1..Len(cs) /\ n - 2 \in 1..(n - 1) /\ (n - 1) - 1 = n - 2
        BY <1>3, <2>2 DEF n
      <4>2. Len(d) = n - 1 /\ d \in Seq(Acts) /\ \A j \in 1..(n - 1) : d[j] = cs[j]
        BY <1>3, <4>1 DEF Prefix
      <4> HIDE DEF d
      <4>3. /\ Len(Prefix(d, n - 2)) = n - 2 /\ Prefix(d, n - 2) \in Seq(Acts)
            /\ \A j \in 1..(n - 2) : Prefix(d, n - 2)[j] = d[j]
        BY <4>1, <4>2 DEF Prefix
      <4>4. /\ Len(Prefix(cs, n - 2)) = n - 2 /\ Prefix(cs, n - 2) \in Seq(Acts)
            /\ \A j \in 1..(n - 2) : Prefix(cs, n - 2)[j] = cs[j]
        BY <1>3, <4>1 DEF Prefix
      <4>5. \A j \in 1..(n - 2) : j \in 1..(n - 1)
        BY <1>3, <4>1
      <4> DEFINE p == Prefix(d, n - 2)
                 q == Prefix(cs, n - 2)
      <4>6. p \in Seq(Acts) /\ q \in Seq(Acts) /\ Len(p) = Len(q) /\ \A j \in 1..Len(p) : p[j] = q[j]
        BY <4>2, <4>3, <4>4, <4>5
      <4> HIDE DEF p, q
      <4>7. p = q
        BY ONLY <4>6
      <4>8. QED BY <4>1, <4>2, <4>7 DEF p, q
    <3>3. QED BY <3>1, <3>2
  <2>5. Becomes(St(G, Prefix(cs, n - 2)))
    BY <1>5, <2>3, <2>4 DEF luaB_yield, U
  <2>6. Exempt(Prefix(cs, n - 2)) = {}
    <3>1. Len(Prefix(cs, n - 2)) = n - 2 /\ Prefix(cs, n - 2)[n - 2] = cs[n - 2]
      BY <1>3, <2>2 DEF Prefix
    <3>2. QED BY <2>2, <3>1 DEF Exempt
  <2>7. QED BY <2>2, <2>5, <2>6, SoundSt, Ended DEF Fine
<1>6. QED BY <1>4, <1>5

--------------------------------------------------------------------------------
(* The game, and the beginning *)

LEMMA HostKeeps == ASSUME CallsInv, Host PROVE CallsInv'
<1>1. TopA.k = "host" /\ Becomes(luaD_pcall(Now, Main, "lua", FALSE))
  BY DEF Host, Active
<1>2. PICK l : Good(th, cs, l, {})
  BY <1>1, Begun
<1>3. /\ TopA = cs[Len(cs)] /\ Me = cs[Len(cs)].t /\ Now = St(th, cs) /\ Len(cs) \in Nat /\ Len(cs) >= 1
      /\ th[Me].status = "ok" /\ th[Me].nCcalls < Limit
  BY <1>1, <1>2, Top
<1>4. Stacked(cs)
  BY <1>2 DEF Good
<1>5. Len(cs) = 1
  <2> DEFINE n == Len(cs)
  <2>1. n \notin 2..n
    BY <1>1, <1>3, <1>4 DEF Stacked, Fits
  <2>2. n \in Nat /\ n >= 1
    BY <1>3
  <2> HIDE DEF n
  <2>3. n = 1
    BY <2>1, <2>2
  <2>4. QED BY <2>3 DEF n
<1>6. Me = Main
  BY <1>3, <1>4, <1>5 DEF Stacked, A
<1>7. ~(cs[Len(cs)].k = "cfun" /\ cs[Len(cs)].f = "resume") /\ "lua" \in Callees
  BY <1>1, <1>3 DEF Callees
<1>8. Sound(luaD_pcall(St(th, cs), Main, "lua", FALSE), {})
  BY <1>2, <1>3, <1>6, <1>7, PcallKeeps
<1>9. QED BY <1>1, <1>3, <1>8, Ended

LEMMA FreshOK ==
  ASSUME NEW x \in {"none", "started"}, NEW T,
         T = IF x = "none" THEN Fresh ELSE [Fresh EXCEPT !.life = "started"]
  PROVE  /\ ThreadOK(T) /\ T.life = x /\ T.status = "ok" /\ Len(T.ci) = 1 /\ T.nCcalls = 0
         /\ T.baseCcalls = 0 /\ T.ci[1].kind = "host"
<1> DEFINE f == [kind |-> "host", base |-> 1]
           z == <<f>>
<1>1. z \in Seq(CallInfo) /\ Len(z) = 1 /\ z[1] = f /\ f.base = 1 /\ f.kind = "host" /\ DOMAIN z = {1}
  BY DEF CallInfo
<1>2. T = [status |-> "ok", ci |-> z, sizeci |-> BasicCI, nCcalls |-> 0, baseCcalls |-> 0,
           errfunc |-> FALSE, open |-> {}, left |-> 0, life |-> x]
  <2>1. CASE x = "none"
    BY <2>1 DEF Fresh
  <2>2. CASE x = "started"
    BY <2>2 DEF Fresh
  <2>3. QED BY <2>1, <2>2
<1>3. BasicCI \in Nat
  BY BoundsAssumption
<1> HIDE DEF z, f
<1>4. /\ T \in lua_State /\ T.ci = z /\ T.open = {} /\ T.status = "ok" /\ T.life = x /\ T.nCcalls = 0
      /\ T.baseCcalls = 0
  <2>1. /\ T.ci = z /\ T.open = {} /\ T.status = "ok" /\ T.life = x /\ T.nCcalls = 0
        /\ T.baseCcalls = 0
    BY <1>2
  <2>2. z \in Seq(CallInfo) /\ 0 \in Int /\ FALSE \in BOOLEAN /\ {} \in SUBSET Nat /\ 0 \in {0, 1} \cup Results
        /\ "ok" \in {"ok", "yield"} \cup Codes /\ x \in {"none", "fresh", "started", "finished"}
    BY <1>1
  <2>3. T \in lua_State
    <3> DEFINE S == {"ok", "yield"} \cup Codes
               O == {}
               L == {0, 1} \cup Results
               Q == {"none", "fresh", "started", "finished"}
               P == SUBSET Nat
    <3>1. "ok" \in S /\ O \in P /\ 0 \in L /\ x \in Q
      BY <2>2
    <3>2. lua_State = [status : S, ci : Seq(CallInfo), sizeci : Nat, nCcalls : Int, baseCcalls : Int,
                       errfunc : BOOLEAN, open : P, left : L, life : Q]
      BY DEF lua_State
    <3>3. T = [status |-> "ok", ci |-> z, sizeci |-> BasicCI, nCcalls |-> 0, baseCcalls |-> 0,
               errfunc |-> FALSE, open |-> O, left |-> 0, life |-> x]
      BY <1>2
    <3>4. z \in Seq(CallInfo) /\ 0 \in Int /\ FALSE \in BOOLEAN
      BY <1>1
    <3> HIDE DEF S, O, L, Q, P
    <3>5. QED BY ONLY <1>3, <3>1, <3>2, <3>3, <3>4
  <2>4. QED BY <2>1, <2>3
<1>5. \A p \in DOMAIN z : z[p].base = 2 * p - 1
  BY <1>1
<1>6. ThreadOK(T)
  <2>1. T.status # "yield" /\ Len(T.ci) >= 1 /\ \A p \in DOMAIN T.ci : T.ci[p].base = 2 * p - 1
    <3>1. T.status # "yield"
      BY <1>4
    <3>2. Len(T.ci) = 1
      BY <1>1, <1>4, Zenon
    <3>3. \A p \in DOMAIN T.ci : T.ci[p].base = 2 * p - 1
      BY <1>4, <1>5
    <3>4. \A m : m = 1 => m >= 1
      OBVIOUS
    <3>5. Len(T.ci) >= 1
      BY <3>2, <3>4, Zenon
    <3>6. QED BY <3>1, <3>3, <3>5
  <2>2. \A y \in T.open : FALSE
    BY <1>4
  <2>3. QED BY <1>4, <2>1, <2>2 DEF ThreadOK
<1>7. QED BY <1>1, <1>4, <1>6

LEMMA InitKeeps == Init => CallsInv
<1> SUFFICES ASSUME Init PROVE CallsInv
  OBVIOUS
<1> DEFINE c == <<A("host", Main)>>
           l == <<1>>
           a == A("host", Main)
<1>1. cs = c /\ th = [t \in Threads |-> IF t = Main THEN [Fresh EXCEPT !.life = "started"] ELSE Fresh]
  BY DEF Init
<1>2. /\ c \in Seq(Acts) /\ Len(c) = 1 /\ c[1] = a /\ a.k = "host" /\ a.t = Main /\ Main \in Threads
      /\ l \in Seq(Nat) /\ Len(l) = 1 /\ l[1] = 1 /\ DOMAIN c = {1}
  <2>1. a \in Acts /\ a.k = "host" /\ a.t = Main /\ Main \in Threads
    <3>1. Main \in Threads /\ "host" \in {"host", "call", "resume", "raise", "handler"}
      BY ThreadsAssumption
    <3>2. a \in Acts
      BY <3>1, NewAct
    <3>3. QED BY <3>1, <3>2 DEF A
  <2> HIDE DEF a
  <2>2. c \in Seq(Acts) /\ Len(c) = 1 /\ c[1] = a /\ DOMAIN c = {1}
    BY <2>1 DEF a
  <2>3. QED BY <2>1, <2>2
<1> HIDE DEF c, l, a
<1>3. Count(c, 1) = 0 /\ Count(c, 0) = 0
  <2>1. {j \in 1..1 : c[j].k \in {"call", "resume"}} = {} /\ {j \in 1..0 : c[j].k \in {"call", "resume"}} = {}
    BY <1>2
  <2>2. QED BY <2>1, FS_EmptySet DEF Count
<1>4. \A t \in Threads :
        /\ ThreadOK(th[t]) /\ th[t].status = "ok" /\ Len(th[t].ci) = 1 /\ th[t].nCcalls = 0
        /\ th[t].baseCcalls = 0 /\ th[t].life = (IF t = Main THEN "started" ELSE "none")
  <2> TAKE t \in Threads
  <2>1. CASE t = Main
    <3>1. th[t] = [Fresh EXCEPT !.life = "started"]
      BY <1>1, <2>1
    <3>2. QED BY <2>1, <3>1, FreshOK
  <2>2. CASE t # Main
    <3>1. th[t] = Fresh
      BY <1>1, <2>2
    <3>2. QED BY <2>2, <3>1, FreshOK
  <2>3. QED BY <2>1, <2>2
<1>5. Threaded(th)
  <2>1. DOMAIN th = Threads /\ th = [t \in Threads |-> th[t]]
    BY <1>1
  <2>2. \A t \in Threads : th[t] \in lua_State
    BY <1>4 DEF ThreadOK
  <2>3. th \in [Threads -> lua_State]
    BY <2>1, <2>2
  <2>4. QED BY <1>2, <1>4, <2>3 DEF Threaded
<1>6. Stacked(c)
  BY <1>2 DEF Stacked, a
<1>7. Leveled(c, l)
  BY <1>2 DEF Leveled
<1>8. Width(a) = 0
  BY <1>2 DEF Width
<1>9. Remembered(c, l)
  BY <1>2 DEF Remembered, Saved, Bounded
<1>10. Agreed(th, c, l)
  <2>1. /\ th[Main].life = "started" /\ th[Main].status = "ok" /\ Len(th[Main].ci) = 1
        /\ th[Main].nCcalls = 0
    BY <1>2, <1>4
  <2>2. \A p \in (l[1] - Width(c[1]) + 1)..l[1] : FALSE
    BY <1>2, <1>8
  <2>3. Agrees(th[c[1].t], c, l, 1)
    BY <1>2, <2>1, <2>2 DEF Agrees
  <2>4. AgreesAtLast(th[c[1].t], c, l, 1)
    BY <1>2, <1>3, <2>1 DEF AgreesAtLast
  <2>5. \A i \in 1..Len(c) : i = 1
    BY <1>2
  <2>6. QED BY <2>3, <2>4, <2>5 DEF Agreed
<1>11. Suspended(th, c, {})
  <2> SUFFICES ASSUME NEW t \in Threads, ~OnStack(c, t) PROVE OffOK(th[t], t \in {})
    BY DEF Suspended
  <2>1. t # Main
    BY <1>2 DEF OnStack
  <2>2. th[t].life = "none" /\ th[t].status = "ok" /\ Len(th[t].ci) = 1
    BY <1>4, <2>1
  <2>3. QED BY <2>2 DEF OffOK
<1>12. TopBounded(c)
  <2>1. 0 <= Limit /\ 0 < Limit
    BY BoundsAssumption DEF Limit
  <2>2. QED BY <1>2, <1>3, <2>1 DEF TopBounded
<1>13. Good(th, c, l, {})
  BY <1>5, <1>6, <1>7, <1>9, <1>10, <1>11, <1>12 DEF Good
<1>14. Exempt(c) = {}
  BY <1>2 DEF Exempt
<1>15. QED BY <1>1, <1>13, <1>14 DEF CallsInv, Fine

--------------------------------------------------------------------------------
(* The theorems *)

LEMMA StepKeeps == ASSUME CallsInv, [Next]_vars PROVE CallsInv'
<1>1. CASE UNCHANGED vars
  BY <1>1 DEF vars, CallsInv, Fine
<1>2. CASE Next
  BY <1>2, CallDoneKeeps, PcallDoneKeeps, LandKeeps, ErrorMsgKeeps, HandlerDoneKeeps,
     OpCallKeeps, OpCallCKeeps, OpTailCallKeeps, OpMetaKeeps, OpFaultKeeps, OpClosureKeeps, OpReturnKeeps,
     ErrorKeeps, PCallKeeps, luaB_cocreateKeeps, auxresumeKeeps, ResumeDoneKeeps, TransferKeeps,
     luaB_yieldKeeps, HostKeeps, Zenon DEF Next
<1>3. QED BY <1>1, <1>2

\* Frames, counters and the C stack fit together whatever scripts call, fail, yield and resume.
THEOREM CallsInvariant == Spec => []CallsInv
<1>1. CallsInv /\ [Next]_vars => CallsInv'
  BY StepKeeps
<1>2. QED BY InitKeeps, <1>1, PTL DEF Spec

LEMMA InvBounds == CallsInv => CStackBounded
<1> SUFFICES ASSUME CallsInv PROVE CStackBounded
  OBVIOUS
<1>1. PICK l : Good(th, cs, l, Exempt(cs))
  BY Begun
<1>2. DOMAIN cs = 1..Len(cs)
  BY <1>1, Top
<1>3. Depth = Count(cs, Len(cs))
  BY <1>2, Zenon DEF Depth, Count
<1>4. Count(cs, Len(cs)) <= MaxCCalls + Slack
  BY <1>1 DEF Good, TopBounded, Limit
<1>5. QED BY <1>3, <1>4 DEF CStackBounded

\* However scripts nest calls of C functions, resumes of coroutines and failing error
\* handlers, in one thread or across threads, the C stack stays below LUAI_MAXCCALLS and
\* an eighth (luaD_call, lua_resume).
THEOREM StackIsBounded == Spec => []CStackBounded
BY CallsInvariant, InvBounds, PTL

LEMMA InvCounts == CallsInv => CountsRight
<1> SUFFICES ASSUME CallsInv PROVE CountsRight
  OBVIOUS
<1>1. PICK l : Good(th, cs, l, Exempt(cs))
  BY Begun
<1>2. DOMAIN cs = 1..Len(cs)
  BY <1>1, Top
<1> SUFFICES ASSUME NEW i \in DOMAIN cs, \A j \in (i + 1)..Len(cs) : cs[j].t # cs[i].t
             PROVE  th[cs[i].t].nCcalls = Cardinality({j \in 1..i : cs[j].k \in {"call", "resume"}})
  BY DEF CountsRight
<1>3. AgreesAtLast(th[cs[i].t], cs, l, i)
  BY <1>1, <1>2 DEF Good, Agreed
<1>4. th[cs[i].t].nCcalls = Count(cs, i)
  BY <1>3 DEF AgreesAtLast, IsLast
<1>5. QED BY <1>4 DEF Count

\* nCcalls of every thread on the C stack is the number of C calls and resumes below its
\* last activation, after any mixture of calls, errors, yields and resumes.
THEOREM CountsAreRight == Spec => []CountsRight
BY CallsInvariant, InvCounts, PTL

\* A thread that has yielded has one C function on top of Lua functions.
LEMMA YieldedFrames ==
  ASSUME NEW T, ThreadOK(T), T.status = "yield", NEW p \in 2..Len(T.ci)
  PROVE  T.ci[p].kind = IF p = Len(T.ci) THEN "C" ELSE "lua"
<1> DEFINE n == Len(T.ci)
<1>1. T.ci[n].kind = "C" /\ \A r \in 2..(n - 1) : T.ci[r].kind = "lua"
  BY DEF ThreadOK
<1>2. n \in Nat
  BY DEF ThreadOK, lua_State
<1> HIDE DEF n
<1>3. p \in 2..n
  BY DEF n
<1>4. p = n \/ p \in 2..(n - 1)
  BY ONLY <1>2, <1>3
<1>5. CASE p = n
  BY <1>1, <1>5 DEF n
<1>6. CASE p # n
  BY <1>1, <1>4, <1>6 DEF n
<1>7. QED BY <1>5, <1>6

\* The levels of the invariant are those that the activations add up to.
LEMMA LevelsAdd ==
  ASSUME NEW l, Stacked(cs), Leveled(cs, l)
  PROVE  \A i \in DOMAIN cs : Levels[i] = l[i]
<1> DEFINE LevelOf(g, i) == IF i = 1 THEN 1 ELSE (IF cs[i].k = "resume" THEN 1 ELSE g[i - 1]) + Width(cs[i])
           f == Levels
<1>1. DOMAIN cs = 1..Len(cs) /\ Len(cs) \in Nat /\ l \in Seq(Nat) /\ DOMAIN l = 1..Len(cs)
  BY DEF Stacked, Leveled
<1>2. \A i \in DOMAIN cs : l[i] = LevelOf(l, i)
  <2>1. l[1] = 1
    BY DEF Leveled
  <2>2. ASSUME NEW i \in 2..Len(cs) PROVE l[i] = LevelOf(l, i)
    BY <2>2 DEF Leveled, Level
  <2>3. \A i \in DOMAIN cs : i = 1 \/ i \in 2..Len(cs)
    BY ONLY <1>1
  <2>4. QED BY <2>1, <2>2, <2>3
<1>3. l = [i \in DOMAIN cs |-> LevelOf(l, i)]
  <2>1. l = [i \in DOMAIN cs |-> l[i]]
    BY <1>1
  <2>2. QED BY <1>2, <2>1, Zenon
<1>4. f = [i \in DOMAIN cs |-> LevelOf(f, i)]
  <2>1. f = CHOOSE g : g = [i \in DOMAIN cs |-> LevelOf(g, i)]
    BY DEF Levels
  <2>2. QED BY <1>3, <2>1, Zenon
<1>5. \A i \in DOMAIN cs : f[i] = LevelOf(f, i)
  BY <1>4, Zenon
<1> DEFINE D == {i \in DOMAIN cs : f[i] # l[i]}
<1>6. D = {}
  <2>1. SUFFICES ASSUME D # {} PROVE FALSE
    OBVIOUS
  <2> HIDE DEF f
  <2>2. D \in SUBSET Nat
    BY <1>1
  <2>3. PICK i \in D : \A j \in D : ~(<<j, i>> \in OpToRel(<, Nat))
    BY <2>1, <2>2, WFMin, NatLessThanWellFounded, Zenon
  <2>4. i \in DOMAIN cs /\ f[i] # l[i]
    BY <2>3, Zenon
  <2>5. CASE i = 1
    BY <1>2, <1>5, <2>4, <2>5
  <2>6. CASE i # 1
    <3>1. i - 1 \in DOMAIN cs /\ i \in Nat /\ i - 1 \in Nat /\ i - 1 < i
      BY ONLY <1>1, <2>4, <2>6
    <3>2. i - 1 \notin D
      BY <2>3, <3>1 DEF OpToRel
    <3>3. f[i - 1] = l[i - 1]
      BY <3>1, <3>2
    <3>4. QED BY <1>2, <1>5, <2>4, <2>6, <3>3
  <2>7. QED BY <2>5, <2>6
<1>7. QED BY <1>6

LEMMA InvFrames == CallsInv => FramesAccounted
<1> SUFFICES ASSUME CallsInv PROVE FramesAccounted
  OBVIOUS
<1>1. PICK l : Good(th, cs, l, Exempt(cs))
  BY Begun
<1>2. Threaded(th) /\ Stacked(cs) /\ Leveled(cs, l) /\ Agreed(th, cs, l)
  BY <1>1 DEF Good
<1>3. DOMAIN cs = 1..Len(cs)
  BY <1>2 DEF Stacked
<1>4. ASSUME NEW t \in Threads, th[t].status = "yield"
      PROVE  \A p \in 2..Len(th[t].ci) : th[t].ci[p].kind = IF p = Len(th[t].ci) THEN "C" ELSE "lua"
  <2>1. ThreadOK(th[t])
    BY <1>2 DEF Threaded
  <2>2. QED BY ONLY <1>4, <2>1, YieldedFrames
<1>5. ASSUME NEW i \in DOMAIN cs, th[cs[i].t].status # "yield"
      PROVE  /\ Levels[i] <= Len(th[cs[i].t].ci)
             /\ \A p \in (Levels[i] - Width(cs[i]) + 1)..Levels[i] : th[cs[i].t].ci[p].kind = KindOf(cs[i])
             /\ (\A j \in (i + 1)..Len(cs) : cs[j].t # cs[i].t) => Levels[i] = Len(th[cs[i].t].ci)
  <2>1. Levels[i] = l[i]
    BY ONLY <1>2, <1>5, LevelsAdd
  <2>2. Agrees(th[cs[i].t], cs, l, i) /\ AgreesAtLast(th[cs[i].t], cs, l, i)
    BY <1>2, <1>3 DEF Agreed
  <2>3. th[cs[i].t].status = "ok"
    BY <1>5, <2>2 DEF Agrees
  <2>4. /\ l[i] <= Len(th[cs[i].t].ci)
        /\ \A p \in (l[i] - Width(cs[i]) + 1)..l[i] : th[cs[i].t].ci[p].kind = KindOf(cs[i])
    BY <2>2, <2>3 DEF Agrees
  <2>5. (\A j \in (i + 1)..Len(cs) : cs[j].t # cs[i].t) => l[i] = Len(th[cs[i].t].ci)
    BY <2>2, <2>3 DEF AgreesAtLast, IsLast
  <2> HIDE DEF Levels
  <2>6. QED BY ONLY <2>1, <2>4, <2>5, Zenon
<1>6. QED BY <1>4, <1>5 DEF FramesAccounted

\* Whatever runs, fails, yields and goes on, the activations on the C stack account for
\* every frame of their threads, kind by kind, and a thread that has yielded has only Lua
\* functions below the C function that did: what resume() takes for granted.
THEOREM FramesFit == Spec => []FramesAccounted
BY CallsInvariant, InvFrames, PTL

LEMMA InvStatus == ResultsFit /\ CallsInv => StatusIsTrue
<1> SUFFICES ASSUME ResultsFit, CallsInv PROVE StatusIsTrue
  OBVIOUS
<1>1. PICK l : Good(th, cs, l, Exempt(cs))
  BY Begun
<1>2. DOMAIN cs = 1..Len(cs) /\ TopA = cs[Len(cs)] /\ Me = cs[Len(cs)].t /\ Len(cs) \in Nat /\ Len(cs) >= 1
  BY <1>1, Top
<1>3. Stacked(cs) /\ Threaded(th) /\ Suspended(th, cs, Exempt(cs))
  BY <1>1 DEF Good
<1> SUFFICES ASSUME NEW co \in Threads \ {Main}, th[co].life # "none", Me # co, ~Talking(co)
             PROVE  costatus(Me, co) = CASE On(co) # {} -> "normal"
                                        [] On(co) = {} /\ th[co].life = "finished" -> "dead"
                                        [] OTHER -> "suspended"
  BY Zenon DEF StatusIsTrue
<1> DEFINE U == th[co]
<1>4. co \notin Exempt(cs)
  BY <1>2 DEF Exempt, Talking, Active
<1>5. ThreadOK(U) /\ U.status \in {"ok", "yield"} \cup Codes
      /\ U.life \in {"none", "fresh", "started", "finished"} /\ Len(U.ci) \in Nat
  <2>1. ThreadOK(U)
    BY <1>3 DEF Threaded
  <2>2. QED BY <2>1 DEF ThreadOK, lua_State
<1>6. CASE On(co) # {}
  <2>1. OnStack(cs, co)
    BY <1>6 DEF On, OnStack
  <2>2. U.status = "ok" /\ Len(U.ci) >= 2
    BY <1>1, <1>2, <2>1, NotOnTop
  <2>3. Len(U.ci) > 1
    <3> DEFINE z == Len(U.ci)
    <3>1. z \in Nat /\ z >= 2
      BY <1>5, <2>2
    <3> HIDE DEF z
    <3>2. z > 1
      BY <3>1
    <3>3. QED BY <3>2 DEF z
  <2>4. costatus(Me, co) = "normal"
    BY <2>2, <2>3 DEF costatus
  <2>5. QED BY <1>6, <2>4
<1>7. CASE On(co) = {}
  <2>1. ~OnStack(cs, co)
    <3> SUFFICES ASSUME NEW i \in DOMAIN cs, cs[i].t = co PROVE FALSE
      BY DEF OnStack
    <3>1. cs[i].k = "host"
      BY <1>7 DEF On
    <3>2. i \notin 2..Len(cs)
      BY <1>3, <3>1 DEF Stacked, Fits
    <3>3. i \in 1..Len(cs)
      BY <1>2
    <3> DEFINE n == Len(cs)
    <3> HIDE DEF n
    <3>4. i \notin 2..n /\ i \in 1..n /\ n \in Nat
      BY <1>2, <3>2, <3>3 DEF n
    <3>5. i = 1
      BY <3>4
    <3>6. QED BY <1>3, <3>5 DEF Stacked, A
  <2>2. OffOK(U, FALSE)
    <3>1. OffOK(U, co \in Exempt(cs))
      BY <1>3, <2>1 DEF Suspended
    <3>2. (co \in Exempt(cs)) = FALSE
      BY <1>4
    <3>3. QED BY <3>1, <3>2
  <2>3. U.life \in {"fresh", "started", "finished"}
    BY <1>5
  <2>4. U.status = "ok" => ~(Len(U.ci) > 1)
    <3>1. U.status = "ok" => Len(U.ci) = 1
      BY <2>2 DEF OffOK
    <3>2. \A m : m = 1 => ~(m > 1)
      OBVIOUS
    <3>3. QED BY <3>1, <3>2, Zenon
  <2>5. CASE U.life = "finished"
    <3>1. U.status # "yield"
      BY <2>2, <2>5 DEF OffOK
    <3>2. U.status = "ok" => U.left = 0
      BY <2>2, <2>5 DEF OffOK
    <3>3. costatus(Me, co) = "dead"
      <4>1. CASE U.status = "ok"
        BY <2>4, <3>2, <4>1 DEF costatus
      <4>2. CASE U.status # "ok"
        BY <3>1, <4>2 DEF costatus
      <4>3. QED BY <4>1, <4>2
    <3>4. QED BY <1>7, <2>5, <3>3
  <2>6. CASE U.life = "fresh"
    <3>1. U.status = "ok" /\ U.left # 0
      BY <2>2, <2>6 DEF OffOK
    <3>2. costatus(Me, co) = "suspended"
      BY <2>4, <3>1 DEF costatus
    <3>3. QED BY <1>7, <2>6, <3>2
  <2>7. CASE U.life = "started"
    <3>1. U.status = "yield"
      BY <2>2, <2>7 DEF OffOK
    <3>2. costatus(Me, co) = "suspended"
      BY <3>1 DEF costatus
    <3>3. QED BY <1>7, <2>7, <3>2
  <2>8. QED BY <2>3, <2>5, <2>6, <2>7
<1>8. QED BY <1>6, <1>7

\* If what a coroutine returns always fits on the stack of its resumer, coroutine.status
\* tells what the coroutine is: on the C stack, suspended at a yield or before its start,
\* or dead (costatus reads the status, the frames and the values left behind).
THEOREM StatusTrue == ASSUME ResultsFit PROVE Spec => []StatusIsTrue
<1>1. CallsInv => StatusIsTrue
  BY InvStatus
<1>2. QED BY CallsInvariant, <1>1, PTL

--------------------------------------------------------------------------------
(* Protected calls *)

LEMMA OpenBelow ==
  ASSUME NEW U, ThreadOK(U)
  PROVE  \A x \in U.open : x < 2 * Len(U.ci)
<1> SUFFICES ASSUME NEW x \in U.open PROVE x < 2 * Len(U.ci)
  OBVIOUS
<1>1. PICK p \in DOMAIN U.ci : x = 2 * p - 1
  BY DEF ThreadOK
<1> DEFINE z == Len(U.ci)
<1>2. p \in 1..z /\ z \in Nat
  BY SMTT(30) DEF ThreadOK, lua_State
<1> HIDE DEF z
<1>3. x < 2 * z
  BY <1>1, <1>2
<1>4. QED BY <1>3 DEF z

\* A protected call that returns finds what it saved, but for the error function.
LEMMA PcallReturns ==
  ASSUME NEW l, Good(th, cs, l, {}), TopA.k = "pcall", NEW T,
         T = [th[Me] EXCEPT !.errfunc = TopA.old.errfunc]
  PROVE  AsFound(T, TopA.old)
<1> DEFINE n == Len(cs)
           U == th[Me]
           old == TopA.old
<1>1. /\ TopA = cs[n] /\ Me = cs[n].t /\ n \in Nat /\ n >= 1 /\ U.status = "ok" /\ U \in lua_State
      /\ ThreadOK(U)
  BY Top
<1>2. Saved(cs, l, n)
  BY <1>1 DEF Good, Remembered
<1>3. old.ci = l[n] /\ old.top = 2 * l[n] /\ old.nCcalls = Count(cs, n)
  BY <1>1, <1>2 DEF Saved
<1>4. U.nCcalls = Count(cs, n) /\ Len(U.ci) = l[n]
  BY <1>1, TopFacts
<1>5. \A x \in U.open : x < 2 * Len(U.ci)
  BY <1>1, OpenBelow
<1>6. T.nCcalls = U.nCcalls /\ T.ci = U.ci /\ T.open = U.open /\ T.errfunc = old.errfunc
  BY <1>1 DEF lua_State
<1> HIDE DEF U, old, n
<1>7. T.nCcalls = old.nCcalls /\ Len(T.ci) = old.ci /\ \A x \in T.open : x < old.top
  BY <1>3, <1>4, <1>5, <1>6
<1>8. AsFound(T, old)
  BY <1>6, <1>7, Zenon DEF AsFound
<1>9. QED BY <1>8 DEF old

LEMMA StepRestores ==
  ASSUME CallsInv, [Next]_vars, TopA.k \in {"pcall", "throw"}, NEW i \in DOMAIN cs,
         cs[i].k = "pcall", Len(cs') = i - 1
  PROVE  AsFound(th'[cs[i].t], cs[i].old)
<1>1. PICK l : Good(th, cs, l, {})
  BY Begun
<1>2. /\ cs \in Seq(Acts) /\ Len(cs) \in Nat /\ Len(cs) >= 1 /\ TopA = cs[Len(cs)] /\ Me = cs[Len(cs)].t
      /\ th \in [Threads -> lua_State] /\ Me \in Threads /\ Now = St(th, cs) /\ i \in 1..Len(cs)
  BY <1>1, Top
<1>3. CASE UNCHANGED vars
  <2> DEFINE n == Len(cs)
  <2>1. n = i - 1 /\ i \in 1..n /\ n \in Nat
    BY <1>2, <1>3 DEF vars
  <2> HIDE DEF n
  <2>2. QED BY <2>1
<1>4. CASE PcallDone
  <2> DEFINE T == [th[Me] EXCEPT !.errfunc = TopA.old.errfunc]
             n == Len(cs)
  <2>1. TopA.k = "pcall" /\ Becomes(Pop([Now EXCEPT !.th[Me].errfunc = TopA.old.errfunc]))
    BY <1>4 DEF PcallDone, Active
  <2>2. [Now EXCEPT !.th[Me].errfunc = TopA.old.errfunc] = St([th EXCEPT ![Me] = T], cs)
    BY DEF Now, St
  <2>3. th' = [th EXCEPT ![Me] = T] /\ cs' = Prefix(cs, n - 1)
    <3> DEFINE G == [th EXCEPT ![Me] = T]
    <3> HIDE DEF G
    <3>1. Becomes(Pop(St(G, cs)))
      BY <2>1, <2>2 DEF G
    <3>2. Pop(St(G, cs)) = St(G, Prefix(cs, n - 1))
      BY StOps
    <3>3. Becomes(St(G, Prefix(cs, n - 1)))
      BY <3>1, <3>2
    <3>4. QED BY <3>3 DEF Becomes, St, G
  <2>4. i = n
    <3>1. Len(cs') = n - 1
      BY <1>2, <2>3 DEF Prefix
    <3>2. n - 1 = i - 1 /\ n \in Nat /\ i \in 1..n
      BY <1>2, <3>1
    <3> HIDE DEF n
    <3>3. QED BY <3>2
  <2>5. AsFound(T, TopA.old)
    BY <1>1, <2>1, PcallReturns
  <2>6. th'[Me] = T
    BY <1>2, <2>3
  <2>7. QED BY <1>2, <2>4, <2>5, <2>6
<1>5. CASE Land
  <2> DEFINE at == ErrorJmp(Me)
             cut == Prefix(cs, at - 1)
  <2>1. TopA.k = "throw" /\ Targets(Me) # {}
    BY <1>5 DEF Land, Active
  <2>2. at \in 2..(Len(cs) - 1) /\ cs[at].t = Me
    BY <1>1, <2>1, JumpTarget
  <2>3. cs' = IF Len(cut) > 0 /\ cut[Len(cut)].k = "cfun" THEN [cut EXCEPT ![Len(cut)].at = "failed"] ELSE cut
    BY <1>5 DEF Land, Prefix
  <2>4. i = at
    <3>1. Len(cut) = at - 1 /\ cut \in Seq(Acts)
      <4> HIDE DEF at
      <4>1. QED BY <1>2, <2>2 DEF Prefix
    <3> HIDE DEF cut
    <3>2. Len(cs') = at - 1
      BY <2>3, <3>1
    <3>3. at \in Int /\ i \in Int
      <4> HIDE DEF at
      <4>1. QED BY <1>2, <2>2
    <3> HIDE DEF at
    <3>4. QED BY <3>2, <3>3
  <2> DEFINE T == Recover(th[Me], cs[at].old)
  <2>5. th' = [th EXCEPT ![Me] = T]
    BY <1>5, <2>4 DEF Land
  <2>6. AsFound(T, cs[at].old)
    <3>1. cs[at].k = "pcall" /\ T = Recover(th[Me], cs[at].old)
      BY <2>4
    <3> HIDE DEF at, T
    <3>2. QED BY <1>1, <2>1, <2>2, <3>1, LandPcall
  <2>7. th'[Me] = T
    BY <1>2, <2>5
  <2>8. QED BY <2>2, <2>4, <2>6, <2>7
<1>6. ASSUME Next PROVE PcallDone \/ Land
  <2>1. ~Active("call") /\ ~Active("raise") /\ ~Active("handler") /\ ~Active("exec") /\ ~Active("resume")
        /\ ~Active("host") /\ ~Active("cfun")
    BY DEF Active
  <2>2. TopA.k # "cfun" /\ \A f, at : ~In(f, at)
    BY <2>1 DEF In, Active
  <2>3. ~Runs
    BY <2>1 DEF Runs
  <2>4. /\ ~CallDone /\ ~ErrorMsg /\ ~HandlerDone /\ ~OpCall /\ ~OpCallC /\ ~OpTailCall /\ ~OpMeta
        /\ ~OpFault /\ ~OpClosure /\ ~OpReturn
    BY <2>1, <2>3, Zenon DEF CallDone, ErrorMsg, HandlerDone, OpCall, OpCallC, OpTailCall, OpMeta, OpFault,
                             OpClosure, OpReturn
  <2>5. /\ ~Error /\ ~PCall /\ ~luaB_cocreate /\ ~auxresume /\ ~ResumeDone /\ ~Transfer /\ ~luaB_yield /\ ~Host
    BY <2>1, <2>2, Zenon DEF Error, PCall, luaB_cocreate, auxresume, ResumeDone, Transfer, luaB_yield, Host
  <2>6. QED BY <1>6, <2>4, <2>5, Zenon DEF Next
<1>7. QED BY <1>3, <1>4, <1>5, <1>6

\* A protected call leaves its thread as it found it, whether it returns or an error ends
\* it: the frames, the count of calls and the error function, and no open upvalue of what
\* it called (luaD_pcall, luaD_throw).
THEOREM PcallLeavesAsFound == Spec => PcallRestores
<1> DEFINE Restores ==
      Active("pcall") \/ Active("throw") =>
        \A i \in DOMAIN cs : cs[i].k = "pcall" /\ Len(cs') = i - 1 =>
          LET T == th'[cs[i].t]
          IN  /\ T.nCcalls = cs[i].old.nCcalls /\ Len(T.ci) = cs[i].old.ci
              /\ T.errfunc = cs[i].old.errfunc
              /\ \A p \in T.open : p < cs[i].old.top
<1>1. CallsInv /\ [Next]_vars => [Restores]_vars
  <2> SUFFICES ASSUME CallsInv, [Next]_vars, Active("pcall") \/ Active("throw"), NEW i \in DOMAIN cs,
                      cs[i].k = "pcall", Len(cs') = i - 1
               PROVE  AsFound(th'[cs[i].t], cs[i].old)
    BY Zenon DEF AsFound
  <2>1. TopA.k \in {"pcall", "throw"}
    BY DEF Active
  <2>2. QED BY <2>1, StepRestores
<1>2. Spec => [][Restores]_vars
  BY CallsInvariant, <1>1, PTL DEF Spec
<1>3. QED BY <1>2 DEF PcallRestores
================================================================================
