---------------------------------- MODULE LuaGC ----------------------------------
(***************************************************************************)
(* The garbage collector of the Lua runtime (src/jni/lua/lgc.c), with the  *)
(* upvalues of lfunc.c and the interned strings of lstring.c: the marking  *)
(* goes on in steps while the script runs, and the script must tell it     *)
(* (the barriers) of what it stores in an object that is already marked.   *)
(*                                                                         *)
(*   mark[x]   "free" before x is allocated and after it is freed; else    *)
(*             the bits of gch.marked: "white" and "dead" are the current  *)
(*             white and the other one, which swap when currentwhite does; *)
(*             "gray", "black"                                             *)
(*   ref[x]    of a table the value of its one node, of a udata its        *)
(*             metatable and environment, of a function its upvalue, of a  *)
(*             closed upvalue its value                                    *)
(*   key[x]    of a table the key of the node                              *)
(*   mode[x]   of a table what is weak in it, a subset of {"k", "v"}       *)
(*   home[x]   of an open upvalue <<thread, slot>>, or <<>>                *)
(*   fin[x]    of a udata, whether its finalizer was scheduled             *)
(*   stack[t]  the values on the stack of a thread                         *)
(*   gc        the collector's part of global_State; unswept and strs are  *)
(*             what is left of rootgc and the string table in this sweep   *)
(*   L         the thread that runs                                        *)
(* The lists of the collector are sets: any gray object may be the next    *)
(* to be marked, any udata the next to be finalized; the sweep takes its   *)
(* objects one at a time in one fixed order.  An object is linked behind   *)
(* the sweep, where it makes no difference: it has the current white.      *)
(***************************************************************************)
EXTENDS Integers, Sequences, FiniteSets

CONSTANTS Kind,         \* the objects there may be, and what each of them is
          Main, Globals,
          Slots,        \* bound: how many values the stack of a thread holds
          Pools         \* bound: what a script allocates besides them (objects), the
                        \* modes of its tables, the tables that have objects as keys,
                        \* the thread that makes closures and whether it calls collectgarbage

Objects == DOMAIN Kind
ASSUME KindsAssumption ==
  /\ \A x \in Objects : Kind[x] \in {"table", "udata", "function", "upval", "thread", "string"}
  /\ Kind[Main] = "thread" /\ Kind[Globals] = "table"
  /\ \A p \in Pools : p.objects \subseteq Objects /\ p.modes \subseteq SUBSET {"k", "v"} /\ p.keys \subseteq Objects /\ p.closures \in Objects /\ p.full \in BOOLEAN

VARIABLES mark, ref, key, mode, home, fin, stack, gc, pool, L,
          lost          \* what was garbage when this cycle began, and still is
heap == <<mark, ref, key, mode, home, fin, stack, gc>>
vars == <<heap, pool, L, lost>>

Nil  == "nil"
Num  == "number"

(* The operators below take and return a state. *)
Now == [mark |-> mark, ref |-> ref, key |-> key, mode |-> mode, home |-> home, fin |-> fin, stack |-> stack, gc |-> gc]
Becomes(s) ==
  \E t \in {s} :
    /\ mark' = t.mark /\ ref' = t.ref /\ key' = t.key /\ mode' = t.mode /\ home' = t.home
    /\ fin' = t.fin /\ stack' = t.stack /\ gc' = t.gc

iswhite(s, x) == s.mark[x] \in {"white", "dead"}
isdead(s, x)  == s.mark[x] = "dead"
makewhite(s, x)  == [s EXCEPT !.mark[x] = "white"]
otherwhite(s) == [s EXCEPT !.mark = [x \in Objects |-> CASE @[x] = "white" -> "dead" [] @[x] = "dead" -> "white" [] OTHER -> @[x]]]
Open(s, t, level) == {v \in Objects : s.home[v] # <<>> /\ s.home[v][1] = t /\ s.home[v][2] >= level}
ValueOf(s, uv) == IF s.home[uv] = <<>> THEN s.ref[uv] ELSE s.stack[s.home[uv][1]][s.home[uv][2]]
Allocated(s, kinds) == {x \in Objects : s.mark[x] # "free" /\ Kind[x] \in kinds}
--------------------------------------------------------------------------------
(* Marking *)
RECURSIVE markvalue(_, _), markall(_, _)
reallymarkobject(s, x) ==
  LET g == [s EXCEPT !.mark[x] = "gray"]
      b == [s EXCEPT !.mark[x] = "black"]
  IN CASE Kind[x] = "string" -> g
       [] Kind[x] = "udata"  -> markvalue(b, s.ref[x])
       [] Kind[x] = "upval"  -> markvalue(IF s.home[x] = <<>> THEN b ELSE g, ValueOf(s, x))
       [] OTHER -> [g EXCEPT !.gc.gray = @ \cup {x}]

markvalue(s, v) == IF v \in Objects /\ iswhite(s, v) THEN reallymarkobject(s, v) ELSE s
markall(s, vs) ==
  IF vs = {} THEN s ELSE LET v == CHOOSE v \in vs : TRUE IN markall(markvalue(s, v), vs \ {v})

removeentry(s, t) == [s EXCEPT !.key[t] = IF @ = Num THEN @ ELSE "dead"]

traversetable(s, t) ==
  LET weak == s.mode[t]
      w == IF weak = {} THEN s ELSE [s EXCEPT !.gc.weak = @ \cup {t}, !.mark[t] = "gray"]
  IN CASE s.ref[t] = Nil -> IF weak = {"k", "v"} THEN w ELSE removeentry(w, t)
       [] OTHER -> markall(w, (IF "k" \in weak THEN {} ELSE {s.key[t]}) \cup (IF "v" \in weak THEN {} ELSE {s.ref[t]}))

traversestack(s, t) == markall(s, {Globals} \cup {s.stack[t][i] : i \in 1..Slots[t]})

propagatemark(s, x) ==
  LET b == [s EXCEPT !.gc.gray = @ \ {x}, !.mark[x] = "black"]
  IN CASE Kind[x] = "table" -> traversetable(b, x)
       [] Kind[x] = "function" -> markvalue(b, s.ref[x])
       [] Kind[x] = "thread" -> traversestack([b EXCEPT !.mark[x] = "gray", !.gc.grayagain = @ \cup {x}], x)

RECURSIVE propagateall(_)
propagateall(s) ==
  IF s.gc.gray = {} THEN s ELSE propagateall(propagatemark(s, CHOOSE x \in s.gc.gray : TRUE))

markroot(s) ==
  markall([s EXCEPT !.gc.gray = {}, !.gc.grayagain = {}, !.gc.weak = {}, !.gc.state = "propagate"], {Main, Globals})

(* The open upvalues of threads that may be garbage *)
remarkupvals(s) == markall(s, {ValueOf(s, v) : v \in {u \in Objects : s.home[u] # <<>> /\ s.mark[u] = "gray"}})

(* Userdata to be finalized are taken off the list of objects. *)
luaC_separateudata(s) ==
  LET us == {u \in Allocated(s, {"udata"}) : iswhite(s, u) /\ ~s.fin[u]}
  IN  [s EXCEPT !.fin = [u \in Objects |-> @[u] \/ u \in us], !.gc.tmudata = @ \cup us]
marktmu(s) ==
  LET us == s.gc.tmudata
  IN  markall([s EXCEPT !.mark = [x \in Objects |-> IF x \in us THEN "white" ELSE @[x]]], us)

iscleared(s, v, iskey) ==
  v \in Objects /\ Kind[v] # "string" /\ (iswhite(s, v) \/ (Kind[v] = "udata" /\ ~iskey /\ s.fin[v]))
RECURSIVE cleartable(_, _)
cleartable(s, weak) ==
  IF weak = {} THEN s
  ELSE LET t == CHOOSE t \in weak : TRUE
           strings == {v \in {s.key[t], s.ref[t]} : v \in Objects /\ Kind[v] = "string" /\ s.ref[t] # Nil}
           m == [s EXCEPT !.mark = [x \in Objects |-> IF x \in strings /\ iswhite(s, x) THEN "gray" ELSE @[x]]]
           clear == s.ref[t] # Nil /\ (iscleared(s, s.key[t], TRUE) \/ iscleared(s, s.ref[t], FALSE))
       IN  cleartable(IF clear THEN removeentry([m EXCEPT !.ref[t] = Nil], t) ELSE m, weak \ {t})

(* The lists are not used again before markroot empties them. *)
StartSweep(s) ==
  [s EXCEPT !.gc.state = "sweepstring", !.gc.gray = {}, !.gc.grayagain = {}, !.gc.weak = {},
            !.gc.strs = Allocated(s, {"string"}),
            !.gc.unswept = {x \in Allocated(s, {"table", "udata", "function", "upval", "thread"}) :
                              s.home[x] = <<>> /\ x \notin s.gc.tmudata}]

AtomicKeepsWhite(s0) ==
  LET s1 == propagateall(remarkupvals(s0))
      s3 == propagateall(markall([s1 EXCEPT !.gc.gray = s1.gc.grayagain \cup s1.gc.weak, !.gc.grayagain = {}, !.gc.weak = {}], {L}))
      s4 == propagateall(marktmu(luaC_separateudata(s3)))
  IN  StartSweep(cleartable(s4, s4.gc.weak))

atomic(s0) ==
  LET s1 == propagateall(remarkupvals(s0))
      s2 == propagateall(markvalue([s1 EXCEPT !.gc.gray = s1.gc.weak, !.gc.weak = {}], L))
      s3 == propagateall([s2 EXCEPT !.gc.gray = s2.gc.grayagain, !.gc.grayagain = {}])
      s4 == propagateall(marktmu(luaC_separateudata(s3)))
      s5 == cleartable(s4, s4.gc.weak)
  IN  StartSweep(otherwhite(s5))
--------------------------------------------------------------------------------
(* Upvalues, barriers *)
luaC_barrierf(s, o, v) == IF s.gc.state = "propagate" THEN reallymarkobject(s, v) ELSE makewhite(s, o)
luaC_barrier(s, o, v) ==
  IF v \in Objects /\ iswhite(s, v) /\ s.mark[o] = "black" THEN luaC_barrierf(s, o, v) ELSE s
luaC_barrierback(s, t) == [s EXCEPT !.mark[t] = "gray", !.gc.grayagain = @ \cup {t}]
NoBarrier(s, t, v) == s

luaC_barriert(s, t, v) ==
  IF v \in Objects /\ iswhite(s, v) /\ s.mark[t] = "black" THEN luaC_barrierback(s, t) ELSE s

luaC_linkupval(s, uv) ==
  CASE s.mark[uv] # "gray" -> s
    [] s.mark[uv] = "gray" /\ s.gc.state = "propagate" ->
         luaC_barrier([s EXCEPT !.mark[uv] = "black"], uv, s.ref[uv])
    [] OTHER -> makewhite(s, uv)

Free(s, x) == [s EXCEPT !.mark[x] = "free", !.ref[x] = Nil, !.key[x] = Num, !.home[x] = <<>>, !.mode[x] = {}, !.fin[x] = FALSE,
                        !.gc.unswept = @ \ {x}]
RECURSIVE CloseAll(_, _)
CloseAll(s, uvs) ==
  IF uvs = {} THEN s
  ELSE LET v == CHOOSE v \in uvs : TRUE
           c == [s EXCEPT !.ref[v] = ValueOf(s, v), !.home[v] = <<>>]
       IN  CloseAll(IF isdead(s, v) THEN Free(s, v) ELSE luaC_linkupval(c, v), uvs \ {v})
luaF_close(s, t, level) == CloseAll(s, Open(s, t, level))
--------------------------------------------------------------------------------
(* Sweeping *)
RECURSIVE SweepAll(_, _)
sweep(s, x) ==
  LET t == IF Kind[x] = "thread" THEN SweepAll(s, Open(s, x, 1)) ELSE s
      c == IF Kind[x] = "thread" THEN luaF_close(t, x, 1) ELSE t          \* luaE_freethread
  IN  IF ~isdead(t, x) THEN makewhite(t, x)
      ELSE [Free(c, x) EXCEPT !.stack = [u \in DOMAIN @ |-> IF u = x THEN [i \in 1..Slots[x] |-> Nil] ELSE @[u]]]
SweepAll(s, xs) == IF xs = {} THEN s ELSE LET x == CHOOSE x \in xs : TRUE IN SweepAll(sweep(s, x), xs \ {x})

First(xs) == IF xs = {} THEN {} ELSE {CHOOSE x \in xs : TRUE}
(* singlestep, up to the finalizers; x is the object it works on *)
Choices(s) == CASE s.gc.state = "propagate" -> s.gc.gray
                [] s.gc.state = "sweepstring" -> First(s.gc.strs)
                [] s.gc.state = "sweep" -> First(s.gc.unswept)
                [] OTHER -> {}
Step(s, x) ==
  CASE s.gc.state = "propagate" -> propagatemark(s, x)
    [] s.gc.state = "sweepstring" -> sweep([s EXCEPT !.gc.strs = @ \ {x}], x)
    [] s.gc.state = "sweep" -> sweep([s EXCEPT !.gc.unswept = @ \ {x}], x)
Phase(s) ==
  CASE s.gc.state = "pause" -> markroot(s)
    [] s.gc.state = "propagate" -> atomic(s)
    [] s.gc.state = "sweepstring" -> [s EXCEPT !.gc.state = "sweep"]
    [] s.gc.state = "sweep" -> [s EXCEPT !.gc.state = "finalize"]
    [] OTHER -> [s EXCEPT !.gc.state = "pause", !.gc.full = FALSE]

FinalizesAgain(s, u) == makewhite([s EXCEPT !.stack[L][Slots[L]] = u], u)

(* The finalizer runs as part of the script, with the udata on the stack. *)
GCTM(s, u) ==
  makewhite([s EXCEPT !.gc.tmudata = @ \ {u}, !.stack[L][Slots[L]] = u], u)

singlestep ==
  /\ \/ \E x \in Choices(Now) : Becomes(Step(Now, x))
     \/ Choices(Now) = {} /\ gc.tmudata # {} /\ gc.state = "finalize" /\ \E u \in gc.tmudata : Becomes(GCTM(Now, u))
     \/ Choices(Now) = {} /\ (gc.state = "finalize" => gc.tmudata = {}) /\ Becomes(Phase(Now))
  /\ UNCHANGED <<pool, L>>

RECURSIVE Finish(_)
Finish(s) ==
  IF s.gc.state = "finalize" THEN s
  ELSE Finish(IF Choices(s) = {} THEN Phase(s) ELSE Step(s, CHOOSE x \in Choices(s) : TRUE))

(* collectgarbage(): up to the finalizers, which singlestep calls.  The    *)
(* bound is that they do not call it again (but those of a step may).      *)
luaC_fullgc ==
  LET begun == Finish(IF gc.state \in {"pause", "propagate"} THEN StartSweep(Now) ELSE Now)
  IN  /\ ~gc.full /\ pool.full /\ UNCHANGED <<pool, L>>
      /\ Becomes([Finish(markroot(begun)) EXCEPT !.gc.full = TRUE])
--------------------------------------------------------------------------------
(* The script.  Between two steps it runs several instructions: it has at  *)
(* hand what is on the stack of the running thread and what the globals    *)
(* hold, and may get what those hold.                                      *)
Held == {stack[L][i] : i \in 1..Slots[L]}
Near == Held \cup {Globals, ref[Globals]} \cup (IF ref[Globals] = Nil THEN {} ELSE {key[Globals]})
Has(kind) == {x \in Near : x \in Objects /\ Kind[x] = kind}
Tables == Has("table")
Reads == {Nil} \cup Near \cup {ref[t] : t \in Tables} \cup {key[t] : t \in {u \in Tables : ref[u] # Nil}}
         \cup {ValueOf(Now, ref[f]) : f \in Has("function")}
Push(s, i, v) == [s EXCEPT !.stack[L][i] = v]
Same == UNCHANGED <<pool, L>>

Load == Same /\ \E i \in 1..Slots[L], v \in Reads : Becomes(Push(Now, i, v))

luaH_newkey(s, t, k) == luaC_barriert([s EXCEPT !.key[t] = k], t, k)
SetTable ==
  /\ Same
  /\ \E t \in Tables : \E k \in {Num} \cup (IF t \in pool.keys THEN Near \cap Objects ELSE {}), v \in Near :
       /\ key[t] = k \/ (ref[t] = Nil /\ v # Nil)
       /\ LET s == IF key[t] = k THEN Now ELSE luaH_newkey(Now, t, k)
          IN  Becomes(luaC_barriert([s EXCEPT !.ref[t] = v], t, v))

SetUdata ==     \* lua_setmetatable, lua_setfenv
  Same /\ \E u \in Has("udata"), t \in Tables : Becomes(luaC_barrier([Now EXCEPT !.ref[u] = t], u, t))
SetUpval ==
  /\ Same
  /\ \E f \in Has("function"), v \in Held :
       LET uv == ref[f]
           s == IF home[uv] = <<>> THEN [Now EXCEPT !.ref[uv] = v]
                ELSE [Now EXCEPT !.stack[home[uv][1]][home[uv][2]] = v]
       IN  Becomes(luaC_barrier(s, uv, v))

luaC_link(s, x) == [s EXCEPT !.mark[x] = "white"]
New(kind) == {x \in pool.objects : mark[x] = "free" /\ Kind[x] = kind}
NewTable == Same /\ \E x \in New("table"), i \in 1..Slots[L], m \in pool.modes :
              Becomes(Push(luaC_link([Now EXCEPT !.mode[x] = m], x), i, x))
NewUdata == Same /\ \E x \in New("udata"), i \in 1..Slots[L] :
              Becomes(Push(luaC_link([Now EXCEPT !.ref[x] = Globals], x), i, x))
NewThread == Same /\ \E x \in New("thread"), i \in 1..Slots[L] :
              Becomes(Push(luaC_link(Now, x), i, x))

(* A string that is still in the table is used again, even if it is dead. *)
changewhite(s, x) == IF isdead(s, x) THEN [s EXCEPT !.mark[x] = "white"] ELSE s
NewlstrKeepsDead(s, x) == IF s.mark[x] = "free" THEN luaC_link(s, x) ELSE s

luaS_newlstr(s, x) == IF s.mark[x] = "free" THEN luaC_link(s, x) ELSE changewhite(s, x)
NewString == Same /\ \E x \in pool.objects, i \in 1..Slots[L] :
              Kind[x] = "string" /\ Becomes(Push(luaS_newlstr(Now, x), i, x))

luaF_findupval(s, i, uv) ==
  IF Open(s, L, i) \ Open(s, L, i + 1) # {} THEN changewhite(s, uv)
  ELSE luaC_link([s EXCEPT !.home[uv] = <<L, i>>], uv)
NewClosure ==
  /\ Same /\ L = pool.closures
  /\ \E f \in New("function"), uv \in pool.objects, i \in 1..Slots[L], j \in 1..Slots[L] :
       /\ Kind[uv] = "upval"
       /\ home[uv] = <<L, i>> \/ (uv \in New("upval") /\ \A v \in Objects : home[v] # <<L, i>>)
       /\ Becomes(Push(luaC_link([luaF_findupval(Now, i, uv) EXCEPT !.ref[f] = uv], f), j, f))

(* A block or a function ends. *)
Close ==
  /\ Same
  /\ \E level \in 1..Slots[L] :
       LET s == luaF_close(Now, L, level)
       IN  Becomes([s EXCEPT !.stack[L] = [i \in 1..Slots[L] |-> IF i < level THEN @[i] ELSE Nil]])

(* lua_xmove: values go from one stack to the other *)
Resume ==
  /\ UNCHANGED pool
  /\ \E co \in Has("thread") \ {L}, v \in Held :
       \E i \in 1..Slots[co] : L = Main /\ L' = co /\ Becomes([Now EXCEPT !.stack[co][i] = v])
Yield ==
  /\ L # Main /\ L' = Main /\ UNCHANGED pool
  /\ \E i \in 1..Slots[Main], v \in Held : Becomes([Now EXCEPT !.stack[Main][i] = v])
--------------------------------------------------------------------------------
IsString(v) == v \in Objects /\ Kind[v] = "string"
Strong(x) ==            \* strings are never weak
  CASE Kind[x] = "table" -> {v \in {key[x], ref[x]} : /\ ref[x] # Nil
                                                     /\ \/ IsString(v)
                                                        \/ v = key[x] /\ "k" \notin mode[x]
                                                        \/ v = ref[x] /\ "v" \notin mode[x]}
    [] Kind[x] = "upval" -> {ValueOf(Now, x)}
    [] Kind[x] = "thread" -> {stack[x][i] : i \in 1..Slots[x]}
    [] OTHER -> {ref[x]}
Points(x) == IF Kind[x] = "table" THEN {key[x], ref[x]} ELSE Strong(x)

RECURSIVE From(_, _)
From(xs, to) ==
  LET more == (UNION {to[x] : x \in xs} \cap Objects) \ xs IN IF more = {} THEN xs ELSE From(xs \cup more, to)
Roots == {Main, Globals, L} \cup gc.tmudata
Reached   == From(Roots, [x \in Objects |-> Strong(x)])
Reachable == From(Roots, [x \in Objects |-> Points(x)])

Init ==
  /\ pool \in Pools
  /\ mark = [x \in Objects |-> IF x \in {Main, Globals} THEN "white" ELSE "free"]
  /\ ref = [x \in Objects |-> Nil] /\ key = [x \in Objects |-> Num] /\ mode = [x \in Objects |-> {}]
  /\ home = [x \in Objects |-> <<>>] /\ fin = [x \in Objects |-> FALSE]
  /\ stack = [t \in {x \in Objects : Kind[x] = "thread"} |-> [i \in 1..Slots[t] |-> Nil]]
  /\ gc = [state |-> "pause", gray |-> {}, grayagain |-> {}, weak |-> {},
           strs |-> {}, unswept |-> {}, tmudata |-> {}, full |-> FALSE]
  /\ L = Main /\ lost = {}

Script ==
  \/ Load \/ SetTable \/ SetUdata \/ SetUpval \/ NewTable \/ NewUdata \/ NewThread \/ NewString \/ NewClosure
  \/ Close \/ Resume \/ Yield
Garbage == {x \in Objects : mark[x] # "free"} \ Reached
Next ==
  /\ singlestep \/ luaC_fullgc \/ Script
  /\ lost' = CASE gc.state = "pause" /\ gc'.state = "propagate" -> Garbage
               [] OTHER -> IF lost = {} THEN {} ELSE lost \cap Garbage'

(* Every allocation past the threshold makes a step (luaC_checkGC).  There *)
(* is always one that changes the heap: this is weak fairness of singlestep. *)
Spec == Init /\ [][Next]_vars /\ []<><<singlestep>>_heap
--------------------------------------------------------------------------------
(* Nothing that the script can get at was freed or is about to be: not     *)
(* through a weak table, a closure of a dead coroutine, a finalizer or a   *)
(* string that is made again, whatever the script did between the steps    *)
(* of the collector.                                                       *)
LiveNotDead ==
  \A x \in Reachable : mark[x] # "free" /\ (gc.state \in {"sweepstring", "sweep"} => ~isdead(Now, x))

(* While marking goes on a black object holds no white one: the invariant  *)
(* that the barriers keep (lgc.c:648).                                     *)
NoBlackToWhite ==
  gc.state = "propagate" =>
    \A x \in Objects : mark[x] = "black" => \A y \in Strong(x) \cap Objects : ~iswhite(Now, y)

(* What the script had lost when a cycle began is freed by its end; a      *)
(* udata is then waiting for its finalizer, once, with all it refers to.   *)
Collected == gc.state \in {"finalize", "pause"} => lost = {}

(* A cycle that is begun ends, as long as the script allocates: marking    *)
(* does not go on forever behind the barriers, nor do finalizers.          *)
CyclesEnd == []<>(gc.state = "pause")
================================================================================
